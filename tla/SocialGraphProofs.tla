------------------------- MODULE SocialGraphProofs -------------------------
(***************************************************************************)
(* Proofs that the safety properties of SocialGraph hold for any finite    *)
(* set of users, any set of concurrent requests and any MAX_FOLLOWERS:     *)
(* what the rows say of follows, requests and blocks, then the follower    *)
(* limit, which holds because the user's row is locked over the count.     *)
(***************************************************************************)
EXTENDS SocialGraph, FiniteSetTheorems, TLAPS

\* What a request has done so far follows from the statement it is at.
Shape ==
    \A r \in Requests :
        /\ pc[r] = "idle" <=> op[r] = "none"
        /\ pc[r] \in {"lock", "count"} => op[r] = "follow"
        /\ pc[r] = "unfollow" => op[r] = "block"
        /\ pc[r] \in {"soft_delete", "unfollow_all", "unblock_all"} => op[r] = "delete_account"
        /\ pc[r] = "insert" => op[r] \in {"follow", "block"}
        /\ pc[r] \in {"fk_src", "fk_dst"} => adding[r]
        /\ op[r] \in {"follow", "block"} => Src(r) # Dst(r)
        /\ adding[r] => /\ op[r] \in {"follow", "block"}
                        /\ pc[r] \in {"fk_src", "fk_dst", "unfollow", "commit"}
        /\ dropF[r] # {} => \/ op[r] = "block" /\ pc[r] = "commit"
                            \/ op[r] = "delete_account" /\ pc[r] \in {"unblock_all", "commit"}
        /\ dropB[r] # {} => op[r] = "delete_account" /\ pc[r] = "commit"

\* The FOR UPDATE lock of a follow excludes every other lock of the row.
LocksExclude ==
    \A r, q \in Requests : \A u \in Users :
        r # q /\ HoldsUpdate(r, u) =>
            ~HoldsUpdate(q, u) /\ ~HoldsNoKeyUpdate(q, u) /\ ~HoldsKeyShare(q, u)

\* A follow past its lock: the followee exists, and once the row is inserted
\* no block of the pair is committed.
PendingFollow ==
    \A r \in Requests : op[r] = "follow" =>
        /\ pc[r] # "lock" => Dst(r) \notin deleted
        /\ adding[r] => edge[r] \notin blocks /\ Back(edge[r]) \notin blocks

\* A new block about to commit has deleted every follow of its pair.
PendingBlock ==
    \A r \in Requests : op[r] = "block" /\ pc[r] = "commit" /\ adding[r] =>
        follows \cap {edge[r], Back(edge[r])} \subseteq dropF[r]

\* An account deletion past its first DELETE has deleted every follow of the user.
PendingDelete ==
    \A r \in Requests : op[r] = "delete_account" /\ pc[r] \in {"unblock_all", "commit"} =>
        Followers(Src(r)) \subseteq dropF[r]

\* A follow past its count still has room for one more follower.
PendingCount ==
    \A r \in Requests :
        op[r] = "follow" /\ pc[r] \in {"insert", "fk_src", "fk_dst", "commit"} =>
            Cardinality(Followers(Dst(r))) < MAX_FOLLOWERS

IInv ==
    /\ TypeOK
    /\ Shape
    /\ LocksExclude
    /\ PendingFollow
    /\ PendingBlock
    /\ PendingDelete
    /\ NoFollowAcrossBlock
    /\ NoFollowersOfDeleted

CountInv == PendingCount /\ FollowersBounded

-----------------------------------------------------------------------------
\* Types are preserved by every step.
LEMMA TypeInductive == TypeOK /\ [Next]_vars => TypeOK'
<1> SUFFICES ASSUME TypeOK, [Next]_vars PROVE TypeOK'
    OBVIOUS
<1>r. ASSUME NEW r \in Requests, Rollback(r) PROVE TypeOK'
    BY <1>r, NoEdgeAssumption DEF TypeOK, Edges, Rollback, Done, Goto, tables
<1>g. ASSUME NEW r \in Requests, NEW label \in {"count", "insert", "unfollow_all"},
             pc[r] # "idle", Goto(r, label), UNCHANGED <<tables, op, edge, adding, dropF, dropB>>
      PROVE  TypeOK'
    BY <1>g DEF TypeOK, Edges, Goto, tables
<1>b. ASSUME NEW r \in Requests, Step(r), FollowLock(r) \/ FollowCount(r) \/ SoftDelete(r)
      PROVE  TypeOK'
    BY <1>b, <1>r, <1>g DEF FollowLock, FollowCount, SoftDelete, At
<1> USE NoEdgeAssumption DEF TypeOK, Edges
<1>1. ASSUME NEW r \in Requests, NEW e \in Edges, follow_user(r, e) PROVE TypeOK'
    BY <1>1 DEF follow_user, Begin, tables, Goto
<1>2. ASSUME NEW r \in Requests, NEW e \in Edges, block_user(r, e) PROVE TypeOK'
    BY <1>2 DEF block_user, Begin, tables, Goto
<1>3. ASSUME NEW r \in Requests, NEW u \in Users, delete_account(r, u) PROVE TypeOK'
    BY <1>3 DEF delete_account, Begin, tables, Goto
<1>4. ASSUME NEW r \in Requests, Step(r) PROVE TypeOK'
  <2>1. CASE FollowLock(r)
      BY <1>4, <1>b, <2>1
  <2>2. CASE FollowCount(r)
      BY <1>4, <1>b, <2>2
  <2>3. CASE FollowInsert(r)
      BY <2>3, ZenonT(30) DEF At, FollowInsert, tables, Goto
  <2>4. CASE ForeignKeySrc(r)
      BY <2>4 DEF ForeignKeySrc, tables, Goto
  <2>5. CASE ForeignKeyDst(r)
      BY <2>5 DEF ForeignKeyDst, tables, Goto
  <2>6. CASE BlockInsert(r)
      BY <2>6, ZenonT(30) DEF At, BlockInsert, tables, Goto
  <2>7. CASE BlockUnfollow(r)
      BY <2>7 DEF At, BlockUnfollow, tables, Goto
  <2>8. CASE SoftDelete(r)
      BY <1>4, <1>b, <2>8
  <2>9. CASE UnfollowAll(r)
      BY <2>9 DEF At, UnfollowAll, tables, Src, Back, Touching, Goto
  <2>10. CASE UnblockAll(r)
      BY <2>10 DEF At, UnblockAll, tables, Src, Back, Touching, Goto
  <2>11. CASE Commit(r)
      BY <2>11 DEF Commit, Added, Done, Src, Back, Touching, Goto
  <2> HIDE DEF TypeOK, Edges
  <2> QED BY <1>4, <2>1, <2>2, <2>3, <2>4, <2>5, <2>6, <2>7, <2>8, <2>9, <2>10, <2>11 DEF Step
<1>5. ASSUME NEW r \in Requests, Abort(r) PROVE TypeOK'
    BY <1>5, <1>r DEF Abort
<1>6. ASSUME NEW e \in follows, unfollow(e) PROVE TypeOK'
    BY <1>6 DEF unfollow
<1>7. ASSUME NEW e \in blocks, unblock(e) PROVE TypeOK'
    BY <1>7 DEF unblock
<1>8. CASE UNCHANGED vars
    BY <1>8 DEF vars
<1> HIDE DEF TypeOK, Edges
<1> QED BY <1>1, <1>2, <1>3, <1>4, <1>5, <1>6, <1>7, <1>8 DEF Next

\* Every step moves a request along the statements of its operation.
LEMMA ShapeInductive == TypeOK /\ Shape /\ [Next]_vars => Shape'
<1> SUFFICES ASSUME TypeOK, Shape, [Next]_vars PROVE Shape'
    OBVIOUS
<1> USE DEF TypeOK, Shape
<1>1. ASSUME NEW r \in Requests, NEW e \in Edges, follow_user(r, e) PROVE Shape'
    BY <1>1 DEF follow_user, Begin, Src, Dst, Goto
<1>2. ASSUME NEW r \in Requests, NEW e \in Edges, block_user(r, e) PROVE Shape'
    BY <1>2 DEF block_user, Begin, Src, Dst, Goto
<1>3. ASSUME NEW r \in Requests, NEW u \in Users, delete_account(r, u) PROVE Shape'
    BY <1>3 DEF delete_account, Begin, Src, Dst, Goto
<1>4. ASSUME NEW r \in Requests, Step(r) PROVE Shape'
  <2>1. CASE FollowLock(r)
      BY <2>1 DEF At, FollowLock, Rollback, Done, Src, Dst, Goto
  <2>2. CASE FollowCount(r)
      BY <2>2 DEF At, FollowCount, Rollback, Done, Src, Dst, Goto
  <2>3. CASE FollowInsert(r)
      BY <2>3 DEF At, FollowInsert, Src, Dst, Goto
  <2>4. CASE ForeignKeySrc(r)
      BY <2>4 DEF ForeignKeySrc, Src, Dst, Goto
  <2>5. CASE ForeignKeyDst(r)
      BY <2>5 DEF ForeignKeyDst, Src, Dst, Goto
  <2>6. CASE BlockInsert(r)
      BY <2>6 DEF At, BlockInsert, Src, Dst, Goto
  <2>7. CASE BlockUnfollow(r)
      BY <2>7 DEF At, BlockUnfollow, Src, Dst, Goto
  <2>8. CASE SoftDelete(r)
      BY <2>8 DEF At, SoftDelete, Rollback, Done, Src, Dst, Goto
  <2>9. CASE UnfollowAll(r)
      BY <2>9 DEF At, UnfollowAll, Src, Dst, Goto
  <2>10. CASE UnblockAll(r)
      BY <2>10 DEF At, UnblockAll, Src, Dst, Goto
  <2>11. CASE Commit(r)
      BY <2>11 DEF Commit, Added, Done, Src, Dst, Goto
  <2> HIDE DEF TypeOK, Shape
  <2> QED BY <1>4, <2>1, <2>2, <2>3, <2>4, <2>5, <2>6, <2>7, <2>8, <2>9, <2>10, <2>11 DEF Step
<1>5. ASSUME NEW r \in Requests, Abort(r) PROVE Shape'
    BY <1>5 DEF Abort, Rollback, Done, Src, Dst, Goto
<1>6. ASSUME NEW e \in follows, unfollow(e) PROVE Shape'
    BY <1>6 DEF unfollow, Src, Dst
<1>7. ASSUME NEW e \in blocks, unblock(e) PROVE Shape'
    BY <1>7 DEF unblock, Src, Dst
<1>8. CASE UNCHANGED vars
    BY <1>8 DEF vars, Src, Dst
<1> HIDE DEF TypeOK, Shape
<1> QED BY <1>1, <1>2, <1>3, <1>4, <1>5, <1>6, <1>7, <1>8 DEF Next

\* A statement that takes a lock waits for those who hold a conflicting one.
LEMMA LocksInductive == TypeOK /\ Shape /\ LocksExclude /\ [Next]_vars => LocksExclude'
<1> SUFFICES ASSUME TypeOK, Shape, LocksExclude, [Next]_vars PROVE LocksExclude'
    OBVIOUS
<1> USE DEF TypeOK, Shape, LocksExclude, HoldsUpdate, HoldsNoKeyUpdate, HoldsKeyShare
<1>1. ASSUME NEW r \in Requests, NEW e \in Edges, follow_user(r, e) PROVE LocksExclude'
    BY <1>1 DEF follow_user, Begin, Src, Dst, WaitsFor, Goto
<1>2. ASSUME NEW r \in Requests, NEW e \in Edges, block_user(r, e) PROVE LocksExclude'
    BY <1>2 DEF block_user, Begin, Src, Dst, WaitsFor, Goto
<1>3. ASSUME NEW r \in Requests, NEW u \in Users, delete_account(r, u) PROVE LocksExclude'
    BY <1>3 DEF delete_account, Begin, Src, Dst, WaitsFor, Goto
<1>4. ASSUME NEW r \in Requests, Step(r) PROVE LocksExclude'
  <2>1. CASE FollowLock(r)
      BY <2>1 DEF At, FollowLock, Rollback, Done, Src, Dst, WaitsFor, Goto
  <2>2. CASE FollowCount(r)
      BY <2>2 DEF At, FollowCount, Rollback, Done, Src, Dst, WaitsFor, Goto
  <2>3. CASE FollowInsert(r)
      BY <2>3 DEF At, FollowInsert, Src, Dst, WaitsFor, Goto
  <2>4. CASE ForeignKeySrc(r)
      BY <2>4 DEF ForeignKeySrc, Src, Dst, WaitsFor, Goto
  <2>5. CASE ForeignKeyDst(r)
      BY <2>5 DEF ForeignKeyDst, Src, Dst, WaitsFor, Goto
  <2>6. CASE BlockInsert(r)
      BY <2>6 DEF At, BlockInsert, Src, Dst, WaitsFor, Goto
  <2>7. CASE BlockUnfollow(r)
      BY <2>7 DEF At, BlockUnfollow, Src, Dst, WaitsFor, Goto
  <2>8. CASE SoftDelete(r)
      BY <2>8 DEF At, SoftDelete, Rollback, Done, Src, Dst, WaitsFor, Goto
  <2>9. CASE UnfollowAll(r)
      BY <2>9 DEF At, UnfollowAll, Src, Dst, WaitsFor, Goto
  <2>10. CASE UnblockAll(r)
      BY <2>10 DEF At, UnblockAll, Src, Dst, WaitsFor, Goto
  <2>11. CASE Commit(r)
      BY <2>11 DEF Commit, Added, Done, Src, Dst, WaitsFor, Goto
  <2> HIDE DEF TypeOK, Shape, LocksExclude, HoldsUpdate, HoldsNoKeyUpdate, HoldsKeyShare
  <2> QED BY <1>4, <2>1, <2>2, <2>3, <2>4, <2>5, <2>6, <2>7, <2>8, <2>9, <2>10, <2>11 DEF Step
<1>5. ASSUME NEW r \in Requests, Abort(r) PROVE LocksExclude'
    BY <1>5 DEF Abort, Rollback, Done, Src, Dst, WaitsFor, Goto
<1>6. ASSUME NEW e \in follows, unfollow(e) PROVE LocksExclude'
    BY <1>6 DEF unfollow, Src, Dst, WaitsFor
<1>7. ASSUME NEW e \in blocks, unblock(e) PROVE LocksExclude'
    BY <1>7 DEF unblock, Src, Dst, WaitsFor
<1>8. CASE UNCHANGED vars
    BY <1>8 DEF vars, Src, Dst, WaitsFor
<1> HIDE DEF TypeOK, Shape, LocksExclude, HoldsUpdate, HoldsNoKeyUpdate, HoldsKeyShare
<1> QED BY <1>1, <1>2, <1>3, <1>4, <1>5, <1>6, <1>7, <1>8 DEF Next

\* What a follow found under its lock stays so until it commits.
LEMMA PendingFollowInductive == TypeOK /\ Shape /\ LocksExclude /\ PendingFollow /\ [Next]_vars => PendingFollow'
<1> SUFFICES ASSUME TypeOK, Shape, LocksExclude, PendingFollow, [Next]_vars PROVE PendingFollow'
    OBVIOUS
<1> USE DEF TypeOK, Shape, PendingFollow
<1>1. ASSUME NEW r \in Requests, NEW e \in Edges, follow_user(r, e) PROVE PendingFollow'
    BY <1>1 DEF follow_user, Begin, tables, Src, Dst, Back, Edges, Goto
<1>2. ASSUME NEW r \in Requests, NEW e \in Edges, block_user(r, e) PROVE PendingFollow'
    BY <1>2 DEF block_user, Begin, tables, Src, Dst, Back, Edges, Goto
<1>3. ASSUME NEW r \in Requests, NEW u \in Users, delete_account(r, u) PROVE PendingFollow'
    BY <1>3 DEF delete_account, Begin, tables, Src, Dst, Back, Edges, Goto
<1>4. ASSUME NEW r \in Requests, Step(r) PROVE PendingFollow'
  <2>1. CASE FollowLock(r)
      BY <2>1 DEF FollowLock, Rollback, Done, tables, Src, Dst, Back, Edges, Goto
  <2>2. CASE FollowCount(r)
      BY <2>2 DEF At, FollowCount, Rollback, Done, tables, Src, Dst, Back, Edges, Goto
  <2>3. CASE FollowInsert(r)
      BY <2>3 DEF At, FollowInsert, tables, Src, Dst, Back, Edges, Goto
  <2>4. CASE ForeignKeySrc(r)
      BY <2>4 DEF ForeignKeySrc, tables, Src, Dst, Back, Edges, Goto
  <2>5. CASE ForeignKeyDst(r)
      BY <2>5 DEF ForeignKeyDst, tables, Src, Dst, Back, Edges, Goto
  <2>6. CASE BlockInsert(r)
      BY <2>6 DEF At, BlockInsert, tables, Src, Dst, Back, Edges, Goto
  <2>7. CASE BlockUnfollow(r)
      BY <2>7 DEF At, BlockUnfollow, tables, Src, Dst, Back, Edges, Goto
  <2>8. CASE SoftDelete(r)
      BY <2>8 DEF At, SoftDelete, Rollback, Done, tables, Src, Dst, Back, Edges, Goto
  <2>9. CASE UnfollowAll(r)
      BY <2>9 DEF At, UnfollowAll, tables, Src, Dst, Back, Edges, Goto
  <2>10. CASE UnblockAll(r)
      BY <2>10 DEF At, UnblockAll, tables, Src, Dst, Back, Edges, Goto
  <2>11. CASE Commit(r)
      <3> SUFFICES ASSUME NEW q \in Requests, op'[q] = "follow"
                   PROVE  /\ pc'[q] # "lock" => Dst(q)' \notin deleted'
                          /\ adding'[q] => edge'[q] \notin blocks' /\ Back(edge'[q]) \notin blocks'
          BY DEF Dst, Back
      <3>1. /\ q # r /\ op[q] = op'[q] /\ edge[q] = edge'[q] /\ pc[q] = pc'[q]
            /\ adding[q] = adding'[q] /\ dropF[q] = dropF'[q] /\ edge[q] \in Edges /\ edge[r] \in Edges
          BY <2>11, ZenonT(30) DEF Commit, Done, Goto
      <3>2. ASSUME pc[q] # "lock" PROVE Dst(q) \in Users /\ HoldsUpdate(q, Dst(q))
          BY <3>1, <3>2 DEF HoldsUpdate, Dst, Edges
      <3>3. pc[q] # "lock" /\ op[r] = "delete_account" => Src(r) # Dst(q)
          BY <2>11, <3>1, <3>2 DEF Commit, LocksExclude, HoldsNoKeyUpdate
      <3>4. pc[q] # "lock" /\ adding[r] => edge[r] # edge[q] /\ edge[r] # Back(edge[q])
          BY <2>11, <3>1, <3>2 DEF Commit, LocksExclude, HoldsKeyShare, Src, Dst, Back
      <3> QED BY <2>11, <3>1, <3>3, <3>4 DEF Commit, Added, Dst
  <2> HIDE DEF TypeOK, Shape, PendingFollow
  <2> QED BY <1>4, <2>1, <2>2, <2>3, <2>4, <2>5, <2>6, <2>7, <2>8, <2>9, <2>10, <2>11 DEF Step
<1>5. ASSUME NEW r \in Requests, Abort(r) PROVE PendingFollow'
    BY <1>5 DEF Abort, Rollback, Done, tables, Src, Dst, Back, Edges, Goto
<1>6. ASSUME NEW e \in follows, unfollow(e) PROVE PendingFollow'
    BY <1>6 DEF unfollow, Src, Dst, Back, Edges
<1>7. ASSUME NEW e \in blocks, unblock(e) PROVE PendingFollow'
    BY <1>7 DEF unblock, Src, Dst, Back, Edges
<1>8. CASE UNCHANGED vars
    BY <1>8 DEF vars, Src, Dst, Back, Edges
<1> HIDE DEF TypeOK, Shape, PendingFollow
<1> QED BY <1>1, <1>2, <1>3, <1>4, <1>5, <1>6, <1>7, <1>8 DEF Next

\* No follow of the pair commits while a new block is pending.
LEMMA PendingBlockInductive == TypeOK /\ Shape /\ LocksExclude /\ PendingBlock /\ [Next]_vars => PendingBlock'
<1> SUFFICES ASSUME TypeOK, Shape, LocksExclude, PendingBlock, [Next]_vars PROVE PendingBlock'
    OBVIOUS
<1> USE DEF TypeOK, Shape, PendingBlock
<1>1. ASSUME NEW r \in Requests, NEW e \in Edges, follow_user(r, e) PROVE PendingBlock'
    BY <1>1 DEF follow_user, Begin, tables, Goto
<1>2. ASSUME NEW r \in Requests, NEW e \in Edges, block_user(r, e) PROVE PendingBlock'
    BY <1>2 DEF block_user, Begin, tables, Goto
<1>3. ASSUME NEW r \in Requests, NEW u \in Users, delete_account(r, u) PROVE PendingBlock'
    BY <1>3 DEF delete_account, Begin, tables, Goto
<1>4. ASSUME NEW r \in Requests, Step(r) PROVE PendingBlock'
  <2>1. CASE FollowLock(r)
      BY <2>1 DEF FollowLock, Rollback, Done, tables, Goto
  <2>2. CASE FollowCount(r)
      BY <2>2 DEF FollowCount, Rollback, Done, tables, Goto
  <2>3. CASE FollowInsert(r)
      BY <2>3 DEF At, FollowInsert, tables, Goto
  <2>4. CASE ForeignKeySrc(r)
      BY <2>4 DEF ForeignKeySrc, tables, Goto
  <2>5. CASE ForeignKeyDst(r)
      BY <2>5 DEF ForeignKeyDst, tables, Goto
  <2>6. CASE BlockInsert(r)
      BY <2>6 DEF BlockInsert, tables, Goto
  <2>7. CASE BlockUnfollow(r)
      BY <2>7 DEF BlockUnfollow, tables, Goto
  <2>8. CASE SoftDelete(r)
      BY <2>8 DEF SoftDelete, Rollback, Done, tables, Goto
  <2>9. CASE UnfollowAll(r)
      BY <2>9 DEF UnfollowAll, tables, Goto
  <2>10. CASE UnblockAll(r)
      BY <2>10 DEF At, UnblockAll, tables, Goto
  <2>11. CASE Commit(r)
      <3> SUFFICES ASSUME NEW q \in Requests, op'[q] = "block", pc'[q] = "commit", adding'[q]
                   PROVE  follows' \cap {edge'[q], Back(edge'[q])} \subseteq dropF'[q]
          BY DEF Back
      <3>1. /\ q # r /\ op[q] = op'[q] /\ edge[q] = edge'[q] /\ pc[q] = pc'[q]
            /\ adding[q] = adding'[q] /\ dropF[q] = dropF'[q] /\ edge[q] \in Edges /\ edge[r] \in Edges
          BY <2>11, ZenonT(30) DEF Commit, Done, Goto
      <3>2. op[r] = "follow" /\ adding[r] => edge[r] # edge[q] /\ edge[r] # Back(edge[q])
        <4> SUFFICES ASSUME op[r] = "follow", adding[r], edge[r] \in {edge[q], Back(edge[q])} PROVE FALSE
            OBVIOUS
        <4>1. Dst(r) \in Users /\ HoldsUpdate(r, Dst(r))
            BY <2>11, <3>1 DEF Commit, HoldsUpdate, Dst, Edges
        <4>2. HoldsKeyShare(q, Dst(r))
            BY <3>1 DEF HoldsKeyShare, Src, Dst, Back
        <4> QED BY <3>1, <4>1, <4>2 DEF LocksExclude
      <3> QED BY <2>11, <3>1, <3>2, ZenonT(30) DEF Commit, Added
  <2> HIDE DEF TypeOK, Shape, PendingBlock
  <2> QED BY <1>4, <2>1, <2>2, <2>3, <2>4, <2>5, <2>6, <2>7, <2>8, <2>9, <2>10, <2>11, ZenonT(30) DEF Step
<1>5. ASSUME NEW r \in Requests, Abort(r) PROVE PendingBlock'
    BY <1>5 DEF Abort, Rollback, Done, tables, Goto
<1>6. ASSUME NEW e \in follows, unfollow(e) PROVE PendingBlock'
    BY <1>6 DEF unfollow
<1>7. ASSUME NEW e \in blocks, unblock(e) PROVE PendingBlock'
    BY <1>7 DEF unblock
<1>8. CASE UNCHANGED vars
    BY <1>8 DEF vars
<1> HIDE DEF TypeOK, Shape, PendingBlock
<1> QED BY <1>1, <1>2, <1>3, <1>4, <1>5, <1>6, <1>7, <1>8 DEF Next

\* Nobody starts to follow a user whose deletion is pending.
LEMMA PendingDeleteInductive == TypeOK /\ Shape /\ LocksExclude /\ PendingDelete /\ [Next]_vars => PendingDelete'
<1> SUFFICES ASSUME TypeOK, Shape, LocksExclude, PendingDelete, [Next]_vars PROVE PendingDelete'
    OBVIOUS
<1> USE DEF TypeOK, Shape, PendingDelete
<1>1. ASSUME NEW r \in Requests, NEW e \in Edges, follow_user(r, e) PROVE PendingDelete'
    BY <1>1 DEF follow_user, Begin, tables, Src, Dst, Followers, Touching, Edges, Goto
<1>2. ASSUME NEW r \in Requests, NEW e \in Edges, block_user(r, e) PROVE PendingDelete'
    BY <1>2 DEF block_user, Begin, tables, Src, Dst, Followers, Touching, Edges, Goto
<1>3. ASSUME NEW r \in Requests, NEW u \in Users, delete_account(r, u) PROVE PendingDelete'
    BY <1>3 DEF delete_account, Begin, tables, Src, Dst, Followers, Touching, Edges, Goto
<1>4. ASSUME NEW r \in Requests, Step(r) PROVE PendingDelete'
  <2>1. CASE FollowLock(r)
      BY <2>1 DEF FollowLock, Rollback, Done, tables, Src, Dst, Followers, Touching, Edges, Goto
  <2>2. CASE FollowCount(r)
      BY <2>2 DEF FollowCount, Rollback, Done, tables, Src, Dst, Followers, Touching, Edges, Goto
  <2>3. CASE FollowInsert(r)
      BY <2>3 DEF At, FollowInsert, tables, Src, Dst, Followers, Touching, Edges, Goto
  <2>4. CASE ForeignKeySrc(r)
      BY <2>4 DEF ForeignKeySrc, tables, Src, Dst, Followers, Touching, Edges, Goto
  <2>5. CASE ForeignKeyDst(r)
      BY <2>5 DEF ForeignKeyDst, tables, Src, Dst, Followers, Touching, Edges, Goto
  <2>6. CASE BlockInsert(r)
      BY <2>6 DEF BlockInsert, tables, Src, Dst, Followers, Touching, Edges, Goto
  <2>7. CASE BlockUnfollow(r)
      BY <2>7 DEF At, BlockUnfollow, tables, Src, Dst, Followers, Touching, Edges, Goto
  <2>8. CASE SoftDelete(r)
      BY <2>8 DEF SoftDelete, Rollback, Done, tables, Src, Dst, Followers, Touching, Edges, Goto
  <2>9. CASE UnfollowAll(r)
      BY <2>9 DEF UnfollowAll, tables, Src, Dst, Followers, Touching, Edges, Goto
  <2>10. CASE UnblockAll(r)
      BY <2>10 DEF At, UnblockAll, tables, Src, Dst, Followers, Touching, Edges, Goto
  <2>11. CASE Commit(r)
      <3> SUFFICES ASSUME NEW q \in Requests, op'[q] = "delete_account", pc'[q] \in {"unblock_all", "commit"}
                   PROVE  Followers(Src(q))' \subseteq dropF'[q]
          OBVIOUS
      <3>1. /\ q # r /\ op[q] = op'[q] /\ edge[q] = edge'[q] /\ pc[q] = pc'[q]
            /\ adding[q] = adding'[q] /\ dropF[q] = dropF'[q] /\ edge[q] \in Edges /\ edge[r] \in Edges
          BY <2>11, ZenonT(30) DEF Commit, Done, Goto
      <3>2. op[r] = "follow" => Dst(r) # Src(q)
        <4> SUFFICES ASSUME op[r] = "follow", Dst(r) = Src(q) PROVE FALSE
            OBVIOUS
        <4>1. Dst(r) \in Users /\ HoldsUpdate(r, Dst(r))
            BY <2>11, <3>1 DEF Commit, HoldsUpdate, Dst, Edges
        <4>2. HoldsNoKeyUpdate(q, Dst(r))
            BY <3>1 DEF HoldsNoKeyUpdate
        <4> QED BY <3>1, <4>1, <4>2 DEF LocksExclude
      <3> QED BY <2>11, <3>1, <3>2 DEF Commit, Added, Followers, Src, Dst
  <2> HIDE DEF TypeOK, Shape, PendingDelete
  <2> QED BY <1>4, <2>1, <2>2, <2>3, <2>4, <2>5, <2>6, <2>7, <2>8, <2>9, <2>10, <2>11, ZenonT(30) DEF Step
<1>5. ASSUME NEW r \in Requests, Abort(r) PROVE PendingDelete'
    BY <1>5 DEF Abort, Rollback, Done, tables, Src, Dst, Followers, Touching, Edges, Goto
<1>6. ASSUME NEW e \in follows, unfollow(e) PROVE PendingDelete'
    BY <1>6 DEF unfollow, Src, Dst, Followers, Touching, Edges
<1>7. ASSUME NEW e \in blocks, unblock(e) PROVE PendingDelete'
    BY <1>7 DEF unblock, Src, Dst, Followers, Touching, Edges
<1>8. CASE UNCHANGED vars
    BY <1>8 DEF vars, Src, Dst, Followers, Touching, Edges
<1> HIDE DEF TypeOK, Shape, PendingDelete
<1> QED BY <1>1, <1>2, <1>3, <1>4, <1>5, <1>6, <1>7, <1>8, ZenonT(30) DEF Next

\* Only Commit adds to a table or deletes a user.
LEMMA OnlyCommitAdds ==
    [Next]_vars => \/ \E r \in Requests : Commit(r)
                   \/ follows' \subseteq follows /\ blocks' \subseteq blocks /\ deleted' = deleted
<1> SUFFICES ASSUME [Next]_vars
             PROVE  \/ \E r \in Requests : Commit(r)
                    \/ follows' \subseteq follows /\ blocks' \subseteq blocks /\ deleted' = deleted
    OBVIOUS
<1> USE DEF Rollback, tables
<1>1. ASSUME NEW r \in Requests, Step(r), ~Commit(r) PROVE UNCHANGED tables
  <2>1. CASE FollowLock(r)
      BY <2>1 DEF FollowLock
  <2>2. CASE FollowCount(r)
      BY <2>2 DEF FollowCount
  <2>3. CASE FollowInsert(r)
      BY <2>3 DEF FollowInsert
  <2>4. CASE ForeignKeySrc(r)
      BY <2>4 DEF ForeignKeySrc
  <2>5. CASE ForeignKeyDst(r)
      BY <2>5 DEF ForeignKeyDst
  <2>6. CASE BlockInsert(r)
      BY <2>6 DEF BlockInsert
  <2>7. CASE BlockUnfollow(r)
      BY <2>7 DEF BlockUnfollow
  <2>8. CASE SoftDelete(r)
      BY <2>8 DEF SoftDelete
  <2>9. CASE UnfollowAll(r)
      BY <2>9 DEF UnfollowAll
  <2>10. CASE UnblockAll(r)
      BY <2>10 DEF UnblockAll
  <2> HIDE DEF Rollback, tables
  <2> QED BY <1>1, <2>1, <2>2, <2>3, <2>4, <2>5, <2>6, <2>7, <2>8, <2>9, <2>10 DEF Step
<1>2. ASSUME NEW r \in Requests, Abort(r) PROVE UNCHANGED tables
    BY <1>2 DEF Abort
<1>3. ASSUME NEW r \in Requests, NEW e \in Edges, follow_user(r, e) \/ block_user(r, e)
      PROVE  UNCHANGED tables
    BY <1>3 DEF follow_user, block_user, Begin
<1>4. ASSUME NEW r \in Requests, NEW u \in Users, delete_account(r, u) PROVE UNCHANGED tables
    BY <1>4 DEF delete_account, Begin
<1>5. ASSUME NEW e, unfollow(e) \/ unblock(e)
      PROVE  follows' \subseteq follows /\ blocks' \subseteq blocks /\ deleted' = deleted
    BY <1>5 DEF unfollow, unblock
<1>6. CASE UNCHANGED vars
    BY <1>6 DEF vars
<1> HIDE DEF Rollback
<1> QED BY <1>1, <1>2, <1>3, <1>4, <1>5, <1>6 DEF Next

\* Commits of follows and of blocks keep the two tables apart.
LEMMA NoFollowAcrossBlockInductive ==
    TypeOK /\ Shape /\ PendingFollow /\ PendingBlock /\ NoFollowAcrossBlock /\ [Next]_vars => NoFollowAcrossBlock'
<1> SUFFICES ASSUME TypeOK, Shape, PendingFollow, PendingBlock, NoFollowAcrossBlock, [Next]_vars
             PROVE  NoFollowAcrossBlock'
    OBVIOUS
<1> USE DEF TypeOK, Shape, NoFollowAcrossBlock
<1>1. ASSUME NEW r \in Requests, Commit(r) PROVE NoFollowAcrossBlock'
<2>1. edge[r] \in Edges
    BY <1>1 DEF Commit
<2>2. CASE op[r] = "follow" /\ adding[r]
  <3>1. edge[r] \notin blocks /\ Back(edge[r]) \notin blocks
      BY <2>2 DEF PendingFollow
  <3>2. follows' \subseteq follows \cup {edge[r]} /\ blocks' \subseteq blocks
      BY <1>1, <2>2 DEF Commit, Added
  <3> QED BY <3>1, <3>2
<2>3. CASE op[r] = "block" /\ adding[r]
  <3>1. follows' \subseteq follows \ {edge[r], Back(edge[r])} /\ blocks' \subseteq blocks \cup {edge[r]}
      BY <1>1, <2>3 DEF Commit, Added, PendingBlock
  <3>2. \A e \in Edges : Back(e) = edge[r] => e = Back(edge[r])
      BY <2>1 DEF Back, Edges
  <3> QED BY <3>1, <3>2
<2>4. CASE ~adding[r] \/ op[r] \notin {"follow", "block"}
  <3>1. follows' \subseteq follows /\ blocks' \subseteq blocks
      BY <1>1, <2>4 DEF Commit, Added
  <3> QED BY <3>1
<2> QED BY <2>2, <2>3, <2>4
<1>2. CASE follows' \subseteq follows /\ blocks' \subseteq blocks /\ deleted' = deleted
    BY <1>2
<1> QED BY <1>1, <1>2, OnlyCommitAdds

\* Commits of follows and of account deletions keep followees alive.
LEMMA NoFollowersOfDeletedInductive ==
    TypeOK /\ Shape /\ PendingFollow /\ PendingDelete /\ NoFollowersOfDeleted /\ [Next]_vars => NoFollowersOfDeleted'
<1> SUFFICES ASSUME TypeOK, Shape, PendingFollow, PendingDelete, NoFollowersOfDeleted, [Next]_vars
             PROVE  NoFollowersOfDeleted'
    OBVIOUS
<1> USE DEF TypeOK, Shape, NoFollowersOfDeleted
<1>1. ASSUME NEW r \in Requests, Commit(r) PROVE NoFollowersOfDeleted'
<2>1. CASE op[r] = "follow"
  <3>1. Dst(r) \notin deleted /\ deleted' = deleted /\ follows' \subseteq follows \cup {edge[r]}
      BY <1>1, <2>1 DEF Commit, Added, PendingFollow
  <3> QED BY <3>1 DEF Dst
<2>2. CASE op[r] = "delete_account"
  <3>1. /\ follows' \subseteq follows \ Followers(Src(r))
        /\ deleted' = deleted \cup {Src(r)}
      BY <1>1, <2>2 DEF Commit, Added, PendingDelete
  <3> QED BY <3>1 DEF Followers
<2>3. CASE op[r] \notin {"follow", "delete_account"}
  <3>1. follows' \subseteq follows /\ deleted' = deleted
      BY <1>1, <2>3 DEF Commit, Added
  <3> QED BY <3>1
<2> QED BY <2>1, <2>2, <2>3
<1>2. CASE follows' \subseteq follows /\ blocks' \subseteq blocks /\ deleted' = deleted
    BY <1>2
<1> QED BY <1>1, <1>2, OnlyCommitAdds

\* The inductive invariant holds in every reachable state.
THEOREM Invariance == Spec => []IInv
<1>1. Init => IInv
    BY NoEdgeAssumption DEF Init, IInv, TypeOK, Shape, LocksExclude, PendingFollow, PendingBlock,
       PendingDelete, NoFollowAcrossBlock, NoFollowersOfDeleted, HoldsUpdate, Edges
<1>2. IInv /\ [Next]_vars => IInv'
    BY TypeInductive, ShapeInductive, LocksInductive, PendingFollowInductive,
       PendingBlockInductive, PendingDeleteInductive, NoFollowAcrossBlockInductive,
       NoFollowersOfDeletedInductive DEF IInv
<1> QED BY <1>1, <1>2, PTL DEF Spec

\* Every variable of SocialGraph keeps its type in every reachable state.
THEOREM TypeCorrect == Spec => []TypeOK
<1>1. IInv => TypeOK
    BY DEF IInv
<1> QED BY <1>1, Invariance, PTL

\* No interleaving of follow, block, unfollow, unblock and delete_account
\* leaves a follow beside a block of the same two users.
THEOREM NoFollowAcrossBlockHolds == Spec => []NoFollowAcrossBlock
<1>1. IInv => NoFollowAcrossBlock
    BY DEF IInv
<1> QED BY <1>1, Invariance, PTL

\* Whatever follow transactions race with delete_account, nobody is left
\* following the deleted account.
THEOREM NoFollowersOfDeletedHolds == Spec => []NoFollowersOfDeleted
<1>1. IInv => NoFollowersOfDeleted
    BY DEF IInv
<1> QED BY <1>1, Invariance, PTL


-----------------------------------------------------------------------------
(* The follower limit. *)

PastCount == {"insert", "fk_src", "fk_dst", "commit"}

\* A follow gets past its count only by counting.
LEMMA PastCountFrom ==
    ASSUME TypeOK, Shape, [Next]_vars, NEW q \in Requests,
           op'[q] = "follow", pc'[q] \in PastCount
    PROVE  /\ op[q] = "follow" /\ edge'[q] = edge[q]
           /\ \/ pc[q] \in PastCount
              \/ follows' = follows /\ ~(Cardinality(Followers(Dst(q))) >= MAX_FOLLOWERS)
<1> DEFINE Goal == /\ op[q] = "follow" /\ edge'[q] = edge[q]
                   /\ \/ pc[q] \in PastCount
                      \/ follows' = follows /\ ~(Cardinality(Followers(Dst(q))) >= MAX_FOLLOWERS)
<1> USE DEF TypeOK, Shape, PastCount
<1>1. ASSUME NEW r \in Requests, Step(r) PROVE Goal
  <2>1. CASE FollowLock(r)
      BY <2>1 DEF FollowLock, Rollback, Done, Goto
  <2>2. CASE FollowCount(r)
      BY <2>2 DEF FollowCount, Rollback, Done, tables, Goto
  <2>3. CASE FollowInsert(r)
      BY <2>3 DEF At, FollowInsert, Goto
  <2>4. CASE ForeignKeySrc(r)
      BY <2>4 DEF ForeignKeySrc, Goto
  <2>5. CASE ForeignKeyDst(r)
      BY <2>5 DEF ForeignKeyDst, Goto
  <2>6. CASE BlockInsert(r)
      BY <2>6 DEF At, BlockInsert, Goto
  <2>7. CASE BlockUnfollow(r)
      BY <2>7 DEF At, BlockUnfollow, Goto
  <2>8. CASE SoftDelete(r)
      BY <2>8 DEF SoftDelete, Rollback, Done, Goto
  <2>9. CASE UnfollowAll(r)
      BY <2>9 DEF UnfollowAll, Goto
  <2>10. CASE UnblockAll(r)
      BY <2>10 DEF At, UnblockAll, Goto
  <2>11. CASE Commit(r)
      BY <2>11 DEF Commit, Added, Done, Goto
  <2> HIDE DEF TypeOK, Shape, PastCount
  <2> QED BY <1>1, <2>1, <2>2, <2>3, <2>4, <2>5, <2>6, <2>7, <2>8, <2>9, <2>10, <2>11, ZenonT(30) DEF Step
<1>2. ASSUME NEW r \in Requests, Abort(r) PROVE Goal
    BY <1>2 DEF Abort, Rollback, Done, Goto
<1>3. ASSUME NEW r \in Requests, NEW e \in Edges, follow_user(r, e) \/ block_user(r, e) PROVE Goal
    BY <1>3 DEF follow_user, block_user, Begin, Goto
<1>4. ASSUME NEW r \in Requests, NEW u \in Users, delete_account(r, u) PROVE Goal
    BY <1>4 DEF delete_account, Begin, Goto
<1>5. ASSUME NEW e, unfollow(e) \/ unblock(e) PROVE Goal
    BY <1>5 DEF unfollow, unblock
<1>6. CASE UNCHANGED vars
    BY <1>6 DEF vars
<1> HIDE DEF TypeOK, Shape, PastCount
<1> QED BY <1>1, <1>2, <1>3, <1>4, <1>5, <1>6, ZenonT(30) DEF Next

\* The followers of a user are finitely many, and fewer of them count less.
LEMMA FollowersFinite ==
    ASSUME NEW S \in SUBSET Edges, NEW T \in SUBSET S
    PROVE  /\ IsFiniteSet(S)
           /\ Cardinality(S) \in Nat
           /\ Cardinality(T) \in Nat
           /\ Cardinality(T) <= Cardinality(S)
<1>1. IsFiniteSet(Edges)
    BY UsersAssumption, FS_Product DEF Edges
<1>2. IsFiniteSet(S)
    BY <1>1, FS_Subset
<1>3. IsFiniteSet(T) /\ Cardinality(T) <= Cardinality(S)
    BY <1>2, FS_Subset
<1> QED BY <1>2, <1>3, FS_CardinalityType

\* The arithmetic of counting followers against the limit.
LEMMA AtMostBelow ==
    \A a, b, m \in Nat : a <= b /\ b < m => a < m
OBVIOUS

LEMMA AtMostNextBelow ==
    \A a, b, c, m \in Nat : a <= c /\ c <= b + 1 /\ b < m => a <= m
OBVIOUS

\* The limit holds as long as every follow past its count has room for one
\* more follower, which the lock on the followee keeps true.
LEMMA CountInductive ==
    IInv /\ IInv' /\ CountInv /\ [Next]_vars => CountInv'
<1> SUFFICES ASSUME IInv, IInv', CountInv, [Next]_vars PROVE CountInv'
    OBVIOUS
<1> USE MaxFollowersAssumption
<1>t. TypeOK /\ TypeOK' /\ Shape /\ LocksExclude
    BY DEF IInv
<1>f. \A u : Followers(u) \in SUBSET Edges /\ Followers(u)' \in SUBSET Edges
    BY <1>t DEF Followers, TypeOK
<1>1. ASSUME NEW u, Followers(u)' \subseteq Followers(u)
      PROVE  /\ Cardinality(Followers(u)') \in Nat /\ Cardinality(Followers(u)) \in Nat
             /\ Cardinality(Followers(u)') <= Cardinality(Followers(u))
    BY <1>1, <1>f, FollowersFinite
<1>2. CASE \E r \in Requests : Commit(r) /\ op[r] = "follow" /\ adding[r]
  <2> PICK r \in Requests : Commit(r) /\ op[r] = "follow" /\ adding[r]
      BY <1>2
  <2> PICK v \in Users : v = Dst(r)
      BY <1>t DEF TypeOK, Commit, Dst, Edges
  <2>1. edge[r] \in Edges /\ v = edge[r][2] /\ HoldsUpdate(r, v)
      BY <1>t DEF TypeOK, Commit, Dst, HoldsUpdate
  <2>2. follows' \subseteq follows \cup {edge[r]}
      BY DEF Commit, Added
  <2>3. \A u \in Users : u # v => Followers(u)' \subseteq Followers(u)
      BY <2>1, <2>2 DEF Followers
  <2>4. Followers(v)' \subseteq Followers(v) \cup {edge[r]}
      BY <2>1, <2>2 DEF Followers
  <2>5. Cardinality(Followers(v)) < MAX_FOLLOWERS
      BY DEF CountInv, PendingCount, Commit
  <2>6. Cardinality(Followers(v)') \in Nat /\ Cardinality(Followers(v)') <= MAX_FOLLOWERS
    <3>1. Followers(v) \cup {edge[r]} \in SUBSET Edges
        BY <1>f, <2>1
    <3>2. /\ Cardinality(Followers(v)') \in Nat
          /\ Cardinality(Followers(v) \cup {edge[r]}) \in Nat
          /\ Cardinality(Followers(v)') <= Cardinality(Followers(v) \cup {edge[r]})
        BY <2>4, <3>1, FollowersFinite
    <3>3. IsFiniteSet(Followers(v)) /\ Cardinality(Followers(v)) \in Nat
        BY <1>f, FollowersFinite
    <3>4. Cardinality(Followers(v) \cup {edge[r]}) <= Cardinality(Followers(v)) + 1
        BY <3>3, FS_AddElement
    <3> QED BY <2>5, <3>2, <3>3, <3>4, AtMostNextBelow
  <2>7. FollowersBounded'
    <3> SUFFICES ASSUME NEW u \in Users PROVE Cardinality(Followers(u)') <= MAX_FOLLOWERS
        BY DEF FollowersBounded
    <3> QED BY <1>1, <2>3, <2>6 DEF CountInv, FollowersBounded
  <2>8. ASSUME NEW q \in Requests, op'[q] = "follow", pc'[q] \in PastCount,
               NEW u \in Users, u = edge'[q][2]
        PROVE  Cardinality(Followers(u)') < MAX_FOLLOWERS
    <3>1. /\ op[q] = "follow" /\ edge'[q] = edge[q]
          /\ \/ pc[q] \in PastCount
             \/ ~(Cardinality(Followers(u)) >= MAX_FOLLOWERS)
        BY <1>t, <2>8, PastCountFrom DEF Dst
    <3>2. q # r
        BY <1>t, <2>8 DEF TypeOK, Commit, Done
    <3>3. pc[q] = pc'[q]
        BY <1>t, <3>2 DEF TypeOK, Commit, Done, Goto
    <3>4. HoldsUpdate(q, u)
        BY <2>8, <3>1, <3>3 DEF HoldsUpdate, Dst, PastCount
    <3>5. u # v
        BY <1>t, <2>1, <3>2, <3>4 DEF LocksExclude
    <3>6. Cardinality(Followers(u)) < MAX_FOLLOWERS
        BY <2>8, <3>1, <3>3 DEF CountInv, PendingCount, PastCount, Dst
    <3> QED BY <1>1, <2>3, <3>5, <3>6
  <2>9. PendingCount'
    <3> SUFFICES ASSUME NEW q \in Requests, op'[q] = "follow", pc'[q] \in PastCount
                 PROVE  Cardinality(Followers(Dst(q))') < MAX_FOLLOWERS
        BY DEF PendingCount, PastCount
    <3> PICK u \in Users : u = edge'[q][2]
        BY <1>t DEF TypeOK, Edges, PastCount
    <3>1. Followers(Dst(q))' = Followers(u)'
        BY DEF Followers, Dst
    <3> QED BY <2>8, <3>1
  <2> QED BY <2>7, <2>9 DEF CountInv
<1>3. CASE follows' \subseteq follows
  <2>1. \A u \in Users : Followers(u)' \subseteq Followers(u)
      BY <1>3 DEF Followers
  <2>2. FollowersBounded'
    <3> SUFFICES ASSUME NEW u \in Users PROVE Cardinality(Followers(u)') <= MAX_FOLLOWERS
        BY DEF FollowersBounded
    <3> QED BY <1>1, <2>1 DEF CountInv, FollowersBounded
  <2>3. PendingCount'
    <3> SUFFICES ASSUME NEW q \in Requests, op'[q] = "follow", pc'[q] \in PastCount
                 PROVE  Cardinality(Followers(Dst(q))') < MAX_FOLLOWERS
        BY DEF PendingCount, PastCount
    <3> PICK u \in Users : u = edge'[q][2]
        BY <1>t DEF TypeOK, Edges, PastCount
    <3>1. Followers(Dst(q))' = Followers(u)'
        BY DEF Followers, Dst
    <3>2. u = Dst(q) /\ op[q] = "follow"
        BY <1>t, PastCountFrom DEF Dst
    <3>3. Cardinality(Followers(u)) \in Nat
        BY <1>f, FollowersFinite
    <3>4. Cardinality(Followers(u)) < MAX_FOLLOWERS
        BY <1>t, <3>2, <3>3, PastCountFrom DEF CountInv, PendingCount, PastCount
    <3>5. Cardinality(Followers(u)') \in Nat /\ Cardinality(Followers(u)') <= Cardinality(Followers(u))
        BY <1>1, <2>1
    <3> QED BY <3>1, <3>3, <3>4, <3>5, AtMostBelow
  <2> QED BY <2>2, <2>3 DEF CountInv
<1>4. ASSUME NEW r \in Requests, Commit(r), ~(op[r] = "follow" /\ adding[r])
      PROVE  follows' \subseteq follows
    BY <1>4 DEF Commit, Added
<1> QED BY <1>2, <1>3, <1>4, OnlyCommitAdds

\* The follower limit is respected however many follows of one user race.
THEOREM FollowersBoundedHolds == Spec => []FollowersBounded
<1>1. Init => CountInv
  <2> SUFFICES ASSUME Init PROVE CountInv
      OBVIOUS
  <2>1. \A u : Followers(u) = {}
      BY DEF Init, Followers
  <2>2. Cardinality({}) = 0
      BY FS_EmptySet
  <2> QED BY <2>1, <2>2, MaxFollowersAssumption
          DEF Init, CountInv, PendingCount, FollowersBounded
<1>2. IInv /\ IInv' /\ CountInv /\ [Next]_vars => CountInv'
    BY CountInductive
<1>3. CountInv => FollowersBounded
    BY DEF CountInv
<1> QED BY <1>1, <1>2, <1>3, Invariance, PTL DEF Spec


-----------------------------------------------------------------------------
(* Deadlock. *)

\* How far along a request is in the order in which the operations take their
\* locks.
Level(r) ==
    IF pc[r] = "commit" THEN 4
    ELSE IF pc[r] = "unblock_all" THEN 3
    ELSE IF pc[r] \in {"unfollow", "unfollow_all"} \/ (op[r] = "follow" /\ pc[r] # "lock") THEN 2
    ELSE IF pc[r] \in {"fk_src", "fk_dst"} THEN 1
    ELSE 0

\* A request waits only for requests further along, except for a follow that
\* waits for the row of the follower.
LEMMA WaitsUpwards ==
    ASSUME IInv, NEW r \in Requests, NEW q \in WaitsFor(r),
           ~(op[r] = "follow" /\ pc[r] = "fk_src")
    PROVE  Level(r) < Level(q)
<1>t. TypeOK /\ Shape /\ LocksExclude
    BY DEF IInv
<1>0. q \in Requests /\ q # r /\ pc[r] # "idle"
    BY DEF WaitsFor
<1>q. /\ \A u : HoldsUpdate(q, u) => Level(q) \in 2..4
      /\ \A u : HoldsNoKeyUpdate(q, u) => Level(q) \in 2..4
      /\ \A u : HoldsKeyShare(q, u) => Level(q) \in 1..4
    BY DEF Level, HoldsUpdate, HoldsNoKeyUpdate, HoldsKeyShare
<1>s. /\ adding[q] => pc[q] \in {"fk_src", "fk_dst", "unfollow", "commit"}
      /\ dropF[q] # {} => pc[q] \in {"unblock_all", "commit"}
      /\ dropB[q] # {} => pc[q] = "commit"
    BY <1>t, <1>0 DEF Shape
<1>d. /\ adding[q] => Level(q) \in 1..4
      /\ dropF[q] # {} => Level(q) \in 3..4
      /\ dropB[q] # {} => Level(q) = 4
  <2>1. pc[q] = "commit" => Level(q) = 4
      BY DEF Level
  <2>2. pc[q] = "unblock_all" => Level(q) = 3
      BY DEF Level
  <2>3. pc[q] \in {"fk_src", "fk_dst", "unfollow"} => Level(q) \in 1..2
      BY DEF Level
  <2> QED BY <1>s, <2>1, <2>2, <2>3
<1>1. CASE pc[r] \in {"lock", "soft_delete"}
  <2>1. Level(r) = 0
      BY <1>t, <1>1 DEF Shape, Level
  <2>2. \E u : HoldsUpdate(q, u) \/ HoldsNoKeyUpdate(q, u) \/ HoldsKeyShare(q, u)
      BY <1>1 DEF WaitsFor
  <2>3. Level(q) \in 1..4 \/ Level(q) \in 2..4
      BY <1>q, <2>2
  <2> QED BY <2>1, <2>3
<1>2. CASE pc[r] = "insert" /\ op[r] = "block"
  <2>1. Level(r) = 0
      BY <1>2 DEF Level
  <2>2. adding[q] \/ dropB[q] # {}
      BY <1>2 DEF WaitsFor
  <2>3. Level(q) \in 1..4 \/ Level(q) = 4
      BY <1>d, <2>2
  <2> QED BY <2>1, <2>3
<1>3. CASE op[r] = "follow" /\ pc[r] \in {"insert", "fk_dst"}
  <2>1. Level(r) = 2
      BY <1>3 DEF Level
  <2>2. Dst(r) \in Users /\ HoldsUpdate(r, Dst(r)) /\ ~HoldsUpdate(q, Dst(r))
    <3>1. Dst(r) \in Users /\ HoldsUpdate(r, Dst(r))
        BY <1>t, <1>0, <1>3 DEF TypeOK, HoldsUpdate, Dst, Edges
    <3> QED BY <1>t, <1>0, <3>1 DEF LocksExclude
  <2>3. ~(op[q] = "follow" /\ edge[q] = edge[r] /\ adding[q])
      BY <1>t, <1>0, <2>2 DEF Shape, HoldsUpdate, Dst
  <2>4. dropF[q] # {}
      BY <1>3, <2>2, <2>3 DEF WaitsFor
  <2>5. Level(q) \in 3..4
      BY <1>d, <2>4
  <2> QED BY <2>1, <2>5
<1>4. CASE op[r] = "block" /\ pc[r] \in {"fk_src", "fk_dst"}
  <2>1. Level(r) = 1
      BY <1>4 DEF Level
  <2>2. \E u : HoldsUpdate(q, u)
      BY <1>4 DEF WaitsFor
  <2>3. Level(q) \in 2..4
      BY <1>q, <2>2
  <2> QED BY <2>1, <2>3
<1>5. CASE pc[r] \in {"unfollow", "unfollow_all"}
  <2>1. Level(r) = 2
      BY <1>5 DEF Level
  <2>2. dropF[q] # {}
      BY <1>5 DEF WaitsFor, Touching
  <2>3. Level(q) \in 3..4
      BY <1>d, <2>2
  <2> QED BY <2>1, <2>3
<1>6. CASE pc[r] = "unblock_all"
  <2>1. Level(r) = 3
      BY <1>6 DEF Level
  <2>2. dropB[q] # {}
      BY <1>6 DEF WaitsFor, Touching
  <2>3. Level(q) = 4
      BY <1>d, <2>2
  <2> QED BY <2>1, <2>3
<1>7. CASE pc[r] \in {"count", "commit"}
    BY <1>7 DEF WaitsFor
<1>8. \/ pc[r] \in {"lock", "soft_delete", "unfollow", "unfollow_all", "unblock_all", "count", "commit"}
      \/ pc[r] = "insert" /\ op[r] \in {"follow", "block"}
      \/ pc[r] \in {"fk_src", "fk_dst"} /\ op[r] \in {"follow", "block"}
    BY <1>t, <1>0 DEF TypeOK, Shape
<1> QED BY <1>1, <1>2, <1>3, <1>4, <1>5, <1>6, <1>7, <1>8

\* Requests that wait for each other include a follow waiting for the row of
\* the follower: no other lock order of follow, block and delete_account can
\* close a cycle.
THEOREM DeadlockOnlyThroughFollowHolds == Spec => []DeadlockOnlyThroughFollow
<1>1. IInv => DeadlockOnlyThroughFollow
  <2> SUFFICES ASSUME IInv, NEW C \in SUBSET Requests, Deadlocked(C),
                      \A r \in C : ~(op[r] = "follow" /\ pc[r] = "fk_src")
               PROVE  FALSE
      BY DEF DeadlockOnlyThroughFollow
  <2>1. \A r \in C : Level(r) \in 0..4
      BY DEF Level
  <2>2. \A r \in C : \E q \in C : Level(r) < Level(q)
      BY WaitsUpwards DEF Deadlocked
  <2>3. PICK r0 \in C : TRUE
      BY DEF Deadlocked
  <2>4. PICK r1 \in C : Level(r1) >= 1
      BY <2>1, <2>2, <2>3
  <2>5. PICK r2 \in C : Level(r2) >= 2
      BY <2>1, <2>2, <2>4
  <2>6. PICK r3 \in C : Level(r3) >= 3
      BY <2>1, <2>2, <2>5
  <2>7. PICK r4 \in C : Level(r4) >= 4
      BY <2>1, <2>2, <2>6
  <2> QED BY <2>1, <2>2, <2>7
<1> QED BY <1>1, Invariance, PTL

=============================================================================
