---------------------------- MODULE SocialGraph ----------------------------
(***************************************************************************)
(* Follows, blocks and account deletion (app/social.rs, and delete_account *)
(* of app/users.rs) as concurrent PostgreSQL transactions at READ          *)
(* COMMITTED. Each SQL statement is one step that sees what is committed   *)
(* when it runs; a step waits while another request holds a conflicting    *)
(* row lock; Commit makes a transaction's writes visible and releases its  *)
(* locks. Locks on rows of users are what the code relies on:              *)
(*   SELECT ... FOR UPDATE       follow, on the followee                   *)
(*   UPDATE (FOR NO KEY UPDATE)  delete_account, on the user               *)
(*   FOR KEY SHARE               foreign keys of an inserted follow/block  *)
(***************************************************************************)
EXTENDS Integers, FiniteSets

CONSTANTS
    Users,
    Requests,       \* concurrent HTTP requests
    MAX_FOLLOWERS,  \* 5000 in the code
    NoEdge          \* the arguments of no request

ASSUME MaxFollowersAssumption == MAX_FOLLOWERS \in Nat
ASSUME UsersAssumption == IsFiniteSet(Users)

Edges == Users \X Users

ASSUME NoEdgeAssumption == NoEdge \notin Edges

VARIABLES
    follows,   \* committed rows of follows: <<follower, followee>>
    blocks,    \* committed rows of blocks: <<blocker, blocked>>
    deleted,   \* users with deleted_at set
    op,        \* what each request does: "follow", "block" or "delete_account"
    edge,      \* its arguments: the caller and the other user
    pc,        \* its next statement; "idle" when there is no request
    adding,    \* its INSERT put the row edge[r] into follows or blocks
    dropF,     \* rows of follows it has deleted, uncommitted
    dropB      \* rows of blocks it has deleted, uncommitted

vars == <<follows, blocks, deleted, op, edge, pc, adding, dropF, dropB>>

tables == <<follows, blocks, deleted>>

Src(r) == edge[r][1]
Dst(r) == edge[r][2]
Back(e) == <<e[2], e[1]>>

\* The rows of an edge table that name user u.
Touching(S, u) == {e \in S : e[1] = u \/ e[2] = u}

TypeOK ==
    /\ follows \in SUBSET Edges
    /\ blocks \in SUBSET Edges
    /\ deleted \in SUBSET Users
    /\ op \in [Requests -> {"none", "follow", "block", "delete_account"}]
    /\ edge \in [Requests -> Edges \cup {NoEdge}]
    /\ pc \in [Requests -> {"idle", "lock", "count", "insert", "fk_src", "fk_dst",
                            "unfollow", "soft_delete", "unfollow_all", "unblock_all",
                            "commit"}]
    /\ adding \in [Requests -> BOOLEAN]
    /\ dropF \in [Requests -> SUBSET Edges]
    /\ dropB \in [Requests -> SUBSET Edges]
    /\ \A r \in Requests : pc[r] # "idle" => edge[r] \in Edges

Init ==
    /\ follows = {}
    /\ blocks = {}
    /\ deleted = {}
    /\ op = [r \in Requests |-> "none"]
    /\ edge = [r \in Requests |-> NoEdge]
    /\ pc = [r \in Requests |-> "idle"]
    /\ adding = [r \in Requests |-> FALSE]
    /\ dropF = [r \in Requests |-> {}]
    /\ dropB = [r \in Requests |-> {}]

-----------------------------------------------------------------------------
(* Row locks, held from the statement that takes them to the end of the
   transaction. *)

HoldsUpdate(r, u) ==
    /\ op[r] = "follow"
    /\ u = Dst(r)
    /\ pc[r] \in {"count", "insert", "fk_src", "fk_dst", "commit"}

\* Mutation of HoldsNoKeyUpdate: account deletions lock the other accounts too.
HoldsNoKeyUpdate_AnyUser(r, u) ==
    /\ op[r] = "delete_account"
    /\ pc[r] \in {"soft_delete", "unfollow_all", "unblock_all", "commit"}

HoldsNoKeyUpdate(r, u) ==
    /\ op[r] = "delete_account"
    /\ u = Src(r)
    /\ pc[r] \in {"unfollow_all", "unblock_all", "commit"}

HoldsKeyShare(r, u) ==
    /\ adding[r]
    /\ \/ u = Src(r) /\ pc[r] \in {"fk_dst", "unfollow", "commit"}
       \/ u = Dst(r) /\ pc[r] \in {"unfollow", "commit"}

\* The requests that request r waits for at its next statement: holders of a
\* conflicting lock on the user row it locks, or of an uncommitted insert or
\* delete of a row it is about to insert or delete.
WaitsFor(r) ==
    {q \in Requests \ {r} :
        \/ /\ pc[r] = "lock"
           /\ \/ HoldsUpdate(q, Dst(r))
              \/ HoldsNoKeyUpdate(q, Dst(r))
              \/ HoldsKeyShare(q, Dst(r))
        \/ pc[r] = "soft_delete" /\ (HoldsUpdate(q, Src(r)) \/ HoldsNoKeyUpdate(q, Src(r)))
        \/ pc[r] = "fk_src" /\ HoldsUpdate(q, Src(r))
        \/ pc[r] = "fk_dst" /\ HoldsUpdate(q, Dst(r))
        \/ /\ pc[r] = "insert"
           /\ \/ op[q] = op[r] /\ edge[q] = edge[r] /\ adding[q]
              \/ op[r] = "follow" /\ edge[r] \in dropF[q]
              \/ op[r] = "block" /\ edge[r] \in dropB[q]
        \/ pc[r] = "unfollow" /\ dropF[q] \cap {edge[r], Back(edge[r])} # {}
        \/ pc[r] = "unfollow_all" /\ Touching(dropF[q], Src(r)) # {}
        \/ pc[r] = "unblock_all" /\ Touching(dropB[q], Src(r)) # {}}

Goto(r, label) == pc' = [pc EXCEPT ![r] = label]

\* The next statement of r is the one labelled here, and it need not wait.
At(r, o, label) == op[r] = o /\ pc[r] = label /\ WaitsFor(r) = {}

\* Mutation of Done: the request forgets its arguments but not its step.
Done_KeepsStep(r) ==
    /\ op' = [op EXCEPT ![r] = "none"]
    /\ adding' = [adding EXCEPT ![r] = FALSE]
    /\ dropF' = [dropF EXCEPT ![r] = {}]
    /\ dropB' = [dropB EXCEPT ![r] = {}]
    /\ edge' = [edge EXCEPT ![r] = NoEdge]
    /\ UNCHANGED pc

\* Rollback or commit: the transaction is over.
Done(r) ==
    /\ Goto(r, "idle")
    /\ op' = [op EXCEPT ![r] = "none"]
    /\ adding' = [adding EXCEPT ![r] = FALSE]
    /\ dropF' = [dropF EXCEPT ![r] = {}]
    /\ dropB' = [dropB EXCEPT ![r] = {}]
    /\ edge' = [edge EXCEPT ![r] = NoEdge]

Rollback(r) == Done(r) /\ UNCHANGED tables

-----------------------------------------------------------------------------
(* Requests. The extractor AuthUser admits a caller who is not deleted; the
   handlers refuse a caller who names themselves. *)

Begin(r, o, e, label) ==
    /\ pc[r] = "idle"
    /\ e[1] \notin deleted
    /\ op' = [op EXCEPT ![r] = o]
    /\ edge' = [edge EXCEPT ![r] = e]
    /\ Goto(r, label)
    /\ UNCHANGED <<tables, adding, dropF, dropB>>

follow_user(r, e) == e[1] # e[2] /\ Begin(r, "follow", e, "lock")
block_user(r, e) == e[1] # e[2] /\ Begin(r, "block", e, "insert")
delete_account(r, u) == Begin(r, "delete_account", <<u, u>>, "soft_delete")

\* Mutation of FollowLock: deleted_at is not checked.
FollowLock_AnyUser(r) ==
    /\ At(r, "follow", "lock")
    /\ Goto(r, "count")
    /\ UNCHANGED <<tables, op, edge, adding, dropF, dropB>>

\* follow: SELECT ... FOR UPDATE of the followee; none is UserNotFound.
FollowLock(r) ==
    /\ At(r, "follow", "lock")
    /\ IF Dst(r) \in deleted
       THEN Rollback(r)
       ELSE Goto(r, "count") /\ UNCHANGED <<tables, op, edge, adding, dropF, dropB>>

Followers(u) == {e \in follows : e[2] = u}

\* Mutation of FollowCount: > for >=.
FollowCount_OffByOne(r) ==
    /\ At(r, "follow", "count")
    /\ IF Cardinality(Followers(Dst(r))) > MAX_FOLLOWERS
       THEN Rollback(r)
       ELSE Goto(r, "insert") /\ UNCHANGED <<tables, op, edge, adding, dropF, dropB>>

\* follow: SELECT COUNT(*), and FollowerLimitReached.
FollowCount(r) ==
    /\ At(r, "follow", "count")
    /\ IF Cardinality(Followers(Dst(r))) >= MAX_FOLLOWERS
       THEN Rollback(r)
       ELSE Goto(r, "insert") /\ UNCHANGED <<tables, op, edge, adding, dropF, dropB>>

\* follow: INSERT unless there is a block either way, ON CONFLICT DO NOTHING.
FollowInsert(r) ==
    /\ At(r, "follow", "insert")
    /\ IF edge[r] \in blocks \/ Back(edge[r]) \in blocks \/ edge[r] \in follows
       THEN Goto(r, "commit") /\ UNCHANGED adding
       ELSE Goto(r, "fk_src") /\ adding' = [adding EXCEPT ![r] = TRUE]
    /\ UNCHANGED <<tables, op, edge, dropF, dropB>>

\* The foreign keys of the inserted row, one column after the other.
ForeignKeySrc(r) ==
    /\ pc[r] = "fk_src"
    /\ WaitsFor(r) = {}
    /\ Goto(r, "fk_dst")
    /\ UNCHANGED <<tables, op, edge, adding, dropF, dropB>>

ForeignKeyDst(r) ==
    /\ pc[r] = "fk_dst"
    /\ WaitsFor(r) = {}
    /\ Goto(r, IF op[r] = "follow" THEN "commit" ELSE "unfollow")
    /\ UNCHANGED <<tables, op, edge, adding, dropF, dropB>>

\* block: INSERT ... ON CONFLICT DO NOTHING.
BlockInsert(r) ==
    /\ At(r, "block", "insert")
    /\ IF edge[r] \in blocks
       THEN Goto(r, "unfollow") /\ UNCHANGED adding
       ELSE Goto(r, "fk_src") /\ adding' = [adding EXCEPT ![r] = TRUE]
    /\ UNCHANGED <<tables, op, edge, dropF, dropB>>

\* Mutation of BlockUnfollow: one direction only.
BlockUnfollow_OneWay(r) ==
    /\ At(r, "block", "unfollow")
    /\ dropF' = [dropF EXCEPT ![r] = follows \cap {edge[r]}]
    /\ Goto(r, "commit")
    /\ UNCHANGED <<tables, op, edge, adding, dropB>>

\* block: DELETE the follows of the pair, both ways.
BlockUnfollow(r) ==
    /\ At(r, "block", "unfollow")
    /\ dropF' = [dropF EXCEPT ![r] = follows \cap {edge[r], Back(edge[r])}]
    /\ Goto(r, "commit")
    /\ UNCHANGED <<tables, op, edge, adding, dropB>>

\* delete_account: UPDATE users ... WHERE deleted_at IS NULL.
\* The UPDATE of refresh_tokens that follows touches no table of this module and
\* waits for none of its locks.
SoftDelete(r) ==
    /\ At(r, "delete_account", "soft_delete")
    /\ IF Src(r) \in deleted
       THEN Rollback(r)
       ELSE Goto(r, "unfollow_all") /\ UNCHANGED <<tables, op, edge, adding, dropF, dropB>>

\* delete_account: DELETE FROM follows, then FROM blocks, both directions.
UnfollowAll(r) ==
    /\ At(r, "delete_account", "unfollow_all")
    /\ dropF' = [dropF EXCEPT ![r] = Touching(follows, Src(r))]
    /\ Goto(r, "unblock_all")
    /\ UNCHANGED <<tables, op, edge, adding, dropB>>

UnblockAll(r) ==
    /\ At(r, "delete_account", "unblock_all")
    /\ dropB' = [dropB EXCEPT ![r] = Touching(blocks, Src(r))]
    /\ Goto(r, "commit")
    /\ UNCHANGED <<tables, op, edge, adding, dropF>>

\* The row an INSERT of r has put into the table of operation o.
Added(r, o) == IF adding[r] /\ op[r] = o THEN {edge[r]} ELSE {}

Commit(r) ==
    /\ pc[r] = "commit"
    /\ follows' = (follows \cup Added(r, "follow")) \ dropF[r]
    /\ blocks' = (blocks \cup Added(r, "block")) \ dropB[r]
    /\ deleted' = IF op[r] = "delete_account" THEN deleted \cup {Src(r)} ELSE deleted
    /\ Done(r)

\* A statement fails, times out (statement_timeout) or is the victim the
\* database picks in a deadlock, or the process dies: rollback.
Abort(r) == pc[r] # "idle" /\ Rollback(r)

\* unfollow and unblock are single statements.
unfollow(e) ==
    /\ e[1] \notin deleted
    /\ \A q \in Requests : e \notin dropF[q]
    /\ follows' = follows \ {e}
    /\ UNCHANGED <<blocks, deleted, op, edge, pc, adding, dropF, dropB>>

unblock(e) ==
    /\ e[1] \notin deleted
    /\ \A q \in Requests : e \notin dropB[q]
    /\ blocks' = blocks \ {e}
    /\ UNCHANGED <<follows, deleted, op, edge, pc, adding, dropF, dropB>>

-----------------------------------------------------------------------------
Step(r) ==
    \/ FollowLock(r)
    \/ FollowCount(r)
    \/ FollowInsert(r)
    \/ ForeignKeySrc(r)
    \/ ForeignKeyDst(r)
    \/ BlockInsert(r)
    \/ BlockUnfollow(r)
    \/ SoftDelete(r)
    \/ UnfollowAll(r)
    \/ UnblockAll(r)
    \/ Commit(r)

Next ==
    \/ \E r \in Requests, e \in Edges : follow_user(r, e)
    \/ \E r \in Requests, e \in Edges : block_user(r, e)
    \/ \E r \in Requests, u \in Users : delete_account(r, u)
    \/ \E r \in Requests : Step(r)
    \/ \E r \in Requests : Abort(r)
    \/ \E e \in follows : unfollow(e)
    \/ \E e \in blocks : unblock(e)

Spec == Init /\ [][Next]_vars

-----------------------------------------------------------------------------
\* No follow coexists with a block between the same two users, however the
\* transactions of follow and block interleave: the FOR UPDATE of follow and
\* the foreign keys of block conflict on the followee's row.
NoFollowAcrossBlock ==
    \A e \in follows : e \notin blocks /\ Back(e) \notin blocks

\* MAX_FOLLOWERS is never exceeded: the count and the insert of follow run
\* under the lock of the followee's row.
FollowersBounded == \A u \in Users : Cardinality(Followers(u)) <= MAX_FOLLOWERS

\* Nobody follows a deleted account: follow's FOR UPDATE and delete_account's
\* UPDATE of the followee exclude each other.
NoFollowersOfDeleted == \A e \in follows : e[2] \notin deleted

\* delete_account removes "all follow relationships (both directions)": a
\* deleted account follows nobody.
DeletedFollowsNobody == \A e \in follows : e[1] \notin deleted

\* The requests of C wait for each other: the database will abort one of them.
Deadlocked(C) == C # {} /\ \A r \in C : WaitsFor(r) \cap C # {}

\* Requests deadlock only through follow, whose insert waits for the row of the
\* follower while it holds the row of the followee (two users who follow each
\* other at once). Blocks and account deletions alone never deadlock.
DeadlockOnlyThroughFollow ==
    \A C \in SUBSET Requests :
        Deadlocked(C) => \E r \in C : op[r] = "follow" /\ pc[r] = "fk_src"

=============================================================================
