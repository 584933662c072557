-------------------------- MODULE SessionsProofs --------------------------
(***************************************************************************)
(* Proofs that the safety properties of Sessions hold, and that Sessions   *)
(* implements SessionChains, for any set of users, any set of concurrent   *)
(* requests and any number of tokens.                                      *)
(***************************************************************************)
EXTENDS Sessions, SequenceTheorems, TLAPS

\* What a request knows of its user and token, from the statement it is at.
Shape ==
    \A r \in Requests :
        /\ pc[r] \in {"idle", "issue", "ban_check", "soft_delete"} => tok[r] = 0
        /\ pc[r] \in {"lock", "rotate"} => tok[r] # 0
        /\ tok[r] # 0 => tok[r] \in Issued /\ rows[tok[r]].user = user[r]
        /\ \A t \in family[r] : rows[t].user = user[r]
        /\ pc[r] = "idle" => family[r] = {}

\* A chain is named by its first token and stays with one user.
Rooted ==
    \A t \in Issued :
        /\ rows[t].root \in Issued
        /\ rows[rows[t].root].user = rows[t].user

\* A chain has at most one live token.
OneEnd == \A s, t \in Issued \ revoked : rows[s].root = rows[t].root => s = t

\* The row lock of a token has at most one holder.
LocksExclude ==
    \A q, r \in Requests, t \in Issued : LocksToken(q, t) /\ LocksToken(r, t) => q = r

\* A refresh that holds the lock and found its token live still finds it live.
RotateLive == \A r \in Requests : pc[r] = "rotate" => tok[r] \notin revoked

ChainInv == TypeOK /\ Shape /\ Rooted /\ OneEnd /\ LocksExclude /\ RotateLive

\* A deletion under way is the only one of its user, who is not deleted yet.
DeletingOnce ==
    /\ \A r \in Requests : Deleting(r, user[r]) => user[r] \notin deleted
    /\ \A q, r \in Requests : user[q] = user[r] /\ Deleting(q, user[q]) /\ Deleting(r, user[r]) => q = r

\* What the deletion's UPDATE will leave live was issued after its snapshot.
PendingDeletion ==
    \A r \in Requests : Deleting(r, user[r]) /\ pc[r] = "revoke_all" =>
        Live(user[r]) \subseteq family[r] \cup young[user[r]]

\* A refresh of a deleted user's token read the deletion, or was racing it.
DeletedSeen ==
    \A r \in Requests : user[r] \in deleted /\ pc[r] = "lock" =>
        r \in racing[user[r]] \/ seen[r] = "deleted"

DeleteInv == DeletingOnce /\ PendingDeletion /\ DeletedSeen /\ DeletionEndsSessions

\* A user the clients of whom repeated a token, or who was deleted.
Excused == deleted \cup repeated

\* A token was presented by each request that carries it, and two that carry the same one
\* repeat it.
Presented ==
    /\ \A r \in Requests : tok[r] # 0 => tok[r] \in shown
    /\ \A q, r \in Requests : q # r /\ tok[q] # 0 /\ tok[q] = tok[r] => user[r] \in repeated

\* A revoked token was given up by the client that presented it, and nobody carries it,
\* unless its user is excused.
GivenUp ==
    \A t \in revoked :
        rows[t].user \in Excused \/ (t \in shown /\ \A r \in Requests : tok[r] # t)

\* Reuse is detected only for a user who is excused.
ReuseExcused ==
    \A r \in Requests : pc[r] \in {"snapshot", "revoke_all"} /\ tok[r] # 0 => user[r] \in Excused

ReplayInv == Presented /\ GivenUp /\ ReuseExcused /\ OnlyReplayEndsSessions

-----------------------------------------------------------------------------
(* Types *)

\* A row of the table has a user and a root, and its index is a token.
LEMMA RowTyped ==
    ASSUME TypeOK, NEW t \in Issued
    PROVE  rows[t].user \in Users /\ rows[t].root \in TokenIds /\ t \in TokenIds /\ t # 0
<1> DEFINE Row == [user : Users, root : TokenIds]
<1>1. rows \in Seq(Row) /\ Len(rows) \in Nat /\ t \in 1 .. Len(rows) /\ Len(rows) <= MaxTokens
    BY DEF TypeOK, Issued
<1> HIDE DEF Row
<1>2. rows[t] \in Row
    BY <1>1, ElementOfSeq
<1> QED
    BY <1>1, <1>2, MaxTokensAssumption DEF Row, TokenIds

\* The INSERT of issue_token_pair_with_tx adds the next row and keeps the others.
LEMMA Inserted ==
    ASSUME TypeOK, NEW u \in Users, NEW c \in TokenIds, issue_token_pair_with_tx(u, c)
    PROVE  /\ rows' \in Seq([user : Users, root : TokenIds])
           /\ Len(rows') = Len(rows) + 1
           /\ Len(rows') <= MaxTokens
           /\ Issued' = Issued \cup {Len(rows) + 1}
           /\ Len(rows) + 1 \notin Issued
           /\ Len(rows) + 1 \in TokenIds
           /\ Issued \subseteq TokenIds
           /\ \A t \in Issued : rows'[t] = rows[t]
           /\ rows'[Len(rows) + 1].user = u
           /\ rows'[Len(rows) + 1].root = c
<1> DEFINE Row == [user : Users, root : TokenIds]
           new == [user |-> u, root |-> c]
<1>1. rows \in Seq(Row) /\ Len(rows) \in Nat /\ Issued = 1 .. Len(rows)
    BY DEF TypeOK, Issued
<1>2. new \in Row
    OBVIOUS
<1>3. rows' = Append(rows, new) /\ Len(rows) < MaxTokens
    BY DEF issue_token_pair_with_tx
<1> HIDE DEF Row, new
<1>4. /\ rows' \in Seq(Row)
      /\ Len(rows') = Len(rows) + 1
      /\ \A i \in 1 .. Len(rows) : rows'[i] = rows[i]
      /\ rows'[Len(rows) + 1] = new
    BY <1>1, <1>2, <1>3, AppendProperties
<1>5. Issued' = 1 .. Len(rows')
    BY <1>4 DEF Issued
<1> QED
    BY <1>1, <1>3, <1>4, <1>5, MaxTokensAssumption DEF Row, new, TokenIds

\* Issuing a token keeps the types of the table and of young.
LEMMA InsertTyped ==
    ASSUME TypeOK, NEW u \in Users, NEW c \in TokenIds, issue_token_pair_with_tx(u, c)
    PROVE  /\ young' \in [Users -> SUBSET Issued']
           /\ family \in [Requests -> SUBSET Issued']
           /\ revoked \in SUBSET Issued' /\ shown \in SUBSET Issued'
           /\ expired \in 0 .. Len(rows')
<1>1. Issued' = Issued \cup {Len(rows) + 1} /\ Len(rows') = Len(rows) + 1 /\ Len(rows) \in Nat
    BY Inserted DEF TypeOK
<1> QED
    BY <1>1 DEF TypeOK, issue_token_pair_with_tx

\* The end of a request keeps the types of the requests.
LEMMA DoneTyped ==
    ASSUME TypeOK, NEW r \in Requests, Done(r)
    PROVE  /\ pc' \in [Requests -> {"idle", "issue", "lock", "rotate", "snapshot", "revoke_all",
                                    "ban_check", "soft_delete"}]
           /\ user' \in [Requests -> Users \cup {NoUser}]
           /\ tok' \in [Requests -> 0 .. MaxTokens]
           /\ seen' \in [Requests -> {"nothing", "active", "banned", "deleted"}]
           /\ family' \in [Requests -> SUBSET Issued]
           /\ \A q \in Requests : pc'[q] # "idle" => user'[q] \in Users
    BY MaxTokensAssumption DEF TypeOK, Done, Goto

\* A request that ends without a write keeps the types.
LEMMA ReturnTyped == ASSUME TypeOK, NEW r \in Requests, Return(r) PROVE TypeOK'
<1> USE DEF TypeOK, Return, Leave, tables
<1>1. Issued' = Issued
    BY DEF Issued
<1>2. racing' \in [Users -> SUBSET Requests]
    OBVIOUS
<1> QED
    BY <1>1, <1>2, DoneTyped

\* Every statement of a request, every expiry and every ban keeps the types.
LEMMA TypeInductive == TypeOK /\ Shape /\ [Next]_vars => TypeOK'
<1> SUFFICES ASSUME TypeOK, Shape, [Next]_vars PROVE TypeOK'
    OBVIOUS
<1> USE MaxTokensAssumption DEF tables, requests, history
<1>t. ASSUME rows' = rows PROVE Issued' = Issued /\ Issued \subseteq TokenIds /\ Len(rows') = Len(rows)
    BY <1>t DEF TypeOK, Issued, TokenIds
<1>1. ASSUME NEW r \in Requests, NEW u \in Users, login(r, u) PROVE TypeOK'
    BY <1>1, <1>t DEF TypeOK, login, Begin, Goto, Standing
<1>2. ASSUME NEW r \in Requests, NEW u \in Users, delete_account(r, u) PROVE TypeOK'
    BY <1>2, <1>t DEF TypeOK, delete_account, Begin, Goto
<1>3. ASSUME NEW r \in Requests, NEW t \in Issued, refresh_token(r, t) PROVE TypeOK'
    <2>1. rows[t].user \in Users /\ t \in 0 .. MaxTokens /\ rows' = rows
        BY <1>3, RowTyped DEF TokenIds, refresh_token, Begin
    <2>2. shown' \in SUBSET Issued /\ repeated' \in SUBSET Users
        BY <1>3, <2>1 DEF TypeOK, refresh_token, Present
    <2>3. CASE t <= expired
        BY <1>3, <2>1, <2>2, <2>3, <1>t, Zenon DEF TypeOK, refresh_token
    <2>4. CASE ~(t <= expired)
        <3>1. Standing(rows[t].user) \in {"active", "banned", "deleted"}
            BY DEF Standing
        <3>2. Begin(r, rows[t].user, t, Standing(rows[t].user), "lock")
            BY <1>3, <2>4 DEF refresh_token
        <3> QED
            BY <2>1, <2>2, <3>1, <3>2, <1>t DEF TypeOK, Begin, Goto
    <2> QED
        BY <2>3, <2>4
<1>4. ASSUME NEW r \in Requests, LoginIssue(r) PROVE TypeOK'
    <2>1. CASE Return(r)
        BY <2>1, ReturnTyped
    <2>2. CASE issue_token_pair_with_tx(user[r], Len(rows) + 1) /\ Done(r) /\ Leave(r)
        <3>1. user[r] \in Users /\ Len(rows) + 1 \in TokenIds
            BY <1>4, <2>2 DEF LoginIssue, TypeOK, issue_token_pair_with_tx, TokenIds
        <3>2. Issued \subseteq Issued'
            BY <2>2, <3>1, Inserted
        <3>3. racing' \in [Users -> SUBSET Requests]
            BY <2>2 DEF Leave, TypeOK
        <3>4. UNCHANGED <<revoked, expired, deleted, banned, shown, repeated, replayed>>
            BY <1>4, <2>2, <3>1, Inserted DEF LoginIssue, Return
        <3> QED
            BY <2>2, <3>1, <3>2, <3>3, <3>4, Inserted, InsertTyped, DoneTyped, Zenon DEF TypeOK
    <2> QED
        BY <1>4, <2>1, <2>2 DEF LoginIssue
<1>5. ASSUME NEW r \in Requests, RefreshLock(r) PROVE TypeOK'
    BY <1>5, <1>t, ReturnTyped, Zenon DEF TypeOK, RefreshLock, Goto
<1>6. ASSUME NEW r \in Requests, RefreshRotate(r) PROVE TypeOK'
    <2>1. user[r] \in Users /\ tok[r] \in Issued /\ rows[tok[r]].root \in TokenIds
        BY <1>6, RowTyped DEF RefreshRotate, TypeOK, Shape
    <2>2. Issued \subseteq Issued'
        BY <1>6, <2>1, Inserted DEF RefreshRotate
    <2>3. racing' \in [Users -> SUBSET Requests]
        BY <1>6 DEF RefreshRotate, Leave, TypeOK
    <2>4. revoked' \in SUBSET Issued'
        BY <1>6, <2>1, <2>2 DEF RefreshRotate, TypeOK
    <2> QED
        BY <1>6, <2>1, <2>2, <2>3, <2>4, Inserted, InsertTyped, DoneTyped, Zenon DEF TypeOK, RefreshRotate
<1>7. ASSUME NEW r \in Requests, FamilySnapshot(r) PROVE TypeOK'
    BY <1>7, <1>t DEF TypeOK, FamilySnapshot, Goto, Live, Of
<1>8. ASSUME NEW r \in Requests, ReuseDetected(r) PROVE TypeOK'
    <2>1. racing' \in [Users -> SUBSET Requests]
        BY <1>8 DEF ReuseDetected, Leave, TypeOK
    <2> QED
        BY <1>8, <2>1, <1>t, DoneTyped DEF TypeOK, ReuseDetected, FamilyRows
<1>9. ASSUME NEW r \in Requests, ban_check_middleware(r) PROVE TypeOK'
    BY <1>9, <1>t, ReturnTyped, Zenon DEF TypeOK, ban_check_middleware, Goto
<1>10. ASSUME NEW r \in Requests, SoftDelete(r) PROVE TypeOK'
    BY <1>10, <1>t, ReturnTyped, Zenon DEF TypeOK, SoftDelete, Goto
<1>11. ASSUME NEW r \in Requests, DeleteCommit(r) PROVE TypeOK'
    BY <1>11, <1>t, DoneTyped DEF TypeOK, DeleteCommit, FamilyRows, Racers
<1>12. ASSUME NEW r \in Requests, Abort(r) PROVE TypeOK'
    BY <1>12, ReturnTyped DEF Abort
<1>13. ASSUME NEW t \in Issued, revoke_token(t) PROVE TypeOK'
    <2>1. rows[t].user \in Users
        BY RowTyped
    <2> QED
        BY <1>13, <2>1, <1>t DEF TypeOK, revoke_token, Present, revoke_refresh_token
<1>14. CASE Expire
    BY <1>14, <1>t DEF TypeOK, Expire
<1>15. ASSUME NEW u \in Users, Ban(u) PROVE TypeOK'
    BY <1>15, <1>t DEF TypeOK, Ban
<1>16. CASE UNCHANGED vars
    BY <1>16, <1>t DEF TypeOK, vars
<1> QED
    BY <1>1, <1>2, <1>3, <1>4, <1>5, <1>6, <1>7, <1>8, <1>9, <1>10, <1>11, <1>12, <1>13, <1>14, <1>15, <1>16 DEF Next


-----------------------------------------------------------------------------
(* Chains of tokens *)

\* A token keeps its row when another is issued, so what is said of the rows that
\* exist stays true.
LEMMA InsertLinks ==
    ASSUME TypeOK, Rooted, NEW u \in Users, NEW c \in TokenIds, issue_token_pair_with_tx(u, c),
           c = Len(rows) + 1 \/ (c \in Issued /\ rows[c].user = u)
    PROVE  Rooted'
<1> DEFINE n == Len(rows) + 1
<1>1. /\ Issued' = Issued \cup {n} /\ n \notin Issued
      /\ \A t \in Issued : rows'[t] = rows[t]
      /\ rows'[n].user = u /\ rows'[n].root = c
    BY Inserted
<1> HIDE DEF n
<1>2. c = n \/ (c \in Issued /\ rows[c].user = u)
    BY DEF n
<1>3. \A t \in Issued : rows'[t].root \in Issued' /\ rows'[rows'[t].root].user = rows'[t].user
    BY <1>1 DEF Rooted
<1>4. rows'[n].root \in Issued' /\ rows'[rows'[n].root].user = rows'[n].user
    BY <1>1, <1>2
<1> QED
    BY <1>1, <1>3, <1>4 DEF Rooted

\* A request that ends lets go of its lock, and takes nothing with it.
LEMMA ReturnLinks ==
    ASSUME ChainInv, NEW r \in Requests, Done(r), rows' = rows, revoked' = revoked
    PROVE  Shape' /\ Rooted' /\ OneEnd' /\ LocksExclude' /\ RotateLive'
<1> USE DEF ChainInv, TypeOK, Done, Goto
<1>1. Issued' = Issued
    BY DEF Issued
<1>2. Shape'
    BY <1>1 DEF Shape
<1>3. Rooted' /\ OneEnd'
    BY <1>1 DEF Rooted, OneEnd
<1>4. LocksExclude' /\ RotateLive'
    BY <1>1 DEF LocksExclude, LocksToken, RotateLive
<1> QED
    BY <1>2, <1>3, <1>4

\* Rows that are only revoked, none of them under another request's lock, leave every
\* chain with at most one live token.
LEMMA RevokeLinks ==
    ASSUME ChainInv, NEW R \in SUBSET Issued, NEW r \in Requests, rows' = rows, revoked' = revoked \cup R,
           \A t \in R, q \in Requests \ {r} : ~LocksToken(q, t),
           Done(r)
    PROVE  Shape' /\ Rooted' /\ OneEnd' /\ LocksExclude' /\ RotateLive'
<1> USE DEF ChainInv, TypeOK
<1>1. Issued' = Issued
    BY DEF Issued
<1>2. Shape'
    BY <1>1 DEF Shape, Done, Goto
<1>3. Rooted' /\ OneEnd'
    BY <1>1 DEF Rooted, OneEnd
<1>4. LocksExclude'
    BY <1>1 DEF LocksExclude, LocksToken, Done, Goto
<1>5. RotateLive'
    BY <1>1 DEF RotateLive, LocksToken, Done, Goto
<1> QED
    BY <1>2, <1>3, <1>4, <1>5


\* Every step keeps the chains: a lock is granted to one request at a time, and only
\* its holder revokes the token it rotates.
LEMMA ChainInductive == ChainInv /\ [Next]_vars => ChainInv'
<1> SUFFICES ASSUME ChainInv, [Next]_vars PROVE ChainInv'
    OBVIOUS
<1>0. TypeOK'
    BY TypeInductive DEF ChainInv
<1> DEFINE Links == Shape /\ Rooted /\ OneEnd /\ LocksExclude /\ RotateLive
<1> SUFFICES Links'
    BY <1>0 DEF ChainInv
<1> USE DEF ChainInv, tables, requests, history
<1>r. ASSUME NEW r \in Requests, Return(r) PROVE Links'
    BY <1>r, ReturnLinks DEF Return
<1>u. ASSUME rows' = rows, revoked' = revoked PROVE Issued' = Issued /\ Rooted' /\ OneEnd'
    BY <1>u DEF Issued, Rooted, OneEnd
<1>b. ASSUME NEW r \in Requests, pc[r] = "idle", UNCHANGED <<rows, revoked, family>>,
             \A q \in Requests \ {r} : pc'[q] = pc[q] /\ tok'[q] = tok[q] /\ user'[q] = user[q],
             \/ pc'[r] \in {"issue", "ban_check"} /\ tok'[r] = 0
             \/ pc'[r] = "lock" /\ tok'[r] \in Issued /\ rows[tok'[r]].user = user'[r]
      PROVE  Links'
    <2>1. Issued' = Issued /\ Rooted' /\ OneEnd'
        BY <1>b, <1>u
    <2>2. family[r] = {}
        BY <1>b DEF Shape
    <2>3. 0 \notin Issued
        BY RowTyped
    <2>4. Shape'
        BY <1>b, <2>1, <2>2, <2>3 DEF Shape
    <2>5. LocksExclude' /\ RotateLive'
        BY <1>b, <2>1 DEF LocksExclude, RotateLive, LocksToken
    <2> QED
        BY <2>1, <2>4, <2>5
<1>1. ASSUME NEW r \in Requests, NEW u \in Users, login(r, u) PROVE Links'
    <2> HIDE DEF Links
    <2> QED
        BY <1>1, <1>b DEF login, Begin, Goto, TypeOK
<1>2. ASSUME NEW r \in Requests, NEW u \in Users, delete_account(r, u) PROVE Links'
    <2> HIDE DEF Links
    <2> QED
        BY <1>2, <1>b DEF delete_account, Begin, Goto, TypeOK
<1>3. ASSUME NEW r \in Requests, NEW t \in Issued, refresh_token(r, t) PROVE Links'
    <2>1. CASE t <= expired
        <3>1. Issued' = Issued /\ Rooted' /\ OneEnd'
            BY <1>3, <2>1, <1>u DEF refresh_token
        <3> QED
            BY <1>3, <2>1, <3>1 DEF refresh_token, Shape, LocksExclude, RotateLive, LocksToken
    <2>2. CASE ~(t <= expired)
        <3> HIDE DEF Links
        <3> QED
            BY <1>3, <2>2, <1>b DEF refresh_token, Begin, Goto, TypeOK
    <2> QED
        BY <2>1, <2>2
<1>4. ASSUME NEW r \in Requests, LoginIssue(r) PROVE Links'
    <2>1. CASE Return(r)
        BY <2>1, <1>r
    <2>2. CASE issue_token_pair_with_tx(user[r], Len(rows) + 1) /\ Done(r) /\ revoked' = revoked
        <3> DEFINE n == Len(rows) + 1
        <3>1. user[r] \in Users /\ n \in TokenIds
            BY <1>4, <2>2, MaxTokensAssumption DEF LoginIssue, TypeOK, issue_token_pair_with_tx, TokenIds
        <3>2. /\ Issued' = Issued \cup {n} /\ n \notin Issued
              /\ \A t \in Issued : rows'[t] = rows[t]
              /\ rows'[n].root = n
            BY <2>2, <3>1, Inserted
        <3>3. Rooted'
            BY <2>2, <3>1, InsertLinks
        <3> HIDE DEF n
        <3>4. Shape'
            BY <2>2, <3>2, SMTT(20) DEF Shape, TypeOK, Done, Goto
        <3>5. OneEnd'
            BY <2>2, <3>2 DEF OneEnd, Rooted
        <3>6. n \notin revoked /\ \A q \in Requests : tok[q] # n
            BY <3>2 DEF TypeOK, Shape, n
        <3>7. LocksExclude' /\ RotateLive'
            BY <2>2, <3>2, <3>6 DEF LocksExclude, RotateLive, LocksToken, TypeOK, Done, Goto
        <3> QED
            BY <3>3, <3>4, <3>5, <3>7
    <2> QED
        BY <1>4, <2>1, <2>2 DEF LoginIssue
<1>5. ASSUME NEW r \in Requests, RefreshLock(r) PROVE Links'
    <2>1. CASE Return(r)
        BY <2>1, <1>r
    <2>2. CASE ~(tok[r] \notin revoked /\ seen[r] # "active")
        <3>1. Issued' = Issued /\ Rooted' /\ OneEnd'
            BY <1>5, <2>2, <1>u DEF RefreshLock
        <3>2. Shape'
            BY <1>5, <2>2, <3>1 DEF RefreshLock, Goto, Shape, TypeOK
        <3>3. RotateLive'
            BY <1>5, <2>2, <3>1 DEF RefreshLock, Goto, RotateLive, TypeOK
        <3>4. LocksExclude'
            BY <1>5, <2>2, <3>1 DEF RefreshLock, Goto, LocksExclude, LocksToken, TypeOK
        <3> QED
            BY <3>1, <3>2, <3>3, <3>4
    <2> QED
        BY <1>5, <2>1, <2>2 DEF RefreshLock
<1>6. ASSUME NEW r \in Requests, RefreshRotate(r) PROVE Links'
    <2> DEFINE n == Len(rows) + 1
               old == tok[r]
               c == rows[old].root
    <2>1. user[r] \in Users /\ c \in TokenIds /\ old \in Issued /\ rows[old].user = user[r]
        BY <1>6, RowTyped DEF RefreshRotate, TypeOK, Shape
    <2>2. c \in Issued /\ rows[c].user = user[r]
        BY <2>1 DEF Rooted
    <2>3. issue_token_pair_with_tx(user[r], c) /\ Done(r) /\ revoked' = revoked \cup {old}
        BY <1>6 DEF RefreshRotate
    <2>4. /\ Issued' = Issued \cup {n} /\ n \notin Issued
          /\ \A t \in Issued : rows'[t] = rows[t]
          /\ rows'[n].root = c
        BY <2>1, <2>3, Inserted
    <2>5. Rooted'
        BY <2>1, <2>2, <2>3, InsertLinks
    <2> HIDE DEF n, c
    <2>6. Shape'
        BY <2>3, <2>4 DEF Shape, TypeOK, Done, Goto
    <2>7. old \notin revoked
        BY <1>6 DEF RefreshRotate, RotateLive
    <2>8. \A t \in Issued \ revoked' : rows[t].root # c
        BY <2>1, <2>3, <2>7 DEF OneEnd, c
    <2>9. OneEnd'
        BY <2>3, <2>4, <2>8 DEF OneEnd
    <2>10. \A q \in Requests : tok[q] # n
        BY <2>4 DEF TypeOK, Shape, n
    <2>11. LocksExclude'
        BY <2>3, <2>4, <2>10 DEF LocksExclude, LocksToken, TypeOK, Done, Goto
    <2>12. \A q \in Requests \ {r} : pc[q] = "rotate" => tok[q] # old
        BY <1>6, <2>1, Zenon DEF RefreshRotate, LocksExclude, LocksToken
    <2>13. RotateLive'
        BY <2>3, <2>12 DEF RotateLive, TypeOK, Done, Goto
    <2> QED
        BY <2>5, <2>6, <2>9, <2>11, <2>13
<1>7. ASSUME NEW r \in Requests, FamilySnapshot(r) PROVE Links'
    <2>1. Issued' = Issued /\ Rooted' /\ OneEnd'
        BY <1>7, <1>u DEF FamilySnapshot
    <2>2. Shape'
        BY <1>7, <2>1 DEF FamilySnapshot, Goto, Shape, TypeOK, Live, Of
    <2>3. LocksExclude' /\ RotateLive'
        BY <1>7, <2>1 DEF FamilySnapshot, Goto, LocksExclude, LocksToken, RotateLive, TypeOK
    <2> QED
        BY <2>1, <2>2, <2>3
<1>8. ASSUME NEW r \in Requests, ReuseDetected(r) PROVE Links'
    <2>1. family[r] \in SUBSET Issued
        BY DEF TypeOK
    <2>2. /\ rows' = rows /\ revoked' = revoked \cup family[r] /\ Done(r)
          /\ \A t \in family[r], q \in Requests \ {r} : ~LocksToken(q, t)
        BY <1>8 DEF ReuseDetected, FamilyRows
    <2> QED
        BY <2>1, <2>2, RevokeLinks
<1>9. ASSUME NEW r \in Requests, ban_check_middleware(r) PROVE Links'
    <2>1. CASE Return(r)
        BY <2>1, <1>r
    <2>2. CASE user[r] \notin banned
        BY <1>9, <2>2, <1>u DEF ban_check_middleware, Goto, Shape, LocksExclude, LocksToken, RotateLive, TypeOK
    <2> QED
        BY <1>9, <2>1, <2>2 DEF ban_check_middleware
<1>10. ASSUME NEW r \in Requests, SoftDelete(r) PROVE Links'
    <2>1. CASE Return(r)
        BY <2>1, <1>r
    <2>2. CASE user[r] \notin deleted
        <3>1. Issued' = Issued /\ Rooted' /\ OneEnd'
            BY <1>10, <2>2, <1>u DEF SoftDelete
        <3>2. Shape' /\ RotateLive'
            BY <1>10, <2>2, <3>1 DEF SoftDelete, Goto, Shape, RotateLive, TypeOK
        <3>3. tok[r] = 0 /\ 0 \notin Issued
            BY <1>10, RowTyped, Zenon DEF SoftDelete, Shape
        <3>4. LocksExclude'
            BY <1>10, <2>2, <3>1, <3>3, Zenon DEF SoftDelete, Goto, LocksExclude, LocksToken, TypeOK
        <3> QED
            BY <3>1, <3>2, <3>4
    <2> QED
        BY <1>10, <2>1, <2>2 DEF SoftDelete
<1>11. ASSUME NEW r \in Requests, DeleteCommit(r) PROVE Links'
    <2>1. family[r] \in SUBSET Issued
        BY DEF TypeOK
    <2>2. /\ rows' = rows /\ revoked' = revoked \cup family[r] /\ Done(r)
          /\ \A t \in family[r], q \in Requests \ {r} : ~LocksToken(q, t)
        BY <1>11, Zenon DEF DeleteCommit, FamilyRows
    <2> QED
        BY <2>1, <2>2, RevokeLinks
<1>12. ASSUME NEW r \in Requests, Abort(r) PROVE Links'
    BY <1>12, <1>r DEF Abort
<1>13. ASSUME NEW t \in Issued, revoke_token(t) PROVE Links'
    <2>1. /\ rows' = rows /\ revoked' = revoked \cup {t} /\ UNCHANGED requests
          /\ \A q \in Requests : ~LocksToken(q, t)
        BY <1>13 DEF revoke_token, revoke_refresh_token
    <2>2. Issued' = Issued
        BY <2>1 DEF Issued
    <2>3. Shape' /\ Rooted' /\ OneEnd' /\ LocksExclude'
        BY <2>1, <2>2 DEF Shape, Rooted, OneEnd, LocksExclude, LocksToken
    <2>4. RotateLive'
        BY <2>1 DEF RotateLive, LocksToken
    <2> QED
        BY <2>3, <2>4
<1>14. ASSUME UNCHANGED <<rows, revoked, requests>> PROVE Links'
    BY <1>14, <1>u DEF Shape, LocksExclude, LocksToken, RotateLive
<1>15. CASE Expire \/ (\E u \in Users : Ban(u)) \/ UNCHANGED vars
    BY <1>14, <1>15 DEF Expire, Ban, vars
<1> HIDE DEF Links
<1> QED
    BY <1>1, <1>2, <1>3, <1>4, <1>5, <1>6, <1>7, <1>8, <1>9, <1>10, <1>11, <1>12, <1>13, <1>15 DEF Next


\* The empty table has no chain, and no request is under way.
LEMMA InitChain == Init => ChainInv
    BY MaxTokensAssumption DEF Init, ChainInv, TypeOK, Shape, Rooted, OneEnd, LocksExclude, LocksToken, RotateLive, Issued

\* No statement reads or writes a row that does not exist, and every request is for
\* one user and one token from its first statement to its last.
THEOREM TypeCorrect == Spec => []TypeOK
<1>1. ChainInv => TypeOK
    BY DEF ChainInv
<1> QED
    BY <1>1, InitChain, ChainInductive, PTL DEF Spec

-----------------------------------------------------------------------------
(* Sessions implements SessionChains *)

Ends == [c \in TokenIds |-> {t \in Issued \ revoked : rows[t].root = c}]
Holder == [t \in TokenIds |-> IF t \in Issued THEN rows[t].user ELSE CHOOSE u \in Users : TRUE]

\* The user of a row, after a step.
LEMMA RowUserTyped == TypeOK' => (\A t \in Issued : rows[t].user \in Users)'
<1>1. TypeOK => \A t \in Issued : rows[t].user \in Users
    BY RowTyped
<1> QED
    BY <1>1, PTL

\* Rows change no user, so the holder of an issued token is settled.
LEMMA HolderSettled ==
    ASSUME TypeOK, TypeOK', Issued \subseteq Issued', \A t \in Issued : rows'[t] = rows[t]
    PROVE  Holder' \in [TokenIds -> Users] /\ \A t \in Issued : Holder'[t] = Holder[t]
<1>1. (CHOOSE u \in Users : TRUE) \in Users
    BY UsersAssumption
<1>2. \A t \in Issued' : rows'[t].user \in Users
    BY RowUserTyped
<1>3. Issued \subseteq TokenIds
    BY RowTyped
<1> QED
    BY <1>1, <1>2, <1>3 DEF Holder


\* A login opens a chain, named by the token it inserts.
LEMMA LoginOpens ==
    ASSUME ChainInv, TypeOK', NEW u \in Users, issue_token_pair_with_tx(u, Len(rows) + 1), revoked' = revoked
    PROVE  Chains!Next
<1> USE DEF ChainInv
<1>1. PICK n \in TokenIds : n = Len(rows) + 1
    BY MaxTokensAssumption DEF TypeOK, issue_token_pair_with_tx, TokenIds
<1>2. /\ Issued' = Issued \cup {n} /\ n \notin Issued
      /\ \A t \in Issued : rows'[t] = rows[t]
      /\ rows'[n].root = n
    BY <1>1, Inserted
<1>3. Holder' \in [TokenIds -> Users] /\ \A t \in Issued : Holder'[t] = Holder[t]
    BY <1>2, HolderSettled
<1>4. \A c \in TokenIds : Ends'[c] = IF c = n THEN {n} ELSE Ends[c]
    <2> TAKE c \in TokenIds
    <2>1. n \notin revoked'
        BY <1>2 DEF TypeOK
    <2>2. CASE c = n
        BY <1>2, <2>1, <2>2 DEF Ends, Rooted
    <2>3. CASE c # n
        BY <1>2, <2>3 DEF Ends
    <2> QED
        BY <2>2, <2>3
<1>5. Ends' = [Ends EXCEPT ![n] = {n}]
    BY <1>4, Zenon DEF Ends
<1>6. Chains!Open(n)
    BY <1>2, <1>5 DEF Chains!Open, Ends
<1>7. \E c \in TokenIds : Chains!Open(c)
    BY <1>6
<1> QED
    BY <1>3, <1>7 DEF Chains!Next, Holder

\* A refresh replaces the live token of its chain by the one it inserts.
LEMMA RefreshRotates ==
    ASSUME ChainInv, TypeOK', NEW r \in Requests, RefreshRotate(r)
    PROVE  Chains!Next
<1> USE DEF ChainInv
<1>1. PICK old \in Issued : old = tok[r]
    BY DEF RefreshRotate, Shape
<1>n. PICK n \in TokenIds : n = Len(rows) + 1
    BY MaxTokensAssumption DEF RefreshRotate, issue_token_pair_with_tx, TypeOK, TokenIds
<1>2. PICK c \in TokenIds : c = rows[old].root
    BY RowTyped
<1>3. /\ user[r] \in Users /\ old \in TokenIds /\ rows[old].user = user[r]
      /\ issue_token_pair_with_tx(user[r], c) /\ revoked' = revoked \cup {old} /\ old \notin revoked
    BY <1>1, <1>2, RowTyped, Zenon DEF RefreshRotate, TypeOK, Shape, RotateLive
<1>4. /\ Issued' = Issued \cup {n} /\ n \notin Issued /\ n \in TokenIds
      /\ \A t \in Issued : rows'[t] = rows[t]
      /\ rows'[n].root = c /\ rows'[n].user = user[r]
    BY <1>1, <1>n, <1>2, <1>3, Inserted, Zenon
<1>5. Holder' \in [TokenIds -> Users] /\ \A t \in Issued : Holder'[t] = Holder[t]
    BY <1>4, HolderSettled
<1>6. Ends[c] = {old}
    BY <1>1, <1>2, <1>3 DEF Ends, OneEnd
<1>7. n \notin revoked'
    BY <1>1, <1>2, <1>3, <1>4, Zenon DEF TypeOK
<1>8. \A d \in TokenIds : Ends'[d] = IF d = c THEN {n} ELSE Ends[d]
    <2> TAKE d \in TokenIds
    <2>1. CASE d = c
        <3>1. \A t \in Issued \ revoked' : rows[t].root # c
            BY <1>1, <1>2, <1>3, <1>6, Zenon DEF Ends
        <3> QED
            BY <1>4, <1>7, <2>1, <3>1 DEF Ends
    <2>2. CASE d # c
        <3>1. rows[old].root # d
            BY <1>2, <2>2
        <3> QED
            BY <1>3, <1>4, <2>2, <3>1 DEF Ends
    <2> QED
        BY <2>1, <2>2
<1>9. Ends' = [Ends EXCEPT ![c] = {n}]
    BY <1>8, Zenon DEF Ends
<1>10. Holder'[n] = Holder[old]
    BY <1>3, <1>4 DEF Holder
<1>11. Chains!Rotate(c, n)
    BY <1>1, <1>4, <1>6, <1>9, <1>10, Zenon DEF Chains!Rotate, Ends, Holder
<1>12. \E d, t \in TokenIds : Chains!Rotate(d, t)
    BY <1>11
<1> QED
    BY <1>5, <1>12 DEF Chains!Next, Holder

\* Revoking tokens of one user closes chains of that user, and no other: a chain has no
\* second live token that could keep it open.
LEMMA RevokeCloses ==
    ASSUME ChainInv, TypeOK', NEW u \in Users, NEW R \in SUBSET Issued, \A t \in R : rows[t].user = u,
           rows' = rows, revoked' = revoked \cup R
    PROVE  Chains!Next
<1> USE DEF ChainInv
<1> DEFINE C == {rows[t].root : t \in R \ revoked}
<1>1. Issued' = Issued
    BY DEF Issued
<1>2. Holder' \in [TokenIds -> Users] /\ \A t \in Issued : Holder'[t] = Holder[t]
    BY <1>1, HolderSettled
<1>3. C \in SUBSET {c \in Issued : Holder[c] = u}
    BY RowTyped DEF Rooted, Holder
<1>4. \A c \in TokenIds : Ends'[c] = IF c \in C THEN {} ELSE Ends[c]
    <2> TAKE c \in TokenIds
    <2>1. CASE c \in C
        <3>1. PICK t \in R \ revoked : rows[t].root = c
            BY <2>1
        <3> QED
            BY <1>1, <2>1, <3>1 DEF Ends, OneEnd
    <2>2. CASE c \notin C
        BY <1>1, <2>2 DEF Ends
    <2> QED
        BY <2>1, <2>2
<1>5. Ends' = [c \in TokenIds |-> IF c \in C THEN {} ELSE Ends[c]]
    BY <1>4 DEF Ends
<1> HIDE DEF C
<1>6. Chains!Close(u)
    BY <1>1, <1>3, <1>5, Zenon DEF Chains!Close, Ends, Holder
<1> QED
    BY <1>2, <1>6 DEF Chains!Next, Holder


\* A step that leaves the table and the revocations alone is no step of the chains.
LEMMA TableUnchanged == ASSUME rows' = rows, revoked' = revoked PROVE UNCHANGED Chains!vars
<1>1. Issued' = Issued
    BY DEF Issued
<1> QED
    BY <1>1 DEF Chains!vars

\* Rotation implements SessionChains: a login has at most one live token, a refresh
\* replaces it by a fresh one, a closed chain stays closed, and what ends sessions ends
\* those of one user, however the requests interleave.
THEOREM RefinesSessionChains == Spec => RotationIsChains
<1>1. Init => Chains!Init
    BY UsersAssumption DEF Init, Chains!Init, Issued
<1>2. ChainInv /\ [Next]_vars => [Chains!Next]_Chains!vars
    <2> SUFFICES ASSUME ChainInv, [Next]_vars PROVE Chains!Next \/ UNCHANGED Chains!vars
        OBVIOUS
    <2>0. TypeOK'
        BY TypeInductive DEF ChainInv
    <2> DEFINE Step == Chains!Next \/ UNCHANGED Chains!vars
    <2>u. ASSUME rows' = rows, revoked' = revoked PROVE Step
        BY <2>u, TableUnchanged
    <2> SUFFICES Step
        OBVIOUS
    <2> HIDE DEF Step
    <2>1. ASSUME NEW r \in Requests, LoginIssue(r) PROVE Step
        <3>1. CASE Return(r)
            BY <3>1, <2>u DEF Return, tables
        <3>2. CASE issue_token_pair_with_tx(user[r], Len(rows) + 1) /\ revoked' = revoked
            <4>1. user[r] \in Users
                BY <2>1 DEF LoginIssue, ChainInv, TypeOK
            <4> QED
                BY <2>0, <3>2, <4>1, LoginOpens DEF Step
        <3> QED
            BY <2>1, <3>1, <3>2 DEF LoginIssue
    <2>2. ASSUME NEW r \in Requests, RefreshRotate(r) PROVE Step
        BY <2>0, <2>2, RefreshRotates DEF Step
    <2>3. ASSUME NEW r \in Requests, ReuseDetected(r) \/ DeleteCommit(r) PROVE Step
        <3>1. user[r] \in Users /\ family[r] \in SUBSET Issued /\ \A t \in family[r] : rows[t].user = user[r]
            BY <2>3 DEF ReuseDetected, DeleteCommit, ChainInv, TypeOK, Shape
        <3>2. rows' = rows /\ revoked' = revoked \cup family[r]
            BY <2>3, Zenon DEF ReuseDetected, DeleteCommit, FamilyRows
        <3> QED
            BY <2>0, <3>1, <3>2, RevokeCloses DEF Step
    <2>4. ASSUME NEW t \in Issued, revoke_token(t) PROVE Step
        <3>1. rows[t].user \in Users
            BY RowTyped DEF ChainInv
        <3>2. {t} \in SUBSET Issued /\ \A s \in {t} : rows[s].user = rows[t].user
            OBVIOUS
        <3>3. rows' = rows /\ revoked' = revoked \cup {t}
            BY <2>4 DEF revoke_token, revoke_refresh_token
        <3> QED
            BY <2>0, <3>1, <3>2, <3>3, RevokeCloses, Zenon DEF Step
    <2>5. ASSUME NEW r \in Requests, NEW u \in Users, login(r, u) \/ delete_account(r, u) PROVE Step
        BY <2>5, <2>u DEF login, delete_account, Begin, tables
    <2>6. ASSUME NEW r \in Requests, NEW t \in Issued, refresh_token(r, t) PROVE Step
        BY <2>6, <2>u DEF refresh_token, Begin, tables
    <2>7. ASSUME NEW r \in Requests, RefreshLock(r) \/ FamilySnapshot(r) \/ Abort(r) PROVE Step
        BY <2>7, <2>u, Zenon DEF RefreshLock, FamilySnapshot, Abort, Return, tables
    <2>8. ASSUME NEW r \in Requests, ban_check_middleware(r) \/ SoftDelete(r) PROVE Step
        BY <2>8, <2>u, Zenon DEF ban_check_middleware, SoftDelete, Return, tables
    <2>9. ASSUME NEW u \in Users, Ban(u) PROVE Step
        BY <2>9, <2>u DEF Ban
    <2>10. CASE Expire \/ UNCHANGED vars
        BY <2>10, <2>u DEF Expire, vars, tables
    <2> QED
        BY <2>1, <2>2, <2>3, <2>4, <2>5, <2>6, <2>7, <2>8, <2>9, <2>10 DEF Next
<1> QED
    BY <1>1, <1>2, InitChain, ChainInductive, PTL DEF Spec, RotationIsChains, Chains!Spec


-----------------------------------------------------------------------------
(* Deletion *)

\* A request that issues a token for a user under deletion, or deleted, issues a young one.
LEMMA IssuedYoung ==
    ASSUME ChainInv, NEW r \in Requests, NEW c \in TokenIds, user[r] \in Users,
           issue_token_pair_with_tx(user[r], c), revoked \subseteq revoked',
           NEW v \in Users, v \in deleted \/ \E q \in Requests : Deleting(q, v) /\ pc[q] = "revoke_all",
           NEW A, Live(v) \subseteq A \cup young[v]
    PROVE  Live(v)' \subseteq A \cup young'[v]
<1> DEFINE n == Len(rows) + 1
<1>1. /\ Issued' = Issued \cup {n} /\ n \notin Issued
      /\ \A t \in Issued : rows'[t] = rows[t]
      /\ rows'[n].user = user[r]
    BY Inserted DEF ChainInv
<1>2. young \in [Users -> SUBSET Issued]
    BY DEF ChainInv, TypeOK
<1>3. young' = IF user[r] \in deleted \/ \E q \in Requests : Deleting(q, user[r]) /\ pc[q] = "revoke_all"
               THEN [young EXCEPT ![user[r]] = @ \cup {n}] ELSE young
    BY Zenon DEF issue_token_pair_with_tx
<1> HIDE DEF n
<1>4. Live(v)' \subseteq Live(v) \cup IF v = user[r] THEN {n} ELSE {}
    BY <1>1, Zenon DEF Live, Of
<1>5. CASE v = user[r]
    <2>1. young'[v] = young[v] \cup {n}
        BY <1>2, <1>3, <1>5
    <2> QED
        BY <1>4, <1>5, <2>1
<1>6. CASE v # user[r]
    <2>1. young'[v] = young[v]
        BY <1>2, <1>3, <1>6
    <2> QED
        BY <1>4, <1>6, <2>1
<1> QED
    BY <1>5, <1>6

\* The state the deletion's properties are about is not touched by a request that ends
\* while the deletions and the tokens stay.
LEMMA ReturnDeletion ==
    ASSUME ChainInv, DeleteInv, NEW r \in Requests, Done(r), Leave(r), deleted' = deleted,
           \A v \in Users, A \in SUBSET TokenIds :
              /\ v \in deleted \/ \E q \in Requests : Deleting(q, v) /\ pc[q] = "revoke_all"
              /\ Live(v) \subseteq A \cup young[v]
              => Live(v)' \subseteq A \cup young'[v]
    PROVE  DeleteInv'
<1> USE DEF ChainInv, TypeOK, Done, Goto
<1>1. DeletingOnce'
    BY Zenon DEF DeleteInv, DeletingOnce, Deleting
<1>2. PendingDeletion'
    <2> SUFFICES ASSUME NEW q \in Requests, (Deleting(q, user[q]) /\ pc[q] = "revoke_all")'
                 PROVE  (Live(user[q]) \subseteq family[q] \cup young[user[q]])'
        BY Zenon DEF PendingDeletion
    <2>1. q # r /\ user'[q] = user[q] /\ family'[q] = family[q] /\ pc[q] = "revoke_all" /\ tok[q] = 0
        BY Zenon DEF Deleting
    <2>2. PICK u \in Users : u = user[q]
        BY <2>1, Zenon
    <2>3. Live(u) \subseteq family[q] \cup young[u] /\ Deleting(q, u)
        BY <2>1, <2>2 DEF DeleteInv, PendingDeletion, Deleting
    <2>4. family[q] \in SUBSET TokenIds
        BY RowTyped, Zenon
    <2>5. Live(u)' \subseteq family[q] \cup young'[u]
        BY <2>1, <2>3, <2>4, Zenon
    <2> QED
        BY <2>1, <2>2, <2>5 DEF Live, Of
<1>3. DeletedSeen'
    BY Zenon DEF DeleteInv, DeletedSeen, Leave
<1>4. DeletionEndsSessions'
    <2> SUFFICES ASSUME NEW u \in deleted
                 PROVE  /\ Live(u)' \subseteq young'[u]
                        /\ \A q \in Requests :
                              user'[q] = u /\ pc'[q] \in {"issue", "rotate"} => q \in racing'[u]
        BY Zenon DEF DeletionEndsSessions, Live, Of
    <2>1. Live(u) \subseteq {} \cup young[u] /\ u \in Users
        BY Zenon DEF DeleteInv, DeletionEndsSessions
    <2>2. Live(u)' \subseteq {} \cup young'[u]
        BY <2>1, Zenon
    <2>3. \A q \in Requests : user'[q] = u /\ pc'[q] \in {"issue", "rotate"} => q \in racing'[u]
        BY <2>1 DEF DeleteInv, DeletionEndsSessions, Leave
    <2> QED
        BY <2>2, <2>3, Zenon
<1> QED
    BY <1>1, <1>2, <1>3, <1>4 DEF DeleteInv


\* Every step keeps what a deletion promises, before and after it commits.
LEMMA DeleteInductive == ChainInv /\ DeleteInv /\ [Next]_vars => DeleteInv'
<1> SUFFICES ASSUME ChainInv, DeleteInv, [Next]_vars PROVE DeleteInv'
    OBVIOUS
<1> USE DEF tables, requests, history
<1>t. TypeOK
    BY DEF ChainInv
<1>l. ASSUME rows' = rows, revoked \subseteq revoked', NEW v PROVE Live(v)' \subseteq Live(v)
    BY <1>l DEF Live, Of, Issued
<1>r. ASSUME NEW r \in Requests, Done(r), Leave(r), deleted' = deleted, rows' = rows,
             revoked \subseteq revoked', young' = young
      PROVE  DeleteInv'
    <2>1. \A v \in Users : Live(v)' \subseteq Live(v)
        BY <1>r, <1>l
    <2>2. \A v \in Users, A \in SUBSET TokenIds :
              /\ v \in deleted \/ \E q \in Requests : Deleting(q, v) /\ pc[q] = "revoke_all"
              /\ Live(v) \subseteq A \cup young[v]
              => Live(v)' \subseteq A \cup young'[v]
        BY <1>r, <2>1
    <2> QED
        BY <1>r, <2>2, ReturnDeletion, Zenon
<1>i. ASSUME NEW r \in Requests, NEW c \in TokenIds, user[r] \in Users,
             issue_token_pair_with_tx(user[r], c), revoked \subseteq revoked',
             Done(r), Leave(r), deleted' = deleted
      PROVE  DeleteInv'
    <2>1. \A v \in Users, A \in SUBSET TokenIds :
              /\ v \in deleted \/ \E q \in Requests : Deleting(q, v) /\ pc[q] = "revoke_all"
              /\ Live(v) \subseteq A \cup young[v]
              => Live(v)' \subseteq A \cup young'[v]
        BY <1>i, IssuedYoung
    <2> QED
        BY <1>i, <2>1, ReturnDeletion
<1>s. ASSUME rows' = rows, revoked \subseteq revoked', deleted' = deleted, young' = young, racing' = racing,
             NEW r \in Requests,
             \A q \in Requests \ {r} : /\ pc'[q] = pc[q] /\ user'[q] = user[q] /\ tok'[q] = tok[q]
                                       /\ seen'[q] = seen[q] /\ family'[q] = family[q],
             ~Deleting(r, user[r])',
             user'[r] \in deleted => /\ pc'[r] = "issue" => FALSE
                                     /\ pc'[r] = "rotate" => r \in racing[user'[r]]
                                     /\ pc'[r] = "lock" => r \in racing[user'[r]] \/ seen'[r] = "deleted"
      PROVE  DeleteInv'
    <2>1. \A v \in Users : Live(v)' \subseteq Live(v)
        BY <1>s, <1>l, Zenon
    <2>2. DeletingOnce'
        BY <1>s DEF DeleteInv, DeletingOnce, Deleting
    <2>3. PendingDeletion'
        <3> SUFFICES ASSUME NEW q \in Requests, (Deleting(q, user[q]) /\ pc[q] = "revoke_all")'
                     PROVE  (Live(user[q]) \subseteq family[q] \cup young[user[q]])'
            BY DEF PendingDeletion
        <3>1. q # r /\ user'[q] = user[q] /\ family'[q] = family[q] /\ pc[q] = "revoke_all" /\ tok[q] = 0
            BY <1>s DEF Deleting
        <3>2. PICK u \in Users : u = user[q]
            BY <3>1, <1>t DEF TypeOK
        <3>3. Live(u) \subseteq family[q] \cup young[u]
            BY <3>1, <3>2 DEF DeleteInv, PendingDeletion, Deleting
        <3>4. Live(u)' \subseteq family[q] \cup young[u]
            BY <2>1, <3>3
        <3> QED
            BY <1>s, <3>1, <3>2, <3>4, Zenon DEF Live, Of
    <2>4. DeletedSeen'
        BY <1>s DEF DeleteInv, DeletedSeen
    <2>5. DeletionEndsSessions'
        <3> SUFFICES ASSUME NEW u \in deleted
                     PROVE  /\ Live(u)' \subseteq young[u]
                            /\ \A q \in Requests :
                                  user'[q] = u /\ pc'[q] \in {"issue", "rotate"} => q \in racing[u]
            BY <1>s DEF DeletionEndsSessions, Live, Of
        <3>1. Live(u)' \subseteq young[u]
            BY <1>t, <2>1 DEF DeleteInv, DeletionEndsSessions, TypeOK
        <3>2. \A q \in Requests : user'[q] = u /\ pc'[q] \in {"issue", "rotate"} => q \in racing[u]
            BY <1>s, Zenon DEF DeleteInv, DeletionEndsSessions
        <3> QED
            BY <3>1, <3>2
    <2> QED
        BY <2>2, <2>3, <2>4, <2>5 DEF DeleteInv
<1>n. ASSUME UNCHANGED <<rows, deleted, young, racing, requests>>, revoked \subseteq revoked' PROVE DeleteInv'
    <2>1. \A v \in Users : Live(v)' \subseteq Live(v)
        BY <1>n, <1>l
    <2>2. DeletingOnce' /\ DeletedSeen'
        BY <1>n DEF DeleteInv, DeletingOnce, Deleting, DeletedSeen
    <2>3. PendingDeletion'
        <3> SUFFICES ASSUME NEW q \in Requests, Deleting(q, user[q]), pc[q] = "revoke_all"
                     PROVE  (Live(user[q]) \subseteq family[q] \cup young[user[q]])'
            BY <1>n DEF PendingDeletion, Deleting
        <3>1. PICK u \in Users : u = user[q]
            BY <1>t DEF TypeOK
        <3>2. Live(u)' \subseteq family[q] \cup young[u]
            BY <2>1, <3>1, Zenon DEF DeleteInv, PendingDeletion
        <3> QED
            BY <1>n, <3>1, <3>2 DEF Live, Of
    <2>4. DeletionEndsSessions'
        <3> SUFFICES ASSUME NEW u \in deleted PROVE Live(u)' \subseteq young[u]
            BY <1>n DEF DeleteInv, DeletionEndsSessions, Live, Of
        <3> QED
            BY <1>t, <2>1 DEF DeleteInv, DeletionEndsSessions, TypeOK
    <2> QED
        BY <2>2, <2>3, <2>4 DEF DeleteInv
<1>1. ASSUME NEW r \in Requests, NEW u \in Users, login(r, u) PROVE DeleteInv'
    BY <1>1, <1>s, <1>t DEF login, Begin, Goto, Deleting, TypeOK
<1>2. ASSUME NEW r \in Requests, NEW u \in Users, delete_account(r, u) PROVE DeleteInv'
    BY <1>2, <1>s, <1>t DEF delete_account, Begin, Goto, Deleting, TypeOK
<1>3. ASSUME NEW r \in Requests, NEW t \in Issued, refresh_token(r, t) PROVE DeleteInv'
    <2>1. CASE t <= expired
        BY <1>3, <2>1, <1>n DEF refresh_token
    <2>2. CASE ~(t <= expired)
        <3>1. rows[t].user \in deleted => Standing(rows[t].user) = "deleted"
            BY DEF Standing
        <3> QED
            BY <1>3, <2>2, <3>1, <1>s, <1>t, Zenon DEF refresh_token, Begin, Goto, Deleting, TypeOK
    <2> QED
        BY <2>1, <2>2
<1>4. ASSUME NEW r \in Requests, LoginIssue(r) PROVE DeleteInv'
    <2>1. CASE Return(r)
        BY <2>1, <1>r DEF Return
    <2>2. CASE ~Return(r)
        <3>1. user[r] \in Users /\ Len(rows) + 1 \in TokenIds
            BY <1>4, <2>2, <1>t, MaxTokensAssumption DEF LoginIssue, TypeOK, issue_token_pair_with_tx, TokenIds
        <3> QED
            BY <1>4, <2>2, <3>1, <1>i, Zenon DEF LoginIssue
    <2> QED
        BY <2>1, <2>2
<1>5. ASSUME NEW r \in Requests, RefreshLock(r) PROVE DeleteInv'
    <2>1. CASE Return(r)
        BY <2>1, <1>r DEF Return
    <2>2. CASE ~Return(r)
        <3>1. tok[r] # 0
            BY <1>5, Zenon DEF RefreshLock, ChainInv, Shape
        <3>2. pc'[r] = "rotate" /\ user[r] \in deleted => r \in racing[user[r]]
            BY <1>5, <2>2, <1>t DEF RefreshLock, Goto, TypeOK, DeleteInv, DeletedSeen
        <3> QED
            BY <1>5, <2>2, <3>1, <3>2, <1>s, <1>t DEF RefreshLock, Goto, Deleting, TypeOK
    <2> QED
        BY <2>1, <2>2
<1>6. ASSUME NEW r \in Requests, RefreshRotate(r) PROVE DeleteInv'
    <2>1. user[r] \in Users /\ rows[tok[r]].root \in TokenIds
        BY <1>6, <1>t, RowTyped, Zenon DEF RefreshRotate, TypeOK, ChainInv, Shape
    <2> QED
        BY <1>6, <2>1, <1>i DEF RefreshRotate
<1>7. ASSUME NEW r \in Requests, FamilySnapshot(r) PROVE DeleteInv'
    <2>1. user[r] \in Users /\ rows' = rows /\ revoked' = revoked /\ deleted' = deleted /\ racing' = racing
        BY <1>7, <1>t DEF FamilySnapshot, TypeOK
    <2>2. \A v \in Users : Live(v)' = Live(v)
        BY <2>1 DEF Live, Of, Issued
    <2>3. DeletingOnce'
        BY <1>7, <1>t DEF FamilySnapshot, Goto, DeleteInv, DeletingOnce, Deleting, TypeOK
    <2>4. PendingDeletion'
        <3> SUFFICES ASSUME NEW q \in Requests, (Deleting(q, user[q]) /\ pc[q] = "revoke_all")'
                     PROVE  (Live(user[q]) \subseteq family[q] \cup young[user[q]])'
            BY DEF PendingDeletion
        <3>1. PICK u \in Users : u = user[q] /\ Deleting(q, u) /\ u = user'[q]
            BY <1>7, <1>t DEF FamilySnapshot, Goto, Deleting, TypeOK
        <3>2. Live(u) \subseteq family'[q] \cup young'[u]
            <4>1. CASE q = r
                BY <1>7, <3>1, <4>1, <1>t DEF FamilySnapshot, TypeOK
            <4>2. CASE q # r
                <5>1. ~(user[r] = u /\ tok[r] = 0)
                    BY <1>7, <3>1, <4>2, Zenon DEF FamilySnapshot, DeleteInv, DeletingOnce, Deleting
                <5>2. young'[u] = young[u] /\ family'[q] = family[q] /\ pc[q] = "revoke_all"
                    BY <1>7, <4>2, <5>1, <1>t DEF FamilySnapshot, Goto, TypeOK
                <5> QED
                    BY <3>1, <5>2, Zenon DEF DeleteInv, PendingDeletion
            <4> QED
                BY <4>1, <4>2
        <3>3. Live(u)' \subseteq family'[q] \cup young'[u]
            BY <2>2, <3>2, Zenon
        <3> QED
            BY <3>1, <3>3, Zenon DEF Live, Of
    <2>5. DeletedSeen'
        BY <1>7, <1>t DEF FamilySnapshot, Goto, DeleteInv, DeletedSeen, TypeOK
    <2>6. DeletionEndsSessions'
        <3> SUFFICES ASSUME NEW u \in deleted
                     PROVE  /\ Live(u)' \subseteq young'[u]
                            /\ \A q \in Requests :
                                  user'[q] = u /\ pc'[q] \in {"issue", "rotate"} => q \in racing[u]
            BY <2>1, Zenon DEF DeletionEndsSessions, Live, Of
        <3>1. u \in Users /\ young'[u] = young[u]
            BY <1>7, <1>t DEF FamilySnapshot, TypeOK, DeleteInv, DeletingOnce, Deleting
        <3>2. Live(u)' \subseteq young'[u]
            BY <2>2, <3>1 DEF DeleteInv, DeletionEndsSessions
        <3>3. \A q \in Requests : user'[q] = u /\ pc'[q] \in {"issue", "rotate"} => q \in racing[u]
            BY <1>7, <1>t DEF FamilySnapshot, Goto, DeleteInv, DeletionEndsSessions, TypeOK
        <3> QED
            BY <3>2, <3>3
    <2> QED
        BY <2>3, <2>4, <2>5, <2>6 DEF DeleteInv
<1>8. ASSUME NEW r \in Requests, ReuseDetected(r) PROVE DeleteInv'
    BY <1>8, <1>r DEF ReuseDetected, FamilyRows
<1>9. ASSUME NEW r \in Requests, ban_check_middleware(r) PROVE DeleteInv'
    <2>1. CASE Return(r)
        BY <2>1, <1>r DEF Return
    <2>2. CASE ~Return(r)
        BY <1>9, <2>2, <1>s, <1>t, Zenon DEF ban_check_middleware, Goto, Deleting, TypeOK
    <2> QED
        BY <2>1, <2>2
<1>10. ASSUME NEW r \in Requests, SoftDelete(r) PROVE DeleteInv'
    <2>1. CASE Return(r)
        BY <2>1, <1>r DEF Return
    <2>2. CASE ~Return(r)
        <3>1. /\ user[r] \notin deleted /\ pc[r] = "soft_delete" /\ pc' = [pc EXCEPT ![r] = "snapshot"]
              /\ \A q \in Requests \ {r} : ~Deleting(q, user[r])
              /\ UNCHANGED <<rows, revoked, deleted, user, tok, seen, family, young, racing>>
            BY <1>10, <2>2 DEF SoftDelete, Goto
        <3>2. DeletingOnce'
            BY <3>1, <1>t, Zenon DEF DeleteInv, DeletingOnce, Deleting, TypeOK
        <3>3. PendingDeletion'
            BY <3>1, <1>t DEF DeleteInv, PendingDeletion, Deleting, Live, Of, Issued, TypeOK
        <3>4. DeletedSeen' /\ DeletionEndsSessions'
            BY <3>1, <1>t, Zenon DEF DeleteInv, DeletedSeen, DeletionEndsSessions, Live, Of, Issued, TypeOK
        <3> QED
            BY <3>2, <3>3, <3>4 DEF DeleteInv
    <2> QED
        BY <2>1, <2>2
<1>11. ASSUME NEW r \in Requests, DeleteCommit(r) PROVE DeleteInv'
    <2>1. PICK u \in Users : u = user[r]
        BY <1>11, <1>t DEF DeleteCommit, TypeOK
    <2>2. /\ rows' = rows /\ revoked' = revoked \cup family[r] /\ young' = young
          /\ deleted' = deleted \cup {u} /\ racing' = [racing EXCEPT ![u] = Racers(u)]
          /\ Deleting(r, u) /\ pc[r] = "revoke_all" /\ Done(r)
        BY <1>11, <2>1 DEF DeleteCommit, FamilyRows, Deleting
    <2>3. \A v \in Users : Live(v)' \subseteq Live(v)
        BY <2>2, <1>l
    <2>4. \A q \in Requests \ {r} : Deleting(q, user[q]) => user[q] # u
        BY <2>1, <2>2, Zenon DEF DeleteInv, DeletingOnce
    <2>5. DeletingOnce'
        BY <2>2, <2>4, <1>t, Zenon DEF DeleteInv, DeletingOnce, Deleting, Done, Goto, TypeOK
    <2>6. PendingDeletion'
        <3> SUFFICES ASSUME NEW q \in Requests, (Deleting(q, user[q]) /\ pc[q] = "revoke_all")'
                     PROVE  (Live(user[q]) \subseteq family[q] \cup young[user[q]])'
            BY Zenon DEF PendingDeletion
        <3>1. q # r /\ user'[q] = user[q] /\ family'[q] = family[q] /\ pc[q] = "revoke_all" /\ tok[q] = 0
            BY <2>2, <1>t DEF Deleting, Done, Goto, TypeOK
        <3>2. PICK v \in Users : v = user[q]
            BY <3>1, <1>t, Zenon DEF TypeOK
        <3>3. Live(v)' \subseteq family[q] \cup young[v]
            BY <2>3, <3>1, <3>2, Zenon DEF DeleteInv, PendingDeletion, Deleting
        <3> QED
            BY <2>2, <3>1, <3>2, <3>3, Zenon DEF Live, Of
    <2>7. DeletedSeen'
        BY <2>2, <1>t DEF DeleteInv, DeletedSeen, Racers, Done, Goto, TypeOK
    <2>8. DeletionEndsSessions'
        <3> SUFFICES ASSUME NEW v \in deleted \cup {u}
                     PROVE  /\ Live(v)' \subseteq young[v]
                            /\ \A q \in Requests :
                                  user'[q] = v /\ pc'[q] \in {"issue", "rotate"} => q \in racing'[v]
            BY <2>2 DEF DeletionEndsSessions, Live, Of
        <3>1. Live(v)' \subseteq young[v]
            <4>1. CASE v = u
                <5>1. Live(u) \subseteq family[r] \cup young[u]
                    BY <2>1, <2>2 DEF DeleteInv, PendingDeletion
                <5>2. Live(u)' \cap family[r] = {}
                    BY <2>2 DEF Live
                <5> QED
                    BY <2>3, <4>1, <5>1, <5>2
            <4>2. CASE v # u
                BY <2>3, <4>2, <1>t DEF DeleteInv, DeletionEndsSessions, TypeOK
            <4> QED
                BY <4>1, <4>2
        <3>2. \A q \in Requests : user'[q] = v /\ pc'[q] \in {"issue", "rotate"} => q \in racing'[v]
            BY <2>2, <1>t DEF DeleteInv, DeletionEndsSessions, Racers, Done, Goto, TypeOK
        <3> QED
            BY <3>1, <3>2
    <2> QED
        BY <2>5, <2>6, <2>7, <2>8 DEF DeleteInv
<1>12. ASSUME NEW r \in Requests, Abort(r) PROVE DeleteInv'
    BY <1>12, <1>r DEF Abort, Return
<1>13. ASSUME NEW t \in Issued, revoke_token(t) PROVE DeleteInv'
    BY <1>13, <1>n DEF revoke_token, revoke_refresh_token
<1>14. CASE Expire
    BY <1>14, <1>n DEF Expire
<1>15. ASSUME NEW u \in Users, Ban(u) PROVE DeleteInv'
    BY <1>15, <1>n DEF Ban
<1>16. CASE UNCHANGED vars
    BY <1>16, <1>n DEF vars
<1> QED
    BY <1>1, <1>2, <1>3, <1>4, <1>5, <1>6, <1>7, <1>8, <1>9, <1>10, <1>11, <1>12, <1>13, <1>14, <1>15, <1>16 DEF Next

\* A deleted account keeps no session but one whose token was issued while or after the
\* UPDATE of refresh_tokens ran, by a request that had read the user before the commit.
THEOREM DeletionEnds == Spec => []DeletionEndsSessions
<1>1. Init => DeleteInv
    BY DEF Init, DeleteInv, DeletingOnce, Deleting, PendingDeletion, DeletedSeen, DeletionEndsSessions
<1>2. DeleteInv => DeletionEndsSessions
    BY DEF DeleteInv
<1> QED
    BY <1>1, <1>2, InitChain, ChainInductive, DeleteInductive, PTL DEF Spec


-----------------------------------------------------------------------------
(* Reuse detection *)

\* Every step keeps the account of who presented what: a revoked token that somebody
\* still carries was presented twice, or its user's sessions were ended for another reason.
LEMMA ReplayInductive == ChainInv /\ ReplayInv /\ [Next]_vars => ReplayInv'
<1> SUFFICES ASSUME ChainInv, ReplayInv, [Next]_vars PROVE ReplayInv'
    OBVIOUS
<1> USE DEF tables, requests, history
<1>t. TypeOK /\ \A t \in Issued : t # 0
    BY RowTyped DEF ChainInv
<1>r. ASSUME NEW r \in Requests, Done(r), UNCHANGED <<rows, revoked, deleted, repeated, replayed, shown>>
      PROVE  ReplayInv'
    <2>1. Presented' /\ ReuseExcused'
        BY <1>r, <1>t DEF ReplayInv, Presented, ReuseExcused, Excused, Done, Goto, TypeOK
    <2>2. GivenUp' /\ OnlyReplayEndsSessions'
        BY <1>r, <1>t DEF ReplayInv, GivenUp, Excused, OnlyReplayEndsSessions, Done, Goto, TypeOK
    <2> QED
        BY <2>1, <2>2 DEF ReplayInv
<1>s. ASSUME NEW r \in Requests, UNCHANGED <<rows, revoked, deleted, repeated, replayed, shown>>,
             \A q \in Requests \ {r} : pc'[q] = pc[q] /\ user'[q] = user[q] /\ tok'[q] = tok[q],
             tok'[r] # 0 => tok'[r] = tok[r] /\ user'[r] = user[r],
             pc'[r] \in {"snapshot", "revoke_all"} /\ tok'[r] # 0 => user'[r] \in Excused
      PROVE  ReplayInv'
    <2>1. Presented' /\ ReuseExcused'
        BY <1>s DEF ReplayInv, Presented, ReuseExcused, Excused
    <2>2. 0 \notin revoked
        BY <1>t DEF TypeOK
    <2>3. GivenUp' /\ OnlyReplayEndsSessions'
        BY <1>s, <2>2 DEF ReplayInv, GivenUp, Excused, OnlyReplayEndsSessions
    <2> QED
        BY <2>1, <2>3 DEF ReplayInv
<1>n. ASSUME UNCHANGED <<rows, revoked, deleted, repeated, replayed, shown, pc, user, tok>> PROVE ReplayInv'
    BY <1>n DEF ReplayInv, Presented, ReuseExcused, Excused, GivenUp, OnlyReplayEndsSessions
<1>i. ASSUME NEW r \in Requests, NEW c \in TokenIds, user[r] \in Users,
             issue_token_pair_with_tx(user[r], c), Done(r),
             revoked' # revoked => tok[r] # 0 /\ revoked' = revoked \cup {tok[r]},
             UNCHANGED <<deleted, repeated, replayed, shown>>
      PROVE  ReplayInv'
    <2>1. Issued \subseteq Issued' /\ \A t \in Issued : rows'[t] = rows[t]
        BY <1>i, <1>t, Inserted
    <2>2. Presented' /\ ReuseExcused' /\ OnlyReplayEndsSessions'
        BY <1>i, <1>t DEF ReplayInv, Presented, ReuseExcused, Excused, OnlyReplayEndsSessions, Done, Goto, TypeOK
    <2>3. ASSUME NEW t \in revoked
          PROVE  rows'[t].user \in Excused \/ (t \in shown /\ \A q \in Requests : tok'[q] # t)
        <3>1. t \in Issued
            BY <1>t DEF TypeOK
        <3> QED
            BY <1>i, <2>1, <3>1, <1>t, Zenon DEF ReplayInv, GivenUp, Done, TypeOK
    <2>4. ASSUME tok[r] # 0
          PROVE  rows'[tok[r]].user \in Excused \/ (tok[r] \in shown /\ \A q \in Requests : tok'[q] # tok[r])
        <3>1. tok[r] \in Issued /\ tok[r] \in shown /\ rows'[tok[r]].user = user[r]
            BY <2>1, <2>4 DEF ReplayInv, Presented, ChainInv, Shape
        <3> QED
            BY <1>i, <2>4, <3>1, <1>t DEF ReplayInv, Presented, Excused, Done, TypeOK
    <2>5. GivenUp'
        BY <1>i, <2>3, <2>4, SMTT(20) DEF GivenUp, Excused
    <2> QED
        BY <2>2, <2>5 DEF ReplayInv
<1>f. ASSUME NEW r \in Requests, pc[r] # "idle", Done(r), rows' = rows, revoked' = revoked \cup family[r],
             deleted \subseteq deleted', repeated' = repeated, shown' = shown,
             replayed' \subseteq replayed \cup {user[r]}, user[r] \in deleted' \cup repeated
      PROVE  ReplayInv'
    <2>1. Presented' /\ ReuseExcused' /\ OnlyReplayEndsSessions'
        BY <1>f, <1>t DEF ReplayInv, Presented, ReuseExcused, Excused, OnlyReplayEndsSessions, Done, Goto, TypeOK
    <2>2. \A t \in family[r] : rows[t].user = user[r]
        BY Zenon DEF ChainInv, Shape
    <2>3. GivenUp'
        BY <1>f, <2>2, <1>t, Zenon DEF ReplayInv, GivenUp, Excused, Done, TypeOK
    <2> QED
        BY <2>1, <2>3 DEF ReplayInv
<1>1. ASSUME NEW r \in Requests, NEW u \in Users, login(r, u) PROVE ReplayInv'
    <2>1. UNCHANGED <<rows, revoked, deleted, repeated, replayed, shown>>
        BY <1>1 DEF login, Begin
    <2>2. /\ \A q \in Requests \ {r} : pc'[q] = pc[q] /\ user'[q] = user[q] /\ tok'[q] = tok[q]
          /\ tok'[r] = 0 /\ pc'[r] \notin {"snapshot", "revoke_all"}
        BY <1>1, <1>t DEF login, Begin, Goto, TypeOK
    <2> QED
        BY <2>1, <2>2, <1>s, Zenon
<1>2. ASSUME NEW r \in Requests, NEW u \in Users, delete_account(r, u) PROVE ReplayInv'
    <2>1. UNCHANGED <<rows, revoked, deleted, repeated, replayed, shown>>
        BY <1>2 DEF delete_account, Begin
    <2>2. /\ \A q \in Requests \ {r} : pc'[q] = pc[q] /\ user'[q] = user[q] /\ tok'[q] = tok[q]
          /\ tok'[r] = 0 /\ pc'[r] \notin {"snapshot", "revoke_all"}
        BY <1>2, <1>t DEF delete_account, Begin, Goto, TypeOK
    <2> QED
        BY <2>1, <2>2, <1>s, Zenon
<1>3. ASSUME NEW r \in Requests, NEW t \in Issued, refresh_token(r, t) PROVE ReplayInv'
    <2>1. /\ shown' = shown \cup {t}
          /\ repeated' = IF t \in shown THEN repeated \cup {rows[t].user} ELSE repeated
          /\ UNCHANGED <<rows, revoked, deleted, replayed>>
          /\ \A q \in Requests \ {r} : pc'[q] = pc[q] /\ user'[q] = user[q] /\ tok'[q] = tok[q]
        BY <1>3, <1>t DEF refresh_token, Present, Begin, Goto, TypeOK
    <2>2. \/ pc'[r] = pc[r] /\ tok'[r] = tok[r] /\ user'[r] = user[r]
          \/ pc'[r] = "lock" /\ tok'[r] = t /\ user'[r] = rows[t].user
        BY <1>3, <1>t DEF refresh_token, Begin, Goto, TypeOK
    <2>3. \A q \in Requests : tok[q] # 0 => tok[q] \in shown /\ rows[tok[q]].user = user[q]
        BY Zenon DEF ReplayInv, Presented, ChainInv, Shape
    <2>p. /\ shown \subseteq shown' /\ repeated \subseteq repeated'
          /\ t \in shown' /\ (t \in shown => rows[t].user \in repeated')
        BY <2>1, Zenon
    <2>q. \A q \in Requests : \/ tok'[q] = tok[q] /\ user'[q] = user[q]
                              \/ q = r /\ tok'[q] = t /\ user'[q] = rows[t].user
        BY <2>1, <2>2, Zenon
    <2>4. Presented'
        <3>1. ASSUME NEW q \in Requests, tok'[q] # 0 PROVE tok'[q] \in shown'
            BY <3>1, <2>p, <2>q, <2>3, Zenon
        <3>2. ASSUME NEW p \in Requests, NEW q \in Requests, p # q, tok'[p] # 0, tok'[p] = tok'[q]
              PROVE  user'[q] \in repeated'
            <4>1. CASE tok'[p] = tok[p] /\ tok'[q] = tok[q] /\ user'[q] = user[q]
                BY <3>2, <4>1, <2>p, Zenon DEF ReplayInv, Presented
            <4>2. CASE tok'[p] = t /\ tok'[q] = tok[q] /\ user'[q] = user[q]
                BY <3>2, <4>2, <2>p, <2>3, Zenon
            <4>3. CASE tok'[p] = tok[p] /\ tok'[q] = t /\ user'[q] = rows[t].user
                BY <3>2, <4>3, <2>p, <2>3, Zenon
            <4>4. /\ tok'[p] = tok[p] \/ (p = r /\ tok'[p] = t)
                  /\ \/ tok'[q] = tok[q] /\ user'[q] = user[q]
                     \/ q = r /\ tok'[q] = t /\ user'[q] = rows[t].user
                BY <2>q, Zenon
            <4>5. ~(p = r /\ q = r)
                BY <3>2, Zenon
            <4> QED
                BY <4>1, <4>2, <4>3, <4>4, <4>5, Zenon
        <3> QED
            BY <3>1, <3>2, Zenon DEF Presented
    <2>5. GivenUp'
        <3>1. ASSUME NEW x \in revoked
              PROVE  rows[x].user \in Excused' \/ (x \in shown' /\ \A q \in Requests : tok'[q] # x)
            <4>1. Excused \subseteq Excused' /\ (x = t /\ t \in shown => rows[x].user \in Excused')
                BY <2>1, <2>p, Zenon DEF Excused
            <4>2. rows[x].user \in Excused \/ (x \in shown /\ \A q \in Requests : tok[q] # x)
                BY Zenon DEF ReplayInv, GivenUp
            <4> QED
                BY <4>1, <4>2, <2>p, <2>q, Zenon
        <3> QED
            BY <2>1, <3>1, Zenon DEF GivenUp
    <2>6. ReuseExcused' /\ OnlyReplayEndsSessions'
        BY <1>3, <2>1, <2>2 DEF ReplayInv, ReuseExcused, OnlyReplayEndsSessions, Excused
    <2> QED
        BY <2>4, <2>5, <2>6 DEF ReplayInv
<1>4. ASSUME NEW r \in Requests, LoginIssue(r) PROVE ReplayInv'
    <2>1. CASE Return(r)
        BY <2>1, <1>r DEF Return
    <2>2. CASE ~Return(r)
        <3>1. user[r] \in Users /\ Len(rows) + 1 \in TokenIds
            BY <1>4, <2>2, <1>t, MaxTokensAssumption DEF LoginIssue, TypeOK, issue_token_pair_with_tx, TokenIds
        <3> QED
            BY <1>4, <2>2, <3>1, <1>i, Zenon DEF LoginIssue
    <2> QED
        BY <2>1, <2>2
<1>5. ASSUME NEW r \in Requests, RefreshLock(r) PROVE ReplayInv'
    <2>1. CASE Return(r)
        BY <2>1, <1>r DEF Return
    <2>2. CASE ~Return(r)
        <3>1. tok[r] # 0 /\ tok[r] \in Issued /\ rows[tok[r]].user = user[r]
            BY <1>5 DEF RefreshLock, ChainInv, Shape
        <3>2. tok[r] \in revoked => user[r] \in Excused
            BY <3>1 DEF ReplayInv, GivenUp
        <3>3. /\ UNCHANGED <<rows, revoked, deleted, repeated, replayed, shown, user, tok>>
              /\ pc' = [pc EXCEPT ![r] = IF tok[r] \in revoked THEN "snapshot" ELSE "rotate"]
            BY <1>5, <2>2, Zenon DEF RefreshLock, Goto
        <3> QED
            BY <3>1, <3>2, <3>3, <1>s, <1>t DEF TypeOK
    <2> QED
        BY <2>1, <2>2
<1>6. ASSUME NEW r \in Requests, RefreshRotate(r) PROVE ReplayInv'
    <2>1. user[r] \in Users /\ rows[tok[r]].root \in TokenIds /\ tok[r] # 0
        BY <1>6, <1>t, RowTyped, Zenon DEF RefreshRotate, TypeOK, ChainInv, Shape
    <2> QED
        BY <1>6, <2>1, <1>i, Zenon DEF RefreshRotate
<1>7. ASSUME NEW r \in Requests, FamilySnapshot(r) PROVE ReplayInv'
    <2>1. /\ UNCHANGED <<rows, revoked, deleted, repeated, replayed, shown, user, tok>>
          /\ pc' = [pc EXCEPT ![r] = "revoke_all"] /\ pc[r] = "snapshot"
        BY <1>7, Zenon DEF FamilySnapshot, Goto
    <2>2. tok[r] # 0 => user[r] \in Excused
        BY <2>1 DEF ReplayInv, ReuseExcused
    <2> QED
        BY <2>1, <2>2, <1>s, <1>t DEF TypeOK
<1>8. ASSUME NEW r \in Requests, ReuseDetected(r) PROVE ReplayInv'
    <2>1. user[r] \in Excused
        BY <1>8, Zenon DEF ReuseDetected, ReplayInv, ReuseExcused
    <2> QED
        BY <1>8, <2>1, <1>f, Zenon DEF ReuseDetected, FamilyRows, Excused
<1>9. ASSUME NEW r \in Requests, ban_check_middleware(r) \/ SoftDelete(r) PROVE ReplayInv'
    <2>1. CASE Return(r)
        BY <2>1, <1>r DEF Return
    <2>2. CASE ~Return(r)
        <3>1. /\ UNCHANGED <<rows, revoked, deleted, repeated, replayed, shown, user, tok>>
              /\ pc[r] \in {"ban_check", "soft_delete"}
              /\ \A q \in Requests \ {r} : pc'[q] = pc[q]
            BY <1>9, <2>2, <1>t DEF ban_check_middleware, SoftDelete, Goto, TypeOK
        <3>2. tok[r] = 0
            BY <3>1, Zenon DEF ChainInv, Shape
        <3> QED
            BY <3>1, <3>2, <1>s, Zenon
    <2> QED
        BY <2>1, <2>2
<1>10. ASSUME NEW r \in Requests, DeleteCommit(r) PROVE ReplayInv'
    BY <1>10, <1>f, Zenon DEF DeleteCommit, FamilyRows
<1>11. ASSUME NEW r \in Requests, Abort(r) PROVE ReplayInv'
    BY <1>11, <1>r DEF Abort, Return
<1>12. ASSUME NEW t \in Issued, revoke_token(t) PROVE ReplayInv'
    <2>1. /\ shown' = shown \cup {t} /\ revoked' = revoked \cup {t}
          /\ repeated' = IF t \in shown THEN repeated \cup {rows[t].user} ELSE repeated
          /\ UNCHANGED <<rows, deleted, replayed, pc, user, tok>>
        BY <1>12 DEF revoke_token, revoke_refresh_token, Present
    <2>2. Presented' /\ ReuseExcused' /\ OnlyReplayEndsSessions'
        BY <2>1, Zenon DEF ReplayInv, Presented, ReuseExcused, OnlyReplayEndsSessions, Excused
    <2>3. rows[t].user \in repeated' \/ \A q \in Requests : tok[q] # t
        BY <2>1, <1>t DEF ReplayInv, Presented
    <2>4. GivenUp'
        BY <2>1, <2>3 DEF ReplayInv, GivenUp, Excused
    <2> QED
        BY <2>2, <2>4 DEF ReplayInv
<1>13. CASE Expire
    BY <1>13, <1>n DEF Expire
<1>14. ASSUME NEW u \in Users, Ban(u) PROVE ReplayInv'
    BY <1>14, <1>n DEF Ban
<1>15. CASE UNCHANGED vars
    BY <1>15, <1>n DEF vars
<1> QED
    BY <1>1, <1>2, <1>3, <1>4, <1>5, <1>6, <1>7, <1>8, <1>9, <1>10, <1>11, <1>12, <1>13, <1>14, <1>15 DEF Next

\* Reuse detection ends the sessions of no user whose clients presented every token at
\* most once, unless the account was deleted: a rotation never makes the client that
\* waited for it look like a thief.
THEOREM OnlyReplayEnds == Spec => []OnlyReplayEndsSessions
<1>1. Init => ReplayInv
    BY DEF Init, ReplayInv, Presented, GivenUp, ReuseExcused, OnlyReplayEndsSessions
<1>2. ReplayInv => OnlyReplayEndsSessions
    BY DEF ReplayInv
<1> QED
    BY <1>1, <1>2, InitChain, ChainInductive, ReplayInductive, PTL DEF Spec

=============================================================================
