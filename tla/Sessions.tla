------------------------------ MODULE Sessions ------------------------------
(***************************************************************************)
(* Logins, refresh-token rotation, logout and account deletion             *)
(* (app/auth.rs, delete_account of app/users.rs, the AuthUser extractor    *)
(* and the ban check) over the table refresh_tokens, as PostgreSQL         *)
(* transactions at READ COMMITTED.                                         *)
(*                                                                         *)
(* A statement that waits for a row lock has taken its snapshot before the *)
(* wait and re-reads only the locked row after it: it is two steps here.   *)
(* Writes that only the commit makes visible happen at the commit.         *)
(* Passwords, signatures and claims are abstracted: a token that verifies  *)
(* is one that was issued. A response may be lost: a client may present    *)
(* any issued token, and more than once.                                   *)
(***************************************************************************)
EXTENDS Integers, FiniteSets, Sequences

CONSTANTS
    Users,
    Requests,   \* concurrent HTTP requests
    MaxTokens,  \* bound on the rows of refresh_tokens
    NoUser      \* the user of no request

ASSUME MaxTokensAssumption == MaxTokens \in Nat
ASSUME NoUserAssumption == NoUser \notin Users
ASSUME UsersAssumption == Users # {}

TokenIds == 1 .. MaxTokens

VARIABLES
    rows,     \* refresh_tokens in the order of issue: its user, and the login
              \* that the chain of rotations began with
    revoked,  \* tokens with revoked_at set
    expired,  \* tokens 1 .. expired have expires_at in the past: all live equally long
    deleted,  \* users with deleted_at set
    banned,   \* users with banned_until in the future
    pc,       \* next statement of each request; "idle" when there is none
    user,     \* the user it acts for
    tok,      \* the token it presents; 0 for none
    seen,     \* what its snapshot said of the user
    family,   \* tokens its UPDATE of the user's tokens has in its snapshot
    \* history:
    shown,    \* tokens that were presented, to refresh or to revoke
    repeated, \* users one of whose tokens was presented again
    replayed, \* users whose sessions reuse detection has ended
    young,    \* tokens of a user issued since the deletion's UPDATE of tokens
    racing    \* requests that had read the user when the deletion committed

tables == <<rows, revoked, expired, deleted, banned>>
requests == <<pc, user, tok, seen, family>>
history == <<shown, repeated, replayed, young, racing>>
vars == <<tables, requests, history>>

Issued == DOMAIN rows
Of(u) == {t \in Issued : rows[t].user = u}
Live(u) == Of(u) \ revoked

TypeOK ==
    /\ rows \in Seq([user : Users, root : TokenIds])
    /\ Len(rows) <= MaxTokens
    /\ revoked \in SUBSET Issued
    /\ expired \in 0 .. Len(rows)
    /\ deleted \in SUBSET Users
    /\ banned \in SUBSET Users
    /\ pc \in [Requests -> {"idle", "issue", "lock", "rotate", "snapshot", "revoke_all",
                            "ban_check", "soft_delete"}]
    /\ user \in [Requests -> Users \cup {NoUser}]
    /\ tok \in [Requests -> 0 .. MaxTokens]
    /\ seen \in [Requests -> {"nothing", "active", "banned", "deleted"}]
    /\ family \in [Requests -> SUBSET Issued]
    /\ shown \in SUBSET Issued
    /\ repeated \in SUBSET Users
    /\ replayed \in SUBSET Users
    /\ young \in [Users -> SUBSET Issued]
    /\ racing \in [Users -> SUBSET Requests]
    /\ \A r \in Requests : pc[r] # "idle" => user[r] \in Users

Init ==
    /\ rows = <<>>
    /\ revoked = {} /\ expired = 0
    /\ deleted = {} /\ banned = {}
    /\ pc = [r \in Requests |-> "idle"]
    /\ user = [r \in Requests |-> NoUser]
    /\ tok = [r \in Requests |-> 0]
    /\ seen = [r \in Requests |-> "nothing"]
    /\ family = [r \in Requests |-> {}]
    /\ shown = {} /\ repeated = {} /\ replayed = {}
    /\ young = [u \in Users |-> {}]
    /\ racing = [u \in Users |-> {}]

-----------------------------------------------------------------------------
(* Row locks. refresh locks the row of the token it was given, delete_account
   the row of its user, both until the end of the transaction. *)

\* Mutation of LocksToken: the SELECT of refresh has no FOR UPDATE.
LocksToken_NoForUpdate(r, t) == FALSE

LocksToken(r, t) ==
    /\ tok[r] = t
    /\ pc[r] \in {"rotate", "snapshot", "revoke_all"}

\* r is past the UPDATE of users in delete_account.
Deleting(r, u) == user[r] = u /\ tok[r] = 0 /\ pc[r] \in {"snapshot", "revoke_all"}

Goto(r, label) == pc' = [pc EXCEPT ![r] = label]

\* Mutation of Done: the request forgets its user but not its step.
Done_KeepsStep(r) ==
    /\ user' = [user EXCEPT ![r] = NoUser]
    /\ tok' = [tok EXCEPT ![r] = 0]
    /\ seen' = [seen EXCEPT ![r] = "nothing"]
    /\ family' = [family EXCEPT ![r] = {}]
    /\ UNCHANGED pc

Done(r) ==
    /\ Goto(r, "idle")
    /\ user' = [user EXCEPT ![r] = NoUser]
    /\ tok' = [tok EXCEPT ![r] = 0]
    /\ seen' = [seen EXCEPT ![r] = "nothing"]
    /\ family' = [family EXCEPT ![r] = {}]

Leave(r) == racing' = [u \in Users |-> racing[u] \ {r}]

Return(r) == Done(r) /\ Leave(r) /\ UNCHANGED <<tables, shown, repeated, replayed, young>>

\* The handler's first statement has been executed and said this of the user.
Begin(r, u, t, standing, label) ==
    /\ user' = [user EXCEPT ![r] = u]
    /\ tok' = [tok EXCEPT ![r] = t]
    /\ seen' = [seen EXCEPT ![r] = standing]
    /\ Goto(r, label)
    /\ UNCHANGED <<tables, family, replayed, young, racing>>

Present(t) ==
    /\ shown' = shown \cup {t}
    /\ repeated' = IF t \in shown THEN repeated \cup {rows[t].user} ELSE repeated

\* What a query of users and user_trust_scores says of u.
Standing(u) ==
    IF u \in deleted THEN "deleted" ELSE IF u \in banned THEN "banned" ELSE "active"

-----------------------------------------------------------------------------
(* Issuing a token. *)

\* INSERT INTO refresh_tokens. A login begins a chain, a refresh continues one.
issue_token_pair_with_tx(u, root) ==
    /\ Len(rows) < MaxTokens
    /\ rows' = Append(rows, [user |-> u, root |-> root])
    /\ young' = IF u \in deleted \/ \E q \in Requests : Deleting(q, u) /\ pc[q] = "revoke_all"
                THEN [young EXCEPT ![u] = @ \cup {Len(rows) + 1}]
                ELSE young

-----------------------------------------------------------------------------
(* POST /auth/login *)

\* SELECT the user; none is invalid credentials.
login(r, u) ==
    /\ pc[r] = "idle"
    /\ u \notin deleted
    /\ Begin(r, u, 0, Standing(u), "issue")
    /\ UNCHANGED <<shown, repeated>>

\* The password has been verified, which takes a while; then the ban that was
\* read before is looked at.
LoginIssue(r) ==
    /\ pc[r] = "issue"
    /\ IF seen[r] = "banned"
       THEN Return(r)
       ELSE /\ issue_token_pair_with_tx(user[r], Len(rows) + 1)
            /\ Done(r) /\ Leave(r)
            /\ UNCHANGED <<revoked, expired, deleted, banned, shown, repeated, replayed>>

-----------------------------------------------------------------------------
(* POST /auth/refresh *)

\* SELECT ... FOR UPDATE OF rt: the snapshot. No row when the token has expired.
refresh_token(r, t) ==
    /\ pc[r] = "idle"
    /\ t \in Issued
    /\ Present(t)
    /\ IF t <= expired
       THEN UNCHANGED <<tables, requests, replayed, young, racing>>
       ELSE Begin(r, rows[t].user, t, Standing(rows[t].user), "lock")

\* Mutation of RefreshLock: deleted_at is not looked at.
RefreshLock_DeletedToo(r) ==
    /\ pc[r] = "lock"
    /\ \A q \in Requests \ {r} : ~LocksToken(q, tok[r])
    /\ IF tok[r] \notin revoked /\ seen[r] = "banned"
       THEN Return(r)
       ELSE /\ Goto(r, IF tok[r] \in revoked THEN "snapshot" ELSE "rotate")
            /\ UNCHANGED <<tables, user, tok, seen, family, history>>

\* The lock is granted and the token's row read again: reuse of a revoked token,
\* a deleted or banned user, or a rotation.
RefreshLock(r) ==
    /\ pc[r] = "lock"
    /\ \A q \in Requests \ {r} : ~LocksToken(q, tok[r])
    /\ IF tok[r] \notin revoked /\ seen[r] # "active"
       THEN Return(r)
       ELSE /\ Goto(r, IF tok[r] \in revoked THEN "snapshot" ELSE "rotate")
            /\ UNCHANGED <<tables, user, tok, seen, family, history>>

\* Mutation of RefreshRotate: the new token is the one that is revoked.
RefreshRotate_WrongToken(r) ==
    /\ pc[r] = "rotate"
    /\ issue_token_pair_with_tx(user[r], rows[tok[r]].root)
    /\ revoked' = revoked \cup {Len(rows) + 1}
    /\ Done(r) /\ Leave(r)
    /\ UNCHANGED <<expired, deleted, banned, shown, repeated, replayed>>

\* INSERT the new token, UPDATE the old one, COMMIT.
RefreshRotate(r) ==
    /\ pc[r] = "rotate"
    /\ issue_token_pair_with_tx(user[r], rows[tok[r]].root)
    /\ revoked' = revoked \cup {tok[r]}
    /\ Done(r) /\ Leave(r)
    /\ UNCHANGED <<expired, deleted, banned, shown, repeated, replayed>>

\* UPDATE refresh_tokens ... WHERE user_id = $1 AND revoked_at IS NULL, of reuse
\* detection and of delete_account: the snapshot.
FamilySnapshot(r) ==
    /\ pc[r] = "snapshot"
    /\ family' = [family EXCEPT ![r] = Live(user[r])]
    /\ Goto(r, "revoke_all")
    /\ young' = IF tok[r] = 0 THEN [young EXCEPT ![user[r]] = {}] ELSE young
    /\ UNCHANGED <<tables, user, tok, seen, shown, repeated, replayed, racing>>

\* The rows of that snapshot once nobody else has them locked; those that are
\* still not revoked are.
FamilyRows(r) ==
    /\ \A t \in family[r], q \in Requests \ {r} : ~LocksToken(q, t)
    /\ revoked' = revoked \cup family[r]

\* refresh: COMMIT of reuse detection.
ReuseDetected(r) ==
    /\ pc[r] = "revoke_all" /\ tok[r] # 0
    /\ FamilyRows(r)
    /\ replayed' = replayed \cup {user[r]}
    /\ Done(r) /\ Leave(r)
    /\ UNCHANGED <<rows, expired, deleted, banned, shown, repeated, young>>

-----------------------------------------------------------------------------
(* POST /auth/revoke: one UPDATE. *)

revoke_refresh_token(t) ==
    /\ \A q \in Requests : ~LocksToken(q, t)
    /\ revoked' = revoked \cup {t}

\* The handler answers 204 whether the UPDATE found the token live or not.
revoke_token(t) ==
    /\ t \in Issued
    /\ Present(t)
    /\ revoke_refresh_token(t)
    /\ UNCHANGED <<rows, expired, deleted, banned, requests, replayed, young, racing>>

-----------------------------------------------------------------------------
(* DELETE /account, an authenticated request. *)

\* The identity behind an access token is checked against the database once per
\* request.
authenticate_access_token(u) == Standing(u) = "active"

\* The extractor. Whoever was issued a refresh token has an access token.
AuthUser(u) == Of(u) # {} /\ authenticate_access_token(u)

delete_account(r, u) ==
    /\ pc[r] = "idle"
    /\ AuthUser(u)
    /\ Begin(r, u, 0, "active", "ban_check")
    /\ UNCHANGED <<shown, repeated>>

ban_check_middleware(r) ==
    /\ pc[r] = "ban_check"
    /\ IF user[r] \in banned
       THEN Return(r)
       ELSE Goto(r, "soft_delete") /\ UNCHANGED <<tables, user, tok, seen, family, history>>

\* UPDATE users SET deleted_at ... WHERE deleted_at IS NULL.
SoftDelete(r) ==
    /\ pc[r] = "soft_delete"
    /\ \A q \in Requests \ {r} : ~Deleting(q, user[r])
    /\ IF user[r] \in deleted
       THEN Return(r)
       ELSE Goto(r, "snapshot") /\ UNCHANGED <<tables, user, tok, seen, family, history>>

\* History: the requests that have read the user and may still issue a token.
Racers(u) == {q \in Requests : user[q] = u /\ pc[q] \in {"issue", "lock", "rotate"}}

\* The user's tokens, then follows and blocks (module SocialGraph), and COMMIT.
DeleteCommit(r) ==
    /\ pc[r] = "revoke_all" /\ tok[r] = 0
    /\ FamilyRows(r)
    /\ deleted' = deleted \cup {user[r]}
    /\ racing' = [racing EXCEPT ![user[r]] = Racers(user[r])]
    /\ Done(r)
    /\ UNCHANGED <<rows, expired, banned, shown, repeated, replayed, young>>

-----------------------------------------------------------------------------
(* Time, bans (module Trust), and requests that die: a deadlock victim, a lost
   connection or a client that goes away rolls back. *)

Expire ==
    /\ expired < Len(rows)
    /\ expired' = expired + 1
    /\ UNCHANGED <<rows, revoked, deleted, banned, requests, history>>

\* A strike sets banned_until in the row of the user, or that time has passed.
Ban(u) ==
    /\ banned' = IF u \in banned THEN banned \ {u} ELSE banned \cup {u}
    /\ UNCHANGED <<rows, revoked, expired, deleted, requests, history>>

Abort(r) == pc[r] # "idle" /\ Return(r)

Next ==
    \/ \E r \in Requests :
          \/ \E u \in Users : login(r, u) \/ delete_account(r, u)
          \/ \E t \in Issued : refresh_token(r, t)
          \/ LoginIssue(r) \/ RefreshLock(r) \/ RefreshRotate(r)
          \/ FamilySnapshot(r) \/ ReuseDetected(r)
          \/ ban_check_middleware(r)
          \/ SoftDelete(r) \/ DeleteCommit(r)
          \/ Abort(r)
    \/ \E t \in Issued : revoke_token(t)
    \/ Expire
    \/ \E u \in Users : Ban(u)

Spec == Init /\ [][Next]_vars

-----------------------------------------------------------------------------
(* Properties *)

Chains == INSTANCE SessionChains WITH
    ends <- [c \in TokenIds |-> {t \in Issued \ revoked : rows[t].root = c}],
    holder <- [t \in TokenIds |-> IF t \in Issued THEN rows[t].user
                                  ELSE CHOOSE u \in Users : TRUE],
    used <- Issued

\* Rotation implements SessionChains, however refreshes, logouts, reuse
\* detections and deletions interleave: a login has at most one live token, a
\* closed chain stays closed, and nobody's sessions end through another user's.
RotationIsChains == Chains!Spec

\* delete_account ends the sessions of the account: the tokens a deleted user has
\* left were issued after its UPDATE of refresh_tokens, and whoever is still to
\* issue one had read the user before the deletion committed.
DeletionEndsSessions ==
    \A u \in deleted :
        /\ Live(u) \subseteq young[u]
        /\ \A r \in Requests :
              user[r] = u /\ pc[r] \in {"issue", "rotate"} => r \in racing[u]

\* Reuse detection never ends the sessions of a user whose clients presented
\* every token at most once, unless the account was deleted.
OnlyReplayEndsSessions == replayed \subseteq deleted \cup repeated

\* The comment on reuse detection: it revokes the user's whole token family to
\* force a new login. It does not: a rotation that holds its token's lock while
\* the UPDATE takes its snapshot commits a token that the UPDATE never sees.
FamilyRevoked ==
    [][\A r \in Requests, u \in Users :
          user[r] = u /\ ReuseDetected(r) => Live(u)' = {}]_vars

=============================================================================
