------------------------------ MODULE Invites -------------------------------
(***************************************************************************)
(* Invite codes and signup (app/invites.rs, signup of app/auth.rs) over    *)
(* the tables invite_codes, users and user_trust_scores, and over the pool *)
(* of database connections (infra/db.rs) that the requests compete for.    *)
(*                                                                         *)
(* create_invite holds a connection and the lock on the inviter's trust    *)
(* row while generate_unique_code asks the pool for a second connection.   *)
(* signup holds a connection and locks, in this order, the new handle, the *)
(* code, and the inviter's trust row. Writes that only the commit makes    *)
(* visible happen at the commit. Validation of the payload, passwords and  *)
(* the text of the codes are abstracted: a code is its place in the order  *)
(* of creation.                                                            *)
(***************************************************************************)
EXTENDS Integers, FiniteSets, Sequences

CONSTANTS
    Inviters,   \* existing accounts
    Handles,    \* handles of the accounts that sign up
    Requests,   \* concurrent HTTP requests
    NoOne,      \* the creator of an admin code, the subject of no request
    Levels,     \* trust levels
    max_invites,  \* the quota of each level: 3, 10, 50 and 200 in the code
    PoolSize,   \* max_connections of the pool: 25, or 5 when serverless
    MaxCodes    \* bound on the codes ever created

ASSUME MaxCodesAssumption == MaxCodes \in Nat
ASSUME PoolAssumption == PoolSize \in Nat \ {0}
ASSUME LevelsAssumption == 0 \in Levels
ASSUME QuotaAssumption == max_invites \in [Levels -> Nat]
ASSUME NoOneAssumption == NoOne \notin Inviters \cup Handles

CodeIds == 1 .. MaxCodes
MaxUses == 1   \* the default of max_uses, which no statement overrides

VARIABLES
    codes,    \* invite_codes in the order of creation: created_by, is_valid, use_count
              \* and whether expires_at is past
    purged,   \* codes whose row was deleted
    sent,     \* invites_sent of each inviter's trust row
    rewarded, \* successful_invites of that row
    level,    \* trust_level of that row
    account,  \* the code each handle signed up with; 0 for no account
    pc,       \* next step of each request; "idle" when there is none
    who,      \* the inviter it acts for, or the handle it signs up
    arg       \* the code it was given; 0 for none

tables == <<codes, purged, sent, rewarded, level, account>>
requests == <<pc, who, arg>>
vars == <<tables, requests>>

Rows == DOMAIN codes \ purged

TypeOK ==
    /\ codes \in Seq([by : Inviters \cup {NoOne}, valid : BOOLEAN, uses : Nat,
                      expired : BOOLEAN])
    /\ Len(codes) <= MaxCodes
    /\ purged \in SUBSET DOMAIN codes
    /\ sent \in [Inviters -> Nat]
    /\ rewarded \in [Inviters -> Nat]
    /\ level \in [Inviters -> Levels]
    /\ account \in [Handles -> 0 .. Len(codes)]
    /\ pc \in [Requests -> {"idle", "create", "quota", "code", "signup", "user", "invite", "reward"}]
    /\ who \in [Requests -> Inviters \cup Handles \cup {NoOne}]
    /\ arg \in [Requests -> 0 .. MaxCodes]
    /\ \A r \in Requests :
        /\ pc[r] = "idle" => who[r] = NoOne /\ arg[r] = 0
        /\ pc[r] \in {"create", "quota", "code"} => who[r] \in Inviters
        /\ pc[r] \in {"signup", "user", "invite", "reward"} => who[r] \in Handles
        /\ pc[r] = "reward" => arg[r] \in DOMAIN codes

Init ==
    /\ codes = <<>> /\ purged = {}
    /\ sent = [u \in Inviters |-> 0]
    /\ rewarded = [u \in Inviters |-> 0]
    /\ level = [u \in Inviters |-> 0]
    /\ account = [h \in Handles |-> 0]
    /\ pc = [r \in Requests |-> "idle"]
    /\ who = [r \in Requests |-> NoOne]
    /\ arg = [r \in Requests |-> 0]

-----------------------------------------------------------------------------
(* What the requests hold and wait for. *)

HoldsConnection(r) == pc[r] \in {"quota", "code", "user", "invite", "reward"}

Free == PoolSize - Cardinality({r \in Requests : HoldsConnection(r)})

\* Mutation of LocksTrust: the SELECT has no FOR UPDATE.
LocksTrust_NoForUpdate(r, u) == FALSE

\* SELECT ... FOR UPDATE of the inviter's trust row, until the commit.
LocksTrust(r, u) == who[r] = u /\ pc[r] = "code"

\* Mutation of LocksCode: the SELECT has no FOR UPDATE.
LocksCode_NoForUpdate(r, c) == FALSE

\* SELECT ... FOR UPDATE of the code.
LocksCode(r, c) == arg[r] = c /\ pc[r] = "reward"

\* The uncommitted row of users: the unique index makes a second INSERT wait.
LocksHandle(r, h) == who[r] = h /\ pc[r] \in {"invite", "reward"}

Unlocked(r, Locks(_, _), x) == \A q \in Requests \ {r} : ~Locks(q, x)

Creator(c) == codes[c].by

\* Mutation of Ready: the reward is an UPDATE on the pool, not on the transaction.
Ready_RewardOnPool(r) ==
    CASE pc[r] \in {"create", "signup", "code", "reward"} -> Free > 0
      [] pc[r] = "quota" -> Unlocked(r, LocksTrust, who[r])
      [] pc[r] = "user" -> Unlocked(r, LocksHandle, who[r])
      [] pc[r] = "invite" -> Unlocked(r, LocksCode, arg[r])
      [] OTHER -> TRUE

\* The request waits neither for a connection nor for a row.
Ready(r) ==
    CASE pc[r] \in {"create", "signup", "code"} -> Free > 0
      [] pc[r] = "quota" -> Unlocked(r, LocksTrust, who[r])
      [] pc[r] = "user" -> Unlocked(r, LocksHandle, who[r])
      [] pc[r] = "invite" -> Unlocked(r, LocksCode, arg[r])
      [] pc[r] = "reward" -> Unlocked(r, LocksTrust, Creator(arg[r]))
      [] OTHER -> TRUE

At(r, label) == pc[r] = label /\ Ready(r)

Goto(r, label) == pc' = [pc EXCEPT ![r] = label] /\ UNCHANGED <<who, arg>>

Arrive(r, label, x, c) ==
    /\ pc[r] = "idle"
    /\ pc' = [pc EXCEPT ![r] = label]
    /\ who' = [who EXCEPT ![r] = x]
    /\ arg' = [arg EXCEPT ![r] = c]
    /\ UNCHANGED tables

\* Mutation of Done: the request forgets its subject but keeps its connection.
Done_KeepsConnection(r) ==
    /\ who' = [who EXCEPT ![r] = NoOne]
    /\ arg' = [arg EXCEPT ![r] = 0]
    /\ UNCHANGED pc

\* The answer is sent; the transaction is over and its connection back in the pool.
Done(r) ==
    /\ pc' = [pc EXCEPT ![r] = "idle"]
    /\ who' = [who EXCEPT ![r] = NoOne]
    /\ arg' = [arg EXCEPT ![r] = 0]

\* A return without commit: the transaction is dropped and rolls back.
Return(r) == Done(r) /\ UNCHANGED tables

-----------------------------------------------------------------------------
(* Creating codes. *)

NewCode(u) == [by |-> u, valid |-> TRUE, uses |-> 0, expired |-> FALSE]

\* The bound: a request may not create more than MaxCodes.
Room ==
    Len(codes) + Cardinality({r \in Requests : pc[r] \in {"create", "quota", "code"}}) < MaxCodes

create_invite(r, u) == Room /\ Arrive(r, "create", u, 0)

\* BEGIN: the connection of the transaction.
CreateBegin(r) == At(r, "create") /\ Goto(r, "quota") /\ UNCHANGED tables

\* The trust row is read under its lock and compared with the quota of its level.
CheckQuota(r) ==
    /\ At(r, "quota")
    /\ \/ sent[who[r]] >= max_invites[level[who[r]]] /\ Return(r)
       \/ sent[who[r]] < max_invites[level[who[r]]] /\ Goto(r, "code") /\ UNCHANGED tables

\* The SELECT EXISTS runs on a second connection, back in the pool before the INSERT.
generate_unique_code(r) == At(r, "code")

\* The INSERT of the code, the UPDATE of invites_sent, COMMIT.
CreateCommit(r) ==
    /\ generate_unique_code(r)
    /\ codes' = Append(codes, NewCode(who[r]))
    /\ sent' = [sent EXCEPT ![who[r]] = @ + 1]
    /\ Done(r)
    /\ UNCHANGED <<purged, rewarded, level, account>>

\* An admin code: no transaction, no quota, and no connection kept.
create_admin_invite ==
    /\ Free > 0
    /\ codes' = Append(codes, NewCode(NoOne))
    /\ UNCHANGED <<purged, sent, rewarded, level, account, requests>>

admin_create_invite == Room /\ create_admin_invite

\* invites_remaining of get_invite_stats.
Remaining(u) ==
    IF max_invites[level[u]] > sent[u] THEN max_invites[level[u]] - sent[u] ELSE 0

-----------------------------------------------------------------------------
(* Signing up with a code. *)

signup(r, h, c) == Arrive(r, "signup", h, c)

SignupBegin(r) == At(r, "signup") /\ Goto(r, "user") /\ UNCHANGED tables

\* INSERT INTO users, refused by the unique index when the handle is taken, and
\* INSERT of the new trust row.
InsertUser(r) ==
    /\ At(r, "user")
    /\ \/ account[who[r]] # 0 /\ Return(r)
       \/ account[who[r]] = 0 /\ Goto(r, "invite") /\ UNCHANGED tables

validate_invite(c) ==
    c \in Rows /\ codes[c].valid /\ ~codes[c].expired /\ codes[c].uses < MaxUses

\* Mutation of ConsumeInvite: is_valid is not looked at.
ConsumeInvite_Revoked(r) ==
    /\ At(r, "invite")
    /\ arg[r] \in Rows
    /\ ~codes[arg[r]].expired
    /\ Goto(r, "reward")
    /\ UNCHANGED tables

\* The code is read under its lock and validated.
ConsumeInvite(r) ==
    /\ At(r, "invite")
    /\ \/ ~validate_invite(arg[r]) /\ Return(r)
       \/ validate_invite(arg[r]) /\ Goto(r, "reward") /\ UNCHANGED tables

\* UPDATE of the code, the relationship and the inviter's reward (none for an admin
\* code), COMMIT.
SignupCommit(r) ==
    LET c == arg[r] IN
    /\ At(r, "reward")
    /\ codes' = [codes EXCEPT ![c].uses = @ + 1,
                              ![c].valid = codes[c].uses + 1 < MaxUses]
    /\ rewarded' = IF Creator(c) = NoOne
                   THEN rewarded ELSE [rewarded EXCEPT ![Creator(c)] = @ + 1]
    /\ account' = [account EXCEPT ![who[r]] = c]
    /\ Done(r)
    /\ UNCHANGED <<purged, sent, level>>

-----------------------------------------------------------------------------
(* Revoking codes, and what happens to the rows meanwhile. *)

\* One UPDATE ... WHERE code, created_by and is_valid = TRUE, of the row as it is once
\* no signup holds it.
revoke_invite(u, c) ==
    /\ Free > 0
    /\ \A r \in Requests : ~LocksCode(r, c)
    /\ c \in Rows /\ Creator(c) = u /\ codes[c].valid
    /\ codes' = [codes EXCEPT ![c].valid = FALSE]
    /\ UNCHANGED <<purged, sent, rewarded, level, account, requests>>

\* What cleanup_expired_invites() may delete: codes that are not valid and expired thirty
\* days ago; any of the expired ones, since the model does not count the days.
Purgeable == {c \in Rows : codes[c].expired /\ ~codes[c].valid}

\* The hourly cleanup.
cleanup_expired_invites ==
    /\ Free > 0
    /\ \E doomed \in (SUBSET Purgeable) \ {{}} : purged' = purged \cup doomed
    /\ UNCHANGED <<codes, sent, rewarded, level, account, requests>>

\* Time passes for a code.
Expire(c) ==
    /\ c \in Rows /\ ~codes[c].expired
    /\ codes' = [codes EXCEPT ![c].expired = TRUE]
    /\ UNCHANGED <<purged, sent, rewarded, level, account, requests>>

\* recalculate_trust_level writes the inviter's trust row.
Recalculate(u) ==
    /\ \A r \in Requests : ~LocksTrust(r, u)
    /\ \E l \in Levels \ {level[u]} : level' = [level EXCEPT ![u] = l]
    /\ UNCHANGED <<codes, purged, sent, rewarded, account, requests>>

-----------------------------------------------------------------------------
(* Timeouts and failures. Each answers the request with an error and rolls back. *)

\* Mutation of AcquireTimeout: the pool is built without acquire_timeout.
AcquireTimeout_None(r) == FALSE /\ Return(r)

\* acquire_timeout of the pool ends a wait for a connection.
AcquireTimeout(r) ==
    /\ pc[r] \in {"create", "signup", "code"}
    /\ ~Ready(r)
    /\ Return(r)

\* statement_timeout ends a wait for a row.
StatementTimeout(r) ==
    /\ pc[r] \in {"quota", "user", "invite", "reward"}
    /\ ~Ready(r)
    /\ Return(r)

\* A statement fails, no code is found in ten tries, or the process dies.
Fail(r) == pc[r] # "idle" /\ Return(r)

Advance(r) ==
    \/ CreateBegin(r) \/ CheckQuota(r) \/ CreateCommit(r)
    \/ SignupBegin(r) \/ InsertUser(r) \/ ConsumeInvite(r) \/ SignupCommit(r)
    \/ AcquireTimeout(r) \/ StatementTimeout(r)

Next ==
    \/ \E r \in Requests :
        \/ Advance(r)
        \/ Fail(r)
        \/ \E u \in Inviters : create_invite(r, u)
        \/ \E h \in Handles, c \in DOMAIN codes : signup(r, h, c)
    \/ admin_create_invite
    \/ \E u \in Inviters, c \in DOMAIN codes : revoke_invite(u, c)
    \/ cleanup_expired_invites
    \/ \E c \in DOMAIN codes : Expire(c)
    \/ \E u \in Inviters : Recalculate(u)

\* The runtime polls every request, and the two timeouts bound every wait of one.
Spec == Init /\ [][Next]_vars /\ \A r \in Requests : WF_vars(Advance(r))

-----------------------------------------------------------------------------
(* Properties *)

\* A code admits at most one account however signups, revocation, expiry and failures
\* interleave ("Mark invalid if fully used", consume_invite_with_tx), no account exists
\* without a code that counts it, and the inviter is rewarded once for each.
SignupIsAtomic ==
    LET Admitted(S) == {h \in Handles : account[h] \in S} IN
    /\ \A c \in DOMAIN codes :
        /\ codes[c].uses = Cardinality(Admitted({c}))
        /\ codes[c].uses <= MaxUses
    /\ \A u \in Inviters :
        rewarded[u] = Cardinality(Admitted({c \in DOMAIN codes : Creator(c) = u}))

\* A code is charged to its inviter and only created while get_invite_stats would still
\* show an invite remaining at their current level, however many create_invite calls of
\* theirs are under way and whatever happens to the level in between.
QuotaHeld ==
    [][ \A u \in Inviters :
            LET Created == {c \in DOMAIN codes : Creator(c) = u}
                Later == {c \in DOMAIN codes' : codes'[c].by = u}
            IN  Later # Created => Remaining(u) > 0 /\ sent'[u] = Cardinality(Later) ]_vars

\* A code that was revoked before anyone used it admits nobody, even when a signup that
\* had been started before the revocation consumes it afterwards.
RevokedStaysUnused ==
    [][ \A c \in DOMAIN codes : ~codes[c].valid => codes'[c].uses = codes[c].uses ]_vars

\* Row locks alone never make requests wait for each other in a circle: when nothing can
\* move, a create_invite waits in generate_unique_code for a second connection while it
\* keeps the first.
StallOnlyInCodeGeneration ==
    LET Busy == {r \in Requests : pc[r] # "idle"} IN
    Busy # {} /\ (\A r \in Busy : ~Ready(r)) => \E r \in Busy : pc[r] = "code"

\* Every request is answered: acquire_timeout and statement_timeout (Db::connect) break
\* every stall.
RequestsFinish == \A r \in Requests : pc[r] # "idle" ~> pc[r] = "idle"

=============================================================================
