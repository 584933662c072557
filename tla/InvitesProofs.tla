--------------------------- MODULE InvitesProofs ---------------------------
(***************************************************************************)
(* Proofs that the safety properties of Invites hold for any sets of       *)
(* inviters, handles and concurrent requests, any quotas and any size of   *)
(* the pool.                                                               *)
(***************************************************************************)
EXTENDS Invites, FiniteSetTheorems, SequenceTheorems, TLAPS

Code == [by : Inviters \cup {NoOne}, valid : BOOLEAN, uses : Nat, expired : BOOLEAN]

\* The create_invite calls under way fit in the bound.
Creating == {r \in Requests : pc[r] \in {"create", "quota", "code"}}

BoundInv == IsFiniteSet(Creating) /\ Len(codes) + Cardinality(Creating) <= MaxCodes

\* What a request read under a lock is still so, and the locks exclude each other.
LockInv ==
    /\ \A r \in Requests :
        /\ pc[r] = "code" => sent[who[r]] < max_invites[level[who[r]]]
        /\ pc[r] = "reward" => codes[arg[r]].valid /\ codes[arg[r]].uses < MaxUses
        /\ pc[r] \in {"invite", "reward"} => account[who[r]] = 0
    /\ \A q, r \in Requests : q # r =>
        /\ pc[q] = "code" /\ pc[r] = "code" => who[q] # who[r]
        /\ pc[q] = "reward" /\ pc[r] = "reward" => arg[q] # arg[r]
        /\ pc[q] \in {"invite", "reward"} /\ pc[r] \in {"invite", "reward"} => who[q] # who[r]

\* The codes of an inviter, and invites_sent counting them.
By(u) == {c \in DOMAIN codes : Creator(c) = u}

Charged == \A u \in Inviters : sent[u] = Cardinality(By(u))

-----------------------------------------------------------------------------
(* The table of codes *)

LEMMA CodesTyped ==
    ASSUME TypeOK
    PROVE  /\ codes \in Seq(Code) /\ Len(codes) \in Nat /\ DOMAIN codes = 1 .. Len(codes)
           /\ \A c \in DOMAIN codes : codes[c] \in Code
<1>1. codes \in Seq(Code)
    BY DEF TypeOK, Code
<1> HIDE DEF Code
<1> QED
    BY <1>1, ElementOfSeq, LenProperties

\* The INSERT of a code.
LEMMA CodesAppended ==
    ASSUME TypeOK, NEW u \in Inviters \cup {NoOne}, codes' = Append(codes, NewCode(u))
    PROVE  /\ codes' \in Seq(Code) /\ Len(codes') = Len(codes) + 1
           /\ DOMAIN codes' = DOMAIN codes \cup {Len(codes) + 1}
           /\ \A c \in DOMAIN codes : codes'[c] = codes[c]
           /\ codes'[Len(codes) + 1] = NewCode(u)
<1>1. NewCode(u) \in Code
    BY DEF NewCode, Code
<1>2. codes \in Seq(Code) /\ Len(codes) \in Nat /\ DOMAIN codes = 1 .. Len(codes)
    BY CodesTyped
<1> HIDE DEF Code
<1>3. /\ codes' \in Seq(Code) /\ Len(codes') = Len(codes) + 1
      /\ \A c \in 1 .. Len(codes) : codes'[c] = codes[c]
      /\ codes'[Len(codes) + 1] = NewCode(u)
    BY <1>1, <1>2, AppendProperties
<1>4. DOMAIN codes' = 1 .. Len(codes')
    BY <1>3, LenProperties
<1> QED
    BY <1>2, <1>3, <1>4

\* The UPDATE of a code.
LEMMA CodesUpdated ==
    ASSUME TypeOK, NEW c \in DOMAIN codes, NEW x \in Code, codes' = [codes EXCEPT ![c] = x]
    PROVE  /\ codes' \in Seq(Code) /\ Len(codes') = Len(codes) /\ DOMAIN codes' = DOMAIN codes
           /\ codes'[c] = x /\ \A d \in DOMAIN codes \ {c} : codes'[d] = codes[d]
<1>1. codes \in Seq(Code) /\ Len(codes) \in Nat /\ DOMAIN codes = 1 .. Len(codes)
    BY CodesTyped
<1> HIDE DEF Code
<1>2. codes' \in Seq(Code) /\ Len(codes') = Len(codes)
    BY <1>1, ExceptSeq
<1>3. DOMAIN codes' = 1 .. Len(codes')
    BY <1>2, LenProperties
<1> QED
    BY <1>1, <1>2, <1>3

\* Revocation and expiry leave the creator and the uses of every code, and make none valid.
LEMMA CodeMarked ==
    ASSUME TypeOK, NEW c \in DOMAIN codes,
           \/ codes' = [codes EXCEPT ![c].valid = FALSE]
           \/ codes' = [codes EXCEPT ![c].expired = TRUE]
    PROVE  /\ codes' \in Seq(Code) /\ Len(codes') = Len(codes) /\ DOMAIN codes' = DOMAIN codes
           /\ \A d \in DOMAIN codes : /\ codes'[d].by = codes[d].by /\ codes'[d].uses = codes[d].uses
                                      /\ d # c => codes'[d] = codes[d]
<1>1. codes[c] \in Code
    BY CodesTyped
<1>2. CASE codes' = [codes EXCEPT ![c].valid = FALSE]
    <2>1. PICK x \in Code : x = [codes[c] EXCEPT !.valid = FALSE]
        BY <1>1, Zenon DEF Code
    <2>2. codes' = [codes EXCEPT ![c] = x] /\ x.by = codes[c].by /\ x.uses = codes[c].uses
        BY <1>1, <1>2, <2>1 DEF Code
    <2> QED
        BY <2>2, CodesUpdated, Zenon
<1>3. CASE codes' = [codes EXCEPT ![c].expired = TRUE]
    <2>1. PICK x \in Code : x = [codes[c] EXCEPT !.expired = TRUE]
        BY <1>1, Zenon DEF Code
    <2>2. codes' = [codes EXCEPT ![c] = x] /\ x.by = codes[c].by /\ x.uses = codes[c].uses
        BY <1>1, <1>3, <2>1 DEF Code
    <2> QED
        BY <2>2, CodesUpdated, Zenon
<1> QED
    BY <1>2, <1>3

\* The UPDATE of the code a signup consumes.
LEMMA CodeUsed ==
    ASSUME TypeOK, NEW r \in Requests, SignupCommit(r)
    PROVE  /\ arg[r] \in DOMAIN codes
           /\ codes' \in Seq(Code) /\ Len(codes') = Len(codes) /\ DOMAIN codes' = DOMAIN codes
           /\ codes'[arg[r]].by = codes[arg[r]].by
           /\ codes'[arg[r]].uses = codes[arg[r]].uses + 1
           /\ \A d \in DOMAIN codes \ {arg[r]} : codes'[d] = codes[d]
<1>1. arg[r] \in DOMAIN codes
    BY DEF TypeOK, SignupCommit, At
<1>2. PICK c \in DOMAIN codes : c = arg[r]
    BY <1>1
<1>3. codes[c] \in Code
    BY CodesTyped
<1> DEFINE n == codes[c].uses + 1
           x == [codes[c] EXCEPT !.uses = n, !.valid = n < MaxUses]
<1>4. n \in Nat
    BY <1>3 DEF Code
<1>5. codes' = [codes EXCEPT ![c] = x]
    BY <1>2, Zenon DEF SignupCommit
<1>6. x \in Code /\ x.by = codes[c].by /\ x.uses = n
    <2>1. \A t \in Code, m \in Nat, v \in BOOLEAN :
            LET y == [t EXCEPT !.uses = m, !.valid = v] IN y \in Code /\ y.by = t.by /\ y.uses = m
        BY Zenon DEF Code
    <2>2. (n < MaxUses) \in BOOLEAN
        OBVIOUS
    <2> HIDE DEF n, Code
    <2> QED
        BY <1>3, <1>4, <2>1, <2>2, Zenon
<1> HIDE DEF n, x
<1>7. PICK y \in Code : y = x
    BY <1>6
<1>8. /\ codes' \in Seq(Code) /\ Len(codes') = Len(codes) /\ DOMAIN codes' = DOMAIN codes
      /\ codes'[c] = y /\ \A d \in DOMAIN codes \ {c} : codes'[d] = codes[d]
    BY <1>5, <1>7, CodesUpdated, Zenon
<1> QED
    BY <1>2, <1>6, <1>7, <1>8 DEF n


-----------------------------------------------------------------------------
(* The steps of a request that write nothing *)

\* What such a step is, read off the label it goes to.
Quiet(r) ==
    /\ UNCHANGED tables
    /\ pc' = [pc EXCEPT ![r] = pc'[r]]
    /\ who' = [who EXCEPT ![r] = who'[r]]
    /\ arg' = [arg EXCEPT ![r] = arg'[r]]
    /\ pc'[r] \in {"idle", "create", "quota", "code", "signup", "user", "invite", "reward"}
    /\ pc'[r] = "idle" => who'[r] = NoOne /\ arg'[r] = 0
    /\ pc'[r] \notin {"idle", "create", "signup"} => who'[r] = who[r] /\ arg'[r] = arg[r]
    /\ pc'[r] = "create" => pc[r] = "idle" /\ Room /\ who'[r] \in Inviters /\ arg'[r] = 0
    /\ pc'[r] = "quota" => pc[r] = "create"
    /\ pc'[r] = "code" =>
        /\ pc[r] = "quota" /\ Unlocked(r, LocksTrust, who[r])
        /\ sent[who[r]] < max_invites[level[who[r]]]
    /\ pc'[r] = "signup" => pc[r] = "idle" /\ who'[r] \in Handles /\ arg'[r] \in DOMAIN codes
    /\ pc'[r] = "user" => pc[r] = "signup"
    /\ pc'[r] = "invite" => pc[r] = "user" /\ Unlocked(r, LocksHandle, who[r]) /\ account[who[r]] = 0
    /\ pc'[r] = "reward" =>
        pc[r] = "invite" /\ Unlocked(r, LocksCode, arg[r]) /\ validate_invite(arg[r])

\* Every action is such a step, or one that writes a table.
LEMMA NextSteps ==
    ASSUME TypeOK, [Next]_vars
    PROVE  \/ \E r \in Requests : Quiet(r) \/ CreateCommit(r) \/ SignupCommit(r)
           \/ admin_create_invite \/ cleanup_expired_invites
           \/ \E u \in Inviters, c \in DOMAIN codes : revoke_invite(u, c)
           \/ \E c \in DOMAIN codes : Expire(c)
           \/ \E u \in Inviters : Recalculate(u)
           \/ UNCHANGED vars
<1>1. ASSUME NEW r \in Requests, Return(r) PROVE Quiet(r)
    BY <1>1 DEF Return, Done, Quiet, TypeOK
<1>2. ASSUME NEW r \in Requests, NEW u \in Inviters, create_invite(r, u) PROVE Quiet(r)
    BY <1>2 DEF create_invite, Arrive, Quiet, TypeOK
<1>3. ASSUME NEW r \in Requests, NEW h \in Handles, NEW c \in DOMAIN codes, signup(r, h, c) PROVE Quiet(r)
    BY <1>3 DEF signup, Arrive, Quiet, TypeOK
<1>4. ASSUME NEW r \in Requests, CreateBegin(r) PROVE Quiet(r)
    BY <1>4 DEF CreateBegin, At, Goto, Quiet, TypeOK
<1>5. ASSUME NEW r \in Requests, SignupBegin(r) PROVE Quiet(r)
    BY <1>5 DEF SignupBegin, At, Goto, Quiet, TypeOK
<1>6. ASSUME NEW r \in Requests, CheckQuota(r) PROVE Quiet(r)
    <2>1. pc[r] = "quota" /\ Unlocked(r, LocksTrust, who[r])
        BY <1>6 DEF CheckQuota, At, Ready
    <2>2. CASE sent[who[r]] < max_invites[level[who[r]]] /\ Goto(r, "code") /\ UNCHANGED tables
        BY <2>1, <2>2 DEF Goto, Quiet, TypeOK
    <2> QED
        BY <1>1, <1>6, <2>2 DEF CheckQuota
<1>7. ASSUME NEW r \in Requests, InsertUser(r) PROVE Quiet(r)
    <2>1. pc[r] = "user" /\ Unlocked(r, LocksHandle, who[r])
        BY <1>7 DEF InsertUser, At, Ready
    <2>2. CASE account[who[r]] = 0 /\ Goto(r, "invite") /\ UNCHANGED tables
        BY <2>1, <2>2 DEF Goto, Quiet, TypeOK
    <2> QED
        BY <1>1, <1>7, <2>2 DEF InsertUser
<1>8. ASSUME NEW r \in Requests, ConsumeInvite(r) PROVE Quiet(r)
    <2>1. pc[r] = "invite" /\ Unlocked(r, LocksCode, arg[r])
        BY <1>8 DEF ConsumeInvite, At, Ready
    <2>2. CASE validate_invite(arg[r]) /\ Goto(r, "reward") /\ UNCHANGED tables
        BY <2>1, <2>2 DEF Goto, Quiet, TypeOK
    <2> QED
        BY <1>1, <1>8, <2>2 DEF ConsumeInvite
<1>9. ASSUME NEW r \in Requests, AcquireTimeout(r) \/ StatementTimeout(r) \/ Fail(r) PROVE Quiet(r)
    BY <1>1, <1>9 DEF AcquireTimeout, StatementTimeout, Fail
<1> QED
    BY <1>2, <1>3, <1>4, <1>5, <1>6, <1>7, <1>8, <1>9 DEF Next, Advance

-----------------------------------------------------------------------------
(* Types and the bound *)

LEMMA CreatingFewer ==
    ASSUME TypeOK, BoundInv, Len(codes') = Len(codes), Creating' \subseteq Creating
    PROVE  BoundInv'
<1>1. IsFiniteSet(Creating') /\ Cardinality(Creating') <= Cardinality(Creating)
    BY FS_Subset DEF BoundInv
<1>2. Cardinality(Creating') \in Nat /\ Cardinality(Creating) \in Nat
    BY <1>1, FS_CardinalityType DEF BoundInv
<1>3. Len(codes) \in Nat
    BY CodesTyped
<1> QED
    BY <1>1, <1>2, <1>3, MaxCodesAssumption DEF BoundInv

\* create_invite and admin_create_invite stay within the bound.
LEMMA Bounded == ASSUME TypeOK, BoundInv, [Next]_vars PROVE BoundInv'
<1> USE DEF tables, requests
<1>0. Len(codes) \in Nat /\ IsFiniteSet(Creating) /\ Cardinality(Creating) \in Nat
    BY CodesTyped, FS_CardinalityType DEF BoundInv
<1>1. ASSUME NEW r \in Requests, Quiet(r) PROVE BoundInv'
    <2>1. codes' = codes /\ \A q \in Requests \ {r} : pc'[q] = pc[q]
        BY <1>1 DEF Quiet, TypeOK
    <2>2. CASE pc'[r] = "create"
        <3>1. Creating' = Creating \cup {r} /\ r \notin Creating
            BY <1>1, <2>1, <2>2 DEF Quiet, Creating
        <3>2. IsFiniteSet(Creating') /\ Cardinality(Creating') = Cardinality(Creating) + 1
            BY <1>0, <3>1, FS_AddElement
        <3>3. Len(codes) + Cardinality(Creating) < MaxCodes
            BY <1>1, <2>2 DEF Quiet, Room, Creating
        <3> QED
            BY <1>0, <2>1, <3>2, <3>3, MaxCodesAssumption DEF BoundInv
    <2>3. CASE pc'[r] # "create"
        <3>1. Creating' \subseteq Creating
            BY <1>1, <2>1, <2>3 DEF Quiet, Creating
        <3> QED
            BY <2>1, <3>1, CreatingFewer
    <2> QED
        BY <2>2, <2>3
<1>2. ASSUME NEW r \in Requests, CreateCommit(r) PROVE BoundInv'
    <2>1. r \in Creating /\ who[r] \in Inviters /\ codes' = Append(codes, NewCode(who[r]))
        BY <1>2 DEF CreateCommit, generate_unique_code, At, Creating, TypeOK
    <2>2. PICK u \in Inviters : u = who[r]
        BY <2>1
    <2>3. Len(codes') = Len(codes) + 1
        BY <2>1, <2>2, CodesAppended
    <2>4. Creating' = Creating \ {r}
        BY <1>2 DEF CreateCommit, Done, Creating, TypeOK
    <2>5. IsFiniteSet(Creating') /\ Cardinality(Creating') = Cardinality(Creating) - 1
        BY <1>0, <2>1, <2>4, FS_RemoveElement
    <2> QED
        BY <1>0, <2>3, <2>5, MaxCodesAssumption DEF BoundInv
<1>3. CASE admin_create_invite
    <2>1. Creating' = Creating /\ codes' = Append(codes, NewCode(NoOne))
        BY <1>3 DEF admin_create_invite, create_admin_invite, Creating
    <2>2. Len(codes') = Len(codes) + 1
        BY <2>1, CodesAppended
    <2>3. Len(codes) + Cardinality(Creating) < MaxCodes
        BY <1>3 DEF admin_create_invite, Room, Creating
    <2> QED
        BY <1>0, <2>1, <2>2, <2>3, MaxCodesAssumption DEF BoundInv
<1>4. ASSUME NEW r \in Requests, SignupCommit(r) PROVE BoundInv'
    <2>1. Creating' \subseteq Creating
        BY <1>4 DEF SignupCommit, Done, Creating, TypeOK
    <2> QED
        BY <1>4, <2>1, CodeUsed, CreatingFewer
<1>5. ASSUME NEW c \in DOMAIN codes, Expire(c) \/ \E u \in Inviters : revoke_invite(u, c) PROVE BoundInv'
    <2>1. /\ Creating' = Creating
          /\ \/ codes' = [codes EXCEPT ![c].valid = FALSE]
             \/ codes' = [codes EXCEPT ![c].expired = TRUE]
        BY <1>5 DEF revoke_invite, Expire, Creating
    <2> QED
        BY <2>1, CodeMarked, CreatingFewer
<1>6. ASSUME cleanup_expired_invites \/ (\E u \in Inviters : Recalculate(u)) \/ UNCHANGED vars
      PROVE  BoundInv'
    <2>1. pc' = pc /\ codes' = codes
        BY <1>6 DEF cleanup_expired_invites, Recalculate, vars
    <2> QED
        BY <2>1 DEF BoundInv, Creating
<1> HIDE DEF tables, requests
<1> QED
    BY <1>1, <1>2, <1>3, <1>4, <1>5, <1>6, NextSteps


LEMMA TypeInductive == ASSUME TypeOK, BoundInv, [Next]_vars PROVE TypeOK' /\ BoundInv'
<1> USE DEF tables, requests
<1>0. BoundInv'
    BY Bounded
<1>c. codes \in Seq(Code) /\ Len(codes) \in Nat /\ DOMAIN codes = 1 .. Len(codes)
    BY CodesTyped
<1>b. ASSUME codes' \in Seq(Code) PROVE Len(codes') \in Nat /\ Len(codes') <= MaxCodes
    <2>1. Len(codes') \in Nat /\ Cardinality(Creating') \in Nat
        BY <1>0, <1>b, LenProperties, FS_CardinalityType DEF BoundInv
    <2>2. Len(codes') + Cardinality(Creating') <= MaxCodes
        BY <1>0 DEF BoundInv
    <2> QED
        BY <2>1, <2>2, MaxCodesAssumption
<1>1. ASSUME NEW r \in Requests, Quiet(r) PROVE TypeOK'
    <2>1. codes' = codes /\ purged' = purged /\ sent' = sent /\ rewarded' = rewarded
          /\ level' = level /\ account' = account
        BY <1>1 DEF Quiet
    <2>2. DOMAIN codes \subseteq 0 .. MaxCodes
        BY <1>c, MaxCodesAssumption DEF TypeOK
    <2>3. /\ pc'[r] \in {"create", "quota", "code"} => who'[r] \in Inviters
          /\ pc'[r] \in {"signup", "user", "invite", "reward"} => who'[r] \in Handles
          /\ pc'[r] = "reward" => arg'[r] \in DOMAIN codes
          /\ pc'[r] = "idle" => who'[r] = NoOne /\ arg'[r] = 0
        BY <1>1 DEF Quiet, TypeOK, validate_invite, Rows
    <2>4. who'[r] \in Inviters \cup Handles \cup {NoOne} /\ arg'[r] \in 0 .. MaxCodes
        BY <1>1, <2>2, <2>3, MaxCodesAssumption DEF Quiet, TypeOK
    <2>5. /\ pc' \in [Requests -> {"idle", "create", "quota", "code", "signup", "user", "invite", "reward"}]
          /\ who' \in [Requests -> Inviters \cup Handles \cup {NoOne}]
          /\ arg' \in [Requests -> 0 .. MaxCodes]
          /\ \A q \in Requests \ {r} : pc'[q] = pc[q] /\ who'[q] = who[q] /\ arg'[q] = arg[q]
        BY <1>1, <2>4, Zenon DEF Quiet, TypeOK
    <2> QED
        BY <2>1, <2>3, <2>5, Zenon DEF TypeOK
<1>d. ASSUME NEW r \in Requests, Done(r), codes' \in Seq(Code), DOMAIN codes \subseteq DOMAIN codes'
      PROVE  /\ pc' \in [Requests -> {"idle", "create", "quota", "code", "signup", "user", "invite", "reward"}]
             /\ who' \in [Requests -> Inviters \cup Handles \cup {NoOne}]
             /\ arg' \in [Requests -> 0 .. MaxCodes]
             /\ \A q \in Requests :
                /\ pc'[q] = "idle" => who'[q] = NoOne /\ arg'[q] = 0
                /\ pc'[q] \in {"create", "quota", "code"} => who'[q] \in Inviters
                /\ pc'[q] \in {"signup", "user", "invite", "reward"} => who'[q] \in Handles
                /\ pc'[q] = "reward" => arg'[q] \in DOMAIN codes'
    BY <1>d, MaxCodesAssumption DEF Done, TypeOK
<1>2. ASSUME NEW r \in Requests, CreateCommit(r) PROVE TypeOK'
    <2>1. PICK u \in Inviters : u = who[r]
        BY <1>2 DEF CreateCommit, generate_unique_code, At, TypeOK
    <2>2. codes' = Append(codes, NewCode(u))
        BY <1>2, <2>1 DEF CreateCommit
    <2>3. codes' \in Seq(Code) /\ Len(codes') = Len(codes) + 1 /\ DOMAIN codes \subseteq DOMAIN codes'
        BY <2>2, CodesAppended
    <2>4. Len(codes') <= MaxCodes
        BY <1>b, <2>3
    <2>5. sent' \in [Inviters -> Nat]
        BY <1>2, <2>1 DEF CreateCommit, TypeOK
    <2>6. account' \in [Handles -> 0 .. Len(codes')]
        BY <1>c, <1>2, <2>3 DEF CreateCommit, TypeOK
    <2>7. purged' = purged /\ rewarded' = rewarded /\ level' = level /\ Done(r)
        BY <1>2 DEF CreateCommit
    <2> QED
        BY <1>d, <2>3, <2>4, <2>5, <2>6, <2>7, Zenon DEF TypeOK, Code
<1>3. ASSUME admin_create_invite PROVE TypeOK'
    <2>2. codes' = Append(codes, NewCode(NoOne))
        BY <1>3 DEF admin_create_invite, create_admin_invite
    <2>3. codes' \in Seq(Code) /\ Len(codes') = Len(codes) + 1 /\ DOMAIN codes \subseteq DOMAIN codes'
        BY <2>2, CodesAppended
    <2>4. Len(codes') <= MaxCodes
        BY <1>b, <2>3
    <2>5. purged' = purged /\ sent' = sent /\ rewarded' = rewarded /\ level' = level
          /\ account' = account /\ pc' = pc /\ who' = who /\ arg' = arg
        BY <1>3 DEF admin_create_invite, create_admin_invite
    <2>6. account' \in [Handles -> 0 .. Len(codes')]
        BY <1>c, <2>3, <2>5 DEF TypeOK
    <2> QED
        BY <2>3, <2>4, <2>5, <2>6 DEF TypeOK, Code
<1>4. ASSUME NEW r \in Requests, SignupCommit(r) PROVE TypeOK'
    <2>1. /\ arg[r] \in DOMAIN codes /\ codes' \in Seq(Code) /\ Len(codes') = Len(codes)
          /\ DOMAIN codes' = DOMAIN codes
        BY <1>4, CodeUsed
    <2>2. codes[arg[r]].by \in Inviters \cup {NoOne} /\ who[r] \in Handles
        BY <1>4, <2>1, CodesTyped DEF Code, SignupCommit, At, TypeOK
    <2>3. rewarded' \in [Inviters -> Nat]
        BY <1>4, <2>2 DEF SignupCommit, Creator, TypeOK
    <2>4. account' \in [Handles -> 0 .. Len(codes')]
        BY <1>c, <1>4, <2>1, <2>2 DEF SignupCommit, TypeOK
    <2>5. purged' = purged /\ sent' = sent /\ level' = level /\ Done(r)
        BY <1>4 DEF SignupCommit
    <2> QED
        BY <1>d, <2>1, <2>3, <2>4, <2>5, Zenon DEF TypeOK, Code
<1>5. ASSUME NEW c \in DOMAIN codes, Expire(c) \/ \E u \in Inviters : revoke_invite(u, c) PROVE TypeOK'
    <2>1. \/ codes' = [codes EXCEPT ![c].valid = FALSE]
          \/ codes' = [codes EXCEPT ![c].expired = TRUE]
        BY <1>5 DEF revoke_invite, Expire
    <2>2. codes' \in Seq(Code) /\ Len(codes') = Len(codes) /\ DOMAIN codes' = DOMAIN codes
        BY <2>1, CodeMarked
    <2>3. purged' = purged /\ sent' = sent /\ rewarded' = rewarded /\ level' = level
          /\ account' = account /\ pc' = pc /\ who' = who /\ arg' = arg
        BY <1>5 DEF revoke_invite, Expire
    <2> QED
        BY <2>2, <2>3 DEF TypeOK, Code
<1>6. ASSUME cleanup_expired_invites PROVE TypeOK'
    <2>1. purged' \subseteq DOMAIN codes
        BY <1>6 DEF cleanup_expired_invites, Purgeable, Rows, TypeOK
    <2> QED
        BY <1>6, <2>1 DEF cleanup_expired_invites, TypeOK
<1>7. ASSUME NEW u \in Inviters, Recalculate(u) PROVE TypeOK'
    <2>1. level' \in [Inviters -> Levels]
        BY <1>7 DEF Recalculate, TypeOK
    <2> QED
        BY <1>7, <2>1 DEF Recalculate, TypeOK
<1>8. ASSUME UNCHANGED vars PROVE TypeOK'
    BY <1>8 DEF vars, TypeOK
<1> HIDE DEF tables, requests
<1> QED
    BY <1>0, <1>1, <1>2, <1>3, <1>4, <1>5, <1>6, <1>7, <1>8, NextSteps

LEMMA InitTyped == Init => TypeOK /\ BoundInv
<1> SUFFICES ASSUME Init PROVE TypeOK /\ BoundInv
    OBVIOUS
<1>1. codes = <<>> /\ Len(codes) = 0 /\ Creating = {}
    BY DEF Init, Creating
<1>2. BoundInv
    BY <1>1, FS_EmptySet, MaxCodesAssumption DEF BoundInv
<1>3. TypeOK
    BY <1>1, LevelsAssumption, MaxCodesAssumption DEF Init, TypeOK
<1> QED
    BY <1>2, <1>3

\* Accounts and requests refer to codes that exist, counters do not go negative, and a
\* request past the validation of its code still finds it in the table.
THEOREM TypeCorrect == Spec => []TypeOK
<1>1. TypeOK /\ BoundInv /\ [Next]_vars => (TypeOK /\ BoundInv)'
    BY TypeInductive
<1> QED
    BY <1>1, InitTyped, PTL DEF Spec

-----------------------------------------------------------------------------
(* Waiting *)

\* Requests that wait only for rows do not wait for each other: the locks are taken in the
\* order handle, code, trust row, and whoever holds no lock waits only for a connection.
LEMMA StallHasCode == TypeOK => StallOnlyInCodeGeneration
<1> SUFFICES ASSUME TypeOK, NEW b \in Requests, pc[b] # "idle",
                    \A r \in Requests : pc[r] # "idle" => ~Ready(r),
                    \A r \in Requests : pc[r] # "code"
             PROVE  FALSE
    BY DEF StallOnlyInCodeGeneration
<1>1. \A r \in Requests : pc[r] \notin {"quota", "reward"}
    <2>1. \A r \in Requests : \A u : Unlocked(r, LocksTrust, u)
        BY DEF Unlocked, LocksTrust
    <2> QED
        BY <2>1 DEF Ready
<1>2. \A r \in Requests : pc[r] # "invite"
    <2>1. \A r \in Requests : \A c : Unlocked(r, LocksCode, c)
        BY <1>1 DEF Unlocked, LocksCode
    <2> QED
        BY <2>1 DEF Ready
<1>3. \A r \in Requests : pc[r] # "user"
    <2>1. \A r \in Requests : \A h : Unlocked(r, LocksHandle, h)
        BY <1>1, <1>2 DEF Unlocked, LocksHandle
    <2> QED
        BY <2>1 DEF Ready
<1>4. Free > 0
    <2>1. {r \in Requests : HoldsConnection(r)} = {}
        BY <1>1, <1>2, <1>3 DEF HoldsConnection
    <2> QED
        BY <2>1, FS_EmptySet, PoolAssumption DEF Free
<1>5. pc[b] \in {"create", "signup"}
    BY <1>1, <1>2, <1>3 DEF TypeOK
<1>6. Ready(b)
    BY <1>4, <1>5 DEF Ready
<1> QED
    BY <1>6

\* When every request waits, one of them waits in generate_unique_code for a second
\* connection: without it the pool and the rows never make the requests wait in a circle.
THEOREM StallOnlyThere == Spec => []StallOnlyInCodeGeneration
    BY TypeCorrect, StallHasCode, PTL


-----------------------------------------------------------------------------
(* What is read under a lock *)

LEMMA LockInductive == ASSUME TypeOK, LockInv, [Next]_vars PROVE LockInv'
<1> USE DEF tables, requests
<1>1. ASSUME NEW r \in Requests, Quiet(r) PROVE LockInv'
    <2>1. /\ codes' = codes /\ sent' = sent /\ level' = level /\ account' = account
          /\ \A q \in Requests \ {r} : pc'[q] = pc[q] /\ who'[q] = who[q] /\ arg'[q] = arg[q]
        BY <1>1 DEF Quiet, TypeOK
    <2>2. /\ pc'[r] = "code" =>
                /\ sent[who'[r]] < max_invites[level[who'[r]]]
                /\ \A q \in Requests \ {r} : pc[q] = "code" => who[q] # who'[r]
          /\ pc'[r] = "reward" =>
                /\ codes[arg'[r]].valid /\ codes[arg'[r]].uses < MaxUses
                /\ \A q \in Requests \ {r} : pc[q] = "reward" => arg[q] # arg'[r]
          /\ pc'[r] \in {"invite", "reward"} =>
                /\ account[who'[r]] = 0
                /\ \A q \in Requests \ {r} : pc[q] \in {"invite", "reward"} => who[q] # who'[r]
        <3>1. CASE pc'[r] = "code"
            BY <1>1, <3>1 DEF Quiet, Unlocked, LocksTrust
        <3>2. CASE pc'[r] = "invite"
            BY <1>1, <3>2 DEF Quiet, Unlocked, LocksHandle
        <3>3. CASE pc'[r] = "reward"
            BY <1>1, <3>3 DEF Quiet, Unlocked, LocksCode, validate_invite, LockInv
        <3> QED
            BY <3>1, <3>2, <3>3
    <2> QED
        BY <2>1, <2>2 DEF LockInv
<1>d. ASSUME NEW r \in Requests, Done(r),
             \A q \in Requests \ {r} :
                /\ pc[q] = "code" => sent'[who[q]] = sent[who[q]] /\ level' = level
                /\ pc[q] = "reward" => codes'[arg[q]] = codes[arg[q]]
                /\ pc[q] \in {"invite", "reward"} => account'[who[q]] = account[who[q]]
      PROVE  LockInv'
    <2>1. /\ pc'[r] = "idle"
          /\ \A q \in Requests \ {r} : pc'[q] = pc[q] /\ who'[q] = who[q] /\ arg'[q] = arg[q]
        BY <1>d DEF Done, TypeOK
    <2> QED
        BY <1>d, <2>1, SMTT(20) DEF LockInv
<1>2. ASSUME NEW r \in Requests, CreateCommit(r) PROVE LockInv'
    <2>1. PICK u \in Inviters : u = who[r] /\ pc[r] = "code"
        BY <1>2 DEF CreateCommit, generate_unique_code, At, TypeOK
    <2>2. \A c \in DOMAIN codes : codes'[c] = codes[c]
        BY <1>2, <2>1, CodesAppended DEF CreateCommit
    <2>3. sent' = [sent EXCEPT ![u] = @ + 1] /\ level' = level /\ account' = account /\ Done(r)
        BY <1>2, <2>1 DEF CreateCommit
    <2>4. \A q \in Requests \ {r} : pc[q] = "code" => who[q] # u
        BY <2>1 DEF LockInv
    <2> QED
        BY <1>d, <2>2, <2>3, <2>4, Zenon DEF TypeOK
<1>3. ASSUME NEW r \in Requests, SignupCommit(r) PROVE LockInv'
    <2>1. pc[r] = "reward"
        BY <1>3 DEF SignupCommit, At
    <2>2. \A c \in DOMAIN codes \ {arg[r]} : codes'[c] = codes[c]
        BY <1>3, CodeUsed
    <2>3. /\ sent' = sent /\ level' = level /\ Done(r)
          /\ account' = [account EXCEPT ![who[r]] = arg[r]]
        BY <1>3 DEF SignupCommit
    <2>4. \A q \in Requests \ {r} : /\ pc[q] = "reward" => arg[q] # arg[r]
                                    /\ pc[q] \in {"invite", "reward"} => who[q] # who[r]
        BY <2>1 DEF LockInv
    <2> QED
        BY <1>d, <2>2, <2>3, <2>4, Zenon DEF TypeOK
<1>k. ASSUME pc' = pc, who' = who, arg' = arg, account' = account,
             \A q \in Requests :
                /\ pc[q] = "code" => sent'[who[q]] = sent[who[q]] /\ level'[who[q]] = level[who[q]]
                /\ pc[q] = "reward" => /\ codes'[arg[q]].valid = codes[arg[q]].valid
                                       /\ codes'[arg[q]].uses = codes[arg[q]].uses
      PROVE  LockInv'
    BY <1>k DEF LockInv
<1>4. ASSUME admin_create_invite PROVE LockInv'
    <2>1. codes' = Append(codes, NewCode(NoOne))
        BY <1>4 DEF admin_create_invite, create_admin_invite
    <2>2. \A c \in DOMAIN codes : codes'[c] = codes[c]
        BY <2>1, CodesAppended
    <2>3. pc' = pc /\ who' = who /\ arg' = arg /\ account' = account /\ sent' = sent /\ level' = level
        BY <1>4 DEF admin_create_invite, create_admin_invite
    <2> QED
        BY <1>k, <2>2, <2>3 DEF TypeOK
<1>5. ASSUME NEW u \in Inviters, NEW c \in DOMAIN codes, revoke_invite(u, c) PROVE LockInv'
    <2>1. \A q \in Requests : pc[q] = "reward" => arg[q] # c
        BY <1>5 DEF revoke_invite, LocksCode
    <2>2. \A d \in DOMAIN codes : d # c => codes'[d] = codes[d]
        BY <1>5, CodeMarked DEF revoke_invite
    <2>3. pc' = pc /\ who' = who /\ arg' = arg /\ account' = account /\ sent' = sent /\ level' = level
        BY <1>5 DEF revoke_invite
    <2> QED
        BY <1>k, <2>1, <2>2, <2>3 DEF TypeOK
<1>6. ASSUME NEW c \in DOMAIN codes, Expire(c) PROVE LockInv'
    <2>1. codes[c] \in Code /\ codes' = [codes EXCEPT ![c].expired = TRUE]
        BY <1>6, CodesTyped DEF Expire
    <2>2. \A d \in DOMAIN codes : codes'[d].valid = codes[d].valid /\ codes'[d].uses = codes[d].uses
        BY <2>1 DEF Code
    <2>3. pc' = pc /\ who' = who /\ arg' = arg /\ account' = account /\ sent' = sent /\ level' = level
        BY <1>6 DEF Expire
    <2> QED
        BY <1>k, <2>2, <2>3 DEF TypeOK
<1>7. ASSUME NEW u \in Inviters, Recalculate(u) PROVE LockInv'
    <2>1. \A q \in Requests : pc[q] = "code" => who[q] # u
        BY <1>7 DEF Recalculate, LocksTrust
    <2>2. PICK l : level' = [level EXCEPT ![u] = l]
        BY <1>7, Zenon DEF Recalculate
    <2>3. pc' = pc /\ who' = who /\ arg' = arg /\ account' = account /\ sent' = sent /\ codes' = codes
        BY <1>7 DEF Recalculate
    <2> QED
        BY <1>k, <2>1, <2>2, <2>3 DEF TypeOK
<1>8. ASSUME cleanup_expired_invites \/ UNCHANGED vars PROVE LockInv'
    BY <1>8, <1>k DEF cleanup_expired_invites, vars
<1> HIDE DEF tables, requests
<1> QED
    BY <1>1, <1>2, <1>3, <1>4, <1>5, <1>6, <1>7, <1>8, NextSteps

\* A code that was revoked or used up admits nobody, even when a signup that began before
\* consumes it afterwards: consume_invite_with_tx reads it under its lock.
THEOREM RevokedUnused == Spec => RevokedStaysUnused
<1> DEFINE Step == \A c \in DOMAIN codes : ~codes[c].valid => codes'[c].uses = codes[c].uses
<1>1. TypeOK /\ LockInv /\ [Next]_vars => Step
    <2> SUFFICES ASSUME TypeOK, LockInv, [Next]_vars, NEW c \in DOMAIN codes, ~codes[c].valid
                 PROVE  codes'[c].uses = codes[c].uses
        OBVIOUS
    <2> USE DEF tables, requests
    <2>1. CASE codes' = codes
        BY <2>1
    <2>2. ASSUME NEW r \in Requests, CreateCommit(r) PROVE codes'[c] = codes[c]
        <3>1. PICK u \in Inviters : u = who[r]
            BY <2>2 DEF CreateCommit, generate_unique_code, At, TypeOK
        <3> QED
            BY <2>2, <3>1, CodesAppended DEF CreateCommit
    <2>3. ASSUME admin_create_invite PROVE codes'[c] = codes[c]
        BY <2>3, CodesAppended DEF admin_create_invite, create_admin_invite
    <2>4. ASSUME NEW r \in Requests, SignupCommit(r) PROVE codes'[c] = codes[c]
        <3>1. codes[arg[r]].valid
            BY <2>4 DEF SignupCommit, At, LockInv
        <3> QED
            BY <2>4, <3>1, CodeUsed
    <2>5. ASSUME NEW u \in Inviters, NEW d \in DOMAIN codes, revoke_invite(u, d)
          PROVE  codes'[c].uses = codes[c].uses
        BY <2>5, CodeMarked DEF revoke_invite
    <2>6. ASSUME NEW d \in DOMAIN codes, Expire(d) PROVE codes'[c].uses = codes[c].uses
        BY <2>6, CodeMarked DEF Expire
    <2>7. ASSUME \/ \E r \in Requests : Quiet(r)
                 \/ cleanup_expired_invites \/ UNCHANGED vars \/ \E u \in Inviters : Recalculate(u)
          PROVE  codes' = codes
        BY <2>7, Zenon DEF Quiet, cleanup_expired_invites, vars, Recalculate
    <2> HIDE DEF tables, requests
    <2> QED
        BY <2>1, <2>2, <2>3, <2>4, <2>5, <2>6, <2>7, NextSteps
<1>2. Init => LockInv
    BY DEF Init, LockInv
<1>3. TypeOK /\ LockInv /\ [Next]_vars => LockInv'
    BY LockInductive
<1> QED
    BY <1>1, <1>2, <1>3, TypeCorrect, PTL DEF Spec, RevokedStaysUnused


-----------------------------------------------------------------------------
(* The quota *)

LEMMA ByFinite ==
    ASSUME TypeOK, NEW u
    PROVE  By(u) \subseteq DOMAIN codes /\ IsFiniteSet(By(u)) /\ Cardinality(By(u)) \in Nat
<1>1. DOMAIN codes = 1 .. Len(codes) /\ Len(codes) \in Nat
    BY CodesTyped
<1>2. IsFiniteSet(DOMAIN codes)
    BY <1>1, FS_Interval
<1>3. By(u) \subseteq DOMAIN codes
    BY DEF By
<1> QED
    BY <1>2, <1>3, FS_Subset, FS_CardinalityType

\* A new code is one of its creator's.
LEMMA ByAppended ==
    ASSUME TypeOK, NEW v \in Inviters \cup {NoOne}, codes' = Append(codes, NewCode(v)), NEW u
    PROVE  /\ u = v => By(u)' = By(u) \cup {Len(codes) + 1}
           /\ u # v => By(u)' = By(u)
           /\ Len(codes) + 1 \notin DOMAIN codes
<1>1. Len(codes) + 1 \notin DOMAIN codes
    <2>1. DOMAIN codes = 1 .. Len(codes) /\ Len(codes) \in Nat
        BY CodesTyped
    <2> QED
        BY <2>1
<1>2. /\ DOMAIN codes' = DOMAIN codes \cup {Len(codes) + 1}
      /\ \A c \in DOMAIN codes : codes'[c] = codes[c]
      /\ codes'[Len(codes) + 1].by = v
    BY CodesAppended DEF NewCode
<1> QED
    BY <1>1, <1>2 DEF By, Creator

\* What a step does to the codes of an inviter: nothing, or one more, which is charged and
\* within the quota of their level at that time.
LEMMA ByStep ==
    ASSUME TypeOK, LockInv, [Next]_vars, NEW u \in Inviters
    PROVE  \/ By(u)' = By(u) /\ sent'[u] = sent[u]
           \/ /\ By(u)' = By(u) \cup {Len(codes) + 1} /\ Len(codes) + 1 \notin DOMAIN codes
              /\ sent'[u] = sent[u] + 1 /\ sent[u] < max_invites[level[u]]
<1> DEFINE Same == By(u)' = By(u) /\ sent'[u] = sent[u]
           More == /\ By(u)' = By(u) \cup {Len(codes) + 1} /\ Len(codes) + 1 \notin DOMAIN codes
                   /\ sent'[u] = sent[u] + 1 /\ sent[u] < max_invites[level[u]]
<1> SUFFICES Same \/ More
    OBVIOUS
<1> USE DEF tables, requests
<1>k. ASSUME DOMAIN codes' = DOMAIN codes, \A c \in DOMAIN codes : codes'[c].by = codes[c].by, sent' = sent
      PROVE  Same
    BY <1>k DEF By, Creator
<1>1. ASSUME NEW r \in Requests, CreateCommit(r) PROVE Same \/ More
    <2>1. PICK v \in Inviters : v = who[r] /\ pc[r] = "code"
        BY <1>1 DEF CreateCommit, generate_unique_code, At, TypeOK
    <2>2. codes' = Append(codes, NewCode(v)) /\ sent' = [sent EXCEPT ![v] = @ + 1]
        BY <1>1, <2>1 DEF CreateCommit
    <2>3. sent[v] < max_invites[level[v]]
        BY <2>1 DEF LockInv
    <2>4. CASE u = v
        BY <2>2, <2>3, <2>4, ByAppended, Zenon DEF TypeOK
    <2>5. CASE u # v
        BY <2>2, <2>5, ByAppended, Zenon DEF TypeOK
    <2> QED
        BY <2>4, <2>5
<1>2. ASSUME admin_create_invite PROVE Same
    <2>1. codes' = Append(codes, NewCode(NoOne)) /\ sent' = sent
        BY <1>2 DEF admin_create_invite, create_admin_invite
    <2> QED
        BY <2>1, ByAppended, NoOneAssumption
<1>3. ASSUME NEW r \in Requests, SignupCommit(r) PROVE Same
    <2>1. DOMAIN codes' = DOMAIN codes /\ \A c \in DOMAIN codes : codes'[c].by = codes[c].by
        BY <1>3, CodeUsed
    <2>2. sent' = sent
        BY <1>3 DEF SignupCommit
    <2> QED
        BY <1>k, <2>1, <2>2
<1>4. ASSUME NEW c \in DOMAIN codes, Expire(c) \/ \E v \in Inviters : revoke_invite(v, c) PROVE Same
    <2>1. /\ sent' = sent
          /\ \/ codes' = [codes EXCEPT ![c].valid = FALSE]
             \/ codes' = [codes EXCEPT ![c].expired = TRUE]
        BY <1>4 DEF revoke_invite, Expire
    <2>2. DOMAIN codes' = DOMAIN codes /\ \A d \in DOMAIN codes : codes'[d].by = codes[d].by
        BY <2>1, CodeMarked
    <2> QED
        BY <1>k, <2>1, <2>2
<1>5. ASSUME \/ \E r \in Requests : Quiet(r)
             \/ cleanup_expired_invites \/ UNCHANGED vars \/ \E v \in Inviters : Recalculate(v)
      PROVE  Same
    <2>1. codes' = codes /\ sent' = sent
        BY <1>5, Zenon DEF Quiet, cleanup_expired_invites, vars, Recalculate
    <2> QED
        BY <1>k, <2>1
<1> HIDE DEF tables, requests, Same, More
<1> QED
    BY <1>1, <1>2, <1>3, <1>4, <1>5, NextSteps

LEMMA ChargedInductive == ASSUME TypeOK, LockInv, Charged, [Next]_vars PROVE Charged'
<1> SUFFICES ASSUME NEW u \in Inviters PROVE sent'[u] = Cardinality(By(u)')
    BY DEF Charged
<1>1. /\ By(u) \subseteq DOMAIN codes /\ IsFiniteSet(By(u)) /\ Cardinality(By(u)) \in Nat
      /\ sent[u] = Cardinality(By(u))
    BY ByFinite DEF Charged
<1>2. CASE By(u)' = By(u) /\ sent'[u] = sent[u]
    BY <1>1, <1>2
<1>3. CASE /\ By(u)' = By(u) \cup {Len(codes) + 1} /\ Len(codes) + 1 \notin DOMAIN codes
           /\ sent'[u] = sent[u] + 1
    <2>1. Len(codes) + 1 \notin By(u)
        BY <1>1, <1>3
    <2>2. Cardinality(By(u)') = Cardinality(By(u)) + 1
        BY <1>1, <1>3, <2>1, FS_AddElement, Zenon
    <2> QED
        BY <1>1, <1>3, <2>2
<1> QED
    BY <1>2, <1>3, ByStep

\* The codes of an inviter only grow while get_invite_stats would show an invite remaining
\* at their level, and invites_sent counts them: create_invite checks and charges the quota
\* under the lock of the trust row, which a recalculation of the level waits for.
THEOREM QuotaIsHeld == Spec => QuotaHeld
<1> DEFINE Step == \A u \in Inviters :
                      LET Created == {c \in DOMAIN codes : Creator(c) = u}
                          Later == {c \in DOMAIN codes' : codes'[c].by = u}
                      IN  Later # Created => Remaining(u) > 0 /\ sent'[u] = Cardinality(Later)
<1>1. TypeOK /\ LockInv /\ Charged /\ Charged' /\ [Next]_vars => Step
    <2> SUFFICES ASSUME TypeOK, LockInv, Charged', [Next]_vars, NEW u \in Inviters, By(u)' # By(u)
                 PROVE  Remaining(u) > 0 /\ sent'[u] = Cardinality(By(u)')
        BY Zenon DEF By, Creator
    <2>1. sent[u] < max_invites[level[u]]
        BY ByStep
    <2>2. sent[u] \in Nat /\ max_invites[level[u]] \in Nat
        BY QuotaAssumption DEF TypeOK
    <2>3. sent'[u] = Cardinality(By(u)')
        BY DEF Charged
    <2> QED
        BY <2>1, <2>2, <2>3 DEF Remaining
<1>2. Init => LockInv /\ Charged
    <2> SUFFICES ASSUME Init PROVE LockInv /\ Charged
        OBVIOUS
    <2>1. \A u \in Inviters : By(u) = {} /\ sent[u] = 0
        BY DEF Init, By
    <2> QED
        BY <2>1, FS_EmptySet, Zenon DEF Init, LockInv, Charged
<1>3. TypeOK /\ LockInv /\ Charged /\ [Next]_vars => LockInv' /\ Charged'
    BY LockInductive, ChargedInductive
<1> QED
    BY <1>1, <1>2, <1>3, TypeCorrect, PTL DEF Spec, QuotaHeld


-----------------------------------------------------------------------------
(* Accounts *)

\* The accounts that signed up with one of the codes of S.
Admitted(S) == {h \in Handles : account[h] \in S}

AccountsFinite == IsFiniteSet({h \in Handles : account[h] # 0})

AtomicInv == AccountsFinite /\ SignupIsAtomic

LEMMA AtomicAsAdmitted ==
    SignupIsAtomic <=>
        /\ \A c \in DOMAIN codes : codes[c].uses = Cardinality(Admitted({c})) /\ codes[c].uses <= MaxUses
        /\ \A u \in Inviters : rewarded[u] = Cardinality(Admitted(By(u)))
    BY DEF SignupIsAtomic, Admitted, By

LEMMA AtomicAsAdmittedNext ==
    (/\ \A c \in DOMAIN codes' :
            codes'[c].uses = Cardinality({h \in Handles : account'[h] \in {c}}) /\ codes'[c].uses <= MaxUses
     /\ \A u \in Inviters : rewarded'[u] = Cardinality({h \in Handles : account'[h] \in By(u)'}))
    => SignupIsAtomic'
    BY DEF SignupIsAtomic, By

LEMMA AdmittedFinite ==
    ASSUME TypeOK, AccountsFinite, NEW S \in SUBSET DOMAIN codes
    PROVE  IsFiniteSet(Admitted(S)) /\ Cardinality(Admitted(S)) \in Nat
<1>1. 0 \notin S
    BY CodesTyped
<1>2. Admitted(S) \subseteq {h \in Handles : account[h] # 0}
    BY <1>1 DEF Admitted
<1> QED
    BY <1>2, FS_Subset, FS_CardinalityType DEF AccountsFinite

\* One more account, for the code that it signed up with.
LEMMA AdmittedGrows ==
    ASSUME TypeOK, AccountsFinite, NEW S \in SUBSET DOMAIN codes, NEW h \in Handles, account[h] = 0,
           NEW c \in DOMAIN codes, account' = [account EXCEPT ![h] = c]
    PROVE  /\ c \in S => Cardinality({x \in Handles : account'[x] \in S}) = Cardinality(Admitted(S)) + 1
           /\ c \notin S => {x \in Handles : account'[x] \in S} = Admitted(S)
<1>1. h \notin Admitted(S)
    BY CodesTyped DEF Admitted
<1>2. c \notin S => {x \in Handles : account'[x] \in S} = Admitted(S)
    BY <1>1 DEF Admitted, TypeOK
<1>3. c \in S => {x \in Handles : account'[x] \in S} = Admitted(S) \cup {h}
    BY DEF Admitted, TypeOK
<1>4. Cardinality(Admitted(S) \cup {h}) = Cardinality(Admitted(S)) + 1
    BY <1>1, AdmittedFinite, FS_AddElement, Zenon
<1> QED
    BY <1>2, <1>3, <1>4

\* A code that was just created has admitted nobody.
LEMMA AtomicAppended ==
    ASSUME TypeOK, AtomicInv, NEW v \in Inviters \cup {NoOne}, codes' = Append(codes, NewCode(v)),
           account' = account, rewarded' = rewarded
    PROVE  AtomicInv'
<1>1. AccountsFinite'
    BY DEF AtomicInv, AccountsFinite
<1>2. /\ DOMAIN codes' = DOMAIN codes \cup {Len(codes) + 1}
      /\ \A c \in DOMAIN codes : codes'[c] = codes[c]
      /\ codes'[Len(codes) + 1].uses = 0
    BY CodesAppended DEF NewCode
<1>3. \A h \in Handles : account[h] # Len(codes) + 1
    BY CodesTyped DEF TypeOK
<1>4. \A c \in DOMAIN codes : codes[c].uses = Cardinality(Admitted({c})) /\ codes[c].uses <= MaxUses
    BY AtomicAsAdmitted DEF AtomicInv
<1>5. ASSUME NEW c \in DOMAIN codes'
      PROVE  /\ codes'[c].uses = Cardinality({h \in Handles : account'[h] \in {c}})
             /\ codes'[c].uses <= MaxUses
    <2>1. CASE c \in DOMAIN codes
        BY <1>2, <1>4, <2>1, Zenon DEF Admitted
    <2>2. CASE c = Len(codes) + 1
        <3>1. {h \in Handles : account'[h] \in {c}} = {}
            BY <1>3, <2>2
        <3>2. Cardinality({h \in Handles : account'[h] \in {c}}) = 0
            BY <3>1, FS_EmptySet, Zenon
        <3>3. codes'[c].uses = 0
            BY <1>2, <2>2
        <3> QED
            BY <3>2, <3>3 DEF MaxUses
    <2> QED
        BY <1>2, <1>5, <2>1, <2>2
<1>6. ASSUME NEW u \in Inviters
      PROVE  rewarded'[u] = Cardinality({h \in Handles : account'[h] \in By(u)'})
    <2>1. By(u)' = By(u) \/ By(u)' = By(u) \cup {Len(codes) + 1}
        BY ByAppended
    <2>2. {h \in Handles : account'[h] \in By(u)'} = Admitted(By(u))
        BY <1>3, <2>1 DEF Admitted
    <2> QED
        BY <2>2, AtomicAsAdmitted, Zenon DEF AtomicInv
<1> QED
    BY <1>1, <1>5, <1>6, AtomicAsAdmittedNext, Zenon DEF AtomicInv

\* The commit of a signup counts the account with the code and rewards the inviter.
LEMMA AtomicSignup ==
    ASSUME TypeOK, LockInv, AtomicInv, NEW r \in Requests, SignupCommit(r)
    PROVE  AtomicInv'
<1>1. PICK c \in DOMAIN codes, h \in Handles : c = arg[r] /\ h = who[r]
    BY CodeUsed DEF SignupCommit, At, TypeOK
<1>2. account[h] = 0 /\ codes[c].uses < MaxUses
    BY <1>1 DEF SignupCommit, At, LockInv
<1>3. account' = [account EXCEPT ![h] = c]
    BY <1>1 DEF SignupCommit
<1>4. /\ DOMAIN codes' = DOMAIN codes /\ codes'[c].by = codes[c].by
      /\ codes'[c].uses = codes[c].uses + 1
      /\ \A d \in DOMAIN codes \ {c} : codes'[d] = codes[d]
    BY <1>1, CodeUsed
<1>5. AccountsFinite'
    <2>1. {x \in Handles : account'[x] # 0} \subseteq {x \in Handles : account[x] # 0} \cup {h}
        BY <1>3 DEF TypeOK
    <2>2. IsFiniteSet({x \in Handles : account[x] # 0} \cup {h})
        BY FS_AddElement DEF AtomicInv, AccountsFinite
    <2> QED
        BY <2>1, <2>2, FS_Subset DEF AccountsFinite
<1>6. ASSUME NEW d \in DOMAIN codes'
      PROVE  /\ codes'[d].uses = Cardinality({x \in Handles : account'[x] \in {d}})
             /\ codes'[d].uses <= MaxUses
    <2>1. codes[d].uses = Cardinality(Admitted({d})) /\ codes[d].uses <= MaxUses /\ codes[d].uses \in Nat
        BY <1>4, <1>6, CodesTyped, AtomicAsAdmitted, Zenon DEF AtomicInv, Code
    <2>2. CASE d = c
        <3>1. Cardinality({x \in Handles : account'[x] \in {d}}) = Cardinality(Admitted({d})) + 1
            BY <1>2, <1>3, <2>2, AdmittedGrows, Zenon DEF AtomicInv
        <3> QED
            BY <1>2, <1>4, <2>1, <2>2, <3>1 DEF MaxUses
    <2>3. CASE d # c
        <3>1. {x \in Handles : account'[x] \in {d}} = Admitted({d})
            BY <1>2, <1>3, <1>4, <1>6, <2>3, AdmittedGrows, Zenon DEF AtomicInv
        <3> QED
            BY <1>4, <1>6, <2>1, <2>3, <3>1, Zenon
    <2> QED
        BY <2>2, <2>3
<1>7. ASSUME NEW u \in Inviters
      PROVE  rewarded'[u] = Cardinality({x \in Handles : account'[x] \in By(u)'})
    <2>1. PICK S \in SUBSET DOMAIN codes : S = By(u)
        BY ByFinite
    <2>2. By(u)' = S
        BY <1>4, <2>1 DEF By, Creator
    <2>3. rewarded[u] = Cardinality(Admitted(S)) /\ Cardinality(Admitted(S)) \in Nat
        BY <2>1, AdmittedFinite, AtomicAsAdmitted DEF AtomicInv
    <2>4. CASE codes[c].by = u
        <3>1. rewarded'[u] = rewarded[u] + 1
            <4>1. Creator(c) = u /\ u # NoOne
                BY <2>4, NoOneAssumption DEF Creator
            <4>2. rewarded' = [rewarded EXCEPT ![u] = @ + 1]
                BY <1>1, <4>1 DEF SignupCommit
            <4> QED
                BY <4>2 DEF TypeOK
        <3>2. c \in S
            BY <2>1, <2>4 DEF By, Creator
        <3> QED
            BY <1>2, <1>3, <2>2, <2>3, <3>1, <3>2, AdmittedGrows, Zenon DEF AtomicInv
    <2>5. CASE codes[c].by # u
        <3>1. rewarded'[u] = rewarded[u]
            BY <1>1, <2>5 DEF SignupCommit, Creator, TypeOK
        <3>2. c \notin S
            BY <2>1, <2>5 DEF By, Creator
        <3> QED
            BY <1>2, <1>3, <2>2, <2>3, <3>1, <3>2, AdmittedGrows, Zenon DEF AtomicInv
    <2> QED
        BY <2>4, <2>5
<1> QED
    BY <1>5, <1>6, <1>7, AtomicAsAdmittedNext DEF AtomicInv

LEMMA AtomicInductive == ASSUME TypeOK, LockInv, AtomicInv, [Next]_vars PROVE AtomicInv'
<1> USE DEF tables, requests
<1>k. ASSUME DOMAIN codes' = DOMAIN codes, account' = account, rewarded' = rewarded,
             \A c \in DOMAIN codes : codes'[c].by = codes[c].by /\ codes'[c].uses = codes[c].uses
      PROVE  AtomicInv'
    <2>1. AccountsFinite'
        BY <1>k DEF AtomicInv, AccountsFinite
    <2>2. \A u \in Inviters : By(u)' = By(u)
        BY <1>k DEF By, Creator
    <2>3. /\ \A c \in DOMAIN codes : codes[c].uses = Cardinality(Admitted({c})) /\ codes[c].uses <= MaxUses
          /\ \A u \in Inviters : rewarded[u] = Cardinality(Admitted(By(u)))
        BY AtomicAsAdmitted DEF AtomicInv
    <2>4. SignupIsAtomic'
        BY <1>k, <2>2, <2>3, AtomicAsAdmittedNext DEF Admitted
    <2> QED
        BY <2>1, <2>4 DEF AtomicInv
<1>1. ASSUME NEW r \in Requests, CreateCommit(r) PROVE AtomicInv'
    <2>1. PICK v \in Inviters : v = who[r]
        BY <1>1 DEF CreateCommit, generate_unique_code, At, TypeOK
    <2> QED
        BY <1>1, <2>1, AtomicAppended DEF CreateCommit
<1>2. ASSUME admin_create_invite PROVE AtomicInv'
    BY <1>2, AtomicAppended DEF admin_create_invite, create_admin_invite
<1>3. ASSUME NEW r \in Requests, SignupCommit(r) PROVE AtomicInv'
    BY <1>3, AtomicSignup
<1>4. ASSUME NEW c \in DOMAIN codes, Expire(c) \/ \E u \in Inviters : revoke_invite(u, c) PROVE AtomicInv'
    <2>1. /\ account' = account /\ rewarded' = rewarded
          /\ \/ codes' = [codes EXCEPT ![c].valid = FALSE]
             \/ codes' = [codes EXCEPT ![c].expired = TRUE]
        BY <1>4 DEF revoke_invite, Expire
    <2> QED
        BY <1>k, <2>1, CodeMarked
<1>5. ASSUME \/ \E r \in Requests : Quiet(r)
             \/ cleanup_expired_invites \/ UNCHANGED vars \/ \E u \in Inviters : Recalculate(u)
      PROVE  AtomicInv'
    <2>1. codes' = codes /\ account' = account /\ rewarded' = rewarded
        BY <1>5, Zenon DEF Quiet, cleanup_expired_invites, vars, Recalculate
    <2> QED
        BY <1>k, <2>1
<1> HIDE DEF tables, requests
<1> QED
    BY <1>1, <1>2, <1>3, <1>4, <1>5, NextSteps

\* A code admits at most one account, every account is counted by the code it signed up
\* with, and every inviter is rewarded once for each account that one of their codes
\* admitted: signup locks the handle and the code before it writes, and commits at once.
THEOREM SignupAtomic == Spec => []SignupIsAtomic
<1>1. Init => LockInv /\ AtomicInv
    <2> SUFFICES ASSUME Init PROVE LockInv /\ AtomicInv
        OBVIOUS
    <2>1. LockInv
        BY DEF Init, LockInv
    <2>2. {h \in Handles : account[h] # 0} = {} /\ DOMAIN codes = {}
        BY DEF Init
    <2>3. \A u \in Inviters : Admitted(By(u)) = {} /\ rewarded[u] = 0
        BY <2>2 DEF Init, Admitted, By
    <2>4. SignupIsAtomic
        BY <2>2, <2>3, FS_EmptySet, AtomicAsAdmitted
    <2> QED
        BY <2>1, <2>2, <2>4, FS_EmptySet DEF AtomicInv, AccountsFinite
<1>2. TypeOK /\ LockInv /\ AtomicInv /\ [Next]_vars => LockInv' /\ AtomicInv'
    BY LockInductive, AtomicInductive
<1>3. AtomicInv => SignupIsAtomic
    BY DEF AtomicInv
<1> QED
    BY <1>1, <1>2, <1>3, TypeCorrect, PTL DEF Spec

=============================================================================
