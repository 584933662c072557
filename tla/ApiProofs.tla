----------------------------- MODULE ApiProofs ------------------------------
(***************************************************************************)
(* The API process for any requests, callers, plans and limits.            *)
(*                                                                         *)
(* Types come first (TypeInv): a request reaches its handler only through  *)
(* its last check (Passage). DrainInv follows an accepted notification     *)
(* from the queue to the worker. QuotaInv compares the Redis counters with *)
(* the requests counted in them: a key names a window that has begun       *)
(* (Begun), a counter outlives its window, so it never misses a request    *)
(* that was counted within the window (CountsAll), and the last of those   *)
(* that were let through had room for all the others (RoomForAll).         *)
(***************************************************************************)
EXTENDS Api, TLAPS, FiniteSetTheorems, SequenceTheorems

-----------------------------------------------------------------------------
(* The limits. *)

Windows == {"Hour", "Day"}

\* What the operations of the plans are limited as.
PlanActions == {"like", "comment", "follow", "login"}

Limit == [limit : Nat, window : Windows]

LEMMA ChecksTyped == \A a \in DOMAIN Checks : Checks[a] \in Seq(Windows)
<1>1. <<"Hour", "Day">> \in Seq(Windows) /\ <<"Hour">> \in Seq(Windows) /\ <<"Day">> \in Seq(Windows)
    BY DEF Windows
<1>2. \A h, d, b : Checks = [post |-> b, follow |-> b, unfollow |-> d, like |-> h, comment |-> h,
                             feed |-> h, notifications |-> h, search |-> h, media_read |-> h,
                             media_upload |-> h, moderation |-> h]
                    => \A a \in DOMAIN Checks : Checks[a] \in {h, d, b}
    OBVIOUS
<1>3. \A a \in DOMAIN Checks : Checks[a] \in {<<"Hour">>, <<"Day">>, <<"Hour", "Day">>}
    BY <1>2, Zenon DEF Checks
<1> QED
    BY <1>1, <1>3, Zenon

\* What a user's request is checked against.
LEMMA UserLimits ==
    ASSUME NEW a \in DOMAIN Checks, NEW n \in TrustLevels
    PROVE  for_trust_level(a, n) \in Seq(Limit)
<1>1. PICK s \in Seq(Windows) : s = Checks[a]
    BY ChecksTyped
<1>2. \A i \in 1 .. Len(s) : [limit |-> RateLimits(a, s[i], n), window |-> s[i]] \in Limit
  <2>1. \A i \in 1 .. Len(s) : s[i] \in Windows
    OBVIOUS
  <2>2. \A w \in Windows : RateLimits(a, w, n) \in Nat
    BY LimitsAssumption, Zenon DEF Windows
  <2> QED
    BY <2>1, <2>2 DEF Limit
<1>3. \A t : DOMAIN t = 1 .. Len(s) /\ t = [i \in 1 .. Len(s) |-> t[i]]
                /\ (\A i \in 1 .. Len(s) : t[i] \in Limit) => t \in Seq(Limit)
    OBVIOUS
<1> QED
    BY <1>1, <1>2, <1>3 DEF for_trust_level

\* What a request is checked against by its client address.
LEMMA IpLimits ==
    ASSUME NEW a \in DOMAIN ip_rate_limit_config
    PROVE  <<[limit |-> IpLimit(a), window |-> ip_rate_limit_config[a]]>> \in Seq(Limit)
<1>1. ip_rate_limit_config[a] \in Windows
    BY DEF ip_rate_limit_config, Windows
<1>2. IpLimit(a) \in Nat
    BY LimitsAssumption, Zenon
<1> QED
    BY <1>1, <1>2 DEF Limit

\* The request's caller and action are those of its plan.
LEMMA PlanTyped ==
    plan \in Plans => \A r \in Requests : Caller(r) \in Callers /\ Action(r) \in PlanActions
<1> SUFFICES ASSUME plan \in Plans, NEW r \in Requests
             PROVE  Caller(r) \in Callers /\ Action(r) \in PlanActions
    OBVIOUS
<1>1. plan[r] \in [caller : Callers, operation : DOMAIN rate_limit_action]
    BY PlansAssumption
<1>2. \A o \in DOMAIN rate_limit_action : rate_limit_action[o] \in PlanActions
    BY DEF rate_limit_action, PlanActions
<1> QED
    BY <1>1, <1>2 DEF Caller, Action, Operation


-----------------------------------------------------------------------------
(* The steps, by what they change. *)

TablesOK ==
    /\ level \in [Callers -> Levels]
    /\ liked \in SUBSET Callers /\ followed \in SUBSET Callers
    /\ exists \in BOOLEAN

\* A request is admitted at its last check, and reaches its handler only so.
Passage ==
    \A r \in Requests :
        /\ pc[r] \in {"handler", "send", "push"} => r \in admitted
        /\ pc[r] \in {"new", "check", "incr"} => r \notin admitted

TypeInv ==
    /\ TypeOK
    /\ IsFiniteSet(permits)
    /\ Passage

Handler(r) == (\E effect \in BOOLEAN : Then(r, effect)) /\ TablesOK'

TableStep == UNCHANGED <<limiter, channel, workerVars, requests, process, accepted>> /\ TablesOK'

LEMMA StepKinds ==
    TypeInv /\ [Next]_vars =>
        \/ \E r \in Requests :
            \/ \E limits \in Seq(Limit) : Arrive(r, limits)
            \/ BuildKey(r) \/ IncrWindow(r)
            \/ IncrFails(r) \/ Handler(r) \/ TrySend(r) \/ Sent(r)
        \/ TableStep \/ Clock \/ Worker
        \/ shutdown_signal \/ join_background_tasks \/ Exit
<1> DEFINE Goal ==
        \/ \E r \in Requests :
            \/ \E limits \in Seq(Limit) : Arrive(r, limits)
            \/ BuildKey(r) \/ IncrWindow(r)
            \/ IncrFails(r) \/ Handler(r) \/ TrySend(r) \/ Sent(r)
        \/ TableStep \/ Clock \/ Worker
        \/ shutdown_signal \/ join_background_tasks \/ Exit
<1> SUFFICES ASSUME TypeInv, [Next]_vars
             PROVE  Goal
    OBVIOUS
<1>0. TablesOK /\ plan \in Plans
    BY DEF TypeInv, TypeOK, TablesOK
<1>1. ASSUME NEW r \in Requests, rate_limit_middleware(r)
      PROVE  Goal
  <2>1. PICK l \in TrustLevels : l = level[Caller(r)]
    BY <1>0, PlanTyped, LevelsAssumption DEF TablesOK
  <2>2. PICK a \in DOMAIN Checks : a = Action(r)
    BY <1>1, Zenon DEF rate_limit_middleware
  <2>3. for_trust_level(a, l) \in Seq(Limit)
    BY UserLimits
  <2>4. <<>> \in Seq(Limit)
    OBVIOUS
  <2> QED
    BY <1>1, <2>1, <2>2, <2>3, <2>4, Zenon DEF rate_limit_middleware
<1>2. ASSUME NEW r \in Requests, ip_rate_limit_middleware(r)
      PROVE  Goal
  <2>1. PICK a \in DOMAIN ip_rate_limit_config : a = Action(r)
    BY <1>2, Zenon DEF ip_rate_limit_middleware
  <2>2. <<[limit |-> IpLimit(a), window |-> ip_rate_limit_config[a]]>> \in Seq(Limit)
    BY IpLimits
  <2> QED
    BY <1>2, <2>1, <2>2, Zenon DEF ip_rate_limit_middleware
<1>3. ASSUME NEW r \in Requests,
             check_and_increment(r) \/ check_and_increment_ip(r)
      PROVE  Goal
    BY <1>3, Zenon DEF check_and_increment, check_and_increment_ip
<1>4. ASSUME NEW r \in Requests,
             like_post(r) \/ comment_post(r) \/ add_story_reaction(r) \/ follow_user(r) \/ Other(r)
      PROVE  Goal
  <2>1. Caller(r) \in Callers
    BY <1>0, PlanTyped
  <2>2. \E effect \in BOOLEAN : Then(r, effect)
    BY <1>0, <1>4, Zenon DEF like_post, comment_post, add_story_reaction, follow_user, Other, TablesOK
  <2>3. TablesOK'
    BY <1>0, <1>4, <2>1 DEF like_post, comment_post, add_story_reaction, follow_user, Other,
                            Then, TablesOK
  <2> QED
    BY <2>2, <2>3, Zenon DEF Handler
<1>5. ASSUME NEW c \in Callers,
             unlike_post(c) \/ \E l \in Levels : Relevel(c, l)
      PROVE  Goal
  <2>1. TableStep
    BY <1>0, <1>5 DEF unlike_post, Relevel, TableStep, TablesOK, process, limiter
  <2> QED
    BY <2>1, Zenon
<1>6. ASSUME Remove
      PROVE  Goal
  <2>1. TableStep
    BY <1>0, <1>6, Zenon DEF Remove, TableStep, TablesOK
  <2> QED
    BY <2>1, Zenon
<1>7. ASSUME UNCHANGED vars
      PROVE  Goal
  <2>1. TableStep
    BY <1>0, <1>7 DEF vars, tables, TableStep, TablesOK
  <2> QED
    BY <2>1, Zenon
<1> HIDE DEF Goal
<1>8. ASSUME NEW r \in Requests, Handle(r)
      PROVE  Goal
  <2> USE DEF Goal
  <2> QED
    BY <1>3, <1>4, <1>8, Zenon DEF Handle
<1>9. ASSUME Clock \/ Worker \/ shutdown_signal \/ Main
      PROVE  Goal
    BY <1>9, Zenon DEF Main, Goal
<1> QED
    BY <1>1, <1>2, <1>5, <1>6, <1>7, <1>8, <1>9, Zenon DEF Next


-----------------------------------------------------------------------------
(* Types. *)

LEMMA NowTyped == TypeInv => now \in Nat
BY DEF TypeInv, TypeOK, CountersOK

LEMMA CountTyped ==
    /\ TypeInv => \A k : Count(k) \in Nat
    /\ TypeInv' => (\A k : Count(k) \in Nat)'
<1>1. TypeInv => \A k : Count(k) \in Nat
    BY DEF TypeInv, TypeOK, CountersOK, Count
<1> QED
    BY <1>1, PTL

LEMMA TicksTyped == \A w : Ticks(w) \in Nat \ {0}
BY TimeAssumption DEF Ticks

\* The script leaves a positive time to live.
LEMMA IncrKeepsCounters ==
    ASSUME NEW k, CountersOK, UNCHANGED now, incr_with_ttl(k)
    PROVE  CountersOK'
<1>1. PICK t \in Nat \ {0} : t = TtlOf(k.window)
    BY TicksTyped DEF TtlOf
<1>2. Count(k) \in Nat /\ now \in Nat
    BY DEF CountersOK, Count
<1>3. DOMAIN counters' = DOMAIN counters \cup {k}
    BY DEF incr_with_ttl
<1>4. ASSUME NEW j \in DOMAIN counters'
      PROVE  counters'[j].count \in Nat /\ counters'[j].expires > now
  <2>1. CASE j # k
    BY <1>3, <2>1 DEF incr_with_ttl, CountersOK
  <2>2. CASE j = k /\ k \in DOMAIN counters
    BY <1>2, <2>2 DEF incr_with_ttl, CountersOK
  <2>3. CASE j = k /\ k \notin DOMAIN counters
    BY <1>1, <1>2, <2>3 DEF incr_with_ttl, CountersOK
  <2> QED
    BY <2>1, <2>2, <2>3
<1> QED
    BY <1>4 DEF CountersOK

LEMMA InitCountersTyped == InitCounters => CountersOK
BY TimeAssumption DEF InitCounters, CountersOK

LEMMA InitTyped == Init => TypeInv
<1> SUFFICES ASSUME Init
             PROVE  TypeInv
    OBVIOUS
<1>1. CountersOK
    BY InitCountersTyped DEF Init
<1>2. NotificationsOK /\ IsFiniteSet(permits)
  <2>1. /\ queue = <<>> /\ permits = {} /\ closed = FALSE
        /\ worker = "select" /\ current = {}
        /\ notified = {} /\ processed = {}
    BY DEF Init, InitNotifications
  <2>2. queue \in Seq(Jobs) /\ Len(queue) = 0
    BY <2>1
  <2>3. IsFiniteSet(permits) /\ Cardinality(permits) = 0 /\ Cardinality(current) = 0
    BY <2>1, FS_EmptySet, Zenon
  <2>4. Len(queue) + Cardinality(permits) <= Capacity /\ Cardinality(current) <= 1
    BY <2>2, <2>3, CapacityAssumption
  <2> QED
    BY <2>1, <2>2, <2>3, <2>4, Zenon DEF NotificationsOK
<1>3. /\ plan \in Plans
      /\ level \in [Callers -> Levels]
      /\ liked \in SUBSET Callers /\ followed \in SUBSET Callers
      /\ exists \in BOOLEAN
      /\ pc \in [Requests -> {"new", "check", "incr", "handler", "send", "push", "done"}]
      /\ checks \in [Requests -> Seq([limit : Nat, window : {"Hour", "Day"}])]
      /\ \A r \in Requests : (checks[r] # <<>>) <=> pc[r] \in {"check", "incr"}
      /\ number \in [Requests -> Nat]
      /\ permits = {r \in Requests : pc[r] = "push"}
      /\ admitted \in SUBSET (Requests \ limited) /\ limited \in SUBSET Requests
      /\ accepted \in SUBSET admitted
      /\ main \in {"serving", "joining", "closing", "exited"}
      /\ timedOut \in BOOLEAN
  <2>1. level \in [Callers -> Levels]
    BY LevelsAssumption DEF Init
  <2>2. /\ pc \in [Requests -> {"new", "check", "incr", "handler", "send", "push", "done"}]
        /\ checks \in [Requests -> Seq([limit : Nat, window : {"Hour", "Day"}])]
        /\ \A r \in Requests : (checks[r] # <<>>) <=> pc[r] \in {"check", "incr"}
        /\ number \in [Requests -> Nat]
        /\ permits = {r \in Requests : pc[r] = "push"}
    BY DEF Init, InitNotifications
  <2> QED
    BY <2>1, <2>2, Zenon DEF Init
<1>4. Passage
    BY DEF Init, Passage
<1> QED
    BY <1>1, <1>2, <1>3, <1>4, Zenon DEF TypeInv, TypeOK


\* TypeInv in parts, by the variables they are about.
RequestsOK ==
    /\ plan \in Plans
    /\ pc \in [Requests -> {"new", "check", "incr", "handler", "send", "push", "done"}]
    /\ checks \in [Requests -> Seq([limit : Nat, window : {"Hour", "Day"}])]
    /\ \A r \in Requests : (checks[r] # <<>>) <=> pc[r] \in {"check", "incr"}
    /\ number \in [Requests -> Nat]
    /\ admitted \in SUBSET (Requests \ limited) /\ limited \in SUBSET Requests
    /\ Passage

ProcessOK ==
    /\ main \in {"serving", "joining", "closing", "exited"}
    /\ timedOut \in BOOLEAN

PermitsOK == permits = {r \in Requests : pc[r] = "push"} /\ IsFiniteSet(permits)

AcceptedOK == accepted \in SUBSET admitted

LEMMA TypeParts ==
    TypeInv <=> /\ CountersOK /\ NotificationsOK /\ TablesOK
                /\ RequestsOK /\ ProcessOK /\ PermitsOK /\ AcceptedOK
BY Zenon DEF TypeInv, TypeOK, TablesOK, RequestsOK, ProcessOK, PermitsOK, AcceptedOK

LEMMA TypePartsNext ==
    (/\ CountersOK /\ NotificationsOK /\ TablesOK
     /\ RequestsOK /\ ProcessOK /\ PermitsOK /\ AcceptedOK)' => TypeInv'
BY TypeParts, PTL

\* A part is kept by a step that leaves its variables alone.
LEMMA PartsKept ==
    /\ CountersOK /\ UNCHANGED limiter => CountersOK'
    /\ NotificationsOK /\ UNCHANGED <<channel, workerVars>> => NotificationsOK'
    /\ TablesOK /\ UNCHANGED tables => TablesOK'
    /\ RequestsOK /\ UNCHANGED requests => RequestsOK'
    /\ ProcessOK /\ UNCHANGED process => ProcessOK'
    /\ PermitsOK /\ UNCHANGED <<permits, pc>> => PermitsOK'
    /\ AcceptedOK /\ UNCHANGED <<accepted, admitted>> => AcceptedOK'
<1>1. CountersOK /\ UNCHANGED limiter => CountersOK'
    BY DEF CountersOK, limiter
<1>2. NotificationsOK /\ UNCHANGED <<channel, workerVars>> => NotificationsOK'
    BY Zenon DEF NotificationsOK, channel, workerVars
<1>3. TablesOK /\ UNCHANGED tables => TablesOK'
    BY Zenon DEF TablesOK, tables
<1>4. RequestsOK /\ UNCHANGED requests => RequestsOK'
  <2> SUFFICES ASSUME RequestsOK, UNCHANGED requests
               PROVE  RequestsOK'
    BY Zenon
  <2>1. UNCHANGED <<plan, pc, checks, number, limited, admitted>>
    BY DEF requests
  <2>2. Passage'
    BY <2>1, Zenon DEF RequestsOK, Passage
  <2> QED
    BY <2>1, <2>2, Zenon DEF RequestsOK
<1>5. ProcessOK /\ UNCHANGED process => ProcessOK'
    BY Zenon DEF ProcessOK, process
<1>6. PermitsOK /\ UNCHANGED <<permits, pc>> => PermitsOK'
    BY Zenon DEF PermitsOK
<1>7. AcceptedOK /\ UNCHANGED <<accepted, admitted>> => AcceptedOK'
    BY Zenon DEF AcceptedOK
<1> QED
    BY <1>1, <1>2, <1>3, <1>4, <1>5, <1>6, <1>7, Zenon

\* A request moves between steps at which it has no permit.
LEMMA PermitsMoved ==
    ASSUME NEW r \in Requests, NEW label, RequestsOK, PermitsOK,
           pc[r] # "push", label # "push", Goto(r, label), UNCHANGED permits
    PROVE  PermitsOK'
BY DEF RequestsOK, PermitsOK, Goto

LEMMA ArriveTyped ==
    ASSUME TypeInv, NEW r \in Requests, NEW limits \in Seq(Limit), Arrive(r, limits)
    PROVE  TypeInv'
<1>0. /\ CountersOK /\ NotificationsOK /\ TablesOK
      /\ RequestsOK /\ ProcessOK /\ PermitsOK /\ AcceptedOK
    BY TypeParts
<1>1. /\ UNCHANGED <<limiter, tables, process, permits, accepted, admitted>>
      /\ UNCHANGED <<channel, workerVars>>
    BY DEF Arrive, channel
<1>2. PICK label \in {"check", "done"} : Goto(r, label) /\ (label = "check" <=> limits # <<>>)
    BY Zenon DEF Arrive
<1>3. limits \in Seq([limit : Nat, window : {"Hour", "Day"}])
    BY Zenon DEF Limit, Windows
<1>4. /\ pc[r] = "new" /\ checks' = [checks EXCEPT ![r] = limits]
      /\ UNCHANGED <<plan, number, limited, admitted>>
    BY DEF Arrive
<1>5. RequestsOK'
  <2>1. /\ pc' \in [Requests -> {"new", "check", "incr", "handler", "send", "push", "done"}]
        /\ checks' \in [Requests -> Seq([limit : Nat, window : {"Hour", "Day"}])]
        /\ \A q \in Requests : (checks'[q] # <<>>) <=> pc'[q] \in {"check", "incr"}
    BY <1>0, <1>2, <1>3, <1>4 DEF RequestsOK, Goto
  <2>2. Passage'
    BY <1>0, <1>2, <1>4 DEF RequestsOK, Passage, Goto
  <2> QED
    BY <1>0, <1>4, <2>1, <2>2, Zenon DEF RequestsOK
<1>6. PermitsOK'
    BY <1>0, <1>1, <1>2, <1>4, PermitsMoved, Zenon
<1> QED
    BY <1>0, <1>1, <1>5, <1>6, PartsKept, TypePartsNext, Zenon

\* The key a request has built, or is about to build, names a window it is checked against.
LEMMA WindowTyped ==
    ASSUME TypeInv, NEW r \in Requests, pc[r] \in {"check", "incr"}
    PROVE  /\ checks[r] \in Seq(Limit) /\ checks[r] # <<>> /\ Head(checks[r]) \in Limit
           /\ Head(checks[r]).window \in Windows /\ Head(checks[r]).limit \in Nat
<1>1. PICK s \in Seq(Limit) : s = checks[r] /\ s # <<>>
    BY DEF TypeInv, TypeOK, Limit, Windows
<1>2. Head(s) \in Limit
    BY <1>1
<1> QED
    BY <1>1, <1>2 DEF Limit

\* The windows since the model started are numbered from 0.
LEMMA CurrentTyped == TypeInv => \A w : current_window(w) \in Nat
<1>1. \A n \in Nat, t \in Nat \ {0} : n \div t \in Nat
    OBVIOUS
<1> QED
    BY <1>1, NowTyped, TicksTyped, Zenon DEF current_window

LEMMA BuildKeyTyped ==
    ASSUME TypeInv, NEW r \in Requests, BuildKey(r)
    PROVE  TypeInv'
<1>0. /\ CountersOK /\ NotificationsOK /\ TablesOK
      /\ RequestsOK /\ ProcessOK /\ PermitsOK /\ AcceptedOK
    BY TypeParts
<1>1. PICK n \in Nat : n = current_window(Head(checks[r]).window)
    BY CurrentTyped
<1>2. /\ UNCHANGED <<limiter, tables, process, permits, accepted, admitted>>
      /\ UNCHANGED <<channel, workerVars>>
      /\ UNCHANGED <<plan, checks, limited>>
      /\ pc[r] = "check" /\ Goto(r, "incr") /\ number' = [number EXCEPT ![r] = n]
    BY <1>1 DEF BuildKey, channel
<1>3. RequestsOK'
  <2>1. /\ pc' \in [Requests -> {"new", "check", "incr", "handler", "send", "push", "done"}]
        /\ \A q \in Requests : (checks'[q] # <<>>) <=> pc'[q] \in {"check", "incr"}
        /\ number' \in [Requests -> Nat]
    BY <1>0, <1>2 DEF RequestsOK, Goto
  <2>2. Passage'
    BY <1>0, <1>2 DEF RequestsOK, Passage, Goto
  <2> QED
    BY <1>0, <1>2, <2>1, <2>2, Zenon DEF RequestsOK
<1>4. PermitsOK'
    BY <1>0, <1>2, PermitsMoved
<1> QED
    BY <1>0, <1>2, <1>3, <1>4, PartsKept, TypePartsNext, Zenon

LEMMA IncrWindowTyped ==
    ASSUME TypeInv, NEW r \in Requests, IncrWindow(r)
    PROVE  TypeInv'
<1>0. /\ CountersOK /\ NotificationsOK /\ TablesOK
      /\ RequestsOK /\ ProcessOK /\ PermitsOK /\ AcceptedOK
    BY TypeParts
<1>1. pc[r] = "incr"
    BY DEF IncrWindow
<1>2. PICK s \in Seq(Limit) : s = checks[r] /\ s # <<>>
    BY <1>1, WindowTyped, Zenon
<1>3. Tail(s) \in Seq(Limit) /\ (Tail(s) # <<>> <=> Len(s) > 1) /\ (~(Len(s) > 1) <=> Len(s) = 1)
  <2>1. Len(s) \in Nat \ {0} /\ Tail(s) \in Seq(Limit) /\ Len(Tail(s)) = Len(s) - 1
    BY <1>2
  <2>2. Tail(s) = <<>> <=> Len(Tail(s)) = 0
    BY <2>1, EmptySeq, Zenon
  <2> QED
    BY <2>1, <2>2
<1>4. PICK k : k = KeyOf(r)
    BY Zenon
<1>5. /\ incr_with_ttl(k) /\ UNCHANGED now
      /\ limited' \in {limited, limited \cup {r}}
      /\ checks' = [checks EXCEPT ![r] = Tail(s)]
      /\ number' = [number EXCEPT ![r] = 0]
      /\ UNCHANGED <<tables, plan, process, permits, accepted>>
      /\ UNCHANGED <<channel, workerVars>>
    BY <1>2, <1>4 DEF IncrWindow, channel
<1>6. PICK label \in {"check", "done", "handler"} :
        /\ Goto(r, label)
        /\ label = "check" <=> Tail(s) # <<>>
        /\ label = "handler" => r \notin limited'
        /\ admitted' = IF label = "handler" THEN admitted \cup {r} ELSE admitted
  <2>1. Goto(r, IF Len(s) > 1 THEN "check" ELSE IF Through(r) THEN "handler" ELSE "done")
    BY <1>2 DEF IncrWindow
  <2>2. admitted' = IF Through(r) THEN admitted \cup {r} ELSE admitted
    BY DEF IncrWindow
  <2>3. Through(r) <=> Len(s) = 1 /\ r \notin limited'
    BY <1>2 DEF Through
  <2>4. CASE Len(s) > 1
    <3>1. ~Through(r) /\ Goto(r, "check") /\ Tail(s) # <<>>
      BY <1>3, <2>1, <2>3, <2>4, Zenon
    <3> QED
      BY <2>2, <3>1
  <2>5. CASE ~(Len(s) > 1) /\ ~Through(r)
    <3>1. Goto(r, "done") /\ Tail(s) = <<>>
      BY <1>3, <2>1, <2>5, Zenon
    <3> QED
      BY <2>2, <2>5, <3>1
  <2>6. CASE ~(Len(s) > 1) /\ Through(r)
    <3>1. Goto(r, "handler") /\ Tail(s) = <<>>
      BY <1>3, <2>1, <2>6, Zenon
    <3> QED
      BY <2>2, <2>3, <2>6, <3>1
  <2> QED
    BY <2>4, <2>5, <2>6, Zenon
<1>7. CountersOK'
    BY <1>0, <1>5, IncrKeepsCounters
<1>8. r \notin admitted
    BY <1>0, <1>1 DEF RequestsOK, Passage
<1>9. RequestsOK'
  <2>1. /\ pc' \in [Requests -> {"new", "check", "incr", "handler", "send", "push", "done"}]
        /\ \A q \in Requests : pc'[q] = IF q = r THEN label ELSE pc[q]
    BY <1>0, <1>6 DEF RequestsOK, Goto
  <2>2. Tail(s) \in Seq([limit : Nat, window : {"Hour", "Day"}])
    BY <1>3, Zenon DEF Limit, Windows
  <2>3. /\ checks' \in [Requests -> Seq([limit : Nat, window : {"Hour", "Day"}])]
        /\ \A q \in Requests : checks'[q] = IF q = r THEN Tail(s) ELSE checks[q]
        /\ number' \in [Requests -> Nat]
    BY <1>0, <1>5, <2>2 DEF RequestsOK
  <2>4. label \in {"check", "incr"} <=> label = "check"
    BY <1>6
  <2>5. \A q \in Requests : (checks'[q] # <<>>) <=> pc'[q] \in {"check", "incr"}
    BY <1>0, <1>6, <2>1, <2>3, <2>4, Zenon DEF RequestsOK
  <2>6. admitted' \in SUBSET (Requests \ limited') /\ limited' \in SUBSET Requests
    BY <1>0, <1>5, <1>6, <1>8 DEF RequestsOK
  <2>7. Passage'
    BY <1>0, <1>6, <1>8, <2>1 DEF RequestsOK, Passage
  <2> QED
    BY <1>0, <1>5, <2>1, <2>3, <2>5, <2>6, <2>7, Zenon DEF RequestsOK
<1>10. PermitsOK'
    BY <1>0, <1>1, <1>5, <1>6, PermitsMoved
<1>11. AcceptedOK'
    BY <1>0, <1>5, <1>6 DEF AcceptedOK
<1> QED
    BY <1>0, <1>5, <1>7, <1>9, <1>10, <1>11, PartsKept, TypePartsNext, Zenon

LEMMA IncrFailsTyped ==
    ASSUME TypeInv, NEW r \in Requests, IncrFails(r)
    PROVE  TypeInv'
<1>0. /\ CountersOK /\ NotificationsOK /\ TablesOK
      /\ RequestsOK /\ ProcessOK /\ PermitsOK /\ AcceptedOK
    BY TypeParts
<1>1. PICK k : k = KeyOf(r)
    BY Zenon
<1>2. /\ incr_with_ttl(k) \/ UNCHANGED counters
      /\ pc[r] = "incr" /\ Goto(r, "done")
      /\ checks' = [checks EXCEPT ![r] = <<>>]
      /\ number' = [number EXCEPT ![r] = 0]
      /\ UNCHANGED <<now, tables, plan, limited, admitted, process, permits, accepted>>
      /\ UNCHANGED <<channel, workerVars>>
    BY <1>1, Zenon DEF IncrFails, channel
<1>3. CountersOK'
    BY <1>0, <1>2, IncrKeepsCounters, PartsKept DEF limiter
<1>4. RequestsOK'
  <2>1. /\ pc' \in [Requests -> {"new", "check", "incr", "handler", "send", "push", "done"}]
        /\ checks' \in [Requests -> Seq([limit : Nat, window : {"Hour", "Day"}])]
        /\ \A q \in Requests : (checks'[q] # <<>>) <=> pc'[q] \in {"check", "incr"}
        /\ number' \in [Requests -> Nat]
    BY <1>0, <1>2 DEF RequestsOK, Goto
  <2>2. Passage'
    BY <1>0, <1>2 DEF RequestsOK, Passage, Goto
  <2> QED
    BY <1>0, <1>2, <2>1, <2>2, Zenon DEF RequestsOK
<1>5. PermitsOK'
    BY <1>0, <1>2, PermitsMoved
<1> QED
    BY <1>0, <1>2, <1>3, <1>4, <1>5, PartsKept, TypePartsNext, Zenon

\* Only the step of one request moves, between steps that are not a check.
LEMMA RequestMoved ==
    ASSUME RequestsOK, NEW r \in Requests, pc[r] \in {"handler", "send", "push"},
           NEW label \in {"send", "push", "done"}, Goto(r, label),
           UNCHANGED <<plan, checks, number, limited, admitted>>
    PROVE  RequestsOK'
<1>1. /\ pc' \in [Requests -> {"new", "check", "incr", "handler", "send", "push", "done"}]
      /\ \A q \in Requests : pc'[q] = IF q = r THEN label ELSE pc[q]
    BY DEF RequestsOK, Goto
<1>2. \A q \in Requests : (checks'[q] # <<>>) <=> pc'[q] \in {"check", "incr"}
    BY <1>1, Zenon DEF RequestsOK
<1>3. Passage'
    BY <1>1 DEF RequestsOK, Passage
<1> QED
    BY <1>1, <1>2, <1>3, Zenon DEF RequestsOK

LEMMA HandlerTyped ==
    ASSUME TypeInv, NEW r \in Requests, Handler(r)
    PROVE  TypeInv'
<1>0. /\ CountersOK /\ NotificationsOK
      /\ RequestsOK /\ ProcessOK /\ PermitsOK /\ AcceptedOK
    BY TypeParts
<1>1. PICK label \in {"send", "done"} : Goto(r, label)
    BY Zenon DEF Handler, Then
<1>2. /\ pc[r] = "handler" /\ TablesOK'
      /\ UNCHANGED <<limiter, plan, checks, number, limited, admitted, process, permits, accepted>>
      /\ UNCHANGED <<channel, workerVars>>
    BY Zenon DEF Handler, Then, channel
<1>3. RequestsOK'
    BY <1>0, <1>1, <1>2, RequestMoved
<1>4. PermitsOK'
    BY <1>0, <1>1, <1>2, PermitsMoved
<1> QED
    BY <1>0, <1>2, <1>3, <1>4, PartsKept, TypePartsNext, Zenon

LEMMA TrySendTyped ==
    ASSUME TypeInv, NEW r \in Requests, TrySend(r)
    PROVE  TypeInv'
<1>0. /\ CountersOK /\ NotificationsOK /\ TablesOK
      /\ RequestsOK /\ ProcessOK /\ PermitsOK /\ AcceptedOK
    BY TypeParts
<1>1. /\ pc[r] = "send"
      /\ UNCHANGED <<limiter, tables, plan, checks, number, limited, admitted, process, accepted>>
      /\ UNCHANGED <<queue, closed, workerVars>>
    BY Zenon DEF TrySend, Reserve, Refuse, channel
<1>2. PICK label \in {"push", "done"} : Goto(r, label)
    BY Zenon DEF TrySend
<1>3. RequestsOK'
    BY <1>0, <1>1, <1>2, RequestMoved
<1>4. CASE Refuse /\ Goto(r, "done")
  <2>1. UNCHANGED <<channel, workerVars>> /\ UNCHANGED permits
    BY <1>1, <1>4 DEF Refuse, channel
  <2>2. PermitsOK'
    BY <1>0, <1>1, <1>4, <2>1, PermitsMoved
  <2> QED
    BY <1>0, <1>1, <1>3, <2>1, <2>2, PartsKept, TypePartsNext, Zenon
<1>5. CASE Reserve(r) /\ Goto(r, "push")
  <2>1. permits' = permits \cup {r} /\ Len(queue) + Cardinality(permits) < Capacity
    BY <1>5 DEF Reserve, HasRoom
  <2>2. r \notin permits
    BY <1>0, <1>1 DEF PermitsOK
  <2>3. IsFiniteSet(permits') /\ Cardinality(permits') = Cardinality(permits) + 1
    BY <1>0, <2>1, <2>2, FS_AddElement, Zenon DEF PermitsOK
  <2>4. PermitsOK'
    BY <1>0, <1>5, <2>1, <2>3 DEF PermitsOK, RequestsOK, Goto
  <2>5. Len(queue') + Cardinality(permits') <= Capacity
    <3>1. Cardinality(permits) \in Nat /\ Len(queue) \in Nat
      BY <1>0, FS_CardinalityType DEF PermitsOK, NotificationsOK
    <3> QED
      BY <1>1, <2>1, <2>3, <3>1, CapacityAssumption
  <2>6. NotificationsOK'
    BY <1>0, <1>1, <2>1, <2>5, JobsAssumption, Zenon DEF NotificationsOK, workerVars
  <2> QED
    BY <1>0, <1>1, <1>3, <2>4, <2>6, PartsKept, TypePartsNext, Zenon
<1> QED
    BY <1>4, <1>5, Zenon DEF TrySend

LEMMA SentTyped ==
    ASSUME TypeInv, NEW r \in Requests, Sent(r)
    PROVE  TypeInv'
<1>0. /\ CountersOK /\ NotificationsOK /\ TablesOK
      /\ RequestsOK /\ ProcessOK /\ PermitsOK /\ AcceptedOK
    BY TypeParts
<1>1. /\ pc[r] = "push" /\ Goto(r, "done")
      /\ queue' = Append(queue, r) /\ permits' = permits \ {r}
      /\ accepted' \in {accepted, accepted \cup {r}}
      /\ UNCHANGED <<limiter, tables, plan, checks, number, limited, admitted, process>>
      /\ UNCHANGED <<closed, workerVars>>
    BY DEF Sent, Push
<1>2. RequestsOK'
    BY <1>0, <1>1, RequestMoved
<1>3. r \in admitted
    BY <1>0, <1>1 DEF RequestsOK, Passage
<1>4. AcceptedOK'
    BY <1>0, <1>1, <1>3 DEF AcceptedOK
<1>5. r \in permits
    BY <1>0, <1>1 DEF PermitsOK
<1>6. /\ IsFiniteSet(permits') /\ Cardinality(permits') = Cardinality(permits) - 1
      /\ Cardinality(permits) \in Nat
    BY <1>0, <1>1, <1>5, FS_RemoveElement, FS_CardinalityType, Zenon DEF PermitsOK
<1>7. PermitsOK'
    BY <1>0, <1>1, <1>6 DEF PermitsOK, RequestsOK, Goto
<1>8. queue' \in Seq(Jobs) /\ Len(queue') + Cardinality(permits') <= Capacity
    BY <1>0, <1>1, <1>6, JobsAssumption, CapacityAssumption DEF NotificationsOK
<1>9. NotificationsOK'
    BY <1>0, <1>1, <1>8, Zenon DEF NotificationsOK, workerVars
<1> QED
    BY <1>0, <1>1, <1>2, <1>4, <1>7, <1>9, PartsKept, TypePartsNext, Zenon

LEMMA ClockTyped ==
    ASSUME TypeInv, Clock
    PROVE  TypeInv'
<1>0. /\ CountersOK /\ NotificationsOK /\ TablesOK
      /\ RequestsOK /\ ProcessOK /\ PermitsOK /\ AcceptedOK
    BY TypeParts
<1>1. /\ UNCHANGED <<channel, workerVars>>
      /\ UNCHANGED <<tables, requests, process, accepted, admitted, permits, pc>>
    BY DEF Clock, channel, requests
<1>2. CountersOK'
    BY <1>0, TimeAssumption DEF Clock, Tick, CountersOK
<1> QED
    BY <1>0, <1>1, <1>2, PartsKept, TypePartsNext, Zenon


LEMMA WorkerTyped ==
    ASSUME TypeInv, Worker
    PROVE  TypeInv'
<1>0. /\ CountersOK /\ NotificationsOK /\ TablesOK
      /\ RequestsOK /\ ProcessOK /\ PermitsOK /\ AcceptedOK
    BY TypeParts
<1>1. UNCHANGED <<limiter, tables, requests, process, accepted, admitted, permits, pc>>
    BY Zenon DEF Worker, Recv, Take, Cancelled, Drain, process_job, channel, requests
<1>2. ASSUME NEW label \in {"work", "drain_work"}, Take(label)
      PROVE  NotificationsOK'
  <2>1. /\ queue # <<>> /\ worker' = label /\ current' = {Head(queue)} /\ queue' = Tail(queue)
        /\ UNCHANGED <<permits, closed, notified, processed>>
    BY <1>2 DEF Take
  <2>2. /\ Head(queue) \in Jobs /\ queue' \in Seq(Jobs) /\ Len(queue') = Len(queue) - 1
        /\ Len(queue) \in Nat
    BY <1>0, <2>1 DEF NotificationsOK
  <2>3. Cardinality(permits) \in Nat
    BY <1>0, FS_CardinalityType DEF PermitsOK
  <2>4. Len(queue') + Cardinality(permits') <= Capacity
    BY <1>0, <2>1, <2>2, <2>3, CapacityAssumption DEF NotificationsOK
  <2>5. Cardinality(current') = 1
    BY <2>1, FS_Singleton, Zenon
  <2>6. Cardinality(current') <= 1
    BY <2>5
  <2> QED
    BY <1>0, <2>1, <2>2, <2>4, <2>6 DEF NotificationsOK
<1>3. ASSUME Cancelled
      PROVE  NotificationsOK'
    BY <1>0, <1>3 DEF Cancelled, NotificationsOK
<1>4. ASSUME Drain
      PROVE  NotificationsOK'
  <2>1. CASE Take("drain_work")
    BY <1>2, <2>1
  <2>2. CASE worker' = "stopped" /\ UNCHANGED <<channel, current, notified, processed>>
    BY <1>0, <1>4, <2>2 DEF Drain, NotificationsOK, channel
  <2> QED
    BY <1>4, <2>1, <2>2, Zenon DEF Drain
<1>5. ASSUME process_job(Due)
      PROVE  NotificationsOK'
  <2>1. /\ worker' \in {"select", "drain"}
        /\ processed' = processed \cup current /\ current' = {}
        /\ notified' \subseteq notified \cup current
        /\ UNCHANGED <<queue, permits, closed>>
    BY <1>5 DEF process_job, channel
  <2>2. Cardinality(current') <= 1
    BY <2>1, FS_EmptySet
  <2> QED
    BY <1>0, <2>1, <2>2 DEF NotificationsOK
<1>6. NotificationsOK'
    BY <1>2, <1>3, <1>4, <1>5, Zenon DEF Worker, Recv
<1> QED
    BY <1>0, <1>1, <1>6, PartsKept, TypePartsNext, Zenon

LEMMA MainTyped ==
    ASSUME TypeInv, shutdown_signal \/ join_background_tasks \/ Exit
    PROVE  TypeInv'
<1>0. /\ CountersOK /\ NotificationsOK /\ TablesOK
      /\ RequestsOK /\ ProcessOK /\ PermitsOK /\ AcceptedOK
    BY TypeParts
<1>1. /\ UNCHANGED <<limiter, tables, requests, accepted, admitted, permits, pc>>
      /\ UNCHANGED <<channel, current, notified, processed>>
    BY Zenon DEF shutdown_signal, join_background_tasks, Exit, channel, workerVars, requests
<1>2. worker' \in {worker, "killed"}
    BY Zenon DEF shutdown_signal, join_background_tasks, Exit, workerVars
<1>3. NotificationsOK'
    BY <1>0, <1>1, <1>2 DEF NotificationsOK, channel
<1>4. ProcessOK'
    BY <1>0, Zenon DEF shutdown_signal, join_background_tasks, Exit, ProcessOK
<1> QED
    BY <1>0, <1>1, <1>3, <1>4, PartsKept, TypePartsNext, Zenon

LEMMA StepTyped == TypeInv /\ [Next]_vars => TypeInv'
<1> SUFFICES ASSUME TypeInv, [Next]_vars
             PROVE  TypeInv'
    OBVIOUS
<1>1. ASSUME TableStep
      PROVE  TypeInv'
  <2>1. /\ CountersOK /\ NotificationsOK
        /\ RequestsOK /\ ProcessOK /\ PermitsOK /\ AcceptedOK
    BY TypeParts
  <2>2. /\ UNCHANGED <<channel, workerVars>> /\ TablesOK'
        /\ UNCHANGED <<limiter, requests, process, accepted, admitted, permits, pc>>
    BY <1>1 DEF TableStep, channel, requests
  <2> QED
    BY <2>1, <2>2, PartsKept, TypePartsNext, Zenon
<1> QED
    BY <1>1, StepKinds, ArriveTyped, BuildKeyTyped, IncrWindowTyped, IncrFailsTyped,
       HandlerTyped, TrySendTyped, SentTyped, ClockTyped, WorkerTyped, MainTyped, Zenon

LEMMA TypeInductive == Spec => []TypeInv
<1>1. Init => TypeInv
    BY InitTyped
<1>2. TypeInv /\ [Next]_vars => TypeInv'
    BY StepTyped
<1> QED
    BY <1>1, <1>2, PTL DEF Spec

\* The variables keep their types. Among them: the queue and the permits of the senders
\* together never exceed the capacity of the channel, no request is both over a limit and
\* admitted, and a counter Redis holds has not expired.
THEOREM TypeCorrect == Spec => []TypeOK
<1>1. TypeInv => TypeOK
    BY DEF TypeInv
<1> QED
    BY <1>1, TypeInductive, PTL

-----------------------------------------------------------------------------
(* The drain. *)

Queued == {queue[i] : i \in DOMAIN queue}

\* Until the worker stops, an accepted job is queued, in its hands or processed. It stops
\* when the queue is empty, and only after the signal, so nothing is accepted later. The
\* join reports a worker that has not stopped.
DrainInv ==
    /\ worker \notin {"stopped", "killed"} => accepted \subseteq processed \cup current \cup Queued
    /\ worker = "stopped" => accepted \subseteq processed
    /\ worker \in {"drain", "drain_work", "stopped", "killed"} => main # "serving"
    /\ main \in {"closing", "exited"} /\ ~timedOut => worker = "stopped"

LEMMA QueueAppended ==
    ASSUME NEW s \in Seq(Jobs), NEW j \in Jobs
    PROVE  {s[i] : i \in DOMAIN s} \cup {j} \subseteq {Append(s, j)[i] : i \in DOMAIN Append(s, j)}
<1>1. \A i \in DOMAIN s : i \in DOMAIN Append(s, j) /\ Append(s, j)[i] = s[i]
    OBVIOUS
<1>2. Len(s) + 1 \in DOMAIN Append(s, j) /\ Append(s, j)[Len(s) + 1] = j
    OBVIOUS
<1> QED
    BY <1>1, <1>2, Zenon

LEMMA QueueTaken ==
    ASSUME NEW s \in Seq(Jobs), s # <<>>
    PROVE  {s[i] : i \in DOMAIN s} \subseteq {Head(s)} \cup {Tail(s)[i] : i \in DOMAIN Tail(s)}
<1>1. \A i \in DOMAIN s :
        s[i] = Head(s) \/ (i - 1 \in DOMAIN Tail(s) /\ Tail(s)[i - 1] = s[i])
    OBVIOUS
<1> QED
    BY <1>1, Zenon

LEMMA DrainStep == DrainInv /\ TypeInv /\ [Next]_vars => DrainInv'
<1> SUFFICES ASSUME DrainInv, TypeInv, [Next]_vars
             PROVE  DrainInv'
    OBVIOUS
<1>0. NotificationsOK
    BY DEF TypeInv, TypeOK
<1>1. ASSUME UNCHANGED <<queue, worker, current, processed, accepted, main, timedOut>>
      PROVE  DrainInv'
    BY <1>0, <1>1 DEF DrainInv, Queued
<1>2. ASSUME NEW r \in Requests, Sent(r)
      PROVE  DrainInv'
  <2>1. /\ queue' = Append(queue, r)
        /\ accepted' \in {accepted, accepted \cup {r}}
        /\ main # "serving" => accepted' = accepted
        /\ UNCHANGED <<worker, current, processed, main, timedOut>>
    BY <1>2 DEF Sent, Push, workerVars, process
  <2>2. Queued \cup {r} \subseteq Queued'
    <3>1. PICK s \in Seq(Jobs) : s = queue
      BY <1>0 DEF NotificationsOK
    <3>2. r \in Jobs
      BY JobsAssumption
    <3> QED
      BY <2>1, <3>1, <3>2, QueueAppended DEF Queued
  <2>3. accepted' # accepted => main = "serving"
    BY <2>1
  <2> QED
    BY <1>0, <2>1, <2>2, <2>3 DEF DrainInv
<1>3. ASSUME NEW label \in {"work", "drain_work"}, Take(label),
             worker \in {"select", "drain"}, label = "drain_work" => worker = "drain",
             UNCHANGED <<accepted, main, timedOut>>
      PROVE  DrainInv'
  <2>1. Queued \subseteq current' \cup Queued'
    BY <1>0, <1>3, QueueTaken, Zenon DEF Take, Queued, NotificationsOK
  <2>2. current = {}
    BY <1>0, <1>3 DEF NotificationsOK
  <2>3. worker' = label /\ processed' = processed
    BY <1>3 DEF Take
  <2> QED
    BY <1>0, <1>3, <2>1, <2>2, <2>3 DEF DrainInv
<1>4. ASSUME main # "serving", Cancelled, UNCHANGED <<accepted, main, timedOut>>
      PROVE  DrainInv'
    BY <1>0, <1>4 DEF DrainInv, Cancelled, Queued
<1>5. ASSUME Drain, UNCHANGED <<accepted, main, timedOut>>
      PROVE  DrainInv'
  <2>1. CASE Take("drain_work")
    BY <1>3, <1>5, <2>1 DEF Drain
  <2>2. CASE queue = <<>> /\ worker' = "stopped" /\ UNCHANGED <<channel, current, notified, processed>>
    <3>1. Queued = {}
      BY <2>2 DEF Queued
    <3>2. current = {} /\ worker = "drain"
      BY <1>0, <1>5 DEF Drain, NotificationsOK
    <3> QED
      BY <1>0, <1>5, <2>2, <3>1, <3>2 DEF DrainInv
  <2> QED
    BY <1>5, <2>1, <2>2, Zenon DEF Drain
<1>6. ASSUME process_job(Due), UNCHANGED <<accepted, main, timedOut>>
      PROVE  DrainInv'
    BY <1>0, <1>6 DEF DrainInv, process_job, channel, Queued
<1>7. ASSUME shutdown_signal \/ join_background_tasks \/ Exit
      PROVE  DrainInv'
  <2>1. UNCHANGED <<queue, current, processed, accepted>>
    BY <1>7, Zenon DEF shutdown_signal, join_background_tasks, Exit, channel, workerVars
  <2>2. CASE shutdown_signal
    BY <1>0, <2>1, <2>2 DEF shutdown_signal, workerVars, DrainInv, Queued
  <2>3. CASE join_background_tasks
    BY <1>0, <2>1, <2>3, Zenon DEF join_background_tasks, workerVars, DrainInv, Queued
  <2>4. CASE Exit
    BY <1>0, <2>1, <2>4 DEF Exit, DrainInv, Queued
  <2> QED
    BY <1>7, <2>2, <2>3, <2>4
<1>8. ASSUME Worker
      PROVE  DrainInv'
  <2>1. UNCHANGED <<accepted, main, timedOut>>
    BY <1>8 DEF Worker, process
  <2> QED
    BY <1>3, <1>4, <1>5, <1>6, <1>8, <2>1, Zenon DEF Worker, Recv
<1>9. ASSUME NEW r \in Requests, NEW limits, Arrive(r, limits)
      PROVE  DrainInv'
    BY <1>1, <1>9, Zenon DEF Arrive, channel, workerVars, process
<1>10. ASSUME NEW r \in Requests, BuildKey(r) \/ IncrWindow(r) \/ IncrFails(r) \/ Handler(r)
       PROVE  DrainInv'
    BY <1>1, <1>10, Zenon DEF BuildKey, IncrWindow, IncrFails, Handler, Then, channel, workerVars, process
<1>11. ASSUME NEW r \in Requests, TrySend(r)
       PROVE  DrainInv'
    BY <1>1, <1>11, Zenon DEF TrySend, Reserve, Refuse, channel, workerVars, process
<1>12. ASSUME TableStep \/ Clock
       PROVE  DrainInv'
    BY <1>1, <1>12, Zenon DEF TableStep, Clock, channel, workerVars, process
<1> QED
    BY <1>2, <1>7, <1>8, <1>9, <1>10, <1>11, <1>12, StepKinds, Zenon

\* A notification whose try_send returned Ok before the shutdown signal has been processed
\* when the process stops serving, unless the join of the worker timed out: whatever the
\* requests that are still sending, the order in which select! takes its branches, and the
\* values that arrive after the channel was closed.
THEOREM AcceptedIsProcessed == Spec => []AcceptedProcessed
<1>1. Init => DrainInv
    BY DEF Init, InitNotifications, DrainInv
<1>2. DrainInv /\ TypeInv /\ [Next]_vars => DrainInv'
    BY DrainStep
<1>3. DrainInv => AcceptedProcessed
    BY DEF DrainInv, AcceptedProcessed
<1> QED
    BY <1>1, <1>2, <1>3, TypeInductive, PTL DEF Spec

-----------------------------------------------------------------------------
(* The quotas. *)

\* A moment lies within its window, and time does not go back to an earlier one.
LEMMA WindowOfMoment ==
    ASSUME NEW n \in Nat, NEW t \in Nat \ {0}
    PROVE  /\ n \div t \in Nat
           /\ (n \div t) * t <= n
           /\ n < (n \div t + 1) * t
           /\ n \div t <= (n + 1) \div t
<1>1. /\ n \div t \in Nat /\ (n + 1) \div t \in Nat
    OBVIOUS
<1>2. (n \div t) * t <= n /\ n < (n \div t + 1) * t
    OBVIOUS
<1>3. n \div t <= (n + 1) \div t
    OBVIOUS
<1> QED
    BY <1>1, <1>2, <1>3

LEMMA LaterWindow ==
    ASSUME NEW n \in Nat, NEW t \in Nat, NEW m \in Nat, NEW i \in Nat, m * t <= n, i <= m
    PROVE  (i + 1) * t <= n + t
<1>1. PICK d \in Nat : m = i + d
  <2>1. m - i \in Nat /\ m = i + (m - i)
    OBVIOUS
  <2> QED
    BY <2>1, Zenon
<1>2. (i + 1) * t = i * t + t /\ i * t \in Nat
    OBVIOUS
<1>3. (i + d) * t = i * t + d * t /\ d * t \in Nat
    OBVIOUS
<1> QED
    BY <1>1, <1>2, <1>3

Keys == [caller : Callers, action : PlanActions, window : Windows, number : Nat]

Entries == [key : Keys, limit : Nat, at : Nat]

CountedIn(k) == {r \in Requests : InTime(r, k) # {}}

\* A counter lives until its window has ended.
OutlivesWindow ==
    \A k \in DOMAIN counters :
        /\ k \in Keys
        /\ counters[k].expires \in Nat
        /\ (k.number + 1) * Ticks(k.window) <= counters[k].expires

CountedTyped ==
    /\ counted \in [Requests -> SUBSET Entries]
    /\ IsFiniteSet({r \in Requests : counted[r] # {}})

\* A key names a window that has begun.
Begun ==
    /\ \A r \in Requests : pc[r] = "incr" =>
            number[r] <= current_window(Head(checks[r]).window)
    /\ \A r \in Requests : \A c \in counted[r] : c.key.number <= current_window(c.key.window)

\* The counter of a current window has counted every request that was counted in it.
CountsAll ==
    \A k \in Keys : k.number = current_window(k.window) => Cardinality(CountedIn(k)) <= Count(k)

\* Among any requests counted within a window and not limited there is one, the last
\* counted, whose limit had room for all of them. It is stated for every subset because a
\* request may still turn out to be over the limit of its other window.
RoomForAll ==
    \A k \in Keys : \A T \in SUBSET (CountedIn(k) \ limited) :
        T # {} => \E r \in T : \E c \in InTime(r, k) : Cardinality(T) <= c.limit

QuotaInv == OutlivesWindow /\ CountedTyped /\ Begun /\ CountsAll /\ RoomForAll

LEMMA CountedFinite ==
    ASSUME CountedTyped, NEW k
    PROVE  IsFiniteSet(CountedIn(k)) /\ Cardinality(CountedIn(k)) \in Nat
<1>1. CountedIn(k) \subseteq {r \in Requests : counted[r] # {}}
    BY DEF CountedIn, InTime
<1> QED
    BY <1>1, FS_Subset, FS_CardinalityType DEF CountedTyped

\* What was counted is left alone.
LEMMA CountedKept ==
    ASSUME UNCHANGED counted
    PROVE  /\ \A k, r : InTime(r, k)' = InTime(r, k)
           /\ \A k : CountedIn(k)' = CountedIn(k)
BY Zenon DEF InTime, CountedIn, Ticks

LEMMA RoomKept ==
    ASSUME RoomForAll, UNCHANGED <<counted, limited>>
    PROVE  RoomForAll'
<1>1. \A k, r : InTime(r, k)' = InTime(r, k)
    BY CountedKept
<1>2. \A k : CountedIn(k)' = CountedIn(k)
    BY CountedKept
<1> SUFFICES ASSUME NEW k \in Keys, NEW T \in SUBSET (CountedIn(k)' \ limited'), T # {}
             PROVE  \E r \in T : \E c \in InTime(r, k)' : Cardinality(T) <= c.limit
    BY Zenon DEF RoomForAll
<1>3. T \in SUBSET (CountedIn(k) \ limited)
    BY <1>2
<1>4. \E r \in T : \E c \in InTime(r, k) : Cardinality(T) <= c.limit
    BY <1>3, Zenon DEF RoomForAll
<1> QED
    BY <1>1, <1>4, Zenon

\* The quotas and what was counted in them are left alone.
LEMMA QuotaKept ==
    ASSUME QuotaInv, UNCHANGED <<now, counters, counted, limited>>, Begun'
    PROVE  QuotaInv'
<1>1. OutlivesWindow'
    BY Zenon DEF QuotaInv, OutlivesWindow, Ticks
<1>2. CountedTyped'
    BY Zenon DEF QuotaInv, CountedTyped
<1>3. \A k : Count(k)' = Count(k) /\ current_window(k.window)' = current_window(k.window)
    BY Zenon DEF Count, current_window
<1>4. CountsAll'
    BY <1>3, CountedKept, Zenon DEF QuotaInv, CountsAll
<1>5. RoomForAll'
    BY RoomKept DEF QuotaInv
<1> QED
    BY <1>1, <1>2, <1>4, <1>5, Zenon DEF QuotaInv

\* No key is built: every request at its call was there before.
LEMMA BegunKept ==
    ASSUME QuotaInv, UNCHANGED <<now, counted>>,
           \A r \in Requests : pc'[r] = "incr" =>
                pc[r] = "incr" /\ checks'[r] = checks[r] /\ number'[r] = number[r]
    PROVE  Begun'
BY Zenon DEF QuotaInv, Begun, current_window

\* The script counts one more in its key, and a new counter outlives its window.
LEMMA IncrCounts ==
    ASSUME NEW k, incr_with_ttl(k)
    PROVE  Count(k)' = Count(k) + 1 /\ \A j : j # k => Count(j)' = Count(j)
<1>1. DOMAIN counters' = DOMAIN counters \cup {k}
    BY DEF incr_with_ttl
<1>2. counters'[k].count = Count(k) + 1
    BY DEF incr_with_ttl
<1>3. \A j \in DOMAIN counters : j # k => counters'[j] = counters[j]
    BY DEF incr_with_ttl
<1>4. \A j : j # k => Count(j)' = Count(j)
    BY <1>1, <1>3, Zenon DEF Count
<1>5. Count(k)' = Count(k) + 1
  <2>1. Count(k)' = counters'[k].count
    BY <1>1, Zenon DEF Count
  <2> QED
    BY <1>2, <2>1, Zenon
<1> QED
    BY <1>4, <1>5, Zenon

LEMMA IncrOutlives ==
    ASSUME OutlivesWindow, CountersOK, NEW k \in Keys, k.number <= current_window(k.window),
           incr_with_ttl(k), UNCHANGED now
    PROVE  OutlivesWindow'
<1>1. DOMAIN counters' = DOMAIN counters \cup {k}
    BY DEF incr_with_ttl
<1>2. \A j \in DOMAIN counters : counters'[j].expires = counters[j].expires
    BY DEF incr_with_ttl
<1>3. ASSUME k \notin DOMAIN counters
      PROVE  /\ counters'[k].expires \in Nat
             /\ (k.number + 1) * Ticks(k.window) <= counters'[k].expires
  <2>1. counters'[k].expires = now + TtlOf(k.window)
    BY <1>3 DEF incr_with_ttl
  <2>2. PICK t \in Nat \ {0} : t = Ticks(k.window)
    BY TicksTyped
  <2>3. PICK n \in Nat : n = now
    BY DEF CountersOK
  <2>4. PICK m \in Nat : m = n \div t /\ m * t <= n
    BY WindowOfMoment
  <2>5. PICK i \in Nat : i = k.number /\ i <= m
    BY <2>2, <2>3, <2>4 DEF current_window, Keys
  <2>6. (i + 1) * t <= n + t
    BY <2>4, <2>5, LaterWindow
  <2>7. counters'[k].expires = n + t
    BY <2>1, <2>2, <2>3 DEF TtlOf
  <2> QED
    BY <2>2, <2>5, <2>6, <2>7
<1> QED
    BY <1>1, <1>2, <1>3, Zenon DEF OutlivesWindow

\* The key a request has built is that of a window that has begun.
LEMMA KeyOfRequest ==
    ASSUME TypeInv, Begun, NEW r \in Requests, pc[r] = "incr", NEW k, k = KeyOf(r)
    PROVE  k \in Keys /\ k.number <= current_window(k.window)
<1>1. PICK w \in Windows : w = Head(checks[r]).window
    BY WindowTyped, Zenon
<1>2. PICK c \in Callers, a \in PlanActions : c = Caller(r) /\ a = Action(r)
    BY PlanTyped, Zenon DEF TypeInv, TypeOK
<1>3. PICK n \in Nat : n = number[r]
    BY DEF TypeInv, TypeOK
<1>4. k = [caller |-> c, action |-> a, window |-> w, number |-> n]
    BY <1>1, <1>2, <1>3, Zenon DEF Key, KeyOf
<1>5. k \in Keys /\ k.window = w /\ k.number = n
    BY <1>4 DEF Keys
<1> QED
    BY <1>1, <1>3, <1>5, Zenon DEF Begun

\* The clock is read: the window of the key is the current one.
LEMMA BuildKeyQuota ==
    ASSUME TypeInv, QuotaInv, NEW r \in Requests, BuildKey(r)
    PROVE  QuotaInv'
<1>1. /\ UNCHANGED <<now, counters, checks, counted, limited>>
      /\ pc' = [pc EXCEPT ![r] = "incr"]
      /\ number' = [number EXCEPT ![r] = current_window(Head(checks[r]).window)]
    BY DEF BuildKey, Goto, limiter
<1>2. pc \in [Requests -> {"new", "check", "incr", "handler", "send", "push", "done"}]
      /\ number \in [Requests -> Nat]
    BY DEF TypeInv, TypeOK
<1>3. \A w : current_window(w)' = current_window(w)
    BY <1>1, Zenon DEF current_window
<1>4. PICK n \in Nat : n = current_window(Head(checks[r]).window)
    BY CurrentTyped
<1>5. \A q \in Requests : pc'[q] = "incr" => number'[q] <= current_window(Head(checks[q]).window)
  <2> TAKE q \in Requests
  <2>1. CASE q = r
    BY <1>1, <1>2, <1>4, <2>1
  <2>2. CASE q # r
    BY <1>1, <1>2, <2>2 DEF QuotaInv, Begun
  <2> QED
    BY <2>1, <2>2
<1>6. Begun'
    BY <1>1, <1>3, <1>5, Zenon DEF QuotaInv, Begun
<1> QED
    BY <1>1, <1>6, QuotaKept

\* A call that fails may count a request nobody remembers.
LEMMA IncrFailsQuota ==
    ASSUME TypeInv, QuotaInv, NEW r \in Requests, IncrFails(r)
    PROVE  QuotaInv'
<1>1. /\ pc[r] = "incr" /\ UNCHANGED <<now, counted, limited>>
      /\ pc' = [pc EXCEPT ![r] = "done"]
      /\ checks' = [checks EXCEPT ![r] = <<>>] /\ number' = [number EXCEPT ![r] = 0]
    BY DEF IncrFails, Goto
<1>2. Begun'
  <2>1. \A q \in Requests : pc'[q] = "incr" =>
            pc[q] = "incr" /\ checks'[q] = checks[q] /\ number'[q] = number[q]
    BY <1>1 DEF TypeInv, TypeOK
  <2> QED
    BY <1>1, <2>1, BegunKept
<1>3. PICK k : k = KeyOf(r)
    BY Zenon
<1>4. incr_with_ttl(k) \/ UNCHANGED counters
    BY <1>3, Zenon DEF IncrFails
<1>5. CASE UNCHANGED counters
    BY <1>1, <1>2, <1>5, QuotaKept
<1>6. CASE incr_with_ttl(k)
  <2>1. k \in Keys /\ k.number <= current_window(k.window)
    BY <1>1, <1>3, KeyOfRequest, Zenon DEF QuotaInv
  <2>2. OutlivesWindow'
    BY <1>1, <1>6, <2>1, IncrOutlives DEF QuotaInv, TypeInv, TypeOK
  <2>3. CountedTyped'
    BY <1>1, Zenon DEF QuotaInv, CountedTyped
  <2>4. \A j : current_window(j.window)' = current_window(j.window)
    BY <1>1, Zenon DEF current_window
  <2>5. \A j : CountedIn(j)' = CountedIn(j)
    BY <1>1, CountedKept
  <2>6. ASSUME NEW j \in Keys, j.number = current_window(j.window)
        PROVE  Cardinality(CountedIn(j)) <= Count(j)'
    <3>1. Cardinality(CountedIn(j)) \in Nat
      BY CountedFinite DEF QuotaInv
    <3>2. Count(j) \in Nat
      BY CountTyped, Zenon
    <3>3. Count(j)' = Count(j) \/ Count(j)' = Count(j) + 1
      BY <1>6, IncrCounts, Zenon
    <3>4. Cardinality(CountedIn(j)) <= Count(j)
      BY <2>6 DEF QuotaInv, CountsAll
    <3> QED
      BY <3>1, <3>2, <3>3, <3>4
  <2>7. CountsAll'
    BY <2>4, <2>5, <2>6, Zenon DEF CountsAll
  <2>8. RoomForAll'
    BY <1>1, RoomKept DEF QuotaInv
  <2> QED
    BY <1>2, <2>2, <2>3, <2>7, <2>8, Zenon DEF QuotaInv
<1> QED
    BY <1>4, <1>5, <1>6

\* A new window starts with nothing counted in it; the counter of a window that goes on
\* has not expired.
LEMMA ClockQuota ==
    ASSUME TypeInv, QuotaInv, Clock
    PROVE  QuotaInv'
<1>1. UNCHANGED <<pc, checks, number, counted, limited>>
    BY DEF Clock, requests
<1>2. PICK n \in Nat : n = now /\ now' = n + 1
    BY NowTyped, Zenon DEF Clock, Tick
<1>3. /\ DOMAIN counters' = {j \in DOMAIN counters : counters[j].expires > n + 1}
      /\ \A j \in DOMAIN counters' : counters'[j] = counters[j]
    BY <1>2 DEF Clock, Tick
<1>4. OutlivesWindow'
    BY <1>3, Zenon DEF QuotaInv, OutlivesWindow, Ticks
<1>5. \A w : /\ current_window(w) \in Nat /\ current_window(w)' \in Nat
             /\ current_window(w) <= current_window(w)'
             /\ n + 1 < (current_window(w)' + 1) * Ticks(w)
  <2> TAKE w
  <2>1. PICK t \in Nat \ {0} : t = Ticks(w)
    BY TicksTyped
  <2>2. current_window(w) = n \div t /\ current_window(w)' = (n + 1) \div t
    BY <1>2, <2>1 DEF current_window, Ticks
  <2>3. n + 1 \in Nat
    OBVIOUS
  <2> QED
    BY <2>1, <2>2, <2>3, WindowOfMoment, Zenon
<1>6. CountedTyped'
    BY <1>1, Zenon DEF QuotaInv, CountedTyped
<1>7. Begun'
  <2>1. ASSUME NEW w, NEW m \in Nat, m <= current_window(w)
        PROVE  m <= current_window(w)'
    <3>1. PICK a \in Nat, b \in Nat : a = current_window(w) /\ b = current_window(w)' /\ a <= b
      BY <1>5, Zenon
    <3> QED
      BY <2>1, <3>1
  <2>2. number \in [Requests -> Nat]
    BY DEF TypeInv, TypeOK
  <2>3. \A r \in Requests : \A c \in counted[r] : c.key.number \in Nat
    BY DEF QuotaInv, CountedTyped, Entries, Keys
  <2> QED
    BY <1>1, <2>1, <2>2, <2>3, Zenon DEF QuotaInv, Begun
<1>8. \A j : CountedIn(j)' = CountedIn(j)
    BY <1>1, CountedKept
<1>9. ASSUME NEW k \in Keys, k.number = current_window(k.window)'
      PROVE  Cardinality(CountedIn(k)) <= Count(k)'
  <2>1. k.number \in Nat
    BY DEF Keys
  <2>2. CASE k.number = current_window(k.window)
    <3>1. Cardinality(CountedIn(k)) <= Count(k)
      BY <2>2 DEF QuotaInv, CountsAll
    <3>2. k \in DOMAIN counters => k \in DOMAIN counters'
      <4> SUFFICES ASSUME k \in DOMAIN counters
                   PROVE  counters[k].expires > n + 1
        BY <1>3
      <4>1. PICK e \in Nat : e = counters[k].expires /\ (k.number + 1) * Ticks(k.window) <= e
        BY DEF QuotaInv, OutlivesWindow
      <4>2. n + 1 < (k.number + 1) * Ticks(k.window)
        BY <1>5, <1>9
      <4>3. PICK t \in Nat : t = (k.number + 1) * Ticks(k.window)
        BY <2>1, TicksTyped
      <4> QED
        BY <4>1, <4>2, <4>3
    <3>3. k \in DOMAIN counters' => k \in DOMAIN counters /\ counters'[k] = counters[k]
      BY <1>3
    <3>4. Count(k)' = Count(k)
      BY <3>2, <3>3, Zenon DEF Count
    <3> QED
      BY <3>1, <3>4
  <2>3. CASE k.number # current_window(k.window)
    <3>1. PICK a \in Nat : a = current_window(k.window) /\ a < k.number
      BY <1>5, <1>9, <2>1, <2>3
    <3>2. CountedIn(k) = {}
      BY <2>1, <3>1 DEF QuotaInv, Begun, CountedIn, InTime
    <3>3. Cardinality(CountedIn(k)) = 0
      BY <3>2, FS_EmptySet, Zenon
    <3>4. Count(k)' \in Nat
      BY ClockTyped, CountTyped, Zenon
    <3> QED
      BY <3>3, <3>4
  <2> QED
    BY <2>2, <2>3
<1>10. CountsAll'
    BY <1>8, <1>9, Zenon DEF CountsAll
<1>11. RoomForAll'
    BY <1>1, RoomKept DEF QuotaInv
<1> QED
    BY <1>4, <1>6, <1>7, <1>10, <1>11, Zenon DEF QuotaInv

\* The request that is counted last is let through only if its limit has room for all that
\* were counted before it. An increment after the window of its key counts for no window.
LEMMA IncrWindowQuota ==
    ASSUME TypeInv, QuotaInv, NEW r \in Requests, IncrWindow(r)
    PROVE  QuotaInv'
<1>0. pc[r] = "incr"
    BY DEF IncrWindow
<1>1. PICK k : k = KeyOf(r)
    BY Zenon
<1>2. k \in Keys /\ k.number <= current_window(k.window) /\ k.number \in Nat
  <2>1. k \in Keys /\ k.number <= current_window(k.window)
    BY <1>0, <1>1, KeyOfRequest, Zenon DEF QuotaInv
  <2> QED
    BY <2>1 DEF Keys
<1>3. PICK l \in Nat : l = Head(checks[r]).limit
    BY <1>0, WindowTyped
<1>4. PICK n \in Nat : n = now
    BY NowTyped
<1>5. /\ incr_with_ttl(k)
      /\ limited' = IF Count(k) + 1 > l THEN limited \cup {r} ELSE limited
      /\ counted' = [counted EXCEPT ![r] = @ \cup {[key |-> k, limit |-> l, at |-> n]}]
      /\ UNCHANGED now
    BY <1>1, <1>3, <1>4, Zenon DEF IncrWindow
<1>6. PICK c0 \in Entries :
        c0 = [key |-> k, limit |-> l, at |-> n] /\ c0.key = k /\ c0.limit = l /\ c0.at = n
  <2>1. \A a \in Keys, b \in Nat, m \in Nat :
            /\ [key |-> a, limit |-> b, at |-> m] \in Entries
            /\ [key |-> a, limit |-> b, at |-> m].key = a
            /\ [key |-> a, limit |-> b, at |-> m].limit = b
            /\ [key |-> a, limit |-> b, at |-> m].at = m
    BY DEF Entries
  <2>2. PICK x : x = [key |-> k, limit |-> l, at |-> n]
    BY Zenon
  <2>3. x \in Entries /\ x.key = k /\ x.limit = l /\ x.at = n
    BY <1>2, <2>1, <2>2
  <2> QED
    BY <2>2, <2>3, Zenon
<1>7. /\ \A q \in Requests : counted'[q] = IF q = r THEN counted[q] \cup {c0} ELSE counted[q]
      /\ counted' \in [Requests -> SUBSET Entries]
    BY <1>5, <1>6, Zenon DEF QuotaInv, CountedTyped
<1>8. OutlivesWindow'
    BY <1>2, <1>5, IncrOutlives DEF QuotaInv, TypeInv, TypeOK
<1>9. CountedTyped'
  <2>1. {q \in Requests : counted'[q] # {}} = {q \in Requests : counted[q] # {}} \cup {r}
    BY <1>7
  <2>2. PICK U : U = {q \in Requests : counted[q] # {}}
    BY Zenon
  <2>3. IsFiniteSet(U)
    BY <2>2, Zenon DEF QuotaInv, CountedTyped
  <2>4. IsFiniteSet(U \cup {r})
    BY <2>3, FS_AddElement, Zenon
  <2> QED
    BY <1>7, <2>1, <2>2, <2>4, Zenon DEF CountedTyped
<1>10. \A w : current_window(w)' = current_window(w)
    BY <1>5, Zenon DEF current_window
<1>11. Begun'
  <2>1. \A q \in Requests : pc'[q] = "incr" =>
            pc[q] = "incr" /\ checks'[q] = checks[q] /\ number'[q] = number[q]
    <3>1. PICK label \in {"check", "handler", "done"} : pc' = [pc EXCEPT ![r] = label]
      BY Zenon DEF IncrWindow, Goto
    <3>2. PICK t : checks' = [checks EXCEPT ![r] = t] /\ number' = [number EXCEPT ![r] = 0]
      BY Zenon DEF IncrWindow
    <3> QED
      BY <3>1, <3>2 DEF TypeInv, TypeOK
  <2>2. \A q \in Requests : pc'[q] = "incr" => number'[q] <= current_window(Head(checks'[q]).window)
    BY <2>1, Zenon DEF QuotaInv, Begun
  <2>3. \A q \in Requests : \A c \in counted'[q] : c.key.number <= current_window(c.key.window)
    BY <1>2, <1>6, <1>7, Zenon DEF QuotaInv, Begun
  <2> QED
    BY <1>10, <2>2, <2>3, Zenon DEF Begun
<1>12. /\ \A q \in Requests : \A j : InTime(q, j) \subseteq InTime(q, j)'
       /\ \A j : j # k \/ k.number # current_window(k.window) => CountedIn(j)' = CountedIn(j)
       /\ CountedIn(k)' \subseteq CountedIn(k) \cup {r}
       /\ k.number = current_window(k.window) => c0 \in InTime(r, k)'
  <2>1. \A q, j : InTime(q, j)' = {c \in counted'[q] : c.key = j /\ c.at \div Ticks(j.window) = j.number}
    BY Zenon DEF InTime, Ticks
  <2>2. c0.at \div Ticks(k.window) = current_window(k.window)
    BY <1>4, <1>6, Zenon DEF current_window
  <2>3. \A q \in Requests : \A j : InTime(q, j) \subseteq InTime(q, j)'
    BY <1>7, <2>1, Zenon DEF InTime
  <2>4. \A q \in Requests : \A j : q # r \/ j # k \/ k.number # current_window(k.window) =>
            InTime(q, j)' = InTime(q, j)
    BY <1>6, <1>7, <2>1, <2>2, Zenon DEF InTime
  <2>5. k.number = current_window(k.window) => c0 \in InTime(r, k)'
    BY <1>6, <1>7, <2>1, <2>2, Zenon
  <2>6. \A j : j # k \/ k.number # current_window(k.window) => CountedIn(j)' = CountedIn(j)
    BY <2>4, Zenon DEF CountedIn
  <2>7. CountedIn(k)' \subseteq CountedIn(k) \cup {r}
    BY <2>4, Zenon DEF CountedIn
  <2> QED
    BY <2>3, <2>5, <2>6, <2>7, Zenon
<1>13. Count(k) \in Nat /\ Count(k)' = Count(k) + 1 /\ \A j : j # k => Count(j)' = Count(j)
    BY <1>5, CountTyped, IncrCounts, Zenon
<1>14. ASSUME k.number = current_window(k.window)
       PROVE  /\ IsFiniteSet(CountedIn(k)') /\ Cardinality(CountedIn(k)') \in Nat
              /\ Cardinality(CountedIn(k)') <= Count(k) + 1
  <2>1. IsFiniteSet(CountedIn(k)) /\ Cardinality(CountedIn(k)) \in Nat
    BY CountedFinite DEF QuotaInv
  <2>2. /\ IsFiniteSet(CountedIn(k) \cup {r})
        /\ Cardinality(CountedIn(k) \cup {r}) \in
                {Cardinality(CountedIn(k)), Cardinality(CountedIn(k)) + 1}
    BY <2>1, FS_AddElement
  <2>3. Cardinality(CountedIn(k)) <= Count(k)
    BY <1>2, <1>14 DEF QuotaInv, CountsAll
  <2>4. /\ IsFiniteSet(CountedIn(k)') /\ Cardinality(CountedIn(k)') \in Nat
        /\ Cardinality(CountedIn(k)') <= Cardinality(CountedIn(k) \cup {r})
    BY <1>12, <2>2, FS_Subset, FS_CardinalityType, Zenon
  <2> QED
    BY <1>13, <2>1, <2>2, <2>3, <2>4
<1>15. CountsAll'
  <2>1. ASSUME NEW j \in Keys, j.number = current_window(j.window)
        PROVE  Cardinality(CountedIn(j)') <= Count(j)'
    <3>1. CASE j = k
      BY <1>13, <1>14, <2>1, <3>1
    <3>2. CASE j # k
      BY <1>12, <1>13, <2>1, <3>2, Zenon DEF QuotaInv, CountsAll
    <3> QED
      BY <3>1, <3>2
  <2> QED
    BY <1>10, <2>1, Zenon DEF CountsAll
<1>16. RoomForAll'
  <2> SUFFICES ASSUME NEW j \in Keys, NEW T \in SUBSET (CountedIn(j)' \ limited'), T # {}
               PROVE  \E q \in T : \E c \in InTime(q, j)' : Cardinality(T) <= c.limit
    BY Zenon DEF RoomForAll
  <2>1. CASE j = k /\ r \in T /\ k.number = current_window(k.window)
    <3>1. r \notin limited' /\ c0 \in InTime(r, k)'
      BY <1>12, <2>1
    <3>2. Count(k) + 1 <= l
      <4>1. ~(Count(k) + 1 > l)
        BY <1>5, <3>1
      <4> QED
        BY <1>13, <4>1
    <3>3. Cardinality(T) \in Nat /\ Cardinality(T) <= Cardinality(CountedIn(k)')
      <4>1. T \in SUBSET CountedIn(k)'
        BY <2>1
      <4> QED
        BY <1>14, <2>1, <4>1, FS_Subset, FS_CardinalityType, Zenon
    <3>4. Cardinality(T) <= l
      BY <1>13, <1>14, <2>1, <3>2, <3>3
    <3> QED
      BY <1>6, <2>1, <3>1, <3>4, Zenon
  <2>2. CASE j # k \/ r \notin T \/ k.number # current_window(k.window)
    <3>1. T \subseteq CountedIn(j)
      BY <1>12, <2>2
    <3>2. T \subseteq CountedIn(j) \ limited
      BY <1>5, <3>1
    <3>3. PICK q \in T : \E c \in InTime(q, j) : Cardinality(T) <= c.limit
      BY <3>2 DEF QuotaInv, RoomForAll
    <3>4. q \in Requests
      BY <3>1, Zenon DEF CountedIn
    <3> QED
      BY <1>12, <3>3, <3>4, Zenon
  <2> QED
    BY <2>1, <2>2, Zenon
<1> QED
    BY <1>8, <1>9, <1>11, <1>15, <1>16, Zenon DEF QuotaInv

LEMMA QuotaStep == TypeInv /\ QuotaInv /\ [Next]_vars => QuotaInv'
<1> SUFFICES ASSUME TypeInv, QuotaInv, [Next]_vars
             PROVE  QuotaInv'
    OBVIOUS
<1>1. ASSUME UNCHANGED <<now, counters, pc, checks, number, counted, limited>>
      PROVE  QuotaInv'
    BY <1>1, BegunKept, QuotaKept, Zenon
<1>2. ASSUME NEW r \in Requests, NEW label, label # "incr", Goto(r, label),
             pc[r] \notin {"check", "incr"}, UNCHANGED <<now, counters, number, counted, limited>>,
             \A q \in Requests : q # r => checks'[q] = checks[q]
      PROVE  QuotaInv'
  <2>1. \A q \in Requests : pc'[q] = "incr" => q # r /\ pc[q] = "incr"
    BY <1>2, Zenon DEF Goto, TypeInv, TypeOK
  <2>2. \A q \in Requests : pc'[q] = "incr" =>
            pc[q] = "incr" /\ checks'[q] = checks[q] /\ number'[q] = number[q]
    BY <1>2, <2>1, Zenon
  <2>3. Begun'
    BY <1>2, <2>2, BegunKept
  <2> QED
    BY <1>2, <2>3, QuotaKept
<1>3. ASSUME NEW r \in Requests, NEW limits, Arrive(r, limits)
      PROVE  QuotaInv'
  <2>1. PICK label \in {"check", "done"} : Goto(r, label)
    BY <1>3, Zenon DEF Arrive
  <2>2. \A q \in Requests : q # r => checks'[q] = checks[q]
    BY <1>3 DEF Arrive, TypeInv, TypeOK
  <2>3. pc[r] = "new" /\ UNCHANGED <<now, counters, number, counted, limited>>
    BY <1>3 DEF Arrive, limiter
  <2> QED
    BY <1>2, <2>1, <2>2, <2>3
<1>4. ASSUME NEW r \in Requests, Handler(r) \/ TrySend(r) \/ Sent(r)
      PROVE  QuotaInv'
  <2>1. PICK label \in {"send", "push", "done"} : Goto(r, label)
    BY <1>4, Zenon DEF Handler, Then, TrySend, Sent
  <2>2. pc[r] \in {"handler", "send", "push"}
    BY <1>4, Zenon DEF Handler, Then, TrySend, Sent
  <2>3. UNCHANGED <<now, counters, checks, number, counted, limited>>
    BY <1>4, Zenon DEF Handler, Then, TrySend, Sent, limiter
  <2> QED
    BY <1>2, <2>1, <2>2, <2>3, Zenon
<1>5. ASSUME TableStep \/ Worker
      PROVE  QuotaInv'
    BY <1>1, <1>5, Zenon DEF TableStep, Worker, limiter, requests
<1>6. ASSUME shutdown_signal \/ join_background_tasks \/ Exit
      PROVE  QuotaInv'
    BY <1>1, <1>6, Zenon DEF shutdown_signal, join_background_tasks, Exit, limiter, requests
<1> QED
    BY <1>3, <1>4, <1>5, <1>6, StepKinds, BuildKeyQuota, IncrWindowQuota, IncrFailsQuota,
       ClockQuota, Zenon

LEMMA InitQuota == Init => QuotaInv
<1> SUFFICES ASSUME Init
             PROVE  QuotaInv
    OBVIOUS
<1>1. DOMAIN counters = {} /\ \A k : Count(k) = 0
    BY DEF Init, InitCounters, Count
<1>2. OutlivesWindow
    BY <1>1 DEF OutlivesWindow
<1>3. /\ \A r \in Requests : counted[r] = {} /\ pc[r] # "incr"
      /\ counted \in [Requests -> SUBSET Entries]
    BY DEF Init
<1>4. CountedTyped
  <2>1. {r \in Requests : counted[r] # {}} = {}
    BY <1>3
  <2> QED
    BY <1>3, <2>1, FS_EmptySet, Zenon DEF CountedTyped
<1>5. Begun
    BY <1>3 DEF Begun
<1>6. \A k : CountedIn(k) = {}
    BY <1>3 DEF CountedIn, InTime
<1>7. CountsAll
  <2>1. Cardinality({}) <= 0
    BY FS_EmptySet
  <2> QED
    BY <1>1, <1>6, <2>1, Zenon DEF CountsAll
<1>8. RoomForAll
    BY <1>6 DEF RoomForAll
<1> QED
    BY <1>2, <1>4, <1>5, <1>7, <1>8, Zenon DEF QuotaInv

LEMMA QuotaSuffices == TypeInv /\ QuotaInv => AdmittedWithinLimit
<1> SUFFICES ASSUME TypeInv, QuotaInv,
                    NEW k \in {c.key : c \in UNION {counted[r] : r \in admitted}},
                    {r \in admitted : InTime(r, k) # {}} # {}
             PROVE  \E r \in {q \in admitted : InTime(q, k) # {}} : \E c \in InTime(r, k) :
                        Cardinality({q \in admitted : InTime(q, k) # {}}) <= c.limit
    BY Zenon DEF AdmittedWithinLimit
<1> DEFINE through == {r \in admitted : InTime(r, k) # {}}
<1>1. admitted \subseteq Requests \ limited
    BY Zenon DEF TypeInv, TypeOK
<1>2. PICK q \in admitted : \E c \in counted[q] : c.key = k
    OBVIOUS
<1>3. k \in Keys
    BY <1>1, <1>2, SMTT(20) DEF QuotaInv, CountedTyped, Entries
<1>4. through \in SUBSET (CountedIn(k) \ limited) /\ through # {}
    BY <1>1 DEF CountedIn
<1> HIDE DEF through
<1>5. \E r \in through : \E c \in InTime(r, k) : Cardinality(through) <= c.limit
    BY <1>3, <1>4, Zenon DEF QuotaInv, RoomForAll
<1> QED
    BY <1>5, Zenon DEF through

\* In every window the requests of a caller that were let through on an INCR within the
\* window are no more than one of them was allowed, for any limits, any number of requests
\* and callers, any trust levels they move between and any interleaving of their key
\* building and their increments, late and failed ones included: INCR_WITH_TTL_SCRIPT
\* closes the race between the check and the increment.
THEOREM WithinLimit == Spec => []AdmittedWithinLimit
<1>1. Init => QuotaInv
    BY InitQuota
<1>2. TypeInv /\ QuotaInv /\ [Next]_vars => QuotaInv'
    BY QuotaStep
<1>3. TypeInv /\ QuotaInv => AdmittedWithinLimit
    BY QuotaSuffices
<1> QED
    BY <1>1, <1>2, <1>3, TypeInductive, PTL DEF Spec

=============================================================================
