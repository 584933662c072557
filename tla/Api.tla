-------------------------------- MODULE Api ---------------------------------
(***************************************************************************)
(* The API process: requests that pass the rate limit, change a table and  *)
(* queue a notification, the notification worker, and the shutdown of      *)
(* main.rs. It composes RateLimiter and Notifications.                     *)
(*                                                                         *)
(* A request is sent once. What it asks for comes from a plan. All requests *)
(* concern the same Owner: its posts and stories are liked, commented on   *)
(* and reacted to, and it is followed. Who may see a post, and the limits  *)
(* of follows, belong to SocialGraph and Stories; the trust levels change  *)
(* as Trust lets them; logins and signups end, for this module, with the   *)
(* rate limit.                                                             *)
(***************************************************************************)
EXTENDS RateLimiter, Notifications

CONSTANTS
    Requests,
    Owner,    \* the caller whose content the requests are about
    Plans,    \* assignments of a caller and an operation to every request
    Levels    \* the trust levels the callers move between

\* rate_limit_action and the action names of ip_rate_limit_config, for the operations of
\* the plans.
rate_limit_action ==
    [like_post |-> "like", comment_post |-> "comment", follow_user |-> "follow",
     add_story_reaction |-> "like", login |-> "login"]

ASSUME OwnerAssumption == Owner \in Callers
ASSUME LevelsAssumption == Levels \subseteq TrustLevels /\ 0 \in Levels
ASSUME JobsAssumption == Jobs = Requests
ASSUME PlansAssumption ==
    Plans \subseteq [Requests -> [caller : Callers, operation : DOMAIN rate_limit_action]]

VARIABLES
    plan,      \* what each request asks for
    level,     \* trust level of each caller
    liked,     \* callers with a row of likes
    followed,  \* callers who follow the owner
    exists,    \* the post and the story still exist
    pc,        \* next step of each request
    checks,    \* the limits it has yet to be checked against
    number,    \* the number of the window in the key it is about to increment
    limited,   \* requests over the limit in one of their windows
    main,      \* step of main
    \* history:
    counted,   \* the keys each request was counted in, when, and the limits it was held to
    admitted,  \* requests that were let through to their handler
    accepted,  \* requests whose try_send returned Ok before the shutdown signal
    timedOut   \* the join of the background tasks timed out

tables == <<liked, followed, exists, level>>
requests == <<plan, pc, checks, number, limited, counted, admitted>>
limiter == <<now, counters>>
process == <<main, timedOut>>
vars == <<limiter, channel, workerVars, tables, requests, process, accepted>>

TypeOK ==
    /\ CountersOK
    /\ NotificationsOK
    /\ plan \in Plans
    /\ level \in [Callers -> Levels]
    /\ liked \in SUBSET Callers /\ followed \in SUBSET Callers
    /\ exists \in BOOLEAN
    /\ pc \in [Requests -> {"new", "check", "incr", "handler", "send", "push", "done"}]
    /\ checks \in [Requests -> Seq([limit : Nat, window : {"Hour", "Day"}])]
    /\ \A r \in Requests : (checks[r] # <<>>) <=> pc[r] \in {"check", "incr"}
    /\ number \in [Requests -> Nat]
    /\ permits = {r \in Requests : pc[r] = "push"}
    /\ admitted \in SUBSET (Requests \ limited) /\ limited \in SUBSET Requests
    /\ accepted \in SUBSET admitted
    /\ main \in {"serving", "joining", "closing", "exited"}
    /\ timedOut \in BOOLEAN

Init ==
    /\ plan \in Plans
    /\ InitCounters
    /\ InitNotifications
    /\ level = [c \in Callers |-> 0]
    /\ liked = {} /\ followed = {} /\ exists = TRUE
    /\ pc = [r \in Requests |-> "new"]
    /\ checks = [r \in Requests |-> <<>>]
    /\ number = [r \in Requests |-> 0]
    /\ limited = {}
    /\ main = "serving" /\ timedOut = FALSE
    /\ counted = [r \in Requests |-> {}]
    /\ admitted = {} /\ accepted = {}

Caller(r) == plan[r].caller
Operation(r) == plan[r].operation

-----------------------------------------------------------------------------
(* The middleware. *)

Goto(r, label) == pc' = [pc EXCEPT ![r] = label]

Action(r) == rate_limit_action[Operation(r)]

\* A request arrives and will be checked against some limits.
Arrive(r, limits) ==
    /\ pc[r] = "new"
    /\ main \in {"serving", "joining"}
    /\ checks' = [checks EXCEPT ![r] = limits]
    /\ Goto(r, IF limits = <<>> THEN "done" ELSE "check")
    /\ UNCHANGED <<limiter, channel, workerVars, tables, plan, number, limited, counted,
                   admitted, process, accepted>>

\* The trust level of the user is read; an error of the database ends the request.
rate_limit_middleware(r) ==
    /\ Action(r) \in DOMAIN Checks
    /\ Arrive(r, for_trust_level(Action(r), level[Caller(r)])) \/ Arrive(r, <<>>)

ip_rate_limit_middleware(r) ==
    LET a == Action(r) IN
    /\ a \in DOMAIN ip_rate_limit_config
    /\ Arrive(r, <<[limit |-> IpLimit(a), window |-> ip_rate_limit_config[a]]>>)

\* The key is built from the clock. The call of Redis is awaited after it.
BuildKey(r) ==
    /\ pc[r] = "check"
    /\ number' = [number EXCEPT ![r] = current_window(Head(checks[r]).window)]
    /\ Goto(r, "incr")
    /\ UNCHANGED <<limiter, channel, workerVars, tables, plan, checks, limited, counted,
                   admitted, process, accepted>>

KeyOf(r) == Key(Caller(r), Action(r), Head(checks[r]).window, number[r])

\* Mutation of Through: the last window alone decides.
Through_LastWindow(r) ==
    Len(checks[r]) = 1 /\ Count(KeyOf(r)) + 1 <= Head(checks[r]).limit

\* r has been counted in its last window, and was over the limit in none.
Through(r) == Len(checks[r]) = 1 /\ r \notin limited'

\* Redis runs the script on the key that was built, whatever the time is by now. The
\* request goes on with its next window, or after the last one to its handler or the end.
IncrWindow(r) ==
    LET limit == Head(checks[r]).limit
        k == KeyOf(r)
    IN  /\ pc[r] = "incr"
        /\ incr_with_ttl(k)
        /\ limited' = IF Count(k) + 1 > limit THEN limited \cup {r} ELSE limited
        /\ counted' = [counted EXCEPT ![r] = @ \cup {[key |-> k, limit |-> limit, at |-> now]}]
        /\ checks' = [checks EXCEPT ![r] = Tail(@)]
        /\ number' = [number EXCEPT ![r] = 0]
        /\ Goto(r, IF Len(checks[r]) > 1 THEN "check" ELSE IF Through(r) THEN "handler" ELSE "done")
        /\ admitted' = IF Through(r) THEN admitted \cup {r} ELSE admitted
        /\ UNCHANGED <<now, channel, workerVars, tables, plan, process, accepted>>

\* One turn of the loop.
check_and_increment(r) == Action(r) \in DOMAIN Checks /\ (BuildKey(r) \/ IncrWindow(r))

check_and_increment_ip(r) ==
    Action(r) \in DOMAIN ip_rate_limit_config /\ (BuildKey(r) \/ IncrWindow(r))

\* The call fails, before Redis ran the script or after: the request is rejected.
IncrFails(r) ==
    /\ pc[r] = "incr"
    /\ incr_with_ttl(KeyOf(r)) \/ UNCHANGED counters
    /\ checks' = [checks EXCEPT ![r] = <<>>]
    /\ number' = [number EXCEPT ![r] = 0]
    /\ Goto(r, "done")
    /\ UNCHANGED <<now, channel, workerVars, tables, plan, limited, counted, admitted, process,
                   accepted>>

-----------------------------------------------------------------------------
(* The handlers. Each one changes a table and, if that did something, queues a job. A *)
(* post or story deleted after the visibility check fails the insert's foreign key.   *)

\* r goes on to try_send if its statement did something; any of its statements may fail.
Then(r, effect) ==
    /\ pc[r] = "handler"
    /\ \/ Goto(r, IF effect THEN "send" ELSE "done")
       \/ Goto(r, "done")
    /\ UNCHANGED <<limiter, channel, workerVars, level, exists, plan, checks, number,
                   limited, counted, admitted, process, accepted>>

\* INSERT ... ON CONFLICT DO NOTHING: created only if there was no row.
like_post(r) ==
    /\ Operation(r) = "like_post"
    /\ Then(r, exists /\ Caller(r) \notin liked)
    /\ liked' = IF pc'[r] = "send" THEN liked \cup {Caller(r)} ELSE liked
    /\ UNCHANGED followed

comment_post(r) ==
    /\ Operation(r) = "comment_post"
    /\ Then(r, exists)
    /\ UNCHANGED <<liked, followed>>

add_story_reaction(r) ==
    /\ Operation(r) = "add_story_reaction"
    /\ Then(r, exists)
    /\ UNCHANGED <<liked, followed>>

follow_user(r) ==
    /\ Operation(r) = "follow_user"
    /\ Then(r, Caller(r) # Owner /\ Caller(r) \notin followed)
    /\ followed' = IF pc'[r] = "send" THEN followed \cup {Caller(r)} ELSE followed
    /\ UNCHANGED liked

\* The handlers Sessions and Invites model.
Other(r) ==
    /\ Operation(r) = "login"
    /\ Then(r, FALSE)
    /\ UNCHANGED <<liked, followed>>

\* notification_tx.try_send: on Err the job is dropped and the request goes on.
TrySend(r) ==
    /\ pc[r] = "send"
    /\ \/ Reserve(r) /\ Goto(r, "push")
       \/ Refuse /\ Goto(r, "done")
    /\ UNCHANGED <<limiter, workerVars, tables, plan, checks, number, limited, counted,
                   admitted, process, accepted>>

Sent(r) ==
    /\ pc[r] = "push"
    /\ Push(r)
    /\ Goto(r, "done")
    /\ accepted' = IF main = "serving" THEN accepted \cup {r} ELSE accepted
    /\ UNCHANGED <<limiter, workerVars, tables, plan, checks, number, limited, counted,
                   admitted, process>>

unlike_post(c) ==
    /\ c \in liked
    /\ liked' = liked \ {c}
    /\ UNCHANGED <<limiter, channel, workerVars, level, followed, exists, requests, process,
                   accepted>>

\* delete_post, delete_story and the takedown: the likes go with the post. It matters to
\* requests other than follows and logins.
Remove ==
    /\ exists
    /\ \E r \in Requests : Operation(r) \in {"like_post", "comment_post", "add_story_reaction"}
    /\ exists' = FALSE /\ liked' = {}
    /\ UNCHANGED <<limiter, channel, workerVars, level, followed, requests, process, accepted>>

\* The trust level is recalculated, while a request may still read it.
Relevel(c, l) ==
    /\ \E r \in Requests : pc[r] = "new" /\ Caller(r) = c
    /\ level[c] # l
    /\ level' = [level EXCEPT ![c] = l]
    /\ UNCHANGED <<limiter, channel, workerVars, liked, followed, exists, requests, process,
                   accepted>>

\* Time passes, as long as a request may still be counted.
Clock ==
    /\ \E r \in Requests : pc[r] \in {"new", "check", "incr"}
    /\ Tick
    /\ UNCHANGED <<channel, workerVars, tables, requests, process, accepted>>

-----------------------------------------------------------------------------
(* The worker and the shutdown. *)

\* Jobs that process_job turns into a notification now.
Due == {r \in Requests : /\ Operation(r) # "follow_user" => exists
                         /\ Caller(r) # Owner}

Worker ==
    /\ main # "exited"
    /\ \/ Recv
       \/ main # "serving" /\ Cancelled
       \/ Drain
       \/ process_job(Due)
    /\ UNCHANGED <<limiter, tables, requests, process, accepted>>

\* shutdown_signal returns, and bg.cancel() is called. The listener still accepts.
shutdown_signal ==
    /\ main = "serving"
    /\ main' = "joining"
    /\ UNCHANGED <<limiter, channel, workerVars, tables, requests, timedOut, accepted>>

\* Mutation of join_background_tasks: the handle is awaited without a timeout.
join_background_tasks_NoTimeout ==
    /\ main = "joining" /\ worker = "stopped"
    /\ main' = "closing"
    /\ UNCHANGED <<limiter, channel, workerVars, tables, requests, timedOut, accepted>>

\* The worker has ended or ten seconds have passed; axum stops accepting.
join_background_tasks ==
    /\ main = "joining"
    /\ main' = "closing"
    /\ timedOut' = (worker # "stopped")
    /\ UNCHANGED <<limiter, channel, workerVars, tables, requests, accepted>>

\* The last request has been answered: main returns, and the runtime drops what still runs.
Exit ==
    /\ main = "closing"
    /\ \A r \in Requests : pc[r] \in {"new", "done"}
    /\ main' = "exited"
    /\ worker' = IF worker = "stopped" THEN worker ELSE "killed"
    /\ UNCHANGED <<limiter, channel, current, notified, processed, tables, requests, timedOut,
                   accepted>>

Main == join_background_tasks \/ Exit

Handle(r) ==
    \/ check_and_increment(r) \/ check_and_increment_ip(r) \/ IncrFails(r)
    \/ like_post(r) \/ comment_post(r) \/ add_story_reaction(r) \/ follow_user(r) \/ Other(r)
    \/ TrySend(r) \/ Sent(r)

Next ==
    \/ \E r \in Requests :
        rate_limit_middleware(r) \/ ip_rate_limit_middleware(r) \/ Handle(r)
    \/ \E c \in Callers : unlike_post(c) \/ \E l \in Levels : Relevel(c, l)
    \/ Remove
    \/ Clock
    \/ Worker
    \/ shutdown_signal
    \/ Main

\* A request that has arrived goes on, and so does main; the worker may hang in a query.
Spec == Init /\ [][Next]_vars /\ (\A r \in Requests : WF_vars(Handle(r))) /\ WF_vars(Main)

-----------------------------------------------------------------------------
(* Properties *)

\* What r was held to in the quota of key k, when its INCR ran within the window of k.
InTime(r, k) == {c \in counted[r] : c.key = k /\ c.at \div Ticks(k.window) = k.number}

\* In every window, the requests of a caller that were let through on an INCR within the
\* window are no more than one of them was allowed: concurrent requests, a trust level that
\* changes after it was read, failed calls and the end of a counter's time to live included
\* ("closes the check-then-increment race", INCR_WITH_TTL_SCRIPT). An INCR that reaches
\* Redis after the window of its key is not counted: see LateWithinLimit.
AdmittedWithinLimit ==
    \A k \in {c.key : c \in UNION {counted[r] : r \in admitted}} :
        LET through == {r \in admitted : InTime(r, k) # {}}
        IN  through # {} => \E r \in through : \E c \in InTime(r, k) : Cardinality(through) <= c.limit

\* The same for every request let through on the key of the window. It does not hold: the
\* key is built before the call, and an INCR on a key whose counter has expired returns 1.
LateWithinLimit ==
    \A k \in {c.key : c \in UNION {counted[r] : r \in admitted}} :
        LET through == {r \in admitted : \E c \in counted[r] : c.key = k}
        IN  \E c \in UNION {counted[r] : r \in through} : c.key = k /\ Cardinality(through) <= c.limit

\* "Rate limits use sliding window algorithm" (docs/API_INTEGRATION.md): no span of the
\* length of a window has more requests than one of them was allowed. It does not hold:
\* check_and_increment counts by the number of a fixed window.
SlidingWindow ==
    \A q \in admitted : \A c \in counted[q] :
        LET held(r) == {d \in counted[r] : /\ [d.key EXCEPT !.number = 0] = [c.key EXCEPT !.number = 0]
                                           /\ d.at \in c.at .. c.at + Ticks(c.key.window) - 1}
            span == {r \in admitted : held(r) # {}}
        IN  \E r \in span : \E d \in held(r) : Cardinality(span) <= d.limit

\* A notification accepted before the shutdown signal has been processed when the process
\* stops serving, unless the drain took more than the ten seconds main waits ("so
\* notifications accepted before shutdown aren't silently lost", run_notification_worker).
AcceptedProcessed ==
    main \in {"closing", "exited"} /\ ~timedOut => accepted \subseteq processed

\* After the shutdown signal the process ends, even if the worker hangs.
ShutdownEnds == main = "joining" ~> main = "exited"

=============================================================================
