---------------------------- MODULE RateLimiter -----------------------------
(***************************************************************************)
(* The request quotas: the windows app/rate_limiter.rs checks and the      *)
(* Redis counters it keeps. The limits are constants: what holds, holds    *)
(* for any table of config/rate_limits.rs. Windows are fixed: a counter    *)
(* belongs to the number of its window since the epoch. The clock advances *)
(* in ticks of half an hour, and a day has HoursPerDay hours; the time to  *)
(* live of a counter starts with its first increment, so that a counter    *)
(* started in its window outlives it.                                      *)
(***************************************************************************)
EXTENDS Integers, Sequences, FiniteSets

CONSTANTS
    Callers,              \* the users and the client addresses that send requests
    HoursPerDay,
    RateLimits(_, _, _),  \* the limit of an action in a window at a trust level
    IpLimit(_),           \* the limit of an action per client address
    MaxTime               \* bound on the ticks

ASSUME TimeAssumption == HoursPerDay \in Nat \ {0} /\ MaxTime \in Nat

TrustLevels == 0 .. 3   \* New, Basic, Trusted, Verified

VARIABLES
    now,       \* ticks since the model started; it started at the start of a window
    counters   \* the Redis counters, by key: count and the time they expire

-----------------------------------------------------------------------------
(* What is limited. *)

\* The windows check_and_increment looks at, in its order.
Checks ==
    [post |-> <<"Hour", "Day">>, follow |-> <<"Hour", "Day">>, unfollow |-> <<"Day">>,
     like |-> <<"Hour">>, comment |-> <<"Hour">>, feed |-> <<"Hour">>,
     notifications |-> <<"Hour">>, search |-> <<"Hour">>, media_read |-> <<"Hour">>,
     media_upload |-> <<"Hour">>, moderation |-> <<"Hour">>]

\* The window of the routes limited by client address; /health, by the minute, is left out.
ip_rate_limit_config ==
    [login |-> "Hour", auth_refresh |-> "Hour", auth_revoke |-> "Hour", signup |-> "Day",
     device_register |-> "Hour", invite_validate |-> "Hour"]

ASSUME LimitsAssumption ==
    /\ \A a \in DOMAIN Checks, w \in {"Hour", "Day"}, l \in TrustLevels : RateLimits(a, w, l) \in Nat
    /\ \A a \in DOMAIN ip_rate_limit_config : IpLimit(a) \in Nat

\* What a user's request for an action is checked against at a trust level.
for_trust_level(action, level) ==
    [i \in DOMAIN Checks[action] |->
        [limit |-> RateLimits(action, Checks[action][i], level), window |-> Checks[action][i]]]

-----------------------------------------------------------------------------
(* The counters. *)

Ticks(window) == IF window = "Hour" THEN 2 ELSE 2 * HoursPerDay

current_window(window) == now \div Ticks(window)

\* The text of the key has the number only: hours and days since the epoch never coincide.
Key(caller, action, window, number) ==
    [caller |-> caller, action |-> action, window |-> window, number |-> number]

\* Mutation of TtlOf: the time to live is rounded down to less than the window.
TtlOf_Short(window) == Ticks(window) - 1

\* The time to live of a counter, in ticks.
TtlOf(window) == Ticks(window)

Count(k) == IF k \in DOMAIN counters THEN counters[k].count ELSE 0

\* The Lua script: INCR, and EXPIRE when the counter is new.
incr_with_ttl(k) ==
    counters' = [j \in DOMAIN counters \cup {k} |->
                    IF j # k THEN counters[j]
                    ELSE [count |-> Count(k) + 1,
                          expires |-> IF k \in DOMAIN counters THEN counters[k].expires
                                                               ELSE now + TtlOf(k.window)]]

\* Half an hour passes; Redis drops the counters whose time to live is over.
Tick ==
    /\ now < MaxTime
    /\ now' = now + 1
    /\ counters' = [k \in {j \in DOMAIN counters : counters[j].expires > now + 1} |-> counters[k]]

InitCounters == now = 0 /\ counters = <<>>

CountersOK ==
    /\ now \in 0 .. MaxTime
    /\ \A k \in DOMAIN counters :
        counters[k].count \in Nat /\ counters[k].expires > now

=============================================================================
