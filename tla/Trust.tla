------------------------------- MODULE Trust --------------------------------
(***************************************************************************)
(* The trust row of one user (app/trust.rs), and the reports and takedowns *)
(* that move it (app/moderation.rs and their handlers).                    *)
(*                                                                         *)
(* record_flag holds the row from its first UPDATE to its commit, so that  *)
(* no other writer comes in between: it is one step. record_activity is an *)
(* UPDATE, and then a transaction of its own that reads the row without a  *)
(* lock and writes the level it computed: three steps. A handler commits   *)
(* the report, the takedown or the post first and feeds the trust row      *)
(* afterwards, best-effort. Reasons and the audit log are abstracted.      *)
(***************************************************************************)
EXTENDS Integers, FiniteSets

CONSTANTS
    Reporters,       \* the other users
    Posts,           \* posts the user may create
    Profile,         \* what flag_user reports: the user, as opposed to a post
    Requests,        \* concurrent HTTP requests
    FlagsPerStrike,  \* 10
    StrikesToBan,    \* 3
    Basic, Trusted,  \* what the level needs: posts, points (at least) and flags (below)
    MaxPoints        \* bound on trust_points

ASSUME FlagsAssumption == FlagsPerStrike \in Nat \ {0, 1}
ASSUME StrikesAssumption == StrikesToBan \in Nat \ {0}
ASSUME NeedsAssumption == {Basic, Trusted} \subseteq [posts : Nat, points : Nat, flags : Nat]
ASSUME PointsAssumption == MaxPoints \in Nat
ASSUME ProfileAssumption == Profile \notin Posts

Items == Posts \cup {Profile}

VARIABLES
    row,      \* user_trust_scores: age, posts, points, flags, strikes, level and
              \* ban, the days of the latest banned_until
    live,     \* rows of posts
    reports,  \* user_flags and post_flags ever inserted: <<reporter, item>>
    pc,       \* next step of each request; "idle" when there is none
    what,     \* the report it records, or the post it is about
    read,     \* the level its SELECT led to
    \* history:
    taken,    \* posts that were ever created
    lost,     \* reports the trust row will never hear of
    stale     \* the level was written from an outdated read, or a recalculation was lost

tables == <<row, live, reports>>
requests == <<pc, what, read>>
history == <<taken, lost, stale>>
vars == <<tables, requests, history>>

Levels == 0 .. 2   \* New, Basic, Trusted; nothing grants Verified
Nothing == <<>>
Reports == Reporters \X Items

TypeOK ==
    /\ row \in [age : {0, 7, 90}, posts : Nat, points : 0 .. MaxPoints, flags : Nat,
                strikes : Nat, level : Levels, ban : {0, 7, 30, 365}]
    /\ live \in SUBSET taken /\ taken \in SUBSET Posts
    /\ reports \in SUBSET Reports
    /\ lost \in SUBSET reports
    /\ pc \in [Requests -> {"idle", "flag_post", "record_flag", "post_created",
                            "content_removed", "recalculate", "write"}]
    /\ what \in [Requests -> Reports \cup {Nothing}]
    /\ read \in [Requests -> Levels]
    /\ stale \in BOOLEAN
    /\ \A r \in Requests :
        /\ pc[r] = "record_flag" => what[r] \in reports
        /\ pc[r] # "write" => read[r] = 0

\* initialize_user_with_tx: the row that signup inserts.
initialize_user ==
    [age |-> 0, posts |-> 0, points |-> 0, flags |-> 0, strikes |-> 0, level |-> 0, ban |-> 0]

Init ==
    /\ row = initialize_user
    /\ live = {} /\ reports = {}
    /\ pc = [r \in Requests |-> "idle"]
    /\ what = [r \in Requests |-> Nothing]
    /\ read = [r \in Requests |-> 0]
    /\ taken = {} /\ lost = {} /\ stale = FALSE

-----------------------------------------------------------------------------
(* The computation of app/trust.rs on a row. *)

\* Mutation of Points: nothing keeps the points from going below zero.
Points_NoFloor(t, d) == t.points + d

\* GREATEST(0, trust_points + d).
Points(t, d) == IF t.points + d < 0 THEN 0 ELSE t.points + d

Meets(t, needs) ==
    t.posts >= needs.posts /\ t.points >= needs.points /\ t.flags < needs.flags

\* The level recalculate_trust_level_with_tx computes from what it read.
NewLevel(t) ==
    CASE t.strikes >= StrikesToBan -> 0
      [] t.strikes < StrikesToBan /\ t.age >= 90 /\ Meets(t, Trusted) -> 2
      [] t.strikes < StrikesToBan /\ ~(t.age >= 90 /\ Meets(t, Trusted))
            /\ t.age >= 7 /\ Meets(t, Basic) -> 1
      [] OTHER -> 0

recalculate_trust_level_with_tx(t) == [t EXCEPT !.level = NewLevel(t)]

BanDays(strikes) ==
    CASE strikes < StrikesToBan -> 0
      [] strikes = StrikesToBan -> 7
      [] strikes = StrikesToBan + 1 -> 30
      [] OTHER -> 365

\* The strike counts as a flag itself.
add_strike_with_tx(t) ==
    recalculate_trust_level_with_tx(
        [t EXCEPT !.strikes = @ + 1, !.flags = @ + 1, !.points = Points(t, -50),
                  !.ban = BanDays(t.strikes + 1)])

StrikeDue(flags) == flags >= FlagsPerStrike /\ flags % FlagsPerStrike = 0

Flagged(t) == [t EXCEPT !.flags = @ + 1, !.points = Points(t, -10)]

record_flag(t) ==
    IF StrikeDue(Flagged(t).flags)
    THEN add_strike_with_tx(Flagged(t))
    ELSE recalculate_trust_level_with_tx(Flagged(t))

\* points_delta of record_activity; nothing passes flag_received or follower_lost.
Delta(activity) ==
    CASE activity = "post_created" -> 5
      [] activity = "comment_created" -> 2
      [] activity = "like_received" -> 1
      [] activity = "follower_gained" -> 3
      [] activity = "content_removed" -> -25

\* Mutation of Significant: a loss of points is never significant.
Significant_GainsOnly(d) == d >= 5

Significant(d) == d >= 5 \/ -d >= 5

-----------------------------------------------------------------------------
(* Requests. *)

Goto(r, label) == pc' = [pc EXCEPT ![r] = label]

Start(r, label, x) ==
    /\ pc[r] = "idle"
    /\ Goto(r, label)
    /\ what' = [what EXCEPT ![r] = x]
    /\ UNCHANGED read

Done(r) ==
    /\ Goto(r, "idle")
    /\ what' = [what EXCEPT ![r] = Nothing]
    /\ read' = [read EXCEPT ![r] = 0]

\* Mutation of Insert: a repeated report is not an error.
Insert_Again(f) == reports' = reports \cup {f}

\* The INSERT of a report, and of its audit entry, refuses a second (reporter, target).
Insert(f) == f \notin reports /\ reports' = reports \cup {f}

flag_user(r, x) ==
    /\ Insert(<<x, Profile>>)
    /\ Start(r, "record_flag", <<x, Profile>>)
    /\ UNCHANGED <<row, live, history>>

\* The handler looks up the owner of the post first.
flag_post(r, x, p) ==
    /\ p \in live
    /\ Start(r, "flag_post", <<x, p>>)
    /\ UNCHANGED <<tables, history>>

\* The post may be gone by now, which is an error, as is a repeated report.
FlagPostInsert(r) ==
    /\ pc[r] = "flag_post"
    /\ \/ /\ what[r][2] \in live
          /\ Insert(what[r])
          /\ Goto(r, "record_flag")
          /\ UNCHANGED <<what, read>>
       \/ /\ what[r][2] \notin live \/ what[r] \in reports
          /\ Done(r)
          /\ UNCHANGED reports
    /\ UNCHANGED <<row, live, history>>

\* The transaction of record_flag, from the UPDATE that locks the row to the commit.
RecordFlag(r) ==
    /\ pc[r] = "record_flag"
    /\ row' = record_flag(row)
    /\ stale' = FALSE
    /\ Done(r)
    /\ UNCHANGED <<live, reports, taken, lost>>

\* PostService::create_post, then record_activity.
create_post(r, p) ==
    /\ p \in Posts \ taken
    /\ live' = live \cup {p} /\ taken' = taken \cup {p}
    /\ Start(r, "post_created", Nothing)
    /\ UNCHANGED <<row, reports, lost, stale>>

\* DELETE ... RETURNING owner_id, and the audit entry, in one transaction: only one
\* takedown of a post gets the owner.
DeleteReturning(p) == p \in live /\ live' = live \ {p}

takedown_post(r, p) ==
    /\ DeleteReturning(p)
    /\ Start(r, "content_removed", Nothing)
    /\ UNCHANGED <<row, reports, history>>

\* The same for one of the user's comments, which the model does not count.
takedown_comment(r) ==
    /\ Start(r, "content_removed", Nothing)
    /\ UNCHANGED <<tables, history>>

\* The owner's own delete_post leaves the trust row alone.
delete_post(p) ==
    /\ p \in live
    /\ live' = live \ {p}
    /\ UNCHANGED <<row, reports, requests, history>>

\* The UPDATE of record_activity for a post created or removed.
RecordActivity(r) ==
    /\ pc[r] \in {"post_created", "content_removed"}
    /\ Points(row, Delta(pc[r])) <= MaxPoints
    /\ row' = [row EXCEPT !.points = Points(row, Delta(pc[r])),
                          !.posts = IF pc[r] = "post_created" THEN @ + 1 ELSE @]
    /\ IF Significant(Delta(pc[r])) THEN Goto(r, "recalculate") /\ UNCHANGED <<what, read>>
                                    ELSE Done(r)
    /\ UNCHANGED <<live, reports, history>>

\* The UPDATE of record_activity for activities too small to recalculate, and the
\* inviter's reward of consume_invite_with_tx, which never recalculates.
Earn ==
    /\ \E d \in {Delta("comment_created"), Delta("like_received"), Delta("follower_gained"), 10} :
        /\ row.points + d <= MaxPoints
        /\ row' = [row EXCEPT !.points = @ + d]
    /\ UNCHANGED <<live, reports, requests, history>>

\* recalculate_trust_level of record_activity: the SELECT ...
RecalculateRead(r) ==
    /\ pc[r] = "recalculate"
    /\ read' = [read EXCEPT ![r] = NewLevel(row)]
    /\ Goto(r, "write")
    /\ UNCHANGED <<what, tables, history>>

\* ... and the UPDATE, which waits for a record_flag that holds the row and then writes
\* the level all the same.
RecalculateWrite(r) ==
    /\ pc[r] = "write"
    /\ row' = [row EXCEPT !.level = read[r]]
    /\ stale' = (read[r] # NewLevel(row))
    /\ Done(r)
    /\ UNCHANGED <<live, reports, taken, lost>>

\* update_account_ages, from the hourly cleanup; it does not recalculate.
update_account_ages ==
    /\ row.age < 90
    /\ row' = [row EXCEPT !.age = IF @ = 0 THEN 7 ELSE 90]
    /\ UNCHANGED <<live, reports, requests, history>>

\* A statement of the best-effort part fails, which is only logged, or the process dies.
Fail(r) ==
    /\ pc[r] # "idle"
    /\ lost' = IF pc[r] = "record_flag" THEN lost \cup {what[r]} ELSE lost
    /\ stale' = (stale \/ pc[r] \in {"recalculate", "write"})
    /\ Done(r)
    /\ UNCHANGED <<tables, taken>>

Next ==
    \/ \E r \in Requests :
        \/ \E x \in Reporters : flag_user(r, x) \/ \E p \in Posts : flag_post(r, x, p)
        \/ FlagPostInsert(r) \/ RecordFlag(r)
        \/ \E p \in Posts : create_post(r, p) \/ takedown_post(r, p)
        \/ takedown_comment(r)
        \/ RecordActivity(r) \/ RecalculateRead(r) \/ RecalculateWrite(r)
        \/ Fail(r)
    \/ \E p \in Posts : delete_post(p)
    \/ Earn
    \/ update_account_ages

Spec == Init /\ [][Next]_vars

-----------------------------------------------------------------------------
(* Properties *)

\* Every report that reaches the trust row counts once and no strike is skipped, however
\* concurrent flags interleave ("concurrent flags can't skip a boundary", record_flag):
\* the flags are the reports recorded and not lost, plus one for each strike; the strikes
\* are the multiples of FlagsPerStrike passed on the way; StrikesToBan of them ban.
StrikesMatchReports ==
    LET pending == {what[r] : r \in {q \in Requests : pc[q] = "record_flag"}}
    IN  /\ row.flags = Cardinality(reports \ (pending \cup lost)) + row.strikes
        /\ row.strikes = row.flags \div FlagsPerStrike
        /\ row.ban # 0 <=> row.strikes >= StrikesToBan

\* The level is never above what the row justifies (recalculate_trust_level_with_tx),
\* except while a recalculation is due or after one was lost or wrote an outdated read.
LevelEarned ==
    row.level <= NewLevel(row) \/ stale \/ \E r \in Requests : pc[r] \in {"recalculate", "write"}

=============================================================================
