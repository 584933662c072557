---------------------------- MODULE TrustProofs ----------------------------
(***************************************************************************)
(* Proofs that the safety properties of Trust hold for any sets of         *)
(* reporters, posts and concurrent requests, and any thresholds.           *)
(***************************************************************************)
EXTENDS Trust, FiniteSetTheorems, TLAPS

Row == [age : {0, 7, 90}, posts : Nat, points : 0 .. MaxPoints, flags : Nat,
        strikes : Nat, level : Levels, ban : {0, 7, 30, 365}]

\* A request that is about to insert a report has one.
Shape == \A r \in Requests : pc[r] = "flag_post" => what[r] \in Reports

Pending == {what[r] : r \in {q \in Requests : pc[q] = "record_flag"}}

\* A report that was inserted is recorded by one request, or by none, and a report whose
\* request failed is recorded by none.
OnceEach ==
    /\ \A r \in Requests : pc[r] = "record_flag" => what[r] \notin lost
    /\ \A q, r \in Requests :
          q # r /\ pc[q] = "record_flag" /\ pc[r] = "record_flag" => what[q] # what[r]

\* The reports the trust row has heard of.
Heard == reports \ (Pending \cup lost)

StrikeInv == TypeOK /\ Shape /\ OnceEach /\ IsFiniteSet(reports) /\ StrikesMatchReports

-----------------------------------------------------------------------------
(* The computation on a row *)

\* What recalculate_trust_level_with_tx computes is a level, and does not depend on the
\* level it replaces.
LEMMA NewLevelTyped ==
    ASSUME NEW t \in Row
    PROVE  /\ NewLevel(t) \in Levels
           /\ \A n \in Levels : NewLevel([t EXCEPT !.level = n]) = NewLevel(t)
    BY DEF Row, Levels, NewLevel, Meets

\* More points, or an older account, never lower the level that is due.
LEMMA NewLevelMonotone ==
    ASSUME NEW s \in Row, NEW t \in Row, s.points <= t.points, s.age <= t.age,
           s.posts = t.posts, s.flags = t.flags, s.strikes = t.strikes
    PROVE  NewLevel(s) <= NewLevel(t)
    BY NeedsAssumption, StrikesAssumption DEF Row, NewLevel, Meets

\* One flag more reaches a multiple of FlagsPerStrike, or stays between two; and the flag
\* that a strike adds itself never reaches the next one.
LEMMA NextFlag ==
    ASSUME NEW f \in Nat
    PROVE  /\ StrikeDue(f + 1) => (f + 2) \div FlagsPerStrike = f \div FlagsPerStrike + 1
           /\ ~StrikeDue(f + 1) => (f + 1) \div FlagsPerStrike = f \div FlagsPerStrike
<1> DEFINE K == FlagsPerStrike
           q == f \div K
           m == f % K
<1>1. K \in Nat /\ K >= 2
    BY FlagsAssumption
<1>2. q \in Nat /\ m \in 0 .. K - 1 /\ f = K * q + m
    BY <1>1
<1> QED
    BY <1>1, <1>2 DEF StrikeDue

\* Losing points keeps them within their bound.
LEMMA PointsTyped ==
    ASSUME NEW t \in Row, NEW d \in Int, d <= 0
    PROVE  Points(t, d) \in 0 .. MaxPoints
<1>1. t.points \in 0 .. MaxPoints
    BY DEF Row
<1> QED
    BY <1>1, PointsAssumption DEF Points

\* The length of a ban, which there is from the StrikesToBan-th strike on.
LEMMA BanTyped ==
    ASSUME NEW n \in Nat
    PROVE  BanDays(n) \in {0, 7, 30, 365} /\ (BanDays(n) # 0 <=> n >= StrikesToBan)
    BY StrikesAssumption DEF BanDays

\* Flagged counts one flag.
LEMMA FlaggedTyped ==
    ASSUME NEW t \in Row
    PROVE  /\ Flagged(t) \in Row /\ Flagged(t).flags = t.flags + 1
           /\ Flagged(t).strikes = t.strikes /\ Flagged(t).ban = t.ban
<1>1. PICK p \in 0 .. MaxPoints : p = Points(t, -10)
    BY PointsTyped
<1>2. PICK n \in Nat : n = t.flags + 1
    BY DEF Row
<1>3. Flagged(t) = [t EXCEPT !.flags = n, !.points = p]
    BY <1>1, <1>2 DEF Flagged
<1>4. [t EXCEPT !.flags = n, !.points = p] \in Row
    BY Zenon DEF Row
<1> QED
    BY <1>2, <1>3, <1>4 DEF Row

\* A recalculation writes the level that is due, and nothing else.
LEMMA RecalculateTyped ==
    ASSUME NEW t \in Row
    PROVE  /\ recalculate_trust_level_with_tx(t) \in Row
           /\ recalculate_trust_level_with_tx(t).flags = t.flags
           /\ recalculate_trust_level_with_tx(t).strikes = t.strikes
           /\ recalculate_trust_level_with_tx(t).ban = t.ban
           /\ recalculate_trust_level_with_tx(t).level = NewLevel(recalculate_trust_level_with_tx(t))
<1>1. NewLevel(t) \in Levels /\ NewLevel([t EXCEPT !.level = NewLevel(t)]) = NewLevel(t)
    BY NewLevelTyped
<1> QED
    BY <1>1 DEF recalculate_trust_level_with_tx, Row

\* What record_flag makes of the counters: one flag more, and with the flag that is due a
\* strike, a strike and a flag more. The level it writes is the one that is due.
LEMMA RecordFlagCounts ==
    ASSUME NEW t \in Row
    PROVE  /\ record_flag(t) \in Row
           /\ StrikeDue(t.flags + 1) =>
                 /\ record_flag(t).flags = t.flags + 2
                 /\ record_flag(t).strikes = t.strikes + 1
                 /\ record_flag(t).ban = BanDays(t.strikes + 1)
           /\ ~StrikeDue(t.flags + 1) =>
                 /\ record_flag(t).flags = t.flags + 1
                 /\ record_flag(t).strikes = t.strikes
                 /\ record_flag(t).ban = t.ban
           /\ record_flag(t).level = NewLevel(record_flag(t))
<1> DEFINE f == Flagged(t)
           s == [f EXCEPT !.strikes = @ + 1, !.flags = @ + 1, !.points = Points(f, -50),
                          !.ban = BanDays(f.strikes + 1)]
<1>1. f \in Row /\ f.flags = t.flags + 1 /\ f.strikes = t.strikes /\ f.ban = t.ban
    BY FlaggedTyped
<1>2. record_flag(t) = recalculate_trust_level_with_tx(IF StrikeDue(t.flags + 1) THEN s ELSE f)
    BY <1>1 DEF record_flag, add_strike_with_tx
<1> HIDE DEF f
<1>3. PICK p \in 0 .. MaxPoints : p = Points(f, -50)
    BY <1>1, PointsTyped
<1>4. PICK n \in Nat, m \in Nat : n = f.strikes + 1 /\ m = f.flags + 1
    BY <1>1 DEF Row
<1>5. PICK b \in {0, 7, 30, 365} : b = BanDays(n)
    BY BanTyped
<1>6. s = [f EXCEPT !.strikes = n, !.flags = m, !.points = p, !.ban = b]
    BY <1>3, <1>4, <1>5
<1> HIDE DEF s
<1>7. s \in Row
    BY <1>1, <1>6, Zenon DEF Row
<1>8. /\ s.flags = t.flags + 2 /\ s.strikes = t.strikes + 1 /\ s.ban = BanDays(t.strikes + 1)
    <2>1. s.flags = m /\ s.strikes = n /\ s.ban = b
        BY <1>1, <1>6 DEF Row
    <2>2. t.flags \in Nat /\ t.strikes \in Nat
        BY DEF Row
    <2> QED
        BY <1>1, <1>4, <1>5, <2>1, <2>2
<1> QED
    BY <1>1, <1>2, <1>7, <1>8, RecalculateTyped

\* The rows that the statements other than record_flag write.
LEMMA RowUpdates ==
    ASSUME NEW t \in Row
    PROVE  /\ \A p \in 0 .. MaxPoints : \A n \in Nat : [t EXCEPT !.points = p, !.posts = n] \in Row
           /\ \A p \in 0 .. MaxPoints : [t EXCEPT !.points = p] \in Row
           /\ \A l \in Levels : [t EXCEPT !.level = l] \in Row
           /\ \A a \in {0, 7, 90} : [t EXCEPT !.age = a] \in Row
    BY Zenon DEF Row

\* The row that the UPDATE of record_activity writes.
LEMMA ActivityRow ==
    ASSUME TypeOK, NEW r \in Requests, RecordActivity(r)
    PROVE  row' \in Row
<1>1. row \in Row
    BY DEF TypeOK, Row
<1>2. PICK n \in Nat : n = IF pc[r] = "post_created" THEN row.posts + 1 ELSE row.posts
    BY <1>1 DEF Row
<1>3. Delta(pc[r]) \in Int
    BY DEF RecordActivity, Delta
<1>4. row.points \in Int
    BY <1>1, PointsAssumption DEF Row
<1>5. PICK p \in 0 .. MaxPoints : p = Points(row, Delta(pc[r]))
    BY <1>3, <1>4, PointsAssumption DEF RecordActivity, Points
<1>6. row' = [row EXCEPT !.points = p, !.posts = n]
    BY <1>2, <1>5 DEF RecordActivity
<1> QED
    BY <1>1, <1>6, RowUpdates, Zenon

-----------------------------------------------------------------------------
(* Types *)

\* Every step of a request keeps the types, and knows the report it is about.
LEMMA TypeInductive == TypeOK /\ Shape /\ [Next]_vars => TypeOK' /\ Shape'
<1> SUFFICES ASSUME TypeOK, Shape, [Next]_vars PROVE TypeOK' /\ Shape'
    OBVIOUS
<1> USE DEF tables, requests, history
<1>0. row \in Row
    BY DEF TypeOK, Row
<1>w. ASSUME row' \in Row, UNCHANGED <<live, taken, reports, lost>>, stale' \in BOOLEAN,
             pc' \in [Requests -> {"idle", "flag_post", "record_flag", "post_created",
                                   "content_removed", "recalculate", "write"}],
             what' \in [Requests -> Reports \cup {Nothing}],
             read' \in [Requests -> Levels],
             \A q \in Requests : /\ pc'[q] \in {"flag_post", "record_flag"} => pc'[q] = pc[q] /\ what'[q] = what[q]
                                 /\ pc'[q] # "write" => read'[q] = 0
      PROVE  TypeOK' /\ Shape'
    BY <1>w DEF TypeOK, Shape, Row
<1>1. ASSUME NEW r \in Requests, NEW x \in Reporters, flag_user(r, x) PROVE TypeOK' /\ Shape'
    <2>1. <<x, Profile>> \in Reports
        BY DEF Reports, Items
    <2> QED
        BY <1>1, <2>1 DEF flag_user, Insert, Start, Goto, TypeOK, Shape
<1>2. ASSUME NEW r \in Requests, NEW x \in Reporters, NEW p \in Posts, flag_post(r, x, p) PROVE TypeOK' /\ Shape'
    <2>1. <<x, p>> \in Reports
        BY DEF Reports, Items
    <2> QED
        BY <1>2, <2>1 DEF flag_post, Start, Goto, TypeOK, Shape
<1>3. ASSUME NEW r \in Requests, FlagPostInsert(r) PROVE TypeOK' /\ Shape'
    <2>1. what[r] \in Reports
        BY <1>3 DEF FlagPostInsert, Shape
    <2>2. CASE Insert(what[r]) /\ Goto(r, "record_flag") /\ UNCHANGED <<what, read>>
        BY <1>3, <2>1, <2>2 DEF FlagPostInsert, Insert, Goto, TypeOK, Shape
    <2>3. CASE Done(r) /\ UNCHANGED reports
        BY <1>3, <2>3 DEF FlagPostInsert, Done, Goto, TypeOK, Shape, Levels
    <2> QED
        BY <1>3, <2>2, <2>3 DEF FlagPostInsert
<1>4. ASSUME NEW r \in Requests, RecordFlag(r) PROVE TypeOK' /\ Shape'
    <2>1. row' \in Row
        BY <1>0, <1>4, RecordFlagCounts DEF RecordFlag
    <2>2. stale' \in BOOLEAN /\ UNCHANGED <<live, taken, reports, lost>>
        BY <1>4, Zenon DEF RecordFlag
    <2>3. Done(r)
        BY <1>4 DEF RecordFlag
    <2> QED
        BY <1>w, <2>1, <2>2, <2>3 DEF Done, Goto, TypeOK, Levels
<1>5. ASSUME NEW r \in Requests, NEW p \in Posts, create_post(r, p) PROVE TypeOK' /\ Shape'
    BY <1>5 DEF create_post, Start, Goto, TypeOK, Shape
<1>6. ASSUME NEW r \in Requests, NEW p \in Posts, takedown_post(r, p) PROVE TypeOK' /\ Shape'
    BY <1>6 DEF takedown_post, DeleteReturning, Start, Goto, TypeOK, Shape
<1>7. ASSUME NEW r \in Requests, takedown_comment(r) PROVE TypeOK' /\ Shape'
    BY <1>7 DEF takedown_comment, Start, Goto, TypeOK, Shape
<1>8. ASSUME NEW r \in Requests, RecordActivity(r) PROVE TypeOK' /\ Shape'
    <2>1. row' \in Row
        BY <1>8, ActivityRow
    <2>2. CASE Goto(r, "recalculate") /\ UNCHANGED <<what, read>>
        BY <1>8, <1>w, <2>1, <2>2 DEF RecordActivity, Goto, TypeOK
    <2>3. CASE Done(r)
        BY <1>8, <1>w, <2>1, <2>3 DEF RecordActivity, Done, Goto, TypeOK, Levels
    <2> QED
        BY <1>8, <2>2, <2>3 DEF RecordActivity
<1>9. ASSUME NEW r \in Requests, RecalculateRead(r) PROVE TypeOK' /\ Shape'
    <2>1. NewLevel(row) \in Levels
        BY <1>0, NewLevelTyped
    <2> QED
        BY <1>9, <2>1 DEF RecalculateRead, Goto, TypeOK, Shape
<1>10. ASSUME NEW r \in Requests, RecalculateWrite(r) PROVE TypeOK' /\ Shape'
    <2>1. read[r] \in Levels
        BY DEF TypeOK
    <2>2. row' \in Row
        BY <1>0, <1>10, <2>1, RowUpdates, Zenon DEF RecalculateWrite
    <2> QED
        BY <1>10, <1>w, <2>2 DEF RecalculateWrite, Done, Goto, TypeOK, Levels
<1>11. ASSUME NEW r \in Requests, Fail(r) PROVE TypeOK' /\ Shape'
    BY <1>11 DEF Fail, Done, Goto, TypeOK, Shape, Levels
<1>12. ASSUME NEW p \in Posts, delete_post(p) PROVE TypeOK' /\ Shape'
    BY <1>12 DEF delete_post, TypeOK, Shape
<1>13. CASE Earn
    <2>1. row.points \in Nat
        BY <1>0, PointsAssumption DEF Row
    <2>2. PICK d \in {2, 1, 3, 10} : row.points + d <= MaxPoints /\ row' = [row EXCEPT !.points = @ + d]
        BY <1>13 DEF Earn, Delta
    <2>3. PICK p \in 0 .. MaxPoints : p = row.points + d
        BY <2>1, <2>2, PointsAssumption
    <2>4. row' \in Row
        BY <1>0, <2>2, <2>3, RowUpdates, Zenon
    <2> QED
        BY <1>13, <1>w, <2>4 DEF Earn, TypeOK
<1>14. CASE update_account_ages
    <2>1. row' \in Row
        BY <1>0, <1>14, RowUpdates, Zenon DEF update_account_ages
    <2> QED
        BY <1>14, <1>w, <2>1 DEF update_account_ages, TypeOK
<1>15. CASE UNCHANGED vars
    BY <1>15 DEF vars, TypeOK, Shape
<1> QED
    BY <1>1, <1>2, <1>3, <1>4, <1>5, <1>6, <1>7, <1>8, <1>9, <1>10, <1>11, <1>12, <1>13, <1>14, <1>15 DEF Next

\* The row that signup inserts, and no request under way.
LEMMA InitTyped == Init => TypeOK /\ Shape
<1> SUFFICES ASSUME Init PROVE TypeOK /\ Shape
    OBVIOUS
<1>1. initialize_user \in Row
    BY PointsAssumption DEF initialize_user, Row, Levels
<1>2. 0 \in Levels
    BY DEF Levels
<1>3. stale \in BOOLEAN
    BY Zenon DEF Init
<1>4. row \in Row /\ live = {} /\ reports = {} /\ taken = {} /\ lost = {}
    BY <1>1 DEF Init
<1>5. /\ pc = [r \in Requests |-> "idle"] /\ what = [r \in Requests |-> Nothing]
      /\ read = [r \in Requests |-> 0]
    BY DEF Init
<1> QED
    BY <1>2, <1>3, <1>4, <1>5 DEF TypeOK, Shape, Row

\* A report is about the user or one of the posts that ever existed, a report whose
\* recording failed was inserted, and the row stays within the bounds of its columns.
THEOREM TypeCorrect == Spec => []TypeOK
    BY InitTyped, TypeInductive, PTL DEF Spec

-----------------------------------------------------------------------------
(* Strikes and reports *)

\* StrikesMatchReports, in terms of the reports the row has heard of.
LEMMA StrikesOfHeard ==
    StrikesMatchReports <=> /\ row.flags = Cardinality(Heard) + row.strikes
                            /\ row.strikes = row.flags \div FlagsPerStrike
                            /\ row.ban # 0 <=> row.strikes >= StrikesToBan
    BY DEF StrikesMatchReports, Heard, Pending

\* The reports that are to be recorded were inserted.
LEMMA PendingInserted == TypeOK => Pending \subseteq reports
    BY DEF TypeOK, Pending

\* A step that records nothing leaves the reports the row has heard of: a new report is
\* pending, and one whose request fails was pending and is lost.
LEMMA HeardKept ==
    ASSUME TypeOK, Shape, OnceEach, [Next]_vars, \A r \in Requests : ~RecordFlag(r)
    PROVE  OnceEach' /\ Heard' = Heard
<1> USE DEF tables, requests, history
<1>n. ASSUME NEW r \in Requests, NEW f, pc[r] # "record_flag", f \notin reports, reports' = reports \cup {f},
             lost' = lost, pc' = [pc EXCEPT ![r] = "record_flag"], what'[r] = f,
             \A q \in Requests \ {r} : what'[q] = what[q]
      PROVE  OnceEach' /\ Heard' = Heard
    <2>1. Pending' = Pending \cup {f}
        BY <1>n DEF Pending, TypeOK
    <2>2. OnceEach'
        BY <1>n DEF OnceEach, TypeOK
    <2>3. Heard' = Heard
        BY <1>n, <2>1 DEF Heard
    <2> QED
        BY <2>2, <2>3
<1>k. ASSUME UNCHANGED <<reports, lost>>,
             \A q \in Requests : pc'[q] = "record_flag" <=> pc[q] = "record_flag",
             \A q \in Requests : pc[q] = "record_flag" => what'[q] = what[q]
      PROVE  OnceEach' /\ Heard' = Heard
    <2>1. Pending' = Pending
        BY <1>k DEF Pending
    <2>2. OnceEach'
        BY <1>k DEF OnceEach
    <2> QED
        BY <1>k, <2>1, <2>2 DEF Heard
<1>1. ASSUME NEW r \in Requests, NEW x \in Reporters, flag_user(r, x) PROVE OnceEach' /\ Heard' = Heard
    <2>1. PICK f : f = <<x, Profile>>
        BY Zenon
    <2>2. /\ pc[r] # "record_flag" /\ f \notin reports /\ reports' = reports \cup {f} /\ lost' = lost
          /\ pc' = [pc EXCEPT ![r] = "record_flag"] /\ what'[r] = f
          /\ \A q \in Requests \ {r} : what'[q] = what[q]
        BY <1>1, <2>1 DEF flag_user, Insert, Start, Goto, TypeOK
    <2> QED
        BY <2>2, <1>n, Zenon
<1>2. ASSUME NEW r \in Requests, NEW x \in Reporters, NEW p \in Posts, flag_post(r, x, p)
      PROVE OnceEach' /\ Heard' = Heard
    BY <1>2, <1>k DEF flag_post, Start, Goto, TypeOK
<1>3. ASSUME NEW r \in Requests, FlagPostInsert(r) PROVE OnceEach' /\ Heard' = Heard
    <2>1. CASE Insert(what[r]) /\ Goto(r, "record_flag") /\ UNCHANGED <<what, read>>
        BY <1>3, <1>n, <2>1, Zenon DEF FlagPostInsert, Insert, Goto
    <2>2. CASE Done(r) /\ UNCHANGED reports
        BY <1>3, <1>k, <2>2 DEF FlagPostInsert, Done, Goto, TypeOK
    <2> QED
        BY <1>3, <2>1, <2>2 DEF FlagPostInsert
<1>4. ASSUME NEW r \in Requests, NEW p \in Posts, create_post(r, p) PROVE OnceEach' /\ Heard' = Heard
    BY <1>4, <1>k DEF create_post, Start, Goto, TypeOK
<1>5. ASSUME NEW r \in Requests, NEW p \in Posts, takedown_post(r, p) PROVE OnceEach' /\ Heard' = Heard
    BY <1>5, <1>k DEF takedown_post, Start, Goto, TypeOK
<1>6. ASSUME NEW r \in Requests, takedown_comment(r) PROVE OnceEach' /\ Heard' = Heard
    BY <1>6, <1>k DEF takedown_comment, Start, Goto, TypeOK
<1>7. ASSUME NEW r \in Requests, RecordActivity(r) PROVE OnceEach' /\ Heard' = Heard
    <2>1. CASE Goto(r, "recalculate") /\ UNCHANGED <<what, read>>
        BY <1>7, <1>k, <2>1 DEF RecordActivity, Goto, TypeOK
    <2>2. CASE Done(r)
        BY <1>7, <1>k, <2>2 DEF RecordActivity, Done, Goto, TypeOK
    <2> QED
        BY <1>7, <2>1, <2>2 DEF RecordActivity
<1>8. ASSUME NEW r \in Requests, RecalculateRead(r) \/ RecalculateWrite(r) PROVE OnceEach' /\ Heard' = Heard
    BY <1>8, <1>k DEF RecalculateRead, RecalculateWrite, Done, Goto, TypeOK
<1>9. ASSUME NEW r \in Requests, Fail(r) PROVE OnceEach' /\ Heard' = Heard
    <2>1. CASE pc[r] # "record_flag"
        BY <1>9, <1>k, <2>1 DEF Fail, Done, Goto, TypeOK
    <2>2. CASE pc[r] = "record_flag"
        <3>1. /\ reports' = reports /\ lost' = lost \cup {what[r]} /\ what[r] \in reports
              /\ pc' = [pc EXCEPT ![r] = "idle"] /\ \A q \in Requests \ {r} : what'[q] = what[q]
            BY <1>9, <2>2 DEF Fail, Done, Goto, TypeOK
        <3>2. OnceEach'
            BY <2>2, <3>1 DEF OnceEach, TypeOK
        <3>3. Pending' \cup {what[r]} = Pending
            BY <2>2, <3>1 DEF Pending, TypeOK
        <3>4. Heard' = Heard
            BY <3>1, <3>3 DEF Heard
        <3> QED
            BY <3>2, <3>4
    <2> QED
        BY <2>1, <2>2
<1>10. ASSUME UNCHANGED <<reports, lost, requests>> PROVE OnceEach' /\ Heard' = Heard
    BY <1>10, <1>k
<1>11. ASSUME NEW p \in Posts, delete_post(p) PROVE OnceEach' /\ Heard' = Heard
    BY <1>10, <1>11 DEF delete_post
<1>12. CASE Earn \/ update_account_ages \/ UNCHANGED vars
    BY <1>10, <1>12 DEF Earn, update_account_ages, vars
<1> QED
    BY <1>1, <1>2, <1>3, <1>4, <1>5, <1>6, <1>7, <1>8, <1>9, <1>11, <1>12 DEF Next

\* The counters of the row are written by record_flag only.
LEMMA CountersKept ==
    ASSUME TypeOK, [Next]_vars, \A r \in Requests : ~RecordFlag(r)
    PROVE  row'.flags = row.flags /\ row'.strikes = row.strikes /\ row'.ban = row.ban
<1> USE DEF tables, requests, history
<1>0. row \in Row
    BY DEF TypeOK, Row
<1>1. ASSUME NEW r \in Requests, RecordActivity(r)
      PROVE  row'.flags = row.flags /\ row'.strikes = row.strikes /\ row'.ban = row.ban
    <2>1. PICK p, n : row' = [row EXCEPT !.points = p, !.posts = n]
        BY <1>1, Zenon DEF RecordActivity
    <2> QED
        BY <1>0, <2>1 DEF Row
<1>2. ASSUME NEW r \in Requests, RecalculateWrite(r)
      PROVE  row'.flags = row.flags /\ row'.strikes = row.strikes /\ row'.ban = row.ban
    BY <1>0, <1>2 DEF RecalculateWrite, Row
<1>3. ASSUME Earn \/ update_account_ages
      PROVE  row'.flags = row.flags /\ row'.strikes = row.strikes /\ row'.ban = row.ban
    BY <1>0, <1>3 DEF Earn, update_account_ages, Row
<1>4. CASE row' = row
    BY <1>4
<1>5. ASSUME NEW r \in Requests, NEW x \in Reporters, flag_user(r, x) \/ \E p \in Posts : flag_post(r, x, p)
      PROVE  row' = row
    BY <1>5, Zenon DEF flag_user, flag_post
<1>6. ASSUME NEW r \in Requests, NEW p \in Posts, create_post(r, p) \/ takedown_post(r, p) PROVE row' = row
    BY <1>6 DEF create_post, takedown_post
<1>7. ASSUME NEW r \in Requests, FlagPostInsert(r) \/ takedown_comment(r) \/ RecalculateRead(r) \/ Fail(r)
      PROVE  row' = row
    BY <1>7 DEF FlagPostInsert, takedown_comment, RecalculateRead, Fail
<1>8. ASSUME NEW p \in Posts, delete_post(p) PROVE row' = row
    BY <1>8 DEF delete_post
<1>9. CASE UNCHANGED vars
    BY <1>9 DEF vars
<1> QED
    BY <1>1, <1>2, <1>3, <1>4, <1>5, <1>6, <1>7, <1>8, <1>9 DEF Next

\* Reports are inserted one at a time.
LEMMA ReportsFinite == ASSUME IsFiniteSet(reports), [Next]_vars PROVE IsFiniteSet(reports')
<1> USE DEF tables, requests, history
<1>1. \A f : IsFiniteSet(reports \cup {f})
    BY FS_AddElement
<1>2. ASSUME \E f : reports' = reports \cup {f} PROVE IsFiniteSet(reports')
    BY <1>1, <1>2
<1>3. ASSUME NEW r \in Requests, NEW x \in Reporters, flag_user(r, x) PROVE IsFiniteSet(reports')
    BY <1>2, <1>3 DEF flag_user, Insert
<1>4. ASSUME NEW r \in Requests, FlagPostInsert(r) PROVE IsFiniteSet(reports')
    BY <1>2, <1>4 DEF FlagPostInsert, Insert
<1>5. ASSUME NEW r \in Requests, NEW x \in Reporters, NEW p \in Posts, flag_post(r, x, p) PROVE reports' = reports
    BY <1>5 DEF flag_post
<1>6. ASSUME NEW r \in Requests, NEW p \in Posts, create_post(r, p) \/ takedown_post(r, p) PROVE reports' = reports
    BY <1>6 DEF create_post, takedown_post
<1>7. ASSUME NEW r \in Requests, RecordFlag(r) \/ takedown_comment(r) \/ RecordActivity(r) PROVE reports' = reports
    BY <1>7 DEF RecordFlag, takedown_comment, RecordActivity
<1>8. ASSUME NEW r \in Requests, RecalculateRead(r) \/ RecalculateWrite(r) \/ Fail(r) PROVE reports' = reports
    BY <1>8 DEF RecalculateRead, RecalculateWrite, Fail
<1>9. ASSUME NEW p \in Posts, delete_post(p) PROVE reports' = reports
    BY <1>9 DEF delete_post
<1>10. CASE Earn \/ update_account_ages \/ UNCHANGED vars
    BY <1>10 DEF Earn, update_account_ages, vars
<1> QED
    BY <1>3, <1>4, <1>5, <1>6, <1>7, <1>8, <1>9, <1>10 DEF Next

\* record_flag makes one report heard of, and adds the strike that is due with it.
LEMMA FlagRecorded ==
    ASSUME StrikeInv, NEW r \in Requests, RecordFlag(r)
    PROVE  OnceEach' /\ StrikesMatchReports'
<1> USE DEF StrikeInv
<1>1. /\ pc[r] = "record_flag" /\ pc' = [pc EXCEPT ![r] = "idle"] /\ row' = record_flag(row)
      /\ reports' = reports /\ lost' = lost
      /\ \A q \in Requests \ {r} : what'[q] = what[q]
    BY DEF RecordFlag, Done, Goto, TypeOK
<1>2. OnceEach'
    BY <1>1 DEF OnceEach, TypeOK
<1>3. what[r] \in reports /\ what[r] \notin lost /\ what[r] \notin Heard
    BY <1>1 DEF TypeOK, OnceEach, Heard, Pending
<1>4. \A q \in Requests : pc'[q] = "record_flag" <=> q # r /\ pc[q] = "record_flag"
    BY <1>1 DEF TypeOK
<1>5. Pending' = Pending \ {what[r]}
    BY <1>1, <1>4 DEF Pending, OnceEach
<1>6. Heard' = Heard \cup {what[r]}
    BY <1>1, <1>3, <1>5 DEF Heard
<1>7. IsFiniteSet(Heard)
    BY FS_Subset DEF Heard
<1>8. Cardinality(Heard') = Cardinality(Heard) + 1 /\ Cardinality(Heard) \in Nat
    BY <1>3, <1>6, <1>7, FS_AddElement, FS_CardinalityType
<1>9. /\ row.flags = Cardinality(Heard) + row.strikes
      /\ row.strikes = row.flags \div FlagsPerStrike
      /\ row.ban # 0 <=> row.strikes >= StrikesToBan
    BY StrikesOfHeard
<1>10. row \in Row /\ row.flags \in Nat /\ row.strikes \in Nat
    BY DEF TypeOK, Row
<1>c. PICK c \in Nat : Cardinality(Heard') = c + 1 /\ row.flags = c + row.strikes
    BY <1>8, <1>9
<1>11. /\ row'.flags = Cardinality(Heard') + row'.strikes
       /\ row'.strikes = row'.flags \div FlagsPerStrike
       /\ row'.ban # 0 <=> row'.strikes >= StrikesToBan
    <2>1. CASE StrikeDue(row.flags + 1)
        <3>1. row'.flags = row.flags + 2 /\ row'.strikes = row.strikes + 1 /\ row'.ban = BanDays(row.strikes + 1)
            BY <1>1, <1>10, <2>1, RecordFlagCounts
        <3>2. (row.flags + 2) \div FlagsPerStrike = row.flags \div FlagsPerStrike + 1
            BY <1>10, <2>1, NextFlag
        <3>3. BanDays(row.strikes + 1) # 0 <=> row.strikes + 1 >= StrikesToBan
            BY <1>10, BanTyped
        <3>4. row'.flags = Cardinality(Heard') + row'.strikes
            BY <1>10, <1>c, <3>1
        <3>5. row'.strikes = row'.flags \div FlagsPerStrike
            BY <1>9, <3>1, <3>2, Zenon
        <3> QED
            BY <3>1, <3>3, <3>4, <3>5
    <2>2. CASE ~StrikeDue(row.flags + 1)
        <3>1. row'.flags = row.flags + 1 /\ row'.strikes = row.strikes /\ row'.ban = row.ban
            BY <1>1, <1>10, <2>2, RecordFlagCounts
        <3>2. (row.flags + 1) \div FlagsPerStrike = row.flags \div FlagsPerStrike
            BY <1>10, <2>2, NextFlag
        <3>3. row'.flags = Cardinality(Heard') + row'.strikes
            BY <1>10, <1>c, <3>1
        <3>4. row'.strikes = row'.flags \div FlagsPerStrike
            BY <1>9, <3>1, <3>2, Zenon
        <3> QED
            BY <1>9, <3>1, <3>3, <3>4, Zenon
    <2> QED
        BY <2>1, <2>2
<1>12. StrikesMatchReports'
    BY <1>11 DEF StrikesMatchReports, Heard, Pending
<1> QED
    BY <1>2, <1>12

\* Every report that is recorded counts once, every FlagsPerStrike-th flag brings one strike
\* and no boundary is skipped, and the user is banned from the StrikesToBan-th strike on,
\* however many reports are recorded at once and whichever of them fail.
THEOREM StrikesMatch == Spec => []StrikesMatchReports
<1>1. Init => StrikeInv
    <2> SUFFICES ASSUME Init PROVE StrikeInv
        OBVIOUS
    <2>1. TypeOK /\ Shape
        BY InitTyped
    <2>2. OnceEach
        BY DEF Init, OnceEach
    <2>3. IsFiniteSet(reports) /\ Heard = {} /\ Cardinality(Heard) = 0
        BY FS_EmptySet DEF Init, Heard
    <2>4. row.flags = 0 /\ row.strikes = 0 /\ row.ban = 0
        BY DEF Init, initialize_user
    <2>5. StrikesMatchReports
        BY <2>3, <2>4, StrikesOfHeard, StrikesAssumption, FlagsAssumption
    <2> QED
        BY <2>1, <2>2, <2>3, <2>5 DEF StrikeInv
<1>2. StrikeInv /\ [Next]_vars => StrikeInv'
    <2> SUFFICES ASSUME StrikeInv, [Next]_vars PROVE StrikeInv'
        OBVIOUS
    <2>1. TypeOK' /\ Shape' /\ IsFiniteSet(reports)'
        BY TypeInductive, ReportsFinite DEF StrikeInv
    <2>2. OnceEach' /\ StrikesMatchReports'
        <3>1. CASE \E r \in Requests : RecordFlag(r)
            BY <3>1, FlagRecorded
        <3>2. CASE \A r \in Requests : ~RecordFlag(r)
            <4>1. OnceEach' /\ Heard' = Heard
                BY <3>2, HeardKept DEF StrikeInv
            <4>2. row'.flags = row.flags /\ row'.strikes = row.strikes /\ row'.ban = row.ban
                BY <3>2, CountersKept DEF StrikeInv
            <4>3. /\ row'.flags = Cardinality(Heard') + row'.strikes
                  /\ row'.strikes = row'.flags \div FlagsPerStrike
                  /\ row'.ban # 0 <=> row'.strikes >= StrikesToBan
                BY <4>1, <4>2, StrikesOfHeard DEF StrikeInv
            <4>4. StrikesMatchReports'
                BY <4>3 DEF StrikesMatchReports, Heard, Pending
            <4> QED
                BY <4>1, <4>4
        <3> QED
            BY <3>1, <3>2
    <2> QED
        BY <2>1, <2>2 DEF StrikeInv
<1>3. StrikeInv => StrikesMatchReports
    BY DEF StrikeInv
<1> QED
    BY <1>1, <1>2, <1>3, PTL DEF Spec

-----------------------------------------------------------------------------
(* The level *)

\* A recalculation that is due.
Due == \E r \in Requests : pc[r] \in {"recalculate", "write"}

\* A step that changes neither the row nor the history, and finishes no recalculation.
LEMMA LevelKept ==
    ASSUME LevelEarned, row' = row, stale' = stale, Due => Due'
    PROVE  LevelEarned'
    BY DEF LevelEarned, Due

\* No step leaves the level above what the row justifies, unless a recalculation is due.
LEMMA LevelInductive == ASSUME TypeOK, LevelEarned, [Next]_vars PROVE LevelEarned'
<1> USE DEF tables, requests, history
<1>0. row \in Row /\ stale \in BOOLEAN
    BY DEF TypeOK, Row
<1>n. ASSUME NEW r \in Requests, pc[r] \notin {"recalculate", "write"}, row' = row, stale' = stale,
             \A q \in Requests \ {r} : pc'[q] = pc[q]
      PROVE  LevelEarned'
    BY <1>n, LevelKept DEF Due
<1>1. ASSUME NEW r \in Requests, NEW x \in Reporters, flag_user(r, x) PROVE LevelEarned'
    BY <1>1, <1>n DEF flag_user, Start, Goto, TypeOK
<1>2. ASSUME NEW r \in Requests, NEW x \in Reporters, NEW p \in Posts, flag_post(r, x, p) PROVE LevelEarned'
    BY <1>2, <1>n DEF flag_post, Start, Goto, TypeOK
<1>3. ASSUME NEW r \in Requests, FlagPostInsert(r) PROVE LevelEarned'
    BY <1>3, <1>n DEF FlagPostInsert, Done, Goto, TypeOK
<1>4. ASSUME NEW r \in Requests, RecordFlag(r) PROVE LevelEarned'
    <2>1. row' \in Row /\ row'.level = NewLevel(row')
        BY <1>0, <1>4, RecordFlagCounts DEF RecordFlag
    <2>2. row'.level \in Levels
        BY <2>1 DEF Row
    <2> QED
        BY <2>1, <2>2 DEF LevelEarned, Levels
<1>5. ASSUME NEW r \in Requests, NEW p \in Posts, create_post(r, p) PROVE LevelEarned'
    BY <1>5, <1>n DEF create_post, Start, Goto, TypeOK
<1>6. ASSUME NEW r \in Requests, NEW p \in Posts, takedown_post(r, p) PROVE LevelEarned'
    BY <1>6, <1>n DEF takedown_post, Start, Goto, TypeOK
<1>7. ASSUME NEW r \in Requests, takedown_comment(r) PROVE LevelEarned'
    BY <1>7, <1>n DEF takedown_comment, Start, Goto, TypeOK
<1>8. ASSUME NEW r \in Requests, RecordActivity(r) PROVE LevelEarned'
    <2>1. Significant(Delta(pc[r]))
        BY <1>8 DEF RecordActivity, Significant, Delta
    <2>2. pc'[r] = "recalculate"
        BY <1>8, <2>1 DEF RecordActivity, Goto, TypeOK
    <2> QED
        BY <2>2 DEF LevelEarned
<1>9. ASSUME NEW r \in Requests, RecalculateRead(r) PROVE LevelEarned'
    <2>1. pc'[r] = "write"
        BY <1>9 DEF RecalculateRead, Goto, TypeOK
    <2> QED
        BY <2>1 DEF LevelEarned
<1>10. ASSUME NEW r \in Requests, RecalculateWrite(r) PROVE LevelEarned'
    <2>1. read[r] \in Levels /\ row' = [row EXCEPT !.level = read[r]]
        BY <1>10 DEF RecalculateWrite, TypeOK
    <2>2. row'.level = read[r] /\ NewLevel(row') = NewLevel(row) /\ NewLevel(row) \in Levels
        BY <1>0, <2>1, NewLevelTyped DEF Row
    <2>3. stale' \/ read[r] = NewLevel(row)
        BY <1>10, Zenon DEF RecalculateWrite
    <2> QED
        BY <2>2, <2>3 DEF LevelEarned, Levels
<1>11. ASSUME NEW r \in Requests, Fail(r) PROVE LevelEarned'
    <2>1. CASE pc[r] \in {"recalculate", "write"}
        BY <1>11, <2>1, Zenon DEF Fail, LevelEarned
    <2>2. CASE pc[r] \notin {"recalculate", "write"}
        <3>1. stale' = stale
            BY <1>0, <1>11, <2>2, Zenon DEF Fail
        <3> QED
            BY <1>11, <2>2, <3>1, <1>n DEF Fail, Done, Goto, TypeOK
    <2> QED
        BY <2>1, <2>2
<1>12. ASSUME NEW p \in Posts, delete_post(p) PROVE LevelEarned'
    BY <1>12, LevelKept DEF delete_post, Due
<1>13. ASSUME Earn \/ update_account_ages PROVE LevelEarned'
    <2>1. /\ row' \in Row /\ row.points <= row'.points /\ row.age <= row'.age /\ row'.level = row.level
          /\ row'.posts = row.posts /\ row'.flags = row.flags /\ row'.strikes = row.strikes
        <3>1. CASE Earn
            <4>1. PICK d \in 1 .. 10 : row.points + d <= MaxPoints /\ row' = [row EXCEPT !.points = @ + d]
                BY <3>1 DEF Earn, Delta
            <4>2. PICK p \in 0 .. MaxPoints : p = row.points + d /\ row.points <= p
                BY <1>0, <4>1, PointsAssumption DEF Row
            <4>3. row' = [row EXCEPT !.points = p]
                BY <4>1, <4>2
            <4> QED
                BY <1>0, <4>2, <4>3 DEF Row
        <3>2. CASE update_account_ages
            BY <1>0, <3>2 DEF update_account_ages, Row
        <3> QED
            BY <1>13, <3>1, <3>2
    <2>2. NewLevel(row) <= NewLevel(row')
        BY <1>0, <2>1, NewLevelMonotone
    <2>3. NewLevel(row) \in Levels /\ NewLevel(row') \in Levels /\ row.level \in Levels
        BY <1>0, <2>1, NewLevelTyped DEF Row
    <2>4. stale' = stale /\ pc' = pc
        BY <1>13 DEF Earn, update_account_ages
    <2> QED
        BY <2>1, <2>2, <2>3, <2>4 DEF LevelEarned, Levels
<1>14. CASE UNCHANGED vars
    BY <1>14, LevelKept DEF vars, Due
<1> HIDE DEF tables, requests, history
<1> QED
    BY <1>1, <1>2, <1>3, <1>4, <1>5, <1>6, <1>7, <1>8, <1>9, <1>10, <1>11, <1>12, <1>13, <1>14 DEF Next

\* The level of the user is never above what the row justifies, except while a
\* recalculation is due or after one was lost or overtaken (record_activity recalculates
\* after every activity that can lower the level; record_flag does so under its lock).
THEOREM LevelIsEarned == Spec => []LevelEarned
<1>1. Init => LevelEarned
    <2> SUFFICES ASSUME Init PROVE LevelEarned
        OBVIOUS
    <2>1. row \in Row /\ row.level = 0
        BY InitTyped DEF Init, initialize_user, TypeOK, Row
    <2>2. NewLevel(row) \in Levels
        BY <2>1, NewLevelTyped
    <2> QED
        BY <2>1, <2>2 DEF LevelEarned, Levels
<1>2. TypeOK /\ LevelEarned /\ [Next]_vars => LevelEarned'
    BY LevelInductive
<1> QED
    BY <1>1, <1>2, TypeCorrect, PTL DEF Spec

=============================================================================
