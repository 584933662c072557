--------------------------- MODULE StoriesProofs ---------------------------
(***************************************************************************)
(* The invariants of Stories for any sets of stories, viewers, highlights  *)
(* and requests. Foreign keys (NoDanglingRows) need Linked, that a request *)
(* past its upsert names an existing highlight; CoverIsItem and the        *)
(* counters then follow from the types, the counters with the finiteness   *)
(* of the row sets.                                                        *)
(*                                                                         *)
(* The last part is about Paging, the walk through a listing that stories, *)
(* their viewers and every other list share. Its invariant says where the  *)
(* walk stands: rows already shown sort before the cursor, rows that were  *)
(* there all along are shown, popped or still beyond it.                   *)
(***************************************************************************)
EXTENDS Stories, Paging, FiniteSetTheorems, TLAPS

\* A request that has passed its upsert adds to a highlight that exists: no
\* statement deletes a highlight.
Linked ==
    \A r \in Requests : step[r] \in {"select_max", "insert_item"} => arg[r] \in highlights

RowsFinite == IsFiniteSet(views) /\ IsFiniteSet(reactions)

-----------------------------------------------------------------------------
(* Types *)

\* Every statement and request step preserves the types.
LEMMA TypeInductive == TypeOK /\ [Next]_vars => TypeOK'
<1> SUFFICES ASSUME TypeOK, [Next]_vars PROVE TypeOK'
    OBVIOUS
<1> USE DEF TypeOK
<1>1. ASSUME NEW s \in Stories, create_story(s) PROVE TypeOK'
    BY <1>1 DEF create_story
<1>2. ASSUME NEW s \in Stories, Expire(s) PROVE TypeOK'
    BY <1>2 DEF Expire
<1>3. ASSUME NEW s \in Stories, delete_story(s) PROVE TypeOK'
    BY <1>3 DEF delete_story, Remove, Exists
<1>4. ASSUME cleanup_stories PROVE TypeOK'
    BY <1>4 DEF cleanup_stories, Remove, Exists
<1>5. ASSUME NEW s \in Stories, NEW u \in Users, remove_reaction(s, u) PROVE TypeOK'
    BY <1>5 DEF remove_reaction
<1>6. ASSUME NEW r \in Requests, NEW s \in Stories, NEW u \in Users, mark_story_seen(r, s, u) PROVE TypeOK'
    BY <1>6 DEF mark_story_seen, Begin, rows
<1>7. ASSUME NEW r \in Requests, NEW s \in Stories, NEW u \in Users, add_story_reaction(r, s, u) PROVE TypeOK'
    BY <1>7 DEF add_story_reaction, Begin, rows
<1>8. ASSUME NEW r \in Requests, NEW s \in Stories, NEW h \in Highlights, add_to_highlight(r, s, h) PROVE TypeOK'
    BY <1>8 DEF add_to_highlight, Begin, rows, Exists
<1>9. ASSUME NEW r \in Requests, mark_seen(r) PROVE TypeOK'
    BY <1>9 DEF mark_seen, Done, Exists
<1>10. ASSUME NEW r \in Requests, add_reaction(r) PROVE TypeOK'
    BY <1>10 DEF add_reaction, Done, Exists
<1>11. ASSUME NEW r \in Requests, UpsertHighlight(r) PROVE TypeOK'
    BY <1>11 DEF UpsertHighlight, Done, Exists
<1>12. ASSUME NEW r \in Requests, SelectMax(r) PROVE TypeOK'
    <2> DEFINE taken == Positions(arg[r])
    <2>1. taken \subseteq Nat
        BY DEF Item, Positions
    <2>2. PICK n \in {0} \cup {m + 1 : m \in taken} : position' = [position EXCEPT ![r] = n]
        BY <1>12, ZenonT(30) DEF SelectMax
    <2>3. n \in Nat
        BY <2>1
    <2> QED
        BY <1>12, <2>2, <2>3 DEF SelectMax, rows
<1>13. ASSUME NEW r \in Requests, InsertItem(r) PROVE TypeOK'
    BY <1>13 DEF InsertItem, Done, Item
<1>14. ASSUME NEW r \in Requests, RequestDies(r) PROVE TypeOK'
    BY <1>14 DEF RequestDies, Done, rows
<1>15. CASE UNCHANGED vars
    BY <1>15 DEF vars, rows
<1> HIDE DEF TypeOK
<1> QED
    BY <1>1, <1>2, <1>3, <1>4, <1>5, <1>6, <1>7, <1>8, <1>9, <1>10, <1>11, <1>12, <1>13, <1>14, <1>15 DEF Next

\* The types of Stories hold in every reachable state: of the rows, and of the
\* arguments of a request at each of its statements.
THEOREM TypeCorrect == Spec => []TypeOK
<1>1. Init => TypeOK
    BY DEF Init, TypeOK
<1> QED
    BY <1>1, TypeInductive, PTL DEF Spec

-----------------------------------------------------------------------------
(* References to stories *)

\* The foreign keys hold across every step, also when a story is deleted
\* between two statements of a request.
LEMMA DanglingInductive ==
    TypeOK /\ Linked /\ NoDanglingRows /\ [Next]_vars => Linked' /\ NoDanglingRows'
<1> SUFFICES ASSUME TypeOK, Linked, NoDanglingRows, [Next]_vars PROVE Linked' /\ NoDanglingRows'
    OBVIOUS
<1> USE NoneAssumption DEF TypeOK, Linked, NoDanglingRows, Exists
<1>r. ASSUME NEW Old \in SUBSET Stories, NEW how, Remove(Old, how)
      PROVE  Linked' /\ NoDanglingRows'
    <2>1. \A s \in Stories \ Old : Exists(s) => Exists(s)'
        BY <1>r DEF Remove
    <2>2. Linked'
        BY <1>r DEF Remove
    <2>3. \A v \in views' \cup reactions' : v[1] \in Stories \ Old /\ Exists(v[1])
        BY <1>r DEF Remove
    <2>4. \A i \in items' : i.s \in Stories \ Old /\ Exists(i.s) /\ i.h \in highlights'
        BY <1>r DEF Remove, Item
    <2>5. \A h \in Highlights : cover'[h] # None =>
             cover'[h] \in Stories \ Old /\ Exists(cover'[h]) /\ h \in highlights'
        BY <1>r DEF Remove
    <2> HIDE DEF Exists
    <2> QED
        BY <2>1, <2>2, <2>3, <2>4, <2>5
<1>1. ASSUME NEW s \in Stories, create_story(s) PROVE Linked' /\ NoDanglingRows'
    BY <1>1 DEF create_story
<1>2. ASSUME NEW s \in Stories, Expire(s) PROVE Linked' /\ NoDanglingRows'
    BY <1>2 DEF Expire
<1>3. ASSUME NEW s \in Stories, delete_story(s) PROVE Linked' /\ NoDanglingRows'
    BY <1>3, <1>r DEF delete_story
<1>4. ASSUME cleanup_stories PROVE Linked' /\ NoDanglingRows'
    BY <1>4, <1>r DEF cleanup_stories
<1>5. ASSUME NEW s \in Stories, NEW u \in Users, remove_reaction(s, u) PROVE Linked' /\ NoDanglingRows'
    BY <1>5 DEF remove_reaction
<1>6. ASSUME NEW r \in Requests, NEW s \in Stories, NEW u \in Users, mark_story_seen(r, s, u) PROVE Linked' /\ NoDanglingRows'
    BY <1>6 DEF mark_story_seen, Begin, rows
<1>7. ASSUME NEW r \in Requests, NEW s \in Stories, NEW u \in Users, add_story_reaction(r, s, u) PROVE Linked' /\ NoDanglingRows'
    BY <1>7 DEF add_story_reaction, Begin, rows
<1>8. ASSUME NEW r \in Requests, NEW s \in Stories, NEW h \in Highlights, add_to_highlight(r, s, h) PROVE Linked' /\ NoDanglingRows'
    BY <1>8 DEF add_to_highlight, Begin, rows
<1>9. ASSUME NEW r \in Requests, mark_seen(r) PROVE Linked' /\ NoDanglingRows'
    BY <1>9 DEF mark_seen, Done
<1>10. ASSUME NEW r \in Requests, add_reaction(r) PROVE Linked' /\ NoDanglingRows'
    BY <1>10 DEF add_reaction, Done
<1>11. ASSUME NEW r \in Requests, UpsertHighlight(r) PROVE Linked' /\ NoDanglingRows'
    BY <1>11 DEF UpsertHighlight, Done
<1>12. ASSUME NEW r \in Requests, SelectMax(r) PROVE Linked' /\ NoDanglingRows'
    BY <1>12 DEF SelectMax, Positions, rows
<1>13. ASSUME NEW r \in Requests, InsertItem(r) PROVE Linked' /\ NoDanglingRows'
    BY <1>13 DEF InsertItem, Done
<1>14. ASSUME NEW r \in Requests, RequestDies(r) PROVE Linked' /\ NoDanglingRows'
    BY <1>14 DEF RequestDies, Done, rows
<1>15. CASE UNCHANGED vars
    BY <1>15 DEF vars, rows
<1> HIDE DEF TypeOK, Linked, NoDanglingRows, Exists
<1> QED
    BY <1>1, <1>2, <1>3, <1>4, <1>5, <1>6, <1>7, <1>8, <1>9, <1>10, <1>11, <1>12, <1>13, <1>14, <1>15 DEF Next

\* No view, reaction, highlight item or cover outlives its story, however
\* deletions and the clean-up fall between the statements of the requests.
THEOREM NoDanglingRowsHolds == Spec => []NoDanglingRows
<1>1. Init => Linked /\ NoDanglingRows
  <2> SUFFICES ASSUME Init PROVE Linked /\ NoDanglingRows
      OBVIOUS
  <2>1. Linked
      BY DEF Init, Linked
  <2>2. NoDanglingRows
      BY NoneAssumption DEF Init, NoDanglingRows
  <2> QED BY <2>1, <2>2
<1> QED
    BY <1>1, TypeCorrect, DanglingInductive, PTL DEF Spec

-----------------------------------------------------------------------------
(* Covers *)

\* CoverIsItem is inductive over the types.
LEMMA CoverInductive ==
    TypeOK /\ NoDanglingRows /\ CoverIsItem /\ [Next]_vars => CoverIsItem'
<1> SUFFICES ASSUME TypeOK, NoDanglingRows, CoverIsItem, [Next]_vars,
                    NEW g \in Highlights, cover'[g] # None
             PROVE  \/ \E i \in items' : i.h = g /\ i.s = cover'[g]
                    \/ \E q \in Requests : /\ step'[q] \in {"select_max", "insert_item"}
                                           /\ arg'[q] = g /\ story'[q] = cover'[g]
                    \/ <<g, cover'[g]>> \in abandoned'
    BY DEF CoverIsItem
<1> DEFINE Backed == \/ \E i \in items : i.h = g /\ i.s = cover[g]
                     \/ \E q \in Requests : /\ step[q] \in {"select_max", "insert_item"}
                                            /\ arg[q] = g /\ story[q] = cover[g]
                     \/ <<g, cover[g]>> \in abandoned
<1> USE DEF TypeOK
<1>0. cover[g] # None => Backed
    BY DEF CoverIsItem
<1> HIDE DEF CoverIsItem
<1>1. ASSUME NEW s \in Stories, create_story(s) PROVE Backed'
    BY <1>0, <1>1 DEF create_story
<1>2. ASSUME NEW s \in Stories, Expire(s) PROVE Backed'
    BY <1>0, <1>2 DEF Expire
<1>3. ASSUME NEW s \in Stories, delete_story(s) PROVE Backed'
    BY <1>0, <1>3 DEF delete_story, Remove, Exists
<1>4. ASSUME cleanup_stories PROVE Backed'
    BY <1>0, <1>4 DEF cleanup_stories, Remove, Exists
<1>5. ASSUME NEW s \in Stories, NEW u \in Users, remove_reaction(s, u) PROVE Backed'
    BY <1>0, <1>5 DEF remove_reaction
<1>6. ASSUME NEW r \in Requests, NEW s \in Stories, NEW u \in Users, mark_story_seen(r, s, u) PROVE Backed'
    BY <1>0, <1>6 DEF mark_story_seen, Begin, rows
<1>7. ASSUME NEW r \in Requests, NEW s \in Stories, NEW u \in Users, add_story_reaction(r, s, u) PROVE Backed'
    BY <1>0, <1>7 DEF add_story_reaction, Begin, rows
<1>8. ASSUME NEW r \in Requests, NEW s \in Stories, NEW h \in Highlights, add_to_highlight(r, s, h) PROVE Backed'
    BY <1>0, <1>8 DEF add_to_highlight, Begin, rows, Exists
<1>9. ASSUME NEW r \in Requests, mark_seen(r) PROVE Backed'
    BY <1>0, <1>9 DEF mark_seen, Done, Exists
<1>10. ASSUME NEW r \in Requests, add_reaction(r) PROVE Backed'
    BY <1>0, <1>10 DEF add_reaction, Done, Exists
<1>11. ASSUME NEW r \in Requests, UpsertHighlight(r) PROVE Backed'
    BY <1>0, <1>11 DEF UpsertHighlight, Done, Exists
<1>12. ASSUME NEW r \in Requests, SelectMax(r) PROVE Backed'
    BY <1>0, <1>12 DEF SelectMax, Positions, rows
<1>13. ASSUME NEW r \in Requests, InsertItem(r) PROVE Backed'
    <2>1. cover' = cover /\ abandoned' = abandoned /\ items \subseteq items'
        BY <1>13 DEF InsertItem
    <2>2. CASE arg[r] = g /\ story[r] = cover[g]
        <3>1. Exists(cover[g])
            BY <2>1 DEF NoDanglingRows
        <3>2. CASE \E i \in items : i.h = g /\ i.s = cover[g]
            BY <2>1, <3>2
        <3>3. CASE ~\E i \in items : i.h = g /\ i.s = cover[g]
            <4> DEFINE new == [h |-> g, s |-> cover[g], position |-> position[r]]
            <4>1. new \in items'
                BY <1>13, <2>2, <3>1, <3>3 DEF InsertItem
            <4>2. new.h = g /\ new.s = cover[g]
                OBVIOUS
            <4> HIDE DEF new
            <4> QED
                BY <2>1, <4>1, <4>2
        <3> QED
            BY <3>2, <3>3
    <2>3. CASE ~(arg[r] = g /\ story[r] = cover[g])
        BY <1>0, <1>13, <2>1, <2>3 DEF InsertItem, Done
    <2> QED
        BY <2>2, <2>3
<1>14. ASSUME NEW r \in Requests, RequestDies(r) PROVE Backed'
    BY <1>0, <1>14 DEF RequestDies, Done, rows
<1>15. CASE UNCHANGED vars
    BY <1>0, <1>15 DEF vars, rows
<1> HIDE DEF TypeOK
<1> QED
    BY <1>1, <1>2, <1>3, <1>4, <1>5, <1>6, <1>7, <1>8, <1>9, <1>10, <1>11, <1>12, <1>13, <1>14, <1>15, ZenonT(30) DEF Next

\* A highlight's cover is one of its stories, or the add that chose it is not
\* over or died half-way.
THEOREM CoverIsItemHolds == Spec => []CoverIsItem
<1>1. Init => CoverIsItem
    BY DEF Init, CoverIsItem
<1> QED
    BY <1>1, TypeCorrect, NoDanglingRowsHolds, CoverInductive, PTL DEF Spec

-----------------------------------------------------------------------------
(* Counters *)

\* One new row of a story adds one to the number of its rows and to no other.
LEMMA OneRowMore ==
    ASSUME NEW S, IsFiniteSet(S), NEW s, NEW u, <<s, u>> \notin S
    PROVE  /\ IsFiniteSet(S \cup {<<s, u>>})
           /\ Cardinality(Of(S \cup {<<s, u>>}, s)) = Cardinality(Of(S, s)) + 1
           /\ \A t : t # s => Of(S \cup {<<s, u>>}, t) = Of(S, t)
<1>1. IsFiniteSet(Of(S, s)) /\ <<s, u>> \notin Of(S, s)
    BY FS_Subset DEF Of
<1>2. Of(S \cup {<<s, u>>}, s) = Of(S, s) \cup {<<s, u>>}
    BY DEF Of
<1>3. \A t : t # s => Of(S \cup {<<s, u>>}, t) = Of(S, t)
    BY DEF Of
<1> QED
    BY <1>1, <1>2, <1>3, FS_AddElement, ZenonT(30)

\* One row of a story less takes one from the number of its rows and from no
\* other.
LEMMA OneRowLess ==
    ASSUME NEW S, IsFiniteSet(S), NEW s, NEW u, <<s, u>> \in S
    PROVE  /\ IsFiniteSet(S \ {<<s, u>>})
           /\ Cardinality(Of(S, s)) \in Nat
           /\ Cardinality(Of(S, s)) > 0
           /\ Cardinality(Of(S \ {<<s, u>>}, s)) = Cardinality(Of(S, s)) - 1
           /\ \A t : t # s => Of(S \ {<<s, u>>}, t) = Of(S, t)
<1>1. IsFiniteSet(Of(S, s)) /\ <<s, u>> \in Of(S, s) /\ Of(S, s) # {}
    BY FS_Subset DEF Of
<1>2. Of(S \ {<<s, u>>}, s) = Of(S, s) \ {<<s, u>>}
    BY DEF Of
<1>3. \A t : t # s => Of(S \ {<<s, u>>}, t) = Of(S, t)
    BY DEF Of
<1>4. Cardinality(Of(S, s)) \in Nat /\ Cardinality(Of(S, s)) # 0
    BY <1>1, FS_CardinalityType, FS_EmptySet
<1>5. IsFiniteSet(S \ {<<s, u>>})
    BY FS_Subset
<1>6. Cardinality(Of(S, s) \ {<<s, u>>}) = Cardinality(Of(S, s)) - 1
    BY <1>1, FS_RemoveElement, ZenonT(30)
<1>7. Cardinality(Of(S, s)) > 0
    BY <1>4
<1>8. Cardinality(Of(S \ {<<s, u>>}, s)) = Cardinality(Of(S, s)) - 1
    BY <1>2, <1>6
<1> QED
    BY <1>3, <1>4, <1>5, <1>7, <1>8

\* Deleting the rows of some stories leaves those of the others alone.
LEMMA RowsOfRemoved ==
    ASSUME NEW S, IsFiniteSet(S), NEW Old
    PROVE  /\ IsFiniteSet({v \in S : v[1] \notin Old})
           /\ \A s : Of({v \in S : v[1] \notin Old}, s) = IF s \in Old THEN {} ELSE Of(S, s)
<1>1. IsFiniteSet({v \in S : v[1] \notin Old})
    BY FS_Subset
<1> QED
    BY <1>1 DEF Of

\* CountsMatchRows is inductive over the types, as long as the row sets are finite.
LEMMA CountsInductive ==
    TypeOK /\ RowsFinite /\ CountsMatchRows /\ [Next]_vars => RowsFinite' /\ CountsMatchRows'
<1> SUFFICES ASSUME TypeOK, RowsFinite, CountsMatchRows, [Next]_vars
             PROVE  RowsFinite' /\ CountsMatchRows'
    OBVIOUS
<1> USE DEF RowsFinite, CountsMatchRows
<1>0. Cardinality({}) = 0
    BY FS_EmptySet
<1>r. ASSUME NEW Old \in SUBSET Stories, NEW how, Remove(Old, how)
      PROVE  RowsFinite' /\ CountsMatchRows'
    <2>v. /\ IsFiniteSet(views')
          /\ \A s : Of(views', s) = IF s \in Old THEN {} ELSE Of(views, s)
        <3>1. views' = {v \in views : v[1] \notin Old}
            BY <1>r DEF Remove
        <3>2. /\ IsFiniteSet({v \in views : v[1] \notin Old})
              /\ \A s : Of({v \in views : v[1] \notin Old}, s)
                         = IF s \in Old THEN {} ELSE Of(views, s)
            <4> HIDE DEF CountsMatchRows
            <4> QED
                BY RowsOfRemoved, ZenonT(30)
        <3> QED
            BY <3>1, <3>2
    <2>1. /\ IsFiniteSet(reactions')
          /\ \A s : Of(reactions', s) = IF s \in Old THEN {} ELSE Of(reactions, s)
        <3>1. reactions' = {v \in reactions : v[1] \notin Old}
            BY <1>r DEF Remove
        <3>2. /\ IsFiniteSet({v \in reactions : v[1] \notin Old})
              /\ \A s : Of({v \in reactions : v[1] \notin Old}, s)
                         = IF s \in Old THEN {} ELSE Of(reactions, s)
            <4> HIDE DEF CountsMatchRows
            <4> QED
                BY RowsOfRemoved, ZenonT(30)
        <3> QED
            BY <3>1, <3>2
    <2>2. \A s \in Stories : /\ view_count'[s] = IF s \in Old THEN 0 ELSE view_count[s]
                             /\ reaction_count'[s] = IF s \in Old THEN 0 ELSE reaction_count[s]
        BY <1>r DEF Remove
    <2> QED
        BY <1>0, <2>v, <2>1, <2>2
<1>1. ASSUME NEW s \in Stories, create_story(s) PROVE RowsFinite' /\ CountsMatchRows'
    BY <1>1 DEF create_story
<1>2. ASSUME NEW s \in Stories, Expire(s) PROVE RowsFinite' /\ CountsMatchRows'
    BY <1>2 DEF Expire
<1>3. ASSUME NEW s \in Stories, delete_story(s) PROVE RowsFinite' /\ CountsMatchRows'
    BY <1>3, <1>r DEF delete_story
<1>4. ASSUME cleanup_stories PROVE RowsFinite' /\ CountsMatchRows'
    BY <1>4, <1>r DEF cleanup_stories
<1>5. ASSUME NEW s \in Stories, NEW u \in Users, remove_reaction(s, u) PROVE RowsFinite' /\ CountsMatchRows'
    <2>1. /\ IsFiniteSet(reactions')
          /\ Cardinality(Of(reactions, s)) \in Nat /\ Cardinality(Of(reactions, s)) > 0
          /\ Cardinality(Of(reactions', s)) = Cardinality(Of(reactions, s)) - 1
          /\ \A t : t # s => Of(reactions', t) = Of(reactions, t)
        <3>1. <<s, u>> \in reactions /\ reactions' = reactions \ {<<s, u>>}
            BY <1>5 DEF remove_reaction
        <3> HIDE DEF CountsMatchRows
        <3> QED
            BY <3>1, OneRowLess
    <2>2. reaction_count'[s] = reaction_count[s] - 1
        BY <1>5, <2>1 DEF remove_reaction, TypeOK
    <2>3. \A t \in Stories : reaction_count'[t] = Cardinality(Of(reactions', t))
        BY <1>5, <2>1, <2>2, ZenonT(30) DEF remove_reaction, TypeOK
    <2> QED
        BY <1>5, <2>1, <2>3 DEF remove_reaction
<1>6. ASSUME NEW r \in Requests, NEW s \in Stories, NEW u \in Users, mark_story_seen(r, s, u) PROVE RowsFinite' /\ CountsMatchRows'
    BY <1>6 DEF mark_story_seen, Begin, rows
<1>7. ASSUME NEW r \in Requests, NEW s \in Stories, NEW u \in Users, add_story_reaction(r, s, u) PROVE RowsFinite' /\ CountsMatchRows'
    BY <1>7 DEF add_story_reaction, Begin, rows
<1>8. ASSUME NEW r \in Requests, NEW s \in Stories, NEW h \in Highlights, add_to_highlight(r, s, h) PROVE RowsFinite' /\ CountsMatchRows'
    BY <1>8 DEF add_to_highlight, Begin, rows
<1>9. ASSUME NEW r \in Requests, mark_seen(r) PROVE RowsFinite' /\ CountsMatchRows'
    <2>1. reactions' = reactions /\ reaction_count' = reaction_count
        BY <1>9 DEF mark_seen
    <2>2. CASE views' = views /\ view_count' = view_count
        BY <2>1, <2>2
    <2>3. CASE /\ <<story[r], arg[r]>> \notin views
               /\ views' = views \cup {<<story[r], arg[r]>>}
               /\ view_count' = [view_count EXCEPT ![story[r]] = @ + 1]
        <3>1. /\ IsFiniteSet(views')
              /\ Cardinality(Of(views', story[r])) = Cardinality(Of(views, story[r])) + 1
              /\ \A t : t # story[r] => Of(views', t) = Of(views, t)
            <4> HIDE DEF CountsMatchRows
            <4> QED
                BY <2>3, OneRowMore
        <3>2. \A t \in Stories : view_count'[t] = Cardinality(Of(views', t))
            BY <2>3, <3>1, ZenonT(30) DEF TypeOK
        <3> QED
            BY <2>1, <3>1, <3>2
    <2> QED
        BY <1>9, <2>2, <2>3 DEF mark_seen
<1>10. ASSUME NEW r \in Requests, add_reaction(r) PROVE RowsFinite' /\ CountsMatchRows'
    <2>1. views' = views /\ view_count' = view_count
        BY <1>10 DEF add_reaction
    <2>2. CASE reactions' = reactions /\ reaction_count' = reaction_count
        BY <2>1, <2>2
    <2>3. CASE /\ <<story[r], arg[r]>> \notin reactions
               /\ reactions' = reactions \cup {<<story[r], arg[r]>>}
               /\ reaction_count' = [reaction_count EXCEPT ![story[r]] = @ + 1]
        <3>1. /\ IsFiniteSet(reactions')
              /\ Cardinality(Of(reactions', story[r])) = Cardinality(Of(reactions, story[r])) + 1
              /\ \A t : t # story[r] => Of(reactions', t) = Of(reactions, t)
            <4> HIDE DEF CountsMatchRows
            <4> QED
                BY <2>3, OneRowMore
        <3>2. \A t \in Stories : reaction_count'[t] = Cardinality(Of(reactions', t))
            BY <2>3, <3>1, ZenonT(30) DEF TypeOK
        <3> QED
            BY <2>1, <3>1, <3>2
    <2> QED
        BY <1>10, <2>2, <2>3 DEF add_reaction
<1>11. ASSUME NEW r \in Requests, UpsertHighlight(r) PROVE RowsFinite' /\ CountsMatchRows'
    BY <1>11 DEF UpsertHighlight
<1>12. ASSUME NEW r \in Requests, SelectMax(r) PROVE RowsFinite' /\ CountsMatchRows'
    BY <1>12 DEF SelectMax, rows
<1>13. ASSUME NEW r \in Requests, InsertItem(r) PROVE RowsFinite' /\ CountsMatchRows'
    BY <1>13 DEF InsertItem
<1>14. ASSUME NEW r \in Requests, RequestDies(r) PROVE RowsFinite' /\ CountsMatchRows'
    BY <1>14 DEF RequestDies, rows
<1>15. CASE UNCHANGED vars
    BY <1>15 DEF vars, rows
<1> HIDE DEF RowsFinite, CountsMatchRows
<1> QED
    BY <1>1, <1>2, <1>3, <1>4, <1>5, <1>6, <1>7, <1>8, <1>9, <1>10, <1>11, <1>12, <1>13, <1>14, <1>15, ZenonT(30) DEF Next

\* The counters that three statements keep by hand never differ from the rows
\* they count, for any number of viewers and of overlapping requests.
THEOREM CountsMatchRowsHolds == Spec => []CountsMatchRows
<1>1. Init => RowsFinite /\ CountsMatchRows
    BY FS_EmptySet DEF Init, RowsFinite, CountsMatchRows, Of
<1> QED
    BY <1>1, TypeCorrect, CountsInductive, PTL DEF Spec

-----------------------------------------------------------------------------
(* The listings: what pagination guarantees for lists of any size, any limits and any  *)
(* concurrent inserts and deletes.                                                     *)

\* While the walk goes on, the cursor separates what was shown from the rest.
Behind ==
    walk = "more" =>
        /\ \A k \in got \cup page : k > cursor
        /\ \A k \in steady : k \in got \cup page \cup popped \/ k < cursor

\* A client that has not asked yet holds nothing.
Fresh == walk = "new" => got = {} /\ page = {}

\* Rows that were there all along are there.
SteadyListed == steady \subseteq list

Walked == NoRepeats /\ OnlyPoppedSkipped /\ Behind /\ Fresh

\* Every request preserves the types.
LEMMA PageTyped == WalkOK /\ [WalkNext]_walkVars => WalkOK'
<1> SUFFICES ASSUME WalkOK, [WalkNext]_walkVars PROVE WalkOK'
    OBVIOUS
<1> USE DEF WalkOK, client
<1>1. ASSUME NEW k \in Keys, InsertRow(k) PROVE WalkOK'
    BY <1>1 DEF InsertRow
<1>2. ASSUME NEW k \in Keys, DeleteRow(k) PROVE WalkOK'
    BY <1>2 DEF DeleteRow
<1>3. ASSUME NEW limit \in Limits, FirstPage(limit) PROVE WalkOK'
    BY <1>3 DEF FirstPage, Page, Top, Beyond
<1>4. ASSUME NEW limit \in Limits, NextPage(limit) PROVE WalkOK'
    BY <1>4 DEF NextPage, Page, Top, Beyond
<1>5. CASE Restart
    BY <1>5 DEF Restart
<1>6. CASE UNCHANGED walkVars
    BY <1>6 DEF walkVars
<1> QED
    BY <1>1, <1>2, <1>3, <1>4, <1>5, <1>6 DEF WalkNext

\* The types of Paging hold in every reachable state; a walk that goes on has a
\* cursor.
THEOREM WalkTypeCorrect == WalkSpec => []WalkOK
<1>1. WalkInit => WalkOK
    BY DEF WalkInit, WalkOK
<1> QED
    BY <1>1, PageTyped, PTL DEF WalkSpec

-----------------------------------------------------------------------------
\* One page, asked for beyond c: when all that the client holds sorts before c,
\* and the steady rows it neither holds nor had popped sort beyond c, the page
\* is new to it and the same is true of the next cursor.
LEMMA PageStep ==
    ASSUME WalkOK, NEW c \in Keys \cup {End}, NEW limit \in Limits, Page(c, limit),
           \A k \in got \cup page : c # End /\ k > c,
           \A k \in steady' : /\ k \in list
                              /\ k \in got \cup page \cup popped \/ c = End \/ k < c
    PROVE  Walked'
<1> USE KeysAssumption, EndAssumption
<1>1. PICK result \in Top(Beyond(c), limit + 1) :
          \/ /\ Cardinality(result) > limit
             /\ \E extra \in result :
                   /\ \A k \in result : extra <= k
                   /\ page' = result \ {extra}
                   /\ popped' = popped \cup {extra}
                   /\ cursor' = extra
             /\ walk' = "more"
          \/ /\ Cardinality(result) <= limit
             /\ page' = result
             /\ cursor' = End
             /\ walk' = "done"
             /\ UNCHANGED popped
    BY DEF Page
<1>2. /\ result \subseteq Beyond(c)
      /\ \A k \in result, m \in Beyond(c) \ result : m < k
      /\ Cardinality(result) = limit + 1 \/ result = Beyond(c)
    BY DEF Top
<1>3. result \subseteq Keys /\ got \cup page \subseteq Keys /\ got' = got \cup page
    BY <1>2 DEF Page, Beyond, WalkOK
<1>s. ASSUME NEW k \in result, NEW m \in got \cup page PROVE m > k
    <2>1. c # End /\ m > c
        OBVIOUS
    <2>2. k < c
        BY <1>2, <2>1 DEF Beyond
    <2>3. c \in Nat /\ k \in Nat /\ m \in Nat
        BY <1>3, <2>1, Zenon
    <2> QED
        BY <2>1, <2>2, <2>3
<1>4. result \cap (got \cup page) = {}
    <2> SUFFICES ASSUME NEW k \in result, k \in got \cup page PROVE FALSE
        OBVIOUS
    <2>1. k > k /\ k \in Nat
        BY <1>3, <1>s
    <2> QED
        BY <2>1
<1>5. \A k \in steady' : k \in got \cup page \cup popped \/ k \in Beyond(c)
    BY DEF Beyond
<1>6. CASE walk' = "more"
    <2>1. PICK extra \in result : /\ \A k \in result : extra <= k
                                  /\ page' = result \ {extra}
                                  /\ popped' = popped \cup {extra}
                                  /\ cursor' = extra
        BY <1>1, <1>6
    <2>2. NoRepeats' /\ OnlyPoppedSkipped' /\ Fresh'
        BY <1>3, <1>4, <1>6, <2>1 DEF NoRepeats, OnlyPoppedSkipped, Fresh
    <2>3. \A k \in got' \cup page' : k > cursor'
        <3>1. \A k \in result \ {extra} : k > extra
            BY <1>3, <2>1
        <3>2. \A k \in got \cup page : k > extra
            BY <1>s
        <3> QED
            BY <1>3, <2>1, <3>1, <3>2, Zenon
    <2>4. \A k \in steady' : k \in got' \cup page' \cup popped' \/ k < cursor'
        BY <1>2, <1>3, <1>5, <2>1, Zenon
    <2> QED
        BY <2>2, <2>3, <2>4 DEF Walked, Behind
<1>7. CASE walk' = "done"
    <2>1. Cardinality(result) <= limit /\ page' = result /\ popped' = popped
        BY <1>1, <1>7
    <2>2. result = Beyond(c)
        BY <1>2, <2>1, LimitsAssumption
    <2> QED
        BY <1>3, <1>4, <1>5, <1>7, <2>1, <2>2
        DEF Walked, NoRepeats, OnlyPoppedSkipped, Behind, Fresh
<1> QED
    BY <1>1, <1>6, <1>7

\* The walk keeps its place across every step.
LEMMA WalkInductive ==
    WalkOK /\ SteadyListed /\ Walked /\ [WalkNext]_walkVars => SteadyListed' /\ Walked'
<1> SUFFICES ASSUME WalkOK, SteadyListed, Walked, [WalkNext]_walkVars
             PROVE  SteadyListed' /\ Walked'
    OBVIOUS
<1> USE DEF SteadyListed
<1>1. ASSUME NEW k \in Keys, InsertRow(k) PROVE SteadyListed' /\ Walked'
    BY <1>1 DEF InsertRow, client, Walked, NoRepeats, OnlyPoppedSkipped, Behind, Fresh
<1>2. ASSUME NEW k \in Keys, DeleteRow(k) PROVE SteadyListed' /\ Walked'
    BY <1>2 DEF DeleteRow, client, Walked, NoRepeats, OnlyPoppedSkipped, Behind, Fresh
<1>3. ASSUME NEW limit \in Limits, FirstPage(limit) PROVE SteadyListed' /\ Walked'
    <2>1. got \cup page = {} /\ steady' = list /\ list' = list /\ Page(End, limit)
        BY <1>3 DEF FirstPage, Walked, Fresh
    <2> QED
        BY <2>1, PageStep
<1>4. ASSUME NEW limit \in Limits, NextPage(limit) PROVE SteadyListed' /\ Walked'
    <2>1. /\ cursor \in Keys /\ steady' = steady /\ list' = list /\ Page(cursor, limit)
          /\ \A k \in got \cup page : k > cursor
          /\ \A k \in steady : k \in got \cup page \cup popped \/ k < cursor
        BY <1>4 DEF NextPage, WalkOK, Walked, Behind
    <2>2. cursor # End
        BY <2>1, KeysAssumption, EndAssumption
    <2> QED
        BY <2>1, <2>2, PageStep
<1>5. CASE Restart
    BY <1>5 DEF Restart, Walked, NoRepeats, OnlyPoppedSkipped, Behind, Fresh
<1>6. CASE UNCHANGED walkVars
    BY <1>6 DEF walkVars, client, Walked, NoRepeats, OnlyPoppedSkipped, Behind, Fresh
<1> QED
    BY <1>1, <1>2, <1>3, <1>4, <1>5, <1>6 DEF WalkNext

\* The two parts of the inductive invariant hold in every reachable state.
LEMMA WalkInvariant == WalkSpec => [](SteadyListed /\ Walked)
<1>1. WalkInit => SteadyListed /\ Walked
    BY DEF WalkInit, SteadyListed, Walked, NoRepeats, OnlyPoppedSkipped, Behind, Fresh
<1> QED
    BY <1>1, WalkTypeCorrect, WalkInductive, PTL DEF WalkSpec

\* No page of a walk repeats a row of an earlier one.
THEOREM NoRepeatsHolds == WalkSpec => []NoRepeats
<1>1. Walked => NoRepeats
    BY DEF Walked
<1> QED
    BY <1>1, WalkInvariant, PTL

\* A finished walk has missed, of the rows that were there all along, only rows
\* whose key was handed out as a next_cursor.
THEOREM OnlyPoppedSkippedHolds == WalkSpec => []OnlyPoppedSkipped
<1>1. Walked => OnlyPoppedSkipped
    BY DEF Walked
<1> QED
    BY <1>1, WalkInvariant, PTL

=============================================================================
