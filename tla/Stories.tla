------------------------------ MODULE Stories ------------------------------
(***************************************************************************)
(* Stories, their views, reactions and highlights (app/stories.rs, the     *)
(* story handlers, and the story clean-up of jobs/cleanup.rs).             *)
(*                                                                         *)
(* A single SQL statement is one step: the unique indexes and the UPDATE   *)
(* of a counter act on the latest committed rows, whatever runs beside it. *)
(* The exception is the INSERT ... SELECT MAX(position) + 1 of             *)
(* add_to_highlight, whose SELECT reads a snapshot taken before another    *)
(* statement commits: it is two steps. Handlers that issue several         *)
(* statements outside a transaction are interleaved between them.          *)
(*                                                                         *)
(* One owner's stories and highlights are modelled, since no statement     *)
(* touches those of two owners. Captions, emoji and media are left out:    *)
(* replacing an emoji changes no other state.                              *)
(***************************************************************************)
EXTENDS Integers, FiniteSets

CONSTANTS
    Stories,     \* story ids
    Users,       \* viewers
    Highlights,  \* highlight names of the owner
    Requests,    \* concurrent requests of more than one statement
    None

ASSUME NoneAssumption == None \notin Stories \cup Users \cup Highlights

VARIABLES
    status,          \* of each story; "deleted" by its owner, "cleaned" by the clean-up
    views,           \* rows of story_views: <<story, viewer>>
    view_count,
    reactions,       \* rows of story_reactions: <<story, user>>
    reaction_count,
    highlights,      \* rows of story_highlights
    cover,           \* their cover_story_id
    items,           \* rows of story_highlight_items
    step,            \* the next statement of each request
    story,           \* the story it is about
    arg,             \* its caller, or the name of the highlight it adds to
    position,        \* the position that its INSERT ... SELECT has computed
    abandoned        \* <<highlight, story>> whose add died before its last statement

rows == <<status, views, view_count, reactions, reaction_count, highlights, cover, items>>
vars == <<rows, step, story, arg, position, abandoned>>

Item == [h : Highlights, s : Stories, position : Nat]

TypeOK ==
    /\ status \in [Stories -> {"none", "active", "expired", "deleted", "cleaned"}]
    /\ views \in SUBSET (Stories \X Users)
    /\ view_count \in [Stories -> Nat]
    /\ reactions \in SUBSET (Stories \X Users)
    /\ reaction_count \in [Stories -> Nat]
    /\ highlights \in SUBSET Highlights
    /\ cover \in [Highlights -> Stories \cup {None}]
    /\ items \in SUBSET Item
    /\ step \in [Requests -> {"idle", "mark_seen", "add_reaction",
                              "upsert", "select_max", "insert_item"}]
    /\ story \in [Requests -> Stories \cup {None}]
    /\ arg \in [Requests -> Users \cup Highlights \cup {None}]
    /\ position \in [Requests -> Nat]
    /\ abandoned \in SUBSET (Highlights \X Stories)
    /\ \A r \in Requests :
          /\ step[r] # "idle" => story[r] \in Stories
          /\ step[r] \in {"mark_seen", "add_reaction"} => arg[r] \in Users
          /\ step[r] \in {"upsert", "select_max", "insert_item"} => arg[r] \in Highlights

Init ==
    /\ status = [s \in Stories |-> "none"]
    /\ views = {} /\ reactions = {}
    /\ view_count = [s \in Stories |-> 0]
    /\ reaction_count = [s \in Stories |-> 0]
    /\ highlights = {} /\ items = {}
    /\ cover = [h \in Highlights |-> None]
    /\ step = [r \in Requests |-> "idle"]
    /\ story = [r \in Requests |-> None]
    /\ arg = [r \in Requests |-> None]
    /\ position = [r \in Requests |-> 0]
    /\ abandoned = {}

\* The story has a row. Foreign keys to it can be satisfied.
Exists(s) == status[s] \in {"active", "expired"}

-----------------------------------------------------------------------------
(* Requests. *)

Begin(r, label, s, a) ==
    /\ step[r] = "idle"
    /\ step' = [step EXCEPT ![r] = label]
    /\ story' = [story EXCEPT ![r] = s]
    /\ arg' = [arg EXCEPT ![r] = a]
    /\ UNCHANGED <<rows, position, abandoned>>

\* Mutation of Done: the finished request keeps its place.
Done_KeepsStep(r) ==
    /\ story' = [story EXCEPT ![r] = None]
    /\ arg' = [arg EXCEPT ![r] = None]
    /\ position' = [position EXCEPT ![r] = 0]
    /\ UNCHANGED step

\* The answer, or an error, has been returned.
Done(r) ==
    /\ step' = [step EXCEPT ![r] = "idle"]
    /\ story' = [story EXCEPT ![r] = None]
    /\ arg' = [arg EXCEPT ![r] = None]
    /\ position' = [position EXCEPT ![r] = 0]

\* The process stops, or the client goes away, before the next statement.
RequestDies(r) ==
    /\ step[r] # "idle"
    /\ abandoned' = IF step[r] \in {"select_max", "insert_item"}
                      THEN abandoned \cup {<<arg[r], story[r]>>} ELSE abandoned
    /\ Done(r)
    /\ UNCHANGED rows

-----------------------------------------------------------------------------
(* Stories come and go. *)

\* The media row is checked first; it cannot vanish in between, its foreign
\* key would refuse the story.
create_story(s) ==
    /\ status[s] = "none"
    /\ status' = [status EXCEPT ![s] = "active"]
    /\ UNCHANGED <<views, view_count, reactions, reaction_count, highlights, cover, items,
                   step, story, arg, position, abandoned>>

\* expires_at passes.
Expire(s) ==
    /\ status[s] = "active"
    /\ status' = [status EXCEPT ![s] = "expired"]
    /\ UNCHANGED <<views, view_count, reactions, reaction_count, highlights, cover, items,
                   step, story, arg, position, abandoned>>

\* Mutation of Remove: the cover of a highlight is not reset (no ON DELETE).
Remove_KeepsCover(S, how) ==
    /\ status' = [s \in Stories |-> IF s \in S THEN how ELSE status[s]]
    /\ view_count' = [s \in Stories |-> IF s \in S THEN 0 ELSE view_count[s]]
    /\ reaction_count' = [s \in Stories |-> IF s \in S THEN 0 ELSE reaction_count[s]]
    /\ views' = {v \in views : v[1] \notin S}
    /\ reactions' = {v \in reactions : v[1] \notin S}
    /\ items' = {i \in items : i.s \notin S}
    /\ UNCHANGED <<highlights, cover, step, story, arg, position, abandoned>>

\* DELETE FROM stories, with the ON DELETE CASCADE of views, reactions and
\* highlight items and the ON DELETE SET NULL of covers.
Remove(S, how) ==
    /\ status' = [s \in Stories |-> IF s \in S THEN how ELSE status[s]]
    /\ view_count' = [s \in Stories |-> IF s \in S THEN 0 ELSE view_count[s]]
    /\ reaction_count' = [s \in Stories |-> IF s \in S THEN 0 ELSE reaction_count[s]]
    /\ views' = {v \in views : v[1] \notin S}
    /\ reactions' = {v \in reactions : v[1] \notin S}
    /\ items' = {i \in items : i.s \notin S}
    /\ cover' = [h \in Highlights |-> IF cover[h] \in S THEN None ELSE cover[h]]
    /\ UNCHANGED <<highlights, step, story, arg, position, abandoned>>

delete_story(s) ==
    /\ Exists(s)
    /\ Remove({s}, "deleted")

\* The hourly clean-up: stories that expired more than 48 hours ago. Which of
\* the expired ones have is not tracked.
cleanup_stories ==
    \E Old \in SUBSET {s \in Stories : status[s] = "expired"} :
        /\ Old # {}
        /\ Remove(Old, "cleaned")

-----------------------------------------------------------------------------
(* Views and reactions. The handler first reads the story (get_story: not
   expired, not blocked, visible to the caller) and writes in a second
   statement. Who may see a story is not modelled: any viewer may. *)

mark_story_seen(r, s, u) ==
    /\ status[s] = "active"
    /\ Begin(r, "mark_seen", s, u)

add_story_reaction(r, s, u) ==
    /\ status[s] = "active"
    /\ Begin(r, "add_reaction", s, u)

\* Mutation of mark_seen: the counter moves on a repeated view too.
mark_seen_Repeated(r) ==
    LET s == story[r]
        row == <<s, arg[r]>>
    IN  /\ step[r] = "mark_seen"
        /\ IF Exists(s)
             THEN /\ views' = views \cup {row}
                  /\ view_count' = [view_count EXCEPT ![s] = @ + 1]
             ELSE UNCHANGED <<views, view_count>>
        /\ Done(r)
        /\ UNCHANGED <<status, reactions, reaction_count, highlights, cover, items, abandoned>>

\* INSERT ... ON CONFLICT DO NOTHING and the counter, in one statement. The
\* foreign key refuses it when the story has gone.
mark_seen(r) ==
    LET s == story[r]
        row == <<s, arg[r]>>
    IN  /\ step[r] = "mark_seen"
        /\ IF Exists(s) /\ row \notin views
             THEN /\ views' = views \cup {row}
                  /\ view_count' = [view_count EXCEPT ![s] = @ + 1]
             ELSE UNCHANGED <<views, view_count>>
        /\ Done(r)
        /\ UNCHANGED <<status, reactions, reaction_count, highlights, cover, items, abandoned>>

\* Mutation of add_reaction: written although the story has gone.
add_reaction_NoForeignKey(r) ==
    LET s == story[r]
        row == <<s, arg[r]>>
    IN  /\ step[r] = "add_reaction"
        /\ reactions' = reactions \cup {row}
        /\ IF row \notin reactions
             THEN reaction_count' = [reaction_count EXCEPT ![s] = @ + 1]
             ELSE UNCHANGED reaction_count
        /\ Done(r)
        /\ UNCHANGED <<status, views, view_count, highlights, cover, items, abandoned>>

\* The upsert, and the counter when the row is new (xmax = 0).
add_reaction(r) ==
    LET s == story[r]
        row == <<s, arg[r]>>
    IN  /\ step[r] = "add_reaction"
        /\ IF Exists(s) /\ row \notin reactions
             THEN /\ reactions' = reactions \cup {row}
                  /\ reaction_count' = [reaction_count EXCEPT ![s] = @ + 1]
             ELSE UNCHANGED <<reactions, reaction_count>>
        /\ Done(r)
        /\ UNCHANGED <<status, views, view_count, highlights, cover, items, abandoned>>

\* One statement, without a visibility check.
remove_reaction(s, u) ==
    /\ <<s, u>> \in reactions
    /\ reactions' = reactions \ {<<s, u>>}
    /\ reaction_count' =
          [reaction_count EXCEPT ![s] = IF @ - 1 > 0 THEN @ - 1 ELSE 0]
    /\ UNCHANGED <<status, views, view_count, highlights, cover, items,
                   step, story, arg, position, abandoned>>

-----------------------------------------------------------------------------
(* add_to_highlight: three statements, no transaction. *)

\* The story belongs to the caller; expired is good enough.
add_to_highlight(r, s, h) ==
    /\ Exists(s)
    /\ Begin(r, "upsert", s, h)

\* Creates the highlight with this story as its cover, or sets a missing cover.
\* Storing the story's id needs its row; a cover already set stays.
UpsertHighlight(r) ==
    LET s == story[r]
        h == arg[r]
    IN  /\ step[r] = "upsert"
        /\ \/ /\ cover[h] = None /\ Exists(s)
              /\ highlights' = highlights \cup {h}
              /\ cover' = [cover EXCEPT ![h] = s]
              /\ step' = [step EXCEPT ![r] = "select_max"]
              /\ UNCHANGED <<story, arg, position>>
           \/ /\ cover[h] # None
              /\ step' = [step EXCEPT ![r] = "select_max"]
              /\ UNCHANGED <<highlights, cover, story, arg, position>>
           \/ /\ cover[h] = None /\ ~Exists(s)
              /\ Done(r)
              /\ UNCHANGED <<highlights, cover>>
        /\ UNCHANGED <<status, views, view_count, reactions, reaction_count, items, abandoned>>

Positions(h) == {i.position : i \in {j \in items : j.h = h}}

\* SELECT COALESCE(MAX(position) + 1, 0)
SelectMax(r) ==
    LET taken == Positions(arg[r])
    IN  /\ step[r] = "select_max"
        /\ step' = [step EXCEPT ![r] = "insert_item"]
        /\ \E n \in {0} \cup {m + 1 : m \in taken} :
              /\ \A m \in taken : m < n
              /\ position' = [position EXCEPT ![r] = n]
        /\ UNCHANGED <<rows, story, arg, abandoned>>

\* The insert, unless the pair is there already or the story has gone.
InsertItem(r) ==
    LET s == story[r]
        h == arg[r]
    IN  /\ step[r] = "insert_item"
        /\ items' = IF Exists(s) /\ ~\E i \in items : i.h = h /\ i.s = s
                      THEN items \cup {[h |-> h, s |-> s, position |-> position[r]]}
                      ELSE items
        /\ Done(r)
        /\ UNCHANGED <<status, views, view_count, reactions, reaction_count,
                       highlights, cover, abandoned>>

-----------------------------------------------------------------------------
Next ==
    \/ \E s \in Stories : create_story(s) \/ Expire(s) \/ delete_story(s)
    \/ cleanup_stories
    \/ \E s \in Stories, u \in Users : remove_reaction(s, u)
    \/ \E r \in Requests, s \in Stories :
          \/ \E u \in Users : mark_story_seen(r, s, u) \/ add_story_reaction(r, s, u)
          \/ \E h \in Highlights : add_to_highlight(r, s, h)
    \/ \E r \in Requests :
          \/ mark_seen(r) \/ add_reaction(r)
          \/ UpsertHighlight(r) \/ SelectMax(r) \/ InsertItem(r)
          \/ RequestDies(r)

Spec == Init /\ [][Next]_vars

-----------------------------------------------------------------------------
(* Properties *)

Of(S, s) == {v \in S : v[1] = s}

\* view_count and reaction_count of a story are the numbers of its rows of
\* story_views and story_reactions, whatever views, repeated views, reactions
\* and removals overlap: they are kept by hand in three statements and no
\* trigger corrects them (migration 014). So GREATEST(... - 1, 0) never hides
\* a miscount.
CountsMatchRows ==
    \A s \in Stories :
        /\ view_count[s] = Cardinality(Of(views, s))
        /\ reaction_count[s] = Cardinality(Of(reactions, s))

\* A view, reaction, highlight item or cover never refers to a story that is
\* gone, although each is written in a later statement than the one that found
\* the story, and the owner or the clean-up may delete it in between.
NoDanglingRows ==
    /\ \A v \in views \cup reactions : Exists(v[1])
    /\ \A i \in items : Exists(i.s) /\ i.h \in highlights
    /\ \A h \in Highlights : cover[h] # None => h \in highlights /\ Exists(cover[h])

\* The cover of a highlight is one of its stories, or is about to be: the
\* request that set it has its insert still to run, or died before it.
\* add_to_highlight sets the cover before it adds the story, in a statement of
\* its own.
CoverIsItem ==
    \A h \in Highlights : cover[h] # None =>
        \/ \E i \in items : i.h = h /\ i.s = cover[h]
        \/ \E r \in Requests : /\ step[r] \in {"select_max", "insert_item"}
                               /\ arg[r] = h /\ story[r] = cover[h]
        \/ <<h, cover[h]>> \in abandoned

\* What the comment of add_to_highlight's INSERT says: two concurrent adds
\* cannot both read the same MAX, so no two stories of a highlight share a
\* position. It does not hold: both may take their snapshot before either
\* commits, and no unique index covers (highlight_id, position).
PositionsDistinct ==
    \A i, j \in items : i.h = j.h /\ i.position = j.position => i = j

\* What the documentation says of highlights: they are permanent, a story
\* leaves one only when its owner deletes the story. It does not hold: the
\* clean-up deletes the expired story, and its highlight items with it.
HighlightsPermanent ==
    [][\A i \in items \ items' : status'[i.s] = "deleted"]_vars

=============================================================================
