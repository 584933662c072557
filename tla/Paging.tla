------------------------------- MODULE Paging -------------------------------
(***************************************************************************)
(* Keyset pagination as every listing endpoint does it (followers, posts,  *)
(* likes, comments, notifications, stories, search, the home feed ...):    *)
(* the query takes limit + 1 rows beyond the cursor in the order of        *)
(* (created_at, id); the handler pops the extra row and hands its key out  *)
(* as next_cursor. One client walks a list that others change meanwhile.   *)
(* The definitions follow the likes of a post (like_post, unlike_post,     *)
(* list_likes, list_post_likes); the other listings repeat that code with  *)
(* their own tables.                                                       *)
(*                                                                         *)
(* Rows are their keys: numbers in the order of the listing, largest       *)
(* first. created_at is set when a transaction begins, so a row may appear *)
(* anywhere in the order when it commits.                                  *)
(***************************************************************************)
EXTENDS Integers, FiniteSets

CONSTANTS
    Keys,    \* the keys rows may have
    Limits,  \* the values of the limit parameter; 1 to 200 in the code
    End      \* no next_cursor

ASSUME KeysAssumption == Keys \subseteq Nat
ASSUME LimitsAssumption == Limits \subseteq Nat \ {0}
ASSUME EndAssumption == End \notin Nat

VARIABLES
    list,    \* keys of the rows the query can see
    walk,    \* "new", "more" (a next_cursor was returned) or "done"
    cursor,  \* the last next_cursor
    page,    \* the rows of the last page
    got,     \* the rows of the pages before it
    popped,  \* keys that were popped to become a next_cursor
    steady   \* rows there all the time since the walk began

client == <<walk, cursor, page, got, popped>>
walkVars == <<list, client, steady>>

WalkOK ==
    /\ list \in SUBSET Keys
    /\ walk \in {"new", "more", "done"}
    /\ cursor \in Keys \cup {End}
    /\ page \in SUBSET Keys
    /\ got \in SUBSET Keys
    /\ popped \in SUBSET Keys
    /\ steady \in SUBSET Keys
    /\ walk = "more" => cursor \in Keys

WalkInit ==
    /\ list \in SUBSET Keys
    /\ walk = "new" /\ cursor = End
    /\ page = {} /\ got = {} /\ popped = {}
    /\ steady = list

-----------------------------------------------------------------------------
(* Other requests insert and delete rows. A key may come back after its row was
   deleted, which real keys do not: the properties hold all the same. *)

InsertRow(k) ==
    /\ k \notin list
    /\ list' = list \cup {k}
    /\ UNCHANGED <<client, steady>>

DeleteRow(k) ==
    /\ k \in list
    /\ list' = list \ {k}
    /\ steady' = steady \ {k}
    /\ UNCHANGED client

-----------------------------------------------------------------------------
(* The listing. *)

\* Mutation of Beyond: the query ignores the cursor.
Beyond_NoCursor(c) == list

\* WHERE (created_at, id) < cursor
Beyond(c) == {k \in list : c = End \/ k < c}

\* The results ORDER BY ... DESC LIMIT n may have: the n largest, or all.
Top(S, n) ==
    {R \in SUBSET S :
        /\ \A k \in R, m \in S \ R : m < k
        /\ \/ Cardinality(R) = n
           \/ Cardinality(R) < n /\ R = S}

\* Mutation of Page: the query takes limit rows, so no page has an extra one.
Page_NoExtraRow(c, limit) ==
    /\ got' = got \cup page
    /\ \E rows \in Top(Beyond(c), limit) :
          /\ page' = rows
          /\ cursor' = End
          /\ walk' = "done"
          /\ UNCHANGED popped

\* Mutation of Page: the extra row is popped and its key is not handed out.
Page_CursorLost(c, limit) ==
    /\ got' = got \cup page
    /\ \E rows \in Top(Beyond(c), limit) :
          /\ page' = rows
          /\ cursor' = End
          /\ walk' = IF Cardinality(Beyond(c)) > limit THEN "more" ELSE "done"
          /\ UNCHANGED popped

\* limit + 1 rows; the extra one is popped and becomes the next_cursor.
Page(c, limit) ==
    /\ got' = got \cup page
    /\ \E rows \in Top(Beyond(c), limit + 1) :
          \/ /\ Cardinality(rows) > limit
             /\ \E extra \in rows :
                   /\ \A k \in rows : extra <= k
                   /\ page' = rows \ {extra}
                   /\ popped' = popped \cup {extra}
                   /\ cursor' = extra
             /\ walk' = "more"
          \/ /\ Cardinality(rows) <= limit
             /\ page' = rows
             /\ cursor' = End
             /\ walk' = "done"
             /\ UNCHANGED popped

FirstPage(limit) ==
    /\ walk = "new"
    /\ Page(End, limit)
    /\ steady' = list
    /\ UNCHANGED list

NextPage(limit) ==
    /\ walk = "more"
    /\ Page(cursor, limit)
    /\ UNCHANGED <<list, steady>>

\* The client starts over.
Restart ==
    /\ walk = "done"
    /\ walk' = "new" /\ cursor' = End
    /\ page' = {} /\ got' = {} /\ popped' = {}
    /\ UNCHANGED <<list, steady>>

WalkNext ==
    \/ \E k \in Keys : InsertRow(k) \/ DeleteRow(k)
    \/ \E limit \in Limits : FirstPage(limit) \/ NextPage(limit)
    \/ Restart

WalkSpec == WalkInit /\ [][WalkNext]_walkVars

LiveWalk == WalkSpec /\ WF_walkVars(\E limit \in Limits : FirstPage(limit) \/ NextPage(limit))

-----------------------------------------------------------------------------
(* Properties *)

\* No page repeats a row of an earlier page of the same walk, whatever is
\* inserted or deleted between the pages and however the limit changes.
NoRepeats == page \cap got = {}

\* A finished walk has shown every row that was there all along, except rows
\* whose key was used as a next_cursor: nothing else is lost at a page
\* boundary.
OnlyPoppedSkipped == walk = "done" => steady \subseteq got \cup page \cup popped

\* What the API guide says of next_cursor: passing it back continues where the
\* client left off. It does not hold: the popped row is on neither page, since
\* the next query takes the rows strictly beyond it.
NothingSkipped == walk = "done" => steady \subseteq got \cup page

\* A client that keeps asking for the next page comes to the end: every
\* next_cursor is strictly beyond the last.
WalkEnds == walk = "more" ~> walk = "done"

=============================================================================
