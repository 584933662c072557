-------------------------- MODULE FeedCacheProofs --------------------------
(***************************************************************************)
(* Proofs that the safety properties of FeedCache hold for any sets of     *)
(* users, entries and concurrent requests.                                 *)
(***************************************************************************)
EXTENDS FeedCache, SequenceTheorems, TLAPS

Item == [owner : Authors, kind : {"post", "story"}, limited : BOOLEAN]

\* A query that is about to be cached has an entry.
Shape == \A r \in Requests : pc[r] = "fill" => entry[r] \in Entries

\* Nobody blocks themselves.
Apart == \A u \in Users : <<u, u>> \notin blocks

CacheInv == TypeOK /\ Shape /\ Apart /\ StaleOnlyIfExcused

-----------------------------------------------------------------------------
(* Types *)

LEMMA ItemsTyped ==
    ASSUME TypeOK
    PROVE  /\ items \in Seq(Item) /\ Len(items) \in Nat /\ DOMAIN items = 1 .. Len(items)
           /\ \A i \in DOMAIN items : items[i] \in Item
<1>1. items \in Seq(Item)
    BY DEF TypeOK, Item
<1> HIDE DEF Item
<1> QED
    BY <1>1, ElementOfSeq, LenProperties

\* A page, and the empty one too, is told from an entry that is missing.
LEMMA PageNotMissing == ASSUME TypeOK, NEW S \in SUBSET DOMAIN items PROVE S # Missing
<1>1. 0 \notin DOMAIN items
    BY ItemsTyped
<1> QED
    BY <1>1 DEF Missing

LEMMA FeedTyped == TypeOK => \A e \in Entries : Feed(e) \in SUBSET DOMAIN items
    BY DEF TypeOK, Feed, HomeFeed, StoriesFeed

LEMMA EntryTyped == \A e \in Entries : e[1] \in Users
    BY EntriesAssumption

\* The INSERT of a post or a story.
LEMMA Published ==
    ASSUME TypeOK, NEW r \in Requests, NEW a \in Authors, NEW kind \in {"post", "story"},
           NEW limited \in BOOLEAN, NEW label, Publish(r, a, kind, limited, label)
    PROVE  /\ items' \in Seq(Item) /\ Len(items') = Len(items) + 1
           /\ DOMAIN items' = DOMAIN items \cup {Len(items) + 1}
           /\ \A i \in DOMAIN items : items'[i] = items[i]
           /\ items'[Len(items) + 1].owner = a /\ items'[Len(items) + 1].kind = kind
           /\ Len(items) + 1 \notin DOMAIN items
<1> DEFINE x == [owner |-> a, kind |-> kind, limited |-> limited]
<1>1. x \in Item /\ x.owner = a /\ x.kind = kind
    BY DEF Item
<1>2. items' = Append(items, x)
    BY DEF Publish
<1>3. items \in Seq(Item) /\ Len(items) \in Nat /\ DOMAIN items = 1 .. Len(items)
    BY ItemsTyped
<1> HIDE DEF Item, x
<1>4. /\ items' \in Seq(Item) /\ Len(items') = Len(items) + 1
      /\ \A i \in 1 .. Len(items) : items'[i] = items[i]
      /\ items'[Len(items) + 1] = x
    BY <1>1, <1>2, <1>3, AppendProperties
<1>5. DOMAIN items' = 1 .. Len(items')
    BY <1>4, LenProperties
<1> QED
    BY <1>1, <1>3, <1>4, <1>5

\* What Start, Done and the other changes of a request keep of its type.
RequestsOK ==
    /\ pc \in [Requests -> {"idle", "fill", "list_home", "list_stories", "delete"}]
    /\ user \in [Requests -> Users \cup {0}]
    /\ entry \in [Requests -> Entries \cup {<<>>}]
    /\ todo \in [Requests -> SUBSET Entries]
    /\ \A r \in Requests : todo[r] # {} => pc[r] = "delete"

LEMMA DoneTyped ==
    ASSUME TypeOK, Shape, NEW r \in Requests, Done(r)
    PROVE  /\ RequestsOK' /\ Shape' /\ page' \in [Requests -> SUBSET DOMAIN items]
           /\ pc'[r] = "idle" /\ todo'[r] = {}
           /\ \A q \in Requests \ {r} : pc'[q] = pc[q] /\ user'[q] = user[q] /\ todo'[q] = todo[q]
    BY DEF Done, TypeOK, RequestsOK, Shape

LEMMA StartTyped ==
    ASSUME TypeOK, Shape, NEW r \in Requests, NEW label \in {"list_home", "list_stories", "delete"},
           NEW u \in Users, NEW keys \in SUBSET Entries, keys # {} => label = "delete",
           Start(r, label, u, keys)
    PROVE  /\ RequestsOK' /\ Shape' /\ page' = page
           /\ pc'[r] = label /\ todo'[r] = keys /\ user'[r] = u
           /\ pc[r] = "idle" /\ todo[r] = {}
           /\ \A q \in Requests \ {r} : pc'[q] = pc[q] /\ user'[q] = user[q] /\ todo'[q] = todo[q]
    BY DEF Start, TypeOK, RequestsOK, Shape

\* Dropping an entry, and excusing some.
LEMMA DropTyped ==
    ASSUME TypeOK, NEW e \in Entries, Drop(e)
    PROVE  /\ cache' \in [Entries -> (SUBSET DOMAIN items) \cup {Missing}]
           /\ excused' \in SUBSET {f \in Entries : cache'[f] # Missing}
           /\ cache'[e] = Missing
           /\ \A f \in Entries \ {e} : cache'[f] = cache[f] /\ (f \in excused => f \in excused')
    BY DEF Drop, TypeOK

LEMMA ExcuseTyped ==
    ASSUME TypeOK, NEW S \in SUBSET Entries, Excuse(S)
    PROVE  /\ excused' \in SUBSET {f \in Entries : cache[f] # Missing}
           /\ excused \subseteq excused'
           /\ \A e \in S : cache[e] # Missing => e \in excused'
    BY DEF Excuse, TypeOK


\* The entries that an invalidation deletes.
LEMMA KeysTyped ==
    /\ \A u : OwnEntries(u) \in SUBSET Entries
    /\ \A a, home : Audience(a, home) \in SUBSET Entries
    BY DEF OwnEntries, Audience

\* How a follow, unfollow, block or unblock changes the relations of two users.
Relates(u, o) ==
    /\ follows' \in SUBSET (Users \X Users) /\ blocks' \in SUBSET (Users \X Users)
    /\ \A p \in Users \X Users : p \notin {<<u, o>>, <<o, u>>} =>
        (p \in follows' <=> p \in follows) /\ (p \in blocks' <=> p \in blocks)

LEMMA RelateSteps ==
    ASSUME TypeOK, NEW r \in Requests, NEW u \in Users, NEW o \in Users \ {u},
           \/ follow_user(r, u, o) \/ unfollow_user(r, u, o)
           \/ block_user(r, u, o) \/ unblock_user(r, u, o)
    PROVE  /\ Relates(u, o)
           /\ items' = items /\ live' = live /\ cache' = cache
           /\ Start(r, "delete", u, OwnEntries(u)) /\ Silently({o})
<1>1. PICK F, B : Relate(r, u, o, F, B) /\ F \in SUBSET (Users \X Users) /\ B \in SUBSET (Users \X Users)
                  /\ \A p \in Users \X Users : p \notin {<<u, o>>, <<o, u>>} =>
                        (p \in F <=> p \in follows) /\ (p \in B <=> p \in blocks)
    <2>1. CASE follow_user(r, u, o)
        <3>1. Relate(r, u, o, follows \cup {<<u, o>>}, blocks)
            BY <2>1 DEF follow_user
        <3> QED
            BY <3>1 DEF TypeOK
    <2>2. CASE unfollow_user(r, u, o)
        <3>1. Relate(r, u, o, follows \ {<<u, o>>}, blocks)
            BY <2>2 DEF unfollow_user
        <3> QED
            BY <3>1 DEF TypeOK
    <2>3. CASE block_user(r, u, o)
        <3>1. Relate(r, u, o, follows \ {<<u, o>>, <<o, u>>}, blocks \cup {<<u, o>>})
            BY <2>3 DEF block_user
        <3> QED
            BY <3>1 DEF TypeOK
    <2>4. CASE unblock_user(r, u, o)
        <3>1. Relate(r, u, o, follows, blocks \ {<<u, o>>})
            BY <2>4 DEF unblock_user
        <3> QED
            BY <3>1 DEF TypeOK
    <2> QED
        BY <2>1, <2>2, <2>3, <2>4
<1>2. follows' = F /\ blocks' = B
    BY <1>1 DEF Relate
<1> QED
    BY <1>1, <1>2 DEF Relate, Relates

\* Silently excuses the entries of these users whose page is no longer what the query returns.
LEMMA SilentlyTyped ==
    ASSUME TypeOK, NEW U, Silently(U)
    PROVE  /\ excused' \in SUBSET {f \in Entries : cache[f] # Missing}
           /\ excused \subseteq excused'
           /\ \A e \in Entries : e[1] \in U /\ cache[e] # Missing /\ cache[e] # Feed(e)' => e \in excused'
    BY DEF Silently, Excuse, TypeOK

LEMMA TypeInductive ==
    ASSUME TypeOK, Shape, Apart, [Next]_vars
    PROVE  TypeOK' /\ Shape' /\ Apart'
<1> DEFINE Good == TypeOK' /\ Shape' /\ Apart'
<1> SUFFICES Good
    OBVIOUS
<1> USE DEF tables, requests
<1>c. RequestsOK
    BY DEF TypeOK, RequestsOK
\* Steps that leave the tables.
<1>k. ASSUME UNCHANGED tables, RequestsOK', Shape', page' \in [Requests -> SUBSET DOMAIN items],
             cache' \in [Entries -> (SUBSET DOMAIN items) \cup {Missing}],
             excused' \in SUBSET {f \in Entries : cache'[f] # Missing}
      PROVE  Good
    BY <1>k DEF TypeOK, RequestsOK, Apart
<1>s. UNCHANGED requests => RequestsOK' /\ Shape' /\ page' \in [Requests -> SUBSET DOMAIN items]
    BY DEF TypeOK, RequestsOK, Shape
<1>x. UNCHANGED <<cache, excused>> =>
        /\ cache' \in [Entries -> (SUBSET DOMAIN items) \cup {Missing}]
        /\ excused' \in SUBSET {f \in Entries : cache'[f] # Missing}
    BY DEF TypeOK
<1>1. ASSUME NEW r \in Requests, NEW e \in Entries, get_feed(r, e) PROVE Good
    <2>1. Feed(e) \in SUBSET DOMAIN items /\ e[1] \in Users
        BY FeedTyped, EntryTyped
    <2>2. RequestsOK' /\ Shape' /\ page' \in [Requests -> SUBSET DOMAIN items]
        BY <1>1, <2>1 DEF get_feed, TypeOK, RequestsOK, Shape
    <2> QED
        BY <1>1, <1>k, <1>x, <2>2 DEF get_feed
<1>2. ASSUME NEW r \in Requests, Fill(r) PROVE Good
    <2>1. PICK e \in Entries : e = entry[r]
        BY <1>2 DEF Fill, Shape
    <2>2. page[r] \in SUBSET DOMAIN items /\ page[r] # Missing
        BY PageNotMissing DEF TypeOK
    <2>3. /\ cache' \in [Entries -> (SUBSET DOMAIN items) \cup {Missing}]
          /\ excused' \in SUBSET {f \in Entries : cache'[f] # Missing}
        <3>1. CASE UNCHANGED <<cache, excused>>
            BY <1>x, <3>1
        <3>2. CASE /\ cache' = [cache EXCEPT ![entry[r]] = page[r]]
                   /\ excused' = IF page[r] = Feed(entry[r]) THEN excused \ {entry[r]}
                                                            ELSE excused \cup {entry[r]}
            BY <2>1, <2>2, <3>2 DEF TypeOK
        <3> QED
            BY <1>2, <3>1, <3>2 DEF Fill
    <2>4. Done(r) /\ UNCHANGED tables
        BY <1>2 DEF Fill
    <2> QED
        BY <1>k, <2>3, <2>4, DoneTyped
<1>3. ASSUME NEW r \in Requests, NEW a \in Authors, NEW kind \in {"post", "story"}, NEW l \in BOOLEAN,
             NEW label \in {"list_home", "list_stories"}, Publish(r, a, kind, l, label)
      PROVE  Good
    <2>1. /\ items' \in Seq(Item) /\ Len(items') = Len(items) + 1
          /\ DOMAIN items' = DOMAIN items \cup {Len(items) + 1}
        BY <1>3, Published, Zenon
    <2>2. a \in Users
        BY AuthorsAssumption
    <2>3. RequestsOK' /\ Shape' /\ page' = page
        BY <1>3, <2>2, StartTyped DEF Publish
    <2>4. Len(items') <= MaxItems
        BY <1>3, <2>1, ItemsTyped, MaxItemsAssumption DEF Publish
    <2>5. follows' = follows /\ blocks' = blocks /\ cache' = cache /\ excused' = excused
          /\ live' = live \cup {Len(items) + 1}
        BY <1>3 DEF Publish
    <2>6. cache' \in [Entries -> (SUBSET DOMAIN items') \cup {Missing}]
          /\ page' \in [Requests -> SUBSET DOMAIN items'] /\ live' \in SUBSET DOMAIN items'
        BY <2>1, <2>3, <2>5 DEF TypeOK
    <2> QED
        BY <2>1, <2>3, <2>4, <2>5, <2>6 DEF TypeOK, RequestsOK, Apart, Item
<1>4. ASSUME NEW r \in Requests, NEW i \in live, delete_story(r, i) PROVE Good
    <2>1. PICK a \in Users : a = items[i].owner
        BY ItemsTyped, AuthorsAssumption DEF TypeOK, Item
    <2>2. Start(r, "list_stories", a, {})
        BY <1>4, <2>1 DEF delete_story
    <2>3. RequestsOK' /\ Shape' /\ page' = page
        BY <2>2, StartTyped
    <2>4. items' = items /\ live' \subseteq live /\ follows' = follows /\ blocks' = blocks
          /\ cache' = cache /\ excused' = excused
        BY <1>4 DEF delete_story
    <2> QED
        BY <2>3, <2>4 DEF TypeOK, RequestsOK, Apart
<1>5. ASSUME NEW i \in live, Remove(i) PROVE Good
    <2>1. /\ items' = items /\ live' \subseteq live /\ follows' = follows /\ blocks' = blocks
          /\ cache' = cache /\ UNCHANGED requests
        BY <1>5 DEF Remove
    <2>2. excused' \in SUBSET {f \in Entries : cache[f] # Missing}
        BY <1>5, SilentlyTyped DEF Remove
    <2> QED
        BY <2>1, <2>2 DEF TypeOK, Shape, Apart
<1>6. ASSUME NEW r \in Requests, NEW u \in Users, NEW o \in Users \ {u},
             \/ follow_user(r, u, o) \/ unfollow_user(r, u, o)
             \/ block_user(r, u, o) \/ unblock_user(r, u, o)
      PROVE  Good
    <2>1. /\ Relates(u, o) /\ items' = items /\ live' = live /\ cache' = cache
          /\ Start(r, "delete", u, OwnEntries(u)) /\ Silently({o})
        BY <1>6, RelateSteps
    <2>2. PICK keys \in SUBSET Entries : keys = OwnEntries(u)
        BY KeysTyped
    <2>3. RequestsOK' /\ Shape' /\ page' = page
        BY <2>1, <2>2, StartTyped
    <2>4. excused' \in SUBSET {f \in Entries : cache[f] # Missing}
        BY <2>1, SilentlyTyped
    <2>5. Apart' /\ follows' \in SUBSET (Users \X Users) /\ blocks' \in SUBSET (Users \X Users)
        BY <2>1 DEF Relates, Apart
    <2> QED
        BY <2>1, <2>3, <2>4, <2>5 DEF TypeOK, RequestsOK
<1>7. ASSUME NEW r \in Requests, invalidate_followers_feeds(r) PROVE Good
    <2>1. PICK keys \in SUBSET Entries : keys = Audience(user[r], pc[r] = "list_home")
        BY KeysTyped
    <2>2. CASE /\ pc' = [pc EXCEPT ![r] = "delete"] /\ todo' = [todo EXCEPT ![r] = keys]
               /\ UNCHANGED <<user, entry, page, excused>>
        <3>1. RequestsOK' /\ Shape' /\ page' \in [Requests -> SUBSET DOMAIN items]
            BY <2>2 DEF TypeOK, RequestsOK, Shape
        <3> QED
            BY <1>7, <1>k, <1>x, <2>2, <3>1 DEF invalidate_followers_feeds
    <2>3. CASE Excuse(keys) /\ Done(r)
        BY <1>7, <1>k, <2>3, ExcuseTyped, DoneTyped DEF invalidate_followers_feeds, TypeOK
    <2> QED
        BY <1>7, <2>1, <2>2, <2>3 DEF invalidate_followers_feeds
<1>8. ASSUME NEW r \in Requests, Delete(r) PROVE Good
    <2>1. PICK e \in todo[r] :
            /\ Drop(e) \/ (Excuse({e}) /\ UNCHANGED cache)
            /\ IF todo[r] = {e} THEN Done(r)
                                ELSE /\ todo' = [todo EXCEPT ![r] = @ \ {e}]
                                     /\ UNCHANGED <<pc, user, entry, page>>
        BY <1>8, Zenon DEF Delete
    <2>2. e \in Entries
        BY DEF TypeOK
    <2>3. /\ cache' \in [Entries -> (SUBSET DOMAIN items) \cup {Missing}]
          /\ excused' \in SUBSET {f \in Entries : cache'[f] # Missing}
        BY <2>1, <2>2, DropTyped, ExcuseTyped DEF TypeOK
    <2>4. CASE Done(r)
        BY <1>8, <1>k, <2>3, <2>4, DoneTyped DEF Delete
    <2>5. CASE todo' = [todo EXCEPT ![r] = @ \ {e}] /\ UNCHANGED <<pc, user, entry, page>>
        <3>1. RequestsOK' /\ Shape' /\ page' \in [Requests -> SUBSET DOMAIN items]
            BY <1>8, <2>5 DEF TypeOK, RequestsOK, Shape, Delete
        <3> QED
            BY <1>8, <1>k, <2>3, <3>1 DEF Delete
    <2> QED
        BY <2>1, <2>4, <2>5
<1>9. ASSUME NEW u \in Users, refresh_feed(u) PROVE Good
    <2>1. PICK e \in Entries : e = <<u, "home">>
        BY EntriesAssumption, Zenon
    <2> QED
        BY <1>9, <1>k, <1>s, <2>1, DropTyped DEF refresh_feed, refresh_home_feed
<1>10. ASSUME NEW e \in Entries, Expire(e) PROVE Good
    BY <1>10, <1>k, <1>s, DropTyped DEF Expire
<1>11. ASSUME NEW r \in Requests, Crash(r) PROVE Good
    <2>1. PICK S \in SUBSET Entries : Excuse(S)
        <3>1. todo[r] \in SUBSET Entries
            BY DEF TypeOK
        <3> QED
            BY <1>11, <3>1, KeysTyped, Zenon DEF Crash
    <2> QED
        BY <1>11, <1>k, <2>1, ExcuseTyped, DoneTyped DEF Crash, TypeOK
<1>12. CASE UNCHANGED vars
    BY <1>12, <1>k, <1>s, <1>x DEF vars
<1> HIDE DEF Good, tables, requests
<1>13. ASSUME NEW r \in Requests, NEW u \in Users, home_feed(r, u) \/ \E limit \in Limits : get_stories_feed(r, u, limit)
       PROVE  Good
    BY <1>1, <1>13, EntriesAssumption, Zenon DEF home_feed, get_stories_feed
<1>14. ASSUME NEW r \in Requests, NEW a \in Authors, NEW l \in BOOLEAN, create_post(r, a, l) \/ create_story(r, a, l)
       PROVE  Good
    BY <1>3, <1>14 DEF create_post, create_story
<1> QED
    BY <1>2, <1>4, <1>5, <1>6, <1>7, <1>8, <1>9, <1>10, <1>11, <1>12, <1>13, <1>14 DEF Next, Advance


LEMMA InitTyped == Init => TypeOK /\ Shape /\ Apart
<1> SUFFICES ASSUME Init PROVE TypeOK /\ Shape /\ Apart
    OBVIOUS
<1>1. items = <<>> /\ Len(items) = 0 /\ items \in Seq(Item) /\ DOMAIN items = {}
    BY DEF Init
<1> QED
    BY <1>1, MaxItemsAssumption DEF Init, TypeOK, Shape, Apart, Item

\* Cached pages and pages on their way to the cache hold posts and stories that were
\* published, only an entry that has a page is excused, and only a request that deletes
\* has entries left to delete.
THEOREM TypeCorrect == Spec => []TypeOK
<1>1. TypeOK /\ Shape /\ Apart /\ [Next]_vars => (TypeOK /\ Shape /\ Apart)'
    BY TypeInductive
<1> QED
    BY <1>1, InitTyped, PTL DEF Spec

-----------------------------------------------------------------------------
(* Stale pages *)

\* What the queries of the feeds return, the endpoints of one post or story would show.
LEMMA FeedVisible == TypeOK /\ Apart => \A e \in Entries : \A i \in Feed(e) : CanView(i, e[1])
<1> SUFFICES ASSUME TypeOK, Apart, NEW e \in Entries, NEW i \in Feed(e) PROVE CanView(i, e[1])
    OBVIOUS
<1>1. PICK u \in Users : u = e[1]
    BY EntryTyped
<1>2. <<u, u>> \notin blocks
    BY DEF Apart
<1>3. CASE e[2] = "home"
    BY <1>1, <1>2, <1>3 DEF Feed, HomeFeed, CanView, can_view_post, Blocked
<1>4. CASE e[2] # "home"
    BY <1>1, <1>4 DEF Feed, StoriesFeed, CanView, get_story
<1> QED
    BY <1>3, <1>4

\* So a page is stale exactly when it is not what the query would return.
LEMMA StaleIsDifferent ==
    TypeOK /\ Apart => \A e \in Entries : Stale(e) <=> cache[e] # Missing /\ cache[e] # Feed(e)
    BY FeedVisible DEF Stale

\* r will delete e.
WillDelete(r, e) ==
    \/ e \in todo[r]
    \/ pc[r] = "list_home" /\ e \in Audience(user[r], TRUE)
    \/ pc[r] = "list_stories" /\ e \in Audience(user[r], FALSE)

Covered(e) == cache[e] # Missing /\ cache[e] # Feed(e) => Pending(e) \/ e \in excused

LEMMA PendingIsWillDelete == \A e : Pending(e) <=> \E r \in Requests : WillDelete(r, e)
    BY DEF Pending, WillDelete

LEMMA StaleIsCovered == TypeOK /\ Apart => (StaleOnlyIfExcused <=> \A e \in Entries : Covered(e))
    BY StaleIsDifferent DEF StaleOnlyIfExcused, Covered

LEMMA StaleIsCoveredNext == TypeOK' /\ Apart' => (StaleOnlyIfExcused' <=> (\A e \in Entries : Covered(e))')
<1>1. TypeOK /\ Apart => (StaleOnlyIfExcused <=> \A e \in Entries : Covered(e))
    BY StaleIsCovered
<1> QED
    BY <1>1, PTL

LEMMA FeedKept == UNCHANGED tables => \A e \in Entries : Feed(e)' = Feed(e)
    BY DEF tables, Feed, HomeFeed, StoriesFeed, Follows, Blocked

\* A request whose state and whose audience a step leaves will delete what it would have.
LEMMA WillDeleteKept ==
    ASSUME NEW q \in Requests, NEW e \in Entries, WillDelete(q, e),
           pc'[q] = pc[q], user'[q] = user[q], todo'[q] = todo[q],
           \A a \in Users \cup {0} : Follows(e[1], a)' <=> Follows(e[1], a), TypeOK
    PROVE  WillDelete(q, e)'
<1>1. PICK a \in Users \cup {0} : a = user[q]
    BY DEF TypeOK
<1>2. <<e[1], a>> \in follows' <=> <<e[1], a>> \in follows
    BY DEF Follows
<1> QED
    BY <1>1, <1>2 DEF WillDelete, Audience, OwnEntries, Follows


\* A step of r that changes neither the page of e nor what its query returns, and keeps or
\* excuses what r would have deleted.
LEMMA CoveredKept ==
    ASSUME TypeOK, NEW r \in Requests, NEW e \in Entries, Covered(e),
           Feed(e)' = Feed(e), cache'[e] = cache[e], e \in excused => e \in excused',
           \A a \in Users \cup {0} : <<e[1], a>> \in follows' <=> <<e[1], a>> \in follows,
           \A q \in Requests \ {r} : pc'[q] = pc[q] /\ user'[q] = user[q] /\ todo'[q] = todo[q],
           cache[e] # Missing /\ WillDelete(r, e) => WillDelete(r, e)' \/ e \in excused'
    PROVE  Covered(e)'
<1> SUFFICES ASSUME cache[e] # Missing, cache[e] # Feed(e), e \notin excused' PROVE Pending(e)'
    BY DEF Covered
<1>1. PICK q \in Requests : WillDelete(q, e)
    BY PendingIsWillDelete DEF Covered
<1>2. WillDelete(q, e)'
    <2>1. CASE q = r
        BY <1>1, <2>1
    <2>2. CASE q # r
        BY <1>1, <2>2, WillDeleteKept DEF Follows
    <2> QED
        BY <2>1, <2>2
<1> QED
    BY <1>2, Zenon DEF Pending, WillDelete

\* The same for a step of no request.
LEMMA CoveredAside ==
    ASSUME TypeOK, NEW e \in Entries, Covered(e),
           Feed(e)' = Feed(e), cache'[e] = cache[e], e \in excused => e \in excused',
           UNCHANGED <<follows, requests>>
    PROVE  Covered(e)'
    BY DEF Covered, Pending, Audience, OwnEntries, Follows, requests

\* The commit of a post or a story, or of the deletion of a story, changes the feeds of the
\* author's followers and of the author only.
LEMMA AudienceFeeds ==
    ASSUME TypeOK, NEW e \in Entries, NEW i \in DOMAIN items', NEW home \in BOOLEAN,
           follows' = follows, blocks' = blocks,
           \A j \in DOMAIN items : j \in DOMAIN items' /\ items'[j] = items[j],
           live' \in SUBSET DOMAIN items', live' \ {i} = live \ {i},
           items'[i].kind = IF home THEN "post" ELSE "story",
           e \notin Audience(items'[i].owner, home)
    PROVE  Feed(e)' = Feed(e)
<1>1. live \in SUBSET DOMAIN items
    BY DEF TypeOK
<1>2. \A j \in live : items'[j] = items[j]
    BY <1>1
<1>3. e[1] # items'[i].owner /\ (<<e[1], items'[i].owner>> \notin follows \/ ((e[2] = "home") # home))
    BY DEF Audience, OwnEntries, Follows
<1>4. CASE e[2] = "home"
    <2>1. HomeFeed(e[1])' = HomeFeed(e[1])
        BY <1>2, <1>3, <1>4 DEF HomeFeed, Follows, Blocked
    <2> QED
        BY <1>4, <2>1 DEF Feed
<1>5. CASE e[2] # "home"
    <2>1. StoriesFeed(e[1])' = StoriesFeed(e[1])
        BY <1>2, <1>3, <1>5 DEF StoriesFeed, Follows, Blocked
    <2> QED
        BY <1>5, <2>1 DEF Feed
<1> QED
    BY <1>4, <1>5

\* The relations of two users do not change the feeds of a third.
LEMMA ThirdFeeds ==
    ASSUME TypeOK, NEW u \in Users, NEW o \in Users, Relates(u, o), items' = items, live' = live,
           NEW e \in Entries, e[1] \notin {u, o}
    PROVE  /\ Feed(e)' = Feed(e)
           /\ \A a \in Users \cup {0} : <<e[1], a>> \in follows' <=> <<e[1], a>> \in follows
<1>1. PICK w \in Users : w = e[1] /\ w # u /\ w # o
    BY EntryTyped
<1>2. \A a \in Users : /\ <<w, a>> \in follows' <=> <<w, a>> \in follows
                       /\ <<a, w>> \in follows' <=> <<a, w>> \in follows
                       /\ <<w, a>> \in blocks' <=> <<w, a>> \in blocks
                       /\ <<a, w>> \in blocks' <=> <<a, w>> \in blocks
    BY <1>1 DEF Relates
<1>3. \A i \in live : items[i].owner \in Users
    BY ItemsTyped, AuthorsAssumption DEF TypeOK, Item
<1>4. HomeFeed(w)' = HomeFeed(w) /\ StoriesFeed(w)' = StoriesFeed(w)
    BY <1>2, <1>3 DEF HomeFeed, StoriesFeed, Follows, Blocked
<1>5. Feed(e)' = Feed(e)
    BY <1>1, <1>4 DEF Feed
<1>6. \A a \in Users \cup {0} : <<w, a>> \in follows' <=> <<w, a>> \in follows
    <2>1. 0 \in Users \/ (<<w, 0>> \notin follows' /\ <<w, 0>> \notin follows)
        BY DEF TypeOK, Relates
    <2> QED
        BY <1>2, <2>1, Zenon
<1> QED
    BY <1>1, <1>5, <1>6


LEMMA CoveredInductive ==
    ASSUME TypeOK, Shape, Apart, TypeOK', [Next]_vars, NEW e \in Entries, Covered(e)
    PROVE  Covered(e)'
<1> USE DEF tables, requests
<1>f. UNCHANGED tables => Feed(e)' = Feed(e) /\ follows' = follows
    BY FeedKept
<1>i. ASSUME NEW r \in Requests, pc[r] \in {"idle", "fill"} PROVE ~WillDelete(r, e)
    BY <1>i, Zenon DEF WillDelete, TypeOK
<1>m. cache'[e] = Missing => Covered(e)'
    BY DEF Covered
<1>1. ASSUME NEW r \in Requests, NEW f \in Entries, get_feed(r, f) PROVE Covered(e)'
    <2>1. /\ UNCHANGED tables /\ cache' = cache /\ excused' = excused /\ pc[r] = "idle"
          /\ \A q \in Requests \ {r} : pc'[q] = pc[q] /\ user'[q] = user[q] /\ todo'[q] = todo[q]
        BY <1>1 DEF get_feed, TypeOK
    <2> QED
        BY <1>f, <1>i, <2>1, CoveredKept
<1>2. ASSUME NEW r \in Requests, Fill(r) PROVE Covered(e)'
    <2>1. PICK f \in Entries : f = entry[r]
        BY <1>2 DEF Fill, Shape
    <2>2. /\ UNCHANGED tables /\ pc[r] = "fill"
          /\ \A q \in Requests \ {r} : pc'[q] = pc[q] /\ user'[q] = user[q] /\ todo'[q] = todo[q]
        BY <1>2, DoneTyped DEF Fill
    <2>3. CASE UNCHANGED <<cache, excused>>
        BY <1>f, <1>i, <2>2, <2>3, CoveredKept
    <2>4. CASE /\ cache' = [cache EXCEPT ![f] = page[r]]
               /\ excused' = IF page[r] = Feed(f) THEN excused \ {f} ELSE excused \cup {f}
        <3>1. CASE e = f
            <4>1. cache'[e] = page[r]
                BY <2>4, <3>1 DEF TypeOK
            <4> QED
                BY <1>f, <2>2, <2>4, <3>1, <4>1 DEF Covered
        <3>2. CASE e # f
            <4>1. cache'[e] = cache[e] /\ (e \in excused => e \in excused')
                BY <2>4, <3>2 DEF TypeOK
            <4> QED
                BY <1>f, <1>i, <2>2, <4>1, CoveredKept
        <3> QED
            BY <3>1, <3>2
    <2> QED
        BY <1>2, <2>1, <2>3, <2>4 DEF Fill
\* A commit that the request announces to the audience of the author next.
<1>a. ASSUME NEW r \in Requests, NEW a \in Users, NEW home \in BOOLEAN,
             NEW i \in DOMAIN items', items'[i].owner = a,
             items'[i].kind = IF home THEN "post" ELSE "story",
             live' \in SUBSET DOMAIN items', live' \ {i} = live \ {i},
             \A j \in DOMAIN items : j \in DOMAIN items' /\ items'[j] = items[j],
             follows' = follows, blocks' = blocks, cache' = cache, excused' = excused,
             Start(r, IF home THEN "list_home" ELSE "list_stories", a, {})
      PROVE  Covered(e)'
    <2>1. PICK label \in {"list_home", "list_stories"} : label = IF home THEN "list_home" ELSE "list_stories"
        OBVIOUS
    <2>2. /\ pc'[r] = label /\ user'[r] = a /\ pc[r] = "idle"
          /\ \A q \in Requests \ {r} : pc'[q] = pc[q] /\ user'[q] = user[q] /\ todo'[q] = todo[q]
        BY <1>a, <2>1, StartTyped
    <2>3. CASE e \in Audience(a, home)
        <3>1. WillDelete(r, e)'
            BY <1>a, <2>1, <2>2, <2>3 DEF WillDelete, Audience, OwnEntries, Follows
        <3> QED
            BY <3>1, Zenon DEF Covered, Pending, WillDelete
    <2>4. CASE e \notin Audience(a, home)
        <3>1. Feed(e)' = Feed(e)
            BY <1>a, <2>4, AudienceFeeds
        <3> QED
            BY <1>a, <1>i, <2>2, <3>1, CoveredKept
    <2> QED
        BY <2>3, <2>4
<1>3. ASSUME NEW r \in Requests, NEW a \in Authors, NEW l \in BOOLEAN, NEW home \in BOOLEAN,
             Publish(r, a, IF home THEN "post" ELSE "story", l, IF home THEN "list_home" ELSE "list_stories")
      PROVE  Covered(e)'
    <2>1. PICK kind \in {"post", "story"} : kind = IF home THEN "post" ELSE "story"
        OBVIOUS
    <2>2. PICK i : i = Len(items) + 1
        OBVIOUS
    <2>3. /\ DOMAIN items' = DOMAIN items \cup {i}
          /\ \A j \in DOMAIN items : items'[j] = items[j]
          /\ items'[i].owner = a /\ items'[i].kind = kind
        BY <1>3, <2>1, <2>2, Published, Zenon
    <2>4. /\ follows' = follows /\ blocks' = blocks /\ cache' = cache /\ excused' = excused
          /\ live' = live \cup {i} /\ Start(r, IF home THEN "list_home" ELSE "list_stories", a, {})
        BY <1>3, <2>2 DEF Publish
    <2>5. a \in Users /\ i \in DOMAIN items' /\ live' \in SUBSET DOMAIN items'
        BY <2>3, AuthorsAssumption DEF TypeOK
    <2> QED
        BY <1>a, <2>1, <2>3, <2>4, <2>5
<1>4. ASSUME NEW r \in Requests, NEW i \in live, delete_story(r, i) PROVE Covered(e)'
    <2>1. PICK a \in Users : a = items[i].owner
        BY ItemsTyped, AuthorsAssumption DEF TypeOK, Item
    <2>2. /\ follows' = follows /\ blocks' = blocks /\ cache' = cache /\ excused' = excused
          /\ live' = live \ {i} /\ items' = items /\ items'[i].owner = a /\ items'[i].kind = "story"
          /\ Start(r, IF FALSE THEN "list_home" ELSE "list_stories", a, {})
        BY <1>4, <2>1 DEF delete_story
    <2>3. i \in DOMAIN items' /\ live' \in SUBSET DOMAIN items'
        BY <2>2 DEF TypeOK
    <2> QED
        BY <1>a, <2>2, <2>3, Zenon
<1>5. ASSUME NEW i \in live, Remove(i) PROVE Covered(e)'
    <2>1. e[1] \in Users /\ cache' = cache /\ Silently(Users)
        BY <1>5, EntryTyped DEF Remove
    <2> QED
        BY <2>1, SilentlyTyped DEF Covered
<1>6. ASSUME NEW r \in Requests, NEW u \in Users, NEW o \in Users \ {u},
             \/ follow_user(r, u, o) \/ unfollow_user(r, u, o)
             \/ block_user(r, u, o) \/ unblock_user(r, u, o)
      PROVE  Covered(e)'
    <2>1. /\ Relates(u, o) /\ items' = items /\ live' = live /\ cache' = cache
          /\ Start(r, "delete", u, OwnEntries(u)) /\ Silently({o})
        BY <1>6, RelateSteps
    <2>2. PICK keys \in SUBSET Entries : keys = OwnEntries(u)
        BY KeysTyped
    <2>3. /\ todo'[r] = keys /\ pc[r] = "idle"
          /\ \A q \in Requests \ {r} : pc'[q] = pc[q] /\ user'[q] = user[q] /\ todo'[q] = todo[q]
        BY <2>1, <2>2, StartTyped
    <2>4. CASE e[1] = u
        <3>1. e \in todo'[r]
            BY <2>2, <2>3, <2>4 DEF OwnEntries
        <3> QED
            BY <3>1, Zenon DEF Covered, Pending
    <2>5. CASE e[1] = o
        BY <2>1, <2>5, SilentlyTyped DEF Covered
    <2>6. CASE e[1] \notin {u, o}
        <3>1. /\ Feed(e)' = Feed(e)
              /\ \A a \in Users \cup {0} : <<e[1], a>> \in follows' <=> <<e[1], a>> \in follows
            BY <2>1, <2>6, ThirdFeeds
        <3>2. e \in excused => e \in excused'
            BY <2>1, SilentlyTyped
        <3> QED
            BY <1>i, <2>1, <2>3, <3>1, <3>2, CoveredKept
    <2> QED
        BY <2>4, <2>5, <2>6
<1>7. ASSUME NEW r \in Requests, invalidate_followers_feeds(r) PROVE Covered(e)'
    <2>1. PICK keys \in SUBSET Entries : keys = Audience(user[r], pc[r] = "list_home")
        BY KeysTyped
    <2>2. UNCHANGED tables /\ cache' = cache /\ pc[r] \in {"list_home", "list_stories"}
        BY <1>7 DEF invalidate_followers_feeds
    <2>3. WillDelete(r, e) => e \in keys
        BY <2>1, <2>2, Zenon DEF WillDelete, Audience, TypeOK
    <2>4. CASE /\ pc' = [pc EXCEPT ![r] = "delete"] /\ todo' = [todo EXCEPT ![r] = keys]
               /\ UNCHANGED <<user, entry, page, excused>>
        <3>1. /\ todo'[r] = keys /\ excused' = excused
              /\ \A q \in Requests \ {r} : pc'[q] = pc[q] /\ user'[q] = user[q] /\ todo'[q] = todo[q]
            BY <2>4 DEF TypeOK
        <3>2. WillDelete(r, e) => WillDelete(r, e)'
            BY <2>3, <3>1, Zenon DEF WillDelete
        <3> QED
            BY <1>f, <2>2, <3>1, <3>2, CoveredKept
    <2>5. CASE Excuse(keys) /\ Done(r)
        <3>1. (e \in excused => e \in excused') /\ (cache[e] # Missing /\ WillDelete(r, e) => e \in excused')
            BY <2>3, <2>5, ExcuseTyped
        <3>2. \A q \in Requests \ {r} : pc'[q] = pc[q] /\ user'[q] = user[q] /\ todo'[q] = todo[q]
            BY <2>5, DoneTyped
        <3> QED
            BY <1>f, <2>2, <3>1, <3>2, CoveredKept
    <2> QED
        BY <1>7, <2>1, <2>4, <2>5 DEF invalidate_followers_feeds
<1>8. ASSUME NEW r \in Requests, Delete(r) PROVE Covered(e)'
    <2>1. PICK f \in todo[r] :
            /\ Drop(f) \/ (Excuse({f}) /\ UNCHANGED cache)
            /\ IF todo[r] = {f} THEN Done(r)
                                ELSE /\ todo' = [todo EXCEPT ![r] = @ \ {f}]
                                     /\ UNCHANGED <<pc, user, entry, page>>
        BY <1>8, Zenon DEF Delete
    <2>2. f \in Entries /\ UNCHANGED tables /\ pc[r] = "delete"
        BY <1>8 DEF TypeOK, Delete
    <2>3. CASE cache'[e] = Missing
        BY <1>m, <2>3
    <2>4. CASE cache'[e] # Missing
        <3>1. /\ cache'[e] = cache[e] /\ (e \in excused => e \in excused')
              /\ e = f /\ cache[e] # Missing => e \in excused'
            BY <2>1, <2>2, <2>4, DropTyped, ExcuseTyped
        <3>2. /\ \A q \in Requests \ {r} : pc'[q] = pc[q] /\ user'[q] = user[q] /\ todo'[q] = todo[q]
              /\ e \in todo[r] /\ e # f => e \in todo'[r]
            <4>1. CASE todo[r] = {f}
                BY <2>1, <4>1, DoneTyped
            <4>2. CASE todo[r] # {f}
                <5>1. todo' = [todo EXCEPT ![r] = @ \ {f}] /\ pc' = pc /\ user' = user
                    BY <2>1, <4>2
                <5>2. todo \in [Requests -> SUBSET Entries]
                    BY DEF TypeOK
                <5> QED
                    BY <5>1, <5>2
            <4> QED
                BY <4>1, <4>2, Zenon
        <3>3. cache[e] # Missing /\ WillDelete(r, e) => WillDelete(r, e)' \/ e \in excused'
            BY <2>2, <3>1, <3>2, Zenon DEF WillDelete
        <3> QED
            BY <1>f, <2>2, <3>1, <3>2, <3>3, CoveredKept
    <2> QED
        BY <2>3, <2>4
<1>9. ASSUME NEW f \in Entries, Drop(f), UNCHANGED <<tables, requests>> PROVE Covered(e)'
    <2>1. CASE e = f
        BY <1>9, <1>m, <2>1, DropTyped, Zenon
    <2>2. CASE e # f
        BY <1>9, <1>f, <2>2, DropTyped, CoveredAside, Zenon
    <2> QED
        BY <2>1, <2>2
<1>10. ASSUME NEW r \in Requests, Crash(r) PROVE Covered(e)'
    <2>1. PICK S \in SUBSET Entries : Excuse(S) /\ (WillDelete(r, e) => e \in S)
        <3>1. todo[r] \in SUBSET Entries
            BY DEF TypeOK
        <3> QED
            BY <1>10, <3>1, KeysTyped, Zenon DEF Crash, WillDelete
    <2>2. UNCHANGED tables /\ cache' = cache /\ Done(r)
        BY <1>10 DEF Crash
    <2>3. (e \in excused => e \in excused') /\ (cache[e] # Missing /\ WillDelete(r, e) => e \in excused')
        BY <2>1, ExcuseTyped
    <2>4. \A q \in Requests \ {r} : pc'[q] = pc[q] /\ user'[q] = user[q] /\ todo'[q] = todo[q]
        BY <2>2, DoneTyped
    <2> QED
        BY <1>f, <2>2, <2>3, <2>4, CoveredKept
<1>11. CASE UNCHANGED vars
    BY <1>11, <1>f, CoveredAside DEF vars
<1>12. ASSUME NEW r \in Requests, NEW u \in Users, home_feed(r, u) \/ \E limit \in Limits : get_stories_feed(r, u, limit)
       PROVE  Covered(e)'
    BY <1>1, <1>12, EntriesAssumption, Zenon DEF home_feed, get_stories_feed
<1>13. ASSUME NEW r \in Requests, NEW a \in Authors, NEW l \in BOOLEAN, create_post(r, a, l) \/ create_story(r, a, l)
       PROVE  Covered(e)'
    <2>1. CASE create_post(r, a, l)
        BY <1>3, <2>1, Zenon DEF create_post
    <2>2. CASE create_story(r, a, l)
        BY <1>3, <2>2, Zenon DEF create_story
    <2> QED
        BY <1>13, <2>1, <2>2
<1>14. ASSUME NEW u \in Users, refresh_feed(u) PROVE Covered(e)'
    BY <1>9, <1>14, EntriesAssumption DEF refresh_feed, refresh_home_feed
<1>15. ASSUME NEW f \in Entries, Expire(f) PROVE Covered(e)'
    BY <1>9, <1>15 DEF Expire
<1> HIDE DEF tables, requests
<1> QED
    BY <1>2, <1>4, <1>5, <1>6, <1>7, <1>8, <1>10, <1>11, <1>12, <1>13, <1>14, <1>15 DEF Next, Advance

\* A cached page differs from what the query would return, or shows what its reader may not
\* see, only while a request has yet to delete it or for one of the reasons that excuse it:
\* every change that the handlers announce reaches the entries of all it concerns.
THEOREM StaleExcused == Spec => []StaleOnlyIfExcused
<1>1. Init => CacheInv
    <2>1. Init => StaleOnlyIfExcused
        BY DEF Init, StaleOnlyIfExcused, Stale
    <2> QED
        BY <2>1, InitTyped DEF CacheInv
<1>2. CacheInv /\ [Next]_vars => CacheInv'
    <2> SUFFICES ASSUME CacheInv, [Next]_vars PROVE CacheInv'
        OBVIOUS
    <2>1. TypeOK' /\ Shape' /\ Apart'
        BY TypeInductive DEF CacheInv
    <2>2. \A e \in Entries : Covered(e)
        BY StaleIsCovered DEF CacheInv
    <2>3. ASSUME NEW e \in Entries PROVE Covered(e)'
        BY <2>1, <2>2, CoveredInductive DEF CacheInv
    <2>4. StaleOnlyIfExcused'
        BY <2>1, <2>3, StaleIsCoveredNext
    <2> QED
        BY <2>1, <2>4 DEF CacheInv
<1>3. CacheInv => StaleOnlyIfExcused
    BY DEF CacheInv
<1> QED
    BY <1>1, <1>2, <1>3, PTL DEF Spec

=============================================================================
