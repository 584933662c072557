----------------------------- MODULE FeedCache ------------------------------
(***************************************************************************)
(* The Redis caches of the home feed (app/feed.rs) and of the stories feed *)
(* (app/stories.rs), the changes to posts, stories, follows and blocks     *)
(* that make a cached page out of date, and the invalidations the handlers *)
(* run after the change has committed.                                     *)
(*                                                                         *)
(* A page is the set of items the query returned; its order, its size and  *)
(* its cursor are the subject of Paging. Only first pages are cached. The  *)
(* entry of the home feed has one key per user, that of the stories feed   *)
(* one per user and limit. A request is a query followed by a fill, or a   *)
(* change followed by deletions of keys, one Redis call at a time.         *)
(***************************************************************************)
EXTENDS Integers, FiniteSets, Sequences

CONSTANTS
    Users,
    Authors,   \* the users who publish
    Limits,    \* the limits that readers of the stories feed ask for
    Entries,   \* the entries some reader asks for, of the feeds of Users
    Requests,  \* concurrent HTTP requests
    MaxItems   \* bound on the posts and stories ever published

ASSUME AuthorsAssumption == Authors \subseteq Users
ASSUME MaxItemsAssumption == MaxItems \in Nat
ASSUME LimitsAssumption == "home" \notin Limits
ASSUME EntriesAssumption ==
    /\ Entries \subseteq Users \X ({"home"} \cup Limits)
    /\ \A u \in Users : <<u, "home">> \in Entries

ItemIds == 1 .. MaxItems
Missing == {0}   \* the cache has no entry: no page contains the item 0

VARIABLES
    items,    \* posts and stories in the order of creation: owner, kind and whether
              \* the visibility is other than public
    live,     \* those whose row still exists
    follows,  \* <<follower, followee>>
    blocks,   \* <<blocker, blocked>>
    cache,    \* the page of each entry, or Missing
    pc,       \* next step of each request; "idle" when there is none
    user,     \* the user it acts for; 0 for none
    entry,    \* the entry it will fill; <<>> for none
    page,     \* what its query returned
    todo,     \* the entries it has yet to delete
    \* history:
    excused   \* entries that may be out of date: because of a fill that overlapped a
              \* change, of a fault, or of a change that nothing announces to the user

tables == <<items, live, follows, blocks>>
requests == <<pc, user, entry, page, todo>>
vars == <<tables, cache, requests, excused>>

TypeOK ==
    /\ items \in Seq([owner : Authors, kind : {"post", "story"}, limited : BOOLEAN])
    /\ Len(items) <= MaxItems
    /\ live \in SUBSET DOMAIN items
    /\ follows \in SUBSET (Users \X Users)
    /\ blocks \in SUBSET (Users \X Users)
    /\ cache \in [Entries -> (SUBSET DOMAIN items) \cup {Missing}]
    /\ pc \in [Requests -> {"idle", "fill", "list_home", "list_stories", "delete"}]
    /\ user \in [Requests -> Users \cup {0}]
    /\ entry \in [Requests -> Entries \cup {<<>>}]
    /\ page \in [Requests -> SUBSET DOMAIN items]
    /\ todo \in [Requests -> SUBSET Entries]
    /\ excused \in SUBSET {e \in Entries : cache[e] # Missing}
    /\ \A r \in Requests : todo[r] # {} => pc[r] = "delete"

Init ==
    /\ items = <<>> /\ live = {} /\ follows = {} /\ blocks = {}
    /\ cache = [e \in Entries |-> Missing]
    /\ pc = [r \in Requests |-> "idle"]
    /\ user = [r \in Requests |-> 0]
    /\ entry = [r \in Requests |-> <<>>]
    /\ page = [r \in Requests |-> {}]
    /\ todo = [r \in Requests |-> {}]
    /\ excused = {}

-----------------------------------------------------------------------------
(* The queries. *)

Blocked(u, o) == <<u, o>> \in blocks \/ <<o, u>> \in blocks

Follows(u, o) == <<u, o>> \in follows

\* The query of get_home_feed.
HomeFeed(u) ==
    {i \in live : /\ items[i].kind = "post"
                  /\ LET o == items[i].owner IN o = u \/ (Follows(u, o) /\ ~Blocked(u, o))}

\* The query of get_stories_feed. friends_only and close_friends_only ask for mutual
\* follows; the viewer's own stories are not in it.
StoriesFeed(u) ==
    {i \in live : /\ items[i].kind = "story"
                  /\ LET o == items[i].owner
                     IN  Follows(u, o) /\ ~Blocked(u, o) /\ (items[i].limited => Follows(o, u))}

Feed(e) == IF e[2] = "home" THEN HomeFeed(e[1]) ELSE StoriesFeed(e[1])

\* The visibility check of the endpoints of one post: followers_only asks for a follow.
can_view_post(i, u) ==
    LET o == items[i].owner
    IN  /\ i \in live
        /\ items[i].limited => o = u \/ Follows(u, o)
        /\ ~Blocked(u, o)

\* The same for one story, where mutual follows are asked for.
get_story(i, u) ==
    LET o == items[i].owner
    IN  /\ i \in live
        /\ items[i].limited => o = u \/ (Follows(u, o) /\ Follows(o, u))
        /\ ~Blocked(u, o)

CanView(i, u) == IF items[i].kind = "post" THEN can_view_post(i, u) ELSE get_story(i, u)

\* The entries invalidate_viewer_feeds deletes.
OwnEntries(u) == {e \in Entries : e[1] = u}

\* Mutation of Audience: only the followers' entries, not the author's.
Audience_FollowersOnly(a, home) ==
    {e \in Entries : Follows(e[1], a) /\ ((e[2] = "home") <=> home)}

\* The entries invalidate_followers_feeds deletes when list_follower_ids is run now.
Audience(a, home) ==
    {e \in Entries : Follows(e[1], a) /\ ((e[2] = "home") <=> home)} \cup OwnEntries(a)

\* Some request will still delete e.
Pending(e) ==
    \E r \in Requests :
        \/ e \in todo[r]
        \/ pc[r] = "list_home" /\ e \in Audience(user[r], TRUE)
        \/ pc[r] = "list_stories" /\ e \in Audience(user[r], FALSE)

\* The page is not what the query would return, or shows what its reader may not see.
Stale(e) ==
    cache[e] # Missing /\ (cache[e] # Feed(e) \/ \E i \in cache[e] : ~CanView(i, e[1]))

-----------------------------------------------------------------------------
(* Requests. *)

\* Mutation of Done: the request forgets whom it acts for but keeps its list of keys.
Done_KeepsTodo(r) ==
    /\ pc' = [pc EXCEPT ![r] = "idle"]
    /\ user' = [user EXCEPT ![r] = 0]
    /\ entry' = [entry EXCEPT ![r] = <<>>]
    /\ page' = [page EXCEPT ![r] = {}]
    /\ UNCHANGED todo

Done(r) ==
    /\ pc' = [pc EXCEPT ![r] = "idle"]
    /\ user' = [user EXCEPT ![r] = 0]
    /\ entry' = [entry EXCEPT ![r] = <<>>]
    /\ page' = [page EXCEPT ![r] = {}]
    /\ todo' = [todo EXCEPT ![r] = {}]

Start(r, label, u, keys) ==
    /\ pc[r] = "idle"
    /\ pc' = [pc EXCEPT ![r] = label]
    /\ user' = [user EXCEPT ![r] = u]
    /\ todo' = [todo EXCEPT ![r] = keys]
    /\ UNCHANGED <<entry, page>>

\* The entries in S that have a page may keep it.
Excuse(S) == excused' = excused \cup {e \in S : cache[e] # Missing}

\* A change has been committed that the handlers announce to none of the users U. It may
\* also take them off the list of followers that an earlier change has yet to read.
Silently(U) == Excuse({e \in Entries : e[1] \in U /\ cache[e] # Feed(e)'})

\* The entry has a page no more.
Drop(e) == cache' = [cache EXCEPT ![e] = Missing] /\ excused' = excused \ {e}

\* The query of get_home_feed or get_stories_feed, after a GET that found nothing or failed.
get_feed(r, e) ==
    /\ pc[r] = "idle"
    /\ pc' = [pc EXCEPT ![r] = "fill"]
    /\ user' = [user EXCEPT ![r] = e[1]]
    /\ entry' = [entry EXCEPT ![r] = e]
    /\ page' = [page EXCEPT ![r] = Feed(e)]
    /\ UNCHANGED <<todo, tables, cache, excused>>

home_feed(r, u) == get_feed(r, <<u, "home">>)

\* The key has the limit that the reader asked for, plus one.
get_stories_feed(r, u, limit) == <<u, limit>> \in Entries /\ get_feed(r, <<u, limit>>)

\* SETEX of what the query returned; a failure is only logged.
Fill(r) ==
    /\ pc[r] = "fill"
    /\ \/ /\ cache' = [cache EXCEPT ![entry[r]] = page[r]]
          /\ excused' = IF page[r] = Feed(entry[r]) THEN excused \ {entry[r]}
                                                   ELSE excused \cup {entry[r]}
       \/ UNCHANGED <<cache, excused>>
    /\ Done(r)
    /\ UNCHANGED tables

\* The commit of create_post or create_story.
Publish(r, a, kind, limited, label) ==
    /\ Len(items) < MaxItems
    /\ items' = Append(items, [owner |-> a, kind |-> kind, limited |-> limited])
    /\ live' = live \cup {Len(items) + 1}
    /\ Start(r, label, a, {})
    /\ UNCHANGED <<follows, blocks, cache, excused>>

create_post(r, a, limited) == Publish(r, a, "post", limited, "list_home")

create_story(r, a, limited) == Publish(r, a, "story", limited, "list_stories")

delete_story(r, i) ==
    /\ i \in live /\ items[i].kind = "story"
    /\ live' = live \ {i}
    /\ Start(r, "list_stories", items[i].owner, {})
    /\ UNCHANGED <<items, follows, blocks, cache, excused>>

\* delete_post, takedown_post, the expiry of a story, the deletion of its owner's account:
\* no invalidation.
Remove(i) ==
    /\ i \in live
    /\ live' = live \ {i}
    /\ UNCHANGED <<items, follows, blocks, cache, requests>>
    /\ Silently(Users)

\* The commit of a follow, unfollow, block or unblock, and the deletions it begins:
\* of the entries of u, not of those of o.
Relate(r, u, o, newFollows, newBlocks) ==
    /\ follows' = newFollows /\ blocks' = newBlocks
    /\ <<newFollows, newBlocks>> # <<follows, blocks>>
    /\ UNCHANGED <<items, live, cache>>
    /\ Start(r, "delete", u, OwnEntries(u))
    /\ Silently({o})

follow_user(r, u, o) == ~Blocked(u, o) /\ Relate(r, u, o, follows \cup {<<u, o>>}, blocks)

unfollow_user(r, u, o) == Relate(r, u, o, follows \ {<<u, o>>}, blocks)

block_user(r, u, o) ==
    Relate(r, u, o, follows \ {<<u, o>>, <<o, u>>}, blocks \cup {<<u, o>>})

unblock_user(r, u, o) == Relate(r, u, o, follows, blocks \ {<<u, o>>})

\* list_follower_ids: an error ends the invalidation, the author's own entries included.
invalidate_followers_feeds(r) ==
    LET keys == Audience(user[r], pc[r] = "list_home") IN
    /\ pc[r] \in {"list_home", "list_stories"}
    /\ \/ /\ pc' = [pc EXCEPT ![r] = "delete"]
          /\ todo' = [todo EXCEPT ![r] = keys]
          /\ UNCHANGED <<user, entry, page, excused>>
       \/ Excuse(keys) /\ Done(r)
    /\ UNCHANGED <<tables, cache>>

\* The next key is deleted, or the call fails, which is only logged. The author's own
\* entries come last.
Delete(r) ==
    /\ pc[r] = "delete"
    /\ \E e \in todo[r] :
        /\ e[1] = user[r] => \A f \in todo[r] : f[1] = user[r]
        /\ \/ Drop(e)
           \/ Excuse({e}) /\ UNCHANGED cache
        /\ IF todo[r] = {e} THEN Done(r)
                            ELSE /\ todo' = [todo EXCEPT ![r] = @ \ {e}]
                                 /\ UNCHANGED <<pc, user, entry, page>>
    /\ UNCHANGED tables

refresh_home_feed(u) == cache[<<u, "home">>] # Missing /\ Drop(<<u, "home">>)

\* POST /feed/refresh: the home feed only.
refresh_feed(u) ==
    /\ refresh_home_feed(u)
    /\ UNCHANGED <<tables, requests>>

\* Mutation of Expire: the entry is written with SET, without a time to live.
Expire_Never(e) == FALSE /\ UNCHANGED vars

\* The time to live of an entry ends: 30 s for the home feed, 60 s for the stories feed.
Expire(e) ==
    /\ cache[e] # Missing
    /\ Drop(e)
    /\ UNCHANGED <<tables, requests>>

\* The process dies: what it had yet to delete stays.
Crash(r) ==
    /\ pc[r] # "idle"
    /\ Excuse(todo[r] \cup CASE pc[r] = "list_home" -> Audience(user[r], TRUE)
                             [] pc[r] = "list_stories" -> Audience(user[r], FALSE)
                             [] OTHER -> {})
    /\ Done(r)
    /\ UNCHANGED <<tables, cache>>

Advance(r) == Fill(r) \/ invalidate_followers_feeds(r) \/ Delete(r)

Next ==
    \/ \E r \in Requests :
        \/ Advance(r)
        \/ Crash(r)
        \/ \E u \in Users : home_feed(r, u) \/ \E limit \in Limits : get_stories_feed(r, u, limit)
        \/ \E a \in Authors, limited \in BOOLEAN :
            create_post(r, a, limited) \/ create_story(r, a, limited)
        \/ \E i \in live : delete_story(r, i)
        \/ \E u \in Users : \E o \in Users \ {u} :
            \/ follow_user(r, u, o) \/ unfollow_user(r, u, o)
            \/ block_user(r, u, o) \/ unblock_user(r, u, o)
    \/ \E i \in live : Remove(i)
    \/ \E u \in Users : refresh_feed(u)
    \/ \E e \in Entries : Expire(e)

\* The runtime polls every request, and Redis expires every entry.
Spec ==
    /\ Init /\ [][Next]_vars
    /\ \A r \in Requests : WF_vars(Advance(r))
    /\ \A e \in Entries : WF_vars(Expire(e))

-----------------------------------------------------------------------------
(* Properties *)

\* A cached page differs from what the query would return, or shows a post or story that
\* can_view_post or get_story would refuse its reader, only while a request has yet
\* to delete the entry, or for one of three reasons: a fill whose query ran before the
\* change and whose SETEX ran after the deletion; a fault; a change made by someone else
\* that the handlers announce to nobody (a post removed, being blocked, losing a mutual
\* follow). A change of one's own, a new post or a new story is never such a change.
StaleOnlyIfExcused == \A e \in Entries : Stale(e) => Pending(e) \/ e \in excused

\* What was removed leaves every cached feed for good once the entries that hold it have
\* expired: a stale fill cannot bring it back again and again ("followers see stale data
\* until the TTL expires", invalidate_followers_feeds).
RemovedItemsVanish ==
    \A i \in ItemIds :
        [](i \in DOMAIN items /\ i \notin live => <>[](\A e \in Entries : i \notin cache[e]))

=============================================================================
