# Verification of the Ciel backend

TLA+ models of the Ciel backend (the Rust service under `src/`), the TLC
configurations that check them on small instances, and TLAPS proofs of their
safety properties for every value of the constants.

The service is a set of HTTP handlers, two background loops and a worker that
share PostgreSQL, Redis, SQS and S3. No lock of its own orders them: what keeps
its data right is the order of its SQL statements, a few row locks, unique
indexes and foreign keys, and retries. Its tests issue one request at a time.
The models therefore take **one SQL statement, queue call or object-store call as
one step** and let anything else happen between two of them. A transaction at
READ COMMITTED is several steps whose writes appear at its commit.

## The system

| Part | State | Operations that change it | Model |
|---|---|---|---|
| Media upload, API side (`app/media.rs`) | `media_uploads`, `media`, objects | create_upload, complete_upload, enqueue_processing, delete_media | `MediaPipeline` |
| Media worker (`jobs/media_processor.rs`) | the same, and its message | run, process_job, mark_failed, handle_media_job | `MediaPipeline` |
| Queue client (`infra/queue.rs`) | SQS messages | enqueue, receive, delete, visibility timeout, dead-letter queue, expiry | `MediaPipeline` |
| Clean-up loop (`jobs/cleanup.rs`) | uploads, stories, invites, account ages | hourly round | uploads in `MediaPipeline`, stories in `Stories`, invites in `Invites`, ages in `Trust` |
| Social graph (`app/social.rs`) | `follows`, `blocks`, locks on `users` | follow, unfollow, block, unblock | `SocialGraph` |
| Account deletion (`app/users.rs`) | `users.deleted_at`, follows, blocks, refresh tokens | delete_account | `SocialGraph`, tokens in `Sessions` |
| Stories (`app/stories.rs`) | stories, views, reactions, two counters, highlights and items | create, delete, expire, see, react, highlight, clean up | `Stories` |
| Listings (all of `http/handlers.rs`) | the client's cursor | limit + 1 rows, pop, next_cursor | `Paging` |
| Sessions (`app/auth.rs`) | `refresh_tokens`, `users.deleted_at` | login, refresh, revoke, authenticate, ban check | `Sessions`, implementing `SessionChains` |
| Invites and signup (`app/invites.rs`, `app/auth.rs`, `infra/db.rs`) | `invite_codes`, quotas and rewards in `user_trust_scores`, `users`, pool connections | create, consume, revoke, clean up | `Invites` |
| Trust and moderation (`app/trust.rs`, `app/moderation.rs`) | points, flags, strikes, level and ban of a user; reports | record_activity, record_flag, add_strike, reports, takedowns | `Trust` |
| Feed caches (`app/feed.rs`, `app/stories.rs`, `infra/cache.rs`) | Redis keys with a TTL | fill, invalidate, expire | `FeedCache` |
| Rate limiter (`app/rate_limiter.rs`, `http/middleware/rate_limit.rs`, `config/rate_limits.rs`) | Redis counters | check_and_increment, check_and_increment_ip | `RateLimiter` |
| Notifications (`jobs/notifications.rs`) | bounded queue, rows | try_send, worker, drain | `Notifications` |
| API process (`main.rs`, handlers that notify) | requests, background task | middleware, handlers, shutdown | `Api`, composing the two above |
| Posts, comments | rows | single statements or one transaction | as actions of `Trust`, `FeedCache` and `Api` |
| Device fingerprints, search, profiles | rows | one locked transaction; reads; one UPDATE | not modelled |
| HTTP layer, configuration, clients, ports, deployment | none | | not modelled |

How the parts meet: a completed upload makes a message, whose delivery makes a
media row, which posts and stories refer to with `ON DELETE RESTRICT`; a follow or
a block decides what feeds and stories a user sees, and both are removed when an
account is deleted; the clean-up loop is the only retry for uploads whose message
was lost and the only thing that removes stories; every list is read through the
same paging code while the other parts change it. A signup turns an invite into an
account, a trust row and a reward for the inviter; the trust level decides how
many invites a user may send and how many requests the rate limiter lets
through; strikes end in a ban, which every later request meets. Posts, stories,
follows and blocks make cached feeds out of date, and likes, comments, reactions
and follows queue notifications.

What makes it hard to test, with the line where it bites and the properties that
would notice, is the list `hazards` of `PROJECT.json`.

## Modules

`MC*.tla` only adds a symmetry set or the value of a constant that a `.cfg` cannot
write (a table of quotas, the plans of requests, the cache entries); every
other constant gets its value in a `.cfg`.

### MediaPipeline

`status` and `processed` are columns of `media_uploads`. `inserted` and `live` are
the rows `media` ever had and has. `original`, `thumb` and `medium` are the objects,
whose keys depend on the upload alone, so that two media rows of one upload share
them. `msg` is the queue, `pc`/`job` a worker's place in `run`, `hpc`/`hup` a request's,
`batch` what the sweep has fetched and not yet sent. The media row's uuid is the
pair of upload and worker; the theorem `FreshMediaIdHolds` shows that this pair is
never used twice, so the choice loses nothing. An image is `good`, `bad` (a
permanent error) or `missing` (a transient one, as in the code, where
`get_object` fails).

The queue is the one of `terraform/modules/messaging`. `receives` counts how often a
message was received; one that was received `MaxReceives` times (`dlq_max_receive_count`, 3)
is not delivered again but goes to the dead-letter queue (`DeadLetter`), which nobody
reads. That is no fault: an upload that was completed before its object arrived,
or workers slower than the visibility timeout, are enough. `dead` are the uploads
whose last message ended there. A queue that `QueueClient` creates by itself has
no dead-letter queue; a `MaxReceives` that is never reached stands for it, and the
theorems are for any.

`Fault` covers every failed call, every crash and every message that is lost: of the
enqueue, of an object deletion, of any step of a worker, of the sweep, and of a
message older than the retention period (`MessageExpires`). A worker that is interrupted
keeps nothing; its message becomes visible again.

### SocialGraph

`follows`, `blocks` and `deleted` are committed rows. `adding`, `dropF` and `dropB` are the
uncommitted writes of a request, applied by `Commit`. A statement waits while
`WaitsFor` is not empty: PostgreSQL's lock conflicts between `FOR UPDATE`, `UPDATE`
and foreign-key locks on rows of `users`, and between writers of one row of
`follows` or `blocks`. `Abort` stands for deadlock detection, a lost connection or a
client that goes away. A statement that waits is modelled as one that starts after the wait.
PostgreSQL takes its snapshot before and re-reads the row it waited for; the
row is the only thing the code then uses, except in `follow`, where the count and
the insert are statements of their own with their own snapshots. A `DELETE` of several
rows locks them in one step here and row by row in PostgreSQL: two such
statements over the same rows (`delete_account` beside another one) may also meet in
opposite orders, a lock cycle that `DeadlockOnlyThroughFollow` does not speak of.

The revocation of refresh tokens inside delete_account is a step of `Sessions`;
nothing in this module reads it.

### Stories

One owner's stories with their rows. A deleted story's rows go with it
(`ON DELETE CASCADE`, `SET NULL` for covers). Statements that insert and count in
one CTE are one step. `INSERT ... SELECT MAX(position) + 1` is two steps, `SelectMax`
and `InsertItem`, because its SELECT uses the statement's snapshot and nothing makes
a second such statement wait. `abandoned` is a history variable: adds that died
between their statements. `media` rows cannot vanish under a story
(`ON DELETE RESTRICT`, migration 014).

### Paging

Rows are natural numbers, in the order of the listing. Other requests insert rows
anywhere in the order, since `created_at` is the start of a transaction and not its
commit. A key may come back after it was deleted, which real ids do not:
a superset of the real behaviours. `steady`, `got` and `popped` are history variables. The
definitions follow the likes of a post; the other listings repeat that code. The
specification is `WalkSpec`, its type invariant `WalkOK`.

### Sessions and SessionChains

`rows` and `revoked` are `refresh_tokens`; the `root` of a row is the login its chain began
with, which the code has no column for and the refinement needs. A statement that
waits for a lock has its snapshot from before the wait and re-reads the locked
row after it, so `refresh` is `refresh_token` (snapshot) and `RefreshLock` (lock), and the
`UPDATE` of all of a user's tokens, in reuse detection and in delete_account, is
`FamilySnapshot` and then `ReuseDetected` or `DeleteCommit`. A client may present any issued
token at any time and repeatedly, which covers lost answers and retries. `shown`,
`repeated`, `replayed`, `young` and `racing` are history variables that name what may
excuse a session that ends, or one that survives.

`SessionChains` knows neither requests nor rows: a login opens a chain, a refresh
replaces its one live token by a token never used before, and chains of one user
are closed for good. `RotationIsChains` states that `Sessions` implements it, with the
live tokens of each root as the chain's end.

### Invites

`codes`, `sent`, `rewarded`, `level` and `account` are columns of `invite_codes`,
`user_trust_scores` and `users`. A request holds a pool connection from `BEGIN` to its end
(`HoldsConnection`); `create_invite` needs a second one in `generate_unique_code`, whose query
runs on the pool and not on the transaction. `Ready` says what a request waits for: a
connection, or a row another one has locked. `AcquireTimeout` and `StatementTimeout` are the
two settings of `Db::connect`.

### Trust

One user's row of `user_trust_scores`, with the reports about them. `record_flag`, with
the strike and the recalculation in it, holds the row throughout and is one step,
an operator on the row; `record_activity` is an UPDATE, and the recalculation after it
a read and a write. `lost` are reports whose best-effort second half failed, `stale`
tells that a level was written from an outdated read or never recalculated.

### FeedCache

An item is a post or a story, a page the set of items the query returned. A reader's
request is the query and later the `SETEX`; a writer's is the commit, then the list
of followers, then one deletion per key. `excused` are entries that may be out of
date, with the reason decided at the step that causes it: a fill that overlapped a
change, a failed call or a crash, or a change that no handler announces to that
reader.

### RateLimiter, Notifications and Api

`RateLimiter` has the windows each action is checked against, counters by key with the
time they expire, and `incr_with_ttl`, the Lua script. The limits of `config/rate_limits.rs`
are constants (`RateLimits`, `IpLimit`), since nothing depends on their values.
`Notifications` has the channel, where
`try_send` is a permit and then the value as in tokio, and the worker. `Api` extends
both: a request passes its middleware one counter at a time, changes a table and
sends; for each counter it builds the key from the clock (`BuildKey`, the window's number
is `number`) and calls Redis in a later step (`IncrWindow`), before which any time may pass.
`counted` is the history of these calls, with the time they ran; `main` goes from serving over the join of the worker and the requests still
running to the exit. The table of an operation is reduced to what decides whether
it notifies.

## Runs

| Run | Shows |
|---|---|
| `media_safety` | rows, objects and messages of an upload stay consistent under redelivery, duplicates, dead-lettering, crashes and deletion |
| `media_liveness` | an upload whose object was put and that was completed is settled in the end, though its messages are lost or dead-lettered |
| `social_graph` | no follow across a block, the follower limit, no followers of a deleted account, where lock cycles can come from |
| `stories` | counters, references and covers |
| `stories_highlights` (violation) | the clean-up empties highlights |
| `paging` | no repeats, an end, and only the popped row lost |
| `paging_skip` (violation) | the popped row is lost |
| `sessions` | rotation implements `SessionChains`; what survives a deletion was racing it; reuse detection ends sessions only after a token was presented twice |
| `invites` | a code admits one account, all or nothing; quotas hold; a revoked code admits nobody; only the second connection can stall the pool, and the timeouts end it |
| `trust` | flags, strikes and bans follow from the reports, none counted twice or skipped; a level is not above what the row earns unless a recalculation is due, lost or raced |
| `feed_cache` | a cached page is out of date, or shows what its reader may not see, only for a named reason, and not for ever |
| `api` | no window lets more requests through than its limit, on calls that ran within it; accepted notifications are processed unless the join timed out; the shutdown ends |

### Bounds

* Media safety: one upload, since no safety property relates two; two workers and
  two requests, so that every pair of steps overlaps; two messages, received at most
  three times as in the code; one fault. Two messages are needed for a redelivery
  beside a duplicate, one fault to separate what a fault excuses. Liveness: one
  upload, two workers, one request, one message at a time, three receives, two
  faults. `MCMediaTwoUploads.cfg` checks the same with two uploads, so that the sweep has
  to choose (about nine minutes, hence not a run). `Batch` holds all uploads in both;
  when it does not, see finding 4.
* Social graph: three users, so that a follow can meet a third party's, and two
  concurrent requests; `MAX_FOLLOWERS` is 1, so that the limit is reached. Longer
  lock cycles are covered by the theorem.
* Stories: two stories, two viewers, one highlight, two requests.
* Paging: six keys and page sizes 1 and 2: three pages and more, pages shorter than,
  equal to and longer than what is left.

* Sessions: one user, three tokens, two requests: a chain of two rotations, or a
  rotation beside a second login. `MCSessionsTwoUsers.cfg` checks the same properties
  with two users and two tokens, for what one user's requests may do to another's.
* Invites: two inviters, two new handles, two codes and two requests over a pool of
  two connections, the smallest in which two `create_invite` calls take every
  connection and wait for one more. Level 0 may send one invite and level 1 two.
* Trust: three reporters, one post and the profile, so six reports; a strike is due
  every 3 flags (10 in the code) and a ban after 2 strikes (3), both reached. Points
  up to 10, and thresholds of the levels scaled down with them.
* Feed cache: a reader and an author who may follow and block each other, one item,
  a home and a stories entry of the reader and the author's home entry, two
  requests.
* Api: plans of two requests that compete for the same quota, or for the one place
  in the queue. A follow is allowed once an hour and once or twice a day, by level,
  so that one window refuses what the other lets through; everything else once
  or twice, and once per address. Two ticks of half an hour, so that an hour ends
  between any two steps, with days of two hours; trust levels 0 and 1.

`MCApi.cfg` switches deadlock checking off because the process exits;
`MCSocial*.cfg` and `MCStories*.cfg` switch deadlock checking off, because once every
account or story is deleted nothing more can happen.

### Fairness

`MediaPipeline`: a request that runs takes its next step; a worker that holds a job
goes on (`run` is a loop with no exit but shutdown); the visibility timeout passes;
a message that is visible again and again is received (SQS delivers, the worker
polls; strong fairness, because a message is invisible while in flight) or, after
`MaxReceives` times, moved to the dead-letter queue; the hourly sweep runs again and again, with uploads that have become old enough; it works through
its batch. Nothing is assumed of clients, and faults are finitely many.

`Paging`: the fairness is the client's: it keeps asking for the next page. Every
other request may run at any time or never.

`Invites`: a request that can go on does, and its two timeouts fire (weak fairness of
`Advance`). `FeedCache`: the same for requests, and Redis expires every entry.
`Api`: a request that has arrived goes on and so does `main`. The first is an assumption about
PostgreSQL and Redis: the code has no timeout for a whole request or for the
answer of Redis, and a call that is never answered would hold up the end of
serving, hence `ShutdownEnds`. Nothing is assumed of the
notification worker, which may hang in a query: the join has a timeout for that.
`Sessions` and `Trust` have safety properties only.

## Theorems

Every safety property that a passing run checks, and the refinement of
`SessionChains`, is also proved. The theorems hold for arbitrary constants: any sets
of users, requests, tokens, codes, reports, items and keys, under the named
ASSUMEs of the modules. These say that bounds are natural numbers, that `None`-like
values lie outside the sets they extend, and that

* the users of `SocialGraph` are finitely many (followers are counted), and `Sessions` has
  a user at all (the refinement mapping gives an unissued token to one);
* a strike is due every two flags or more (`FlagsPerStrike`, 10 in the code; a strike adds
  a flag of its own, which with one flag per strike would pass a boundary unseen)
  and a ban after at least one strike (`StrikesToBan`, 3 in the code);
* a page, a pool, the notification queue and a day have a size of at least one;
* every inviter's level has a quota, and level 0, which new users get, is a level;
* the plans of `Api` name operations that the rate limiter knows (`PlansAssumption`), and
  limits are natural numbers (`LimitsAssumption`).

A proof has one step per action of `Next`. The invariant it carries was first checked by
TLC on a small instance. What is in it beyond the property, and why:

* **MediaPipelineProofs.** The inductive invariant `IInv` is in two groups. Rows:
  `NoOrphanedMedia`, `FreshMediaId` and `CompletedPointsAtMedia` support each other. Objects:
  `BrokenOnlyAfterDelete` needs to know what a worker has stored so far
  (`WorkerBacked`) and that a request deletes objects only after a row
  (`RowBeforeObjects`). `QueueInv`, on top of it, is about messages: `StrandedOnlyByFault` needs
  that only started uploads are queued (`OnlyStartedQueued`), that a claim is never undone
  (`ClaimHolds`), and that a message is consumed only for a settled upload
  (`ConsumedWhenSettled`); a message that leaves the queue unconsumed and without a fault
  is a dead-lettered one, and its upload is then in `dead` or has another. `SettledStaysSettled`, an action property, follows from the
  lemma `StatusOnlyForward` (how a step may change a status).
* **SocialGraphProofs.** `Shape` (what a request has done, from where it is) and
  `LocksExclude` (a follow's `FOR UPDATE` lock excludes the others) carry the rest: what
  a pending follow, block or deletion saw is still true when it commits
  (`PendingFollow`, `PendingBlock`, `PendingDelete`). From these: `NoFollowAcrossBlock` and
  `NoFollowersOfDeleted`. `FollowersBounded` adds `PendingCount` (a follow past its count still
  leaves room for one). For deadlocks, every wait other than at a follow's foreign
  key goes to a request further along, so a cycle must contain one such follow.
* **StoriesProofs.** `NoDanglingRows` with the auxiliary `Linked` (the highlight of an add past its
  upsert exists), `CoverIsItem`, and `CountsMatchRows` with finiteness of the row
  sets and the cardinality lemmas `OneRowMore` and `OneRowLess`. The last part of the
  module is about `Paging`, whose specification has names of its own (`WalkSpec`, `WalkOK`)
  for that reason: the lemma `PageStep` says what one page does; `Behind` (what the
  client has sorts before the cursor) and `Fresh` (steady rows it has not seen sort
  beyond it) make `NoRepeats` and `OnlyPoppedSkipped` inductive.
* **SessionsProofs.** `ChainInv` is what the refinement rests on: a chain has one user
  (`Rooted`) and at most one live token (`OneEnd`). The latter is inductive because a row
  lock has one holder (`LocksExclude`) and a refresh past its check still finds its token
  live (`RotateLive`), also while somebody else revokes the family. Then `RefinesSessionChains`
  maps the initial states and each step of `Sessions` to a step of `SessionChains` or a
  stutter. `DeleteInv` follows a deletion from its first UPDATE to its commit: it is the only
  one of its user, and what it will leave live was issued after its snapshot
  (`PendingDeletion`). `ReplayInv` says that a revoked token of a user who did nothing twice was
  given up by the one client that had it (`GivenUp`), so that nobody can present it again.
* **InvitesProofs.** `LockInv`: what `create_invite` and `signup` read under a row lock, quota left,
  code valid, handle free, is still so at their last statement, and two requests
  never hold the same lock. With `Charged` (`invites_sent` counts the codes) it gives `QuotaHeld`, with
  `AtomicInv` (finitely many accounts) `SignupIsAtomic`. `StallOnlyInCodeGeneration` is an argument about
  waiting: locks are taken in the order handle, code, inviter, and only
  `generate_unique_code` asks for a connection while it holds one.
* **TrustProofs.** `StrikeInv`: each inserted report is in the hands of at most one request and
  a lost one in nobody's (`OnceEach`), so a step of `record_flag` adds exactly one to the
  reports the row has heard of; the arithmetic of flags and strikes is the lemma `NextFlag`.
  `LevelEarned` needs no more than the types and the lemma `NewLevelMonotone`: points and age
  never lower the level that is due.
* **FeedCacheProofs.** `CacheInv` has, beside the property, that a query about to be cached has an
  entry and that nobody blocks themselves (`Apart`). The lemma `FeedVisible`, that the queries
  return only what `can_view_post` and `get_story` allow, reduces the property to "cached pages equal the
  query". Each kind of change is then followed to the entries it can affect: they
  are among those the request will delete, or are excused at that step.
* **ApiProofs.** `DrainInv` follows an accepted notification: queued, in the worker's hands or
  processed until the worker stops, which it does with an empty queue and after the
  signal. `QuotaInv` is the argument for the rate limiter. A counter that was
  started in its window outlives it (`OutlivesWindow`), hence it has counted every call
  that ran within the window (`CountsAll`); a late call can only add to it or start a
  counter that no call in time will use. No call runs before its window has begun
  (`Begun`). Among any requests of a window that were not limited there is one whose
  limit had room for all of them (`RoomForAll`). That is stated for every subset, not
  only for all of them: a request counted in its hour may still be refused by its
  day, and then leaves the set.

Only model-checked:

* the liveness properties `UploadsSettle`, `WalkEnds`, `RequestsFinish`, `RemovedItemsVanish` and
  `ShutdownEnds`: fairness and ENABLED are outside the prover;
* the violated properties, whose counterexamples are concrete runs.

## Findings

Findings 1 and 2 are runs. Each of the others is a property that is violated under
the configuration named with it; `tlc -config <cfg> <module>` prints the behaviour.

1. Every listing loses one row per page boundary (`NothingSkipped`).
2. Highlights lose stories 48 hours after expiry (`HighlightsPermanent`).
3. Two overlapping deliveries of one upload insert two media rows that share their
   objects (`AtMostOneMedia`, `MCMediaDuplicate.cfg`). Deleting one of them breaks the other.
4. An upload completed without its object stays among the oldest unsettled rows;
   `STALE_UPLOAD_BATCH` of them stop the sweep from reaching newer ones
   (`UploadsSettle` with a full batch, `MCMediaSweepStarvation.cfg`).
5. A follow begun by a user just before they delete their account can survive
   it (`DeletedFollowsNobody`, `MCSocialDeleted.cfg`); the other direction cannot happen.
6. Positions in a highlight are not distinct under concurrent adds
   (`PositionsDistinct`, `MCStoriesPositions.cfg`).
7. Reuse detection, which is to revoke the whole token family, leaves the token of a
   rotation that commits while it waits (`FamilyRevoked`, `MCSessionsFamily.cfg`).
8. `docs/API_INTEGRATION.md:36` says "Rate limits use sliding window algorithm with Redis
   backend". The windows are fixed: requests at the end of one and the start of the
   next pass together, more than the limit in less than a window (`SlidingWindow`,
   `MCApiSliding.cfg`).
9. The key of a counter is built before the awaited call. A call that reaches Redis
   after the counter has expired starts it anew, and its request is let through
   whatever the window had already used (`LateWithinLimit`, `MCApiLate.cfg`).

Several properties that hold do so with exceptions the code really
has, and each names them: a login or refresh that had read the user before
delete_account committed still issues a token, which is refused when it is next
used (`DeletionEndsSessions`); a client that retries a refresh whose answer was lost
ends its user's sessions (`OnlyReplayEndsSessions`); a report whose `record_flag` failed never
counts, since it cannot be repeated (`StrikesMatchReports`); a level computed from an old
read outlives the strike it overwrote until the next recalculation (`LevelEarned`); a
post that was deleted stays in cached feeds until their TTL (`StaleOnlyIfExcused`); the cover
of an add that died before its insert stays (`CoverIsItem`); an upload whose last message was
dead-lettered waits for the sweep (`StrandedOnlyByFault`); a call of the limiter that runs
after its window is not counted (`AdmittedWithinLimit`); a notification sent after the signal,
or cut off by the ten seconds of the join, may be lost (`AcceptedProcessed`); two
`create_invite` calls can stall a pool of two until acquire_timeout
(`StallOnlyInCodeGeneration`). No property is about a ban that comes between a login's check and
its token: the token is issued, and `ban_check_middleware` refuses its use.

## Not modelled, and the plan

* **Device fingerprints**: `register_fingerprint` is one transaction that holds its row
  from the first statement to the commit; nothing interleaves with it.
* **Search, listings of other tables, profiles, statistics**: reads, or a single UPDATE. The
  paging of all listings is that of `Paging`. A cached first page under another limit
  (`app/feed.rs:69`) is in no module: `FeedCache` has no page sizes and `Paging` no cache.
* **Rate limits by the minute** (`/health`) and `login_attempts_per_hour`, which no route asks
  for; counters lost by a restart of Redis, which is a reset of every quota.
* **A crash of the API process** with notifications in memory: they are lost, by
  design of an in-process queue.

Next: a cache in front of `Paging`, for the first page under another limit.

Left out for good: image decoding, formats and sizes; text of messages and
errors; presigned URLs; metrics and logs; passwords and token cryptography;
start-up and configuration; search ranking; the Spring and .NET ports. They have no
state that the parts above share.
