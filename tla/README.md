# Verification of x-algorithm: Thunder and the For You pipeline

The repository holds a feed recommender: `thunder/` (Rust) keeps recent posts in
memory, fed from Kafka; `candidate-pipeline/` (Rust) is a framework of stages that
find, hydrate, filter, score and select candidates; `home-mixer/` (Rust) builds the
"For You" feed on it; `phoenix/` (Python/JAX) holds the retrieval and ranking models;
`php-implementation/` is a port of the pipeline to PHP.  Paths below are relative to
`src/`.  The Rust code is a snapshot without build files, and some of its crates and
modules (`params`, `clients`, `util`, the schema crates) are not in it: what they do
is taken from how the code here uses them, and marked external.

Contents: [1 the system](#1-the-system), [2 modules](#2-modules-and-code),
[3 runs](#3-runs), [4 fairness](#4-fairness), [5 proofs](#5-proofs),
[6 where code and documents differ](#6-where-code-and-documents-differ),
[7 what is not modelled](#7-what-is-not-modelled), [8 plan](#8-plan).

## 1 The system

    tweet_events --> feeder (v1) --> in-network topic --> listener threads (v2)
                                                              | insert / delete batches
                                                              v
    trim loop ------------------------------------------> PostStore
                                                              ^ scans
    home-mixer: request --> pipeline --> ThunderSource --> thunder gRPC service
                               |-------> PhoenixSource --> retrieval model
                               |-------> hydrators, filters, scorers, selector --> reply

| Component | State | Operations | What is hard, and what makes it correct |
|---|---|---|---|
| PostStore, `thunder/posts/post_store.rs` | five concurrent maps: full posts, tombstones, and the original, secondary and video timelines (a deque of id and time per user; the tombstones' times sit in the original map under a key of their own) | insert_posts, mark_as_deleted, finalize_init (sort, trim, purge), trim_old_posts in a loop, get_posts_from_map | No operation is atomic: each touches several maps, one lock at a time, from several threads. Correct: no deleted post is served, nothing is leaked, nothing live is lost or listed twice |
| Listener v2 and start-up, `thunder/kafka/tweet_events_listener_v2.rs`, `thunder/main.rs` | per thread: consumer, buffer, catch-up flag; a shared semaphore and channel | poll, measure lag, store a batch, signal; main counts signals and finalises | Signals lost or sent twice, dead threads, a closed channel. Correct: main goes on when the store is filled, and does go on |
| Feeder, `thunder/kafka/tweet_events_listener.rs` | per thread: consumer, partition offsets | read a batch, convert, send each event from a task of its own, commit offsets | Reordered, lost and repeated sends, crashes before the commit |
| gRPC service, `thunder/thunder_service.rs` | a semaphore, a gauge of requests in flight | admit or reject, fetch the following list, scan in a blocking task, score | A request ends in many ways, its scan in another; the store changes under the scan; caps, budgets and the time limit cut results. Correct: permits come back once, and replies are what was asked for, but for what a limit took away |
| Shard locks of the store, `thunder/posts/post_store.rs` | a queued read-write lock per shard of each map | every access above, nested | Readers, listeners, trimmer, purge and statistics hold one lock while they ask for another. Correct: nobody waits in a circle, or for ever |
| Pipeline framework, `candidate-pipeline/` | per request: query, candidates, removed candidates | the stages of `execute` | Parallel calls that fail or answer for fewer candidates; filters that fail. Correct: candidates are conserved, fields belong to their candidate, every request is answered |
| home-mixer, `home-mixer/` | none between requests | its query hydrators, sources, hydrators, filters, scorers, selector, side effect | A remote call that fails opens a filter; components of one stage depend on each other; scores are rewritten between sort and reply. Correct: nothing ineligible is served beyond what a failure leaves unknown |
| PHP port, `php-implementation/` | a service object alive across requests: its configuration, its pipeline, what its duplicates filter remembers | create, reset, updateConfig, checkHealth, extend the pipeline, answer a request, one after the other | Filters with state left over from the request before, a configuration that no longer fits the pipeline, exceptions half way. Correct: replies are eligible and ranked, and nothing is dropped without a reason |
| Models, `phoenix/` | parameters | forward passes | Numeric code. Correct: the score of a candidate does not depend on the others, through any number of layers and whatever is padding |

Interaction: the feeder and the listener meet at a Kafka topic (reordering,
redelivery); the listener, the trim loop and the readers meet in PostStore (shared
memory); thunder and home-mixer meet at a gRPC call that may fail; the components of
the pipeline meet in the candidate list they are handed (a snapshot per parallel
stage).  The hazards this gives rise to are listed with their lines in
`PROJECT.json`, each with the property that would catch it, or why there is none yet.

## 2 Modules and code

### PostStore, PostFeed

`PostStore.tla` models `post_store.rs` with one step for each access to a map.

| Code | Model |
|---|---|
| `posts`, `deleted_posts` | sets of ids `posts`, `deleted` |
| the three timeline maps | `timeline[map][user]`, sequences of `[id, at]`; the tombstones' queue is `timeline["original"][DeleteKey]` |
| insert_posts | `BeginBatch` (retention test, lines 85-101), then for each post `InsertCheck` (tombstone test), `InsertPut` (map insert, `old.is_some()`), `InsertPush`, `InsertVideo` |
| mark_as_deleted | `DeleteRemove`, `DeleteMark`, `DeleteBury` for each event |
| finalize_init | `FinalizeStart`, `SortVisit` per timeline, a trim, `PurgeVisit` per tombstone, `PurgeEnd` |
| trim_old_posts | `TrimStart`, `TrimVisit` (takes the write lock of a timeline), `TrimPop`, `TrimUnstore`, `TrimUnmark`, `TrimLeave`, `SweepNextMap`, `TrimEnd` |
| get_posts_from_map | `ReadStart` (a timeline's read lock), `ReadCopy`, `ReadCheck` for each entry from the back, `ReadEnd` |
| the clock | `Tick`; a feeder stamps deletions with its own clock, up to `MaxSkew` ahead |

A post is an id; its author, time and kind are constant functions, since every
delivery of a post carries the same.  DashMap locks whole shards; the model locks
single timelines and therefore allows more interleavings than the code.  The subtraction of line 438 is done modulo `U64`.  Each thread's choice among the
remaining posts of its batch is free, which covers every order of a batch.
`early` records posts the trimmer drops because the subtraction wrapped; a post is
*spent* when it is past the retention period or in `early`, and the properties claim
nothing about spent posts.

`PostFeed.tla` is what the store promises, without maps or threads: a post
appears, disappears only if its deletion was asked for or it is spent, and never comes back
once its deletion is complete, unless spent.  `PostStore!FeedSpec` states that PostStore implements
it under `visible <- posts \ deleted, retracting <- doomed, sealed <- gone,
spent <- Spent`.

### ThunderService

`ThunderService.tla` models the gRPC service and the queries of `post_store.rs` it
makes: `get_videos_by_users`, `get_all_posts_by_users`, `get_posts_from_map`.

| Code | Model |
|---|---|
| try_acquire, the in-flight guard | `Admit`, `Reject`; every way out is `Leave`, which drops both |
| the future awaiting Strato, or the blocking task | `req[r].stage` is `strato` or `scan`; `Fetched`, `FetchFails`, `Respond`, `JoinFails` (the task panicked) |
| a client that goes away | `Cancel`, at either await; the blocking task runs on |
| truncation, spawn_blocking | `NewTask` in `Spawn` |
| get_posts_from_map | `NextUser` (or `TimedOut`, which is for good), `Look` at one entry from the back: exclusions are free, everything else uses up `budget` (MAX_TINY_POSTS_PER_USER_SCAN), hits use up `room` (the author's cap); `MapDone` goes from originals to the secondary timeline |
| the filters in the iterator chain | `Eligible`: stored, not deleted, no retweet of the viewer's, and `Answers` for replies |
| score_recent | `ScoreRecent`: any order an unstable sort may leave, cut to `Limit` |
| the statistics | `StatisticsPanic`: `duration_since(UNIX_EPOCH).unwrap()` for a result that is not empty |
| listeners and trimmer | `Insert`, `Delete`, `Trim` in one step each, at any time, but not to a timeline whose lock a scan holds |

The store's own interleavings are PostStore's subject; here what matters is that it
changes between two entries and two users.  Tombstones are not trimmed: they live as
long as posts are retained, a request for milliseconds.  `gone[r]` and
`steady[r]` record what was deleted when the task was spawned, and what has been stored
and listed ever since.

### StoreLocks

`StoreLocks.tla` models the locks of the DashMaps: a read-write lock for each shard, its
waiters in order of arrival, so that a reader behind a waiting writer waits.  A
process asks for a lock (`Ask`), is granted it (`Grant`), goes on and gives back what it
no longer needs.  What it finds under the lock is free.

| Code | Model |
|---|---|
| get_posts_from_map | `ScanUser` (timeline), under it for each entry `LookUp` (posts, given back at once by the copy), `LookUpMark` (deleted_posts), `LookUpParent` (posts) |
| insert_posts_internal, mark_as_deleted | `InsertCheck` ... `InsertDone`, `DeleteRemove` ... `DeleteDone`: one lock at a time |
| sort_all_user_posts, trim_map, the purge, start_stats_logger | sweeps of `Janitor` and `Logger` over the jobs of `Script`: `SweepStart`, `SweepNext` and `SweepCross` (the iterator has the next shard before it lets go of the last), `SweepUnstore`, `TrimUnmark`, `TrimRemoveUser`, `SweepEnd` |

### AttentionMask

`AttentionMask.tla` models what the ranking model of `phoenix/` can compute a score from.
`Layer` is a DecoderLayer: a position mixes in what it attends to, and keeps what it had.
`Attended` is the mask of `make_recsys_attn_mask` times the padding mask under the
softmax, which gives a masked key no weight, unless all keys of the row are masked:
then all have the same.  The module has no run of its own: it was checked with TLC for sequences
of six positions before `HomeMixerProofs.tla` proved it.

### KafkaCatchup

`KafkaCatchup.tla` models `process_tweet_events_v2`, the spawning of its threads with
`div_ceil` partition ranges, and the wait of `main`.  Messages are counted.  Each
iteration of a listener is `Poll`, `LagMeasured | LagFailed | LagSkipped`, `Buffer`,
`Acquire`, `StoreBatch`, `Send`; a consumer that cannot be made is `ConnectFail` (the
task panics, its `Sender` is dropped).  Main is `Receive`, `ReceiveNone` (the
channel is closed and `recv` returns at once), `Finalize`.

### Feeder, FeedChannel

`Feeder.tla` models the threads of `tweet_events_listener.rs`, one log per thread.
`Buffered(t)`, the events polled but not committed, is `message_buffer` and then the
batch: the code takes the buffer, handles it and commits before it polls again.

| Code | Model |
|---|---|
| create_kafka_consumer, panic if it fails | `Connect`, `ConnectFail` |
| poll, extend the buffer, `len >= batch_size` | `Poll`; a failed poll changes nothing |
| conversion of a batch, start of the send tasks | `Process`: `Relevant` events become `Messages`, stamped by one reading of this host's clock |
| an `unwrap` on a missing field | `ProcessPanic`: before anything of the batch was sent; the thread is dead, the process is not |
| a send task | `SendEnds`: delivered, or reported as failed and delivered or not |
| join of the tasks, commit_offsets | `Commit`, `CommitFail` (the thread panics; the broker may have committed) |
| end and restart of the process | `Restart`, at any moment: threads go back to the committed offset; messages in hand may or may not arrive |

`topic` is the set of delivered events, `failed` those reported, `sent` counts how often
the sending of each event was begun.

Feeder implements `FeedChannel.tla` (its `ChannelSpec`), which tells without threads,
batches, tasks or clocks what a producer may rely on: the events of a source are
acknowledged in order, each only when it was delivered, reported as undeliverable or
waived; delivery of an event is begun at most once in each life of the process and never
again once acknowledged; nothing else is delivered.

| FeedChannel | Feeder |
|---|---|
| `Attempt` | `Process` |
| `End` | `SendEnds` |
| `Acknowledge` | `Commit`, and a `CommitFail` whose commit happened all the same |
| `Waive` | `Tick`, after which some deletions are too old to be relayed |
| `Produce`, `Restart` | `Arrive`, `Restart` |
| stutter | all others: `Connect`, `Poll`, `ProcessPanic` ... |

### CandidatePipeline

`CandidatePipeline.tla` models `execute` for one request, with the components as
parameters: `Outcome(c, q, s)` is the set of what a call of `c` may return, `Update`
how one answer is written into the query or a candidate, `Enable` its `enable`.

| Code | Model |
|---|---|
| join_all over the enabled components, lines 95-191 | `Begin` fixes who is called, `Answer(c)` ends one call in any order; calls see the snapshot |
| the merge loops after join_all | `MergeQuery`, `MergeSource`, `MergeHydration`, one step per component in list order; an error or a wrong length is skipped |
| run_filters, score | `RunFilter`, `RunScorer`, `Skip`, one step per component |
| select | `Select`: stable sort by descending score, truncated to the selector's size |
| execute | `FetchCandidates`, `Hydrate`, `Filter`, `ScoreAll`, `ToSelect`, `FilterPostSelection`, `Reply` |
| run_side_effects | `Reply` spawns them, `EffectEnds` ends one after the reply |

Requests share nothing in this framework, so one request is enough.

### HomeMixer

`HomeMixer.tla` gives the parameters their values: every query hydrator, source,
hydrator, filter, scorer, the selector and the side effect of `home-mixer/`, in the
order of `build_with_clients`.  What remote services know is constant (`AuthorOf`,
`RetweetOf`, `RootOf`, `Violating` and so on); each remote call may fail.  `Rootless` are the
replies whose event carries no conversation id (`tweet_events_listener.rs:247`).  The details
that matter and are kept: `update` of CoreData does not copy the author; Gizmoduck
reads the retweeted user from the snapshot; thunder's candidates name their ancestors
(`Ancestors`), retrieval's do not (`phoenix_source.rs:40-46`), and the conversation filter
knows a conversation by them only (`Conversation`); without an action sequence there is
no retrieval and no prediction; the visibility hydrator makes a call for in-network
and one for other posts and fails if either does; filters whose lists come from
the viewer's features let everything through when those are missing; the
conversation filter replaces the kept candidate in place; diversity positions are
counted in score order and written back at the old index.  What is abstracted: the
text of posts, the aggregation of action sequences (one bit), the weights and
thresholds of `params` (the operator `Weigh` and integer factors), fields nothing
depends on.

### PhpService

`PhpService.tla` models the PHP service over several requests, which it answers one at
a time.  Its constants say of each post who wrote it, what it retweets, the parent and the
ancestors it names, the time of its snowflake id.  `ConversationOf` is the key of
`getConversationId`: the parent, else the least ancestor, else the post itself.

| Code | Model |
|---|---|
| `Algorithm::$service`, and a `HomeMixerService` an application holds itself | `built`, `config`, `pipe` (what buildPipeline took from the configuration), `seenIds` (the filter's array) |
| create, checkHealth, reset, updateConfig, getPipeline()->addSource | `Create`, `CheckHealth`, `Reset`, `UpdateConfig`, `AddSource`, between requests |
| getService, getPersonalizedRecommendations or getRecommendations | `Begin`: options count only if the service has to be built; the limit is read from the configuration |
| fetchFromSources | `FetchFromSources`: the mock retrieval client's posts, then what the application's source returns; `FetchThrows` |
| FilterManager | `ApplyFilter`, one step for each of the eight filters; after a filter that leaves nothing the rest is skipped; `FilterThrows` for a muted keyword that is no string |
| applyScorers | `ApplyScorer`, two or three steps |
| selectTopK and the reply | `SelectAndReply` |
| the clock | `Tick`, also between the steps of a request |

A list of candidates is the set of its members, each with its place `at`: filters and
scorers are then set expressions, and "the first" is the least place.  Scores are
integers; `Boosted` and `Decayed` stand for the two multiplications.  The age filter
reads the clock once for all candidates.  The memory of the filter survives
exceptions, and everything but `Create` and `Reset`.

`MC*.tla` modules give small instances; `*Proofs.tla` hold the proofs.  A definition `MutX`
stands before `X` and is a plausible bug of it; `PROJECT.json` names the property that notices it.

## 3 Runs

Times and states are of TLC with two workers.

| Run | Question | Instance and why it is enough | States |
|---|---|---|---|
| `store_races` | Do ServedFresh, NoOrphan, LiveReachable and FeedSpec hold under every race? | One post, an own video with retention 1; two threads, two batches of up to two events, one reader, clock 0..3. Two threads can deliver the same creation twice at once or creation against deletion; the janitor can sort, trim, purge and trim again around them; the clock passes the retention boundary. All properties are about one post at a time, and posts meet only in timelines, which `store_drains` shares between two | 1.65 million, under a minute |
| `store_drains` | Do the maps and timelines empty once batches stop? | Two posts on one author's timelines (an own video, a retweet of it), inserted in either order, with their tombstones; no symmetry, since it is a liveness property | 72 thousand, 20 s |
| `store_trims_early` | Does a trim remove expired entries only, as documented? | As `store_drains` with larger batches. Violated, see section 6 | - |
| `thunder_service` | Do permits come back once, are replies sound, is nothing left out without a reason, does everything end? | Two requests, one permit, so that the second is rejected, or runs beside the scan of the first after it was cancelled; five posts of two authors: originals, one with a video, replies, a retweet that arrives late; three queries (a plain one; a list with a repeated user and a list of exclusions, both longer than MaxInput; a video request whose list comes from Strato); budget 2, caps 1 and 2, at most two results, so that each limit cuts something; one change of the store at any moment | 384 thousand, 2 min |
| `store_locks` | Can the locks of the store be waited for in a circle, or for ever? | One process of each kind and one timeline map of two shards, which is what an iterator needs to hold two; the other maps have one shard, so that all meet there; one entry per scan and shard, with every nested lock. Two readers or two threads add nothing to a circle that needs different lock orders | 170 thousand, 90 s |
| `catchup` | Is ready declared only after catching up, one signal each, is it declared, and is everything stored? | Two threads over three partitions, so that one has two and one has one; backlog below and above the catch-up threshold of the first; one permit, so that they wait for each other; two late messages | 46 thousand, 5 s |
| `catchup_ready` | Does the wait of main end when all listeners live? | The same; violated, see section 6 | - |
| `feeder` | Does the feeder implement FeedChannel: is anything lost silently or sent too often? Is anything stamped wrongly, and is everything relayed? | Two threads: one with two batches (creation, deletion, deletion of a quote, creation), one whose batch ends in a malformed event; clock ahead by up to 1, retention 0, so that a deletion may be in or out of it; one restart | 472 thousand, 1 min |
| `pipeline` | Are candidates conserved, aligned and requests answered with unreliable components? | Two sources (one may repeat the other's candidate), two hydrators, two scorers, one hydrator and one filter after selection; each may fail, hydrators and scorers may lose a candidate, and half of the components are disabled for fast requests. Two candidates, because a shift needs two | 12 thousand, 2 s |
| `home_mixer` | Is what is served eligible, ranked, one per conversation as far as it is known, in network if asked? | Eleven posts: an outsider's, a friend's, the friend's retweet of the outsider, a reply, an answer to it, and one to that whose event names no conversation, posts by a blocked and a muted author, the viewer's own, an old one, one with a muted keyword; two to four kept by selector and result; requests with and without seen posts, and an in-network request for more | 443 thousand, 30 s |
| `php_service` | Are replies eligible, ranked and new, and is nothing dropped without a reason, over several requests? | Eight posts: a thread whose posts have two conversation keys and one that names it as an ancestor, a retweet, the asking user's own with a muted keyword, one from the future, two made up by the mock client; three lists of an added source with repeated posts and every kind of network flag, and none; two users, a request with seen and served posts, one whose keywords are malformed; two configurations that differ in limit, age and diversity; three requests (one to remember, one that throws or is reconfigured, one to notice) and two ticks, which cross the shorter age | 1.0 million, 20 s |
| `php_duplicates` | Does the duplicates filter drop duplicates only? | The same; violated, see section 6 | - |

What the properties say:

- **ServedFresh**: no scan returns a post whose deletion was complete when the scan
  began, unless spent.  A reader copies the post and looks up the tombstone in separate
  steps, the inserter tests the tombstone long before it stores the post, and the
  trimmer removes tombstones: the three must still fit together.
- **NoOrphan**: every post and every tombstone has a queue entry by which the trimmer
  will find it, or the thread that is about to push or drop it.
- **LiveReachable**: a post fully inserted stays in the map, referenced exactly once,
  until it is deleted or spent.
- **FeedSpec**: the store implements PostFeed.
- **Drains**: without new batches, everything is removed in the end.  An expired entry
  behind a younger one is not removed by every trim (section 6), but it is in the end.
- **ReadyCaughtUp**, **SignalOnce**: main goes on only when each configured thread
  signalled and stored what waited for it but for less than one batch per partition;
  the exception the code makes is when all listeners are dead.
- **ReadyUnlessDropped**: the wait ends, but for a dead thread, a thread never spawned
  or a dropped signal: the only ways to hang.
- **Consumed**: a listener that lives leaves less than one full batch unstored.  A batch
  whose blocking task panics is given up in the same step as one that is stored; permit
  and loop must survive that too.
- **PermitsAccounted**: permits left and requests inside make up the limit, whichever way
  requests end.  It does not say that no more scans run than the limit: the scan of a
  cancelled request goes on (section 6).
- **ReplySound**: no more posts than asked for, newest first, by the users asked for,
  none excluded, none deleted when the scan began, caps per author kept.
- **LeftOutForAReason**: a post that was wanted and there all the time is in the reply,
  unless the time limit came before its author, the budget went to newer entries, the cap
  to other posts, or the reply is full of newer ones.  Exclusions do not use
  up the budget; deleted and filtered entries do.
- **Ends**: every admitted request ends, and so does every scan, also a cancelled one's.
- **NoWaitCycle**: no group of processes in which each waits for another of the group, so
  no deadlock of a few while the others go on.  **Granted**: every lock asked for is got.
- **NothingLost**: whatever crashes, an event before the committed offset was delivered,
  reported as failed, or needs no message: at-least-once, but for errors that are only
  logged.
- **ChannelSpec**: the feeder implements FeedChannel.  It adds to NothingLost that an event
  is sent at most once for each start of the process (`Redelivered`, a theorem of its own)
  and never once it is committed, and that only uncommitted events can be delivered late.
- **StampsFit**: deletions are stamped after their post and at most `MaxSkew` ahead,
  which is what PostStore's events take for granted.  Only a feeder's clock that runs
  ahead is exercised; that it does not lag the clock of the posts is assumed.
- **Relayed**: a thread that lives leaves less than one batch behind.
- **Conserved**: no candidate is duplicated, invented, or both answered and
  reported as filtered, and none vanishes before the selection, whatever fails.
- **Aligned**: a field of a candidate was computed for it, although answers are matched
  by position and may be shorter than the list.
- **Answered**: the request is answered once every call ends.
- **ServedEligible**: what no failure may let through (duplicates, own, old, seen and
  served posts), and what is guaranteed given that the features, or the visibility
  service, answered.
- **Ranked**: the reply is in descending order of score, although the conversation
  filter moves candidates.
- **BestOfConversation**: of the posts whose source named the first post of their
  conversation (`Placed`: all that are no replies, and thunder's replies whose event names
  the conversation), at most one of each conversation is left; and whatever passed the
  visibility filter and was left out has a post of the same conversation, not a worse one,
  in its place.  The filter compares the least of the ancestors it was told; the property
  compares the conversation's real root.  So it says how far that key can be trusted: two
  keys that are equal never belong to different conversations, and a known root is always
  the key.  Of retrieval's replies, and of those without a conversation id, it promises
  no uniqueness, and there is none (section 6).
- **AuthorOrder**: diversity never turns round the order of one author's posts.
- **InNetworkOnly**: in-network requests get followed authors only, and nothing if the
  following list is unknown.

- Of the PHP service, **ServedEligible** and **Ranked** say of a reply what they say of
  home-mixer's, where nothing fails remotely but a filter may look back, reorder, or be
  left out when the list is empty, and where the diversity count follows the
  order of the sources.  One post of a conversation means one for each key
  (`ConversationOf`): a reply to a reply has another key than its thread's first post.
- **NeverAgain**: one service replies no post twice, the other side of a memory
  that is never cleared.
- **NothingWithoutReason**: what eight filters dropped together was ineligible, was
  remembered when the request began, or stands behind something kept that scores no
  worse: a repeated post, a retweet of what came before, a post with the same conversation key.

`CHECK_DEADLOCK FALSE` is set everywhere but in `store_locks`, whose system never may
stop, because the other systems may: requests and changes of the gRPC service are
counted, the clock and the batches of the store are bounded, the feeder reaches the end of its
logs, the start-up ends in `ready` (or
hangs, which a property is about), a request ends with its reply, and the PHP service's requests are counted.  The bounds are `MaxChanges` and the number of requests in
ThunderService, `MaxEntries` in StoreLocks (entries looked at per user or sweep), `MaxTime`, `LastBatch`, `MaxBatches` and `BatchSize` in PostStore, `MaxArrivals` in
KafkaCatchup, `MaxTime`, `MaxRestarts` and the finite logs in Feeder, `Horizon` and `MaxRequests` in
PhpService.  The symmetry of `store_races` exchanges threads, which only appear
in functions over threads and in quantifiers.

## 4 Fairness

- PostStore `FairSpec` (run `store_drains`): strong fairness of each thread's step and
  of the janitor's, weak fairness of readers and of the clock.  Threads are runtime
  tasks in endless loops; a writer waiting for a shard is queued by the lock and not
  overtaken for ever, hence strong.  Nothing makes batches or requests arrive.
- KafkaCatchup `FairSpec` (runs `catchup`, `catchup_ready`): every spawned task and
  main keep running; the semaphore is first come first served, hence strong fairness
  of `Acquire`; and the broker does not fail every lag query for ever, hence strong
  fairness of `LagMeasured`.  Without the last, a broker that never answers keeps the
  process waiting, which the code retries and cannot avoid.
- Feeder `FairSpec` (run `feeder`): each thread keeps running (its polls do not fail for
  ever) and each send ends, with success or an error.  Events need not arrive.
- ThunderService `FairSpec` (run `thunder_service`): for each request, what goes on
  without its client: Strato answers or fails, the blocking task has a thread and runs,
  a future that is ready is polled.  At most one of the three is possible at a time.
  Clients need not send, and the store need not change.
- StoreLocks `FairSpec` (run `store_locks`): whoever is inside an operation goes on
  with it, and a lock that can be given to a waiter is.  Weak fairness is enough because
  locks are granted in order: a waiter that is not in anybody's way stays so.  Nobody
  need begin an operation.  That order is an assumption about the lock of DashMap's
  shards, whose waiters are queued; a lock that let readers overtake a waiting writer for
  ever would starve the trimmer, though it could not make a circle.
- CandidatePipeline `FairSpec` (run `pipeline`): each call ends, with an answer or an
  error, and the future is polled.  The framework has no time limit of its own; the
  remote clients are assumed to have one.

All other runs check safety under `Spec` only.

## 5 Proofs

Proved for every value of the constants that satisfies `PostsAssumption` (finitely many
posts, ids and keys distinct, typed data) and `BoundsAssumption` (natural
bounds, and the modulus above every reachable difference) or `CatchupAssumption` (at
least one thread, partition, permit and message per batch) or `FeederAssumption` (any
logs of typed events, a positive batch size, natural bounds) or `PhpAssumption` (any
lists, requests and configurations of the right type, a mock client with enough posts, a
natural bound; nothing of `Boosted` and `Decayed`, but two theorems name what they need) or `LocksAssumption` (the roles distinct, at
least one timeline map, every map with at least one shard) or `ServiceAssumption`
(finitely many requests, posts, lists and queries of the right types, natural limits, a
post that answers another one is a reply, no post listed twice at the start) or
`HomeMixerAssumption` (data of the right types; a reply is of its parent's conversation, whose
first post has the least id, as ids grow with time; whatever the weights, a weighted score is not
negative, which is what `offset_score` is for; the diversity multipliers are positive and
fall; the out-of-network factor is positive, but may be above one; an error is no answer).  The
theorems about CandidatePipeline have its `Contract` as their hypothesis, and PipelineAligns
its `SoundContract`: they speak of all lists of candidates, so TLC cannot evaluate them as
assumptions; that home-mixer's components keep both is proved (FeedKeepsContract,
FeedKeepsSound).

**PostStoreProofs**: `StructInv` = types, cursors (a thread inside an operation has a
post, a janitor inside a trim has a key and after a pop a post) and locks (a scan
stays within its timeline, which the janitor is not trimming) is inductive
(`StructCorrect`, `TypeCorrect`).  ServedFresh alone is not: it needs that a
completed deletion keeps its mark.  `DeletionInv` adds, each resting on the one before,
`StampInv` (every entry of the tombstone queue is dated so that a post whose tombstone
expires is spent), `PoppedInv` (what the trimmer has in hand is spent), `HiddenInv` (a
post whose deletion is complete is marked or spent) and `ReadInv` (what a scan
has served or copied).  `ServedFreshCorrect` follows.

Its third part is the refinement: with `DoomedInv` (threads only delete what an event arrived
for) each step of PostStore maps to a step of PostFeed or to a stutter
(`FeedCorrect: Spec => FeedSpec`); a comment lists which to which.

`TrimsEarlyCorrect` is the positive side of the disagreement `store_trims_early` shows
(section 6): an entry that is not dated after the clock reading of its trim is dropped only
past the retention period, whatever the order of entries, batches and ticks, so that the
wrapped subtraction is the only way to be dropped early.  It needs of StampInv that the
reading is never ahead of the clock.

Its fourth: `NoOrphanCorrect` (NoOrphan is inductive relative to
StructInv) and `LiveReachableCorrect`, by `ReachInv`: a live post is absent, arriving
in the hands of exactly one thread with none or one reference pushed, or settled with
exactly one.  Exactly one thread, because `old.is_some()` lets only one
thread find the map without it.

**StoreLocksProofs**: `NoWaitCycleCorrect`, for any number of readers, threads, timeline maps
and shards, from `LocksAssumption`.  `LocksInv` says for each role what it may hold when
it asks for what (`ReaderInv`, `ThreadInv`, `SweepInv`) and that whoever waits is in the
queue (`QueueInv`); it is inductive, and gives `RankInv`: every lock is asked for above
all those held, in the order timelines, deleted_posts, posts, and ascending shards within
one map.  `Acyclic` then takes, of a group in which everybody waits, those who wait in the
highest map, of those the ones at the highest shard, of those the first in the queue:
whoever it waits for would be higher still or earlier.  RankInv is what a change to
`post_store.rs` has to keep: a reference to a post held while `deleted_posts` is asked
(the mutant of `LookUpMark`) breaks it.

**ThunderServiceProofs**: `ServiceInv` (types, permits, what the timelines list, where each
task is in its lists) and `TaskInv` together are inductive (`ServiceInvariant`), and
`ServiceTypes` and `PermitsReturned` are parts of it.  TaskInv says of each task what
ReplySound and LeftOutForAReason say of the reply it will become.  For the first:
`CountInv` (a turn of a user brings at most the cap: what was found of an author, and the
room of a turn that goes on, is at most the cap times the turns so far) and `TimesInv`
(a turn brings a post once, so a post that is still ahead of the cursor was found
less often than its author had turns).  For the second: `ScanInv`, what is known of
the entries behind the cursor (those not excluded and the budget left make up
MAX_TINY_POSTS_PER_USER_SCAN; those found and the room left make up the cap; those
wanted are found), and `WantInv`, which remembers it for the users who had their turn.
All of it is stated of the values a step depends on (`Local`), because the store changes
while a task runs: `LocalChanges` shows for any insertion, deletion or trim that a
timeline only loses entries at its front or gains one at its back (`Changed`), that what is
steady is still looked up, and that a reason stays one; `LocalMoves` does the same for
each step of a request.  `RepliesSound` and `NothingElseLeftOut` follow with what the
sort and the cut do (`OrdersAre`, `FullOfNewer`).

**CandidatePipelineProofs**: `PipelineTypes` and `PipelineConserves`, for any components
that keep `Contract`: sources return candidates, update of a hydrator or scorer keeps
what a candidate is, a filter moves every candidate to one of its two lists.  What is
not assumed: that a component succeeds, answers for all candidates, or is enabled.
`PipelineInv` is the types, where the answers come from (`AnswersInv`) and `CountInv`:
candidates and filtered ones together contain no candidate more often than the
retrieved ones.  Counting is what makes it inductive: an injection from positions would
have to be rebuilt for every filter.

`PipelineAligns` shows Aligned for any components that keep `SoundContract` too: sources and
filters mix nothing up, and a full-length answer to a list in which nothing is mixed up,
merged by position, leaves each candidate with fields of its own.  Aligned alone is not
inductive, because an answer is merged long after it was asked for.  `SuitInv` says that each
answer still waiting, if it has the length of the list, suits it place by place (`Suits`), and
that merging the others does not change which candidate stands where.  An answer of
another length need not suit: the framework drops it, which is what the mutant of
`MergeHydration` forgets.

**HomeMixerProofs** is about the feed, for any posts, users, requests, parameters and
failures.

- `FeedKeepsContract`: the components of home-mixer keep the contract, `FeedTypes` and
  `FeedConserves` then follow from CandidatePipelineProofs (`P`; `SameInit` and `SameNext` say
  that its pipeline is the one of HomeMixer).  For the filters that is a lemma on
  subsequences (`KeepAtCounts`), and for the conversation filter, a fold, an induction over the
  number of candidates looked at (`DedupConversationIs`; `LeastNat` stands in for the library's
  induction theorem, and `DedupingExists` for its theorem on recursive definitions).
- `FeedAligned`: home-mixer's components keep `SoundContract`, where `Sound` says of a
  candidate that author, ancestors, text and retweet, video flag, subscription, prediction,
  weighted score and visibility are absent or those of its own post (`SourcesSound`,
  `UpdatesSound`, `FeedKeepsSound`).  The final score is left out of `Sound`: the diversity
  scorer computes it from the whole list, and AuthorOrder and Ranked are about it.
- `MixerInv` adds `FeedInv`, what is known at each point of the pipeline.  `Past` is the clock:
  the k-th component of a stage had its turn.  `Known` says of one candidate what is true of it
  past each component (its author and, with its text, its retweet are the right ones; it passed
  every enabled filter; it is marked, weighted and scored); `Apart` says of two, in their order,
  that their ids differ, that an author's scores are in the order of the weights (`InOrder`), that
  scores descend, that conversations differ.  `Explained` says why a candidate was filtered,
  and `AnswersKnown` that answers merged now are about the snapshot of the stage, whose
  candidates are still the same ones (`Identity`).  None of the properties is inductive without
  all of that: ServedEligible needs that nothing after a filter changes what it looked at, and
  Ranked that the conversation filter only takes candidates away *because* its input descends.
- One lemma for each kind of component says that it keeps `Good` (`SourceGood`, `HydrateGood`,
  `FilterGood`, `ScoreGood`, `SelectGood`, `VisibilityGood`, `VFGood`, `ConversationsGood`), one for each
  action that it keeps `FeedInv`; `FeedInvariant` is the invariance, and `FeedEligible`, `FeedRanked`,
  `FeedKeepsAuthorOrder`, `FeedStaysInNetwork` and, with `FeedAligned`, `FeedHasBest` follow.
- `FeedHasBest` is about roots, the invariant about the filter's keys.  `KeyIs` joins them: the
  key of a candidate that carries its own ancestors is a post of its conversation, and is
  the root if the source named it.  That candidates carry their own ancestors is `Aligned`.
- The proof of the author's order shows what it takes: a better post of an author never has a
  higher position (`PositionFalls`), a falling factor then keeps strict order strict
  (`TimesLess`), and the out-of-network factor is the same for all posts of an author.
- `CandidateIsolation`, about AttentionMask, is what lets `Prediction` be a function of the post
  alone.  It holds for any natural length and offset, any padding and any number of layers.
  `Isolated` is inductive with the types, because it says what a valid position depends on
  exactly: it attends to its `Context` (`AttendsToContext`), and what is in a context has its own
  context inside it (`ContextCloses`).  That only padding sees padding is what makes fully
  masked rows harmless.

**KafkaCatchupProofs**: `AccountInv` (what waited at the start is still waiting, in
hand, or stored), `SignalInv` (a thread with its Sender found its lag small) and
`CountInv` (main's count is the number of threads that signalled) give `CatchupCorrect`,
`ReadyCaughtUpCorrect`, `SignalOnceCorrect`, `CatchupTypeCorrect`.

**FeederProofs**: NothingLost needs to know what becomes of a batch before it is
committed.  `FeederInv` adds `SendInv` (of a batch being sent every event is settled or
in a task's hands, so that when no task is left the commit is safe), `FlightInv` and
`ArrivedInv` (stamps of what is in hand) and `CountInv` (what this life of the process has not
begun to send was sent at most once in each earlier one), and `OpenInv` (the tasks hold only
events of the uncommitted batch, all of which was sent for).  `FeederSafe` is its
invariance; `FeederNothingLost`, `FeederRedelivered`, `FeederStampsFit`, `FeederTypes` follow.

`FeederImplementsChannel: Spec => ChannelSpec` is the refinement, by the table in section 2:
`Process` may begin its sends because of CountInv, `SendEnds` and `Restart` deliver nothing
but what is open because of OpenInv and FlightInv, and a commit may acknowledge because of
SendInv.  That a deletion waived once stays waived rests on the clock only going forward.

`FeederMalformedStops` shows what a malformed event does, in any batches and any number of
lives of the process: neither it nor anything behind it in the log of its thread is ever
sent, delivered or committed.  `CleanInv` makes it inductive: what was sent or committed has
no malformed event at it or before it, and what was delivered was sent.

**PhpServiceProofs**: `ServiceInv` (types), `CandidateInv` (fields and distinct places),
`FilterInv` (each filter that has run gave the list its quality, `Aged`, `Distinct`,
`Unseen` and so on to `OneConversation`) and `MemoryInv` (what was ever replied, and what
is on its way, is remembered) together are inductive (`PhpInductive`).  A later filter
takes no quality away because every step only loses candidates or changes their places
and scores: that is the relation `Follows`, proved of each filter, scorer and the
selector once.  `PhpServedEligible` and `PhpNeverAgain` follow.

`PhpNothingWithoutReason` needs what an offered candidate can say for itself before each
filter (`ReasonInv`): it is excused (ineligible, or remembered when the request began), or
an earlier copy stands for it (`Stands`); after the retweet filter something that comes
before it and is the same post, or shows it, covers it (`Covers`); after the conversation filter the
best of that one's conversation is left.  That there is a first copy, a first showing and a best
of a conversation are lemmas (`FirstPlace`, `Foremost`, `BestExists`).  An excuse only
grows with time: `ReasonOther`.

Two theorems have hypotheses on the arithmetic of scores, which TLC could not evaluate for
all integers.  `PhpTypes` assumes `ScoresAreInts` (boosting and decaying integers
gives integers; in the code, floats).  `PhpRanked` assumes `ScoresDecay`: weighed scores
are not negative (probabilities under the default weights of `WeightedScorer.php:20`, all positive;
with negative weights a later post of an author would be decayed upwards), the boost is
not negative, and a power of the decay factor is no more than a lower one and 1 for the first
(a factor up to 1: `pow($this->decayFactor, $rank)`, `AuthorDiversityScorer.php:47`).
The instance TLC checks satisfies both.  `RankInv` says what each scorer made of the weighted
score, `TypesInv` that places stay apart; from these `RankIs` shows by cardinalities that
the ranks of the sort are exactly 1 to the number of candidates, and `TopKIs` that the
reply is the front of them.

Only model-checked: the liveness properties (Drains, ReadyUnlessDropped, Consumed, Relayed, Answered, Ends, Granted:
the prover has neither fairness nor ENABLED), and the counterexamples of section 6.  Every
invariant and every action property of the passing runs is a theorem.  Three theorems
state what no run lists: FeedAligned (HomeMixer's `Aligned`), FeederMalformedStops and
TrimsEarlyCorrect; their properties were checked with TLC on the instances of `home_mixer`,
`feeder`, `store_races` and `store_trims_early` before they were proved.

## 6 Where code and documents differ

| Run | Documented | Code |
|---|---|---|
| `store_trims_early` | `post_store.rs:407` "Manually trim posts older than retention period from all users" | Line 438 subtracts unsigned from a clock read once per trim: an entry dated after that reading wraps round and is dropped at once (overflow checks would panic) |
| `catchup_ready` | `main.rs:71` "Wait for Kafka catchup signal" | The signal belongs to one iteration of the loop, and is lost if that iteration has less than a batch buffered: main waits for ever |
| `php_duplicates` | `DropDuplicatesFilter.php:14` "移除重复的帖子" (removes duplicate posts) | `seenIds` (line 43) lives as long as the service and nothing calls `reset()`: a post that occurs once is removed because an earlier request had it, whoever asked, also if it was never replied or the request ended in an exception |

Noticed while modelling, without a run of their own:

- `README.md:158` says "Automatically trims posts older than the retention period", but only
  the front entry is tested (`post_store.rs:437`) and deques are sorted once, at start-up:
  an expired entry behind a younger one stays until that one expires.
- `candidate-pipeline/hydrator.rs:17-18` says "Returns candidates with this hydrator's
  fields populated", but Gizmoduck (line 30) reads `retweeted_user_id`, which CoreData fills
  in the same parallel stage: the name of a retweeted user is never set.
- `thunder_service.rs:196` says "If following_user_id list is empty, fetch it from Strato",
  but line 197 does so for debug requests only; home-mixer's requests are not, so an
  empty list gives an empty reply.
- `thunder_service.rs:34` says "Semaphore to limit concurrent requests and prevent overload";
  the blocking scan of a cancelled request runs on after its permit is given back, so more
  scans than permits may run.
- A user who is twice in the following list is scanned twice, and his posts are
  returned twice.
- `post_store.rs:478` says "newest first"; the sort is oldest first, which is what
  the reader and the trimmer need.
- `phoenix/README.md` says "the score for a candidate doesn't depend on which other candidates
  are in the batch", which is proved here; it does depend on the candidate's place in
  the batch, through the rotary position (`grok.py:326-328`).
- `home-mixer/filters/retweet_deduplication_filter.rs:7-8` promises "keeping only the first
  occurrence of a tweet (whether as an original or as a retweet)", but line 32 keeps an
  original always, also after a retweet of it, and both are served.  The PHP filter
  does the same.
- `home-mixer/filters/dedup_conversation_filter.rs:7` says "Keeps only the highest-scored
  candidate per branch of a conversation tree", and `README.md:297` "Deduplicate multiple
  branches of the same conversation thread".  Its key is the least of `ancestors` (line 44),
  which `phoenix_source.rs:40-46` never sets and `thunder_source.rs:51-59` sets without the
  root where the event has no conversation id (`tweet_events_listener.rs:247`).  A reply from
  retrieval is a conversation of its own: it is served beside the post it answers, or
  beside other replies of the thread, from either source.  On the instance of `home_mixer` TLC
  finds the friend's reply 4, from retrieval, served with post 2, which it answers,
  and reply 11 without a conversation id with the root 2; `BestOfConversation` therefore names
  the exception (`Placed`).
- The PHP filter of that name takes the parent before the ancestors
  (`DedupConversationFilter.php:50-58`): post, reply and reply to the reply have the first
  post's key twice and the reply's once, so two of the thread may be replied, where
  home-mixer's filter, told of the root, leaves one.
- `NewFiltersTest.php:43-44` expects two of an original and two retweets of it to be
  kept by the PHP `RetweetDeduplicationFilter`, `ComprehensiveTest.php:581-582` only the
  original, of the same input.  The code does the latter (and so does `RetweetDeduplication`).
- The PHP README says scoring is "ML 预测 + 加权" (ML prediction and weighting, line 78), but
  the service registers no `PhoenixScorer` and stores the client of `setPhoenixClient` without
  using it: the predictions of the mock client's posts are zero, all their scores are
  zero.  Nor are they replied with the default configuration: their ids begin at 1000
  (`MockPhoenixClient.php:64`), which decodes to 2010, and `AgeFilter` takes out what is
  older than seven days.  With a larger `max_age_seconds` they come in the order of the
  source.
- Its line 13 names an author block list; `AuthorSocialgraphFilter` is not registered.
  `inNetworkOnly` changes nothing, and `Algorithm::getRecommendations` ignores `$limit`.

## 7 What is not modelled

- Of PostStore: `clear`, which nobody calls, and what metrics show.
- Composition of ThunderService, StoreLocks and PostStore in one state space: each keeps
  the part of the others it needs (the store's operations in one step; their locks; their
  single accesses).
- Of the feeder: the lag monitor, and the fields of posts that nothing here reads.
- Of the PHP port: the components the service never registers, extension points other
  than `addSource`, the remote client (which cannot be autoloaded), `toArray`.
- `thunder/kafka_utils.rs`, client construction, metrics, conversions in
  `home-mixer/server.rs`: configuration and pure input and output.
- Of `phoenix/`: everything numeric, and the retrieval model, whose user tower attends
  causally and is pooled over valid positions.
- Floating point: scores are integers, and `Weigh` is any function of prediction and
  video length.  Rounding, NaN and negative scores are out.

## 8 Plan

Done: PostFeed, PostStore, StoreLocks, KafkaCatchup, FeedChannel, Feeder, PhpService,
ThunderService, CandidatePipeline and HomeMixer with proofs; AttentionMask with its theorem.
What would come next: the composition of the feeder's topic with PostStore's deliveries,
whose assumption about stamps is StampsFit.
