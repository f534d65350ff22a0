------------------------------ MODULE PostStore ------------------------------
(***************************************************************************)
(* The concurrent in-memory post store of thunder/posts/post_store.rs:     *)
(* listener threads insert and delete batches of posts, one janitor        *)
(* finalises the start-up and then trims expired posts for ever, and       *)
(* readers scan the timelines.  Every access to a DashMap is one step; a   *)
(* timeline entry is locked by the readers scanning it and by the janitor  *)
(* trimming it, for as long as the guards of the code hold it.  DashMap    *)
(* locks the whole shard of the entry: the model locks less, so it allows  *)
(* every interleaving of the code.                                         *)
(*                                                                         *)
(* Abstracted: the contents of a post (a post id stands for the LightPost, *)
(* which is the same at every delivery), the request's own filters (they   *)
(* only take posts away), metrics and the capacity of the deques.  A key   *)
(* with an empty deque and an absent key are the same timeline <<>>.       *)
(***************************************************************************)
EXTENDS Integers, Sequences, FiniteSets

CONSTANTS
    Post, User, Thread, Reader,
    DeleteKey,    \* DELETE_EVENT_KEY, the key of the tombstones' timeline
    None,
    AuthorOf, CreatedAt, Reply, Retweet, Video, SourceOf,  \* the posts' data
    Retention,    \* retention_seconds
    U64,          \* 2^64, the modulus of the trimmer's subtraction
    MaxSkew,      \* how far the feeder's clock may run ahead of this host's
    MaxTime,      \* bound: the clock stops here
    LastBatch,    \* bound: no batch begins after this time
    MaxBatches,   \* bound: batches in all
    BatchSize     \* kafka_batch_size

ASSUME PostsAssumption ==
    /\ IsFiniteSet(Post)
    /\ None \notin Post \union User
    /\ DeleteKey \notin User \union {None}
    /\ AuthorOf \in [Post -> User]
    /\ CreatedAt \in [Post -> Nat]
    /\ Reply \subseteq Post /\ Retweet \subseteq Post /\ Video \subseteq Post
    /\ SourceOf \in [Post -> Post \union {None}]

ASSUME BoundsAssumption ==
    /\ Retention \in Nat /\ MaxTime \in Nat /\ MaxSkew \in Nat
    /\ LastBatch \in Nat /\ MaxBatches \in Nat /\ BatchSize \in Nat
    /\ U64 \in Nat /\ U64 > Retention + MaxTime + MaxSkew

VARIABLES
    posts,      \* posts: the keys of the map of full posts
    deleted,    \* deleted_posts: the keys of the tombstone map
    timeline,   \* original_, secondary_ and video_posts_by_user
    pc, todo, dels, cur,              \* the listener threads
    jpc, jmap, jleft, jkey, jpop, jnow, ready,   \* the janitor
    rd,         \* the readers
    now,        \* the host's clock, in seconds
    batches,    \* batches begun so far
    doomed,     \* history: posts a delete event was received for
    gone,       \* history: posts whose mark_as_deleted has completed
    stored,     \* history: posts whose insertion has completed
    early       \* history: posts the trimmer dropped although its clock was behind them

store   == <<posts, deleted, timeline>>
thread  == <<pc, todo, dels, cur>>
janitor == <<jpc, jmap, jleft, jkey, jpop, jnow, ready>>
history == <<doomed, gone, stored, early>>
vars == <<store, thread, janitor, rd, now, batches, history>>

Map == {"original", "secondary", "video"}
Key == User \union {DeleteKey}
Tiny == [id : Post, at : Nat]      \* TinyPost
KeysOf(m) == IF m = "original" THEN Key ELSE User

IsOriginal(p) == p \notin Reply /\ p \notin Retweet
MainMap(p) == IF IsOriginal(p) THEN "original" ELSE "secondary"
\* Mutant of Entry: the reference is dated one second before the post.
MutEntry(p) == [id |-> p, at |-> CreatedAt[p] - 1]

Entry(p) == [id |-> p, at |-> CreatedAt[p]]

\* The retention test of insert_posts, against the clock c.
Retained(p, c) == CreatedAt[p] < c /\ c - CreatedAt[p] <= Retention

\* No clock can ever again show p within the retention period.
Expired(p) == now - CreatedAt[p] > Retention

\* The trimmer's test: an unsigned subtraction that wraps when at > jnow (in a
\* build without overflow checks, which is what a release build is).
Age(at) == IF at <= jnow THEN jnow - at ELSE U64 + jnow - at
Stale(e) == Age(e.at) > Retention

-----------------------------------------------------------------------------
(* Locks of the timelines' entries. *)

ReadLocked(m, k) ==
    \E r \in Reader : rd[r].pc # "idle" /\ rd[r].map = m /\ rd[r].user = k
TrimLocked(m, k) == jpc \in {"pop", "unstore", "unmark"} /\ jmap = m /\ jkey = k
Free(m, k) == ~ReadLocked(m, k) /\ ~TrimLocked(m, k)

PushBack(m, k, e) ==
    /\ Free(m, k)
    /\ timeline' = [timeline EXCEPT ![m][k] = Append(@, e)]

-----------------------------------------------------------------------------
(* Listener threads: one batch is insert_posts, then mark_as_deleted. *)

Idle(t) == pc[t] = "next" /\ todo[t] = {} /\ dels[t] = {}

\* Delete events as the feeder stamps them: with its own clock when it sees the
\* deletion, no earlier than the post's creation.
DeleteEvents == {e \in [id : Post, at : 0 .. (now + MaxSkew)] : CreatedAt[e.id] <= e.at}
Ids(S) == {e.id : e \in S}

\* A batch arrives with creations C and deletions D; insert_posts reads the
\* clock and keeps the creations within the retention period.
BeginBatch(t, C, D) ==
    /\ Idle(t)
    /\ batches < MaxBatches
    /\ now <= LastBatch
    /\ Cardinality(C) + Cardinality(D) \in 1 .. BatchSize
    /\ todo' = [todo EXCEPT ![t] = {p \in C : Retained(p, now)}]
    /\ dels' = [dels EXCEPT ![t] = D]
    /\ batches' = batches + 1
    /\ doomed' = doomed \union Ids(D)
    /\ UNCHANGED <<store, pc, cur, janitor, rd, now, gone, stored, early>>

\* insert_posts_internal takes the posts oldest first; one already marked
\* deleted is skipped.
InsertCheck(t, p) ==
    /\ pc[t] = "next"
    /\ p \in todo[t]
    /\ \A q \in todo[t] : CreatedAt[p] <= CreatedAt[q]
    /\ todo' = [todo EXCEPT ![t] = @ \ {p}]
    /\ IF p \in deleted
       THEN UNCHANGED <<pc, cur>>
       ELSE /\ pc' = [pc EXCEPT ![t] = "put"]
            /\ cur' = [cur EXCEPT ![t] = p]
    /\ UNCHANGED <<store, dels, janitor, rd, now, batches, history>>

\* Mutant of InsertPut: old.is_some() is ignored, every delivery is pushed.
MutInsertPut(t) ==
    /\ pc[t] = "put"
    /\ posts' = posts \union {cur[t]}
    /\ pc' = [pc EXCEPT ![t] = "push"]
    /\ UNCHANGED <<deleted, timeline, todo, dels, cur, janitor, rd, now, batches, history>>

\* posts.insert: a post that was there already gets no second reference.
InsertPut(t) ==
    /\ pc[t] = "put"
    /\ posts' = posts \union {cur[t]}
    /\ pc' = [pc EXCEPT ![t] = IF cur[t] \in posts THEN "next" ELSE "push"]
    /\ cur' = [cur EXCEPT ![t] = IF cur[t] \in posts THEN None ELSE @]
    /\ UNCHANGED <<deleted, timeline, todo, dels, janitor, rd, now, batches, history>>

\* The reference goes to the author's original or secondary timeline.
InsertPush(t) ==
    /\ pc[t] = "push"
    /\ PushBack(MainMap(cur[t]), AuthorOf[cur[t]], Entry(cur[t]))
    /\ pc' = [pc EXCEPT ![t] = "video"]
    /\ UNCHANGED <<posts, deleted, todo, dels, cur, janitor, rd, now, batches, history>>

\* A reply is never a video post; a retweet is one if its source is known.
VideoEligible(p) ==
    /\ p \notin Reply
    /\ \/ p \in Video
       \/ p \in Retweet /\ SourceOf[p] \in (posts \intersect Video) \ Reply

\* The lookup of a retweet's source and the push are one step, though a trimmer or a
\* deletion may come between them: no property says when a retweet is a video post.
InsertVideo(t) ==
    /\ pc[t] = "video"
    /\ IF VideoEligible(cur[t])
       THEN PushBack("video", AuthorOf[cur[t]], Entry(cur[t]))
       ELSE UNCHANGED timeline
    /\ pc' = [pc EXCEPT ![t] = "next"]
    /\ cur' = [cur EXCEPT ![t] = None]
    /\ stored' = stored \union {cur[t]}
    /\ UNCHANGED <<posts, deleted, todo, dels, janitor, rd, now, batches, doomed, gone, early>>

\* mark_as_deleted, after the insertions: the post goes, ...
DeleteRemove(t, e) ==
    /\ pc[t] = "next"
    /\ todo[t] = {}
    /\ e \in dels[t]
    /\ posts' = posts \ {e.id}
    /\ pc' = [pc EXCEPT ![t] = "mark"]
    /\ cur' = [cur EXCEPT ![t] = e.id]
    /\ UNCHANGED <<deleted, timeline, todo, dels, janitor, rd, now, batches, history>>

\* Mutant of DeleteMark: the tombstone is not set.
MutDeleteMark(t) ==
    /\ pc[t] = "mark"
    /\ pc' = [pc EXCEPT ![t] = "bury"]
    /\ UNCHANGED <<store, todo, dels, cur, janitor, rd, now, batches, history>>

\* ... the tombstone is set, ...
DeleteMark(t) ==
    /\ pc[t] = "mark"
    /\ deleted' = deleted \union {cur[t]}
    /\ pc' = [pc EXCEPT ![t] = "bury"]
    /\ UNCHANGED <<posts, timeline, todo, dels, cur, janitor, rd, now, batches, history>>

\* ... and queued, with the time of the deletion, to be trimmed one day.
DeleteBury(t, e) ==
    /\ pc[t] = "bury"
    /\ e \in dels[t] /\ e.id = cur[t]
    /\ PushBack("original", DeleteKey, e)
    /\ dels' = [dels EXCEPT ![t] = @ \ {e}]
    /\ pc' = [pc EXCEPT ![t] = "next"]
    /\ cur' = [cur EXCEPT ![t] = None]
    /\ gone' = gone \union {cur[t]}
    /\ UNCHANGED <<posts, deleted, todo, janitor, rd, now, batches, doomed, stored, early>>

-----------------------------------------------------------------------------
(* The janitor: finalize_init (sort, trim, purge), then trims for ever. *)

NextMap(m) == IF m = "original" THEN "secondary" ELSE "video"

\* The iteration of a DashMap visits k; keys that are absent when it passes
\* their shard are never visited, those that appear later may be.
Passes(k, present) ==
    \E S \in SUBSET (jleft \ present) : jleft' = jleft \ (S \union {k})

Present == {k \in jleft \intersect Key : timeline[jmap][k] # <<>>}

\* main has seen the end of the Kafka catch-up.
FinalizeStart ==
    /\ jpc = "wait"
    /\ jpc' = "sort"
    /\ jleft' = KeysOf(jmap)
    /\ UNCHANGED <<store, thread, jmap, jkey, jpop, jnow, ready, rd, now, batches, history>>

\* Every ascending rearrangement of s: the sort is unstable.
Sortings(s) ==
    LET n == Len(s)
        Perms == {f \in [1 .. n -> 1 .. n] : \A i, j \in 1 .. n : f[i] = f[j] => i = j}
    IN  {q \in {[i \in 1 .. n |-> s[f[i]]] : f \in Perms} :
            \A i, j \in 1 .. n : i < j => q[i].at <= q[j].at}

SortVisit(k) ==
    /\ jpc = "sort"
    /\ k \in Present
    /\ Free(jmap, k)
    /\ \E q \in Sortings(timeline[jmap][k]) : timeline' = [timeline EXCEPT ![jmap][k] = q]
    /\ Passes(k, Present)
    /\ UNCHANGED <<posts, deleted, thread, jpc, jmap, jkey, jpop, jnow, ready, rd, now,
                   batches, history>>

\* One map is done; the next one.
SweepNextMap ==
    /\ jpc \in {"sort", "trim"}
    /\ Present = {}
    /\ jmap # "video"
    /\ jmap' = NextMap(jmap)
    /\ jleft' = KeysOf(jmap')
    /\ UNCHANGED <<store, thread, jpc, jkey, jpop, jnow, ready, rd, now, batches, history>>

\* trim_old_posts reads the clock once, for the whole trim.
TrimStart ==
    /\ \/ jpc = "sort" /\ Present = {} /\ jmap = "video"
       \/ jpc = "rest"
    /\ jpc' = "trim"
    /\ jmap' = "original"
    /\ jleft' = KeysOf("original")
    /\ jnow' = now
    /\ UNCHANGED <<store, thread, jkey, jpop, ready, rd, now, batches, history>>

\* The iteration locks an entry to work on it.
TrimVisit(k) ==
    /\ jpc = "trim"
    /\ k \in Present
    /\ ~ReadLocked(jmap, k)
    /\ jpc' = "pop"
    /\ jkey' = k
    /\ Passes(k, Present)
    /\ UNCHANGED <<store, thread, jmap, jpop, jnow, ready, rd, now, batches, history>>

Front == Head(timeline[jmap][jkey])

\* The oldest entry is past the retention period: off the deque it goes.
TrimPop ==
    /\ jpc = "pop"
    /\ timeline[jmap][jkey] # <<>>
    /\ Stale(Front)
    /\ timeline' = [timeline EXCEPT ![jmap][jkey] = Tail(@)]
    /\ jpop' = Front.id
    /\ jpc' = "unstore"
    /\ early' = IF Front.at > jnow THEN early \union {Front.id} ELSE early
    /\ UNCHANGED <<posts, deleted, thread, jmap, jleft, jkey, jnow, ready, rd, now, batches,
                   doomed, gone, stored>>

\* Mutant of TrimUnstore: the reference goes, the post stays.
MutTrimUnstore ==
    /\ jpc = "unstore"
    /\ jpc' = IF jkey = DeleteKey THEN "unmark" ELSE "pop"
    /\ jpop' = IF jkey = DeleteKey THEN jpop ELSE None
    /\ UNCHANGED <<store, thread, jmap, jleft, jkey, jnow, ready, rd, now, batches, history>>

\* Its post goes, whoever's timeline the entry was on, ...
TrimUnstore ==
    /\ jpc = "unstore"
    /\ posts' = posts \ {jpop}
    /\ jpc' = IF jkey = DeleteKey THEN "unmark" ELSE "pop"
    /\ jpop' = IF jkey = DeleteKey THEN jpop ELSE None
    /\ UNCHANGED <<deleted, timeline, thread, jmap, jleft, jkey, jnow, ready, rd, now, batches,
                   history>>

\* Mutant of TrimUnmark: the mark stays.
MutTrimUnmark ==
    /\ jpc = "unmark"
    /\ jpc' = "pop"
    /\ jpop' = None
    /\ UNCHANGED <<store, thread, jmap, jleft, jkey, jnow, ready, rd, now, batches, history>>

\* ... and, if it was a tombstone, so does the mark.
TrimUnmark ==
    /\ jpc = "unmark"
    /\ deleted' = deleted \ {jpop}
    /\ jpc' = "pop"
    /\ jpop' = None
    /\ UNCHANGED <<posts, timeline, thread, jmap, jleft, jkey, jnow, ready, rd, now, batches,
                   history>>

\* The front is young enough, or nothing is left: the entry is released.
TrimLeave ==
    /\ jpc = "pop"
    /\ timeline[jmap][jkey] # <<>> => ~Stale(Front)
    /\ jpc' = "trim"
    /\ jkey' = None
    /\ UNCHANGED <<store, thread, jmap, jleft, jpop, jnow, ready, rd, now, batches, history>>

\* A trim is over; the one of finalize_init is followed by the purge.
TrimEnd ==
    /\ jpc = "trim" /\ Present = {} /\ jmap = "video"
    /\ jpc' = IF ready THEN "rest" ELSE "purge"
    /\ jleft' = IF ready THEN {} ELSE Post
    /\ jmap' = "original"
    /\ jnow' = 0
    /\ UNCHANGED <<store, thread, jkey, jpop, ready, rd, now, batches, history>>

\* finalize_init removes the post of every tombstone it iterates over, under
\* the tombstone's lock.
PurgeVisit(p) ==
    /\ jpc = "purge"
    /\ p \in jleft \intersect deleted
    /\ posts' = posts \ {p}
    /\ Passes(p, deleted)
    /\ UNCHANGED <<deleted, timeline, thread, jpc, jmap, jkey, jpop, jnow, ready, rd, now,
                   batches, history>>

PurgeEnd ==
    /\ jpc = "purge" /\ jleft \intersect deleted = {}
    /\ jpc' = "rest"
    /\ jleft' = {}
    /\ ready' = TRUE
    /\ UNCHANGED <<store, thread, jmap, jkey, jpop, jnow, rd, now, batches, history>>

-----------------------------------------------------------------------------
(* Readers: get_posts_from_map on one user's timeline, newest entry first. *)

Scan == [pc : {"idle", "scan", "copied"}, map : Map, user : User \union {None},
         i : Nat, before : SUBSET Post, served : SUBSET Post]
NoScan == [pc |-> "idle", map |-> "original", user |-> None, i |-> 0,
           before |-> {}, served |-> {}]

\* The entry is read-locked until the scan of this user ends.
ReadStart(r, m, u) ==
    /\ rd[r].pc = "idle"
    /\ timeline[m][u] # <<>>
    /\ ~TrimLocked(m, u)
    /\ rd' = [rd EXCEPT ![r] = [pc |-> "scan", map |-> m, user |-> u,
                                i |-> Len(timeline[m][u]), before |-> gone, served |-> {}]]
    /\ UNCHANGED <<store, thread, janitor, now, batches, history>>

Scanned(r) == timeline[rd[r].map][rd[r].user][rd[r].i].id

\* On to the next older entry, with what this one added to the result.
Advance(s, found) == [s EXCEPT !.pc = "scan", !.i = @ - 1, !.served = @ \union found]

\* posts.get: the post is copied out and the lock of its shard released.
ReadCopy(r) ==
    /\ rd[r].pc = "scan" /\ rd[r].i > 0
    /\ rd' = IF Scanned(r) \in posts
             THEN [rd EXCEPT ![r].pc = "copied"]
             ELSE [rd EXCEPT ![r] = Advance(@, {})]
    /\ UNCHANGED <<store, thread, janitor, now, batches, history>>

\* Mutant of ReadCheck: the tombstone is not looked up.
MutReadCheck(r) ==
    /\ rd[r].pc = "copied"
    /\ rd' = [rd EXCEPT ![r] = Advance(@, {Scanned(r)})]
    /\ UNCHANGED <<store, thread, janitor, now, batches, history>>

\* deleted_posts.get, a separate look-up.
ReadCheck(r) ==
    /\ rd[r].pc = "copied"
    /\ rd' = [rd EXCEPT ![r] = Advance(@, {Scanned(r)} \ deleted)]
    /\ UNCHANGED <<store, thread, janitor, now, batches, history>>

\* The deque is exhausted, or max_per_user is reached.
ReadEnd(r) ==
    /\ rd[r].pc = "scan"
    /\ rd' = [rd EXCEPT ![r] = NoScan]
    /\ UNCHANGED <<store, thread, janitor, now, batches, history>>

-----------------------------------------------------------------------------
Tick ==
    /\ now < MaxTime
    /\ now' = now + 1
    /\ UNCHANGED <<store, thread, janitor, rd, batches, history>>

Init ==
    /\ posts = {} /\ deleted = {}
    /\ timeline = [m \in Map |-> [k \in Key |-> <<>>]]
    /\ pc = [t \in Thread |-> "next"]
    /\ todo = [t \in Thread |-> {}]
    /\ dels = [t \in Thread |-> {}]
    /\ cur = [t \in Thread |-> None]
    /\ jpc = "wait" /\ jmap = "original" /\ jleft = {} /\ jkey = None /\ jpop = None
    /\ jnow = 0 /\ ready = FALSE
    /\ rd = [r \in Reader |-> NoScan]
    /\ now = 0 /\ batches = 0
    /\ doomed = {} /\ gone = {} /\ stored = {} /\ early = {}

ThreadStep(t) ==
    \/ \E p \in Post : InsertCheck(t, p)
    \/ InsertPut(t) \/ InsertPush(t) \/ InsertVideo(t)
    \/ \E e \in dels[t] : DeleteRemove(t, e) \/ DeleteBury(t, e)
    \/ DeleteMark(t)

JanitorStep ==
    \/ FinalizeStart \/ SweepNextMap \/ TrimStart \/ TrimPop \/ TrimUnstore \/ TrimUnmark
    \/ TrimLeave \/ TrimEnd \/ PurgeEnd
    \/ \E k \in Key : SortVisit(k) \/ TrimVisit(k)
    \/ \E p \in Post : PurgeVisit(p)

ReadStep(r) == ReadCopy(r) \/ ReadCheck(r) \/ ReadEnd(r)

Next ==
    \/ \E t \in Thread : ThreadStep(t)
    \/ \E t \in Thread, C \in SUBSET Post, D \in SUBSET DeleteEvents : BeginBatch(t, C, D)
    \/ JanitorStep
    \/ \E r \in Reader, m \in Map, u \in User : ReadStart(r, m, u)
    \/ \E r \in Reader : ReadStep(r)
    \/ Tick

Spec == Init /\ [][Next]_vars

\* The runtime keeps scheduling the threads, the janitor and the scans, and
\* the clock advances.  A writer waiting for a timeline is not overtaken for
\* ever by new readers (DashMap's locks queue), hence the strong fairness.
\* Nothing forces batches or requests to arrive.
FairSpec ==
    /\ Spec
    /\ \A t \in Thread : SF_vars(ThreadStep(t))
    /\ SF_vars(JanitorStep)
    /\ \A r \in Reader : WF_vars(ReadCopy(r)) /\ WF_vars(ReadCheck(r))
                         /\ WF_vars(rd[r].i = 0 /\ ReadEnd(r))
    /\ WF_vars(Tick)

-----------------------------------------------------------------------------
TypeOK ==
    /\ posts \subseteq Post /\ deleted \subseteq Post
    /\ timeline \in [Map -> [Key -> Seq(Tiny)]]
    /\ pc \in [Thread -> {"next", "put", "push", "video", "mark", "bury"}]
    /\ todo \in [Thread -> SUBSET Post]
    /\ dels \in [Thread -> SUBSET Tiny]
    /\ cur \in [Thread -> Post \union {None}]
    /\ jpc \in {"wait", "sort", "trim", "pop", "unstore", "unmark", "purge", "rest"}
    /\ jmap \in Map
    /\ jleft \in SUBSET (Key \union Post)
    /\ jkey \in Key \union {None}
    /\ jpop \in Post \union {None}
    /\ jnow \in Nat
    /\ ready \in BOOLEAN
    /\ rd \in [Reader -> Scan]
    /\ now \in Nat /\ batches \in Nat
    /\ doomed \subseteq Post /\ gone \subseteq Post
    /\ stored \subseteq Post /\ early \subseteq Post

Spent == early \union {p \in Post : Expired(p)}

Holds(p, s) == \E i \in DOMAIN s : s[i].id = p
AtMostOnce(p, s) == \A i, j \in DOMAIN s : s[i].id = p /\ s[j].id = p => i = j
Once(p, s) == Holds(p, s) /\ AtMostOnce(p, s)
Main(p) == timeline[MainMap(p)][AuthorOf[p]]
Videos(p) == timeline["video"][AuthorOf[p]]

\* A read never returns a post whose deletion had completed before the scan
\* began, unless the post is spent: although insert_posts_internal tests the
\* tombstone long before it stores the post, and get_posts_from_map copies the
\* post and looks for the tombstone in two separate steps while the trimmer
\* removes both.
ServedFresh == \A r \in Reader : rd[r].served \intersect rd[r].before \subseteq Spent

\* The reference the trimmer will find p by, or is being made, or is being dropped.
Referenced(p) ==
    \/ Holds(p, Main(p))
    \/ \E t \in Thread : pc[t] = "push" /\ cur[t] = p
    \/ jpc = "unstore" /\ jpop = p
MarkReferenced(p) ==
    \/ Holds(p, timeline["original"][DeleteKey])
    \/ \E t \in Thread : pc[t] = "bury" /\ cur[t] = p
    \/ jpc \in {"unstore", "unmark"} /\ jkey = DeleteKey /\ jpop = p

\* No memory is leaked: a post in the map is referenced from its author's
\* timeline, where the trimmer will reach it, or its reference is about to be
\* pushed, or the trimmer is about to remove it; and likewise for every mark
\* and the tombstones' timeline.  insert_posts_internal pushes nothing for a
\* post that is there already, so the reference must be somewhere.
NoOrphan ==
    /\ \A p \in posts : Referenced(p)
    /\ \A p \in deleted : MarkReferenced(p)

\* A post whose insertion has completed stays in the map with exactly one
\* reference on its author's timeline (and on the video timeline, for an own
\* video) until it is deleted or spent: redelivered creations racing one
\* another, the trimmer and the purge neither lose nor duplicate it.
LiveReachable ==
    \A p \in stored \ (doomed \union Spent) :
        /\ p \in posts
        /\ Once(p, Main(p))
        /\ p \in Video \ Reply => Once(p, Videos(p))

\* What readers can see of a post behaves as PostFeed says.
Feed == INSTANCE PostFeed WITH
            visible <- posts \ deleted, retracting <- doomed, sealed <- gone, spent <- Spent
FeedSpec == Feed!Spec

\* trim_old_posts drops an entry only if it is past the retention period: "trim
\* posts older than retention period".
TrimsOnlyExpired == [][jpc = "pop" /\ jpc' = "unstore" => now - Front.at > Retention]_vars

\* The wrapped subtraction is the only way to be dropped early: an entry not dated
\* after the reading of the clock its trim goes by is dropped only when expired.
TrimsEarlyOnlyLater ==
    [][jpc = "pop" /\ jpc' = "unstore" => now - Front.at > Retention \/ Front.at > jnow]_vars

\* Once no more batches arrive, the trims empty the store, whatever the order
\* of the entries: posts, marks and timelines.
Drains ==
    <>[](posts = {} /\ deleted = {} /\ \A m \in Map, k \in Key : timeline[m][k] = <<>>)
=============================================================================
