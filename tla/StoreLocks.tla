----------------------------- MODULE StoreLocks -----------------------------
(***************************************************************************)
(* The locks of thunder/posts/post_store.rs.  Every map of the store is a  *)
(* DashMap: its keys are spread over shards, and each shard has a          *)
(* read-write lock.  Modelled is who locks which shards, in which mode,    *)
(* while holding which others; the contents are PostStore's subject, and   *)
(* every choice the code takes by looking at them (is there another entry, *)
(* is the post marked, which shard is its key in) is free here.            *)
(*                                                                         *)
(* A lock serves its waiters in the order they came, readers together: a   *)
(* reader behind a waiting writer waits, which is the case the comment on  *)
(* lines 273-274 is about.  Giving back locks and asking for the next one  *)
(* are one step: nothing blocks between them.                              *)
(***************************************************************************)
EXTENDS Integers, Sequences, FiniteSets, SequencesExt

CONSTANTS
    Reader, Thread,    \* requests' scans, listener threads
    Janitor, Logger,   \* start-up and trim loop; statistics
    Timelines,         \* the timeline maps, in the order they are swept
    Shards,            \* how many shards each map has
    MaxEntries         \* bound: entries looked at in one scan or sweep

TimelineMap == {Timelines[i] : i \in DOMAIN Timelines}
Map == TimelineMap \union {"deleted", "posts"}

ASSUME LocksAssumption ==
    /\ Janitor # Logger
    /\ {Janitor, Logger} \intersect (Reader \union Thread) = {}
    /\ Reader \intersect Thread = {}
    /\ Timelines \in Seq({"original", "secondary", "video"}) /\ Timelines # <<>>
    /\ Shards \in [Map -> Nat \ {0}]
    /\ MaxEntries \in Nat

Proc == Reader \union Thread \union {Janitor, Logger}
Lock == UNION {{m} \X (1 .. Shards[m]) : m \in Map}
Mode == {"R", "W"}
Nothing == <<>>

VARIABLES
    pc,      \* where each process is in its operation
    job,     \* for the sweeps: which map, and which shard of it
    left,    \* entries still to look at
    held,    \* pairs of lock and mode
    want,    \* the pair a process is waiting for, or Nothing
    queue    \* who waits for a lock, oldest first

vars == <<pc, job, left, held, want, queue>>

OfMap(m) == {l \in Lock : l[1] = m}
TimelineLock == UNION {OfMap(m) : m \in TimelineMap}

Conflict(a, b) == a = "W" \/ b = "W"

\* p, asking for a lock, waits for q: q holds it, or asked for it before.
Position(p, l) == CHOOSE i \in DOMAIN queue[l] : queue[l][i] = p
WaitsFor(p, q) ==
    /\ want[p] # Nothing
    /\ LET l == want[p][1]
           Against(mode) == Conflict(want[p][2], mode)
       IN  \/ \E mode \in Mode : <<l, mode>> \in held[q] /\ Against(mode)
           \/ /\ want[q] # Nothing /\ want[q][1] = l /\ Against(want[q][2])
              /\ Position(q, l) < Position(p, l)

Grant(p) ==
    /\ want[p] # Nothing
    /\ \A q \in Proc : ~WaitsFor(p, q)
    /\ held' = [held EXCEPT ![p] = @ \union {want[p]}]
    /\ queue' = [queue EXCEPT ![want[p][1]] = RemoveAt(@, Position(p, want[p][1]))]
    /\ want' = [want EXCEPT ![p] = Nothing]
    /\ UNCHANGED <<pc, job, left>>

\* p keeps the locks in kept, gives back the others and asks for l.
Ask(p, next, kept, l, mode) ==
    /\ pc' = [pc EXCEPT ![p] = next]
    /\ held' = [held EXCEPT ![p] = kept]
    /\ want' = [want EXCEPT ![p] = <<l, mode>>]
    /\ queue' = [queue EXCEPT ![l] = Append(@, p)]

\* p keeps the locks in kept, gives back the others and asks for nothing.
Leave(p, next, kept) ==
    /\ pc' = [pc EXCEPT ![p] = next]
    /\ held' = [held EXCEPT ![p] = kept]
    /\ UNCHANGED <<want, queue>>

At(p, place) == want[p] = Nothing /\ pc[p] = place
Kept(p, L) == {h \in held[p] : h[1] \in L}

-----------------------------------------------------------------------------
(* Readers: get_posts_from_map. *)

ScanUser(r) ==
    /\ At(r, "idle")
    /\ \E l \in TimelineLock : Ask(r, "scan", {}, l, "R")
    /\ \E n \in 0 .. MaxEntries : left' = [left EXCEPT ![r] = n]
    /\ UNCHANGED job

\* Mutant of LookUp: one entry too many is taken from the timeline.
MutLookUp(r) ==
    /\ At(r, "scan")
    /\ \E l \in OfMap("posts") : Ask(r, "post", held[r], l, "R")
    /\ left' = [left EXCEPT ![r] = @ - 1]
    /\ UNCHANGED job

\* posts.get, with the timeline locked.
LookUp(r) ==
    /\ At(r, "scan") /\ left[r] > 0
    /\ \E l \in OfMap("posts") : Ask(r, "post", held[r], l, "R")
    /\ left' = [left EXCEPT ![r] = @ - 1]
    /\ UNCHANGED job

\* Mutant of LookUpMark: the reference to the post is kept, not a copy of it.
MutLookUpMark(r) ==
    /\ At(r, "post")
    /\ \E l \in OfMap("deleted") : Ask(r, "mark", held[r], l, "R")
    /\ UNCHANGED <<job, left>>

\* The post has been copied and its lock released; deleted_posts.get.
LookUpMark(r) ==
    /\ At(r, "post")
    /\ \E l \in OfMap("deleted") : Ask(r, "mark", Kept(r, TimelineLock), l, "R")
    /\ UNCHANGED <<job, left>>

\* The post a reply answers, again in posts.
LookUpParent(r) ==
    /\ At(r, "mark")
    /\ \E l \in OfMap("posts") : Ask(r, "parent", Kept(r, TimelineLock), l, "R")
    /\ UNCHANGED <<job, left>>

\* The entry is taken or left out.
EntryDone(r) ==
    /\ pc[r] \in {"post", "mark", "parent"} /\ want[r] = Nothing
    /\ Leave(r, "scan", Kept(r, TimelineLock))
    /\ UNCHANGED <<job, left>>

UserDone(r) ==
    /\ At(r, "scan")
    /\ Leave(r, "idle", {})
    /\ left' = [left EXCEPT ![r] = 0]
    /\ UNCHANGED job

ReadStep(r) == LookUp(r) \/ LookUpMark(r) \/ LookUpParent(r) \/ EntryDone(r) \/ UserDone(r)

-----------------------------------------------------------------------------
(* Listener threads: one post of insert_posts_internal, one event of       *)
(* mark_as_deleted.  No lock is held while another is asked for.           *)

ThreadAsk(t, from, next, L, mode) ==
    /\ At(t, from)
    /\ \E l \in L : Ask(t, next, {}, l, mode)
    /\ UNCHANGED <<job, left>>

InsertCheck(t) == ThreadAsk(t, "idle", "check", OfMap("deleted"), "R")
InsertPut(t) == ThreadAsk(t, "check", "put", OfMap("posts"), "W")
InsertPush(t) == ThreadAsk(t, "put", "push", TimelineLock, "W")
InsertSource(t) == ThreadAsk(t, "push", "source", OfMap("posts"), "R")
InsertVideo(t) == \E from \in {"push", "source"} : ThreadAsk(t, from, "video", TimelineLock, "W")

\* Marked deleted, stored before, no video, or pushed.
InsertDone(t) ==
    /\ pc[t] \in {"check", "put", "push", "source", "video"} /\ want[t] = Nothing
    /\ Leave(t, "idle", {})
    /\ UNCHANGED <<job, left>>

DeleteRemove(t) == ThreadAsk(t, "idle", "remove", OfMap("posts"), "W")
DeleteMark(t) == ThreadAsk(t, "remove", "tomb", OfMap("deleted"), "W")
DeleteBury(t) == ThreadAsk(t, "tomb", "bury", OfMap(Timelines[1]), "W")
DeleteDone(t) == At(t, "bury") /\ Leave(t, "idle", {}) /\ UNCHANGED <<job, left>>

ThreadBegin(t) == InsertCheck(t) \/ DeleteRemove(t)
ThreadStep(t) ==
    \/ InsertPut(t) \/ InsertPush(t) \/ InsertSource(t) \/ InsertVideo(t) \/ InsertDone(t)
    \/ DeleteMark(t) \/ DeleteBury(t) \/ DeleteDone(t)

-----------------------------------------------------------------------------
(* Sweeps over a whole map: finalize_init and the trim loop, the logger.   *)
(* DashMap's iterators lock the shards in ascending order and let go of    *)
(* one only when they have the next; len locks them one at a time.         *)

Each(kind) == [i \in DOMAIN Timelines |-> <<kind, Timelines[i]>>]

\* finalize_init, then a trim again and again; the logger's rounds.
Script(p) ==
    IF p = Janitor
    THEN Each("sort") \o Each("trim") \o << <<"purge", "deleted">> >> \o Each("trim")
    ELSE << <<"len", Timelines[1]>>, <<"len", "posts">>, <<"len", "deleted">> >> \o Each("iter")

Repeats(p) == IF p = Janitor THEN 2 * Len(Timelines) + 2 ELSE 1
Next1(p) == IF job[p].n < Len(Script(p)) THEN job[p].n + 1 ELSE Repeats(p)

Kind(p) == Script(p)[job[p].n][1]
Swept(p) == Script(p)[job[p].n][2]
SweepMode(p) == IF Kind(p) \in {"sort", "trim"} THEN "W" ELSE "R"
Here(p) == {<<Swept(p), job[p].shard>>}

\* The logger is started after finalize_init.
SweepStart(p) ==
    /\ At(p, "idle")
    /\ p = Logger => job[Janitor].n >= Repeats(Janitor)
    /\ Ask(p, "visit", {}, <<Swept(p), 1>>, SweepMode(p))
    /\ job' = [job EXCEPT ![p].shard = 1]
    /\ \E n \in IF Kind(p) \in {"trim", "purge"} THEN 0 .. MaxEntries ELSE {0} :
           left' = [left EXCEPT ![p] = n]

SweepNext(p) ==
    /\ At(p, "visit") /\ job[p].shard < Shards[Swept(p)]
    /\ Ask(p, "cross", IF Kind(p) = "len" THEN {} ELSE held[p],
           <<Swept(p), job[p].shard + 1>>, SweepMode(p))
    /\ job' = [job EXCEPT ![p].shard = @ + 1]
    /\ UNCHANGED left

\* The iterator has the next shard and lets go of the one before.
SweepCross(p) ==
    /\ At(p, "cross")
    /\ Leave(p, "visit", Kept(p, Here(p)))
    /\ UNCHANGED <<job, left>>

\* An entry past the retention period, or a tombstone: its post is removed under
\* the lock of the timeline, or of the tombstone.
SweepUnstore(p) ==
    /\ At(p, "visit") /\ left[p] > 0
    /\ \E l \in OfMap("posts") : Ask(p, "unstore", held[p], l, "W")
    /\ left' = [left EXCEPT ![p] = @ - 1]
    /\ UNCHANGED job

\* In the tombstones' timeline the mark goes too.
TrimUnmark(p) ==
    /\ At(p, "unstore") /\ Kind(p) = "trim"
    /\ \E l \in OfMap("deleted") : Ask(p, "unmark", Kept(p, Here(p)), l, "W")
    /\ UNCHANGED <<job, left>>

SweepEntryDone(p) ==
    /\ pc[p] \in {"unstore", "unmark"} /\ want[p] = Nothing
    /\ Leave(p, "visit", Kept(p, Here(p)))
    /\ UNCHANGED <<job, left>>

AtEnd(p) == At(p, "visit") /\ job[p].shard = Shards[Swept(p)]
NextJob(p) ==
    /\ job' = [job EXCEPT ![p] = [n |-> Next1(p), shard |-> 1]]
    /\ left' = [left EXCEPT ![p] = 0]

\* Mutant of TrimRemoveUser: remove_if is called before the iterator is gone.
MutTrimRemoveUser(p) ==
    /\ AtEnd(p) /\ Kind(p) = "trim"
    /\ \E l \in OfMap(Swept(p)) : Ask(p, "drop", held[p], l, "W")
    /\ UNCHANGED <<job, left>>

\* After the iteration, the key of a user without posts goes: remove_if.
TrimRemoveUser(p) ==
    /\ AtEnd(p) /\ Kind(p) = "trim"
    /\ \E l \in OfMap(Swept(p)) : Ask(p, "drop", {}, l, "W")
    /\ UNCHANGED <<job, left>>

SweepEnd(p) ==
    /\ AtEnd(p) \/ At(p, "drop")
    /\ Leave(p, "idle", {})
    /\ NextJob(p)

SweepStep(p) ==
    \/ SweepNext(p) \/ SweepCross(p) \/ SweepUnstore(p) \/ TrimUnmark(p)
    \/ SweepEntryDone(p) \/ TrimRemoveUser(p) \/ SweepEnd(p)

-----------------------------------------------------------------------------
Init ==
    /\ pc = [p \in Proc |-> "idle"]
    /\ job = [p \in Proc |-> [n |-> 1, shard |-> 1]]
    /\ left = [p \in Proc |-> 0]
    /\ held = [p \in Proc |-> {}]
    /\ want = [p \in Proc |-> Nothing]
    /\ queue = [l \in Lock |-> <<>>]

\* The steps a process takes of itself once its operation has begun.
Step(p) ==
    \/ p \in Reader /\ ReadStep(p)
    \/ p \in Thread /\ ThreadStep(p)
    \/ p \in {Janitor, Logger} /\ SweepStep(p)

Begin(p) ==
    \/ p \in Reader /\ ScanUser(p)
    \/ p \in Thread /\ ThreadBegin(p)
    \/ p \in {Janitor, Logger} /\ SweepStart(p)

\* A process that waits can only be granted its lock, one that does not can
\* only take its step.
Proceed(p) == Grant(p) \/ Step(p)

Next == \E p \in Proc : Proceed(p) \/ Begin(p)

Spec == Init /\ [][Next]_vars

\* Whoever is inside an operation goes on with it, and a lock that could be
\* given to a waiter is; nobody need begin an operation.
FairSpec == Spec /\ \A p \in Proc : WF_vars(Proceed(p))

-----------------------------------------------------------------------------
Place == {"idle", "scan", "post", "mark", "parent", "check", "put", "push", "source", "video",
          "remove", "tomb", "bury", "visit", "cross", "unstore", "unmark", "drop"}

TypeOK ==
    /\ pc \in [Proc -> Place]
    /\ job \in [Proc -> [n : Nat \ {0}, shard : Nat \ {0}]]
    /\ left \in [Proc -> 0 .. MaxEntries]
    /\ held \in [Proc -> SUBSET (Lock \X Mode)]
    /\ want \in [Proc -> (Lock \X Mode) \union {Nothing}]
    /\ queue \in [Lock -> Seq(Proc)]

\* No deadlock, not even of a few processes while others go on: no group of
\* processes in which each waits for another of the group.  Scans take posts
\* and deleted_posts under a timeline, the trimmer under a timeline it
\* writes, the purge takes posts under deleted_posts, and iterators take the
\* next shard of a map under the one before.
NoWaitCycle ==
    \A S \in SUBSET Proc : S # {} => \E p \in S : \A q \in S : ~WaitsFor(p, q)

\* Every request for a lock is granted in the end: no scan, listener or sweep
\* is stuck, whatever the others do.
Granted == \A p \in Proc : want[p] # Nothing ~> want[p] = Nothing
=============================================================================
