-------------------------- MODULE StoreLocksProofs --------------------------
(***************************************************************************)
(* NoWaitCycle and the types of StoreLocks, for any number of readers,     *)
(* threads, timeline maps and shards.                                      *)
(*                                                                         *)
(* Every lock is asked for above all those the process holds, in the order *)
(* timelines, deleted_posts, posts, and ascending shards within one map    *)
(* (RankInv).  Of a group in which everybody waits take those who wait in  *)
(* the highest map, of those the ones with the least number of shards      *)
(* above theirs, of those the first in a queue: who holds that lock waits  *)
(* for a higher one, and who came earlier to it is nearer to its head.     *)
(***************************************************************************)
EXTENDS StoreLocks, SequenceTheorems, WellFoundedInduction, TLAPS

Rank(m) == IF m = "posts" THEN 2 ELSE IF m = "deleted" THEN 1 ELSE 0

Above(l, h) == Rank(h[1]) < Rank(l[1]) \/ (h[1] = l[1] /\ h[2] < l[2])

\* What a process holds lies in L.
Only(p, L) == \A h \in held[p] : h[1] \in L

\* Everyone who waits for a lock is in its queue.
QueueInv ==
    \A p \in Proc : want[p] # Nothing =>
        \E i \in DOMAIN queue[want[p][1]] : queue[want[p][1]][i] = p

\* A scan asks for posts and marks under nothing but a timeline.
ReaderInv(r) ==
    /\ pc[r] \in {"idle", "scan", "post", "mark", "parent"}
    /\ pc[r] = "idle" => want[r] = Nothing
    /\ pc[r] = "scan" =>
          IF want[r] = Nothing THEN Only(r, TimelineLock)
          ELSE held[r] = {} /\ want[r][1] \in TimelineLock
    /\ pc[r] \in {"post", "mark", "parent"} /\ want[r] # Nothing =>
          Only(r, TimelineLock) /\ want[r][1] \in OfMap("posts") \union OfMap("deleted")

\* A listener thread asks for nothing while it holds something.
ThreadInv(t) ==
    /\ pc[t] \in {"idle", "check", "put", "push", "source", "video", "remove", "tomb", "bury"}
    /\ want[t] # Nothing => held[t] = {}

\* A sweep holds the shard it is at, and asks under it for the next one of the
\* same map, for posts, or, in a timeline, for a mark.
SweepInv(p) ==
    /\ pc[p] \in {"idle", "visit", "cross", "unstore", "unmark", "drop"}
    /\ job[p].n \in 1 .. Len(Script(p))
    /\ job[p].shard \in 1 .. Shards[Swept(p)]
    /\ left[p] > 0 => Kind(p) \in {"trim", "purge"}
    /\ pc[p] = "idle" => want[p] = Nothing
    /\ pc[p] = "visit" =>
          IF want[p] = Nothing THEN Only(p, Here(p)) ELSE held[p] = {} /\ want[p][1] \in Here(p)
    /\ pc[p] = "cross" /\ want[p] # Nothing =>
          Only(p, {<<Swept(p), job[p].shard - 1>>}) /\ want[p][1] \in Here(p)
    /\ pc[p] = "unstore" =>
          /\ Kind(p) \in {"trim", "purge"}
          /\ want[p] # Nothing => Only(p, Here(p)) /\ want[p][1] \in OfMap("posts")
    /\ pc[p] = "unmark" =>
          /\ Kind(p) = "trim"
          /\ want[p] # Nothing => Only(p, Here(p)) /\ want[p][1] \in OfMap("deleted")
    /\ pc[p] = "drop" /\ want[p] # Nothing => held[p] = {}

Local(p) ==
    /\ p \in Reader => ReaderInv(p)
    /\ p \in Thread => ThreadInv(p)
    /\ p \in {Janitor, Logger} => SweepInv(p)

\* Every lock is asked for above those held.
RankInv ==
    \A p \in Proc : want[p] # Nothing => \A h \in held[p] : Above(want[p][1], h[1])

LocksInv == TypeOK /\ QueueInv /\ \A p \in Proc : Local(p)

-----------------------------------------------------------------------------
(* Numbers, sequences, locks, scripts. *)

LEMMA LeastNat ==
    ASSUME NEW T, T \subseteq Nat, T # {}
    PROVE  \E x \in T : \A y \in T : x <= y
<1>1. \E x \in T : \A y \in T : ~ (<<y, x>> \in OpToRel(<, Nat))
  BY WFMin, NatLessThanWellFounded, Zenon
<1>2. PICK x \in T : \A y \in T : ~ (<<y, x>> \in OpToRel(<, Nat))
  BY <1>1, Zenon
<1>3. ASSUME NEW y \in Nat, y < x
      PROVE  <<y, x>> \in OpToRel(<, Nat)
  <2>1. <<y, x>> \in Nat \X Nat /\ <<y, x>>[1] < <<y, x>>[2]
    BY <1>3
  <2>. QED
    BY <2>1, Zenon DEF OpToRel
<1>4. \A y \in T : ~(y < x)
  BY <1>2, <1>3, Zenon
<1>. QED
  BY <1>4

\* Who is not removed stays in the sequence.
LEMMA Stays ==
    ASSUME NEW S, NEW s \in Seq(S), NEW i \in DOMAIN s, NEW j \in DOMAIN s, i # j
    PROVE  /\ RemoveAt(s, i) \in Seq(S)
           /\ \E k \in DOMAIN RemoveAt(s, i) : RemoveAt(s, i)[k] = s[j]
<1>. DEFINE a == SubSeq(s, 1, i - 1)
            b == SubSeq(s, i + 1, Len(s))
<1>1. i \in 1 .. Len(s) /\ j \in 1 .. Len(s)
  OBVIOUS
<1>2. a \in Seq(S) /\ b \in Seq(S) /\ Len(a) = i - 1 /\ Len(b) = Len(s) - i
  BY <1>1
<1>3. /\ \A k \in 1 .. i - 1 : a[k] = s[k]
      /\ \A k \in 1 .. Len(s) - i : b[k] = s[k + i]
  BY <1>1
<1>4. /\ a \o b \in Seq(S) /\ Len(a \o b) = Len(a) + Len(b)
      /\ \A k \in 1 .. Len(a) + Len(b) :
            (a \o b)[k] = IF k <= Len(a) THEN a[k] ELSE b[k - Len(a)]
  BY <1>2, ConcatProperties
<1>5. RemoveAt(s, i) = a \o b
  BY DEF RemoveAt
<1>. HIDE DEF a, b
<1>6. \A k \in 1 .. Len(a) + Len(b) : k \in DOMAIN (a \o b)
  BY <1>4
<1>7. CASE j < i
  <2>1. j \in 1 .. Len(a) + Len(b) /\ j <= Len(a) /\ j \in 1 .. i - 1
    BY <1>1, <1>2, <1>7
  <2>2. (a \o b)[j] = s[j]
    BY <1>3, <1>4, <2>1
  <2>. QED
    BY <1>4, <1>5, <1>6, <2>1, <2>2
<1>8. CASE j > i
  <2>1. /\ j - 1 \in 1 .. Len(a) + Len(b) /\ ~(j - 1 <= Len(a))
        /\ j - 1 - Len(a) \in 1 .. Len(s) - i /\ (j - 1 - Len(a)) + i = j
    <3>1. Len(s) \in Nat /\ i \in Nat /\ j \in Nat /\ i >= 1 /\ j <= Len(s)
      BY <1>1
    <3>2. Len(a) + Len(b) = Len(s) - 1
      BY <1>2, <3>1
    <3>. QED
      <4>1. Len(a) = i - 1
        BY <1>2
      <4>2. /\ j - 1 >= 1 /\ j - 1 <= Len(s) - 1 /\ ~(j - 1 <= i - 1)
            /\ j - 1 - (i - 1) = j - i /\ j - i >= 1 /\ j - i <= Len(s) - i /\ (j - i) + i = j
        BY <1>8, <3>1
      <4>3. j - 1 \in 1 .. Len(a) + Len(b) /\ ~(j - 1 <= Len(a))
        BY <3>1, <3>2, <4>1, <4>2
      <4>4. j - 1 - Len(a) \in 1 .. Len(s) - i /\ (j - 1 - Len(a)) + i = j
        BY <3>1, <4>1, <4>2
      <4>. QED
        BY <4>3, <4>4
  <2>2. (a \o b)[j - 1] = s[j]
    BY <1>3, <1>4, <2>1
  <2>. QED
    BY <1>4, <1>5, <1>6, <2>1, <2>2
<1>. QED
  BY <1>1, <1>7, <1>8

LEMMA LockParts ==
    ASSUME LocksAssumption
    PROVE  /\ \A l \in Lock : l[1] \in Map /\ l[2] \in 1 .. Shards[l[1]]
           /\ \A m \in Map : \A k \in 1 .. Shards[m] : <<m, k>> \in Lock
           /\ TimelineMap \subseteq {"original", "secondary", "video"}
           /\ \A l \in TimelineLock : l \in Lock /\ l[1] \in TimelineMap
           /\ \A m \in Map : OfMap(m) \subseteq Lock
           /\ Shards \in [Map -> Nat \ {0}]
<1>1. \A l \in Lock : l[1] \in Map /\ l[2] \in 1 .. Shards[l[1]]
  BY DEF Lock
<1>2. \A m \in Map : \A k \in 1 .. Shards[m] : <<m, k>> \in Lock
  BY DEF Lock
<1>3. TimelineMap \subseteq {"original", "secondary", "video"}
  BY DEF LocksAssumption, TimelineMap
<1>. QED
  BY <1>1, <1>2, <1>3 DEF LocksAssumption, OfMap, TimelineLock

Job == ({"sort", "trim", "iter"} \X TimelineMap) \union ({"len"} \X Map)
           \union {<<"purge", "deleted">>}

LEMMA Joined ==
    ASSUME NEW S, NEW a \in Seq(S), NEW b \in Seq(S)
    PROVE  a \o b \in Seq(S) /\ Len(a \o b) = Len(a) + Len(b)
BY ConcatProperties, Zenon

LEMMA Scripts ==
    ASSUME LocksAssumption, NEW p \in {Janitor, Logger}
    PROVE  /\ Script(p) \in Seq(Job)
           /\ Len(Script(p)) >= 1
           /\ Repeats(p) \in 1 .. Len(Script(p))
<1>. DEFINE L == Len(Timelines)
<1>1. Timelines \in Seq({"original", "secondary", "video"}) /\ L \in Nat /\ L >= 1
  BY DEF LocksAssumption
<1>2. ASSUME NEW kind \in {"sort", "trim", "iter"}
      PROVE  Each(kind) \in Seq(Job) /\ Len(Each(kind)) = L
  <2>1. DOMAIN Timelines = 1 .. L
    BY <1>1
  <2>2. \A i \in 1 .. L : <<kind, Timelines[i]>> \in Job
    BY <1>1, <1>2 DEF Job, TimelineMap
  <2>3. Each(kind) = [i \in 1 .. L |-> <<kind, Timelines[i]>>]
    BY <2>1 DEF Each
  <2>4. Each(kind) \in [1 .. L -> Job]
    BY <2>2, <2>3
  <2>. HIDE DEF L
  <2>. QED
    BY <1>1, <2>4, LenProperties
<1>3. CASE p = Janitor
  <2>. DEFINE a == Each("sort")  b == Each("trim")  c == << <<"purge", "deleted">> >>
  <2>1. Script(p) = ((a \o b) \o c) \o b
    BY <1>3 DEF Script
  <2>2. a \in Seq(Job) /\ b \in Seq(Job) /\ Len(a) = L /\ Len(b) = L
    BY <1>2
  <2>3. c \in Seq(Job) /\ Len(c) = 1
    BY DEF Job
  <2>. HIDE DEF a, b, c
  <2>4. a \o b \in Seq(Job) /\ Len(a \o b) = L + L
    BY <2>2, Joined
  <2>5. (a \o b) \o c \in Seq(Job) /\ Len((a \o b) \o c) = L + L + 1
    <3>1. (a \o b) \o c \in Seq(Job) /\ Len((a \o b) \o c) = Len(a \o b) + Len(c)
      BY <2>3, <2>4, Joined, Zenon
    <3>. QED
      BY <2>3, <2>4, <3>1
  <2>6. Script(p) \in Seq(Job) /\ Len(Script(p)) = L + L + 1 + L
    <3>1. ((a \o b) \o c) \o b \in Seq(Job)
          /\ Len(((a \o b) \o c) \o b) = Len((a \o b) \o c) + Len(b)
      BY <2>2, <2>5, Joined, Zenon
    <3>. QED
      BY <2>1, <2>2, <2>5, <3>1
  <2>7. Repeats(p) = L + L + 2
    BY <1>1, <1>3 DEF Repeats
  <2>. QED
    BY <1>1, <2>6, <2>7
<1>4. CASE p # Janitor
  <2>. DEFINE a == << <<"len", Timelines[1]>>, <<"len", "posts">>, <<"len", "deleted">> >>
              b == Each("iter")
  <2>1. Script(p) = a \o b
    BY <1>4 DEF Script
  <2>2. Timelines[1] \in Map
    BY <1>1 DEF Map, TimelineMap
  <2>3. a \in Seq(Job) /\ Len(a) = 3
    BY <2>2 DEF Job, Map
  <2>4. b \in Seq(Job) /\ Len(b) = L
    BY <1>2
  <2>. HIDE DEF a, b
  <2>5. Script(p) \in Seq(Job) /\ Len(Script(p)) = 3 + L
    <3>1. a \o b \in Seq(Job) /\ Len(a \o b) = Len(a) + Len(b)
      BY <2>3, <2>4, Joined, Zenon
    <3>. QED
      BY <2>1, <2>3, <2>4, <3>1
  <2>. QED
    BY <1>1, <1>4, <2>5 DEF Repeats
<1>. QED
  BY <1>3, <1>4

\* What is swept, by the kind of the job.
LEMMA Jobs ==
    ASSUME LocksAssumption, NEW p \in {Janitor, Logger}, job[p].n \in 1 .. Len(Script(p))
    PROVE  /\ Swept(p) \in Map
           /\ Kind(p) \in {"sort", "trim"} => Swept(p) \in TimelineMap
           /\ Kind(p) = "purge" => Swept(p) = "deleted"
           /\ Next1(p) \in 1 .. Len(Script(p))
<1>1. Script(p)[job[p].n] \in Job
  BY Scripts
<1>. QED
  BY <1>1, Scripts DEF Swept, Kind, Job, Map, Next1

-----------------------------------------------------------------------------
(* What asking, leaving and granting do to the locks. *)

\* Only p's part of the locks changes, and every waiter stays in its queue.
Moved(p) ==
    /\ pc' \in [Proc -> Place]
    /\ held' \in [Proc -> SUBSET (Lock \X Mode)]
    /\ want' \in [Proc -> (Lock \X Mode) \union {Nothing}]
    /\ queue' \in [Lock -> Seq(Proc)]
    /\ \A q \in Proc \ {p} : pc'[q] = pc[q] /\ held'[q] = held[q] /\ want'[q] = want[q]
    /\ QueueInv'

\* Of the sweeps' progress only p's changes.
Progressed(p) ==
    /\ job' \in [Proc -> [n : Nat \ {0}, shard : Nat \ {0}]]
    /\ left' \in [Proc -> 0 .. MaxEntries]
    /\ \A q \in Proc \ {p} : job'[q] = job[q] /\ left'[q] = left[q]

LEMMA Asking ==
    ASSUME TypeOK, QueueInv, NEW p \in Proc, want[p] = Nothing, NEW next \in Place,
           NEW kept \in SUBSET (Lock \X Mode), NEW l \in Lock, NEW mode \in Mode,
           Ask(p, next, kept, l, mode)
    PROVE  /\ Moved(p)
           /\ pc'[p] = next /\ held'[p] = kept /\ want'[p] = <<l, mode>>
           /\ want'[p] # Nothing /\ want'[p][1] = l
<1>1. /\ pc' \in [Proc -> Place]
      /\ held' \in [Proc -> SUBSET (Lock \X Mode)]
      /\ want' \in [Proc -> (Lock \X Mode) \union {Nothing}]
  BY DEF TypeOK, Ask
<1>2. queue[l] \in Seq(Proc) /\ queue' = [queue EXCEPT ![l] = Append(@, p)]
  BY DEF TypeOK, Ask
<1>3. /\ Append(queue[l], p) \in Seq(Proc)
      /\ Len(queue[l]) \in Nat
      /\ DOMAIN Append(queue[l], p) = 1 .. Len(queue[l]) + 1
      /\ DOMAIN queue[l] = 1 .. Len(queue[l])
      /\ Append(queue[l], p)[Len(queue[l]) + 1] = p
      /\ \A i \in 1 .. Len(queue[l]) : Append(queue[l], p)[i] = queue[l][i]
  BY <1>2
<1>4. /\ queue' \in [Lock -> Seq(Proc)]
      /\ queue'[l] = Append(queue[l], p)
      /\ \A k \in Lock \ {l} : queue'[k] = queue[k]
  BY <1>2, <1>3 DEF TypeOK
<1>5. /\ pc'[p] = next /\ held'[p] = kept /\ want'[p] = <<l, mode>>
      /\ \A q \in Proc \ {p} : pc'[q] = pc[q] /\ held'[q] = held[q] /\ want'[q] = want[q]
  BY DEF TypeOK, Ask
<1>6. <<l, mode>> # Nothing /\ <<l, mode>>[1] = l
  BY DEF Nothing
<1>7. ASSUME NEW q \in Proc, want'[q] # Nothing
      PROVE  \E i \in DOMAIN queue'[want'[q][1]] : queue'[want'[q][1]][i] = q
  <2>1. CASE q = p
    <3>1. Len(queue[l]) + 1 \in DOMAIN queue'[l] /\ queue'[l][Len(queue[l]) + 1] = p
      BY <1>3, <1>4
    <3>. QED
      BY <1>5, <1>6, <2>1, <3>1
  <2>2. CASE q # p
    <3>1. want'[q] = want[q] /\ want[q] \in Lock \X Mode /\ want[q][1] \in Lock
      BY <1>5, <1>7, <2>2 DEF TypeOK
    <3>2. PICK i \in DOMAIN queue[want[q][1]] : queue[want[q][1]][i] = q
      BY <1>7, <3>1 DEF QueueInv
    <3>3. i \in DOMAIN queue'[want[q][1]] /\ queue'[want[q][1]][i] = q
      <4>1. CASE want[q][1] = l
        <5>1. i \in 1 .. Len(queue[l]) /\ queue[l][i] = q /\ i \in 1 .. Len(queue[l]) + 1
          BY <1>3, <3>2, <4>1
        <5>. QED
          BY <1>3, <1>4, <4>1, <5>1
      <4>2. CASE want[q][1] # l
        BY <1>4, <3>1, <3>2, <4>2
      <4>. QED
        BY <4>1, <4>2
    <3>. QED
      BY <3>1, <3>3
  <2>. QED
    BY <2>1, <2>2
<1>. QED
  BY <1>1, <1>4, <1>5, <1>6, <1>7 DEF Moved, QueueInv

LEMMA Leaving ==
    ASSUME TypeOK, QueueInv, NEW p \in Proc, want[p] = Nothing, NEW next \in Place,
           NEW kept \in SUBSET (Lock \X Mode), Leave(p, next, kept)
    PROVE  Moved(p) /\ pc'[p] = next /\ held'[p] = kept /\ want'[p] = Nothing
BY DEF TypeOK, QueueInv, Leave, Moved

LEMMA Granting ==
    ASSUME TypeOK, QueueInv, NEW p \in Proc, Grant(p)
    PROVE  /\ Moved(p)
           /\ pc'[p] = pc[p] /\ held'[p] = held[p] \union {want[p]} /\ want'[p] = Nothing
           /\ want[p] \in Lock \X Mode /\ want[p] # Nothing
<1>. DEFINE l == want[p][1]  i == Position(p, l)
<1>1. want[p] # Nothing /\ want[p] \in Lock \X Mode /\ l \in Lock
  BY DEF Grant, TypeOK
<1>2. /\ pc' = pc
      /\ held' = [held EXCEPT ![p] = @ \union {want[p]}]
      /\ want' = [want EXCEPT ![p] = Nothing]
      /\ queue' = [queue EXCEPT ![l] = RemoveAt(@, i)]
  BY DEF Grant
<1>3. i \in DOMAIN queue[l] /\ queue[l][i] = p
  <2>1. \E k \in DOMAIN queue[l] : queue[l][k] = p
    BY <1>1 DEF QueueInv
  <2>. QED
    BY <2>1, Zenon DEF Position
<1>4. queue[l] \in Seq(Proc)
  BY <1>1 DEF TypeOK
<1>. HIDE DEF i
<1>5. RemoveAt(queue[l], i) \in Seq(Proc)
  <2>1. SubSeq(queue[l], 1, i - 1) \in Seq(Proc) /\ SubSeq(queue[l], i + 1, Len(queue[l])) \in Seq(Proc)
    BY <1>3, <1>4
  <2>. QED
    BY <2>1, Joined, Zenon DEF RemoveAt
<1>. HIDE DEF l
<1>6. /\ queue' \in [Lock -> Seq(Proc)]
      /\ queue'[l] = RemoveAt(queue[l], i)
      /\ \A k \in Lock \ {l} : queue'[k] = queue[k]
  BY <1>1, <1>2, <1>5 DEF TypeOK
<1>7. /\ pc' \in [Proc -> Place]
      /\ held' \in [Proc -> SUBSET (Lock \X Mode)]
      /\ want' \in [Proc -> (Lock \X Mode) \union {Nothing}]
      /\ pc'[p] = pc[p] /\ held'[p] = held[p] \union {want[p]} /\ want'[p] = Nothing
      /\ \A q \in Proc \ {p} : pc'[q] = pc[q] /\ held'[q] = held[q] /\ want'[q] = want[q]
  BY <1>1, <1>2 DEF TypeOK
<1>8. ASSUME NEW q \in Proc, want'[q] # Nothing
      PROVE  \E j \in DOMAIN queue'[want'[q][1]] : queue'[want'[q][1]][j] = q
  <2>1. q # p /\ want'[q] = want[q] /\ want[q] # Nothing
    BY <1>7, <1>8
  <2>2. want[q] \in Lock \X Mode /\ want[q][1] \in Lock
    BY <2>1 DEF TypeOK
  <2>3. PICK j \in DOMAIN queue[want[q][1]] : queue[want[q][1]][j] = q
    BY <2>1 DEF QueueInv
  <2>4. CASE want[q][1] # l
    BY <1>6, <2>1, <2>2, <2>3, <2>4
  <2>5. CASE want[q][1] = l
    <3>1. j \in DOMAIN queue[l] /\ queue[l][j] = q /\ i # j
      BY <1>3, <2>1, <2>3, <2>5
    <3>2. \E k \in DOMAIN RemoveAt(queue[l], i) : RemoveAt(queue[l], i)[k] = queue[l][j]
      BY <1>3, <1>4, <3>1, Stays, Zenon
    <3>. QED
      BY <1>6, <2>1, <2>5, <3>1, <3>2
  <2>. QED
    BY <2>4, <2>5
<1>. QED
  BY <1>1, <1>6, <1>7, <1>8 DEF Moved, QueueInv

\* A step of p changes nothing that speaks of the others.
LEMMA Others ==
    ASSUME LocksInv, NEW p \in Proc, Moved(p), Progressed(p), Local(p)'
    PROVE  LocksInv'
<1>1. ASSUME NEW q \in Proc, q # p
      PROVE  Local(q)'
  <2>1. /\ pc'[q] = pc[q] /\ held'[q] = held[q] /\ want'[q] = want[q]
        /\ job'[q] = job[q] /\ left'[q] = left[q]
    BY <1>1 DEF Moved, Progressed
  <2>2. ReaderInv(q) => ReaderInv(q)'
    BY <2>1 DEF ReaderInv, Only
  <2>3. ThreadInv(q) => ThreadInv(q)'
    BY <2>1 DEF ThreadInv
  <2>4. Kind(q)' = Kind(q) /\ Swept(q)' = Swept(q) /\ Here(q)' = Here(q)
    BY <2>1 DEF Kind, Swept, Here
  <2>5. SweepInv(q) => SweepInv(q)'
    BY <2>1, <2>4 DEF SweepInv, Only
  <2>. QED
    BY <2>2, <2>3, <2>5 DEF LocksInv, Local
<1>. QED
  BY <1>1 DEF LocksInv, TypeOK, Moved, Progressed

-----------------------------------------------------------------------------
(* The operations. *)

LEMMA Roles ==
    ASSUME LocksAssumption
    PROVE  /\ \A r \in Reader : r \in Proc /\ r \notin Thread /\ r \notin {Janitor, Logger}
           /\ \A t \in Thread : t \in Proc /\ t \notin Reader /\ t \notin {Janitor, Logger}
           /\ \A p \in {Janitor, Logger} : p \in Proc /\ p \notin Reader /\ p \notin Thread
BY DEF LocksAssumption, Proc

LEMMA ReaderKeeps ==
    ASSUME LocksAssumption, LocksInv, NEW r \in Reader, ScanUser(r) \/ ReadStep(r)
    PROVE  LocksInv'
<1>1. /\ r \in Proc /\ TypeOK /\ QueueInv /\ ReaderInv(r)
      /\ r \notin Thread /\ r \notin {Janitor, Logger}
  BY Roles DEF LocksInv, Local
<1>2. /\ TimelineLock \subseteq Lock
      /\ OfMap("posts") \subseteq Lock /\ OfMap("deleted") \subseteq Lock
      /\ "R" \in Mode
      /\ {"idle", "scan", "post", "mark", "parent"} \subseteq Place
  BY DEF OfMap, TimelineLock, Mode, Place
<1>3. /\ held[r] \in SUBSET (Lock \X Mode)
      /\ Kept(r, TimelineLock) \in SUBSET (Lock \X Mode)
      /\ \A h \in Kept(r, TimelineLock) : h[1] \in TimelineLock
  BY <1>1 DEF TypeOK, Kept
<1>4. SUFFICES Moved(r) /\ Progressed(r) /\ ReaderInv(r)'
  BY <1>1, Others, Zenon DEF Local
<1>5. CASE ScanUser(r)
  <2>1. PICK l \in TimelineLock : Ask(r, "scan", {}, l, "R")
    BY <1>5 DEF ScanUser
  <2>2. Progressed(r)
    BY <1>1, <1>5 DEF ScanUser, Progressed, TypeOK
  <2>3. /\ Moved(r) /\ pc'[r] = "scan" /\ held'[r] = {}
        /\ want'[r] # Nothing /\ want'[r][1] = l
    BY <1>1, <1>2, <1>5, <2>1, Asking DEF ScanUser, At
  <2>. QED
    BY <2>1, <2>2, <2>3 DEF ReaderInv
<1>6. CASE LookUp(r)
  <2>1. PICK l \in OfMap("posts") : Ask(r, "post", held[r], l, "R")
    BY <1>6 DEF LookUp
  <2>2. Progressed(r)
    BY <1>1, <1>6 DEF LookUp, Progressed, TypeOK
  <2>3. /\ Moved(r) /\ pc'[r] = "post" /\ held'[r] = held[r]
        /\ want'[r] # Nothing /\ want'[r][1] = l
    BY <1>1, <1>2, <1>3, <1>6, <2>1, Asking DEF LookUp, At
  <2>4. Only(r, TimelineLock)
    BY <1>1, <1>6 DEF LookUp, At, ReaderInv
  <2>. QED
    BY <2>1, <2>2, <2>3, <2>4 DEF ReaderInv, Only
<1>7. CASE LookUpMark(r)
  <2>1. PICK l \in OfMap("deleted") : Ask(r, "mark", Kept(r, TimelineLock), l, "R")
    BY <1>7 DEF LookUpMark
  <2>2. Progressed(r)
    BY <1>1, <1>7 DEF LookUpMark, Progressed, TypeOK
  <2>3. /\ Moved(r) /\ pc'[r] = "mark" /\ held'[r] = Kept(r, TimelineLock)
        /\ want'[r] # Nothing /\ want'[r][1] = l
    BY <1>1, <1>2, <1>3, <1>7, <2>1, Asking DEF LookUpMark, At
  <2>. QED
    BY <1>3, <2>1, <2>2, <2>3 DEF ReaderInv, Only
<1>8. CASE LookUpParent(r)
  <2>1. PICK l \in OfMap("posts") : Ask(r, "parent", Kept(r, TimelineLock), l, "R")
    BY <1>8 DEF LookUpParent
  <2>2. Progressed(r)
    BY <1>1, <1>8 DEF LookUpParent, Progressed, TypeOK
  <2>3. /\ Moved(r) /\ pc'[r] = "parent" /\ held'[r] = Kept(r, TimelineLock)
        /\ want'[r] # Nothing /\ want'[r][1] = l
    BY <1>1, <1>2, <1>3, <1>8, <2>1, Asking DEF LookUpParent, At
  <2>. QED
    BY <1>3, <2>1, <2>2, <2>3 DEF ReaderInv, Only
<1>9. CASE EntryDone(r)
  <2>1. Progressed(r)
    BY <1>1, <1>9 DEF EntryDone, Progressed, TypeOK
  <2>2. Moved(r) /\ pc'[r] = "scan" /\ held'[r] = Kept(r, TimelineLock) /\ want'[r] = Nothing
    BY <1>1, <1>2, <1>3, <1>9, Leaving DEF EntryDone
  <2>. QED
    BY <1>3, <2>1, <2>2 DEF ReaderInv, Only
<1>10. CASE UserDone(r)
  <2>1. Progressed(r)
    BY <1>1, <1>10, LocksAssumption DEF UserDone, Progressed, TypeOK, LocksAssumption
  <2>2. Moved(r) /\ pc'[r] = "idle" /\ want'[r] = Nothing
    BY <1>1, <1>2, <1>10, Leaving DEF UserDone, At
  <2>. QED
    BY <2>1, <2>2 DEF ReaderInv
<1>. QED
  BY <1>5, <1>6, <1>7, <1>8, <1>9, <1>10 DEF ReadStep

LEMMA ThreadKeeps ==
    ASSUME LocksAssumption, LocksInv, NEW t \in Thread, ThreadBegin(t) \/ ThreadStep(t)
    PROVE  LocksInv'
<1>. DEFINE Places == {"idle", "check", "put", "push", "source", "video",
                       "remove", "tomb", "bury"}
<1>1. /\ t \in Proc /\ TypeOK /\ QueueInv /\ ThreadInv(t)
      /\ t \notin Reader /\ t \notin {Janitor, Logger}
  BY Roles DEF LocksInv, Local
<1>2. SUFFICES Moved(t) /\ Progressed(t) /\ ThreadInv(t)'
  BY <1>1, Others, Zenon DEF Local
<1>3. ASSUME NEW from, NEW next \in Places, NEW L \in SUBSET Lock, NEW mode \in Mode,
             ThreadAsk(t, from, next, L, mode)
      PROVE  Moved(t) /\ Progressed(t) /\ ThreadInv(t)'
  <2>1. PICK l \in L : Ask(t, next, {}, l, mode)
    BY <1>3 DEF ThreadAsk
  <2>2. Progressed(t)
    BY <1>1, <1>3 DEF ThreadAsk, Progressed, TypeOK
  <2>3. next \in Place
    BY DEF Place
  <2>4. Moved(t) /\ pc'[t] = next /\ held'[t] = {}
    BY <1>1, <1>3, <2>1, <2>3, Asking DEF ThreadAsk, At
  <2>. QED
    BY <2>2, <2>4 DEF ThreadInv
<1>4. ASSUME UNCHANGED <<job, left>>, want[t] = Nothing, Leave(t, "idle", {})
      PROVE  Moved(t) /\ Progressed(t) /\ ThreadInv(t)'
  <2>1. Progressed(t)
    BY <1>1, <1>4 DEF Progressed, TypeOK
  <2>2. Moved(t) /\ pc'[t] = "idle" /\ want'[t] = Nothing
    BY <1>1, <1>4, Leaving DEF Place
  <2>. QED
    BY <2>1, <2>2 DEF ThreadInv
<1>5. /\ TimelineLock \in SUBSET Lock
      /\ \A m : OfMap(m) \in SUBSET Lock
      /\ "R" \in Mode /\ "W" \in Mode
  BY DEF OfMap, TimelineLock, Mode
<1>6. CASE InsertCheck(t) \/ InsertPut(t)
  BY <1>3, <1>5, <1>6 DEF InsertCheck, InsertPut
<1>7. CASE InsertPush(t) \/ InsertSource(t)
  BY <1>3, <1>5, <1>7 DEF InsertPush, InsertSource
<1>8. CASE InsertVideo(t)
  BY <1>3, <1>5, <1>8 DEF InsertVideo
<1>9. CASE DeleteRemove(t) \/ DeleteMark(t)
  BY <1>3, <1>5, <1>9 DEF DeleteRemove, DeleteMark
<1>10. CASE DeleteBury(t)
  BY <1>3, <1>5, <1>10 DEF DeleteBury
<1>11. CASE InsertDone(t) \/ DeleteDone(t)
  BY <1>4, <1>11 DEF InsertDone, DeleteDone, At
<1>. QED
  BY <1>6, <1>7, <1>8, <1>9, <1>10, <1>11 DEF ThreadBegin, ThreadStep

LEMMA ShardSet ==
    ASSUME TypeOK, NEW p \in Proc, NEW k \in Nat \ {0}, job' = [job EXCEPT ![p].shard = k]
    PROVE  /\ job' \in [Proc -> [n : Nat \ {0}, shard : Nat \ {0}]]
           /\ job'[p].n = job[p].n /\ job'[p].shard = k
           /\ \A q \in Proc \ {p} : job'[q] = job[q]
BY DEF TypeOK

LEMMA SweepKeeps ==
    ASSUME LocksAssumption, LocksInv, NEW p \in {Janitor, Logger}, SweepStart(p) \/ SweepStep(p)
    PROVE  LocksInv'
<1>1. /\ p \in Proc /\ TypeOK /\ QueueInv /\ SweepInv(p)
      /\ p \notin Reader /\ p \notin Thread
  BY Roles DEF LocksInv, Local
<1>. DEFINE m == Swept(p)  k == job[p].shard
<1>2. /\ m \in Map
      /\ Kind(p) \in {"sort", "trim"} => m \in TimelineMap
      /\ Kind(p) = "purge" => m = "deleted"
      /\ Next1(p) \in 1 .. Len(Script(p))
  BY <1>1, Jobs DEF SweepInv
<1>3. Shards[m] \in Nat \ {0} /\ k \in 1 .. Shards[m]
  BY <1>1, <1>2 DEF LocksAssumption, SweepInv
<1>4. /\ \A j \in 1 .. Shards[m] : <<m, j>> \in Lock
      /\ \A n : OfMap(n) \subseteq Lock
      /\ SweepMode(p) \in Mode /\ "W" \in Mode
  BY <1>2 DEF Lock, OfMap, SweepMode, Mode
<1>5. {"idle", "visit", "cross", "unstore", "unmark", "drop"} \subseteq Place
  BY DEF Place
<1>6. /\ held[p] \in SUBSET (Lock \X Mode)
      /\ Kept(p, Here(p)) \in SUBSET (Lock \X Mode)
      /\ \A h \in Kept(p, Here(p)) : h[1] \in Here(p)
  BY <1>1 DEF TypeOK, Kept
<1>7. SUFFICES Moved(p) /\ Progressed(p) /\ SweepInv(p)'
  BY <1>1, Others, Zenon DEF Local
<1>8. ASSUME job'[p].n = job[p].n
      PROVE  Kind(p)' = Kind(p) /\ Swept(p)' = m
  BY <1>8 DEF Kind, Swept
<1>9. ASSUME job'[p] = job[p]
      PROVE  Here(p)' = Here(p)
  BY <1>8, <1>9 DEF Here
<1>10. CASE SweepStart(p)
  <2>1. Ask(p, "visit", {}, <<m, 1>>, SweepMode(p)) /\ want[p] = Nothing
    BY <1>10 DEF SweepStart, At
  <2>2. /\ Moved(p) /\ pc'[p] = "visit" /\ held'[p] = {}
        /\ want'[p] # Nothing /\ want'[p][1] = <<m, 1>>
    <3>1. <<m, 1>> \in Lock /\ "visit" \in Place /\ {} \in SUBSET (Lock \X Mode)
      BY <1>3, <1>4, <1>5
    <3>2. SweepMode(p) \in Mode
      BY <1>4
    <3>. HIDE DEF m, k
    <3>. QED
      BY <1>1, <2>1, <3>1, <3>2, Asking
  <2>3. job' = [job EXCEPT ![p].shard = 1] /\ job'[p].n = job[p].n /\ job'[p].shard = 1
    BY <1>1, <1>10 DEF SweepStart, TypeOK
  <2>4. PICK n \in IF Kind(p) \in {"trim", "purge"} THEN 0 .. MaxEntries ELSE {0} :
            left' = [left EXCEPT ![p] = n]
    BY <1>10 DEF SweepStart
  <2>5. n \in 0 .. MaxEntries /\ (n > 0 => Kind(p) \in {"trim", "purge"})
    BY <2>4 DEF LocksAssumption
  <2>6. Progressed(p) /\ left'[p] = n
    <3>1. job' \in [Proc -> [n : Nat \ {0}, shard : Nat \ {0}]]
      <4>1. 1 \in Nat \ {0} /\ job' = [job EXCEPT ![p].shard = 1]
        BY <2>3
      <4>. QED
        BY <1>1, <4>1, ShardSet, Zenon
    <3>2. \A q \in Proc \ {p} : job'[q] = job[q] /\ left'[q] = left[q]
      BY <1>1, <2>3, <2>4, ShardSet DEF TypeOK
    <3>. QED
      BY <1>1, <2>4, <2>5, <3>1, <3>2 DEF Progressed, TypeOK
  <2>7. Here(p)' = {<<m, 1>>}
    BY <1>8, <2>3 DEF Here
  <2>. QED
    BY <1>1, <1>3, <1>8, <2>2, <2>3, <2>5, <2>6, <2>7 DEF SweepInv
<1>11. CASE SweepNext(p)
  <2>. DEFINE kept == IF Kind(p) = "len" THEN {} ELSE held[p]
  <2>1. /\ Ask(p, "cross", kept, <<m, k + 1>>, SweepMode(p))
        /\ want[p] = Nothing /\ pc[p] = "visit" /\ k < Shards[m]
    BY <1>11 DEF SweepNext, At
  <2>2. k + 1 \in 1 .. Shards[m] /\ (k + 1) - 1 = k
    BY <1>3, <2>1
  <2>3. kept \in SUBSET (Lock \X Mode) /\ \A h \in kept : h[1] \in Here(p)
    BY <1>1, <1>6, <2>1 DEF SweepInv, Only
  <2>. HIDE DEF kept
  <2>4. /\ Moved(p) /\ pc'[p] = "cross" /\ held'[p] = kept
        /\ want'[p] # Nothing /\ want'[p][1] = <<m, k + 1>>
    <3>1. <<m, k + 1>> \in Lock /\ "cross" \in Place /\ SweepMode(p) \in Mode
      BY <1>4, <1>5, <2>2
    <3>. DEFINE l == <<m, k + 1>>  mode == SweepMode(p)
    <3>2. l \in Lock /\ mode \in Mode /\ want[p] = Nothing /\ Ask(p, "cross", kept, l, mode)
      BY <2>1, <3>1
    <3>. HIDE DEF l, mode
    <3>3. /\ Moved(p) /\ pc'[p] = "cross" /\ held'[p] = kept
          /\ want'[p] # Nothing /\ want'[p][1] = l
      BY <1>1, <2>3, <3>1, <3>2, Asking
    <3>. QED
      BY <3>3 DEF l
  <2>5. job' = [job EXCEPT ![p].shard = k + 1] /\ left' = left
    BY <1>11 DEF SweepNext
  <2>6. job'[p].n = job[p].n /\ job'[p].shard = k + 1 /\ left'[p] = left[p]
    BY <1>1, <2>5 DEF TypeOK
  <2>7. Progressed(p)
    <3>1. k + 1 \in Nat \ {0}
      BY <2>2
    <3>. HIDE DEF k
    <3>2. job' \in [Proc -> [n : Nat \ {0}, shard : Nat \ {0}]]
      BY <1>1, <2>5, <3>1, ShardSet
    <3>3. \A q \in Proc \ {p} : job'[q] = job[q] /\ left'[q] = left[q]
      BY <1>1, <2>5, <3>1, ShardSet
    <3>. QED
      BY <1>1, <2>5, <3>2, <3>3 DEF Progressed, TypeOK
  <2>8. Here(p)' = {<<m, k + 1>>}
    BY <1>8, <2>6 DEF Here
  <2>9. \A h \in held'[p] : h[1] \in {<<m, job'[p].shard - 1>>}
    BY <2>2, <2>3, <2>4, <2>6 DEF Here
  <2>. QED
    BY <1>1, <1>8, <2>2, <2>4, <2>6, <2>7, <2>8, <2>9 DEF SweepInv, Only
<1>12. CASE SweepCross(p) \/ SweepEntryDone(p)
  <2>1. Leave(p, "visit", Kept(p, Here(p))) /\ job' = job /\ left' = left /\ want[p] = Nothing
    BY <1>12 DEF SweepCross, SweepEntryDone, At
  <2>2. Moved(p) /\ pc'[p] = "visit" /\ held'[p] = Kept(p, Here(p)) /\ want'[p] = Nothing
    BY <1>1, <1>5, <1>6, <2>1, Leaving
  <2>3. Progressed(p)
    BY <1>1, <2>1 DEF Progressed, TypeOK
  <2>. QED
    BY <1>1, <1>6, <1>8, <1>9, <2>1, <2>2, <2>3 DEF SweepInv, Only
<1>13. CASE SweepUnstore(p)
  <2>1. PICK l \in OfMap("posts") : Ask(p, "unstore", held[p], l, "W")
    BY <1>13 DEF SweepUnstore
  <2>2. /\ want[p] = Nothing /\ pc[p] = "visit" /\ left[p] > 0
        /\ job' = job /\ left' = [left EXCEPT ![p] = @ - 1]
    BY <1>13 DEF SweepUnstore, At
  <2>3. /\ Moved(p) /\ pc'[p] = "unstore" /\ held'[p] = held[p]
        /\ want'[p] # Nothing /\ want'[p][1] = l
    BY <1>1, <1>4, <1>5, <1>6, <2>1, <2>2, Asking
  <2>4. Progressed(p)
    BY <1>1, <2>2 DEF Progressed, TypeOK
  <2>. QED
    BY <1>1, <1>8, <1>9, <2>1, <2>2, <2>3, <2>4 DEF SweepInv, Only
<1>14. CASE TrimUnmark(p)
  <2>1. PICK l \in OfMap("deleted") : Ask(p, "unmark", Kept(p, Here(p)), l, "W")
    BY <1>14 DEF TrimUnmark
  <2>2. want[p] = Nothing /\ Kind(p) = "trim" /\ job' = job /\ left' = left
    BY <1>14 DEF TrimUnmark, At
  <2>3. /\ Moved(p) /\ pc'[p] = "unmark" /\ held'[p] = Kept(p, Here(p))
        /\ want'[p] # Nothing /\ want'[p][1] = l
    BY <1>1, <1>4, <1>5, <1>6, <2>1, <2>2, Asking
  <2>4. Progressed(p)
    BY <1>1, <2>2 DEF Progressed, TypeOK
  <2>. QED
    BY <1>1, <1>6, <1>8, <1>9, <2>1, <2>2, <2>3, <2>4 DEF SweepInv, Only
<1>15. CASE TrimRemoveUser(p)
  <2>1. PICK l \in OfMap(m) : Ask(p, "drop", {}, l, "W")
    BY <1>15 DEF TrimRemoveUser
  <2>2. want[p] = Nothing /\ Kind(p) = "trim" /\ job' = job /\ left' = left
    BY <1>15 DEF TrimRemoveUser, AtEnd, At
  <2>3. Moved(p) /\ pc'[p] = "drop" /\ held'[p] = {}
    BY <1>1, <1>4, <1>5, <2>1, <2>2, Asking
  <2>4. Progressed(p)
    BY <1>1, <2>2 DEF Progressed, TypeOK
  <2>. QED
    BY <1>1, <1>8, <1>9, <2>2, <2>3, <2>4 DEF SweepInv
<1>16. CASE SweepEnd(p)
  <2>1. /\ Leave(p, "idle", {}) /\ want[p] = Nothing
        /\ job' = [job EXCEPT ![p] = [n |-> Next1(p), shard |-> 1]]
        /\ left' = [left EXCEPT ![p] = 0]
    BY <1>16 DEF SweepEnd, AtEnd, At, NextJob
  <2>2. Moved(p) /\ pc'[p] = "idle" /\ want'[p] = Nothing
    BY <1>1, <1>5, <2>1, Leaving
  <2>3. job'[p].n = Next1(p) /\ job'[p].shard = 1 /\ left'[p] = 0
    BY <1>1, <2>1 DEF TypeOK
  <2>4. Next1(p) \in Nat \ {0}
    BY <1>2, Scripts
  <2>5. Progressed(p)
    BY <1>1, <2>1, <2>4 DEF Progressed, TypeOK, LocksAssumption
  <2>6. Swept(p)' \in Map
    <3>1. Script(p)[Next1(p)] \in Job
      BY <1>2, Scripts
    <3>. QED
      BY <2>3, <3>1 DEF Swept, Job, Map
  <2>7. 1 \in 1 .. Shards[Swept(p)']
    BY <2>6 DEF LocksAssumption
  <2>. QED
    BY <1>2, <2>2, <2>3, <2>5, <2>7 DEF SweepInv
<1>. QED
  BY <1>10, <1>11, <1>12, <1>13, <1>14, <1>15, <1>16 DEF SweepStep

LEMMA GrantKeeps ==
    ASSUME LocksAssumption, LocksInv, NEW p \in Proc, Grant(p)
    PROVE  LocksInv'
<1>1. TypeOK /\ QueueInv /\ Local(p)
  BY DEF LocksInv
<1>2. /\ Moved(p)
      /\ pc'[p] = pc[p] /\ held'[p] = held[p] \union {want[p]} /\ want'[p] = Nothing
      /\ want[p] # Nothing
  BY <1>1, Granting
<1>3. job' = job /\ left' = left
  BY DEF Grant
<1>4. Progressed(p)
  BY <1>1, <1>3 DEF Progressed, TypeOK
<1>5. ReaderInv(p) => ReaderInv(p)'
  BY <1>2 DEF ReaderInv, Only
<1>6. ThreadInv(p) => ThreadInv(p)'
  BY <1>2 DEF ThreadInv
<1>7. Kind(p)' = Kind(p) /\ Swept(p)' = Swept(p) /\ Here(p)' = Here(p)
  BY <1>3 DEF Kind, Swept, Here
<1>8. SweepInv(p) => SweepInv(p)'
  BY <1>2, <1>3, <1>7 DEF SweepInv, Only
<1>9. Local(p)'
  BY <1>1, <1>5, <1>6, <1>8 DEF Local
<1>. QED
  BY <1>2, <1>4, <1>9, Others, Zenon

LEMMA LocksInit ==
    ASSUME LocksAssumption, Init
    PROVE  LocksInv
<1>1. TypeOK
  BY DEF LocksAssumption, Init, TypeOK, Place
<1>2. QueueInv
  BY DEF Init, QueueInv
<1>3. \A r \in Reader : r \in Proc => ReaderInv(r)
  BY DEF Init, ReaderInv
<1>4. \A t \in Thread : t \in Proc => ThreadInv(t)
  BY DEF Init, ThreadInv
<1>5. ASSUME NEW p \in {Janitor, Logger}
      PROVE  SweepInv(p)
  <2>1. p \in Proc
    BY DEF Proc
  <2>2. /\ pc[p] = "idle" /\ want[p] = Nothing /\ left[p] = 0
        /\ job[p].n = 1 /\ job[p].shard = 1
    BY <2>1 DEF Init
  <2>3. 1 \in 1 .. Len(Script(p))
    BY Scripts
  <2>4. Swept(p) \in Map
    BY <2>2, <2>3, Jobs
  <2>5. 1 \in 1 .. Shards[Swept(p)]
    BY <2>4 DEF LocksAssumption
  <2>. QED
    BY <2>2, <2>3, <2>5 DEF SweepInv
<1>. QED
  BY <1>1, <1>2, <1>3, <1>4, <1>5 DEF LocksInv, Local

LEMMA LocksNext ==
    ASSUME LocksAssumption, LocksInv, [Next]_vars
    PROVE  LocksInv'
<1>1. ASSUME NEW p \in Proc, Proceed(p) \/ Begin(p)
      PROVE  LocksInv'
  <2>1. CASE Grant(p)
    BY <2>1, GrantKeeps
  <2>2. CASE p \in Reader /\ (ScanUser(p) \/ ReadStep(p))
    BY <2>2, ReaderKeeps
  <2>3. CASE p \in Thread /\ (ThreadBegin(p) \/ ThreadStep(p))
    BY <2>3, ThreadKeeps
  <2>4. CASE p \in {Janitor, Logger} /\ (SweepStart(p) \/ SweepStep(p))
    BY <2>4, SweepKeeps
  <2>. QED
    BY <1>1, <2>1, <2>2, <2>3, <2>4 DEF Proceed, Step, Begin
<1>2. CASE UNCHANGED vars
  <2>1. TypeOK' /\ QueueInv'
    BY <1>2 DEF LocksInv, TypeOK, QueueInv, vars
  <2>2. ASSUME NEW p \in Proc
        PROVE  Local(p)'
    <3>1. ReaderInv(p) => ReaderInv(p)'
      BY <1>2 DEF ReaderInv, Only, vars
    <3>2. ThreadInv(p) => ThreadInv(p)'
      BY <1>2 DEF ThreadInv, vars
    <3>3. SweepInv(p) => SweepInv(p)'
      BY <1>2 DEF SweepInv, Only, Kind, Swept, Here, vars
    <3>. QED
      BY <3>1, <3>2, <3>3 DEF LocksInv, Local
  <2>. QED
    BY <2>1, <2>2 DEF LocksInv
<1>. QED
  BY <1>1, <1>2 DEF Next

-----------------------------------------------------------------------------
(* What is asked for is above what is held, so nobody waits in a cycle. *)

LEMMA Ranked ==
    ASSUME LocksAssumption, LocksInv
    PROVE  RankInv
<1>1. SUFFICES ASSUME NEW p \in Proc, want[p] # Nothing, NEW h \in held[p]
               PROVE  Above(want[p][1], h[1])
  BY DEF RankInv
<1>. DEFINE l == want[p][1]
<1>2. TypeOK /\ Local(p)
  BY DEF LocksInv
<1>3. /\ \A x \in TimelineLock : x[1] \in TimelineMap
      /\ \A x \in OfMap("posts") : x[1] = "posts"
      /\ \A x \in OfMap("deleted") : x[1] = "deleted"
      /\ \A m \in TimelineMap : Rank(m) = 0
      /\ Rank("posts") = 2 /\ Rank("deleted") = 1
  BY LockParts DEF OfMap, Rank
<1>4. CASE p \in Reader
  <2>1. ReaderInv(p)
    BY <1>2, <1>4 DEF Local
  <2>2. Only(p, TimelineLock) /\ l \in OfMap("posts") \union OfMap("deleted")
    BY <1>1, <2>1 DEF ReaderInv
  <2>3. Rank(h[1][1]) = 0 /\ Rank(l[1]) \in {1, 2}
    BY <1>1, <1>3, <2>2 DEF Only
  <2>. QED
    BY <2>3 DEF Above
<1>5. CASE p \in Thread
  BY <1>1, <1>2, <1>5 DEF Local, ThreadInv
<1>6. CASE p \in {Janitor, Logger}
  <2>1. SweepInv(p)
    BY <1>2, <1>6 DEF Local
  <2>2. /\ Kind(p) \in {"sort", "trim"} => Swept(p) \in TimelineMap
        /\ Kind(p) = "purge" => Swept(p) = "deleted"
    BY <1>6, <2>1, Jobs DEF SweepInv
  <2>3. job[p].shard \in Nat
    BY <1>1, <1>2 DEF TypeOK
  <2>4. pc[p] \in {"cross", "unstore", "unmark"}
    BY <1>1, <2>1 DEF SweepInv
  <2>5. CASE pc[p] = "cross"
    <3>1. h[1] = <<Swept(p), job[p].shard - 1>> /\ l = <<Swept(p), job[p].shard>>
      BY <1>1, <2>1, <2>5 DEF SweepInv, Only, Here
    <3>2. h[1][1] = l[1] /\ h[1][2] = job[p].shard - 1 /\ l[2] = job[p].shard
      BY <3>1
    <3>. QED
      BY <2>3, <3>2 DEF Above
  <2>6. CASE pc[p] = "unstore"
    <3>1. h[1] = <<Swept(p), job[p].shard>> /\ l \in OfMap("posts") /\ Kind(p) \in {"trim", "purge"}
      BY <1>1, <2>1, <2>6 DEF SweepInv, Only, Here
    <3>2. h[1][1] = Swept(p) /\ l[1] = "posts"
      BY <1>3, <3>1
    <3>3. Rank(h[1][1]) \in {0, 1} /\ Rank(l[1]) = 2
      BY <1>3, <2>2, <3>1, <3>2
    <3>. QED
      BY <3>3 DEF Above
  <2>7. CASE pc[p] = "unmark"
    <3>1. h[1] = <<Swept(p), job[p].shard>> /\ l \in OfMap("deleted") /\ Kind(p) = "trim"
      BY <1>1, <2>1, <2>7 DEF SweepInv, Only, Here
    <3>2. h[1][1] = Swept(p) /\ l[1] = "deleted"
      BY <1>3, <3>1
    <3>3. Rank(h[1][1]) = 0 /\ Rank(l[1]) = 1
      BY <1>3, <2>2, <3>1, <3>2
    <3>. QED
      BY <3>3 DEF Above
  <2>. QED
    BY <2>4, <2>5, <2>6, <2>7
<1>. QED
  BY <1>4, <1>5, <1>6 DEF Proc

LEMMA Acyclic ==
    ASSUME LocksAssumption, LocksInv
    PROVE  NoWaitCycle
<1>1. SUFFICES ASSUME NEW S \in SUBSET Proc, S # {}, \A p \in S : \E q \in S : WaitsFor(p, q)
               PROVE  FALSE
  BY DEF NoWaitCycle
<1>. DEFINE l(p) == want[p][1]
            high(p) == 2 - Rank(l(p)[1])
            far(p) == Shards[l(p)[1]] - l(p)[2]
            place(p) == Position(p, l(p))
<1>2. ASSUME NEW p \in S
      PROVE  /\ want[p] # Nothing
             /\ l(p) \in Lock /\ l(p)[1] \in Map /\ l(p)[2] \in 1 .. Shards[l(p)[1]]
             /\ Shards[l(p)[1]] \in Nat
             /\ high(p) \in Nat /\ far(p) \in Nat /\ place(p) \in Nat
  <2>1. want[p] # Nothing
    BY <1>1 DEF WaitsFor
  <2>2. want[p] \in Lock \X Mode
    BY <2>1 DEF LocksInv, TypeOK
  <2>3. l(p) \in Lock
    BY <2>2
  <2>4. l(p)[1] \in Map /\ l(p)[2] \in 1 .. Shards[l(p)[1]] /\ Shards[l(p)[1]] \in Nat
    BY <2>3, LockParts
  <2>5. high(p) \in Nat
    BY DEF Rank
  <2>6. far(p) \in Nat
    <3>. HIDE DEF l
    <3>. QED
      BY <2>4
  <2>7. place(p) \in Nat
    <3>1. \E i \in DOMAIN queue[l(p)] : queue[l(p)][i] = p
      BY <2>1 DEF LocksInv, QueueInv
    <3>2. Position(p, l(p)) \in DOMAIN queue[l(p)]
      BY <3>1, Zenon DEF Position
    <3>3. queue[l(p)] \in Seq(Proc)
      BY <2>3 DEF LocksInv, TypeOK
    <3>. HIDE DEF l
    <3>. QED
      BY <3>2, <3>3
  <2>. QED
    BY <2>1, <2>3, <2>4, <2>5, <2>6, <2>7
<1>. HIDE DEF l, high, far, place
<1>3. PICK p1 \in S : \A q \in S : high(p1) <= high(q)
  <2>. DEFINE T == {high(q) : q \in S}
  <2>1. T \subseteq Nat /\ T # {}
    BY <1>1, <1>2
  <2>2. \E x \in T : \A y \in T : x <= y
    BY <2>1, LeastNat, Zenon
  <2>. QED
    BY <2>2
<1>. DEFINE S1 == {q \in S : high(q) = high(p1)}
<1>4. PICK p2 \in S1 : \A q \in S1 : far(p2) <= far(q)
  <2>. DEFINE T == {far(q) : q \in S1}
  <2>1. T \subseteq Nat /\ T # {}
    BY <1>2, <1>3
  <2>2. \E x \in T : \A y \in T : x <= y
    BY <2>1, LeastNat, Zenon
  <2>. QED
    BY <2>2
<1>. DEFINE S2 == {q \in S1 : far(q) = far(p2)}
<1>5. PICK p \in S2 : \A q \in S2 : place(p) <= place(q)
  <2>. DEFINE T == {place(q) : q \in S2}
  <2>1. T \subseteq Nat /\ T # {}
    BY <1>2, <1>4
  <2>2. \E x \in T : \A y \in T : x <= y
    BY <2>1, LeastNat, Zenon
  <2>. QED
    BY <2>2
<1>6. /\ p \in S /\ p1 \in S
      /\ \A q \in S : high(p) <= high(q)
      /\ \A q \in S : high(q) = high(p) => far(p) <= far(q)
      /\ \A q \in S : high(q) = high(p) /\ far(q) = far(p) => place(p) <= place(q)
  BY <1>3, <1>4, <1>5
<1>7. PICK q \in S : WaitsFor(p, q)
  BY <1>1, <1>6
<1>8. want[q] # Nothing /\ want[p] # Nothing
  BY <1>2, <1>6
<1>9. CASE \E mode \in Mode : <<l(p), mode>> \in held[q]
  <2>1. PICK mode \in Mode : <<l(p), mode>> \in held[q]
    BY <1>9
  <2>2. Above(l(q), l(p))
    <3>1. \A h \in held[q] : Above(want[q][1], h[1])
      BY <1>8, Ranked DEF RankInv
    <3>. QED
      BY <2>1, <3>1 DEF l
  <2>3. CASE Rank(l(p)[1]) < Rank(l(q)[1])
    BY <1>6, <2>3 DEF high, Rank
  <2>4. CASE l(p)[1] = l(q)[1] /\ l(p)[2] < l(q)[2]
    <3>1. high(q) = high(p)
      BY <2>4 DEF high
    <3>2. far(q) < far(p)
      <4>1. /\ Shards[l(p)[1]] \in Nat /\ l(p)[2] \in Nat /\ l(q)[2] \in Nat
            /\ Shards[l(q)[1]] = Shards[l(p)[1]] /\ l(p)[2] < l(q)[2]
        BY <1>2, <1>6, <2>4
      <4>. QED
        BY <4>1 DEF far
    <3>. QED
      BY <1>2, <1>6, <3>1, <3>2
  <2>. QED
    BY <2>2, <2>3, <2>4 DEF Above
<1>10. CASE l(q) = l(p) /\ Position(q, l(p)) < Position(p, l(p))
  <2>1. high(q) = high(p) /\ far(q) = far(p) /\ place(q) < place(p)
    BY <1>10 DEF high, far, place
  <2>. QED
    BY <1>2, <1>6, <2>1
<1>. QED
  BY <1>7, <1>9, <1>10 DEF WaitsFor, l

-----------------------------------------------------------------------------
\* The values of every variable stay in their sets, whatever the locks do.
THEOREM LocksTypeCorrect == Spec => []TypeOK
<1>1. LocksAssumption
  BY LocksAssumption
<1>2. Init => LocksInv
  BY <1>1, LocksInit
<1>3. LocksInv /\ [Next]_vars => LocksInv'
  BY <1>1, LocksNext
<1>4. LocksInv => TypeOK
  BY DEF LocksInv
<1>. QED
  BY <1>2, <1>3, <1>4, PTL DEF Spec

\* No group of scans, listeners and sweeps of post_store.rs waits for each
\* other's shard locks in a cycle, for any number of them, of timeline maps and
\* of shards, with readers queueing behind waiting writers.
THEOREM NoWaitCycleCorrect == Spec => []NoWaitCycle
<1>1. LocksAssumption
  BY LocksAssumption
<1>2. Init => LocksInv
  BY <1>1, LocksInit
<1>3. LocksInv /\ [Next]_vars => LocksInv'
  BY <1>1, LocksNext
<1>4. LocksInv => NoWaitCycle
  BY <1>1, Acyclic
<1>. QED
  BY <1>2, <1>3, <1>4, PTL DEF Spec
=============================================================================
