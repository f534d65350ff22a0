--------------------------- MODULE PostStoreProofs ---------------------------
(***************************************************************************)
(* Proofs about PostStore, for any posts, users, threads, readers, times   *)
(* and batches.  Four parts, each resting on those before it:              *)
(*    StructInv, the inductive core: the types, what the cursors of        *)
(*        threads and janitor point to, the exclusion of the locks (a      *)
(*        timeline being read is not changed by anybody);                  *)
(*    DeletionInv: what was deleted is not served (ServedFresh);           *)
(*    FeedInv: every step is a step of PostFeed or a stutter;              *)
(*    ReachInv: posts and references stay in step (NoOrphan,               *)
(*        LiveReachable).                                                  *)
(***************************************************************************)
EXTENDS PostStore, FiniteSetTheorems, TLAPS

\* A thread inside an operation has a post, a trimming janitor a key and,
\* after a pop, the popped post.
CursorInv ==
    /\ \A t \in Thread : pc[t] # "next" => cur[t] \in Post
    /\ jpc \in {"pop", "unstore", "unmark"} => jkey \in Key
    /\ jpc \in {"unstore", "unmark"} => jpop \in Post

\* A scan stays within its timeline, which the janitor is not trimming.
LockInv ==
    \A r \in Reader : rd[r].pc # "idle" =>
        /\ rd[r].user \in User
        /\ rd[r].i <= Len(timeline[rd[r].map][rd[r].user])
        /\ rd[r].pc = "copied" => rd[r].i > 0
        /\ ~TrimLocked(rd[r].map, rd[r].user)

StructInv == TypeOK /\ CursorInv /\ LockInv

-----------------------------------------------------------------------------
(* Timelines. *)

\* The length of a deque is a natural number.
LEMMA LengthType ==
    ASSUME NEW S, NEW s \in Seq(S)
    PROVE  Len(s) \in Nat
OBVIOUS

\* A sorted timeline has the type and the length of the original.
LEMMA SortingsType ==
    ASSUME NEW s \in Seq(Tiny), NEW q \in Sortings(s)
    PROVE  q \in Seq(Tiny) /\ Len(q) = Len(s)
<1>1. PICK f \in [1 .. Len(s) -> 1 .. Len(s)] : q = [i \in 1 .. Len(s) |-> s[f[i]]]
  BY DEF Sortings
<1>2. \A i \in 1 .. Len(s) : s[f[i]] \in Tiny
  BY <1>1
<1>. QED  BY <1>1, <1>2

\* Replacing one timeline by a typed one keeps the type, and changes no other.
LEMMA TimelineUpdate ==
    ASSUME timeline \in [Map -> [Key -> Seq(Tiny)]],
           NEW m \in Map, NEW k \in Key, NEW s \in Seq(Tiny),
           timeline' = [timeline EXCEPT ![m][k] = s]
    PROVE  /\ timeline' \in [Map -> [Key -> Seq(Tiny)]]
           /\ timeline'[m][k] = s
           /\ \A n \in Map, l \in Key :
                n # m \/ l # k => timeline'[n][l] = timeline[n][l]
<1>1. [timeline[m] EXCEPT ![k] = s] \in [Key -> Seq(Tiny)]
  OBVIOUS
<1>2. timeline' = [timeline EXCEPT ![m] = [timeline[m] EXCEPT ![k] = s]]
  OBVIOUS
<1>. QED  BY <1>1, <1>2

\* push_back appends one typed entry to a timeline nobody holds.
LEMMA PushBackType ==
    ASSUME timeline \in [Map -> [Key -> Seq(Tiny)]],
           NEW m \in Map, NEW k \in Key, NEW e \in Tiny, PushBack(m, k, e)
    PROVE  /\ timeline' \in [Map -> [Key -> Seq(Tiny)]]
           /\ timeline'[m][k] = Append(timeline[m][k], e)
           /\ \A n \in Map, l \in Key :
                n # m \/ l # k => timeline'[n][l] = timeline[n][l]
           /\ \A n \in Map, l \in Key : Len(timeline'[n][l]) >= Len(timeline[n][l])
<1>1. Append(timeline[m][k], e) \in Seq(Tiny)
  OBVIOUS
<1>2. timeline' = [timeline EXCEPT ![m][k] = Append(timeline[m][k], e)]
  BY DEF PushBack
<1>3. /\ timeline' \in [Map -> [Key -> Seq(Tiny)]]
      /\ timeline'[m][k] = Append(timeline[m][k], e)
      /\ \A n \in Map, l \in Key : n # m \/ l # k => timeline'[n][l] = timeline[n][l]
  BY <1>1, <1>2, TimelineUpdate
<1>4. \A n \in Map, l \in Key : Len(timeline'[n][l]) >= Len(timeline[n][l])
  <2> SUFFICES ASSUME NEW n \in Map, NEW l \in Key
               PROVE  Len(timeline'[n][l]) >= Len(timeline[n][l])
    OBVIOUS
  <2>1. timeline[n][l] \in Seq(Tiny)
    OBVIOUS
  <2>2. CASE n = m /\ l = k
    BY <2>1, <2>2, <1>3
  <2>3. CASE n # m \/ l # k
    BY <2>1, <2>3, <1>3
  <2>. QED  BY <2>2, <2>3
<1>. QED  BY <1>3, <1>4

\* The entry of a post is a TinyPost, and goes to a map and a user that exist.
LEMMA EntryType ==
    ASSUME NEW p \in Post
    PROVE  /\ Entry(p) \in Tiny /\ MainMap(p) \in Map
           /\ AuthorOf[p] \in User /\ AuthorOf[p] \in Key
BY PostsAssumption DEF Entry, Tiny, MainMap, Map, Key

-----------------------------------------------------------------------------
(* StructInv is inductive: the listener threads. *)

\* A step that leaves the timelines, the janitor and the scans alone keeps
\* the locks.
LEMMA LocksUnchanged ==
    ASSUME LockInv, UNCHANGED <<timeline, janitor, rd>>
    PROVE  LockInv'
BY DEF LockInv, TrimLocked, janitor

\* A push keeps them too: it only makes a timeline longer.
LEMMA LocksPush ==
    ASSUME TypeOK, LockInv, NEW m \in Map, NEW k \in Key, NEW e \in Tiny,
           PushBack(m, k, e), UNCHANGED <<janitor, rd>>
    PROVE  LockInv'
<1> SUFFICES ASSUME NEW r \in Reader, rd[r].pc # "idle"
             PROVE  rd[r].i <= Len(timeline'[rd[r].map][rd[r].user])
  BY DEF LockInv, TrimLocked, janitor
<1>1. /\ rd[r].map \in Map /\ rd[r].user \in Key /\ rd[r].i \in Nat
      /\ rd[r].i <= Len(timeline[rd[r].map][rd[r].user])
  BY DEF TypeOK, LockInv, Key, Scan
<1>2. /\ timeline'[rd[r].map][rd[r].user] \in Seq(Tiny)
      /\ timeline[rd[r].map][rd[r].user] \in Seq(Tiny)
      /\ Len(timeline'[rd[r].map][rd[r].user]) >= Len(timeline[rd[r].map][rd[r].user])
  <2>1. timeline \in [Map -> [Key -> Seq(Tiny)]]
    BY DEF TypeOK
  <2>. QED  BY <1>1, <2>1, PushBackType
<1>3. /\ Len(timeline'[rd[r].map][rd[r].user]) \in Nat
      /\ Len(timeline[rd[r].map][rd[r].user]) \in Nat
  BY <1>2, LengthType, Zenon
<1>4. \A a, b, c \in Nat : a <= b /\ c >= b => a <= c
  OBVIOUS
<1>. QED  BY <1>1, <1>2, <1>3, <1>4, Zenon

\* A batch carries posts and stamped deletions.
LEMMA BeginBatchStruct ==
    ASSUME StructInv, NEW t \in Thread, NEW C \in SUBSET Post, NEW D \in SUBSET DeleteEvents,
           BeginBatch(t, C, D)
    PROVE  StructInv'
<1>1. D \subseteq Tiny /\ Ids(D) \subseteq Post
  BY DEF DeleteEvents, Tiny, Ids, TypeOK, StructInv
<1>2. TypeOK'
  BY <1>1 DEF BeginBatch, StructInv, TypeOK, store, janitor
<1>3. CursorInv'
  BY DEF BeginBatch, StructInv, CursorInv, janitor
<1>. QED  BY <1>2, <1>3, LocksUnchanged DEF BeginBatch, StructInv, store

\* InsertCheck picks a post of the batch.
LEMMA InsertCheckStruct ==
    ASSUME StructInv, NEW t \in Thread, NEW p \in Post, InsertCheck(t, p)
    PROVE  StructInv'
<1>1. TypeOK'
  BY DEF InsertCheck, StructInv, TypeOK, store, janitor, history
<1>2. CursorInv'
  BY DEF InsertCheck, StructInv, CursorInv, TypeOK, janitor
<1>. QED  BY <1>1, <1>2, LocksUnchanged DEF InsertCheck, StructInv, store

\* InsertPut stores the current post.
LEMMA InsertPutStruct ==
    ASSUME StructInv, NEW t \in Thread, InsertPut(t)
    PROVE  StructInv'
<1>1. TypeOK'
  BY DEF InsertPut, StructInv, TypeOK, CursorInv, janitor, history
<1>2. CursorInv'
  BY DEF InsertPut, StructInv, CursorInv, TypeOK, janitor
<1>. QED  BY <1>1, <1>2, LocksUnchanged DEF InsertPut, StructInv

\* InsertPush makes the author's timeline longer.
LEMMA InsertPushStruct ==
    ASSUME StructInv, NEW t \in Thread, InsertPush(t)
    PROVE  StructInv'
<1>1. cur[t] \in Post
  BY DEF InsertPush, StructInv, CursorInv
<1>2. /\ MainMap(cur[t]) \in Map /\ AuthorOf[cur[t]] \in Key /\ Entry(cur[t]) \in Tiny
      /\ PushBack(MainMap(cur[t]), AuthorOf[cur[t]], Entry(cur[t]))
  BY <1>1, EntryType DEF InsertPush
<1>3. timeline' \in [Map -> [Key -> Seq(Tiny)]]
  BY <1>2, PushBackType DEF StructInv, TypeOK
<1>4. TypeOK'
  BY <1>3 DEF InsertPush, StructInv, TypeOK, janitor, history
<1>5. CursorInv'
  BY DEF InsertPush, StructInv, CursorInv, TypeOK, janitor
<1>6. LockInv'
  BY <1>2, LocksPush DEF InsertPush, StructInv
<1>. QED  BY <1>4, <1>5, <1>6 DEF StructInv

\* InsertVideo makes the author's video timeline longer, or changes nothing.
LEMMA InsertVideoStruct ==
    ASSUME StructInv, NEW t \in Thread, InsertVideo(t)
    PROVE  StructInv'
<1>1. cur[t] \in Post
  BY DEF InsertVideo, StructInv, CursorInv
<1>2. /\ "video" \in Map /\ AuthorOf[cur[t]] \in Key /\ Entry(cur[t]) \in Tiny
  BY <1>1, EntryType DEF Map
<1>3. timeline' \in [Map -> [Key -> Seq(Tiny)]]
  BY <1>2, PushBackType DEF InsertVideo, StructInv, TypeOK
<1>4. TypeOK'
  BY <1>1, <1>3 DEF InsertVideo, StructInv, TypeOK, janitor
<1>5. CursorInv'
  BY DEF InsertVideo, StructInv, CursorInv, TypeOK, janitor
<1>6. LockInv'
  BY <1>2, LocksPush, LocksUnchanged DEF InsertVideo, StructInv
<1>. QED  BY <1>4, <1>5, <1>6 DEF StructInv

\* DeleteRemove makes the deleted post the current one.
LEMMA DeleteRemoveStruct ==
    ASSUME StructInv, NEW t \in Thread, NEW e \in dels[t], DeleteRemove(t, e)
    PROVE  StructInv'
<1>1. e.id \in Post
  BY DEF StructInv, TypeOK, Tiny
<1>2. TypeOK'
  BY <1>1 DEF DeleteRemove, StructInv, TypeOK, janitor, history
<1>3. CursorInv'
  BY <1>1 DEF DeleteRemove, StructInv, CursorInv, TypeOK, janitor
<1>. QED  BY <1>2, <1>3, LocksUnchanged DEF DeleteRemove, StructInv

\* DeleteMark marks the current post.
LEMMA DeleteMarkStruct ==
    ASSUME StructInv, NEW t \in Thread, DeleteMark(t)
    PROVE  StructInv'
<1>1. TypeOK'
  BY DEF DeleteMark, StructInv, TypeOK, CursorInv, janitor, history
<1>2. CursorInv'
  BY DEF DeleteMark, StructInv, CursorInv, TypeOK, janitor
<1>. QED  BY <1>1, <1>2, LocksUnchanged DEF DeleteMark, StructInv

\* DeleteBury makes the tombstones' timeline longer.
LEMMA DeleteBuryStruct ==
    ASSUME StructInv, NEW t \in Thread, NEW e \in dels[t], DeleteBury(t, e)
    PROVE  StructInv'
<1>1. cur[t] \in Post /\ e \in Tiny
  BY DEF DeleteBury, StructInv, CursorInv, TypeOK
<1>2. "original" \in Map /\ DeleteKey \in Key
  BY DEF Map, Key
<1>3. timeline' \in [Map -> [Key -> Seq(Tiny)]]
  BY <1>1, <1>2, PushBackType DEF DeleteBury, StructInv, TypeOK
<1>4. TypeOK'
  BY <1>1, <1>3 DEF DeleteBury, StructInv, TypeOK, janitor
<1>5. CursorInv'
  BY DEF DeleteBury, StructInv, CursorInv, TypeOK, janitor
<1>6. LockInv'
  BY <1>1, <1>2, LocksPush DEF DeleteBury, StructInv
<1>. QED  BY <1>4, <1>5, <1>6 DEF StructInv

-----------------------------------------------------------------------------
(* The janitor. *)

\* What an iteration has still to visit are keys or posts.
LEMMA PassesType ==
    ASSUME TypeOK, NEW k, NEW present, Passes(k, present)
    PROVE  jleft' \in SUBSET (Key \union Post)
BY DEF Passes, TypeOK

\* finalize_init begins with the keys of the first map.
LEMMA FinalizeStartStruct ==
    ASSUME StructInv, FinalizeStart
    PROVE  StructInv'
<1>1. KeysOf(jmap) \subseteq Key
  BY DEF KeysOf, Key
<1>2. TypeOK'
  BY <1>1 DEF FinalizeStart, StructInv, TypeOK, store, thread, history
<1>3. CursorInv' /\ LockInv'
  BY DEF FinalizeStart, StructInv, CursorInv, LockInv, TrimLocked, store, thread
<1>. QED  BY <1>2, <1>3 DEF StructInv

\* Sorting a timeline keeps its length, hence the scans within it.
LEMMA SortVisitStruct ==
    ASSUME StructInv, NEW k \in Key, SortVisit(k)
    PROVE  StructInv'
<1>1. PICK q \in Sortings(timeline[jmap][k]) : timeline' = [timeline EXCEPT ![jmap][k] = q]
  BY DEF SortVisit
<1>2. jmap \in Map /\ timeline[jmap][k] \in Seq(Tiny)
  BY DEF StructInv, TypeOK
<1>3. q \in Seq(Tiny) /\ Len(q) = Len(timeline[jmap][k])
  BY <1>2, SortingsType
<1>4. /\ timeline' \in [Map -> [Key -> Seq(Tiny)]]
      /\ timeline'[jmap][k] = q
      /\ \A n \in Map, l \in Key : n # jmap \/ l # k => timeline'[n][l] = timeline[n][l]
  BY <1>1, <1>2, <1>3, TimelineUpdate DEF StructInv, TypeOK
<1>5. TypeOK'
  BY <1>4, PassesType DEF SortVisit, StructInv, TypeOK, thread, history
<1>6. CursorInv'
  BY DEF SortVisit, StructInv, CursorInv, thread
<1>7. \A n \in Map, l \in Key : Len(timeline'[n][l]) = Len(timeline[n][l])
  BY <1>3, <1>4
<1>8. LockInv'
  BY <1>7 DEF SortVisit, StructInv, TypeOK, LockInv, TrimLocked, Scan, Key
<1>. QED  BY <1>5, <1>6, <1>8 DEF StructInv

\* The sweep goes on to a map that exists.
LEMMA SweepNextMapStruct ==
    ASSUME StructInv, SweepNextMap
    PROVE  StructInv'
<1>1. NextMap(jmap) \in Map /\ \A m : KeysOf(m) \subseteq Key
  BY DEF KeysOf, Key, NextMap, Map
<1>2. TypeOK'
  BY <1>1 DEF SweepNextMap, StructInv, TypeOK, store, thread, history
<1>3. CursorInv' /\ LockInv'
  BY DEF SweepNextMap, StructInv, CursorInv, LockInv, TrimLocked, store, thread
<1>. QED  BY <1>2, <1>3 DEF StructInv

\* A trim begins with the first map.
LEMMA TrimStartStruct ==
    ASSUME StructInv, TrimStart
    PROVE  StructInv'
<1>1. "original" \in Map /\ KeysOf("original") \subseteq Key
  BY DEF KeysOf, Key, Map
<1>2. TypeOK'
  BY <1>1 DEF TrimStart, StructInv, TypeOK, store, thread, history
<1>3. CursorInv' /\ LockInv'
  BY DEF TrimStart, StructInv, CursorInv, LockInv, TrimLocked, store, thread
<1>. QED  BY <1>2, <1>3 DEF StructInv

\* TrimVisit locks a timeline nobody reads.
LEMMA TrimVisitStruct ==
    ASSUME StructInv, NEW k \in Key, TrimVisit(k)
    PROVE  StructInv'
<1>1. TypeOK'
  BY PassesType DEF TrimVisit, StructInv, TypeOK, store, thread, history
<1>2. CursorInv'
  BY DEF TrimVisit, StructInv, CursorInv, thread
<1>3. LockInv'
  BY DEF TrimVisit, StructInv, LockInv, TrimLocked, ReadLocked, store
<1>. QED  BY <1>1, <1>2, <1>3 DEF StructInv

\* TrimPop shortens the one timeline the janitor holds, which nobody reads.
LEMMA TrimPopStruct ==
    ASSUME StructInv, TrimPop
    PROVE  StructInv'
<1>1. /\ jmap \in Map /\ jkey \in Key
      /\ timeline[jmap][jkey] \in Seq(Tiny) /\ timeline[jmap][jkey] # <<>>
      /\ jpc = "pop"
  BY DEF TrimPop, StructInv, TypeOK, CursorInv
<1>2. Front \in Tiny /\ Tail(timeline[jmap][jkey]) \in Seq(Tiny)
  BY <1>1 DEF Front
<1>3. timeline' = [timeline EXCEPT ![jmap][jkey] = Tail(timeline[jmap][jkey])]
  BY DEF TrimPop
<1>4. /\ timeline' \in [Map -> [Key -> Seq(Tiny)]]
      /\ \A n \in Map, l \in Key : n # jmap \/ l # jkey => timeline'[n][l] = timeline[n][l]
  BY <1>1, <1>2, <1>3, TimelineUpdate DEF StructInv, TypeOK
<1>5. Front.id \in Post
  BY <1>2 DEF Tiny
<1>6. TypeOK'
  BY <1>4, <1>5 DEF TrimPop, StructInv, TypeOK, thread
<1>7. CursorInv'
  BY <1>1, <1>5 DEF TrimPop, StructInv, CursorInv, thread
<1>8. LockInv'
  BY <1>1, <1>4 DEF TrimPop, StructInv, TypeOK, LockInv, TrimLocked, Scan, Key
<1>. QED  BY <1>6, <1>7, <1>8 DEF StructInv

\* TrimUnstore removes a post and keeps the lock.
LEMMA TrimUnstoreStruct ==
    ASSUME StructInv, TrimUnstore
    PROVE  StructInv'
<1>1. TypeOK'
  BY DEF TrimUnstore, StructInv, TypeOK, thread, history
<1>2. CursorInv'
  BY DEF TrimUnstore, StructInv, CursorInv, thread
<1>3. LockInv'
  BY DEF TrimUnstore, StructInv, LockInv, TrimLocked
<1>. QED  BY <1>1, <1>2, <1>3 DEF StructInv

\* TrimUnmark removes a mark and keeps the lock.
LEMMA TrimUnmarkStruct ==
    ASSUME StructInv, TrimUnmark
    PROVE  StructInv'
<1>1. TypeOK'
  BY DEF TrimUnmark, StructInv, TypeOK, thread, history
<1>2. CursorInv' /\ LockInv'
  BY DEF TrimUnmark, StructInv, CursorInv, LockInv, TrimLocked, thread
<1>. QED  BY <1>1, <1>2 DEF StructInv

\* TrimLeave releases the timeline.
LEMMA TrimLeaveStruct ==
    ASSUME StructInv, TrimLeave
    PROVE  StructInv'
<1>1. TypeOK'
  BY DEF TrimLeave, StructInv, TypeOK, store, thread, history
<1>2. CursorInv' /\ LockInv'
  BY DEF TrimLeave, StructInv, CursorInv, LockInv, TrimLocked, store, thread
<1>. QED  BY <1>1, <1>2 DEF StructInv

\* The end of a trim holds no timeline.
LEMMA TrimEndStruct ==
    ASSUME StructInv, TrimEnd
    PROVE  StructInv'
<1>1. TypeOK'
  BY DEF TrimEnd, StructInv, TypeOK, store, thread, history, Map
<1>2. CursorInv' /\ LockInv'
  BY DEF TrimEnd, StructInv, CursorInv, LockInv, TrimLocked, store, thread
<1>. QED  BY <1>1, <1>2 DEF StructInv

\* PurgeVisit removes a post.
LEMMA PurgeVisitStruct ==
    ASSUME StructInv, NEW p \in Post, PurgeVisit(p)
    PROVE  StructInv'
<1>1. TypeOK'
  BY PassesType DEF PurgeVisit, StructInv, TypeOK, thread, history
<1>2. CursorInv' /\ LockInv'
  BY DEF PurgeVisit, StructInv, CursorInv, LockInv, TrimLocked, thread
<1>. QED  BY <1>1, <1>2 DEF StructInv

\* The end of the purge makes the store ready.
LEMMA PurgeEndStruct ==
    ASSUME StructInv, PurgeEnd
    PROVE  StructInv'
<1>1. TypeOK'
  BY DEF PurgeEnd, StructInv, TypeOK, store, thread, history
<1>2. CursorInv' /\ LockInv'
  BY DEF PurgeEnd, StructInv, CursorInv, LockInv, TrimLocked, store, thread
<1>. QED  BY <1>1, <1>2 DEF StructInv

-----------------------------------------------------------------------------
(* The readers and the clock. *)

\* The entry a scan looks at names a post.
LEMMA ScannedType ==
    ASSUME StructInv, NEW r \in Reader, rd[r].pc # "idle", rd[r].i > 0
    PROVE  Scanned(r) \in Post
<1>1. /\ rd[r].map \in Map /\ rd[r].user \in Key /\ rd[r].i \in Nat
      /\ rd[r].i <= Len(timeline[rd[r].map][rd[r].user])
      /\ timeline[rd[r].map][rd[r].user] \in Seq(Tiny)
  BY DEF StructInv, TypeOK, LockInv, Key, Scan
<1>2. timeline[rd[r].map][rd[r].user][rd[r].i] \in Tiny
  BY <1>1
<1>. QED  BY <1>2 DEF Scanned, Tiny

\* ReadStart locks a timeline the janitor is not trimming.
LEMMA ReadStartStruct ==
    ASSUME StructInv, NEW r \in Reader, NEW m \in Map, NEW u \in User, ReadStart(r, m, u)
    PROVE  StructInv'
<1>1. timeline[m][u] \in Seq(Tiny)
  BY DEF StructInv, TypeOK, Key
<1>2. Len(timeline[m][u]) \in Nat
  BY <1>1
<1>3. TypeOK'
  BY <1>2 DEF ReadStart, StructInv, TypeOK, Scan, store, thread, janitor, history
<1>4. CursorInv'
  BY DEF ReadStart, StructInv, CursorInv, thread, janitor
<1>5. LockInv'
  BY <1>2 DEF ReadStart, StructInv, TypeOK, LockInv, TrimLocked, Scan, store, janitor
<1>. QED  BY <1>3, <1>4, <1>5 DEF StructInv

\* A scan that moves on within its timeline keeps everything.
LEMMA ScanUpdateStruct ==
    ASSUME StructInv, UNCHANGED <<store, thread, janitor, now, batches, history>>,
           NEW r \in Reader, NEW s \in Scan, rd' = [rd EXCEPT ![r] = s], rd[r].pc # "idle",
           s.map = rd[r].map, s.user = rd[r].user, s.i <= rd[r].i,
           s.pc = "copied" => s.i > 0
    PROVE  StructInv'
<1>1. TypeOK'
  BY DEF StructInv, TypeOK, store, thread, janitor, history
<1>2. CursorInv'
  BY DEF StructInv, CursorInv, thread, janitor
<1>3. LockInv'
  <2> SUFFICES ASSUME NEW x \in Reader, rd'[x].pc # "idle"
               PROVE  /\ rd'[x].user \in User
                      /\ rd'[x].i <= Len(timeline[rd'[x].map][rd'[x].user])
                      /\ rd'[x].pc = "copied" => rd'[x].i > 0
                      /\ ~TrimLocked(rd'[x].map, rd'[x].user)
    BY DEF LockInv, TrimLocked, store, janitor
  <2>1. rd'[x] = IF x = r THEN s ELSE rd[x]
    BY DEF StructInv, TypeOK
  <2>2. CASE x # r
    BY <2>1, <2>2 DEF StructInv, LockInv
  <2>3. CASE x = r
    <3>1. /\ rd[r].user \in User /\ rd[r].map \in Map /\ rd[r].i \in Nat /\ s.i \in Nat
          /\ rd[r].i <= Len(timeline[rd[r].map][rd[r].user])
          /\ ~TrimLocked(rd[r].map, rd[r].user)
      BY DEF StructInv, LockInv, TypeOK, Scan
    <3>2. timeline[rd[r].map][rd[r].user] \in Seq(Tiny)
      BY <3>1 DEF StructInv, TypeOK, Key
    <3>3. Len(timeline[rd[r].map][rd[r].user]) \in Nat
      BY <3>2, LengthType, Zenon
    <3>4. s.i <= Len(timeline[rd[r].map][rd[r].user])
      BY <3>1, <3>3
    <3>. QED  BY <2>1, <2>3, <3>1, <3>4
  <2>. QED  BY <2>2, <2>3
<1>. QED  BY <1>1, <1>2, <1>3 DEF StructInv

\* A scan that goes on to the next entry stays a scan.
LEMMA AdvanceType ==
    ASSUME NEW s \in Scan, s.i > 0, NEW found \in SUBSET Post
    PROVE  /\ Advance(s, found) \in Scan
           /\ Advance(s, found).pc = "scan"
           /\ Advance(s, found).map = s.map /\ Advance(s, found).user = s.user
           /\ Advance(s, found).i = s.i - 1 /\ Advance(s, found).i <= s.i
           /\ Advance(s, found).before = s.before
           /\ Advance(s, found).served = s.served \union found
<1>1. s.i - 1 \in Nat /\ s.i - 1 <= s.i /\ s.served \union found \in SUBSET Post
  BY DEF Scan
<1>2. [s EXCEPT !.pc = "scan"] \in Scan
  BY DEF Scan
<1>3. [s EXCEPT !.pc = "scan", !.i = s.i - 1] \in Scan
  BY <1>1, <1>2 DEF Scan
<1>4. Advance(s, found) = [s EXCEPT !.pc = "scan", !.i = s.i - 1, !.served = s.served \union found]
  BY DEF Scan, Advance
<1>. QED  BY <1>1, <1>3, <1>4 DEF Scan

\* A scan moves towards the front of its timeline.
LEMMA ReadStepStruct ==
    ASSUME StructInv, NEW r \in Reader, ReadStep(r)
    PROVE  StructInv'
<1>1. UNCHANGED <<store, thread, janitor, now, batches, history>>
  BY DEF ReadStep, ReadCopy, ReadCheck, ReadEnd
<1>2. CursorInv'
  BY <1>1 DEF StructInv, CursorInv, thread, janitor
<1>3. CASE ReadCopy(r)
  <2>1. rd[r] \in Scan /\ rd[r].pc = "scan" /\ rd[r].i > 0
    BY <1>3 DEF ReadCopy, StructInv, TypeOK
  <2> DEFINE s == IF Scanned(r) \in posts THEN [rd[r] EXCEPT !.pc = "copied"]
                                          ELSE Advance(rd[r], {})
  <2>2. rd' = [rd EXCEPT ![r] = s]
    BY <1>3 DEF ReadCopy, StructInv, TypeOK
  <2>3. /\ s \in Scan /\ s.map = rd[r].map /\ s.user = rd[r].user /\ s.pc # "idle"
        /\ s.i <= rd[r].i /\ (s.pc = "copied" => s.i > 0)
    <3>1. CASE Scanned(r) \in posts
      BY <2>1, <3>1 DEF Scan
    <3>2. CASE Scanned(r) \notin posts
      BY <2>1, <3>2, AdvanceType
    <3>. QED  BY <3>1, <3>2
  <2> HIDE DEF s
  <2>. QED  BY <1>1, <2>1, <2>2, <2>3, ScanUpdateStruct
<1>4. CASE ReadCheck(r)
  <2>1. rd[r] \in Scan /\ rd[r].pc = "copied" /\ rd[r].i > 0 /\ Scanned(r) \in Post
    BY <1>4, ScannedType DEF ReadCheck, StructInv, TypeOK, LockInv
  <2> DEFINE s == Advance(rd[r], {Scanned(r)} \ deleted)
  <2>2. rd' = [rd EXCEPT ![r] = s]
    BY <1>4 DEF ReadCheck
  <2>3. /\ s \in Scan /\ s.map = rd[r].map /\ s.user = rd[r].user /\ s.pc = "scan"
        /\ s.i <= rd[r].i
    BY <2>1, AdvanceType
  <2> HIDE DEF s
  <2>. QED  BY <1>1, <2>1, <2>2, <2>3, ScanUpdateStruct
<1>5. CASE ReadEnd(r)
  <2>1. TypeOK'
    BY <1>1, <1>5 DEF ReadEnd, NoScan, Scan, Map, StructInv, TypeOK, store, thread, janitor, history
  <2>2. LockInv'
    BY <1>1, <1>5 DEF ReadEnd, NoScan, StructInv, TypeOK, LockInv, TrimLocked, store, janitor
  <2>. QED  BY <1>2, <2>1, <2>2 DEF StructInv
<1>. QED  BY <1>3, <1>4, <1>5 DEF ReadStep

\* The clock only moves the time.
LEMMA TickStruct ==
    ASSUME StructInv, Tick
    PROVE  StructInv'
<1>1. TypeOK'
  BY DEF Tick, StructInv, TypeOK, store, thread, janitor, history
<1>2. CursorInv'
  BY DEF Tick, StructInv, CursorInv, thread, janitor
<1>. QED  BY <1>1, <1>2, LocksUnchanged DEF Tick, StructInv, store

-----------------------------------------------------------------------------
\* The empty store satisfies StructInv.
LEMMA StructInit == Init => StructInv
<1> SUFFICES ASSUME Init PROVE StructInv
  OBVIOUS
<1>1. <<>> \in Seq(Tiny)
  OBVIOUS
<1>2. timeline \in [Map -> [Key -> Seq(Tiny)]]
  BY <1>1 DEF Init
<1>3. TypeOK
  BY <1>2 DEF Init, TypeOK, NoScan, Scan, Map
<1>4. CursorInv /\ LockInv
  BY DEF Init, CursorInv, LockInv, NoScan
<1>. QED  BY <1>3, <1>4 DEF StructInv

\* Every step of a listener thread keeps StructInv.
LEMMA ThreadStepStruct ==
    ASSUME StructInv, NEW t \in Thread, ThreadStep(t)
    PROVE  StructInv'
BY InsertCheckStruct, InsertPutStruct, InsertPushStruct, InsertVideoStruct,
   DeleteRemoveStruct, DeleteMarkStruct, DeleteBuryStruct DEF ThreadStep

\* Every step of the janitor keeps StructInv.
LEMMA JanitorStepStruct ==
    ASSUME StructInv, JanitorStep
    PROVE  StructInv'
BY FinalizeStartStruct, SweepNextMapStruct, TrimStartStruct, TrimPopStruct, TrimUnstoreStruct,
   TrimUnmarkStruct, TrimLeaveStruct, TrimEndStruct, PurgeEndStruct, SortVisitStruct,
   TrimVisitStruct, PurgeVisitStruct DEF JanitorStep

\* StructInv is inductive.
LEMMA StructStep == StructInv /\ [Next]_vars => StructInv'
<1> SUFFICES ASSUME StructInv, [Next]_vars PROVE StructInv'
  OBVIOUS
<1>1. CASE Next
  BY <1>1, ThreadStepStruct, BeginBatchStruct, JanitorStepStruct, ReadStartStruct,
     ReadStepStruct, TickStruct DEF Next
<1>2. CASE UNCHANGED vars
  BY <1>2 DEF vars, store, thread, janitor, history, StructInv, TypeOK, CursorInv, LockInv,
              TrimLocked
<1>. QED  BY <1>1, <1>2

\* The locks do their work and every variable keeps its type: in particular a
\* scan never runs past the timeline it holds, whatever is pushed or trimmed.
THEOREM StructCorrect == Spec => []StructInv
BY StructInit, StructStep, PTL DEF Spec

\* Every variable of the store always has its type (PostStore!TypeOK).
THEOREM TypeCorrect == Spec => []TypeOK
<1>1. StructInv => TypeOK
  BY DEF StructInv
<1>. QED  BY <1>1, StructCorrect, PTL

-----------------------------------------------------------------------------
(***************************************************************************)
(* Deleted posts stay hidden.  A tombstone carries a stamp no earlier than *)
(* its post (StampInv), so that what the trimmer pops is spent (PoppedInv) *)
(* and a mark is only ever removed from a spent post (HiddenInv); a scan   *)
(* that began after the deletion can then only serve a spent one (ReadInv).*)
(***************************************************************************)

Stamped(e) == CreatedAt[e.id] <= e.at

StampInv ==
    /\ \A t \in Thread : \A e \in dels[t] : Stamped(e)
    /\ \A m \in Map, k \in Key : \A i \in DOMAIN timeline[m][k] : Stamped(timeline[m][k][i])
    /\ jnow <= now

PoppedInv == jpc \in {"unstore", "unmark"} => jpop \in Spent

HiddenInv ==
    /\ gone \subseteq deleted \union Spent
    /\ \A t \in Thread : pc[t] = "bury" => cur[t] \in deleted \union Spent

ReadInv ==
    \A r \in Reader : /\ rd[r].before \subseteq gone
                      /\ rd[r].served \intersect rd[r].before \subseteq Spent

DeletionInv == StructInv /\ StampInv /\ PoppedInv /\ HiddenInv /\ ReadInv

\* One entry's stamp is checked when it is pushed; popping and sorting only
\* rearrange what is there.
LEMMA StampPush ==
    ASSUME StructInv, StampInv, NEW m \in Map, NEW k \in Key, NEW e \in Tiny, Stamped(e),
           PushBack(m, k, e)
    PROVE  \A n \in Map, l \in Key : \A i \in DOMAIN timeline'[n][l] :
                Stamped(timeline'[n][l][i])
<1> SUFFICES ASSUME NEW n \in Map, NEW l \in Key, NEW i \in DOMAIN timeline'[n][l]
             PROVE  Stamped(timeline'[n][l][i])
  OBVIOUS
<1>1. timeline \in [Map -> [Key -> Seq(Tiny)]]
  BY DEF StructInv, TypeOK
<1>2. /\ timeline'[m][k] = Append(timeline[m][k], e)
      /\ n # m \/ l # k => timeline'[n][l] = timeline[n][l]
  BY <1>1, PushBackType
<1>3. CASE n # m \/ l # k
  BY <1>2, <1>3 DEF StampInv
<1>4. CASE n = m /\ l = k
  <2>1. timeline[m][k] \in Seq(Tiny)
    BY <1>1
  <2>2. CASE i = Len(timeline[m][k]) + 1
    BY <1>2, <1>4, <2>1, <2>2
  <2>3. CASE i # Len(timeline[m][k]) + 1
    <3>1. i \in DOMAIN timeline[m][k] /\ timeline'[m][k][i] = timeline[m][k][i]
      BY <1>2, <1>4, <2>1, <2>3
    <3>. QED  BY <1>4, <3>1 DEF StampInv
  <2>. QED  BY <2>2, <2>3
<1>. QED  BY <1>3, <1>4

\* The entry of a post carries the time of its creation.
LEMMA StampEntry ==
    ASSUME NEW p \in Post
    PROVE  Stamped(Entry(p))
BY PostsAssumption DEF Stamped, Entry

\* Sorting a deque changes no stamp.
LEMMA StampSort ==
    ASSUME StructInv, StampInv, NEW k \in Key, SortVisit(k)
    PROVE  \A n \in Map, l \in Key : \A i \in DOMAIN timeline'[n][l] :
                Stamped(timeline'[n][l][i])
<1>1. /\ jmap \in Map /\ timeline \in [Map -> [Key -> Seq(Tiny)]]
      /\ timeline[jmap][k] \in Seq(Tiny)
  BY DEF StructInv, TypeOK
<1> DEFINE s == timeline[jmap][k]
<1>2. PICK q \in Sortings(s) : timeline' = [timeline EXCEPT ![jmap][k] = q]
  BY DEF SortVisit
<1>3. PICK f \in [1 .. Len(s) -> 1 .. Len(s)] : q = [i \in 1 .. Len(s) |-> s[f[i]]]
  BY <1>2 DEF Sortings
<1>4. q \in Seq(Tiny)
  BY <1>1, <1>2, SortingsType
<1>5. /\ timeline'[jmap][k] = q
      /\ \A n \in Map, l \in Key : n # jmap \/ l # k => timeline'[n][l] = timeline[n][l]
  BY <1>1, <1>2, <1>4, TimelineUpdate
<1>6. \A i \in DOMAIN q : Stamped(q[i])
  <2> SUFFICES ASSUME NEW i \in DOMAIN q
               PROVE  Stamped(q[i])
    OBVIOUS
  <2>1. DOMAIN s = 1 .. Len(s)
    BY <1>1
  <2>2. i \in 1 .. Len(s) /\ q[i] = s[f[i]]
    <3> HIDE DEF s
    <3>. QED  BY <1>3
  <2>3. f[i] \in DOMAIN s
    BY <1>3, <2>1, <2>2
  <2>. QED  BY <1>1, <2>2, <2>3 DEF StampInv
<1>. QED  BY <1>5, <1>6 DEF StampInv

\* The front of a deque is stamped, and popping it changes no other stamp.
LEMMA StampPop ==
    ASSUME StructInv, StampInv, TrimPop
    PROVE  /\ Stamped(Front) /\ Front \in Tiny
           /\ \A n \in Map, l \in Key : \A i \in DOMAIN timeline'[n][l] :
                Stamped(timeline'[n][l][i])
<1>1. /\ jmap \in Map /\ jkey \in Key /\ timeline \in [Map -> [Key -> Seq(Tiny)]]
      /\ timeline[jmap][jkey] \in Seq(Tiny) /\ timeline[jmap][jkey] # <<>>
      /\ timeline' = [timeline EXCEPT ![jmap][jkey] = Tail(timeline[jmap][jkey])]
  BY DEF TrimPop, StructInv, TypeOK, CursorInv
<1> DEFINE s == timeline[jmap][jkey]
<1>2. Tail(s) \in Seq(Tiny) /\ s[1] \in Tiny /\ 1 \in DOMAIN s /\ Head(s) = s[1]
  BY <1>1
<1>3. /\ timeline'[jmap][jkey] = Tail(s)
      /\ \A n \in Map, l \in Key : n # jmap \/ l # jkey => timeline'[n][l] = timeline[n][l]
  BY <1>1, <1>2, TimelineUpdate
<1>4. \A i \in DOMAIN Tail(s) : i + 1 \in DOMAIN s /\ Tail(s)[i] = s[i + 1]
  BY <1>1
<1>5. \A i \in DOMAIN Tail(s) : Stamped(Tail(s)[i])
  BY <1>1, <1>4 DEF StampInv
<1>6. Stamped(Front) /\ Front \in Tiny
  BY <1>1, <1>2 DEF StampInv, Front
<1>. QED  BY <1>3, <1>5, <1>6 DEF StampInv

\* StampInv is inductive: no step makes an entry older than its post.
LEMMA StampStep ==
    ASSUME StructInv, StampInv, [Next]_vars
    PROVE  StampInv'
<1> USE DEF StampInv
<1>1. ASSUME NEW t \in Thread, NEW C \in SUBSET Post, NEW D \in SUBSET DeleteEvents,
             BeginBatch(t, C, D)
      PROVE  StampInv'
  <2>1. \A e \in D : Stamped(e)
    BY DEF DeleteEvents, Stamped
  <2>2. UNCHANGED <<timeline, jnow, now>> /\ dels' = [dels EXCEPT ![t] = D]
    BY <1>1 DEF BeginBatch, store, janitor
  <2>. QED  BY <2>1, <2>2 DEF Stamped, StructInv, TypeOK
<1>2. ASSUME NEW t \in Thread, InsertPush(t)
      PROVE  StampInv'
  <2>1. cur[t] \in Post /\ UNCHANGED <<dels, jnow, now>>
    BY <1>2 DEF InsertPush, StructInv, CursorInv, janitor
  <2>2. /\ MainMap(cur[t]) \in Map /\ AuthorOf[cur[t]] \in Key /\ Entry(cur[t]) \in Tiny
        /\ PushBack(MainMap(cur[t]), AuthorOf[cur[t]], Entry(cur[t]))
    BY <1>2, <2>1, EntryType DEF InsertPush
  <2>. QED  BY <2>1, <2>2, StampPush, StampEntry DEF Stamped
<1>3. ASSUME NEW t \in Thread, InsertVideo(t)
      PROVE  StampInv'
  <2>1. cur[t] \in Post /\ UNCHANGED <<dels, jnow, now>>
    BY <1>3 DEF InsertVideo, StructInv, CursorInv, janitor
  <2>2. "video" \in Map /\ AuthorOf[cur[t]] \in Key /\ Entry(cur[t]) \in Tiny
    BY <2>1, EntryType DEF Map
  <2>. QED  BY <1>3, <2>1, <2>2, StampPush, StampEntry DEF Stamped, InsertVideo
<1>4. ASSUME NEW t \in Thread, NEW e \in dels[t], DeleteBury(t, e)
      PROVE  StampInv'
  <2>1. /\ e \in Tiny /\ Stamped(e) /\ "original" \in Map /\ DeleteKey \in Key
        /\ PushBack("original", DeleteKey, e)
        /\ UNCHANGED <<jnow, now>>
        /\ dels' = [dels EXCEPT ![t] = @ \ {e}]
    BY <1>4 DEF DeleteBury, StructInv, TypeOK, Map, Key, janitor
  <2>2. \A u \in Thread : dels'[u] \subseteq dels[u]
    BY <2>1 DEF StructInv, TypeOK
  <2>. QED  BY <2>1, <2>2, StampPush DEF Stamped
<1>5. ASSUME NEW k \in Key, SortVisit(k)
      PROVE  StampInv'
  <2>1. UNCHANGED <<dels, jnow, now>>
    BY <1>5 DEF SortVisit, thread
  <2>. QED  BY <1>5, <2>1, StampSort DEF Stamped
<1>6. CASE TrimPop
  <2>1. UNCHANGED <<dels, jnow, now>>
    BY <1>6 DEF TrimPop, thread
  <2>. QED  BY <1>6, <2>1, StampPop DEF Stamped
<1>7. CASE TrimStart \/ TrimEnd
  BY <1>7 DEF TrimStart, TrimEnd, store, thread, Stamped, StructInv, TypeOK
<1>8. CASE Tick
  BY <1>8 DEF Tick, store, thread, janitor, Stamped, StructInv, TypeOK
<1>9. ASSUME UNCHANGED <<timeline, dels, jnow, now>>
      PROVE  StampInv'
  BY <1>9 DEF Stamped
<1>10. CASE UNCHANGED vars
  BY <1>9, <1>10 DEF vars, store, thread, janitor
<1>11. ASSUME NEW t \in Thread, ThreadStep(t)
       PROVE  StampInv'
  BY <1>2, <1>3, <1>4, <1>9, <1>11
     DEF ThreadStep, InsertCheck, InsertPut, DeleteRemove, DeleteMark, store, janitor
<1>12. CASE JanitorStep
  BY <1>5, <1>6, <1>7, <1>9, <1>12
     DEF JanitorStep, FinalizeStart, SweepNextMap, TrimUnstore, TrimUnmark, TrimLeave,
         PurgeEnd, TrimVisit, PurgeVisit, store, thread
<1>13. ASSUME NEW r \in Reader, ReadStep(r) \/ \E m \in Map, u \in User : ReadStart(r, m, u)
       PROVE  StampInv'
  BY <1>9, <1>13 DEF ReadStep, ReadStart, ReadCopy, ReadCheck, ReadEnd, store, thread, janitor
<1>. QED  BY <1>1, <1>8, <1>10, <1>11, <1>12, <1>13 DEF Next

\* Nothing that is spent ever matters again.
LEMMA SpentGrows ==
    ASSUME StructInv, [Next]_vars
    PROVE  now <= now' /\ early \subseteq early' /\ Spent \subseteq Spent'
<1>1. now' \in Nat /\ now <= now' /\ early \subseteq early'
  <2>1. CASE Tick
    BY <2>1 DEF Tick, history, StructInv, TypeOK
  <2>2. CASE TrimPop
    BY <2>2 DEF TrimPop, StructInv, TypeOK
  <2>3. ASSUME UNCHANGED <<now, early>>
        PROVE  now' \in Nat /\ now <= now' /\ early \subseteq early'
    BY <2>3 DEF StructInv, TypeOK
  <2>4. ASSUME NEW t \in Thread,
               ThreadStep(t) \/ \E C \in SUBSET Post, D \in SUBSET DeleteEvents : BeginBatch(t, C, D)
        PROVE  UNCHANGED <<now, early>>
    BY <2>4 DEF ThreadStep, BeginBatch, InsertCheck, InsertPut, InsertPush, InsertVideo,
                DeleteRemove, DeleteMark, DeleteBury, history
  <2>5. ASSUME JanitorStep, ~TrimPop
        PROVE  UNCHANGED <<now, early>>
    BY <2>5 DEF JanitorStep, FinalizeStart, SortVisit, SweepNextMap, TrimStart, TrimVisit,
                TrimUnstore, TrimUnmark, TrimLeave, TrimEnd, PurgeVisit, PurgeEnd, history
  <2>6. ASSUME NEW r \in Reader, ReadStep(r) \/ \E m \in Map, u \in User : ReadStart(r, m, u)
        PROVE  UNCHANGED <<now, early>>
    BY <2>6 DEF ReadStep, ReadStart, ReadCopy, ReadCheck, ReadEnd, history
  <2>7. CASE UNCHANGED vars
    BY <2>3, <2>7 DEF vars, history
  <2>. QED  BY <2>1, <2>2, <2>3, <2>4, <2>5, <2>6, <2>7 DEF Next
<1>2. \A p \in Post : Expired(p) => Expired(p)'
  BY <1>1, PostsAssumption, BoundsAssumption DEF Expired, StructInv, TypeOK
<1>. QED  BY <1>1, <1>2 DEF Spent

\* What the trimmer pops is spent: past the retention period, or ahead of its clock.
LEMMA PoppedStep ==
    ASSUME StructInv, StampInv, PoppedInv, [Next]_vars
    PROVE  PoppedInv'
<1>1. CASE TrimPop
  <2>1. Stamped(Front) /\ Front \in Tiny /\ Stale(Front) /\ jpop' = Front.id /\ now' = now
    BY <1>1, StampPop DEF TrimPop
  <2>2. Front.id \in Post /\ Front.at \in Nat /\ CreatedAt[Front.id] \in Nat
    BY <2>1, PostsAssumption DEF Tiny
  <2>3. CASE Front.at > jnow
    BY <1>1, <2>1, <2>3 DEF TrimPop, PoppedInv, Spent
  <2>4. CASE ~(Front.at > jnow)
    <3>1. jnow \in Nat /\ now \in Nat /\ jnow <= now
      BY DEF StructInv, TypeOK, StampInv
    <3>2. now - CreatedAt[Front.id] > Retention
      BY <2>1, <2>2, <2>4, <3>1, BoundsAssumption DEF Stale, Age, Stamped
    <3>3. PICK p \in Post : p = Front.id
      BY <2>2
    <3>4. now' - CreatedAt[p] > Retention
      BY <2>1, <3>2, <3>3
    <3>5. p \in Spent'
      BY <3>3, <3>4 DEF Expired, Spent
    <3>. QED  BY <2>1, <3>3, <3>5 DEF PoppedInv
  <2>. QED  BY <2>3, <2>4
<1>2. ASSUME jpop' = jpop, jpc' \in {"unstore", "unmark"} => jpc \in {"unstore", "unmark"}
      PROVE  PoppedInv'
  BY <1>2, SpentGrows DEF PoppedInv
<1>3. ASSUME jpc' \notin {"unstore", "unmark"}
      PROVE  PoppedInv'
  BY <1>3 DEF PoppedInv
<1>4. ASSUME JanitorStep, ~TrimPop
      PROVE  PoppedInv'
  <2>1. CASE TrimUnstore
    BY <1>2, <1>3, <2>1 DEF TrimUnstore
  <2>2. CASE ~TrimUnstore
    BY <1>2, <1>3, <1>4, <2>2
       DEF JanitorStep, FinalizeStart, SortVisit, SweepNextMap, TrimStart, TrimVisit,
           TrimUnmark, TrimLeave, TrimEnd, PurgeVisit, PurgeEnd
  <2>. QED  BY <2>1, <2>2
<1>5. ASSUME NEW t \in Thread,
             ThreadStep(t) \/ \E C \in SUBSET Post, D \in SUBSET DeleteEvents : BeginBatch(t, C, D)
      PROVE  PoppedInv'
  BY <1>2, <1>5 DEF ThreadStep, BeginBatch, InsertCheck, InsertPut, InsertPush, InsertVideo,
                    DeleteRemove, DeleteMark, DeleteBury, janitor
<1>6. ASSUME NEW r \in Reader, ReadStep(r) \/ \E m \in Map, u \in User : ReadStart(r, m, u)
      PROVE  PoppedInv'
  BY <1>2, <1>6 DEF ReadStep, ReadStart, ReadCopy, ReadCheck, ReadEnd, janitor
<1>7. CASE Tick \/ UNCHANGED vars
  BY <1>2, <1>7 DEF Tick, vars, janitor
<1>. QED  BY <1>1, <1>4, <1>5, <1>6, <1>7 DEF Next

\* A mark disappears only with a spent post, so a completed deletion holds.
LEMMA HiddenStep ==
    ASSUME StructInv, StampInv, PoppedInv, HiddenInv, [Next]_vars
    PROVE  HiddenInv'
<1>1. Spent \subseteq Spent'
  BY SpentGrows
<1>2. ASSUME UNCHANGED <<gone, deleted, cur>>,
             \A t \in Thread : pc'[t] = "bury" => pc[t] = "bury"
      PROVE  HiddenInv'
  BY <1>1, <1>2 DEF HiddenInv
<1>3. ASSUME NEW t \in Thread, UNCHANGED <<gone, deleted>>,
             \A u \in Thread : pc'[u] = "bury" => pc[u] = "bury" /\ cur'[u] = cur[u]
      PROVE  HiddenInv'
  BY <1>1, <1>3 DEF HiddenInv
<1>4. ASSUME NEW t \in Thread, DeleteMark(t)
      PROVE  HiddenInv'
  BY <1>1, <1>4 DEF DeleteMark, HiddenInv, history, StructInv, TypeOK
<1>5. ASSUME NEW t \in Thread, NEW e \in dels[t], DeleteBury(t, e)
      PROVE  HiddenInv'
  BY <1>1, <1>5 DEF DeleteBury, HiddenInv, StructInv, TypeOK
<1>6. CASE TrimUnmark
  <2>1. jpop \in Spent
    BY <1>6 DEF TrimUnmark, PoppedInv
  <2>. QED  BY <1>1, <1>6, <2>1 DEF TrimUnmark, HiddenInv, thread, history
<1>7. ASSUME NEW t \in Thread,
             \/ \E p \in Post : InsertCheck(t, p)
             \/ InsertPut(t) \/ InsertPush(t) \/ InsertVideo(t)
             \/ \E e \in dels[t] : DeleteRemove(t, e)
             \/ \E C \in SUBSET Post, D \in SUBSET DeleteEvents : BeginBatch(t, C, D)
      PROVE  HiddenInv'
  BY <1>3, <1>7 DEF InsertCheck, InsertPut, InsertPush, InsertVideo, DeleteRemove, BeginBatch,
                    store, history, StructInv, TypeOK
<1>8. ASSUME JanitorStep, ~TrimUnmark
      PROVE  HiddenInv'
  BY <1>2, <1>8 DEF JanitorStep, FinalizeStart, SortVisit, SweepNextMap, TrimStart, TrimVisit,
           TrimPop, TrimUnstore, TrimLeave, TrimEnd, PurgeVisit, PurgeEnd, store, thread, history
<1>9. ASSUME NEW r \in Reader, ReadStep(r) \/ \E m \in Map, u \in User : ReadStart(r, m, u)
      PROVE  HiddenInv'
  BY <1>2, <1>9 DEF ReadStep, ReadStart, ReadCopy, ReadCheck, ReadEnd, store, thread, history
<1>10. CASE Tick \/ UNCHANGED vars
  BY <1>2, <1>10 DEF Tick, vars, store, thread, history
<1>. QED  BY <1>4, <1>5, <1>6, <1>7, <1>8, <1>9, <1>10 DEF Next, ThreadStep

\* ReadInv is inductive: an entry is served only if its mark is absent when looked up,
\* and the mark of a completed deletion is absent only once the post is spent.
LEMMA ReadInvStep ==
    ASSUME StructInv, HiddenInv, ReadInv, [Next]_vars
    PROVE  ReadInv'
<1>1. Spent \subseteq Spent'
  BY SpentGrows
<1>2. ASSUME rd' = rd, gone \subseteq gone'
      PROVE  ReadInv'
  BY <1>1, <1>2 DEF ReadInv
<1>3. ASSUME NEW r \in Reader, NEW m \in Map, NEW u \in User, ReadStart(r, m, u)
      PROVE  ReadInv'
  BY <1>1, <1>3 DEF ReadStart, ReadInv, history, StructInv, TypeOK
<1>4. ASSUME NEW r \in Reader, ReadEnd(r)
      PROVE  ReadInv'
  BY <1>1, <1>4 DEF ReadEnd, NoScan, ReadInv, history, StructInv, TypeOK
<1>5. ASSUME NEW r \in Reader, NEW s, rd' = [rd EXCEPT ![r] = s], gone' = gone,
             s.before = rd[r].before, s.served \intersect rd[r].before \subseteq Spent
      PROVE  ReadInv'
  BY <1>1, <1>5 DEF ReadInv, StructInv, TypeOK
<1>6. ASSUME NEW r \in Reader, ReadCopy(r)
      PROVE  ReadInv'
  <2>1. rd[r] \in Scan /\ rd[r].i > 0 /\ gone' = gone
    BY <1>6 DEF ReadCopy, StructInv, TypeOK, history
  <2>2. CASE Scanned(r) \in posts
    <3>1. rd' = [rd EXCEPT ![r] = [rd[r] EXCEPT !.pc = "copied"]]
      BY <1>6, <2>2 DEF ReadCopy, StructInv, TypeOK
    <3> DEFINE s == [rd[r] EXCEPT !.pc = "copied"]
    <3>2. s.before = rd[r].before /\ s.served = rd[r].served
      BY <2>1 DEF Scan
    <3> HIDE DEF s
    <3>. QED  BY <1>5, <2>1, <3>1, <3>2 DEF ReadInv, s
  <2>3. CASE Scanned(r) \notin posts
    <3>1. rd' = [rd EXCEPT ![r] = Advance(rd[r], {})]
      BY <1>6, <2>3 DEF ReadCopy
    <3>2. /\ Advance(rd[r], {}).before = rd[r].before
          /\ Advance(rd[r], {}).served = rd[r].served \union {}
      BY <2>1, AdvanceType
    <3>. QED  BY <1>5, <2>1, <3>1, <3>2 DEF ReadInv
  <2>. QED  BY <2>2, <2>3
<1>7. ASSUME NEW r \in Reader, ReadCheck(r)
      PROVE  ReadInv'
  <2>1. /\ rd[r] \in Scan /\ rd[r].pc = "copied" /\ rd[r].i > 0 /\ Scanned(r) \in Post
        /\ gone' = gone
    BY <1>7, ScannedType DEF ReadCheck, StructInv, TypeOK, LockInv, history
  <2> DEFINE F == {Scanned(r)} \ deleted
  <2>2. rd' = [rd EXCEPT ![r] = Advance(rd[r], F)]
    BY <1>7 DEF ReadCheck
  <2>3. /\ Advance(rd[r], F).before = rd[r].before
        /\ Advance(rd[r], F).served = rd[r].served \union F
    BY <2>1, AdvanceType
  <2>4. F \intersect rd[r].before \subseteq Spent
    BY DEF ReadInv, HiddenInv
  <2> HIDE DEF F
  <2>5. Advance(rd[r], F).served \intersect rd[r].before \subseteq Spent
    BY <2>3, <2>4 DEF ReadInv
  <2>. QED  BY <1>5, <2>1, <2>2, <2>3, <2>5
<1>8. ASSUME NEW t \in Thread,
             ThreadStep(t) \/ \E C \in SUBSET Post, D \in SUBSET DeleteEvents : BeginBatch(t, C, D)
      PROVE  ReadInv'
  BY <1>2, <1>8 DEF ThreadStep, BeginBatch, InsertCheck, InsertPut, InsertPush, InsertVideo,
                    DeleteRemove, DeleteMark, DeleteBury, history
<1>9. CASE JanitorStep
  BY <1>2, <1>9 DEF JanitorStep, FinalizeStart, SortVisit, SweepNextMap, TrimStart, TrimVisit,
           TrimPop, TrimUnstore, TrimUnmark, TrimLeave, TrimEnd, PurgeVisit, PurgeEnd, history
<1>10. CASE Tick \/ UNCHANGED vars
  BY <1>2, <1>10 DEF Tick, vars, history
<1>. QED  BY <1>3, <1>4, <1>6, <1>7, <1>8, <1>9, <1>10 DEF Next, ReadStep

\* The empty store satisfies DeletionInv.
LEMMA DeletionInit == Init => DeletionInv
<1> SUFFICES ASSUME Init PROVE DeletionInv
  OBVIOUS
<1>1. StructInv
  BY StructInit
<1>2. StampInv
  <2>1. \A m \in Map, k \in Key : timeline[m][k] = <<>>
    BY DEF Init
  <2>. QED  BY <2>1 DEF Init, StampInv
<1>3. PoppedInv /\ HiddenInv /\ ReadInv
  BY DEF Init, PoppedInv, HiddenInv, ReadInv, NoScan
<1>. QED  BY <1>1, <1>2, <1>3 DEF DeletionInv

\* DeletionInv is inductive.
LEMMA DeletionStep == DeletionInv /\ [Next]_vars => DeletionInv'
BY StructStep, StampStep, PoppedStep, HiddenStep, ReadInvStep DEF DeletionInv

\* Stamps, pops, marks and scans stay in step in every reachable state: a completed
\* deletion keeps its mark until the post is spent.
THEOREM DeletionCorrect == Spec => []DeletionInv
BY DeletionInit, DeletionStep, PTL DEF Spec

\* Only the trimmer goes from the front of a timeline to removing its post.
LEMMA OnlyTrimPops ==
    ASSUME [Next]_vars, jpc = "pop", jpc' = "unstore"
    PROVE  TrimPop
<1>1. ASSUME JanitorStep, ~TrimPop
      PROVE  FALSE
  BY <1>1 DEF JanitorStep, FinalizeStart, SortVisit, SweepNextMap, TrimStart, TrimVisit,
              TrimUnstore, TrimUnmark, TrimLeave, TrimEnd, PurgeVisit, PurgeEnd
<1>2. ASSUME NEW t \in Thread,
             ThreadStep(t) \/ \E C \in SUBSET Post, D \in SUBSET DeleteEvents : BeginBatch(t, C, D)
      PROVE  jpc' = jpc
  BY <1>2 DEF ThreadStep, BeginBatch, InsertCheck, InsertPut, InsertPush, InsertVideo,
              DeleteRemove, DeleteMark, DeleteBury, janitor
<1>3. ASSUME NEW r \in Reader, ReadStep(r) \/ \E m \in Map, u \in User : ReadStart(r, m, u)
      PROVE  jpc' = jpc
  BY <1>3 DEF ReadStep, ReadStart, ReadCopy, ReadCheck, ReadEnd, janitor
<1>4. Tick \/ UNCHANGED vars => jpc' = jpc
  BY DEF Tick, vars, janitor
<1>. QED  BY <1>1, <1>2, <1>3, <1>4 DEF Next

\* The unsigned subtraction of line 438 is the whole of the disagreement between
\* the trimmer and its documentation: whatever the order of entries, batches and
\* ticks, an entry not dated after the trim's reading of the clock is dropped only
\* past the retention period (PostStore!TrimsEarlyOnlyLater).
THEOREM TrimsEarlyCorrect == Spec => TrimsEarlyOnlyLater
<1>1. ASSUME DeletionInv, [Next]_vars
      PROVE  jpc = "pop" /\ jpc' = "unstore" => now - Front.at > Retention \/ Front.at > jnow
  <2> SUFFICES ASSUME jpc = "pop", jpc' = "unstore", ~(Front.at > jnow)
               PROVE  now - Front.at > Retention
    OBVIOUS
  <2>1. TrimPop
    BY <1>1, OnlyTrimPops
  <2>2. Front \in Tiny /\ Stale(Front)
    BY <1>1, <2>1, StampPop DEF DeletionInv, TrimPop
  <2>3. Front.at \in Nat /\ jnow \in Nat /\ now \in Nat /\ jnow <= now
    BY <1>1, <2>2 DEF Tiny, DeletionInv, StructInv, TypeOK, StampInv
  <2>. QED  BY <2>2, <2>3, BoundsAssumption DEF Stale, Age
<1>. QED  BY <1>1, DeletionCorrect, PTL DEF Spec, TrimsEarlyOnlyLater

\* A scan never serves a post whose deletion had completed before the scan
\* began, unless the post is spent (PostStore!ServedFresh).
THEOREM ServedFreshCorrect == Spec => []ServedFresh
<1>1. DeletionInv => ServedFresh
  BY DEF DeletionInv, ReadInv, ServedFresh
<1>. QED  BY <1>1, DeletionCorrect, PTL

-----------------------------------------------------------------------------
(***************************************************************************)
(* PostStore implements PostFeed, for every value of the constants: what   *)
(* readers can see of a post, posts \ deleted, only changes as the feed    *)
(* allows.  The abstract step of each concrete one:                        *)
(*    BeginBatch                          Request                          *)
(*    InsertPut, TrimUnmark               Publish, or nothing              *)
(*    DeleteRemove, DeleteMark,                                            *)
(*    TrimUnstore                         Withdraw                         *)
(*    DeleteBury                          Seal                             *)
(*    TrimPop, Tick                       Spend                            *)
(*    everything else                     nothing                          *)
(***************************************************************************)

\* Threads only delete what a delete event was received for.
DoomedInv ==
    /\ doomed \subseteq Post
    /\ \A t \in Thread : Ids(dels[t]) \subseteq doomed
    /\ \A t \in Thread : pc[t] \in {"mark", "bury"} => cur[t] \in doomed

FeedInv == DeletionInv /\ DoomedInv

\* What a look-up finds: PostFeed's visible.
visible == posts \ deleted

-----------------------------------------------------------------------------
(* DoomedInv is inductive. *)

\* At the start no thread has a deletion in hand.
LEMMA DoomedInit == Init => DoomedInv
BY DEF Init, DoomedInv, Ids

\* DoomedInv is inductive: deletions only come with batches.
LEMMA DoomedStep ==
    ASSUME StructInv, DoomedInv, [Next]_vars
    PROVE  DoomedInv'
<1>1. ASSUME NEW t \in Thread, NEW C \in SUBSET Post, NEW D \in SUBSET DeleteEvents,
             BeginBatch(t, C, D)
      PROVE  DoomedInv'
  <2>1. Ids(D) \subseteq Post
    BY DEF Ids, DeleteEvents
  <2>2. /\ doomed' = doomed \union Ids(D) /\ dels' = [dels EXCEPT ![t] = D]
        /\ UNCHANGED <<pc, cur>>
    BY <1>1 DEF BeginBatch
  <2>3. \A u \in Thread : Ids(dels'[u]) \subseteq doomed'
    <3> SUFFICES ASSUME NEW u \in Thread
                 PROVE  Ids(dels'[u]) \subseteq doomed'
      OBVIOUS
    <3>1. CASE u = t
      BY <2>2, <3>1 DEF StructInv, TypeOK
    <3>2. CASE u # t
      BY <2>2, <3>2 DEF StructInv, TypeOK, DoomedInv
    <3>. QED  BY <3>1, <3>2
  <2>. QED  BY <2>1, <2>2, <2>3 DEF DoomedInv
<1>2. ASSUME UNCHANGED <<doomed, dels>>,
             \A t \in Thread : pc'[t] \in {"mark", "bury"} =>
                pc[t] \in {"mark", "bury"} /\ cur'[t] = cur[t]
      PROVE  DoomedInv'
  BY <1>2 DEF DoomedInv
<1>3. ASSUME NEW t \in Thread, NEW e \in dels[t], DeleteRemove(t, e)
      PROVE  DoomedInv'
  <2>1. e.id \in doomed
    BY <1>3 DEF DoomedInv, Ids
  <2>. QED  BY <1>3, <2>1 DEF DeleteRemove, DoomedInv, StructInv, TypeOK, history
<1>4. ASSUME NEW t \in Thread, NEW e \in dels[t], DeleteBury(t, e)
      PROVE  DoomedInv'
  <2>1. /\ doomed' = doomed /\ dels' = [dels EXCEPT ![t] = dels[t] \ {e}]
        /\ pc' = [pc EXCEPT ![t] = "next"] /\ cur' = [cur EXCEPT ![t] = None]
    BY <1>4 DEF DeleteBury
  <2>2. \A u \in Thread : dels'[u] \subseteq dels[u]
    BY <2>1 DEF StructInv, TypeOK
  <2>3. \A u \in Thread : Ids(dels'[u]) \subseteq doomed
    BY <2>2 DEF DoomedInv, Ids
  <2>. QED  BY <2>1, <2>3 DEF DoomedInv, StructInv, TypeOK
<1>5. ASSUME NEW t \in Thread,
             \/ \E p \in Post : InsertCheck(t, p)
             \/ InsertPut(t) \/ InsertPush(t) \/ InsertVideo(t) \/ DeleteMark(t)
      PROVE  DoomedInv'
  BY <1>2, <1>5 DEF InsertCheck, InsertPut, InsertPush, InsertVideo, DeleteMark, history,
                    StructInv, TypeOK
<1>6. CASE JanitorStep
  BY <1>2, <1>6 DEF JanitorStep, FinalizeStart, SortVisit, SweepNextMap, TrimStart, TrimVisit,
           TrimPop, TrimUnstore, TrimUnmark, TrimLeave, TrimEnd, PurgeVisit, PurgeEnd,
           thread, history
<1>7. ASSUME NEW r \in Reader, ReadStep(r) \/ \E m \in Map, u \in User : ReadStart(r, m, u)
      PROVE  DoomedInv'
  BY <1>2, <1>7 DEF ReadStep, ReadStart, ReadCopy, ReadCheck, ReadEnd, thread, history
<1>8. CASE Tick \/ UNCHANGED vars
  BY <1>2, <1>8 DEF Tick, vars, thread, history
<1>. QED  BY <1>1, <1>3, <1>4, <1>5, <1>6, <1>7, <1>8 DEF Next, ThreadStep

-----------------------------------------------------------------------------
(* The step simulation. *)

\* The empty store is an initial state of the feed.
LEMMA FeedInit == Init => Feed!Init
BY DEF Init, Feed!Init, Spent

\* A step that leaves the feed's variables alone is a stutter of the feed.
LEMMA FeedStutter ==
    ASSUME visible' = visible, UNCHANGED <<doomed, gone, now, early>>
    PROVE  UNCHANGED Feed!feedVars
BY DEF Feed!feedVars, visible, Spent, Expired

\* A listener thread's steps.
LEMMA FeedThread ==
    ASSUME FeedInv, NEW t \in Thread, ThreadStep(t)
    PROVE  [Feed!Next]_(Feed!feedVars)
<1>1. UNCHANGED <<now, early, doomed>> /\ Spent' = Spent
  <2>1. UNCHANGED <<now, early, doomed>>
    BY DEF ThreadStep, InsertCheck, InsertPut, InsertPush, InsertVideo, DeleteRemove, DeleteMark,
           DeleteBury, history
  <2>. QED  BY <2>1 DEF Spent, Expired
<1>2. ASSUME NEW p \in Post, InsertCheck(t, p)
      PROVE  [Feed!Next]_(Feed!feedVars)
  BY <1>1, <1>2, FeedStutter DEF InsertCheck, visible, store, history
<1>3. CASE InsertPush(t) \/ InsertVideo(t)
  BY <1>1, <1>3, FeedStutter DEF InsertPush, InsertVideo, visible, history
<1>4. CASE InsertPut(t)
  <2>1. /\ cur[t] \in Post /\ posts' = posts \union {cur[t]}
        /\ UNCHANGED <<deleted, gone>>
    BY <1>4 DEF InsertPut, FeedInv, DeletionInv, StructInv, CursorInv, history
  <2>2. CASE cur[t] \in deleted
    BY <1>1, <2>1, <2>2, FeedStutter DEF visible
  <2>3. CASE cur[t] \notin deleted
    <3>1. cur[t] \in gone => cur[t] \in Spent
      BY <2>3 DEF FeedInv, DeletionInv, HiddenInv
    <3>2. Feed!Publish(cur[t])
      BY <1>1, <2>1, <2>3, <3>1 DEF Feed!Publish
    <3>. QED  BY <2>1, <3>2 DEF Feed!Next
  <2>. QED  BY <2>2, <2>3
<1>5. ASSUME NEW e \in dels[t], DeleteRemove(t, e)
      PROVE  [Feed!Next]_(Feed!feedVars)
  <2>1. e.id \in doomed /\ e.id \in Post
    BY DEF FeedInv, DoomedInv, Ids
  <2>2. posts' = posts \ {e.id} /\ UNCHANGED <<deleted, gone>>
    BY <1>5 DEF DeleteRemove, history
  <2>3. Feed!Withdraw(e.id)
    BY <1>1, <2>1, <2>2 DEF Feed!Withdraw
  <2>. QED  BY <2>1, <2>3 DEF Feed!Next
<1>6. CASE DeleteMark(t)
  <2>1. cur[t] \in doomed /\ cur[t] \in Post
    BY <1>6 DEF DeleteMark, FeedInv, DoomedInv
  <2>2. deleted' = deleted \union {cur[t]} /\ UNCHANGED <<posts, gone>>
    BY <1>6 DEF DeleteMark, history
  <2>3. Feed!Withdraw(cur[t])
    BY <1>1, <2>1, <2>2 DEF Feed!Withdraw
  <2>. QED  BY <2>1, <2>3 DEF Feed!Next
<1>7. ASSUME NEW e \in dels[t], DeleteBury(t, e)
      PROVE  [Feed!Next]_(Feed!feedVars)
  <2>1. cur[t] \in doomed /\ cur[t] \in Post /\ cur[t] \in deleted \union Spent
    BY <1>7 DEF DeleteBury, FeedInv, DoomedInv, DeletionInv, HiddenInv
  <2>2. gone' = gone \union {cur[t]} /\ UNCHANGED <<posts, deleted>>
    BY <1>7 DEF DeleteBury
  <2>3. Feed!Seal(cur[t])
    BY <1>1, <2>1, <2>2 DEF Feed!Seal
  <2>. QED  BY <2>1, <2>3 DEF Feed!Next
<1>. QED  BY <1>2, <1>3, <1>4, <1>5, <1>6, <1>7 DEF ThreadStep

\* The janitor's steps.
LEMMA FeedJanitor ==
    ASSUME FeedInv, JanitorStep
    PROVE  [Feed!Next]_(Feed!feedVars)
<1>1. UNCHANGED <<now, gone, doomed>>
  BY DEF JanitorStep, FinalizeStart, SortVisit, SweepNextMap, TrimStart, TrimVisit,
         TrimPop, TrimUnstore, TrimUnmark, TrimLeave, TrimEnd, PurgeVisit, PurgeEnd, history
<1>2. CASE TrimPop
  <2>1. early \subseteq early' /\ UNCHANGED <<posts, deleted>>
    BY <1>2 DEF TrimPop
  <2>2. early' \subseteq Post
    BY StructStep, <1>2 DEF FeedInv, DeletionInv, Next, StructInv, TypeOK
  <2>3. Spent' \in SUBSET Post /\ Spent' = Spent \union Spent'
    BY <1>1, <2>1, <2>2 DEF Spent, Expired
  <2>4. Feed!Spend(Spent')
    BY <1>1, <2>1, <2>3 DEF Feed!Spend
  <2>. QED  BY <2>3, <2>4 DEF Feed!Next
<1>3. CASE TrimUnstore
  <2>1. /\ jpop \in Post /\ jpop \in Spent /\ posts' = posts \ {jpop}
        /\ UNCHANGED <<deleted, early>>
    BY <1>3 DEF TrimUnstore, FeedInv, DeletionInv, StructInv, CursorInv, PoppedInv, history
  <2>2. Spent' = Spent
    BY <1>1, <2>1 DEF Spent, Expired
  <2>3. Feed!Withdraw(jpop)
    BY <1>1, <2>1, <2>2 DEF Feed!Withdraw
  <2>. QED  BY <2>1, <2>3 DEF Feed!Next
<1>4. CASE TrimUnmark
  <2>1. /\ jpop \in Post /\ jpop \in Spent /\ deleted' = deleted \ {jpop}
        /\ UNCHANGED <<posts, early>>
    BY <1>4 DEF TrimUnmark, FeedInv, DeletionInv, StructInv, CursorInv, PoppedInv, history
  <2>2. Spent' = Spent
    BY <1>1, <2>1 DEF Spent, Expired
  <2>3. CASE jpop \in posts
    <3>1. Feed!Publish(jpop)
      BY <1>1, <2>1, <2>2, <2>3 DEF Feed!Publish
    <3>. QED  BY <2>1, <3>1 DEF Feed!Next
  <2>4. CASE jpop \notin posts
    BY <1>1, <2>1, <2>4, FeedStutter DEF visible
  <2>. QED  BY <2>3, <2>4
<1>5. ASSUME NEW p \in Post, PurgeVisit(p)
      PROVE  [Feed!Next]_(Feed!feedVars)
  BY <1>1, <1>5, FeedStutter DEF PurgeVisit, visible, history
<1>6. ASSUME ~TrimPop, ~TrimUnstore, ~TrimUnmark, ~\E p \in Post : PurgeVisit(p)
      PROVE  UNCHANGED <<posts, deleted, early>>
  BY <1>6 DEF JanitorStep, FinalizeStart, SortVisit, SweepNextMap, TrimStart, TrimVisit,
              TrimLeave, TrimEnd, PurgeEnd, store, history
<1>. QED  BY <1>1, <1>2, <1>3, <1>4, <1>5, <1>6, FeedStutter DEF visible

\* Every step of the store is a step of the feed, or a stutter.
LEMMA FeedStep ==
    ASSUME FeedInv, [Next]_vars
    PROVE  [Feed!Next]_(Feed!feedVars)
<1>1. ASSUME NEW t \in Thread, NEW C \in SUBSET Post, NEW D \in SUBSET DeleteEvents,
             BeginBatch(t, C, D)
      PROVE  [Feed!Next]_(Feed!feedVars)
  <2>1. Ids(D) \in SUBSET Post
    BY DEF Ids, DeleteEvents
  <2>2. doomed' = doomed \union Ids(D) /\ UNCHANGED <<posts, deleted, gone, now, early>>
    BY <1>1 DEF BeginBatch, store
  <2>3. Feed!Request(Ids(D))
    BY <2>2 DEF Feed!Request, Spent, Expired
  <2>. QED  BY <2>1, <2>3 DEF Feed!Next
<1>2. ASSUME NEW r \in Reader, ReadStep(r) \/ \E m \in Map, u \in User : ReadStart(r, m, u)
      PROVE  [Feed!Next]_(Feed!feedVars)
  BY <1>2, FeedStutter DEF ReadStep, ReadStart, ReadCopy, ReadCheck, ReadEnd, visible, store,
                           history
<1>3. CASE Tick
  <2>1. UNCHANGED <<posts, deleted, doomed, gone, early>>
    BY <1>3 DEF Tick, store, history
  <2>2. Spent \subseteq Spent' /\ Spent' \subseteq Post
    BY <2>1, SpentGrows DEF FeedInv, DeletionInv, StructInv, TypeOK, Spent, Expired
  <2>3. Feed!Spend(Spent')
    BY <2>1, <2>2 DEF Feed!Spend
  <2>. QED  BY <2>2, <2>3 DEF Feed!Next
<1>4. CASE UNCHANGED vars
  BY <1>4, FeedStutter DEF vars, visible, store, history
<1>. QED  BY <1>1, <1>2, <1>3, <1>4, FeedThread, FeedJanitor DEF Next

\* What readers can see of a post behaves as PostFeed says: it appears, and
\* disappears only on request or when spent; once its deletion is complete it
\* stays hidden, whatever redeliveries, trims and the purge do (PostStore!FeedSpec).
THEOREM FeedCorrect == Spec => FeedSpec
<1>1. Init => FeedInv
  BY DeletionInit, DoomedInit DEF FeedInv
<1>2. FeedInv /\ [Next]_vars => FeedInv'
  BY DeletionStep, DoomedStep DEF FeedInv, DeletionInv
<1>3. FeedInv /\ [Next]_vars => [Feed!Next]_(Feed!feedVars)
  BY FeedStep
<1>. QED  BY <1>1, <1>2, <1>3, FeedInit, PTL DEF Spec, FeedSpec, Feed!Spec

-----------------------------------------------------------------------------
(***************************************************************************)
(* Posts and references of PostStore stay in step, for every value of the  *)
(* constants: nothing is leaked (NoOrphan), nothing live is lost or listed *)
(* twice (LiveReachable).                                                  *)
(***************************************************************************)

-----------------------------------------------------------------------------
(* What pushing, sorting and popping do to the posts a deque refers to. *)

\* push_back adds exactly one reference.
LEMMA AppendHolds ==
    ASSUME NEW s \in Seq(Tiny), NEW e \in Tiny, NEW p
    PROVE  /\ Holds(p, Append(s, e)) <=> Holds(p, s) \/ p = e.id
           /\ AtMostOnce(p, s) /\ (p = e.id => ~Holds(p, s)) => AtMostOnce(p, Append(s, e))
<1> DEFINE a == Append(s, e)
<1>1. /\ DOMAIN s = 1 .. Len(s) /\ DOMAIN a = 1 .. Len(s) + 1 /\ Len(s) \in Nat
      /\ \A i \in 1 .. Len(s) : a[i] = s[i]
      /\ a[Len(s) + 1] = e
  OBVIOUS
<1> HIDE DEF a
<1>2. \A i \in DOMAIN a : i \in DOMAIN s \/ i = Len(s) + 1
  BY <1>1
<1>3. \A i \in DOMAIN s : i \in DOMAIN a /\ a[i] = s[i]
  BY <1>1
<1>4. Len(s) + 1 \in DOMAIN a
  BY <1>1
<1>5. Holds(p, a) <=> Holds(p, s) \/ p = e.id
  BY <1>1, <1>2, <1>3, <1>4 DEF Holds
<1>6. AtMostOnce(p, s) /\ (p = e.id => ~Holds(p, s)) => AtMostOnce(p, a)
  BY <1>1, <1>2, <1>3 DEF AtMostOnce, Holds
<1>. QED  BY <1>5, <1>6 DEF a

\* The sort of finalize_init loses no entry and makes no copy.
LEMMA SortHolds ==
    ASSUME NEW s \in Seq(Tiny), NEW q \in Sortings(s), NEW p
    PROVE  /\ Holds(p, q) <=> Holds(p, s)
           /\ AtMostOnce(p, s) => AtMostOnce(p, q)
<1> DEFINE n == Len(s)
<1>1. /\ n \in Nat /\ DOMAIN s = 1 .. n
  OBVIOUS
<1>2. PICK f \in [1 .. n -> 1 .. n] :
            /\ \A i, j \in 1 .. n : f[i] = f[j] => i = j
            /\ q = [i \in 1 .. n |-> s[f[i]]]
  BY DEF Sortings
<1> HIDE DEF n
<1>3. \A k \in 1 .. n : \E i \in 1 .. n : f[i] = k
  <2>1. f \in Injection(1 .. n, 1 .. n)
    BY <1>2 DEF Injection, IsInjective
  <2>2. IsFiniteSet(1 .. n)
    BY <1>1, FS_Interval
  <2>3. f \in Surjection(1 .. n, 1 .. n)
    BY <2>1, <2>2, FS_Injection
  <2>. QED  BY <2>3 DEF Surjection
<1>4. DOMAIN q = 1 .. n /\ \A i \in 1 .. n : q[i] = s[f[i]] /\ f[i] \in 1 .. n
  BY <1>2
<1>5. Holds(p, q) <=> Holds(p, s)
  <2>1. ASSUME NEW i \in DOMAIN q, q[i].id = p
        PROVE  Holds(p, s)
    BY <1>1, <1>4, <2>1 DEF Holds
  <2>2. ASSUME NEW k \in DOMAIN s, s[k].id = p
        PROVE  Holds(p, q)
    <3>1. PICK i \in 1 .. n : f[i] = k
      BY <1>1, <1>3
    <3>. QED  BY <1>4, <2>2, <3>1 DEF Holds
  <2>. QED  BY <2>1, <2>2 DEF Holds
<1>6. AtMostOnce(p, s) => AtMostOnce(p, q)
  BY <1>1, <1>2, <1>4 DEF AtMostOnce
<1>. QED  BY <1>5, <1>6

\* pop_front takes away at most the reference at the front.
LEMMA TailHolds ==
    ASSUME NEW s \in Seq(Tiny), s # <<>>, NEW p
    PROVE  /\ Holds(p, Tail(s)) => Holds(p, s)
           /\ Holds(p, s) => Holds(p, Tail(s)) \/ p = Head(s).id
           /\ AtMostOnce(p, s) => AtMostOnce(p, Tail(s))
<1> DEFINE u == Tail(s)
<1>1. /\ DOMAIN s = 1 .. Len(s) /\ DOMAIN u = 1 .. Len(s) - 1
      /\ Len(s) \in Nat /\ Len(s) > 0 /\ Head(s) = s[1]
      /\ \A i \in DOMAIN u : u[i] = s[i + 1]
  OBVIOUS
<1> HIDE DEF u
<1>2. \A i \in DOMAIN u : i + 1 \in DOMAIN s /\ u[i] = s[i + 1]
  BY <1>1
<1>3. \A i \in DOMAIN s : i = 1 \/ (i - 1 \in DOMAIN u /\ u[i - 1] = s[i])
  BY <1>1
<1>4. Holds(p, u) => Holds(p, s)
  BY <1>2 DEF Holds
<1>5. Holds(p, s) => Holds(p, u) \/ p = Head(s).id
  BY <1>1, <1>3 DEF Holds
<1>6. AtMostOnce(p, s) => AtMostOnce(p, u)
  <2> SUFFICES ASSUME AtMostOnce(p, s), NEW i \in DOMAIN u, NEW j \in DOMAIN u,
                      u[i].id = p, u[j].id = p
               PROVE  i = j
    BY DEF AtMostOnce
  <2>1. i + 1 = j + 1
    BY <1>2 DEF AtMostOnce
  <2>2. i \in Int /\ j \in Int
    BY <1>1
  <2>. QED  BY <2>1, <2>2
<1>. QED  BY <1>4, <1>5, <1>6 DEF u

-----------------------------------------------------------------------------
(* The same, for the steps that change a timeline. *)

\* A push changes the references of one timeline only.
LEMMA PushHolds ==
    ASSUME TypeOK, NEW m \in Map, NEW k \in Key, NEW e \in Tiny, PushBack(m, k, e), NEW p,
           NEW n \in Map, NEW l \in Key
    PROVE  /\ Holds(p, timeline'[n][l]) <=>
                  Holds(p, timeline[n][l]) \/ (n = m /\ l = k /\ p = e.id)
           /\ (n = m /\ l = k /\ p = e.id => ~Holds(p, timeline[n][l])) =>
                  (AtMostOnce(p, timeline[n][l]) => AtMostOnce(p, timeline'[n][l]))
<1>1. timeline \in [Map -> [Key -> Seq(Tiny)]]
  BY DEF TypeOK
<1>2. CASE n = m /\ l = k
  <2>1. timeline'[n][l] = Append(timeline[n][l], e) /\ timeline[n][l] \in Seq(Tiny)
    BY <1>1, <1>2, PushBackType
  <2>. QED  BY <1>2, <2>1, AppendHolds
<1>3. CASE n # m \/ l # k
  <2>1. timeline'[n][l] = timeline[n][l]
    BY <1>1, <1>3, PushBackType
  <2>. QED  BY <1>3, <2>1
<1>. QED  BY <1>2, <1>3

\* The sort of one timeline changes no reference of any.
LEMMA SortVisitHolds ==
    ASSUME TypeOK, NEW k \in Key, SortVisit(k), NEW p, NEW n \in Map, NEW l \in Key
    PROVE  /\ Holds(p, timeline'[n][l]) <=> Holds(p, timeline[n][l])
           /\ AtMostOnce(p, timeline[n][l]) => AtMostOnce(p, timeline'[n][l])
<1>1. /\ jmap \in Map /\ timeline \in [Map -> [Key -> Seq(Tiny)]]
      /\ timeline[jmap][k] \in Seq(Tiny)
  BY DEF TypeOK
<1>2. PICK q \in Sortings(timeline[jmap][k]) : timeline' = [timeline EXCEPT ![jmap][k] = q]
  BY DEF SortVisit
<1>3. q \in Seq(Tiny)
  BY <1>1, SortingsType
<1>4. CASE n = jmap /\ l = k
  <2>1. timeline'[n][l] = q
    BY <1>1, <1>2, <1>3, <1>4, TimelineUpdate
  <2>. QED  BY <1>1, <1>4, <2>1, SortHolds
<1>5. CASE n # jmap \/ l # k
  <2>1. timeline'[n][l] = timeline[n][l]
    BY <1>1, <1>2, <1>3, <1>5, TimelineUpdate
  <2>. QED  BY <2>1
<1>. QED  BY <1>4, <1>5

\* A pop takes only references of the popped post.
LEMMA TrimPopHolds ==
    ASSUME StructInv, TrimPop, NEW p, NEW n \in Map, NEW l \in Key
    PROVE  /\ Holds(p, timeline'[n][l]) => Holds(p, timeline[n][l])
           /\ Holds(p, timeline[n][l]) =>
                  Holds(p, timeline'[n][l]) \/ (n = jmap /\ l = jkey /\ p = jpop')
           /\ AtMostOnce(p, timeline[n][l]) => AtMostOnce(p, timeline'[n][l])
<1>1. /\ jmap \in Map /\ jkey \in Key /\ timeline \in [Map -> [Key -> Seq(Tiny)]]
      /\ timeline[jmap][jkey] \in Seq(Tiny) /\ timeline[jmap][jkey] # <<>>
      /\ timeline' = [timeline EXCEPT ![jmap][jkey] = Tail(timeline[jmap][jkey])]
      /\ jpop' = Head(timeline[jmap][jkey]).id
  BY DEF TrimPop, Front, StructInv, TypeOK, CursorInv
<1>2. Tail(timeline[jmap][jkey]) \in Seq(Tiny)
  BY <1>1
<1>3. CASE n = jmap /\ l = jkey
  <2>1. timeline'[n][l] = Tail(timeline[n][l])
    BY <1>1, <1>2, <1>3, TimelineUpdate
  <2>. QED  BY <1>1, <1>3, <2>1, TailHolds
<1>4. CASE n # jmap \/ l # jkey
  <2>1. timeline'[n][l] = timeline[n][l]
    BY <1>1, <1>2, <1>4, TimelineUpdate
  <2>. QED  BY <2>1
<1>. QED  BY <1>3, <1>4

-----------------------------------------------------------------------------
(* NoOrphan is inductive, given StructInv. *)

\* The empty store leaks nothing.
LEMMA OrphanInit == Init => NoOrphan
BY DEF Init, NoOrphan

\* A step that removes no reference, no mark's reference and no thread about
\* to make one, and adds no post or mark, keeps NoOrphan.
LEMMA OrphanFrame ==
    ASSUME NoOrphan, posts' \subseteq posts, deleted' \subseteq deleted,
           jpc \in {"unstore", "unmark"} => UNCHANGED <<jpc, jpop, jkey>>,
           \A p \in posts : Holds(p, Main(p)) => Holds(p, Main(p)'),
           \A p : Holds(p, timeline["original"][DeleteKey]) =>
                  Holds(p, timeline'["original"][DeleteKey]),
           \A t \in Thread : pc[t] \in {"push", "bury"} => pc'[t] = pc[t] /\ cur'[t] = cur[t]
    PROVE  NoOrphan'
<1>1. ASSUME NEW p \in posts', Referenced(p)
      PROVE  Referenced(p)'
  BY <1>1 DEF Referenced
<1>2. ASSUME NEW p \in deleted', MarkReferenced(p)
      PROVE  MarkReferenced(p)'
  BY <1>2 DEF MarkReferenced
<1>. QED  BY <1>1, <1>2 DEF NoOrphan

\* A push removes no reference.
LEMMA PushKeeps ==
    ASSUME TypeOK, NEW m \in Map, NEW k \in Key, NEW e \in Tiny, PushBack(m, k, e)
    PROVE  /\ \A p \in Post : Holds(p, Main(p)) => Holds(p, Main(p)')
           /\ \A p : Holds(p, timeline["original"][DeleteKey]) =>
                     Holds(p, timeline'["original"][DeleteKey])
           /\ Holds(e.id, timeline'[m][k])
<1>1. \A p \in Post : MainMap(p) \in Map /\ AuthorOf[p] \in Key
  BY EntryType
<1>2. "original" \in Map /\ DeleteKey \in Key
  BY DEF Map, Key
<1>. QED  BY <1>1, <1>2, PushHolds DEF Main

\* No step of a listener thread leaves a post or a mark unreferenced.
LEMMA OrphanThread ==
    ASSUME StructInv, NoOrphan, NEW t \in Thread, ThreadStep(t)
    PROVE  NoOrphan'
<1>1. /\ posts \subseteq Post /\ TypeOK /\ janitor' = janitor /\ jpc' = jpc /\ jpop' = jpop
      /\ jkey' = jkey
  BY DEF StructInv, TypeOK, ThreadStep, InsertCheck, InsertPut, InsertPush, InsertVideo,
         DeleteRemove, DeleteMark, DeleteBury, janitor
<1>2. ASSUME NEW p \in Post, InsertCheck(t, p)
      PROVE  NoOrphan'
  <2>1. /\ UNCHANGED <<posts, deleted, timeline>>
        /\ \A u \in Thread : pc[u] \in {"push", "bury"} => pc'[u] = pc[u] /\ cur'[u] = cur[u]
    BY <1>2 DEF InsertCheck, store, StructInv, TypeOK
  <2>. QED  BY <1>1, <2>1, OrphanFrame DEF Main
<1>3. CASE InsertPut(t)
  <2>1. /\ posts' = posts \union {cur[t]} /\ UNCHANGED <<deleted, timeline>>
        /\ \A u \in Thread : pc[u] \in {"push", "bury"} => pc'[u] = pc[u] /\ cur'[u] = cur[u]
        /\ cur[t] \notin posts => pc'[t] = "push" /\ cur'[t] = cur[t]
    BY <1>3 DEF InsertPut, StructInv, TypeOK
  <2>2. ASSUME NEW p \in posts
        PROVE  Referenced(p)'
    BY <1>1, <2>1 DEF NoOrphan, Referenced, Main
  <2>3. ASSUME NEW p \in posts' \ posts
        PROVE  Referenced(p)'
    <3>1. pc'[t] = "push" /\ cur'[t] = p
      BY <2>1
    <3>. QED  BY <3>1 DEF Referenced
  <2>4. ASSUME NEW p \in deleted
        PROVE  MarkReferenced(p)'
    BY <1>1, <2>1 DEF NoOrphan, MarkReferenced
  <2>. QED  BY <2>1, <2>2, <2>3, <2>4 DEF NoOrphan
<1>4. CASE InsertPush(t)
  <2>1. /\ UNCHANGED <<posts, deleted, cur>> /\ cur[t] \in Post
        /\ \A u \in Thread : u # t => pc'[u] = pc[u]
        /\ pc[t] = "push"
    BY <1>4 DEF InsertPush, StructInv, TypeOK, CursorInv
  <2>2. /\ Entry(cur[t]) \in Tiny /\ Entry(cur[t]).id = cur[t]
        /\ MainMap(cur[t]) \in Map /\ AuthorOf[cur[t]] \in Key
        /\ PushBack(MainMap(cur[t]), AuthorOf[cur[t]], Entry(cur[t]))
    BY <1>4, <2>1, EntryType DEF InsertPush, Entry
  <2>3. /\ \A p \in Post : Holds(p, Main(p)) => Holds(p, Main(p)')
        /\ \A p : Holds(p, timeline["original"][DeleteKey]) =>
                  Holds(p, timeline'["original"][DeleteKey])
        /\ Holds(cur[t], timeline'[MainMap(cur[t])][AuthorOf[cur[t]]])
    BY <1>1, <2>2, PushKeeps
  <2>4. ASSUME NEW p \in posts
        PROVE  Referenced(p)'
    <3>1. CASE p = cur[t]
      BY <2>3, <3>1 DEF Referenced, Main
    <3>2. CASE p # cur[t]
      BY <1>1, <2>1, <2>3, <3>2 DEF NoOrphan, Referenced
    <3>. QED  BY <3>1, <3>2
  <2>5. ASSUME NEW p \in deleted
        PROVE  MarkReferenced(p)'
    BY <1>1, <2>1, <2>3 DEF NoOrphan, MarkReferenced
  <2>. QED  BY <2>1, <2>4, <2>5 DEF NoOrphan
<1>5. CASE InsertVideo(t)
  <2>1. /\ UNCHANGED <<posts, deleted>> /\ cur[t] \in Post
        /\ \A u \in Thread : pc[u] \in {"push", "bury"} => pc'[u] = pc[u] /\ cur'[u] = cur[u]
    BY <1>5 DEF InsertVideo, StructInv, TypeOK, CursorInv
  <2>2. CASE UNCHANGED timeline
    BY <1>1, <2>1, <2>2, OrphanFrame DEF Main
  <2>3. CASE PushBack("video", AuthorOf[cur[t]], Entry(cur[t]))
    <3>1. "video" \in Map /\ AuthorOf[cur[t]] \in Key /\ Entry(cur[t]) \in Tiny
      BY <2>1, EntryType DEF Map
    <3>. QED  BY <1>1, <2>1, <2>3, <3>1, PushKeeps, OrphanFrame
  <2>. QED  BY <1>5, <2>2, <2>3 DEF InsertVideo
<1>6. ASSUME NEW e \in dels[t], DeleteRemove(t, e)
      PROVE  NoOrphan'
  <2>1. /\ posts' \subseteq posts /\ UNCHANGED <<deleted, timeline>>
        /\ \A u \in Thread : pc[u] \in {"push", "bury"} => pc'[u] = pc[u] /\ cur'[u] = cur[u]
    BY <1>6 DEF DeleteRemove, StructInv, TypeOK
  <2>. QED  BY <1>1, <2>1, OrphanFrame DEF Main
<1>7. CASE DeleteMark(t)
  <2>1. /\ deleted' = deleted \union {cur[t]} /\ UNCHANGED <<posts, timeline, cur>>
        /\ \A u \in Thread : pc[u] \in {"push", "bury"} => pc'[u] = pc[u]
        /\ pc'[t] = "bury"
    BY <1>7 DEF DeleteMark, StructInv, TypeOK
  <2>2. ASSUME NEW p \in posts
        PROVE  Referenced(p)'
    BY <1>1, <2>1 DEF NoOrphan, Referenced, Main
  <2>3. ASSUME NEW p \in deleted'
        PROVE  MarkReferenced(p)'
    BY <1>1, <2>1 DEF NoOrphan, MarkReferenced
  <2>. QED  BY <2>1, <2>2, <2>3 DEF NoOrphan
<1>8. ASSUME NEW e \in dels[t], DeleteBury(t, e)
      PROVE  NoOrphan'
  <2>1. /\ UNCHANGED <<posts, deleted>> /\ e.id = cur[t] /\ pc[t] = "bury"
        /\ \A u \in Thread : u # t => pc'[u] = pc[u] /\ cur'[u] = cur[u]
        /\ e \in Tiny /\ "original" \in Map /\ DeleteKey \in Key
        /\ PushBack("original", DeleteKey, e)
    BY <1>8 DEF DeleteBury, StructInv, TypeOK, Map, Key
  <2>2. /\ \A p \in Post : Holds(p, Main(p)) => Holds(p, Main(p)')
        /\ \A p : Holds(p, timeline["original"][DeleteKey]) =>
                  Holds(p, timeline'["original"][DeleteKey])
        /\ Holds(cur[t], timeline'["original"][DeleteKey])
    BY <1>1, <2>1, PushKeeps
  <2>3. ASSUME NEW p \in posts
        PROVE  Referenced(p)'
    <3>1. \A u \in Thread : pc[u] = "push" => pc'[u] = "push" /\ cur'[u] = cur[u]
      BY <2>1
    <3>. QED  BY <1>1, <2>2, <3>1 DEF NoOrphan, Referenced
  <2>4. ASSUME NEW p \in deleted
        PROVE  MarkReferenced(p)'
    <3>1. CASE p = cur[t]
      BY <2>2, <3>1 DEF MarkReferenced
    <3>2. CASE p # cur[t]
      BY <1>1, <2>1, <2>2, <3>2 DEF NoOrphan, MarkReferenced
    <3>. QED  BY <3>1, <3>2
  <2>. QED  BY <2>1, <2>3, <2>4 DEF NoOrphan
<1>. QED  BY <1>2, <1>3, <1>4, <1>5, <1>6, <1>7, <1>8 DEF ThreadStep

\* The janitor drops a reference only on its way to drop what it refers to.
LEMMA OrphanJanitor ==
    ASSUME StructInv, NoOrphan, JanitorStep
    PROVE  NoOrphan'
<1>1. TypeOK /\ posts \subseteq Post /\ UNCHANGED <<pc, cur>>
  BY DEF StructInv, TypeOK, JanitorStep, FinalizeStart, SortVisit, SweepNextMap, TrimStart,
         TrimVisit, TrimPop, TrimUnstore, TrimUnmark, TrimLeave, TrimEnd, PurgeVisit, PurgeEnd,
         thread
<1>2. "original" \in Map /\ DeleteKey \in Key
  BY DEF Map, Key
<1>3. \A p \in Post : MainMap(p) \in Map /\ AuthorOf[p] \in Key
  BY EntryType
<1>4. ASSUME NEW k \in Key, SortVisit(k)
      PROVE  NoOrphan'
  <2>1. UNCHANGED <<posts, deleted>> /\ jpc = "sort"
    BY <1>4 DEF SortVisit
  <2>2. \A p \in Post : Holds(p, Main(p)) => Holds(p, Main(p)')
    BY <1>1, <1>3, <1>4, SortVisitHolds DEF Main
  <2>3. \A p : Holds(p, timeline["original"][DeleteKey]) =>
              Holds(p, timeline'["original"][DeleteKey])
    BY <1>1, <1>2, <1>4, SortVisitHolds
  <2>. QED  BY <1>1, <2>1, <2>2, <2>3, OrphanFrame
<1>5. CASE TrimPop
  <2>1. UNCHANGED <<posts, deleted, jmap, jkey>> /\ jpc = "pop" /\ jpc' = "unstore"
    BY <1>5 DEF TrimPop
  <2>2. ASSUME NEW p \in posts
        PROVE  Referenced(p)'
    <3>1. Holds(p, Main(p)) => Holds(p, Main(p)') \/ p = jpop'
      BY <1>1, <1>3, <1>5, TrimPopHolds DEF Main
    <3>. QED  BY <1>1, <2>1, <3>1 DEF NoOrphan, Referenced
  <2>3. ASSUME NEW p \in deleted
        PROVE  MarkReferenced(p)'
    <3>1. Holds(p, timeline["original"][DeleteKey]) =>
              Holds(p, timeline'["original"][DeleteKey]) \/ (jkey = DeleteKey /\ p = jpop')
      BY <1>2, <1>5, TrimPopHolds
    <3>. QED  BY <1>1, <2>1, <3>1 DEF NoOrphan, MarkReferenced
  <2>. QED  BY <2>1, <2>2, <2>3 DEF NoOrphan
<1>6. CASE TrimUnstore
  <2>1. /\ posts' = posts \ {jpop} /\ UNCHANGED <<deleted, timeline, jkey>> /\ jpc = "unstore"
        /\ jkey = DeleteKey => jpc' = "unmark" /\ jpop' = jpop
    BY <1>6 DEF TrimUnstore
  <2>2. ASSUME NEW p \in posts'
        PROVE  Referenced(p)'
    BY <1>1, <2>1 DEF NoOrphan, Referenced, Main
  <2>3. ASSUME NEW p \in deleted
        PROVE  MarkReferenced(p)'
    BY <1>1, <2>1 DEF NoOrphan, MarkReferenced
  <2>. QED  BY <2>1, <2>2, <2>3 DEF NoOrphan
<1>7. CASE TrimUnmark
  <2>1. deleted' = deleted \ {jpop} /\ UNCHANGED <<posts, timeline>> /\ jpc = "unmark"
    BY <1>7 DEF TrimUnmark
  <2>2. ASSUME NEW p \in posts
        PROVE  Referenced(p)'
    BY <1>1, <2>1 DEF NoOrphan, Referenced, Main
  <2>3. ASSUME NEW p \in deleted'
        PROVE  MarkReferenced(p)'
    BY <1>1, <2>1 DEF NoOrphan, MarkReferenced
  <2>. QED  BY <2>1, <2>2, <2>3 DEF NoOrphan
<1>8. ASSUME posts' \subseteq posts, UNCHANGED <<deleted, timeline>>,
             jpc \notin {"unstore", "unmark"}
      PROVE  NoOrphan'
  BY <1>1, <1>8, OrphanFrame DEF Main
<1>9. ASSUME NEW p \in Post, PurgeVisit(p)
      PROVE  NoOrphan'
  BY <1>8, <1>9 DEF PurgeVisit
<1>10. CASE \/ FinalizeStart \/ SweepNextMap \/ TrimStart \/ TrimLeave \/ TrimEnd \/ PurgeEnd
            \/ \E k \in Key : TrimVisit(k)
  BY <1>8, <1>10 DEF FinalizeStart, SweepNextMap, TrimStart, TrimLeave, TrimEnd, PurgeEnd,
                     TrimVisit, store
<1>. QED  BY <1>4, <1>5, <1>6, <1>7, <1>9, <1>10 DEF JanitorStep

\* NoOrphan is inductive.
LEMMA OrphanStep ==
    ASSUME StructInv, NoOrphan, [Next]_vars
    PROVE  NoOrphan'
<1>1. ASSUME UNCHANGED <<store, jpc, jpop, jkey, cur>>,
             \A t \in Thread : pc[t] \in {"push", "bury"} => pc'[t] = pc[t]
      PROVE  NoOrphan'
  BY <1>1, OrphanFrame DEF store, Main
<1>2. ASSUME NEW t \in Thread, NEW C \in SUBSET Post, NEW D \in SUBSET DeleteEvents,
             BeginBatch(t, C, D)
      PROVE  NoOrphan'
  BY <1>1, <1>2 DEF BeginBatch, janitor
<1>3. ASSUME NEW r \in Reader, ReadStep(r) \/ \E m \in Map, u \in User : ReadStart(r, m, u)
      PROVE  NoOrphan'
  BY <1>1, <1>3 DEF ReadStep, ReadStart, ReadCopy, ReadCheck, ReadEnd, thread, janitor
<1>4. CASE Tick \/ UNCHANGED vars
  BY <1>1, <1>4 DEF Tick, vars, thread, janitor
<1>. QED  BY <1>2, <1>3, <1>4, OrphanThread, OrphanJanitor DEF Next

\* Nothing is leaked: the trimmer can find every post and every mark of the
\* store, at any moment (PostStore!NoOrphan).
THEOREM NoOrphanCorrect == Spec => []NoOrphan
<1>1. NoOrphan /\ StructInv /\ StructInv' /\ [Next]_vars => NoOrphan'
  BY OrphanStep
<1>. QED  BY <1>1, OrphanInit, StructCorrect, PTL DEF Spec

-----------------------------------------------------------------------------
(***************************************************************************)
(* A live post, neither doomed nor spent, is in one of three phases        *)
(* (ReachInv): the store has no trace of it; or one thread, and only one,  *)
(* is bringing it in; or it is settled, with exactly the references a      *)
(* reader needs.  Who puts the post first makes the only references, since *)
(* nobody removes a live post.                                             *)
(***************************************************************************)

Live(p) == p \notin doomed \union Spent
OwnVideo(p) == p \in Video \ Reply
Bringing(t, p) == pc[t] \in {"push", "video"} /\ cur[t] = p

Absent(p) ==
    /\ p \notin posts /\ p \notin stored
    /\ ~Holds(p, Main(p)) /\ ~Holds(p, Videos(p))
    /\ \A t \in Thread : ~Bringing(t, p)
ArrivingBy(t, p) ==
    /\ p \in posts /\ p \notin stored
    /\ Bringing(t, p)
    /\ ~Holds(p, Videos(p))
    /\ IF pc[t] = "push" THEN ~Holds(p, Main(p)) ELSE Once(p, Main(p))
    /\ \A u \in Thread \ {t} : ~Bringing(u, p)
Settled(p) ==
    /\ p \in posts
    /\ Once(p, Main(p))
    /\ OwnVideo(p) => Once(p, Videos(p))
    /\ \A t \in Thread : ~Bringing(t, p)
Phased(p) == Absent(p) \/ (\E t \in Thread : ArrivingBy(t, p)) \/ Settled(p)

ReachInv ==
    /\ deleted \subseteq doomed
    /\ \A p \in Post : Live(p) => Phased(p)

\* In the empty store every post is absent.
LEMMA ReachInit == Init => ReachInv
BY EntryType DEF Init, ReachInv, Phased, Absent, Holds, Main, Videos, Bringing, Map, Key

\* What is live now was live before.
LEMMA LiveBefore ==
    ASSUME StructInv, [Next]_vars, NEW p \in Post, Live(p)'
    PROVE  Live(p)
<1>1. doomed \subseteq doomed'
  BY DEF Next, ThreadStep, BeginBatch, InsertCheck, InsertPut, InsertPush, InsertVideo,
         DeleteRemove, DeleteMark, DeleteBury, JanitorStep, FinalizeStart, SortVisit,
         SweepNextMap, TrimStart, TrimVisit, TrimPop, TrimUnstore, TrimUnmark, TrimLeave,
         TrimEnd, PurgeVisit, PurgeEnd, ReadStep, ReadStart, ReadCopy, ReadCheck, ReadEnd,
         Tick, vars, history
<1>. QED  BY <1>1, SpentGrows DEF Live

\* A post no step concerns stays in its phase.
LEMMA PhaseFrame ==
    ASSUME NEW p \in Post, Phased(p),
           p \in posts' <=> p \in posts, p \in stored' <=> p \in stored,
           Holds(p, Main(p)') <=> Holds(p, Main(p)),
           Holds(p, Videos(p)') <=> Holds(p, Videos(p)),
           AtMostOnce(p, Main(p)) => AtMostOnce(p, Main(p)'),
           AtMostOnce(p, Videos(p)) => AtMostOnce(p, Videos(p)'),
           \A t \in Thread : Bringing(t, p)' <=> Bringing(t, p),
           \A t \in Thread : Bringing(t, p) => pc'[t] = pc[t]
    PROVE  Phased(p)'
<1>1. CASE Absent(p)
  <2>1. Absent(p)'
    BY <1>1 DEF Absent
  <2>. QED  BY <2>1 DEF Phased
<1>2. ASSUME NEW t \in Thread, ArrivingBy(t, p)
      PROVE  Phased(p)'
  <2>1. ArrivingBy(t, p)'
    BY <1>2 DEF ArrivingBy, Once
  <2>. QED  BY <2>1 DEF Phased
<1>3. CASE Settled(p)
  <2>1. Settled(p)'
    BY <1>3 DEF Settled, OwnVideo, Once
  <2>. QED  BY <2>1 DEF Phased
<1>. QED  BY <1>1, <1>2, <1>3 DEF Phased

\* A push onto timeline (m, k) concerns the references of p if it is p's.
LEMMA PushRefs ==
    ASSUME TypeOK, NEW m \in Map, NEW k \in Key, NEW e \in Tiny, PushBack(m, k, e),
           NEW p \in Post
    PROVE  /\ Holds(p, Main(p)') <=>
                  Holds(p, Main(p)) \/ (MainMap(p) = m /\ AuthorOf[p] = k /\ p = e.id)
           /\ Holds(p, Videos(p)') <=>
                  Holds(p, Videos(p)) \/ (m = "video" /\ AuthorOf[p] = k /\ p = e.id)
           /\ (p = e.id /\ MainMap(p) = m => ~Holds(p, Main(p))) =>
                  (AtMostOnce(p, Main(p)) => AtMostOnce(p, Main(p)'))
           /\ (p = e.id /\ m = "video" => ~Holds(p, Videos(p))) =>
                  (AtMostOnce(p, Videos(p)) => AtMostOnce(p, Videos(p)'))
<1>1. MainMap(p) \in Map /\ "video" \in Map /\ AuthorOf[p] \in Key
  BY EntryType DEF Map
<1>2. /\ Main(p)' = timeline'[MainMap(p)][AuthorOf[p]]
      /\ Videos(p)' = timeline'["video"][AuthorOf[p]]
  BY DEF Main, Videos
<1>. QED  BY <1>1, <1>2, PushHolds DEF Main, Videos

\* Only the thread that stores p brings it in.
LEMMA BroughtBy ==
    ASSUME NEW p, Phased(p), NEW t \in Thread, Bringing(t, p)
    PROVE  ArrivingBy(t, p)
BY DEF Phased, Absent, ArrivingBy, Settled

\* A live post moves from absent to arriving to settled, by one thread's insertion.
LEMMA PhaseThread ==
    ASSUME StructInv, DoomedInv, NEW p \in Post, Live(p), Phased(p),
           NEW t \in Thread, ThreadStep(t)
    PROVE  Phased(p)'
<1>1. TypeOK /\ MainMap(p) # "video" /\ AuthorOf[p] # DeleteKey
  BY EntryType, PostsAssumption DEF StructInv, MainMap
<1>2. ASSUME UNCHANGED <<timeline, stored>>, p \in posts' <=> p \in posts,
             \A u \in Thread \ {t} : pc'[u] = pc[u] /\ cur'[u] = cur[u],
             ~Bringing(t, p), ~Bringing(t, p)'
      PROVE  Phased(p)'
  BY <1>2, PhaseFrame DEF Main, Videos, Bringing
<1>3. ASSUME NEW q \in Post, InsertCheck(t, q)
      PROVE  Phased(p)'
  BY <1>2, <1>3 DEF InsertCheck, Bringing, store, history, StructInv, TypeOK
<1>4. CASE InsertPut(t)
  <2>1. /\ posts' = posts \union {cur[t]} /\ pc[t] = "put" /\ UNCHANGED <<timeline, stored>>
        /\ \A u \in Thread \ {t} : pc'[u] = pc[u] /\ cur'[u] = cur[u]
        /\ cur[t] \notin posts => pc'[t] = "push" /\ cur'[t] = cur[t]
        /\ cur[t] \in posts => pc'[t] = "next"
    BY <1>4 DEF InsertPut, history, StructInv, TypeOK
  <2>2. CASE p = cur[t] /\ p \notin posts
    <3>1. Absent(p)
      BY <2>2 DEF Phased, ArrivingBy, Settled
    <3>2. pc'[t] = "push" /\ cur'[t] = p /\ p \in posts'
      BY <2>1, <2>2
    <3>3. ArrivingBy(t, p)'
      BY <2>1, <3>1, <3>2 DEF Absent, ArrivingBy, Bringing, Main, Videos
    <3>. QED  BY <3>3 DEF Phased
  <2>3. CASE p # cur[t] \/ p \in posts
    <3>1. ~Bringing(t, p) /\ ~Bringing(t, p)'
      BY <2>1, <2>3 DEF Bringing
    <3>. QED  BY <1>2, <2>1, <2>3, <3>1
  <2>. QED  BY <2>2, <2>3
<1>5. CASE InsertPush(t)
  <2>1. /\ UNCHANGED <<posts, stored, cur>> /\ cur[t] \in Post
        /\ \A u \in Thread \ {t} : pc'[u] = pc[u]
        /\ pc[t] = "push" /\ pc'[t] = "video"
    BY <1>5 DEF InsertPush, history, StructInv, TypeOK, CursorInv
  <2> DEFINE m == MainMap(cur[t])
             k == AuthorOf[cur[t]]
             e == Entry(cur[t])
  <2>2. m \in Map /\ k \in Key /\ e \in Tiny /\ e.id = cur[t] /\ m # "video" /\ PushBack(m, k, e)
    BY <1>5, <2>1, EntryType DEF InsertPush, Entry, MainMap
  <2>3. p = cur[t] => m = MainMap(p) /\ k = AuthorOf[p]
    OBVIOUS
  <2> HIDE DEF m, k, e
  <2>4. CASE p = cur[t]
    <3>1. ArrivingBy(t, p)
      BY <2>1, <2>4, BroughtBy DEF Bringing
    <3>2. /\ Holds(p, Main(p)') /\ (AtMostOnce(p, Main(p)) => AtMostOnce(p, Main(p)'))
          /\ ~Holds(p, Videos(p)')
      BY <1>1, <2>1, <2>2, <2>3, <2>4, <3>1, PushRefs DEF ArrivingBy
    <3>3. AtMostOnce(p, Main(p))
      BY <2>1, <3>1 DEF ArrivingBy, Holds, AtMostOnce
    <3>4. ArrivingBy(t, p)'
      BY <2>1, <2>4, <3>1, <3>2, <3>3 DEF ArrivingBy, Bringing, Once
    <3>. QED  BY <3>4 DEF Phased
  <2>5. CASE p # cur[t]
    <3>1. /\ Holds(p, Main(p)') <=> Holds(p, Main(p))
          /\ Holds(p, Videos(p)') <=> Holds(p, Videos(p))
          /\ AtMostOnce(p, Main(p)) => AtMostOnce(p, Main(p)')
          /\ AtMostOnce(p, Videos(p)) => AtMostOnce(p, Videos(p)')
      BY <1>1, <2>2, <2>5, PushRefs
    <3>. QED  BY <2>1, <2>5, <3>1, PhaseFrame DEF Bringing
  <2>. QED  BY <2>4, <2>5
<1>6. CASE InsertVideo(t)
  <2>1. /\ posts' = posts /\ stored' = stored \union {cur[t]} /\ cur[t] \in Post
        /\ \A u \in Thread \ {t} : pc'[u] = pc[u] /\ cur'[u] = cur[u]
        /\ pc[t] = "video" /\ pc'[t] = "next"
    BY <1>6 DEF InsertVideo, StructInv, TypeOK, CursorInv
  <2>2. CASE p = cur[t]
    <3>1. ArrivingBy(t, p)
      BY <2>1, <2>2, BroughtBy DEF Bringing
    <3>2. /\ Once(p, Main(p)) /\ ~Holds(p, Videos(p)) /\ p \in posts
          /\ \A u \in Thread \ {t} : ~Bringing(u, p)
      BY <2>1, <3>1 DEF ArrivingBy
    <3>3. \A u \in Thread : ~Bringing(u, p)'
      BY <2>1, <3>2 DEF Bringing
    <3>4. CASE VideoEligible(p)
      <4>1. /\ Entry(p) \in Tiny /\ Entry(p).id = p /\ AuthorOf[p] \in Key /\ "video" \in Map
            /\ PushBack("video", AuthorOf[p], Entry(p))
        BY <1>6, <2>2, <3>4, EntryType DEF InsertVideo, Entry, Map
      <4>2. AtMostOnce(p, Videos(p))
        BY <3>2 DEF Holds, AtMostOnce
      <4>3. Once(p, Main(p)') /\ Once(p, Videos(p)')
        BY <1>1, <3>2, <4>1, <4>2, PushRefs DEF Once
      <4>4. Settled(p)'
        BY <2>1, <3>2, <3>3, <4>3 DEF Settled
      <4>. QED  BY <4>4 DEF Phased
    <3>5. CASE ~VideoEligible(p)
      <4>1. timeline' = timeline /\ ~OwnVideo(p)
        BY <1>6, <2>2, <3>5 DEF InsertVideo, VideoEligible, OwnVideo
      <4>2. Settled(p)'
        BY <2>1, <3>2, <3>3, <4>1 DEF Settled, Main, OwnVideo
      <4>. QED  BY <4>2 DEF Phased
    <3>. QED  BY <3>4, <3>5
  <2>3. CASE p # cur[t]
    <3>1. /\ Holds(p, Main(p)') <=> Holds(p, Main(p))
          /\ Holds(p, Videos(p)') <=> Holds(p, Videos(p))
          /\ AtMostOnce(p, Main(p)) => AtMostOnce(p, Main(p)')
          /\ AtMostOnce(p, Videos(p)) => AtMostOnce(p, Videos(p)')
      <4>1. CASE timeline' = timeline
        BY <4>1 DEF Main, Videos
      <4>2. CASE PushBack("video", AuthorOf[cur[t]], Entry(cur[t]))
        <5>1. /\ Entry(cur[t]) \in Tiny /\ Entry(cur[t]).id = cur[t] /\ AuthorOf[cur[t]] \in Key
              /\ "video" \in Map
          BY <2>1, EntryType DEF Entry, Map
        <5>. QED  BY <1>1, <2>3, <4>2, <5>1, PushRefs
      <4>. QED  BY <1>6, <4>1, <4>2 DEF InsertVideo
    <3>. QED  BY <2>1, <2>3, <3>1, PhaseFrame DEF Bringing
  <2>. QED  BY <2>2, <2>3
<1>7. ASSUME NEW e \in dels[t], DeleteRemove(t, e)
      PROVE  Phased(p)'
  <2>1. e.id # p
    BY DEF Live, DoomedInv, Ids
  <2>. QED  BY <1>2, <1>7, <2>1 DEF DeleteRemove, Bringing, history, StructInv, TypeOK
<1>8. CASE DeleteMark(t)
  BY <1>2, <1>8 DEF DeleteMark, Bringing, history, StructInv, TypeOK
<1>9. ASSUME NEW e \in dels[t], DeleteBury(t, e)
      PROVE  Phased(p)'
  <2>1. /\ e \in Tiny /\ "original" \in Map /\ DeleteKey \in Key
        /\ PushBack("original", DeleteKey, e) /\ UNCHANGED <<posts, stored>>
        /\ \A u \in Thread \ {t} : pc'[u] = pc[u] /\ cur'[u] = cur[u]
        /\ pc[t] = "bury" /\ pc'[t] = "next"
    BY <1>9 DEF DeleteBury, StructInv, TypeOK, Map, Key
  <2>2. /\ Holds(p, Main(p)') <=> Holds(p, Main(p))
        /\ Holds(p, Videos(p)') <=> Holds(p, Videos(p))
        /\ AtMostOnce(p, Main(p)) => AtMostOnce(p, Main(p)')
        /\ AtMostOnce(p, Videos(p)) => AtMostOnce(p, Videos(p)')
    <3>1. AuthorOf[p] \in Key /\ MainMap(p) \in Map /\ "video" \in Map
      BY EntryType DEF Map
    <3>. QED  BY <1>1, <2>1, <3>1, PushHolds DEF Main, Videos
  <2>. QED  BY <2>1, <2>2, PhaseFrame DEF Bringing
<1>. QED  BY <1>3, <1>4, <1>5, <1>6, <1>7, <1>8, <1>9 DEF ThreadStep

\* The janitor sorts, and takes away what is spent or marked.
LEMMA PhaseJanitor ==
    ASSUME StructInv, PoppedInv, PoppedInv', ReachInv, NEW p \in Post, Live(p), Live(p)',
           JanitorStep
    PROVE  Phased(p)'
<1>1. /\ TypeOK /\ Phased(p) /\ UNCHANGED <<pc, cur, stored>>
      /\ \A t \in Thread : Bringing(t, p)' <=> Bringing(t, p)
  BY DEF StructInv, ReachInv, Bringing, JanitorStep, FinalizeStart, SortVisit, SweepNextMap,
         TrimStart, TrimVisit, TrimPop, TrimUnstore, TrimUnmark, TrimLeave, TrimEnd, PurgeVisit,
         PurgeEnd, thread, history
<1>2. MainMap(p) \in Map /\ "video" \in Map /\ AuthorOf[p] \in Key
  BY EntryType DEF Map
<1>3. ASSUME NEW k \in Key, SortVisit(k)
      PROVE  Phased(p)'
  <2>1. posts' = posts
    BY <1>3 DEF SortVisit
  <2>2. /\ Holds(p, Main(p)') <=> Holds(p, Main(p))
        /\ Holds(p, Videos(p)') <=> Holds(p, Videos(p))
        /\ AtMostOnce(p, Main(p)) => AtMostOnce(p, Main(p)')
        /\ AtMostOnce(p, Videos(p)) => AtMostOnce(p, Videos(p)')
    BY <1>1, <1>2, <1>3, SortVisitHolds DEF Main, Videos
  <2>. QED  BY <1>1, <2>1, <2>2, PhaseFrame
<1>4. CASE TrimPop
  <2>1. posts' = posts /\ jpc' = "unstore"
    BY <1>4 DEF TrimPop
  <2>2. jpop' # p
    BY <2>1 DEF PoppedInv, Live
  <2>3. /\ Holds(p, Main(p)') <=> Holds(p, Main(p))
        /\ Holds(p, Videos(p)') <=> Holds(p, Videos(p))
        /\ AtMostOnce(p, Main(p)) => AtMostOnce(p, Main(p)')
        /\ AtMostOnce(p, Videos(p)) => AtMostOnce(p, Videos(p)')
    BY <1>2, <1>4, <2>2, TrimPopHolds DEF Main, Videos
  <2>. QED  BY <1>1, <2>1, <2>3, PhaseFrame
<1>5. ASSUME timeline' = timeline, p \in posts' <=> p \in posts
      PROVE  Phased(p)'
  BY <1>1, <1>5, PhaseFrame DEF Main, Videos
<1>6. CASE TrimUnstore
  <2>1. jpop # p
    BY <1>6 DEF TrimUnstore, PoppedInv, Live
  <2>. QED  BY <1>5, <1>6, <2>1 DEF TrimUnstore
<1>7. ASSUME NEW q \in Post, PurgeVisit(q)
      PROVE  Phased(p)'
  <2>1. p # q
    BY <1>7 DEF PurgeVisit, ReachInv, Live
  <2>. QED  BY <1>5, <1>7, <2>1 DEF PurgeVisit
<1>8. CASE \/ FinalizeStart \/ SweepNextMap \/ TrimStart \/ TrimLeave \/ TrimEnd \/ PurgeEnd
           \/ TrimUnmark \/ \E k \in Key : TrimVisit(k)
  BY <1>5, <1>8 DEF FinalizeStart, SweepNextMap, TrimStart, TrimLeave, TrimEnd, PurgeEnd,
                    TrimUnmark, TrimVisit, store
<1>. QED  BY <1>3, <1>4, <1>6, <1>7, <1>8 DEF JanitorStep

\* Every mark was asked for.
LEMMA MarkedDoomed ==
    ASSUME DoomedInv, deleted \subseteq doomed, [Next]_vars
    PROVE  deleted' \subseteq doomed'
<1>1. ASSUME NEW t \in Thread, DeleteMark(t)
      PROVE  deleted' \subseteq doomed'
  BY <1>1 DEF DeleteMark, DoomedInv, history
<1>2. ASSUME deleted' \subseteq deleted, doomed \subseteq doomed'
      PROVE  deleted' \subseteq doomed'
  BY <1>2
<1>3. ASSUME NEW t \in Thread,
             \/ \E q \in Post : InsertCheck(t, q)
             \/ InsertPut(t) \/ InsertPush(t) \/ InsertVideo(t)
             \/ \E e \in dels[t] : DeleteRemove(t, e) \/ DeleteBury(t, e)
             \/ \E C \in SUBSET Post, D \in SUBSET DeleteEvents : BeginBatch(t, C, D)
      PROVE  deleted' \subseteq doomed'
  BY <1>2, <1>3 DEF InsertCheck, InsertPut, InsertPush, InsertVideo, DeleteRemove, DeleteBury,
                    BeginBatch, store, history
<1>4. CASE JanitorStep
  BY <1>2, <1>4 DEF JanitorStep, FinalizeStart, SortVisit, SweepNextMap, TrimStart, TrimVisit,
           TrimPop, TrimUnstore, TrimUnmark, TrimLeave, TrimEnd, PurgeVisit, PurgeEnd, store,
           history
<1>5. ASSUME NEW r \in Reader, ReadStep(r) \/ \E m \in Map, u \in User : ReadStart(r, m, u)
      PROVE  deleted' \subseteq doomed'
  BY <1>2, <1>5 DEF ReadStep, ReadStart, ReadCopy, ReadCheck, ReadEnd, store, history
<1>6. CASE Tick \/ UNCHANGED vars
  BY <1>2, <1>6 DEF Tick, vars, store, history
<1>. QED  BY <1>1, <1>3, <1>4, <1>5, <1>6 DEF Next, ThreadStep

\* ReachInv is inductive.
LEMMA ReachStep ==
    ASSUME FeedInv, FeedInv', ReachInv, [Next]_vars
    PROVE  ReachInv'
<1>1. deleted' \subseteq doomed'
  BY MarkedDoomed DEF FeedInv, ReachInv
<1>2. ASSUME NEW p \in Post, Live(p)'
      PROVE  Phased(p)'
  <2>1. StructInv /\ DoomedInv /\ PoppedInv /\ PoppedInv'
    BY DEF FeedInv, DeletionInv
  <2>2. Live(p) /\ Phased(p)
    BY <1>2, <2>1, LiveBefore DEF ReachInv
  <2>3. ASSUME UNCHANGED <<posts, timeline, pc, cur, stored>>
        PROVE  Phased(p)'
    BY <2>2, <2>3, PhaseFrame DEF Main, Videos, Bringing
  <2>4. ASSUME NEW t \in Thread, NEW C \in SUBSET Post, NEW D \in SUBSET DeleteEvents,
               BeginBatch(t, C, D)
        PROVE  Phased(p)'
    BY <2>3, <2>4 DEF BeginBatch, store
  <2>5. ASSUME NEW r \in Reader,
               ReadStep(r) \/ \E m \in Map, u \in User : ReadStart(r, m, u)
        PROVE  Phased(p)'
    BY <2>3, <2>5 DEF ReadStep, ReadStart, ReadCopy, ReadCheck, ReadEnd, store, thread, history
  <2>6. CASE Tick \/ UNCHANGED vars
    BY <2>3, <2>6 DEF Tick, vars, store, thread, history
  <2>. QED  BY <1>2, <2>1, <2>2, <2>4, <2>5, <2>6, PhaseThread, PhaseJanitor DEF Next
<1>. QED  BY <1>1, <1>2 DEF ReachInv

\* Redelivered creations, the trimmer, the sort and the purge neither lose nor
\* duplicate a live post whose insertion has completed (PostStore!LiveReachable).
THEOREM LiveReachableCorrect == Spec => []LiveReachable
<1>1. Init => FeedInv /\ ReachInv
  BY DeletionInit, DoomedInit, ReachInit DEF FeedInv
<1>2. FeedInv /\ [Next]_vars => FeedInv'
  BY DeletionStep, DoomedStep DEF FeedInv, DeletionInv
<1>3. FeedInv /\ FeedInv' /\ ReachInv /\ [Next]_vars => ReachInv'
  BY ReachStep
<1>4. FeedInv /\ ReachInv => LiveReachable
  <2> SUFFICES ASSUME FeedInv, ReachInv, NEW p \in stored \ (doomed \union Spent)
               PROVE  Settled(p)
    BY DEF LiveReachable, Settled, OwnVideo
  <2>1. p \in Post /\ Live(p)
    BY DEF FeedInv, DeletionInv, StructInv, TypeOK, Live
  <2>. QED  BY <2>1 DEF ReachInv, Phased, Absent, ArrivingBy
<1>. QED  BY <1>1, <1>2, <1>3, <1>4, PTL DEF Spec
=============================================================================
