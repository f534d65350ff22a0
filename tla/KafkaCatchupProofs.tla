-------------------------- MODULE KafkaCatchupProofs --------------------------
(***************************************************************************)
(* Proofs about KafkaCatchup, for any number of threads and partitions,    *)
(* any batch size and any backlog.  Each thread accounts for the messages  *)
(* that waited for it (AccountInv) and signals once (SignalInv); main      *)
(* counts the signals (CountInv).                                          *)
(***************************************************************************)
EXTENDS KafkaCatchup, FiniteSetTheorems, TLAPS

\* What waited at the start is still waiting, in the thread's hands, or stored.
AccountInv ==
    \A t \in ThreadId :
        /\ Initial[t] <= backlog[t] + polled[t] + buffer[t] + stored[t]
        /\ tpc[t] \notin {"lag", "buffer"} => polled[t] = 0
        /\ tpc[t] = "send" => buffer[t] = 0

\* A thread holding its Sender found its lag small; so had one that signalled.
SignalInv ==
    \A t \in ThreadId :
        /\ sender[t] => /\ init[t] /\ t \notin signalled
                        /\ tpc[t] \in {"buffer", "permit", "batch", "send"}
                        /\ Initial[t] - (polled[t] + buffer[t] + stored[t]) < CatchupLag(t)
        /\ tpc[t] = "send" => sender[t]
        /\ t \in signalled => init[t] /\ Initial[t] - stored[t] < CatchupLag(t)
        /\ tpc[t] \in {"connect", "dead"} => ~init[t]

AllDead == \A t \in Spawned : tpc[t] = "dead"

CountInv ==
    /\ signalled \subseteq Spawned
    /\ IF AllDead THEN chan = 0 ELSE got + chan = Cardinality(signalled)
    /\ IF mpc = "recv" THEN got < NumThreads ELSE got = NumThreads

CatchupInv == TypeOK /\ AccountInv /\ SignalInv /\ CountInv

-----------------------------------------------------------------------------
\* There are finitely many threads, NumThreads of them (main.rs spawns one per id).
LEMMA ThreadsFinite ==
    /\ NumThreads \in Nat /\ NumThreads > 0 /\ Spawned \subseteq ThreadId
    /\ IsFiniteSet(ThreadId) /\ Cardinality(ThreadId) = NumThreads
    /\ IsFiniteSet(Spawned)
<1>1. NumThreads \in Nat /\ NumThreads > 0 /\ Spawned \subseteq ThreadId
  BY CatchupAssumption DEF Spawned
<1>2. IsFiniteSet(0 .. NumThreads - 1) /\ Cardinality(0 .. NumThreads - 1) = NumThreads
  BY <1>1, FS_Interval
<1>. QED  BY <1>1, <1>2, FS_Subset DEF ThreadId

\* The catch-up threshold of a thread is a number.
LEMMA LagType ==
    ASSUME NEW t \in ThreadId
    PROVE  CatchupLag(t) \in Int
<1>1. PartitionsPerThread \in Int
  BY CatchupAssumption DEF PartitionsPerThread, DivCeil
<1>2. StartIdx(t) \in Int /\ EndIdx(t) \in Int
  BY <1>1, CatchupAssumption DEF StartIdx, EndIdx, ThreadId
<1>3. Lags(t) \in Int
  BY <1>2 DEF Lags
<1>. QED  BY <1>3, CatchupAssumption DEF CatchupLag

\* When the process starts nothing was polled, stored or signalled.
LEMMA CatchupInit == Init => CatchupInv
<1> SUFFICES ASSUME Init PROVE CatchupInv
  OBVIOUS
<1>1. TypeOK
  BY CatchupAssumption DEF Init, TypeOK
<1>2. AccountInv
  BY CatchupAssumption DEF Init, AccountInv
<1>3. SignalInv
  BY DEF Init, SignalInv
<1>4. Cardinality(signalled) = 0
  BY FS_EmptySet DEF Init
<1>5. CountInv
  BY <1>4, ThreadsFinite DEF Init, CountInv
<1>. QED  BY <1>1, <1>2, <1>3, <1>5 DEF CatchupInv

-----------------------------------------------------------------------------
(* One thread's step: types, accounts and signal of every thread. *)

\* A listener thread's step keeps the types.
LEMMA ThreadType ==
    ASSUME TypeOK, NEW t \in Spawned, ThreadStep(t) \/ ConnectFail(t) \/ Arrive(t)
    PROVE  TypeOK'
<1> USE ThreadsFinite DEF TypeOK, Goto, tvars, hvars
<1>1. CASE Connect(t) \/ ConnectFail(t)
  BY <1>1 DEF Connect, ConnectFail
<1>2. CASE Poll(t)
  BY <1>2 DEF Poll
<1>3. CASE LagMeasured(t)
  <2>1. (backlog[t] < CatchupLag(t)) \in BOOLEAN
    OBVIOUS
  <2>. QED  BY <1>3, <2>1 DEF LagMeasured
<1>4. CASE LagFailed(t) \/ LagSkipped(t)
  BY <1>4 DEF LagFailed, LagSkipped
<1>5. CASE Buffer(t)
  <2>1. /\ UNCHANGED <<backlog, init, permits, chan, mpc, got, arrivals, stored, signalled>>
        /\ buffer' = [buffer EXCEPT ![t] = buffer[t] + polled[t]]
        /\ polled' = [polled EXCEPT ![t] = 0]
    BY <1>5 DEF Buffer
  <2>2. buffer[t] + polled[t] \in Nat /\ 0 \in 0 .. BatchSize
    BY CatchupAssumption
  <2>3. /\ tpc' = [tpc EXCEPT ![t] = "permit"] \/ tpc' = [tpc EXCEPT ![t] = "poll"]
        /\ sender' = sender \/ sender' = [sender EXCEPT ![t] = FALSE]
        /\ dropped' = dropped \/ dropped' = dropped \union {t}
    BY <1>5 DEF Buffer
  <2>. QED  BY <2>1, <2>2, <2>3
<1>6. CASE Acquire(t)
  BY <1>6 DEF Acquire
<1>7. CASE StoreBatch(t)
  BY <1>7 DEF StoreBatch
<1>8. CASE Send(t)
  BY <1>8 DEF Send
<1>9. CASE Arrive(t)
  BY <1>9 DEF Arrive
<1>. QED  BY <1>1, <1>2, <1>3, <1>4, <1>5, <1>6, <1>7, <1>8, <1>9 DEF ThreadStep

\* No step of a listener loses a message that waited at the start from
\* the thread's account (poll, buffer, hand over).
LEMMA ThreadAccount ==
    ASSUME TypeOK, AccountInv, NEW t \in Spawned, ThreadStep(t) \/ ConnectFail(t) \/ Arrive(t)
    PROVE  AccountInv'
<1> USE ThreadsFinite, CatchupAssumption DEF TypeOK, AccountInv, Goto, tvars, hvars
<1>1. CASE Connect(t) \/ ConnectFail(t)
  BY <1>1 DEF Connect, ConnectFail
<1>2. CASE Poll(t)
  <2>1. PICK n \in 0 .. BatchSize :
            /\ polled' = [polled EXCEPT ![t] = n]
            /\ backlog' = [backlog EXCEPT ![t] = backlog[t] - n]
    BY <1>2 DEF Poll
  <2>2. UNCHANGED <<buffer, stored>> /\ tpc' = [tpc EXCEPT ![t] = "lag"] /\ tpc[t] = "poll"
    BY <1>2 DEF Poll
  <2>3. ASSUME NEW u \in ThreadId, u # t
        PROVE  /\ backlog'[u] = backlog[u] /\ polled'[u] = polled[u] /\ tpc'[u] = tpc[u]
    BY <2>1, <2>2, <2>3
  <2>4. backlog'[t] = backlog[t] - n /\ polled'[t] = n /\ tpc'[t] = "lag"
    BY <2>1, <2>2
  <2>5. polled[t] = 0 /\ Initial[t] <= backlog'[t] + polled'[t] + buffer[t] + stored[t]
    BY <2>2, <2>4
  <2>. QED  BY <2>2, <2>3, <2>4, <2>5
<1>3. CASE LagMeasured(t) \/ LagFailed(t) \/ LagSkipped(t)
  BY <1>3 DEF LagMeasured, LagFailed, LagSkipped
<1>4. CASE Buffer(t)
  BY <1>4 DEF Buffer
<1>5. CASE Acquire(t)
  BY <1>5 DEF Acquire
<1>6. CASE StoreBatch(t)
  BY <1>6 DEF StoreBatch
<1>7. CASE Send(t)
  BY <1>7 DEF Send
<1>8. CASE Arrive(t)
  BY <1>8 DEF Arrive
<1>. QED  BY <1>1, <1>2, <1>3, <1>4, <1>5, <1>6, <1>7, <1>8 DEF ThreadStep

\* A thread gets its Sender when its lag is small, and uses it at most once.
LEMMA ThreadSignal ==
    ASSUME TypeOK, AccountInv, SignalInv, NEW t \in Spawned,
           ThreadStep(t) \/ ConnectFail(t) \/ Arrive(t)
    PROVE  SignalInv'
<1> USE ThreadsFinite, CatchupAssumption, LagType DEF TypeOK, SignalInv, Goto, tvars, hvars
<1>1. CASE Connect(t) \/ ConnectFail(t)
  BY <1>1 DEF Connect, ConnectFail
<1>2. CASE Poll(t)
  BY <1>2 DEF Poll
<1>3. CASE LagMeasured(t)
  BY <1>3 DEF LagMeasured, AccountInv
<1>4. CASE LagFailed(t) \/ LagSkipped(t)
  BY <1>4 DEF LagFailed, LagSkipped
<1>5. CASE Buffer(t)
  BY <1>5 DEF Buffer
<1>6. CASE Acquire(t)
  BY <1>6 DEF Acquire
<1>7. CASE StoreBatch(t)
  BY <1>7 DEF StoreBatch, AccountInv
<1>8. CASE Send(t)
  BY <1>8 DEF Send, AccountInv
<1>9. CASE Arrive(t)
  BY <1>9 DEF Arrive
<1>. QED  BY <1>1, <1>2, <1>3, <1>4, <1>5, <1>6, <1>7, <1>8, <1>9 DEF ThreadStep

-----------------------------------------------------------------------------
(* The count of the signals. *)

\* main's count and the channel's content add up to the threads that signalled,
\* unless every listener is dead.
LEMMA ThreadCount ==
    ASSUME TypeOK, SignalInv, CountInv, NEW t \in Spawned,
           ThreadStep(t) \/ ConnectFail(t) \/ Arrive(t)
    PROVE  CountInv'
<1>1. UNCHANGED <<mpc, got>> /\ t \in ThreadId
  BY ThreadsFinite DEF ThreadStep, Connect, ConnectFail, Poll, LagMeasured, LagFailed,
         LagSkipped, Buffer, Acquire, StoreBatch, Send, Arrive
<1>2. CASE Send(t)
  <2>1. /\ t \notin signalled /\ signalled' = signalled \union {t} /\ chan' = chan + 1
        /\ tpc[t] = "send" /\ tpc'[t] = "poll"
    BY <1>1, <1>2 DEF Send, SignalInv, Goto, TypeOK
  <2>2. IsFiniteSet(signalled)
    BY ThreadsFinite, FS_Subset DEF CountInv
  <2>3. Cardinality(signalled') = Cardinality(signalled) + 1
    BY <2>1, <2>2, FS_AddElement
  <2>4. ~AllDead /\ ~AllDead' /\ Cardinality(signalled) \in Nat
    BY <2>1, <2>2, FS_CardinalityType DEF AllDead
  <2>. QED  BY <1>1, <2>1, <2>3, <2>4 DEF CountInv, TypeOK
<1>3. CASE ConnectFail(t)
  <2>1. UNCHANGED <<signalled, chan, init>> /\ tpc' = [tpc EXCEPT ![t] = "dead"] /\ tpc[t] = "connect"
    BY <1>3 DEF ConnectFail, Goto, hvars, tvars
  <2>2. ~AllDead
    BY <2>1 DEF AllDead
  <2>3. CASE AllDead'
    <3>1. \A u \in Spawned : ~init[u]
      BY <2>1, <2>3, ThreadsFinite DEF AllDead, SignalInv, TypeOK
    <3>2. signalled = {}
      BY <3>1, ThreadsFinite DEF SignalInv, CountInv
    <3>3. Cardinality(signalled) = 0
      BY <3>2, FS_EmptySet
    <3>. QED  BY <1>1, <2>1, <2>2, <2>3, <3>3 DEF CountInv, TypeOK
  <2>4. CASE ~AllDead'
    BY <1>1, <2>1, <2>2, <2>4 DEF CountInv
  <2>. QED  BY <2>3, <2>4
<1>4. ASSUME ~Send(t), ~ConnectFail(t)
      PROVE  CountInv'
  <2>1. UNCHANGED <<signalled, chan>> /\ \A u \in ThreadId : tpc'[u] = "dead" <=> tpc[u] = "dead"
    BY <1>1, <1>4 DEF ThreadStep, Connect, Poll, LagMeasured, LagFailed, LagSkipped, Buffer,
           Acquire, StoreBatch, Arrive, Goto, hvars, TypeOK
  <2>2. AllDead' <=> AllDead
    BY <2>1, ThreadsFinite DEF AllDead
  <2>. QED  BY <1>1, <2>1, <2>2 DEF CountInv
<1>. QED  BY <1>2, <1>3, <1>4

\* main's steps keep the invariant: a receive moves one signal from channel to count.
LEMMA MainCatchup ==
    ASSUME CatchupInv, MainStep
    PROVE  CatchupInv'
<1>1. UNCHANGED <<tvars, permits, arrivals, hvars>>
  BY DEF MainStep, Receive, ReceiveNone, Finalize
<1>2. AccountInv' /\ SignalInv' /\ (AllDead' <=> AllDead)
  BY <1>1 DEF CatchupInv, AccountInv, SignalInv, AllDead, tvars, hvars
<1>3. TypeOK' /\ CountInv'
  <2>1. CASE Receive
    <3>1. ~AllDead
      BY <2>1 DEF Receive, CatchupInv, CountInv
    <3>. QED  BY <1>1, <1>2, <2>1, <3>1, ThreadsFinite
         DEF Receive, Counted, CatchupInv, TypeOK, CountInv, tvars, hvars
  <2>2. CASE ReceiveNone
    <3>1. AllDead
      BY <2>2 DEF ReceiveNone, AllDead
    <3>. QED  BY <1>1, <1>2, <2>2, <3>1, ThreadsFinite
         DEF ReceiveNone, Counted, CatchupInv, TypeOK, CountInv, tvars, hvars
  <2>3. CASE Finalize
    BY <1>1, <1>2, <2>3 DEF Finalize, CatchupInv, TypeOK, CountInv, tvars, hvars
  <2>. QED  BY <2>1, <2>2, <2>3 DEF MainStep
<1>. QED  BY <1>2, <1>3 DEF CatchupInv

\* CatchupInv is inductive.
LEMMA CatchupStep == CatchupInv /\ [Next]_vars => CatchupInv'
<1> SUFFICES ASSUME CatchupInv, [Next]_vars PROVE CatchupInv'
  OBVIOUS
<1>1. CASE UNCHANGED vars
  BY <1>1 DEF vars, tvars, hvars, CatchupInv, TypeOK, AccountInv, SignalInv, CountInv, AllDead
<1>2. ASSUME NEW t \in Spawned, ThreadStep(t) \/ ConnectFail(t) \/ Arrive(t)
      PROVE  CatchupInv'
  BY <1>2, ThreadType, ThreadAccount, ThreadSignal, ThreadCount DEF CatchupInv
<1>. QED  BY <1>1, <1>2, MainCatchup DEF Next

\* The types, the accounts, the Senders and the count of the signals are right in
\* every reachable state of the start-up.
THEOREM CatchupCorrect == Spec => []CatchupInv
BY CatchupInit, CatchupStep, PTL DEF Spec

\* Every variable of the start-up always has its type; in particular the channel
\* never holds more than kafka_num_threads signals (KafkaCatchup!TypeOK).
THEOREM CatchupTypeCorrect == Spec => []TypeOK
<1>1. CatchupInv => TypeOK
  BY DEF CatchupInv
<1>. QED  BY <1>1, CatchupCorrect, PTL

\* Main goes on only when every configured thread has caught up, or when none
\* is left (KafkaCatchup!ReadyCaughtUp).
THEOREM ReadyCaughtUpCorrect == Spec => []ReadyCaughtUp
<1>1. CatchupInv => ReadyCaughtUp
  <2> SUFFICES ASSUME CatchupInv, mpc # "recv", ~AllDead
               PROVE  \A t \in ThreadId : t \in signalled /\ Initial[t] - stored[t] < CatchupLag(t)
    BY DEF ReadyCaughtUp, AllDead
  <2>1. signalled \in SUBSET ThreadId /\ Cardinality(signalled) >= NumThreads
    BY ThreadsFinite DEF CatchupInv, CountInv, TypeOK
  <2>2. Cardinality(signalled) <= NumThreads /\ (Cardinality(ThreadId) = Cardinality(signalled) => ThreadId = signalled)
    BY <2>1, ThreadsFinite, FS_Subset
  <2>3. IsFiniteSet(signalled) /\ Cardinality(signalled) \in Nat
    BY <2>1, ThreadsFinite, FS_Subset, FS_CardinalityType
  <2>4. signalled = ThreadId
    BY <2>1, <2>2, <2>3, ThreadsFinite
  <2>. QED  BY <2>4 DEF CatchupInv, SignalInv
<1>. QED  BY <1>1, CatchupCorrect, PTL

\* No thread signals twice and no signal waits for room in the channel
\* (KafkaCatchup!SignalOnce).
THEOREM SignalOnceCorrect == Spec => []SignalOnce
<1>1. CatchupInv => SignalOnce
  <2> SUFFICES ASSUME CatchupInv PROVE SignalOnce
    OBVIOUS
  <2>1. IsFiniteSet(signalled) /\ Cardinality(signalled) \in Nat
    BY ThreadsFinite, FS_Subset, FS_CardinalityType DEF CatchupInv, CountInv
  <2>2. chan <= Cardinality(signalled)
    BY <2>1 DEF CatchupInv, CountInv, TypeOK
  <2>3. ASSUME NEW t \in Spawned, tpc[t] = "send"
        PROVE  t \notin signalled /\ chan < NumThreads
    <3>1. t \in ThreadId /\ t \notin signalled
      BY <2>3, ThreadsFinite DEF CatchupInv, SignalInv
    <3>2. signalled \subseteq ThreadId \ {t}
      BY <3>1 DEF CatchupInv, TypeOK
    <3>3. IsFiniteSet(ThreadId \ {t}) /\ Cardinality(ThreadId \ {t}) = NumThreads - 1
      BY <3>1, ThreadsFinite, FS_RemoveElement
    <3>4. Cardinality(signalled) <= NumThreads - 1
      BY <3>2, <3>3, FS_Subset
    <3>. QED  BY <2>1, <2>2, <3>1, <3>4, ThreadsFinite DEF CatchupInv, TypeOK
  <2>. QED  BY <2>2, <2>3 DEF SignalOnce
<1>. QED  BY <1>1, CatchupCorrect, PTL
=============================================================================
