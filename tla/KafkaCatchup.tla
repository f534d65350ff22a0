---------------------------- MODULE KafkaCatchup ----------------------------
(***************************************************************************)
(* How thunder starts up: main waits for one catch-up signal per           *)
(* configured Kafka thread, finalises the store and declares itself ready; *)
(* each listener thread (process_tweet_events_v2) polls, measures its lag, *)
(* buffers, stores full batches and signals.  Serving mode only.           *)
(* A failed poll changes nothing but the time; it is not a step.           *)
(*                                                                         *)
(* Messages are counted, not named.  A message counts as stored once its   *)
(* batch was taken out of the buffer and handed to the store: a message    *)
(* that does not parse, and the rest of a batch whose task panics, end     *)
(* there too, because the result of the task is ignored.                   *)
(***************************************************************************)
EXTENDS Integers, FiniteSets

CONSTANTS
    NumThreads,     \* kafka_num_threads
    NumPartitions,  \* kafka_tweet_events_v2_num_partitions
    BatchSize,      \* kafka_batch_size
    Initial,        \* messages waiting for each thread when the process starts
    Permits,        \* size of the semaphore: 3
    MaxArrivals     \* bound: messages produced later, in all

ThreadId == 0 .. NumThreads - 1

ASSUME CatchupAssumption ==
    /\ NumThreads \in Nat \ {0} /\ NumPartitions \in Nat \ {0} /\ BatchSize \in Nat \ {0}
    /\ Initial \in [ThreadId -> Nat]
    /\ MaxArrivals \in Nat /\ Permits \in Nat \ {0}

DivCeil(a, b) == (a + b - 1) \div b
PartitionsPerThread == DivCeil(NumPartitions, NumThreads)

\* The partitions of thread t; the loop stops at the first thread without any.
StartIdx(t) == t * PartitionsPerThread
EndIdx(t) ==
    LET end == (t + 1) * PartitionsPerThread
    IN  IF end < NumPartitions THEN end ELSE NumPartitions
Spawned == {t \in ThreadId : StartIdx(t) < NumPartitions}
Lags(t) == EndIdx(t) - StartIdx(t)
CatchupLag(t) == Lags(t) * BatchSize

VARIABLES
    tpc,        \* where each listener thread is
    backlog,    \* messages on its partitions it has not consumed: its total lag
    polled,     \* messages of the poll being handled
    buffer,     \* message_buffer
    init,       \* init_data_downloaded
    sender,     \* catchup_sender is Some
    permits,    \* the semaphore
    chan,       \* signals in the channel
    mpc, got,   \* main, and the iterations of its receive loop
    arrivals,
    stored,     \* history: messages taken out of the buffer for the store
    signalled,  \* history: threads whose signal was sent
    dropped     \* history: threads whose catchup_sender was dropped unused

tvars == <<tpc, backlog, polled, buffer, init, sender>>
hvars == <<stored, signalled, dropped>>
vars == <<tvars, permits, chan, mpc, got, arrivals, hvars>>

Goto(t, l) == tpc' = [tpc EXCEPT ![t] = l]

-----------------------------------------------------------------------------
Connect(t) ==
    /\ tpc[t] = "connect"
    /\ Goto(t, "poll")
    /\ UNCHANGED <<backlog, polled, buffer, init, sender, permits, chan, mpc, got, arrivals, hvars>>

\* No consumer: the task panics, and its Sender goes with it.
ConnectFail(t) ==
    /\ tpc[t] = "connect"
    /\ Goto(t, "dead")
    /\ UNCHANGED <<backlog, polled, buffer, init, sender, permits, chan, mpc, got, arrivals, hvars>>

\* A poll returns at most batch_size messages, and some if there are any.
Poll(t) ==
    /\ tpc[t] = "poll"
    /\ \E n \in 0 .. BatchSize :
        /\ n <= backlog[t]
        /\ backlog[t] > 0 => n > 0
        /\ polled' = [polled EXCEPT ![t] = n]
        /\ backlog' = [backlog EXCEPT ![t] = @ - n]
    /\ Goto(t, "lag")
    /\ UNCHANGED <<buffer, init, sender, permits, chan, mpc, got, arrivals, hvars>>

\* Mutant of LagMeasured: a lag equal to the threshold is small enough.
MutLagMeasured(t) ==
    /\ tpc[t] = "lag" /\ ~init[t]
    /\ init' = [init EXCEPT ![t] = backlog[t] <= CatchupLag(t)]
    /\ sender' = [sender EXCEPT ![t] = backlog[t] <= CatchupLag(t)]
    /\ Goto(t, "buffer")
    /\ UNCHANGED <<backlog, polled, buffer, permits, chan, mpc, got, arrivals, hvars>>

\* The lag is asked for until it is small for the first time.
LagMeasured(t) ==
    /\ tpc[t] = "lag" /\ ~init[t]
    /\ init' = [init EXCEPT ![t] = backlog[t] < CatchupLag(t)]
    /\ sender' = [sender EXCEPT ![t] = backlog[t] < CatchupLag(t)]
    /\ Goto(t, "buffer")
    /\ UNCHANGED <<backlog, polled, buffer, permits, chan, mpc, got, arrivals, hvars>>

\* The broker cannot tell: asked again after the next poll.
LagFailed(t) ==
    /\ tpc[t] = "lag" /\ ~init[t]
    /\ Goto(t, "buffer")
    /\ UNCHANGED <<backlog, polled, buffer, init, sender, permits, chan, mpc, got, arrivals, hvars>>

\* Caught up: nobody asks any more.
LagSkipped(t) ==
    /\ tpc[t] = "lag" /\ init[t]
    /\ Goto(t, "buffer")
    /\ UNCHANGED <<backlog, polled, buffer, init, sender, permits, chan, mpc, got, arrivals, hvars>>

\* Mutant of Buffer: a batch must exceed batch_size.
MutBuffer(t) ==
    /\ tpc[t] = "buffer"
    /\ buffer' = [buffer EXCEPT ![t] = @ + polled[t]]
    /\ polled' = [polled EXCEPT ![t] = 0]
    /\ IF buffer'[t] > BatchSize
       THEN Goto(t, "permit") /\ UNCHANGED <<sender, dropped>>
       ELSE /\ Goto(t, "poll")
            /\ sender' = [sender EXCEPT ![t] = FALSE]
            /\ dropped' = IF sender[t] THEN dropped \union {t} ELSE dropped
    /\ UNCHANGED <<backlog, init, permits, chan, mpc, got, arrivals, stored, signalled>>

\* Too few messages for a batch: the next poll, and catchup_sender is dropped.
Buffer(t) ==
    /\ tpc[t] = "buffer"
    /\ buffer' = [buffer EXCEPT ![t] = @ + polled[t]]
    /\ polled' = [polled EXCEPT ![t] = 0]
    /\ IF buffer'[t] >= BatchSize
       THEN Goto(t, "permit") /\ UNCHANGED <<sender, dropped>>
       ELSE /\ Goto(t, "poll")
            /\ sender' = [sender EXCEPT ![t] = FALSE]
            /\ dropped' = IF sender[t] THEN dropped \union {t} ELSE dropped
    /\ UNCHANGED <<backlog, init, permits, chan, mpc, got, arrivals, stored, signalled>>

\* Once caught up, a thread needs a permit to store a batch.
Acquire(t) ==
    /\ tpc[t] = "permit"
    /\ init[t] => permits > 0
    /\ permits' = IF init[t] THEN permits - 1 ELSE permits
    /\ Goto(t, "batch")
    /\ UNCHANGED <<backlog, polled, buffer, init, sender, chan, mpc, got, arrivals, hvars>>

\* Mutant of StoreBatch: signals with every batch stored after the catch-up.
MutResend(t) ==
    /\ tpc[t] = "batch"
    /\ stored' = [stored EXCEPT ![t] = @ + buffer[t]]
    /\ buffer' = [buffer EXCEPT ![t] = 0]
    /\ permits' = IF init[t] THEN permits + 1 ELSE permits
    /\ Goto(t, IF init[t] THEN "send" ELSE "poll")
    /\ UNCHANGED <<backlog, polled, init, sender, chan, mpc, got, arrivals, signalled, dropped>>

\* Mutant of StoreBatch: the permit is never returned.
MutKeepPermit(t) ==
    /\ tpc[t] = "batch"
    /\ stored' = [stored EXCEPT ![t] = @ + buffer[t]]
    /\ buffer' = [buffer EXCEPT ![t] = 0]
    /\ Goto(t, IF sender[t] THEN "send" ELSE "poll")
    /\ UNCHANGED <<backlog, polled, init, sender, permits, chan, mpc, got, arrivals, signalled,
                   dropped>>

\* insert_posts and mark_as_deleted of the whole buffer; the permit is returned.
\* A batch with a malformed message is given up, with a warning or a panic of
\* the blocking task, which is ignored: the step is the same.
StoreBatch(t) ==
    /\ tpc[t] = "batch"
    /\ stored' = [stored EXCEPT ![t] = @ + buffer[t]]
    /\ buffer' = [buffer EXCEPT ![t] = 0]
    /\ permits' = IF init[t] THEN permits + 1 ELSE permits
    /\ Goto(t, IF sender[t] THEN "send" ELSE "poll")
    /\ UNCHANGED <<backlog, polled, init, sender, chan, mpc, got, arrivals, signalled, dropped>>

\* The channel holds kafka_num_threads signals.
Send(t) ==
    /\ tpc[t] = "send"
    /\ chan < NumThreads
    /\ chan' = chan + 1
    /\ sender' = [sender EXCEPT ![t] = FALSE]
    /\ signalled' = signalled \union {t}
    /\ Goto(t, "poll")
    /\ UNCHANGED <<backlog, polled, buffer, init, permits, mpc, got, arrivals, stored, dropped>>

-----------------------------------------------------------------------------
(* main *)

\* Mutant of Counted: one iteration of the loop too many.
MutCounted == mpc' = IF got = NumThreads THEN "finalize" ELSE "recv"

Counted == mpc' = IF got + 1 = NumThreads THEN "finalize" ELSE "recv"

Receive ==
    /\ mpc = "recv" /\ chan > 0
    /\ chan' = chan - 1
    /\ got' = got + 1
    /\ Counted
    /\ UNCHANGED <<tvars, permits, arrivals, hvars>>

\* Every Sender is gone: recv returns None, and the loop counts it all the same.
ReceiveNone ==
    /\ mpc = "recv" /\ chan = 0
    /\ \A t \in Spawned : tpc[t] = "dead"
    /\ got' = got + 1
    /\ Counted
    /\ UNCHANGED <<tvars, permits, chan, arrivals, hvars>>

\* finalize_init, the stats logger, the auto-trim task, set_readiness(true).
Finalize ==
    /\ mpc = "finalize"
    /\ mpc' = "ready"
    /\ UNCHANGED <<tvars, permits, chan, got, arrivals, hvars>>

\* Producers keep writing to the topic.
Arrive(t) ==
    /\ arrivals < MaxArrivals
    /\ arrivals' = arrivals + 1
    /\ backlog' = [backlog EXCEPT ![t] = @ + 1]
    /\ UNCHANGED <<tpc, polled, buffer, init, sender, permits, chan, mpc, got, hvars>>

Init ==
    /\ tpc = [t \in ThreadId |-> "connect"]
    /\ backlog = Initial
    /\ polled = [t \in ThreadId |-> 0]
    /\ buffer = [t \in ThreadId |-> 0]
    /\ init = [t \in ThreadId |-> FALSE]
    /\ sender = [t \in ThreadId |-> FALSE]
    /\ permits = Permits
    /\ chan = 0 /\ mpc = "recv" /\ got = 0 /\ arrivals = 0
    /\ stored = [t \in ThreadId |-> 0]
    /\ signalled = {} /\ dropped = {}

ThreadStep(t) ==
    \/ Connect(t) \/ Poll(t) \/ LagMeasured(t) \/ LagFailed(t) \/ LagSkipped(t) \/ Buffer(t)
    \/ Acquire(t) \/ StoreBatch(t) \/ Send(t)

MainStep == Receive \/ ReceiveNone \/ Finalize

Next ==
    \/ \E t \in Spawned : ThreadStep(t) \/ ConnectFail(t) \/ Arrive(t)
    \/ MainStep

Spec == Init /\ [][Next]_vars

\* The runtime schedules every task, tokio's semaphore is first come first
\* served, and the broker does not refuse to report a lag for ever.
FairSpec ==
    /\ Spec
    /\ \A t \in Spawned :
        /\ WF_vars(ThreadStep(t))
        /\ SF_vars(Acquire(t))
        /\ SF_vars(LagMeasured(t))
    /\ WF_vars(MainStep)

-----------------------------------------------------------------------------
TypeOK ==
    /\ tpc \in [ThreadId -> {"connect", "poll", "lag", "buffer", "permit", "batch", "send", "dead"}]
    /\ backlog \in [ThreadId -> Nat] /\ polled \in [ThreadId -> 0 .. BatchSize]
    /\ buffer \in [ThreadId -> Nat]
    /\ init \in [ThreadId -> BOOLEAN] /\ sender \in [ThreadId -> BOOLEAN]
    /\ permits \in Nat
    /\ chan \in 0 .. NumThreads /\ got \in 0 .. NumThreads /\ arrivals \in Nat
    /\ mpc \in {"recv", "finalize", "ready"}
    /\ stored \in [ThreadId -> Nat]
    /\ signalled \subseteq ThreadId /\ dropped \subseteq ThreadId

\* When main goes on, every configured thread has signalled and what was
\* waiting for it at the start has been handed to the store but for less than
\* one batch per partition; or no listener is left at all.
ReadyCaughtUp ==
    mpc # "recv" =>
        \/ \A t \in ThreadId : t \in signalled /\ Initial[t] - stored[t] < CatchupLag(t)
        \/ \A t \in Spawned : tpc[t] = "dead"

\* A thread signals at most once, and no signal ever waits for the channel:
\* the capacity is kafka_num_threads.
SignalOnce ==
    /\ chan <= Cardinality(signalled)
    /\ \A t \in Spawned : tpc[t] = "send" => t \notin signalled /\ chan < NumThreads

\* The start-up ends, unless a thread had no consumer, fell short of a batch
\* when it caught up (its signal is dropped), or was never spawned.
ReadyUnlessDropped ==
    <>(\/ mpc = "ready"
       \/ dropped # {}
       \/ \E t \in ThreadId : tpc[t] = "dead" \/ t \notin Spawned)

\* Once producers are quiet, a living thread has nothing left to consume and
\* less than one batch in its buffer, whether or not main goes on: permits,
\* the channel, failed batches and lag queries stop nobody.
Consumed ==
    \A t \in Spawned :
        <>[](\/ tpc[t] = "dead"
             \/ backlog[t] = 0 /\ polled[t] = 0 /\ buffer[t] < BatchSize)

\* "Wait for Kafka catchup signal": the wait ends once every listener thread
\* runs and has consumed its topic.
EventuallyReady ==
    <>(mpc = "ready" \/ \E t \in ThreadId : tpc[t] = "dead")
=============================================================================
