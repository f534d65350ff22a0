-------------------------------- MODULE Feeder --------------------------------
(***************************************************************************)
(* The feeder: thunder in non-serving mode (tweet_events_listener.rs).     *)
(* Each thread polls raw tweet events, turns a full buffer into in-network *)
(* events, sends each of them from a task of its own, waits for the tasks  *)
(* and commits its offsets.  A send that fails is only logged.  An error   *)
(* or a panic ends a thread but not the process; a crash or a restart of   *)
(* the process sends the threads back to the committed offsets.            *)
(*                                                                         *)
(* The partitions of one thread are one log.  How they are divided among   *)
(* threads is KafkaCatchup's Spawned.  A failed poll changes nothing.      *)
(* The consumer starts at the committed offsets (skip_to_latest is off).   *)
(***************************************************************************)
EXTENDS Integers, Sequences, FiniteSets

CONSTANTS
    Thread, Post,
    Log,          \* Log[t]: the events of the partitions of thread t
    CreatedAt,
    BatchSize,    \* kafka_batch_size
    Retention,    \* post_retention_seconds
    MaxSkew,      \* how far this host's clock may run ahead of the store's
    MaxTime,      \* bound: the clock stops here
    MaxRestarts   \* bound: crashes and restarts of the process

\* "ignored" is what the batch skips: nullcast posts, other events, messages
\* that do not parse.  "malformed" parses, but lacks a field the code unwraps.
Event == [kind : {"create", "delete", "quote_delete", "ignored", "malformed"}, post : Post]

ASSUME FeederAssumption ==
    /\ Log \in [Thread -> Seq(Event)]
    /\ CreatedAt \in [Post -> Nat]
    /\ BatchSize \in Nat \ {0} /\ Retention \in Nat /\ MaxSkew \in Nat
    /\ MaxTime \in Nat /\ MaxRestarts \in Nat

VARIABLES
    fpc,        \* where each thread is
    arrived,    \* events that have arrived on its partitions
    position,   \* events polled; those after the committed ones are message_buffer
    committed,  \* the committed offset
    inflight,   \* the messages its send tasks have in hand
    topic,      \* the in-network events delivered
    failed,     \* history: events whose send was reported failed, as <<thread, index>>
    sent,       \* history: how often the send of each event was begun
    now,        \* the store's clock
    restarts

vars == <<fpc, arrived, position, committed, inflight, topic, failed, sent, now, restarts>>

Index(t) == 1 .. Len(Log[t])
Kind(t, i) == Log[t][i].kind
Created(t, i) == CreatedAt[Log[t][i].post]
Message == UNION {[thread : {t}, index : Index(t), at : 0 .. MaxTime + MaxSkew] : t \in Thread}

Goto(t, l) == fpc' = [fpc EXCEPT ![t] = l]
Buffered(t) == committed[t] + 1 .. position[t]

\* What becomes of an event depends on its kind and, for a deletion, on the
\* age of the post by the feeder's clock; the deletions of quotes are not tested.
Relevant(t, i, clock) ==
    \/ Kind(t, i) \in {"create", "quote_delete"}
    \/ Kind(t, i) = "delete" /\ clock - Created(t, i) <= Retention

\* Creations carry the time of the post, deletions that of the batch.
Stamp(t, i, clock) == IF Kind(t, i) = "create" THEN Created(t, i) ELSE clock
Messages(t, clock) ==
    {[thread |-> t, index |-> i, at |-> Stamp(t, i, clock)] :
        i \in {j \in Buffered(t) : Relevant(t, j, clock)}}

-----------------------------------------------------------------------------
\* create_kafka_consumer.
Connect(t) ==
    /\ fpc[t] = "start"
    /\ Goto(t, "poll")
    /\ UNCHANGED <<arrived, position, committed, inflight, topic, failed, sent, now, restarts>>

ConnectFail(t) ==
    /\ fpc[t] = "start"
    /\ Goto(t, "dead")
    /\ UNCHANGED <<arrived, position, committed, inflight, topic, failed, sent, now, restarts>>

\* Mutant of Poll: it waits for more than a full buffer.
MutPoll(t) ==
    /\ fpc[t] = "poll"
    /\ \E n \in position[t] + 1 .. arrived[t] :
        /\ position' = [position EXCEPT ![t] = n]
        /\ Goto(t, IF n - committed[t] > BatchSize THEN "batch" ELSE "poll")
    /\ UNCHANGED <<arrived, committed, inflight, topic, failed, sent, now, restarts>>

\* A poll returns some of the events that have arrived; a full buffer is processed.
Poll(t) ==
    /\ fpc[t] = "poll"
    /\ \E n \in position[t] + 1 .. arrived[t] :
        /\ position' = [position EXCEPT ![t] = n]
        /\ Goto(t, IF n - committed[t] >= BatchSize THEN "batch" ELSE "poll")
    /\ UNCHANGED <<arrived, committed, inflight, topic, failed, sent, now, restarts>>

\* Mutant of Process: deletions are stamped by a clock behind the store's.
MutProcess(t) ==
    /\ fpc[t] = "batch"
    /\ \A i \in Buffered(t) : Kind(t, i) # "malformed"
    /\ \E clock \in 0 .. now : inflight' = [inflight EXCEPT ![t] = Messages(t, clock)]
    /\ sent' = [sent EXCEPT ![t] = [i \in Index(t) |-> IF i \in Buffered(t) THEN @[i] + 1 ELSE @[i]]]
    /\ Goto(t, "send")
    /\ UNCHANGED <<arrived, position, committed, topic, failed, now, restarts>>

\* The batch is converted by one reading of the clock; then all sends begin.
Process(t) ==
    /\ fpc[t] = "batch"
    /\ \A i \in Buffered(t) : Kind(t, i) # "malformed"
    /\ \E clock \in now .. now + MaxSkew : inflight' = [inflight EXCEPT ![t] = Messages(t, clock)]
    /\ sent' = [sent EXCEPT ![t] = [i \in Index(t) |-> IF i \in Buffered(t) THEN @[i] + 1 ELSE @[i]]]
    /\ Goto(t, "send")
    /\ UNCHANGED <<arrived, position, committed, topic, failed, now, restarts>>

\* One malformed event: the conversion panics before anything was sent.
ProcessPanic(t) ==
    /\ fpc[t] = "batch"
    /\ \E i \in Buffered(t) : Kind(t, i) = "malformed"
    /\ Goto(t, "dead")
    /\ UNCHANGED <<arrived, position, committed, inflight, topic, failed, sent, now, restarts>>

\* A send ends: the message is delivered; or an error is logged, and the
\* message may have been delivered all the same.
SendEnds(t, m) ==
    /\ m \in inflight[t]
    /\ inflight' = [inflight EXCEPT ![t] = @ \ {m}]
    /\ \/ topic' = topic \union {m} /\ UNCHANGED failed
       \/ topic' \in {topic, topic \union {m}} /\ failed' = failed \union {<<t, m.index>>}
    /\ UNCHANGED <<fpc, arrived, position, committed, sent, now, restarts>>

\* Mutant of Commit: it does not wait for the send tasks.
MutCommit(t) ==
    /\ fpc[t] = "send"
    /\ committed' = [committed EXCEPT ![t] = position[t]]
    /\ Goto(t, "poll")
    /\ UNCHANGED <<arrived, position, inflight, topic, failed, sent, now, restarts>>

\* Mutant of Commit: the batch stays in message_buffer and is not committed.
MutCommitKeeps(t) ==
    /\ fpc[t] = "send" /\ inflight[t] = {}
    /\ Goto(t, "poll")
    /\ UNCHANGED <<arrived, position, committed, inflight, topic, failed, sent, now, restarts>>

\* All send tasks have ended; the offsets of what was polled are committed.
Commit(t) ==
    /\ fpc[t] = "send" /\ inflight[t] = {}
    /\ committed' = [committed EXCEPT ![t] = position[t]]
    /\ Goto(t, "poll")
    /\ UNCHANGED <<arrived, position, inflight, topic, failed, sent, now, restarts>>

\* The commit errs, and may have happened all the same: the thread panics.
CommitFail(t) ==
    /\ fpc[t] = "send" /\ inflight[t] = {}
    /\ committed' \in {committed, [committed EXCEPT ![t] = position[t]]}
    /\ Goto(t, "dead")
    /\ UNCHANGED <<arrived, position, inflight, topic, failed, sent, now, restarts>>

ThreadStep(t) ==
    \/ Connect(t) \/ ConnectFail(t) \/ Poll(t) \/ Process(t) \/ ProcessPanic(t)
    \/ Commit(t) \/ CommitFail(t)

\* Mutant of Restart: the consumers go back to the beginning of their logs.
MutRestart ==
    /\ restarts < MaxRestarts
    /\ restarts' = restarts + 1
    /\ fpc' = [t \in Thread |-> "start"]
    /\ position' = [t \in Thread |-> 0]
    /\ \E D \in SUBSET UNION {inflight[t] : t \in Thread} : topic' = topic \union D
    /\ inflight' = [t \in Thread |-> {}]
    /\ UNCHANGED <<arrived, committed, failed, sent, now>>

\* The process ends at any moment and is started again.  What its tasks had in
\* hand may or may not be delivered.
Restart ==
    /\ restarts < MaxRestarts
    /\ restarts' = restarts + 1
    /\ fpc' = [t \in Thread |-> "start"]
    /\ position' = committed
    /\ \E D \in SUBSET UNION {inflight[t] : t \in Thread} : topic' = topic \union D
    /\ inflight' = [t \in Thread |-> {}]
    /\ UNCHANGED <<arrived, committed, failed, sent, now>>

\* An event is produced, not before the post it is about.
Arrive(t) ==
    /\ arrived[t] < Len(Log[t])
    /\ Created(t, arrived[t] + 1) <= now
    /\ arrived' = [arrived EXCEPT ![t] = @ + 1]
    /\ UNCHANGED <<fpc, position, committed, inflight, topic, failed, sent, now, restarts>>

Tick ==
    /\ now < MaxTime
    /\ now' = now + 1
    /\ UNCHANGED <<fpc, arrived, position, committed, inflight, topic, failed, sent, restarts>>

-----------------------------------------------------------------------------
Init ==
    /\ fpc = [t \in Thread |-> "start"]
    /\ arrived = [t \in Thread |-> 0]
    /\ position = [t \in Thread |-> 0] /\ committed = [t \in Thread |-> 0]
    /\ inflight = [t \in Thread |-> {}]
    /\ topic = {} /\ failed = {}
    /\ sent = [t \in Thread |-> [i \in Index(t) |-> 0]]
    /\ now = 0 /\ restarts = 0

Next ==
    \/ \E t \in Thread : ThreadStep(t) \/ Arrive(t)
    \/ \E t \in Thread : \E m \in inflight[t] : SendEnds(t, m)
    \/ Restart \/ Tick

Spec == Init /\ [][Next]_vars

\* The runtime schedules the threads and their send tasks, and a send ends with
\* success or an error.  Nothing makes events arrive or the process restart.
FairSpec ==
    /\ Spec
    /\ \A t \in Thread :
        /\ WF_vars(ThreadStep(t))
        /\ WF_vars(\E m \in inflight[t] : SendEnds(t, m))

-----------------------------------------------------------------------------
TypeOK ==
    /\ fpc \in [Thread -> {"start", "poll", "batch", "send", "dead"}]
    /\ arrived \in [Thread -> Nat] /\ position \in [Thread -> Nat] /\ committed \in [Thread -> Nat]
    /\ \A t \in Thread :
        committed[t] <= position[t] /\ position[t] <= arrived[t] /\ arrived[t] <= Len(Log[t])
    /\ inflight \in [Thread -> SUBSET Message]
    /\ topic \subseteq Message
    /\ failed \subseteq UNION {{t} \X Index(t) : t \in Thread}
    /\ DOMAIN sent = Thread /\ \A t \in Thread : sent[t] \in [Index(t) -> Nat]
    /\ now \in 0 .. MaxTime /\ restarts \in 0 .. MaxRestarts

\* There is nothing to say about an event (any more).
Silence(t, i) ==
    \/ Kind(t, i) = "ignored"
    \/ Kind(t, i) = "delete" /\ now + MaxSkew - Created(t, i) > Retention

\* What the feeder owes about an event is done: it was delivered, or its send
\* was reported failed, or there is nothing to say about it (any more).
Settled(t, i) ==
    \/ \E m \in topic : m.thread = t /\ m.index = i
    \/ <<t, i>> \in failed
    \/ Silence(t, i)

\* At least once: no event before the committed offset is lost without an error
\* having been logged, whatever crashes, however the batches fall; and no
\* thread ever gets past an event that makes it panic.
NothingLost == \A t \in Thread : \A i \in 1 .. committed[t] : Settled(t, i)

\* One malformed event stops its thread for good: neither it nor anything behind
\* it is ever sent, delivered or committed, in whatever batches it falls.
MalformedStops ==
    \A t \in Thread : \A i \in Index(t) : (\E j \in 1 .. i : Kind(t, j) = "malformed") =>
        /\ sent[t][i] = 0 /\ i > committed[t]
        /\ \A m \in topic : m.thread = t => m.index # i

\* What the feeder owes, in whatever order its threads run and wherever it
\* crashes, is what FeedChannel says.
Events == UNION {{t} \X Index(t) : t \in Thread}
Channel == INSTANCE FeedChannel WITH
    Source <- Thread, Length <- [t \in Thread |-> Len(Log[t])],
    Waivable <- {e \in Events : Kind(e[1], e[2]) \in {"ignored", "delete"}},
    produced <- arrived, acked <- committed,
    delivered <- {<<m.thread, m.index>> : m \in topic}, reported <- failed,
    waived <- {e \in Events : Silence(e[1], e[2])},
    attempts <- sent, lives <- 1 + restarts
ChannelSpec == Channel!Spec

\* At most once but for restarts: only they send an event again, once each.
Redelivered == \A t \in Thread : \A i \in Index(t) : sent[t][i] <= 1 + restarts

\* What PostStore takes for granted of deletions (its DeleteEvents): they are
\* stamped no earlier than their post and at most MaxSkew ahead of the store.
StampsFit ==
    \A m \in topic :
        /\ m.at <= now + MaxSkew
        /\ m.at >= Created(m.thread, m.index)

\* In the end everything is relayed but for less than one batch per thread, if
\* the thread lives.
Relayed ==
    <>[](\A t \in Thread : fpc[t] = "dead" \/ arrived[t] - committed[t] < BatchSize)
=============================================================================
