----------------------------- MODULE FeederProofs -----------------------------
(***************************************************************************)
(* Proofs about Feeder, for any logs, threads, batch size, retention, skew *)
(* of the clocks and number of restarts.  A batch whose sends have begun   *)
(* is settled or in the hands of the send tasks (SendInv); what they hold  *)
(* is stamped as it should be (FlightInv); and of what this incarnation of *)
(* the process has not yet begun to send, only earlier ones sent copies    *)
(* (CountInv).  What the tasks hold is of the uncommitted batch, and has   *)
(* been sent for (OpenInv): so a delivery is never of a committed event,   *)
(* and the feeder implements FeedChannel.                                  *)
(***************************************************************************)
EXTENDS Feeder, TLAPS

\* Nothing arrives before the post it is about.
ArrivedInv == \A t \in Thread : \A i \in 1 .. arrived[t] : Created(t, i) <= now

\* Only a thread that waits for its sends has some, each with a fit stamp.
FlightInv ==
    \A t \in Thread : \A m \in inflight[t] :
        /\ fpc[t] = "send" /\ m.thread = t
        /\ m.at <= now + MaxSkew /\ m.at >= Created(t, m.index)

\* Of a batch being sent, every event is settled or in a task's hands.
SendInv ==
    \A t \in Thread : fpc[t] = "send" =>
        \A i \in Buffered(t) : Settled(t, i) \/ \E m \in inflight[t] : m.index = i

\* What this incarnation of the process has not begun to send.
Unsent(t, i) ==
    \/ fpc[t] \in {"start", "poll", "batch"} /\ i > committed[t]
    \/ fpc[t] = "send" /\ i > position[t]

CountInv ==
    \A t \in Thread : \A i \in Index(t) :
        /\ sent[t][i] <= 1 + restarts
        /\ Unsent(t, i) => sent[t][i] <= restarts

\* A batch being sent has been sent for, and the tasks hold nothing else.
OpenInv ==
    \A t \in Thread :
        /\ fpc[t] = "send" => \A i \in Buffered(t) : sent[t][i] > 0
        /\ \A m \in inflight[t] : m.index \in Buffered(t)

FeederInv ==
    TypeOK /\ ArrivedInv /\ FlightInv /\ SendInv /\ CountInv /\ OpenInv
    /\ NothingLost /\ StampsFit

-----------------------------------------------------------------------------
\* An event of a log has a kind, and its post a time.
LEMMA EventType ==
    ASSUME NEW t \in Thread, NEW i \in Index(t)
    PROVE  /\ Len(Log[t]) \in Nat /\ i \in Nat
           /\ Kind(t, i) \in {"create", "delete", "quote_delete", "ignored", "malformed"}
           /\ Created(t, i) \in Nat
<1>1. Log[t] \in Seq(Event)
  BY FeederAssumption
<1>2. Len(Log[t]) \in Nat /\ i \in 1 .. Len(Log[t])
  BY <1>1 DEF Index
<1>3. Log[t][i] \in Event
  BY <1>1, <1>2
<1>. QED  BY <1>2, <1>3, FeederAssumption DEF Event, Kind, Created

LEMMA LogType ==
    ASSUME NEW t \in Thread
    PROVE  Len(Log[t]) \in Nat /\ Index(t) = 1 .. Len(Log[t])
<1>1. Log[t] \in Seq(Event)
  BY FeederAssumption
<1>. QED  BY <1>1 DEF Index

\* The offsets of a thread are in order, within its log.
LEMMA Offsets ==
    ASSUME TypeOK, NEW t \in Thread
    PROVE  /\ committed[t] \in Nat /\ position[t] \in Nat /\ committed[t] <= position[t]
           /\ \A i \in 1 .. position[t] : i \in Index(t) /\ i \in 1 .. arrived[t]
           /\ Buffered(t) \subseteq 1 .. position[t]
<1>1. /\ committed[t] \in Nat /\ position[t] \in Nat /\ arrived[t] \in Nat
      /\ committed[t] <= position[t] /\ position[t] <= arrived[t] /\ arrived[t] <= Len(Log[t])
  BY DEF TypeOK
<1>2. \A i \in 1 .. position[t] : i \in Index(t) /\ i \in 1 .. arrived[t]
  BY <1>1, LogType
<1>3. Buffered(t) \subseteq 1 .. position[t]
  BY <1>1 DEF Buffered
<1>. QED  BY <1>1, <1>2, <1>3

\* What a message is made of.
LEMMA MessageType ==
    /\ \A m \in Message :
        m.thread \in Thread /\ m.index \in Index(m.thread) /\ m.at \in 0 .. MaxTime + MaxSkew
    /\ \A t \in Thread : \A i \in Index(t) : \A a \in 0 .. MaxTime + MaxSkew :
        [thread |-> t, index |-> i, at |-> a] \in Message
  BY DEF Message

\* The messages of a batch (process_message_batch) are messages, for events in
\* the buffer, and stamped between the time of the post and the batch's clock.
LEMMA BatchMessages ==
    ASSUME TypeOK, ArrivedInv, NEW t \in Thread, NEW clock \in now .. now + MaxSkew,
           NEW m \in Messages(t, clock)
    PROVE  /\ m \in Message /\ m.thread = t /\ m.index \in Buffered(t)
           /\ m.at <= now + MaxSkew /\ m.at >= Created(t, m.index)
<1>1. PICK i \in Buffered(t) : m = [thread |-> t, index |-> i, at |-> Stamp(t, i, clock)]
  BY DEF Messages
<1>2. /\ committed[t] \in Nat /\ position[t] \in Nat /\ arrived[t] \in Nat
      /\ position[t] <= arrived[t] /\ arrived[t] <= Len(Log[t])
      /\ now \in 0 .. MaxTime /\ MaxTime \in Nat /\ MaxSkew \in Nat
  BY FeederAssumption DEF TypeOK
<1>3. i \in Index(t) /\ i \in 1 .. arrived[t]
  BY <1>2, LogType DEF Buffered
<1>4. Created(t, i) \in Nat /\ Created(t, i) <= now
  BY <1>3, EventType DEF ArrivedInv
<1>5. Stamp(t, i, clock) \in Created(t, i) .. now + MaxSkew
  BY <1>2, <1>4 DEF Stamp
<1>6. Stamp(t, i, clock) \in 0 .. MaxTime + MaxSkew
  BY <1>2, <1>4, <1>5
<1>. QED  BY <1>1, <1>3, <1>2, <1>4, <1>5, <1>6, MessageType

\* What a batch leaves out by its clock needs no message.
LEMMA Irrelevant ==
    ASSUME TypeOK, NEW t \in Thread, NEW i \in Index(t), NEW clock \in now .. now + MaxSkew,
           Kind(t, i) # "malformed", ~Relevant(t, i, clock)
    PROVE  Settled(t, i)
<1>1. /\ Created(t, i) \in Nat /\ now \in Nat /\ MaxSkew \in Nat /\ Retention \in Nat
      /\ Kind(t, i) \in {"create", "delete", "quote_delete", "ignored", "malformed"}
  BY EventType, FeederAssumption DEF TypeOK
<1>2. Kind(t, i) = "ignored" \/ Kind(t, i) = "delete"
  BY <1>1 DEF Relevant
<1>3. CASE Kind(t, i) = "delete"
  <2>1. clock - Created(t, i) > Retention
    BY <1>1, <1>3 DEF Relevant
  <2>. QED  BY <1>1, <1>3, <2>1 DEF Settled, Silence
<1>. QED  BY <1>2, <1>3 DEF Settled, Silence

\* Deliveries, reported failures and time are never taken back, so what is
\* settled stays settled.
LEMMA SettledStays ==
    ASSUME TypeOK, TypeOK', topic \subseteq topic', failed \subseteq failed', now <= now',
           NEW t \in Thread, NEW i \in Index(t), Settled(t, i)
    PROVE  Settled(t, i)'
<1>1. Created(t, i) \in Nat /\ Retention \in Nat /\ MaxSkew \in Nat /\ now \in Nat /\ now' \in Nat
  BY EventType, FeederAssumption DEF TypeOK
<1>. QED  BY <1>1 DEF Settled, Silence, Kind, Created

LEMMA Grows ==
    ASSUME TypeOK, [Next]_vars
    PROVE  topic \subseteq topic' /\ failed \subseteq failed' /\ now <= now'
<1>. now \in Nat
  BY FeederAssumption DEF TypeOK
<1>. QED  BY DEF Next, vars, ThreadStep, Connect, ConnectFail, Poll, Process, ProcessPanic, Commit,
       CommitFail, SendEnds, Restart, Arrive, Tick

-----------------------------------------------------------------------------
\* When the feeder is started nothing has arrived and nothing is owed.
LEMMA FeederInit == Init => FeederInv
<1> SUFFICES ASSUME Init PROVE FeederInv
  OBVIOUS
<1>1. TypeOK
  BY LogType, FeederAssumption DEF Init, TypeOK
<1>2. ArrivedInv /\ FlightInv /\ SendInv
  BY DEF Init, ArrivedInv, FlightInv, SendInv
<1>3. CountInv /\ OpenInv
  BY LogType DEF Init, CountInv, OpenInv, Unsent
<1>4. NothingLost /\ StampsFit
  BY DEF Init, NothingLost, StampsFit
<1>. QED  BY <1>1, <1>2, <1>3, <1>4 DEF FeederInv

-----------------------------------------------------------------------------
\* Every step keeps the types, and the offsets in order.
LEMMA TypeStep ==
    ASSUME TypeOK, ArrivedInv, FlightInv, [Next]_vars
    PROVE  TypeOK'
<1> USE LogType, FeederAssumption DEF TypeOK, Goto
<1>1. ASSUME NEW t \in Thread, Connect(t) \/ ConnectFail(t) \/ ProcessPanic(t)
      PROVE  TypeOK'
  BY <1>1 DEF Connect, ConnectFail, ProcessPanic
<1>2. ASSUME NEW t \in Thread, Poll(t)
      PROVE  TypeOK'
  <2>1. PICK n \in position[t] + 1 .. arrived[t] : position' = [position EXCEPT ![t] = n]
    BY <1>2 DEF Poll
  <2>2. n \in Nat /\ committed[t] <= n /\ n <= arrived[t]
    BY <2>1
  <2>3. fpc' \in [Thread -> {"start", "poll", "batch", "send", "dead"}]
    BY <1>2 DEF Poll
  <2>. QED  BY <1>2, <2>1, <2>2, <2>3 DEF Poll
<1>3. ASSUME NEW t \in Thread, Process(t)
      PROVE  TypeOK'
  <2>1. PICK clock \in now .. now + MaxSkew : inflight' = [inflight EXCEPT ![t] = Messages(t, clock)]
    BY <1>3 DEF Process
  <2>2. Messages(t, clock) \subseteq Message
    BY BatchMessages
  <2>3. inflight' \in [Thread -> SUBSET Message]
    BY <2>1, <2>2
  <2>4. /\ sent' = [sent EXCEPT ![t] = [i \in Index(t) |->
                        IF i \in Buffered(t) THEN sent[t][i] + 1 ELSE sent[t][i]]]
        /\ UNCHANGED <<arrived, position, committed, topic, failed, now, restarts>>
        /\ fpc' = [fpc EXCEPT ![t] = "send"]
    BY <1>3 DEF Process
  <2>5. DOMAIN sent' = Thread
    BY <2>4
  <2>6. ASSUME NEW u \in Thread PROVE sent'[u] \in [Index(u) -> Nat]
    <3>1. CASE u = t
      BY <2>4, <3>1
    <3>2. CASE u # t
      BY <2>4, <3>2
    <3>. QED  BY <3>1, <3>2
  <2>. QED  BY <2>3, <2>4, <2>5, <2>6
<1>4. ASSUME NEW t \in Thread, NEW m \in inflight[t], SendEnds(t, m)
      PROVE  TypeOK'
  <2>1. m \in Message /\ m.thread = t /\ m.index \in Index(t)
    BY MessageType DEF FlightInv
  <2>2. <<t, m.index>> \in UNION {{u} \X Index(u) : u \in Thread}
    BY <2>1
  <2>. QED  BY <1>4, <2>1, <2>2 DEF SendEnds
<1>5. ASSUME NEW t \in Thread, Commit(t) \/ CommitFail(t)
      PROVE  TypeOK'
  <2>1. committed' = committed \/ committed' = [committed EXCEPT ![t] = position[t]]
    BY <1>5 DEF Commit, CommitFail
  <2>2. fpc' = [fpc EXCEPT ![t] = "poll"] \/ fpc' = [fpc EXCEPT ![t] = "dead"]
    BY <1>5 DEF Commit, CommitFail
  <2>3. UNCHANGED <<arrived, position, inflight, topic, failed, sent, now, restarts>>
    BY <1>5 DEF Commit, CommitFail
  <2>4. committed' \in [Thread -> Nat] /\ \A u \in Thread : committed'[u] <= position[u]
    <3>1. CASE committed' = committed
      BY <3>1
    <3>2. CASE committed' = [committed EXCEPT ![t] = position[t]]
      <4>1. ASSUME NEW u \in Thread PROVE committed'[u] \in Nat /\ committed'[u] <= position[u]
        BY <3>2
      <4>. QED  BY <3>2, <4>1
    <3>. QED  BY <2>1, <3>1, <3>2
  <2>5. fpc' \in [Thread -> {"start", "poll", "batch", "send", "dead"}]
    BY <2>2
  <2>. QED  BY <2>3, <2>4, <2>5
<1>6. CASE Restart
  <2>1. PICK D \in SUBSET UNION {inflight[t] : t \in Thread} : topic' = topic \union D
    BY <1>6 DEF Restart
  <2>2. topic' \subseteq Message
    BY <2>1
  <2>. QED  BY <1>6, <2>2 DEF Restart
<1>7. ASSUME NEW t \in Thread, Arrive(t)
      PROVE  TypeOK'
  BY <1>7 DEF Arrive
<1>8. CASE Tick
  BY <1>8 DEF Tick
<1>9. CASE UNCHANGED vars
  BY <1>9 DEF vars
<1>. QED  BY <1>1, <1>2, <1>3, <1>4, <1>5, <1>6, <1>7, <1>8, <1>9 DEF Next, ThreadStep

\* Events arrive after their posts, and the clock does not go back.
LEMMA ArrivedStep ==
    ASSUME TypeOK, TypeOK', ArrivedInv, [Next]_vars
    PROVE  ArrivedInv'
<1>0. now \in Nat /\ now' \in Nat /\ now <= now'
  BY Grows, FeederAssumption DEF TypeOK
<1> USE LogType, FeederAssumption DEF TypeOK, ArrivedInv
<1>1. ASSUME NEW t \in Thread, Arrive(t)
      PROVE  ArrivedInv'
  <2>1. /\ arrived' = [arrived EXCEPT ![t] = arrived[t] + 1] /\ now' = now
        /\ Created(t, arrived[t] + 1) <= now
    BY <1>1 DEF Arrive
  <2>2. ASSUME NEW u \in Thread, NEW i \in 1 .. arrived'[u]
        PROVE  Created(u, i) <= now
    <3>1. i \in 1 .. arrived[u] \/ (u = t /\ i = arrived[t] + 1)
      BY <2>1
    <3>. QED  BY <2>1, <3>1
  <2>. QED  BY <2>1, <2>2 DEF Created
<1>2. CASE UNCHANGED arrived
  <2>1. ASSUME NEW u \in Thread, NEW i \in 1 .. arrived[u]
        PROVE  Created(u, i) <= now'
    <3>1. i \in Index(u) /\ Created(u, i) <= now
      OBVIOUS
    <3>. QED  BY <1>0, <3>1, EventType
  <2>. QED  BY <1>2, <2>1 DEF Created
<1>. QED  BY <1>1, <1>2 DEF Next, vars, ThreadStep, Connect, ConnectFail, Poll, Process,
       ProcessPanic, Commit, CommitFail, SendEnds, Restart, Tick

\* A message in hand was stamped by a clock at most MaxSkew ahead, after its post.
LEMMA FlightStep ==
    ASSUME TypeOK, ArrivedInv, FlightInv, [Next]_vars
    PROVE  FlightInv'
<1> USE FeederAssumption DEF TypeOK, FlightInv, Goto
<1>1. ASSUME NEW t \in Thread, Process(t)
      PROVE  FlightInv'
  <2>1. PICK clock \in now .. now + MaxSkew : inflight' = [inflight EXCEPT ![t] = Messages(t, clock)]
    BY <1>1 DEF Process
  <2>2. fpc' = [fpc EXCEPT ![t] = "send"] /\ now' = now
    BY <1>1 DEF Process
  <2>3. ASSUME NEW u \in Thread, NEW m \in inflight'[u]
        PROVE  /\ fpc'[u] = "send" /\ m.thread = u
               /\ m.at <= now + MaxSkew /\ m.at >= Created(u, m.index)
    <3>1. CASE u = t
      BY <2>1, <2>2, <3>1, BatchMessages
    <3>2. CASE u # t
      BY <2>1, <2>2, <3>2
    <3>. QED  BY <3>1, <3>2
  <2>. QED  BY <2>2, <2>3 DEF Created
<1>2. CASE Restart
  BY <1>2 DEF Restart
<1>3. CASE Tick
  <2>1. now' \in Nat /\ now \in Nat /\ now <= now' /\ UNCHANGED <<inflight, fpc>>
    BY <1>3 DEF Tick
  <2>2. ASSUME NEW u \in Thread, NEW m \in inflight[u]
        PROVE  /\ fpc[u] = "send" /\ m.thread = u
               /\ m.at <= now' + MaxSkew /\ m.at >= Created(u, m.index)
    <3>1. m.at \in Nat
      BY MessageType
    <3>. QED  BY <2>1, <3>1
  <2>. QED  BY <2>1, <2>2 DEF Created
<1>4. ASSUME NEW t \in Thread, NEW m \in inflight[t], SendEnds(t, m)
      PROVE  FlightInv'
  BY <1>4 DEF SendEnds, Created
<1>5. ASSUME NEW t \in Thread, \/ Connect(t) \/ ConnectFail(t) \/ Poll(t) \/ ProcessPanic(t)
                               \/ Commit(t) \/ CommitFail(t)
      PROVE  FlightInv'
  <2>1. UNCHANGED <<inflight, now>> /\ inflight[t] = {}
    BY <1>5 DEF Connect, ConnectFail, Poll, ProcessPanic, Commit, CommitFail
  <2>2. \A u \in Thread : u # t => fpc'[u] = fpc[u]
    BY <1>5 DEF Connect, ConnectFail, Poll, ProcessPanic, Commit, CommitFail
  <2>. QED  BY <2>1, <2>2 DEF Created
<1>6. CASE UNCHANGED vars \/ \E t \in Thread : Arrive(t)
  <2>1. UNCHANGED <<inflight, now, fpc>>
    BY <1>6 DEF vars, Arrive
  <2>. QED  BY <2>1 DEF Created
<1>. QED  BY <1>1, <1>2, <1>3, <1>4, <1>5, <1>6 DEF Next, ThreadStep

\* What is delivered was in hand, so it is stamped as it should be.
LEMMA StampsStep ==
    ASSUME TypeOK, TypeOK', FlightInv, StampsFit, [Next]_vars
    PROVE  StampsFit'
<1>1. now \in Nat /\ now' \in Nat /\ now <= now' /\ MaxSkew \in Nat
  BY Grows, FeederAssumption DEF TypeOK
<1>2. ASSUME NEW m \in topic' PROVE m.at <= now + MaxSkew /\ m.at >= Created(m.thread, m.index)
  <2>1. CASE m \in topic
    BY <2>1 DEF StampsFit
  <2>2. CASE m \notin topic
    <3>1. PICK t \in Thread : m \in inflight[t]
      BY <2>2 DEF Next, vars, ThreadStep, Connect, ConnectFail, Poll, Process,
         ProcessPanic, Commit, CommitFail, SendEnds, Restart, Arrive, Tick
    <3>. QED  BY <3>1 DEF FlightInv
  <2>. QED  BY <2>1, <2>2
<1>3. ASSUME NEW m \in topic' PROVE m.at <= now' + MaxSkew /\ m.at >= Created(m.thread, m.index)
  <2>1. m.at \in Nat
    BY MessageType, FeederAssumption DEF TypeOK
  <2>. QED  BY <1>1, <1>2, <2>1
<1>. QED  BY <1>3 DEF StampsFit, Created

\* A batch whose sends have begun stays settled or in hand.
LEMMA SendStep ==
    ASSUME TypeOK, TypeOK', FlightInv, SendInv, [Next]_vars
    PROVE  SendInv'
<1>a. \A t \in Thread : \A i \in Index(t) : Settled(t, i) => Settled(t, i)'
  BY Grows, SettledStays
<1>b. \A t \in Thread : Buffered(t) \subseteq Index(t)
  BY Offsets
<1>0. \A t \in Thread : \A i \in Buffered(t) : Settled(t, i) => Settled(t, i)'
  BY <1>a, <1>b
<1> USE FeederAssumption DEF TypeOK, Goto
<1>1. ASSUME NEW t \in Thread, Process(t)
      PROVE  SendInv'
  <2>1. PICK clock \in now .. now + MaxSkew : inflight' = [inflight EXCEPT ![t] = Messages(t, clock)]
    BY <1>1 DEF Process
  <2>2. /\ fpc' = [fpc EXCEPT ![t] = "send"]
        /\ UNCHANGED <<position, committed, topic, failed, now>>
        /\ \A i \in Buffered(t) : Kind(t, i) # "malformed"
    BY <1>1 DEF Process
  <2>3. ASSUME NEW i \in Buffered(t)
        PROVE  Settled(t, i) \/ \E m \in inflight'[t] : m.index = i
    <3>1. i \in Index(t) /\ Created(t, i) \in Nat /\ clock \in Nat /\ Retention \in Nat
      BY <1>b, EventType
    <3>2. CASE Relevant(t, i, clock)
      <4>1. [thread |-> t, index |-> i, at |-> Stamp(t, i, clock)] \in inflight'[t]
        BY <2>1, <3>2 DEF Messages
      <4>. QED  BY <4>1
    <3>3. CASE ~Relevant(t, i, clock)
      BY <2>2, <3>1, <3>3, Irrelevant
    <3>. QED  BY <3>2, <3>3
  <2>4. \A u \in Thread : Buffered(u)' = Buffered(u)
    BY <2>2 DEF Buffered
  <2>5. ASSUME NEW u \in Thread, fpc'[u] = "send", NEW i \in Buffered(u)
        PROVE  Settled(u, i)' \/ \E m \in inflight'[u] : m.index = i
    <3>1. CASE u = t
      BY <1>0, <2>3, <2>5, <3>1
    <3>2. CASE u # t
      <4>1. inflight'[u] = inflight[u] /\ fpc[u] = "send"
        BY <2>1, <2>2, <2>5, <3>2
      <4>. QED  BY <1>0, <2>5, <4>1 DEF SendInv
    <3>. QED  BY <3>1, <3>2
  <2>. QED  BY <2>4, <2>5 DEF SendInv
<1>2. ASSUME NEW t \in Thread, NEW m \in inflight[t], SendEnds(t, m)
      PROVE  SendInv'
  <2>1. /\ inflight' = [inflight EXCEPT ![t] = inflight[t] \ {m}]
        /\ UNCHANGED <<fpc, position, committed>>
        /\ m \in topic' \/ <<t, m.index>> \in failed'
    BY <1>2 DEF SendEnds
  <2>2. m.thread = t /\ Settled(t, m.index)'
    BY <2>1 DEF FlightInv, Settled
  <2>3. \A u \in Thread : Buffered(u)' = Buffered(u)
    BY <2>1 DEF Buffered
  <2>4. ASSUME NEW u \in Thread, fpc[u] = "send", NEW i \in Buffered(u)
        PROVE  Settled(u, i)' \/ \E n \in inflight'[u] : n.index = i
    <3>1. CASE Settled(u, i)
      BY <1>0, <3>1
    <3>2. ASSUME NEW n \in inflight[u], n.index = i
          PROVE  Settled(u, i)' \/ n \in inflight'[u]
      BY <2>1, <2>2, <3>2
    <3>. QED  BY <2>4, <3>1, <3>2 DEF SendInv
  <2>. QED  BY <2>1, <2>3, <2>4 DEF SendInv
<1>3. CASE Restart
  BY <1>3 DEF Restart, SendInv
<1>4. ASSUME NEW t \in Thread, \/ Connect(t) \/ ConnectFail(t) \/ Poll(t) \/ ProcessPanic(t)
                               \/ Commit(t) \/ CommitFail(t)
      PROVE  SendInv'
  <2>1. /\ fpc'[t] # "send" /\ inflight' = inflight
        /\ \A u \in Thread : u # t => /\ fpc'[u] = fpc[u] /\ position'[u] = position[u]
                                      /\ committed'[u] = committed[u]
    BY <1>4 DEF Connect, ConnectFail, Poll, ProcessPanic, Commit, CommitFail
  <2>2. ASSUME NEW u \in Thread, fpc'[u] = "send"
        PROVE  u # t /\ fpc[u] = "send" /\ inflight'[u] = inflight[u] /\ Buffered(u)' = Buffered(u)
    BY <2>1, <2>2 DEF Buffered
  <2>. QED  BY <1>0, <2>2 DEF SendInv
<1>5. CASE UNCHANGED vars \/ Tick \/ \E t \in Thread : Arrive(t)
  <2>1. UNCHANGED <<inflight, fpc, position, committed>>
    BY <1>5 DEF vars, Tick, Arrive
  <2>. QED  BY <1>0, <2>1 DEF SendInv, Buffered
<1>. QED  BY <1>1, <1>2, <1>3, <1>4, <1>5 DEF Next, ThreadStep

\* Offsets are committed only over a batch all of whose sends have ended.
LEMMA NothingLostStep ==
    ASSUME TypeOK, TypeOK', SendInv, NothingLost, [Next]_vars
    PROVE  NothingLost'
<1>0. \A t \in Thread : \A i \in Index(t) : Settled(t, i) => Settled(t, i)'
  BY Grows, SettledStays
<1>a. \A t \in Thread :
        /\ committed[t] \in Nat /\ position[t] \in Nat /\ committed[t] <= position[t]
        /\ \A i \in 1 .. position[t] : i \in Index(t)
  BY Offsets
<1>1. ASSUME NEW t \in Thread, Commit(t) \/ CommitFail(t)
      PROVE  NothingLost'
  <2>1. ASSUME NEW i \in 1 .. position[t]
        PROVE  Settled(t, i)
    <3>1. fpc[t] = "send" /\ inflight[t] = {}
      BY <1>1 DEF Commit, CommitFail
    <3>2. i \in 1 .. committed[t] \/ i \in Buffered(t)
      BY <1>a DEF Buffered
    <3>. QED  BY <3>1, <3>2 DEF SendInv, NothingLost
  <2>2. committed' = committed \/ committed' = [committed EXCEPT ![t] = position[t]]
    BY <1>1 DEF Commit, CommitFail
  <2>3. ASSUME NEW u \in Thread, NEW i \in 1 .. committed'[u]
        PROVE  i \in Index(u) /\ Settled(u, i)
    <3>1. i \in 1 .. committed[u] \/ (u = t /\ i \in 1 .. position[t])
      BY <2>2 DEF TypeOK
    <3>2. i \in 1 .. position[u]
      BY <1>a, <3>1
    <3>3. i \in Index(u)
      BY <1>a, <3>2
    <3>. QED  BY <2>1, <3>1, <3>3 DEF NothingLost
  <2>. QED  BY <1>0, <2>3 DEF NothingLost
<1>2. CASE UNCHANGED committed
  <2>1. ASSUME NEW u \in Thread, NEW i \in 1 .. committed[u]
        PROVE  i \in Index(u)
    <3>1. i \in 1 .. position[u]
      BY <1>a
    <3>. QED  BY <1>a, <3>1
  <2>. QED  BY <1>0, <1>2, <2>1 DEF NothingLost
<1>. QED  BY <1>1, <1>2 DEF Next, vars, ThreadStep, Connect, ConnectFail, Poll, Process,
       ProcessPanic, SendEnds, Restart, Arrive, Tick

\* An event is sent once in each life of the process: its offset is committed,
\* or the thread dies, before it could be polled again.
LEMMA CountStep ==
    ASSUME TypeOK, TypeOK', CountInv, [Next]_vars
    PROVE  CountInv'
<1>0. \A t \in Thread : committed[t] \in Nat /\ position[t] \in Nat /\ committed[t] <= position[t]
  BY Offsets
<1> USE DEF TypeOK, Goto, Unsent
<1>1. ASSUME NEW t \in Thread, Process(t)
      PROVE  CountInv'
  <2>1. /\ sent' = [sent EXCEPT ![t] = [i \in Index(t) |->
                        IF i \in Buffered(t) THEN sent[t][i] + 1 ELSE sent[t][i]]]
        /\ fpc' = [fpc EXCEPT ![t] = "send"] /\ fpc[t] = "batch"
        /\ UNCHANGED <<position, committed, restarts>>
    BY <1>1 DEF Process
  <2>2. ASSUME NEW u \in Thread, NEW i \in Index(u)
        PROVE  /\ sent'[u][i] <= 1 + restarts
               /\ Unsent(u, i)' => sent'[u][i] <= restarts
    <3>1. CASE u = t /\ i \in Buffered(t)
      <4>1. sent'[t][i] = sent[t][i] + 1 /\ i > committed[t] /\ i <= position[t]
        BY <2>1, <2>2, <3>1, LogType DEF Buffered
      <4>2. sent[t][i] \in Nat /\ sent[t][i] <= restarts /\ ~Unsent(t, i)'
        BY <2>1, <2>2, <3>1, <4>1, LogType DEF CountInv
      <4>. QED  BY <3>1, <4>1, <4>2
    <3>2. CASE u = t /\ i \notin Buffered(t)
      <4>1. sent'[t][i] = sent[t][i]
        BY <2>1, <2>2, <3>2
      <4>2. Unsent(t, i)' => i > committed[t]
        <5>1. i \in Nat /\ (i > position[t] => i > committed[t])
          BY <1>0, <2>2, <3>2, EventType
        <5>. QED  BY <2>1, <3>2, <5>1
      <4>. QED  BY <2>1, <2>2, <3>2, <4>1, <4>2 DEF CountInv
    <3>3. CASE u # t
      BY <2>1, <2>2, <3>3 DEF CountInv
    <3>. QED  BY <3>1, <3>2, <3>3
  <2>. QED  BY <2>1, <2>2 DEF CountInv
<1>2. ASSUME NEW t \in Thread, Poll(t)
      PROVE  CountInv'
  <2>1. /\ UNCHANGED <<committed, sent, restarts>>
        /\ fpc[t] = "poll" /\ fpc'[t] \in {"poll", "batch"}
        /\ \A u \in Thread : u # t => fpc'[u] = fpc[u] /\ position'[u] = position[u]
    BY <1>2 DEF Poll
  <2>. QED  BY <2>1 DEF CountInv
<1>3. ASSUME NEW t \in Thread, \/ Connect(t) \/ ConnectFail(t) \/ ProcessPanic(t)
                               \/ Commit(t) \/ CommitFail(t)
      PROVE  CountInv'
  <2>1. /\ UNCHANGED <<position, sent, restarts>>
        /\ \/ fpc[t] = "start" /\ fpc'[t] = "poll" /\ committed'[t] = committed[t]
           \/ fpc'[t] = "dead"
           \/ fpc[t] = "send" /\ fpc'[t] = "poll" /\ committed'[t] = position[t]
        /\ \A u \in Thread : u # t => fpc'[u] = fpc[u] /\ committed'[u] = committed[u]
    BY <1>3 DEF Connect, ConnectFail, ProcessPanic, Commit, CommitFail
  <2>. QED  BY <2>1 DEF CountInv
<1>4. CASE Restart
  <2>1. restarts' = restarts + 1 /\ sent' = sent
    BY <1>4 DEF Restart
  <2>2. ASSUME NEW u \in Thread, NEW i \in Index(u)
        PROVE  sent[u][i] <= restarts + 1 /\ sent[u][i] \in Nat /\ restarts \in Nat
    BY FeederAssumption DEF CountInv
  <2>. QED  BY <2>1, <2>2 DEF CountInv
<1>5. CASE \/ UNCHANGED vars \/ Tick \/ \E t \in Thread : Arrive(t)
           \/ \E t \in Thread : \E m \in inflight[t] : SendEnds(t, m)
  <2>1. UNCHANGED <<fpc, position, committed, sent, restarts>>
    BY <1>5 DEF vars, Tick, Arrive, SendEnds
  <2>. QED  BY <2>1 DEF CountInv
<1>. QED  BY <1>1, <1>2, <1>3, <1>4, <1>5 DEF Next, ThreadStep

\* A batch is sent for as a whole before any task holds a message of it.
LEMMA OpenStep ==
    ASSUME TypeOK, ArrivedInv, FlightInv, OpenInv, [Next]_vars
    PROVE  OpenInv'
<1>0. \A t \in Thread : Buffered(t) \subseteq Index(t)
  BY Offsets
<1> USE DEF TypeOK, Goto
<1>1. ASSUME NEW t \in Thread, Process(t)
      PROVE  OpenInv'
  <2>1. /\ sent' = [sent EXCEPT ![t] = [i \in Index(t) |->
                        IF i \in Buffered(t) THEN sent[t][i] + 1 ELSE sent[t][i]]]
        /\ fpc' = [fpc EXCEPT ![t] = "send"] /\ UNCHANGED <<position, committed>>
    BY <1>1 DEF Process
  <2>2. PICK clock \in now .. now + MaxSkew : inflight' = [inflight EXCEPT ![t] = Messages(t, clock)]
    BY <1>1 DEF Process
  <2>3. \A i \in Buffered(t) : sent'[t][i] > 0
    <3>1. ASSUME NEW i \in Buffered(t) PROVE sent'[t][i] > 0
      <4>1. i \in Index(t) /\ sent[t][i] \in Nat
        BY <1>0
      <4>. QED  BY <2>1, <3>1, <4>1
    <3>. QED  BY <3>1
  <2>4. \A m \in inflight'[t] : m.index \in Buffered(t)
    BY <2>2, BatchMessages
  <2>5. \A u \in Thread : Buffered(u)' = Buffered(u)
    BY <2>1 DEF Buffered
  <2>6. ASSUME NEW u \in Thread, u # t
        PROVE  fpc'[u] = fpc[u] /\ sent'[u] = sent[u] /\ inflight'[u] = inflight[u]
    BY <2>1, <2>2, <2>6
  <2>. QED  BY <2>3, <2>4, <2>5, <2>6 DEF OpenInv
<1>2. ASSUME NEW t \in Thread, NEW m \in inflight[t], SendEnds(t, m)
      PROVE  OpenInv'
  BY <1>2 DEF SendEnds, OpenInv, Buffered
<1>3. CASE Restart
  BY <1>3 DEF Restart, OpenInv
<1>4. ASSUME NEW t \in Thread, \/ Connect(t) \/ ConnectFail(t) \/ Poll(t) \/ ProcessPanic(t)
                               \/ Commit(t) \/ CommitFail(t)
      PROVE  OpenInv'
  <2>1. /\ fpc'[t] # "send" /\ inflight[t] = {} /\ UNCHANGED <<inflight, sent>>
        /\ \A u \in Thread : u # t => /\ fpc'[u] = fpc[u] /\ position'[u] = position[u]
                                      /\ committed'[u] = committed[u]
    BY <1>4 DEF FlightInv, Connect, ConnectFail, Poll, ProcessPanic, Commit, CommitFail
  <2>. QED  BY <2>1 DEF OpenInv, Buffered
<1>5. CASE UNCHANGED vars \/ Tick \/ \E t \in Thread : Arrive(t)
  <2>1. UNCHANGED <<inflight, fpc, position, committed, sent>>
    BY <1>5 DEF vars, Tick, Arrive
  <2>. QED  BY <2>1 DEF OpenInv, Buffered
<1>. QED  BY <1>1, <1>2, <1>3, <1>4, <1>5 DEF Next, ThreadStep

-----------------------------------------------------------------------------
\* No step violates the inductive invariant.
LEMMA FeederInvStep == FeederInv /\ [Next]_vars => FeederInv'
<1> SUFFICES ASSUME FeederInv, [Next]_vars PROVE FeederInv'
  OBVIOUS
<1>1. TypeOK'
  BY TypeStep DEF FeederInv
<1>. QED  BY <1>1, ArrivedStep, FlightStep, StampsStep, SendStep, NothingLostStep, CountStep, OpenStep
          DEF FeederInv

\* The inductive invariant holds in every state of the feeder.
THEOREM FeederSafe == Spec => []FeederInv
  BY FeederInit, FeederInvStep, PTL DEF Spec

\* At least once: whatever crashes and fails to commit, an event before the
\* committed offset was delivered, reported, or needs no message.
THEOREM FeederNothingLost == Spec => []NothingLost
<1>1. FeederInv => NothingLost
  BY DEF FeederInv
<1>. QED  BY FeederSafe, <1>1, PTL

\* At most one sending of an event for each start of the process.
THEOREM FeederRedelivered == Spec => []Redelivered
<1>1. FeederInv => Redelivered
  BY DEF FeederInv, CountInv, Redelivered
<1>. QED  BY FeederSafe, <1>1, PTL

\* Delivered events carry the stamps the store takes for granted.
THEOREM FeederStampsFit == Spec => []StampsFit
<1>1. FeederInv => StampsFit
  BY DEF FeederInv
<1>. QED  BY FeederSafe, <1>1, PTL

\* Every variable of the feeder keeps its type: whatever crashes and restarts, a
\* thread's offsets stay in order within its log.
THEOREM FeederTypes == Spec => []TypeOK
<1>1. FeederInv => TypeOK
  BY DEF FeederInv
<1>. QED  BY FeederSafe, <1>1, PTL

-----------------------------------------------------------------------------
(* A malformed event stops its thread.                                     *)

\* What was sent or committed has no malformed event at it or before it; what
\* was delivered was sent.
Clean(t, i) == \A j \in 1 .. i : Kind(t, j) # "malformed"
CleanInv ==
    /\ \A t \in Thread : \A i \in Index(t) : sent[t][i] > 0 \/ i <= committed[t] => Clean(t, i)
    /\ \A m \in topic : sent[m.thread][m.index] > 0

LEMMA CleanStep ==
    ASSUME FeederInv, CleanInv, [Next]_vars
    PROVE  CleanInv'
<1> USE DEF FeederInv
<1>0. \A t \in Thread : /\ committed[t] \in Nat /\ position[t] \in Nat /\ committed[t] <= position[t]
                        /\ Buffered(t) \subseteq Index(t) /\ Index(t) \subseteq Nat
                        /\ \A i \in Index(t) : sent[t][i] \in Nat
  <2> TAKE t \in Thread
  <2>1. committed[t] \in Nat /\ position[t] \in Nat /\ committed[t] <= position[t]
    BY Offsets
  <2>2. Buffered(t) \subseteq Index(t)
    BY Offsets
  <2>3. Index(t) \subseteq Nat
    BY LogType
  <2>4. \A i \in Index(t) : sent[t][i] \in Nat
    BY DEF TypeOK
  <2>. QED  BY <2>1, <2>2, <2>3, <2>4
<1>a. \A m \in topic : m.thread \in Thread /\ m.index \in Index(m.thread)
  BY MessageType DEF TypeOK
<1>1. ASSUME NEW t \in Thread, Process(t)
      PROVE  CleanInv'
  <2>1. /\ sent' = [sent EXCEPT ![t] = [i \in Index(t) |->
                        IF i \in Buffered(t) THEN sent[t][i] + 1 ELSE sent[t][i]]]
        /\ \A i \in Buffered(t) : Kind(t, i) # "malformed"
        /\ UNCHANGED <<committed, topic>>
    BY <1>1 DEF Process
  <2>2. ASSUME NEW u \in Thread, NEW i \in Index(u), sent'[u][i] > 0 \/ i <= committed[u]
        PROVE  Clean(u, i)
    <3>1. CASE u = t /\ i \in Buffered(t)
      <4>1. ASSUME NEW j \in 1 .. i PROVE Kind(t, j) # "malformed"
        <5>1. CASE j \in Buffered(t)
          BY <2>1, <5>1
        <5>2. CASE j \notin Buffered(t)
          <6>1. j <= committed[t] /\ j \in Index(t)
            BY <1>0, <3>1, <5>2, LogType DEF Buffered
          <6>2. Clean(t, j) /\ j \in 1 .. j
            BY <6>1 DEF CleanInv
          <6>. QED  BY <6>2 DEF Clean
        <5>. QED  BY <5>1, <5>2
      <4>. QED  BY <3>1, <4>1 DEF Clean
    <3>2. CASE ~(u = t /\ i \in Buffered(t))
      <4>1. sent'[u][i] = sent[u][i]
        BY <2>1, <3>2 DEF TypeOK
      <4>. QED  BY <2>2, <4>1 DEF CleanInv
    <3>. QED  BY <3>1, <3>2
  <2>3. ASSUME NEW m \in topic PROVE sent'[m.thread][m.index] > 0
    <3>1. sent[m.thread][m.index] > 0 /\ sent[m.thread][m.index] \in Nat
      BY <1>0, <1>a DEF CleanInv
    <3>2. sent'[m.thread][m.index] >= sent[m.thread][m.index]
      BY <1>0, <1>a, <2>1 DEF TypeOK
    <3>3. sent'[m.thread][m.index] \in Nat
      BY <1>0, <1>a, <2>1 DEF TypeOK
    <3>. QED  BY <3>1, <3>2, <3>3
  <2>. QED  BY <2>1, <2>2, <2>3 DEF CleanInv, Clean, Kind, Index
<1>2. ASSUME NEW t \in Thread, Commit(t) \/ CommitFail(t)
      PROVE  CleanInv'
  <2>1. /\ fpc[t] = "send" /\ UNCHANGED <<sent, topic>>
        /\ committed' = committed \/ committed' = [committed EXCEPT ![t] = position[t]]
    BY <1>2 DEF Commit, CommitFail
  <2>2. ASSUME NEW u \in Thread, NEW i \in Index(u), i <= committed'[u]
        PROVE  Clean(u, i)
    <3>1. i <= committed[u] \/ (u = t /\ i \in Buffered(t))
      BY <1>0, <2>1, <2>2 DEF TypeOK, Buffered
    <3>2. i <= committed[u] \/ sent[u][i] > 0
      BY <2>1, <3>1 DEF OpenInv
    <3>. QED  BY <3>2 DEF CleanInv
  <2>. QED  BY <2>1, <2>2 DEF CleanInv, Clean, Kind, Index
<1>3. ASSUME UNCHANGED <<sent, committed>>,
             \A m \in topic' : m \in topic \/ \E t \in Thread : m \in inflight[t]
      PROVE  CleanInv'
  <2>1. ASSUME NEW t \in Thread, NEW m \in inflight[t]
        PROVE  sent[m.thread][m.index] > 0
    BY DEF OpenInv, FlightInv
  <2>. QED  BY <1>3, <2>1 DEF CleanInv, Clean, Kind, Index
<1>4. ASSUME ~\E t \in Thread : Process(t) \/ Commit(t) \/ CommitFail(t)
      PROVE  /\ UNCHANGED <<sent, committed>>
             /\ \A m \in topic' : m \in topic \/ \E t \in Thread : m \in inflight[t]
  BY <1>4 DEF Next, vars, ThreadStep, Connect, ConnectFail, Poll, ProcessPanic, SendEnds, Restart,
     Arrive, Tick
<1>. QED  BY <1>1, <1>2, <1>3, <1>4

\* A malformed event ends its thread in every life of the process: nothing at or
\* behind it is ever sent, delivered or committed (Feeder!MalformedStops).
THEOREM FeederMalformedStops == Spec => []MalformedStops
<1>1. Init => CleanInv
  BY LogType DEF Init, CleanInv
<1>2. FeederInv /\ CleanInv /\ [Next]_vars => FeederInv' /\ CleanInv'
  BY FeederInvStep, CleanStep
<1>3. FeederInv /\ CleanInv => MalformedStops
  <2> SUFFICES ASSUME FeederInv, CleanInv, NEW t \in Thread, NEW i \in Index(t), ~Clean(t, i)
               PROVE  /\ sent[t][i] = 0 /\ i > committed[t]
                      /\ \A m \in topic : m.thread = t => m.index # i
    BY DEF MalformedStops, Clean
  <2>1. sent[t][i] \in Nat /\ i \in Nat /\ committed[t] \in Nat
    BY LogType DEF FeederInv, TypeOK
  <2>2. ~(sent[t][i] > 0) /\ ~(i <= committed[t])
    BY DEF CleanInv
  <2>. QED  BY <2>1, <2>2 DEF CleanInv
<1>. QED  BY <1>1, <1>2, <1>3, FeederInit, PTL DEF Spec

-----------------------------------------------------------------------------
(* The feeder implements FeedChannel.                                      *)

\* The events delivered, and those nobody need hear about (any more).
Delivered == {<<m.thread, m.index>> : m \in topic}
Waived == {e \in Events : Silence(e[1], e[2])}

LEMMA NumberIs == ASSUME NEW t \in Thread PROVE Channel!Number(t) = Index(t)
  BY DEF Channel!Number, Index

\* What is settled the channel may acknowledge.
LEMMA SettledIs ==
    ASSUME NEW t \in Thread, NEW i \in Index(t), Settled(t, i)
    PROVE  <<t, i>> \in Delivered \union failed \union Waived
<1>1. <<t, i>> \in Events
  BY DEF Events
<1>2. CASE Silence(t, i)
  BY <1>1, <1>2 DEF Waived
<1>. QED  BY <1>2 DEF Settled, Delivered

\* What a task holds is open in the channel: uncommitted, and sent for.
LEMMA InflightOpen ==
    ASSUME TypeOK, FlightInv, OpenInv, NEW t \in Thread, NEW m \in inflight[t]
    PROVE  m.thread = t /\ <<t, m.index>> \in Channel!Open
<1>1. m.thread = t /\ fpc[t] = "send" /\ m.index \in Buffered(t) /\ sent[t][m.index] > 0
  BY DEF FlightInv, OpenInv
<1>2. m.index \in Index(t) /\ m.index > committed[t]
  BY <1>1, Offsets DEF Buffered
<1>3. m.index \in {i \in Channel!Number(t) : i > committed[t] /\ sent[t][i] > 0}
  BY <1>1, <1>2, NumberIs
<1>. QED  BY <1>1, <1>3 DEF Channel!Open

\* A step that neither settles, sends nor commits anything is a stutter.
LEMMA ChannelStutter ==
    ASSUME UNCHANGED <<arrived, committed, topic, failed, sent, now, restarts>>
    PROVE  UNCHANGED Channel!channelVars
  BY DEF Channel!channelVars, Events, Silence, Kind, Created, Index

LEMMA ChannelInit == Init => Channel!Init
<1> SUFFICES ASSUME Init PROVE Channel!Init
  OBVIOUS
<1>1. sent = [t \in Thread |-> [i \in Channel!Number(t) |-> 0]]
  BY NumberIs DEF Init
<1>2. {<<m.thread, m.index>> : m \in topic} = {}
  BY DEF Init
<1>. QED  BY <1>1, <1>2 DEF Init, Channel!Init, Silence

\* Every step of the feeder is a step of the channel, or a stutter.
LEMMA ChannelStep ==
    ASSUME FeederInv, [Next]_vars
    PROVE  [Channel!Next]_(Channel!channelVars)
<1> USE DEF FeederInv
<1>0. TypeOK'
  BY TypeStep
<1>1. ASSUME NEW t \in Thread, Process(t)
      PROVE  [Channel!Next]_(Channel!channelVars)
  <2>1. /\ sent' = [sent EXCEPT ![t] = [i \in Index(t) |->
                        IF i \in Buffered(t) THEN sent[t][i] + 1 ELSE sent[t][i]]]
        /\ fpc[t] = "batch"
        /\ UNCHANGED <<arrived, committed, topic, failed, now, restarts>>
    BY <1>1 DEF Process
  <2>2. position[t] \in committed[t] .. arrived[t]
    BY DEF TypeOK
  <2>3. \A i \in committed[t] + 1 .. position[t] : sent[t][i] < 1 + restarts
    <3>1. ASSUME NEW i \in Buffered(t) PROVE sent[t][i] < 1 + restarts
      <4>1. i \in Index(t) /\ i > committed[t] /\ sent[t][i] \in Nat /\ restarts \in Nat
        BY Offsets, FeederAssumption DEF TypeOK, Buffered
      <4>. QED  BY <2>1, <4>1 DEF CountInv, Unsent
    <3>. QED  BY <3>1 DEF Buffered
  <2>4. sent' = [sent EXCEPT ![t] = [i \in Channel!Number(t) |->
            IF i \in committed[t] + 1 .. position[t] THEN sent[t][i] + 1 ELSE sent[t][i]]]
    BY <2>1, NumberIs DEF Buffered
  <2>5. Channel!Attempt(t, position[t])
    BY <2>1, <2>3, <2>4 DEF Channel!Attempt, Silence
  <2>. QED  BY <2>2, <2>5 DEF Channel!Next
<1>2. ASSUME NEW t \in Thread, NEW m \in inflight[t], SendEnds(t, m)
      PROVE  [Channel!Next]_(Channel!channelVars)
  <2>1. m.thread = t /\ <<t, m.index>> \in Channel!Open
    BY InflightOpen
  <2>2. /\ UNCHANGED <<arrived, committed, sent, now, restarts>>
        /\ \/ topic' = topic \union {m} /\ UNCHANGED failed
           \/ topic' \in {topic, topic \union {m}} /\ failed' = failed \union {<<t, m.index>>}
    BY <1>2 DEF SendEnds
  <2>3. topic' = topic \union {m} => Delivered' = Delivered \union {<<t, m.index>>}
    BY <2>1 DEF Delivered
  <2>4. topic' = topic => Delivered' = Delivered
    BY DEF Delivered
  <2>5. Channel!End(<<t, m.index>>)
    BY <2>2, <2>3, <2>4 DEF Channel!End, Delivered, Silence
  <2>. QED  BY <2>1, <2>5 DEF Channel!Next
<1>3. ASSUME NEW t \in Thread, Commit(t) \/ CommitFail(t)
      PROVE  [Channel!Next]_(Channel!channelVars)
  <2>1. /\ fpc[t] = "send" /\ inflight[t] = {}
        /\ committed' = committed \/ committed' = [committed EXCEPT ![t] = position[t]]
        /\ UNCHANGED <<arrived, topic, failed, sent, now, restarts>>
    BY <1>3 DEF Commit, CommitFail
  <2>2. CASE committed' = committed
    BY <2>1, <2>2, ChannelStutter
  <2>3. CASE committed' = [committed EXCEPT ![t] = position[t]]
    <3>1. position[t] \in committed[t] .. arrived[t]
      BY DEF TypeOK
    <3>2. \A i \in committed[t] + 1 .. position[t] : <<t, i>> \in Delivered \union failed \union Waived
      <4>1. ASSUME NEW i \in Buffered(t) PROVE <<t, i>> \in Delivered \union failed \union Waived
        <5>1. i \in Index(t) /\ Settled(t, i)
          BY <2>1, Offsets DEF SendInv
        <5>. QED  BY <5>1, SettledIs
      <4>. QED  BY <4>1 DEF Buffered
    <3>3. Channel!Acknowledge(t, position[t])
      BY <2>1, <2>3, <3>2 DEF Channel!Acknowledge, Delivered, Waived, Silence
    <3>. QED  BY <3>1, <3>3 DEF Channel!Next
  <2>. QED  BY <2>1, <2>2, <2>3
<1>4. CASE Restart
  <2>1. PICK D \in SUBSET UNION {inflight[t] : t \in Thread} : topic' = topic \union D
    BY <1>4 DEF Restart
  <2>2. restarts' = restarts + 1 /\ UNCHANGED <<arrived, committed, failed, sent, now>>
    BY <1>4 DEF Restart
  <2> DEFINE E == {<<m.thread, m.index>> : m \in D}
  <2>3. ASSUME NEW m \in D PROVE <<m.thread, m.index>> \in Channel!Open
    <3>1. PICK t \in Thread : m \in inflight[t]
      BY <2>1
    <3>. QED  BY <3>1, InflightOpen
  <2>4. E \in SUBSET Channel!Open
    BY <2>3
  <2>5. Delivered' = Delivered \union E
    BY <2>1 DEF Delivered
  <2>6. 1 + restarts' = 1 + restarts + 1
    BY <2>2, FeederAssumption DEF TypeOK
  <2> HIDE DEF E
  <2>7. Channel!Restart(E)
    BY <2>2, <2>5, <2>6 DEF Channel!Restart, Delivered, Silence
  <2>. QED  BY <2>4, <2>7 DEF Channel!Next
<1>5. ASSUME NEW t \in Thread, Arrive(t)
      PROVE  [Channel!Next]_(Channel!channelVars)
  <2>1. Channel!Produce(t)
    BY <1>5 DEF Arrive, Channel!Produce, Silence
  <2>. QED  BY <2>1 DEF Channel!Next
<1>6. CASE Tick
  <2>1. now' = now + 1 /\ UNCHANGED <<arrived, committed, topic, failed, sent, restarts>>
    BY <1>6 DEF Tick
  <2>2. Waived \subseteq Waived'
    <3>1. ASSUME NEW t \in Thread, NEW i \in Index(t), Silence(t, i) PROVE Silence(t, i)'
      <4>1. /\ Created(t, i) \in Nat /\ Retention \in Nat /\ MaxSkew \in Nat
            /\ now \in Nat /\ now' = now + 1
        BY <2>1, EventType, FeederAssumption DEF TypeOK
      <4>. QED  BY <3>1, <4>1 DEF Silence, Kind, Created
    <3>. QED  BY <3>1 DEF Waived, Events, Index
  <2>3. Waived' \in SUBSET {e \in Events : Kind(e[1], e[2]) \in {"ignored", "delete"}}
    BY DEF Waived, Silence, Events, Index, Kind
  <2>4. Waived' = Waived \union Waived'
    BY <2>2
  <2>5. Channel!Waive(Waived')
    BY <2>1, <2>4 DEF Channel!Waive, Waived
  <2>. QED  BY <2>3, <2>5 DEF Channel!Next
<1>7. CASE \/ UNCHANGED vars
           \/ \E t \in Thread : Connect(t) \/ ConnectFail(t) \/ Poll(t) \/ ProcessPanic(t)
  <2>1. UNCHANGED <<arrived, committed, topic, failed, sent, now, restarts>>
    BY <1>7 DEF vars, Connect, ConnectFail, Poll, ProcessPanic
  <2>. QED  BY <2>1, ChannelStutter
<1>. QED  BY <1>1, <1>2, <1>3, <1>4, <1>5, <1>6, <1>7 DEF Next, ThreadStep

\* The feeder does what FeedChannel promises: whatever the order of its threads,
\* the failures of sends and commits, crashes and restarts, an event is delivered,
\* reported or waived before it is acknowledged, tried at most once in each life
\* of the process and never again once acknowledged (Feeder!ChannelSpec).
THEOREM FeederImplementsChannel == Spec => ChannelSpec
<1>1. FeederInv /\ [Next]_vars => FeederInv'
  BY FeederInvStep
<1>2. FeederInv /\ [Next]_vars => [Channel!Next]_(Channel!channelVars)
  BY ChannelStep
<1>. QED  BY <1>1, <1>2, FeederInit, ChannelInit, PTL DEF Spec, ChannelSpec, Channel!Spec
=============================================================================
