----------------------------- MODULE FeedChannel -----------------------------
(***************************************************************************)
(* What the feeder of thunder/ promises about the events it relays, told   *)
(* without threads, batches, tasks or clocks: at least once, and at most   *)
(* once for each life of the process.  The events of a source are numbered *)
(* and acknowledged in order, each only when it is delivered, reported as  *)
(* undeliverable or waived; what is acknowledged is never tried again.     *)
(* Feeder implements this specification (Feeder!ChannelSpec).              *)
(***************************************************************************)
EXTENDS Naturals

CONSTANTS
    Source,
    Length,     \* Length[s]: how many events source s will ever have
    Waivable    \* the events of which there may be nothing to say, as <<source, number>>

VARIABLES
    produced,   \* how many events each source has produced
    acked,      \* how many of them are acknowledged
    delivered,  \* events delivered
    reported,   \* events whose delivery was reported to have failed
    waived,     \* events nobody need hear about (any more)
    attempts,   \* how often the delivery of each event was begun
    lives       \* incarnations of the process so far

channelVars == <<produced, acked, delivered, reported, waived, attempts, lives>>

Number(s) == 1 .. Length[s]

\* Events whose delivery may still end one way or the other.
Open == UNION {{s} \X {i \in Number(s) : i > acked[s] /\ attempts[s][i] > 0} : s \in Source}

Init ==
    /\ produced = [s \in Source |-> 0] /\ acked = [s \in Source |-> 0]
    /\ delivered = {} /\ reported = {} /\ waived \subseteq Waivable
    /\ attempts = [s \in Source |-> [i \in Number(s) |-> 0]]
    /\ lives = 1

Produce(s) ==
    /\ produced[s] < Length[s]
    /\ produced' = [produced EXCEPT ![s] = @ + 1]
    /\ UNCHANGED <<acked, delivered, reported, waived, attempts, lives>>

\* Delivery is begun of everything after the acknowledged events, up to the
\* n-th: of no event twice in one life.
Attempt(s, n) ==
    /\ \A i \in acked[s] + 1 .. n : attempts[s][i] < lives
    /\ attempts' = [attempts EXCEPT ![s] =
           [i \in Number(s) |-> IF i \in acked[s] + 1 .. n THEN @[i] + 1 ELSE @[i]]]
    /\ UNCHANGED <<produced, acked, delivered, reported, waived, lives>>

\* A delivery ends; one that is reported as failed may have happened.
End(e) ==
    /\ \/ delivered' = delivered \union {e} /\ UNCHANGED reported
       \/ delivered' \in {delivered, delivered \union {e}} /\ reported' = reported \union {e}
    /\ UNCHANGED <<produced, acked, waived, attempts, lives>>

\* Time passes: of some events there is nothing more to say.
Waive(W) ==
    /\ waived' = waived \union W
    /\ UNCHANGED <<produced, acked, delivered, reported, attempts, lives>>

\* Everything up to the n-th event is acknowledged, nothing owed among it.
Acknowledge(s, n) ==
    /\ \A i \in acked[s] + 1 .. n : <<s, i>> \in delivered \union reported \union waived
    /\ acked' = [acked EXCEPT ![s] = n]
    /\ UNCHANGED <<produced, delivered, reported, waived, attempts, lives>>

\* The process dies and is started again; what was open may have been delivered.
Restart(D) ==
    /\ lives' = lives + 1
    /\ delivered' = delivered \union D
    /\ UNCHANGED <<produced, acked, reported, waived, attempts>>

Next ==
    \/ \E s \in Source : Produce(s)
    \/ \E s \in Source : \E n \in acked[s] .. produced[s] : Attempt(s, n) \/ Acknowledge(s, n)
    \/ \E e \in Open : End(e)
    \/ \E W \in SUBSET Waivable : Waive(W)
    \/ \E D \in SUBSET Open : Restart(D)

Spec == Init /\ [][Next]_channelVars
=============================================================================
