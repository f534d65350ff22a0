------------------------------ MODULE PostFeed ------------------------------
(***************************************************************************)
(* What the in-memory post store of thunder/ promises about one post, told *)
(* without maps, timelines, threads or locks.  A post is visible or not.   *)
(* A delete request may hide it; once the deletion is complete (sealed)    *)
(* the post never comes back, unless it is spent: older than the retention *)
(* period, so that the store owes nobody anything about it any more.       *)
(* PostStore implements this specification (PostStore!Feed).               *)
(***************************************************************************)
CONSTANT Post

VARIABLES
    visible,     \* posts a lookup finds
    retracting,  \* posts a delete event has been received for
    sealed,      \* posts whose deletion has completed
    spent        \* posts the store may forget

feedVars == <<visible, retracting, sealed, spent>>

Init ==
    /\ visible = {}
    /\ retracting = {}
    /\ sealed = {}
    /\ spent \subseteq Post

\* A post appears: never after its deletion has completed, unless spent.
Publish(p) ==
    /\ p \in sealed => p \in spent
    /\ visible' = visible \union {p}
    /\ UNCHANGED <<retracting, sealed, spent>>

\* A post disappears: only on request, or because it is spent.
Withdraw(p) ==
    /\ p \in retracting \union spent
    /\ visible' = visible \ {p}
    /\ UNCHANGED <<retracting, sealed, spent>>

\* Delete events arrive.
Request(P) ==
    /\ retracting' = retracting \union P
    /\ UNCHANGED <<visible, sealed, spent>>

\* The deletion of p completes: from now on p is hidden, unless spent.
Seal(p) ==
    /\ p \in retracting
    /\ p \in visible => p \in spent
    /\ sealed' = sealed \union {p}
    /\ UNCHANGED <<visible, retracting, spent>>

\* Posts grow too old to matter.
Spend(P) ==
    /\ spent' = spent \union P
    /\ UNCHANGED <<visible, retracting, sealed>>

Next ==
    \/ \E p \in Post : Publish(p) \/ Withdraw(p) \/ Seal(p)
    \/ \E P \in SUBSET Post : Request(P) \/ Spend(P)

Spec == Init /\ [][Next]_feedVars
=============================================================================
