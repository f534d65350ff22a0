---------------------------- MODULE AttentionMask ----------------------------
(***************************************************************************)
(* What the scores of the ranking model can depend on (phoenix/grok.py,    *)
(* phoenix/recsys_model.py).  A sequence is the user, the history and the  *)
(* candidates, each position valid or padding; a layer mixes into a        *)
(* position what it attends to.  Numbers are abstracted to the positions   *)
(* whose input they were computed from.                                    *)
(*                                                                         *)
(* The softmax gives a masked key (-1e30) weight zero, except in a row     *)
(* whose keys are all masked: there the weights are equal and the position *)
(* attends to everything.                                                  *)
(***************************************************************************)
EXTENDS Integers

CONSTANTS
    SeqLen,    \* user, history and candidates together
    Offset,    \* candidate_start_offset
    Valid,     \* positions whose hash is not 0, the padding
    NumLayers

Position == 0 .. SeqLen - 1

VARIABLES
    layer,     \* layers applied
    depends    \* the input positions the embedding of a position depends on

vars == <<layer, depends>>

\* make_recsys_attn_mask: causal, without the candidates' block, with its diagonal.
AttnMask(i, j) ==
    \/ j <= i /\ ~(i >= Offset /\ j >= Offset)
    \/ i = j /\ i >= Offset

\* mask * attn_mask in Transformer.
Allowed(i) == {j \in Valid : AttnMask(i, j)}

Attended(i) == IF Allowed(i) = {} THEN Position ELSE Allowed(i)

Init ==
    /\ layer = 0
    /\ depends = [i \in Position |-> {i}]

\* DecoderLayer: attention, then the dense block, both added to the position itself.
Layer ==
    /\ layer < NumLayers
    /\ layer' = layer + 1
    /\ depends' = [i \in Position |-> depends[i] \union UNION {depends[j] : j \in Attended(i)}]

Spec == Init /\ [][Layer]_vars

-----------------------------------------------------------------------------
\* The position itself, and what is valid before it, candidates left out.
Context(i) == {i} \union {j \in Valid : j <= i /\ j < Offset}

\* A valid position depends on its context, all of it and nothing else, from
\* the first layer on: the embedding, hence the score, of a candidate never on
\* another candidate and never on padding, however many layers there are and
\* wherever the padding is.  (Padding may depend on anything.)
Isolated ==
    \A i \in Valid : depends[i] = IF layer = 0 THEN {i} ELSE Context(i)
=============================================================================
