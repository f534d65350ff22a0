----------------------------- MODULE MCPostStore -----------------------------
(* Small instances of PostStore: one author, an own video and a retweet of   *)
(* it, created one second apart.                                             *)
EXTENDS PostStore, TLC

CONSTANTS p1, p2, alice

MCAuthorOf == [p \in Post |-> alice]
MCCreatedAt == [p \in Post |-> IF p = p1 THEN 0 ELSE 1]
MCRetweet == Post \ {p1}
MCVideo == {p1}
MCSourceOf == [p \in Post |-> IF p = p1 THEN None ELSE p1]

ThreadSymmetry == Permutations(Thread)
=============================================================================
