------------------------------- MODULE MCFeeder -------------------------------
(* Two threads: two batches of the events of a post that is created, deleted  *)
(* and deleted as a quote, and of a late one; and an event the batch skips    *)
(* before one that lacks a field.                                             *)
EXTENDS Feeder

CONSTANTS t1, t2, p1, p2

E(k, p) == [kind |-> k, post |-> p]
MCLog == [t \in Thread |->
    IF t = t1
    THEN <<E("create", p1), E("delete", p1), E("quote_delete", p1), E("create", p2)>>
    ELSE <<E("ignored", p2), E("malformed", p2)>>]
MCCreatedAt == [p \in Post |-> IF p = p1 THEN 1 ELSE 0]
=============================================================================
