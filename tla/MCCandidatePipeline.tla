------------------------ MODULE MCCandidatePipeline ------------------------
(* CandidatePipeline with unreliable components: a candidate remembers for   *)
(* whom each of its fields was computed, and a component may fail, lose a    *)
(* candidate or be disabled.                                                 *)
EXTENDS CandidatePipeline

Fields == {"h1", "h2", "s1", "s2", "v1"}
None == 0

\* A candidate with its fields; a source does not fill any.
Fresh(i) == [id |-> i, fields |-> [f \in Fields |-> None]]
MCCandidate == [id : 1 .. 2, fields : [Fields -> {None, 1, 2}]]
MCSound == {x \in MCCandidate : \A f \in Fields : x.fields[f] \in {None, x.id}}
MCQuery == [fast : BOOLEAN, features : BOOLEAN]
MCRequest == [fast : BOOLEAN, features : {FALSE}]

MCQueryHydrators == <<"q1">>
MCSources == <<"a", "b">>
MCHydrators == <<"h1", "h2">>
MCFilters == <<"f1">>
MCScorers == <<"s1", "s2">>
MCPostSelectionHydrators == <<"v1">>
MCPostSelectionFilters == <<"f2">>
MCSideEffects == <<"e1">>

\* In a fast request the second hydrator, the second scorer, the first filter and the selector rest.
MCEnable(c, q) == q.fast => c \notin {"h2", "s2", "f1", "sort", "e1"}

\* The fields a component fills, for every candidate or for all but the first.
Answers(c, s) ==
    LET full == [i \in DOMAIN s |-> s[i].id]
    IN  {full} \union IF s = <<>> THEN {} ELSE {Tail(full)}

Kept(s, S) == [kept |-> SelectSeq(s, LAMBDA x : x.id \in S),
               removed |-> SelectSeq(s, LAMBDA x : x.id \notin S)]

MCOutcome(c, q, s) ==
    Error \union
    CASE c = "q1" -> {TRUE}
      [] c = "a" -> {<<>>, <<Fresh(1)>>, <<Fresh(1), Fresh(2)>>}
      [] c = "b" -> {<<Fresh(1)>>}
      [] c \in {"h1", "h2", "s1", "s2", "v1"} -> Answers(c, s)
      [] c \in {"f1", "f2"} -> {Kept(s, S) : S \in SUBSET {1, 2}}

MCUpdate(c, x, r) ==
    IF c = "q1" THEN [x EXCEPT !.features = r] ELSE [x EXCEPT !.fields[c] = r]

MCId(x) == x.id
\* A candidate the scorers skipped is last.
MCScore(x) == IF x.fields["s2"] = None THEN -1 ELSE x.id

\* Every request is answered.
Answered == <>(stage = "done")
=============================================================================
