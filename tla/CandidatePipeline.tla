-------------------------- MODULE CandidatePipeline --------------------------
(***************************************************************************)
(* CandidatePipeline::execute of candidate-pipeline/: one request on its   *)
(* way through the stages of a recommendation pipeline.  The components of *)
(* a parallel stage are called together on the same snapshot, answer in    *)
(* any order and are merged in the order they are listed; filters and      *)
(* scorers are called one after the other.  A component may be disabled    *)
(* for the query, fail, or return the wrong number of candidates.          *)
(*                                                                         *)
(* Components are parameters: Outcome says what a call may return, Update  *)
(* how an answer is copied into the query or a candidate.  No state is     *)
(* shared between requests, so one request is all there is to see.         *)
(***************************************************************************)
EXTENDS Integers, Sequences, FiniteSets

CONSTANTS
    Query, Request,     \* what a query may be, and what it is when it arrives
    Candidate,          \* what a candidate may be
    Sound,              \* candidates with nothing in them that was computed for another
    QueryHydrators, Sources, Hydrators, Filters, Scorers,
    PostSelectionHydrators, PostSelectionFilters, SideEffects,  \* sequences of components
    Selector,           \* the one selector
    Error,              \* what a call that failed returns
    Enable(_, _),       \* component, query: its enable()
    Outcome(_, _, _),   \* component, query, candidates: what its call may return
    Update(_, _, _),    \* component, query or candidate, answer: its update()
    Id(_),              \* what stays the same of a candidate
    Score(_),           \* what the selector sorts by
    SelectSize,         \* size(); beyond the length of any list for None
    ResultSize          \* result_size()

Parallel == {"query", "source", "hydrate", "post_hydrate"}
Listed == [query |-> QueryHydrators, source |-> Sources, hydrate |-> Hydrators,
           filter |-> Filters, score |-> Scorers,
           post_hydrate |-> PostSelectionHydrators, post_filter |-> PostSelectionFilters]
Stage == DOMAIN Listed \union {"select", "reply", "done"}
Component == UNION {{Listed[s][i] : i \in DOMAIN Listed[s]} : s \in DOMAIN Listed}

VARIABLES
    stage, pos,   \* the stage, and the component of it whose turn it is
    asked,        \* the components called by a parallel stage
    answers,      \* what those that have answered returned
    query, candidates,
    retrieved, filtered, reply,   \* the fields of PipelineResult
    effects       \* side effects still running in the background

call == <<asked, answers>>
result == <<retrieved, filtered, reply>>
vars == <<stage, pos, call, query, candidates, result, effects>>

EnabledIn(s, q) == {c \in {Listed[s][i] : i \in DOMAIN Listed[s]} : Enable(c, q)}
Turn == Listed[stage][pos]
More == stage \in DOMAIN Listed /\ pos \in DOMAIN Listed[stage]
Over == stage \in DOMAIN Listed /\ pos \notin DOMAIN Listed[stage]

\* Mutant of Begin: the answers of the stage before are still there.
MutBegin(s, q) ==
    /\ stage' = s
    /\ pos' = 1
    /\ asked' = EnabledIn(s, q)
    /\ UNCHANGED answers

\* The parallel stage s begins: every enabled component is called.
Begin(s, q) ==
    /\ stage' = s
    /\ pos' = 1
    /\ asked' = EnabledIn(s, q)
    /\ answers' = <<>>

\* A sequential stage begins.
TurnTo(s) ==
    /\ stage' = s
    /\ pos' = 1
    /\ UNCHANGED call

Truncate(s, n) == IF Len(s) <= n THEN s ELSE SubSeq(s, 1, n)

-----------------------------------------------------------------------------
(* The parallel stages: join_all, then a loop over the answers. *)

\* The call of c ends; it saw the query and the candidates of the snapshot.
Answer(c) ==
    /\ stage \in Parallel
    /\ c \in asked \ DOMAIN answers
    /\ \E r \in Outcome(c, query, candidates) :
        answers' = [d \in DOMAIN answers \union {c} |-> IF d = c THEN r ELSE answers[d]]
    /\ UNCHANGED <<stage, pos, asked, query, candidates, result, effects>>

\* Mutant of AllAnswered: disabled components are waited for as well.
MutAllAnswered == DOMAIN answers = {Listed[stage][i] : i \in DOMAIN Listed[stage]}

AllAnswered == DOMAIN answers = asked
Succeeded == Turn \in asked /\ answers[Turn] \notin Error

MergeQuery ==
    /\ stage = "query" /\ More /\ AllAnswered
    /\ query' = IF Succeeded THEN Update(Turn, query, answers[Turn]) ELSE query
    /\ pos' = pos + 1
    /\ UNCHANGED <<stage, call, candidates, result, effects>>

MergeSource ==
    /\ stage = "source" /\ More /\ AllAnswered
    /\ candidates' = IF Succeeded THEN candidates \o answers[Turn] ELSE candidates
    /\ pos' = pos + 1
    /\ UNCHANGED <<stage, call, query, result, effects>>

\* update_all zips the candidates with the answers.
UpdateAll(c, s, r) ==
    [i \in DOMAIN s |-> IF i \in DOMAIN r THEN Update(c, s[i], r[i]) ELSE s[i]]

\* Mutant of MergeHydration: the length of the answer is not compared.
MutMergeHydration ==
    /\ stage \in {"hydrate", "post_hydrate"} /\ More /\ AllAnswered
    /\ candidates' = IF Succeeded THEN UpdateAll(Turn, candidates, answers[Turn]) ELSE candidates
    /\ pos' = pos + 1
    /\ UNCHANGED <<stage, call, query, result, effects>>

\* An answer of another length is skipped.
MergeHydration ==
    /\ stage \in {"hydrate", "post_hydrate"} /\ More /\ AllAnswered
    /\ candidates' = IF Succeeded /\ Len(answers[Turn]) = Len(candidates)
                     THEN UpdateAll(Turn, candidates, answers[Turn])
                     ELSE candidates
    /\ pos' = pos + 1
    /\ UNCHANGED <<stage, call, query, result, effects>>

-----------------------------------------------------------------------------
(* The sequential stages. *)

Skip ==
    /\ stage \in {"filter", "score", "post_filter"} /\ More
    /\ ~Enable(Turn, query)
    /\ pos' = pos + 1
    /\ UNCHANGED <<stage, call, query, candidates, result, effects>>

\* Mutant of RunFilter: a filter that fails takes the candidates with it.
MutRunFilter ==
    /\ stage \in {"filter", "post_filter"} /\ More
    /\ Enable(Turn, query)
    /\ \E r \in Outcome(Turn, query, candidates) :
        /\ candidates' = IF r \in Error THEN <<>> ELSE r.kept
        /\ filtered' = IF r \in Error THEN filtered ELSE filtered \o r.removed
    /\ pos' = pos + 1
    /\ UNCHANGED <<stage, call, query, retrieved, reply, effects>>

\* A filter that fails leaves the candidates as they were.
RunFilter ==
    /\ stage \in {"filter", "post_filter"} /\ More
    /\ Enable(Turn, query)
    /\ \E r \in Outcome(Turn, query, candidates) :
        IF r \in Error
        THEN UNCHANGED <<candidates, filtered>>
        ELSE /\ candidates' = r.kept
             /\ filtered' = filtered \o r.removed
    /\ pos' = pos + 1
    /\ UNCHANGED <<stage, call, query, retrieved, reply, effects>>

\* A scorer sees what the scorers before it wrote.
RunScorer ==
    /\ stage = "score" /\ More
    /\ Enable(Turn, query)
    /\ \E r \in Outcome(Turn, query, candidates) :
        candidates' = IF r \notin Error /\ Len(r) = Len(candidates)
                      THEN UpdateAll(Turn, candidates, r)
                      ELSE candidates
    /\ pos' = pos + 1
    /\ UNCHANGED <<stage, call, query, result, effects>>

-----------------------------------------------------------------------------
(* From one stage to the next, in the order of execute. *)

FetchCandidates ==
    /\ stage = "query" /\ Over
    /\ Begin("source", query)
    /\ UNCHANGED <<query, candidates, result, effects>>

Hydrate ==
    /\ stage = "source" /\ Over
    /\ Begin("hydrate", query)
    /\ UNCHANGED <<query, candidates, result, effects>>

\* What the filters get is also what the result calls retrieved_candidates.
Filter ==
    /\ stage = "hydrate" /\ Over
    /\ TurnTo("filter")
    /\ retrieved' = candidates
    /\ UNCHANGED <<query, candidates, filtered, reply, effects>>

ScoreAll ==
    /\ stage = "filter" /\ Over
    /\ TurnTo("score")
    /\ UNCHANGED <<query, candidates, result, effects>>

ToSelect ==
    /\ stage = "score" /\ Over
    /\ TurnTo("select")
    /\ UNCHANGED <<query, candidates, result, effects>>

\* Mutant of Orders: ascending.
MutOrders(s) ==
    LET before(i, j) == Score(s[i]) < Score(s[j]) \/ (Score(s[i]) = Score(s[j]) /\ i < j)
    IN  {f \in [DOMAIN s -> DOMAIN s] : \A k, l \in DOMAIN s : k < l => before(f[k], f[l])}

\* The stable sort of s by descending score, as the old index of each new one.
Orders(s) ==
    LET before(i, j) == Score(s[i]) > Score(s[j]) \/ (Score(s[i]) = Score(s[j]) /\ i < j)
    IN  {f \in [DOMAIN s -> DOMAIN s] : \A k, l \in DOMAIN s : k < l => before(f[k], f[l])}

Selected(s, f) == Truncate([k \in DOMAIN s |-> s[f[k]]], SelectSize)

\* The selection, and the post-selection hydrators are called.
Select ==
    /\ stage = "select"
    /\ IF Enable(Selector, query)
       THEN \E f \in Orders(candidates) : candidates' = Selected(candidates, f)
       ELSE UNCHANGED candidates
    /\ Begin("post_hydrate", query)
    /\ UNCHANGED <<query, result, effects>>

FilterPostSelection ==
    /\ stage = "post_hydrate" /\ Over
    /\ TurnTo("post_filter")
    /\ UNCHANGED <<query, candidates, result, effects>>

\* The result is cut to its size, the side effects are spawned, and the request
\* is answered without waiting for them.
Reply ==
    /\ stage = "post_filter" /\ Over
    /\ reply' = Truncate(candidates, ResultSize)
    /\ effects' = {c \in {SideEffects[i] : i \in DOMAIN SideEffects} : Enable(c, query)}
    /\ stage' = "done"
    /\ UNCHANGED <<pos, call, query, candidates, retrieved, filtered>>

\* A side effect ends; whether it failed is ignored.
EffectEnds(c) ==
    /\ c \in effects
    /\ effects' = effects \ {c}
    /\ UNCHANGED <<stage, pos, call, query, candidates, result>>

-----------------------------------------------------------------------------
Init ==
    /\ query \in Request
    /\ stage = "query" /\ pos = 1
    /\ asked = EnabledIn("query", query)
    /\ answers = <<>>
    /\ candidates = <<>>
    /\ retrieved = <<>> /\ filtered = <<>> /\ reply = <<>>
    /\ effects = {}

Merge == MergeQuery \/ MergeSource \/ MergeHydration
Sequential == Skip \/ RunFilter \/ RunScorer
Proceed ==
    \/ FetchCandidates \/ Hydrate \/ Filter \/ ScoreAll \/ ToSelect \/ Select
    \/ FilterPostSelection \/ Reply

Next ==
    \/ \E c \in Component : Answer(c)
    \/ Merge \/ Sequential \/ Proceed
    \/ \E c \in effects : EffectEnds(c)

Spec == Init /\ [][Next]_vars

\* The runtime polls the request, and every call ends, with an answer or an error.
FairSpec ==
    /\ Spec
    /\ \A c \in Component : WF_vars(Answer(c))
    /\ WF_vars(Merge \/ Sequential \/ Proceed)

-----------------------------------------------------------------------------
TypeOK ==
    /\ stage \in Stage /\ pos \in Nat \ {0}
    /\ asked \subseteq Component
    /\ DOMAIN answers \subseteq asked
    /\ query \in Query
    /\ candidates \in Seq(Candidate)
    /\ retrieved \in Seq(Candidate) /\ filtered \in Seq(Candidate) /\ reply \in Seq(Candidate)
    /\ effects \subseteq {SideEffects[i] : i \in DOMAIN SideEffects}

\* How often the candidate x occurs in s.
Occurs(x, s) == Cardinality({i \in DOMAIN s : Id(s[i]) = x})
\* No candidate occurs more often in s than it does in t.
Embeds(s, t) == \A i \in DOMAIN s : Occurs(Id(s[i]), s) <= Occurs(Id(s[i]), t)

Hydrated == stage \notin {"query", "source", "hydrate"}
Unselected == stage \in {"filter", "score", "select"}

\* Candidates are conserved: whatever fails on the way, no retrieved candidate
\* is duplicated, answered and reported as filtered both, or invented; and until
\* the selection none vanishes either.
Conserved ==
    /\ Hydrated => Embeds(candidates \o filtered, retrieved)
    /\ Unselected => Len(candidates) + Len(filtered) = Len(retrieved)
    /\ stage = "done" => Embeds(reply \o filtered, retrieved)

\* What a candidate carries was computed for this candidate, in every list of
\* the result, although answers are matched with candidates by position only
\* and components lose candidates.
Aligned == \A l \in {candidates, retrieved, filtered, reply} : l \in Seq(Sound)
=============================================================================
