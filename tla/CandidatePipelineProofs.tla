---------------------- MODULE CandidatePipelineProofs ----------------------
(***************************************************************************)
(* The types of CandidatePipeline, the conservation of candidates and that *)
(* their fields are their own, for any components that keep the contract   *)
(* of the traits they implement: in any number, in any order, failing,     *)
(* disabled or answering too little.                                       *)
(*                                                                         *)
(* Candidates are counted by what stays the same of them: no step makes    *)
(* the candidates and the filtered ones together contain one more often    *)
(* than the retrieved ones do.  Answers that wait to be merged suit the    *)
(* candidates in the places they were asked for.                           *)
(***************************************************************************)
EXTENDS CandidatePipeline, FiniteSetTheorems, SequenceTheorems, TLAPS

-----------------------------------------------------------------------------
(* What the components promise. *)

Components(l) == {l[i] : i \in DOMAIN l}

\* What the component c may answer, whatever it is asked, if it does not fail.
MayAnswer(c) == (UNION {Outcome(c, q, s) : q \in Query, s \in Seq(Candidate)}) \ Error

\* A filter moves every candidate to one of its two lists.
Partition(r, s) ==
    /\ r.kept \in Seq(Candidate) /\ r.removed \in Seq(Candidate)
    /\ Len(r.kept) + Len(r.removed) = Len(s)
    /\ \A x \in Candidate : Occurs(Id(x), r.kept) + Occurs(Id(x), r.removed) = Occurs(Id(x), s)

\* update of a hydrator or a scorer keeps what a candidate is.
Contract ==
    /\ Request \subseteq Query /\ SelectSize \in Nat /\ ResultSize \in Nat
    /\ \A x \in Candidate : Score(x) \in Int
    /\ \A c \in Components(QueryHydrators) : \A r \in MayAnswer(c) : \A q \in Query :
           Update(c, q, r) \in Query
    /\ \A c \in Components(Sources) : MayAnswer(c) \subseteq Seq(Candidate)
    /\ \A c \in Components(Hydrators) \union Components(Scorers)
                    \union Components(PostSelectionHydrators) :
           \A r \in MayAnswer(c) : \A i \in DOMAIN r : \A x \in Candidate :
               Update(c, x, r[i]) \in Candidate /\ Id(Update(c, x, r[i])) = Id(x)
    /\ \A c \in Components(Filters) \union Components(PostSelectionFilters) :
           \A q \in Query : \A s \in Seq(Candidate) : \A r \in Outcome(c, q, s) \ Error :
               Partition(r, s)

-----------------------------------------------------------------------------
(* The invariant. *)

\* The answers merged now are answers of the components that were asked.
AnswersInv ==
    stage \in Parallel =>
        /\ asked \subseteq Components(Listed[stage])
        /\ \A c \in DOMAIN answers : answers[c] \notin Error => answers[c] \in MayAnswer(c)

\* s and t together contain no candidate more often than u does.
CountedIn(s, t, u) ==
    \A x \in Candidate : Occurs(Id(x), s) + Occurs(Id(x), t) <= Occurs(Id(x), u)

CountInv ==
    /\ ~Hydrated => filtered = <<>>
    /\ Hydrated => CountedIn(candidates, filtered, retrieved)
    /\ Unselected => Len(candidates) + Len(filtered) = Len(retrieved)
    /\ stage = "done" => CountedIn(reply, filtered, retrieved)

PipelineInv == TypeOK /\ AnswersInv /\ CountInv

-----------------------------------------------------------------------------
(* Counting. *)

LEMMA OccursNat ==
    ASSUME NEW s \in Seq(Candidate), NEW x
    PROVE  /\ IsFiniteSet({i \in DOMAIN s : Id(s[i]) = x})
           /\ Occurs(x, s) \in Nat /\ Occurs(x, <<>>) = 0
<1>1. Len(s) \in Nat /\ {i \in DOMAIN s : Id(s[i]) = x} \in SUBSET (1 .. Len(s))
  OBVIOUS
<1>2. IsFiniteSet(1 .. Len(s))
  BY <1>1, FS_Interval
<1>3. IsFiniteSet({i \in DOMAIN s : Id(s[i]) = x})
  BY <1>1, <1>2, FS_Subset, Zenon
<1>4. {i \in DOMAIN <<>> : Id(<<>>[i]) = x} = {}
  OBVIOUS
<1>. QED
  BY <1>3, <1>4, FS_CardinalityType, FS_EmptySet, Zenon DEF Occurs

\* What is taken from different places of s.
LEMMA OccursTaken ==
    ASSUME NEW s \in Seq(Candidate), NEW t \in Seq(Candidate), NEW x,
           NEW f \in [DOMAIN t -> DOMAIN s],
           \A k, l \in DOMAIN t : f[k] = f[l] => k = l,
           \A k \in DOMAIN t : Id(t[k]) = Id(s[f[k]])
    PROVE  Occurs(x, t) <= Occurs(x, s)
<1>. DEFINE A == {i \in DOMAIN t : Id(t[i]) = x}
            B == {i \in DOMAIN s : Id(s[i]) = x}
            g == [i \in A |-> f[i]]
<1>1. g \in Injection(A, B)
  <2>1. g \in [A -> B] /\ \A k, l \in A : g[k] = g[l] => k = l
    OBVIOUS
  <2>. HIDE DEF g
  <2>. QED
    BY <2>1 DEF Injection, IsInjective
<1>2. IsFiniteSet(B)
  BY OccursNat
<1>3. Cardinality(A) <= Cardinality(B)
  BY <1>1, <1>2, FS_Injection
<1>. QED
  BY <1>3 DEF Occurs

\* What a sequence contains is in one of two parts.
LEMMA OccursConcat ==
    ASSUME NEW s \in Seq(Candidate), NEW t \in Seq(Candidate), NEW x
    PROVE  s \o t \in Seq(Candidate) /\ Occurs(x, s \o t) = Occurs(x, s) + Occurs(x, t)
<1>. DEFINE u == s \o t
            A == {i \in DOMAIN s : Id(s[i]) = x}
            B == {i \in DOMAIN t : Id(t[i]) = x}
            C == {i \in DOMAIN u : Id(u[i]) = x /\ i > Len(s)}
            D == {i \in DOMAIN u : Id(u[i]) = x}
            g == [i \in B |-> i + Len(s)]
<1>1. /\ u \in Seq(Candidate) /\ DOMAIN u = 1 .. Len(s) + Len(t)
      /\ DOMAIN s = 1 .. Len(s) /\ DOMAIN t = 1 .. Len(t) /\ Len(s) \in Nat /\ Len(t) \in Nat
      /\ \A i \in DOMAIN s : u[i] = s[i]
      /\ \A i \in DOMAIN t : u[i + Len(s)] = t[i]
  OBVIOUS
<1>. HIDE DEF u
<1>2. D = A \union C /\ A \intersect C = {}
  BY <1>1
<1>3. IsFiniteSet(A) /\ IsFiniteSet(B) /\ IsFiniteSet(D)
  BY <1>1, OccursNat
<1>4. g \in Bijection(B, C)
  <2>1. \A i \in B : i + Len(s) \in C /\ i \in Nat
    BY <1>1
  <2>2. \A j \in C : j - Len(s) \in B /\ (j - Len(s)) + Len(s) = j
    BY <1>1
  <2>3. g \in [B -> C] /\ (\A k, l \in B : g[k] = g[l] => k = l) /\ \A j \in C : \E i \in B : g[i] = j
    BY <1>1, <2>1, <2>2
  <2>. HIDE DEF g, B, C
  <2>. QED
    BY <2>3 DEF Bijection, Injection, Surjection, IsInjective
<1>5. Cardinality(C) = Cardinality(B) /\ IsFiniteSet(C)
  BY <1>3, <1>4, FS_Bijection DEF ExistsBijection
<1>6. /\ Cardinality(D) = Cardinality(A) + Cardinality(C) - Cardinality(A \intersect C)
      /\ Cardinality(A) \in Nat /\ Cardinality(C) \in Nat
  BY <1>2, <1>3, <1>5, FS_Union, FS_CardinalityType, Zenon
<1>7. Cardinality(A \intersect C) = 0
  BY <1>2, FS_EmptySet
<1>8. Cardinality(D) = Cardinality(A) + Cardinality(B)
  <2>. HIDE DEF A, B, C, D
  <2>. QED
    BY <1>5, <1>6, <1>7
<1>. QED
  BY <1>1, <1>8, Zenon DEF Occurs, u

LEMMA TruncateCounts ==
    ASSUME NEW s \in Seq(Candidate), NEW n \in Nat
    PROVE  Truncate(s, n) \in Seq(Candidate) /\ \A x : Occurs(x, Truncate(s, n)) <= Occurs(x, s)
<1>. DEFINE t == Truncate(s, n)
            f == [k \in DOMAIN t |-> k]
<1>1. t \in Seq(Candidate) /\ \A k \in DOMAIN t : k \in DOMAIN s /\ t[k] = s[k]
  BY DEF Truncate
<1>. HIDE DEF t
<1>2. f \in [DOMAIN t -> DOMAIN s] /\ \A k, l \in DOMAIN t : f[k] = f[l] => k = l
  BY <1>1
<1>3. \A k \in DOMAIN t : Id(t[k]) = Id(s[f[k]])
  BY <1>1
<1>. HIDE DEF f
<1>4. \A x : Occurs(x, t) <= Occurs(x, s)
  BY <1>1, <1>2, <1>3, OccursTaken
<1>. QED
  BY <1>1, <1>4 DEF t

LEMMA SelectedCounts ==
    ASSUME NEW s \in Seq(Candidate), NEW f \in Orders(s), SelectSize \in Nat,
           \A x \in Candidate : Score(x) \in Int
    PROVE  Selected(s, f) \in Seq(Candidate) /\ \A x : Occurs(x, Selected(s, f)) <= Occurs(x, s)
<1>. DEFINE t == [k \in DOMAIN s |-> s[f[k]]]
            Before(i, j) == Score(s[i]) > Score(s[j]) \/ (Score(s[i]) = Score(s[j]) /\ i < j)
<1>1. /\ f \in [DOMAIN s -> DOMAIN s]
      /\ \A k, l \in DOMAIN s : k < l => Before(f[k], f[l])
  BY Zenon DEF Orders
<1>2. DOMAIN s = 1 .. Len(s) /\ Len(s) \in Nat
  OBVIOUS
<1>3. \A k, l \in DOMAIN s : f[k] = f[l] => k = l
  <2>1. \A i \in DOMAIN s : ~Before(i, i)
    <3>1. \A i \in DOMAIN s : Score(s[i]) \in Int /\ i \in Int
      BY <1>2
    <3>. QED
      BY <3>1
  <2>2. \A k, l \in DOMAIN s : k < l => f[k] # f[l]
    BY <1>1, <2>1
  <2>. QED
    BY <1>2, <2>2
<1>4. t \in Seq(Candidate) /\ DOMAIN t = DOMAIN s
  <2>1. t \in [1 .. Len(s) -> Candidate]
    BY <1>1, <1>2
  <2>. QED
    BY <1>2, <2>1
<1>5. \A k \in DOMAIN s : t[k] = s[f[k]]
  OBVIOUS
<1>. HIDE DEF t
<1>6. \A x : Occurs(x, t) <= Occurs(x, s)
  BY <1>1, <1>3, <1>4, <1>5, OccursTaken
<1>7. Truncate(t, SelectSize) \in Seq(Candidate)
      /\ \A x : Occurs(x, Truncate(t, SelectSize)) <= Occurs(x, t)
  BY <1>4, TruncateCounts
<1>8. Selected(s, f) = Truncate(t, SelectSize)
  BY Zenon DEF Selected, t
<1>9. \A x : Occurs(x, t) \in Nat /\ Occurs(x, s) \in Nat /\ Occurs(x, Selected(s, f)) \in Nat
  BY <1>4, <1>7, <1>8, OccursNat
<1>. QED
  BY <1>6, <1>7, <1>8, <1>9

\* The answer r of a hydrator or a scorer is copied into the candidates s.
LEMMA UpdateCounts ==
    ASSUME NEW s \in Seq(Candidate), NEW c, NEW r,
           \A i \in DOMAIN r : \A x \in Candidate :
               Update(c, x, r[i]) \in Candidate /\ Id(Update(c, x, r[i])) = Id(x)
    PROVE  /\ UpdateAll(c, s, r) \in Seq(Candidate) /\ Len(UpdateAll(c, s, r)) = Len(s)
           /\ \A x : Occurs(x, UpdateAll(c, s, r)) = Occurs(x, s)
<1>. DEFINE t == UpdateAll(c, s, r)
<1>1. DOMAIN s = 1 .. Len(s) /\ Len(s) \in Nat /\ \A i \in DOMAIN s : s[i] \in Candidate
  OBVIOUS
<1>2. /\ t = [i \in DOMAIN s |-> IF i \in DOMAIN r THEN Update(c, s[i], r[i]) ELSE s[i]]
      /\ DOMAIN t = DOMAIN s
  BY DEF UpdateAll
<1>3. \A i \in DOMAIN s : t[i] \in Candidate /\ Id(t[i]) = Id(s[i])
  BY <1>1, <1>2
<1>. HIDE DEF t
<1>4. t \in Seq(Candidate) /\ Len(t) = Len(s)
  <2>1. t \in [1 .. Len(s) -> Candidate]
    BY <1>1, <1>2, <1>3
  <2>. QED
    BY <1>1, <2>1
<1>5. ASSUME NEW x PROVE Occurs(x, t) = Occurs(x, s)
  <2>1. {i \in DOMAIN t : Id(t[i]) = x} = {i \in DOMAIN s : Id(s[i]) = x}
    BY <1>2, <1>3
  <2>. QED
    BY <2>1 DEF Occurs
<1>. QED
  BY <1>4, <1>5 DEF t

\* The answer r of a filter moves the candidates s to those filtered before.
LEMMA PartitionCounts ==
    ASSUME NEW s \in Seq(Candidate), NEW f \in Seq(Candidate), NEW r, Partition(r, s)
    PROVE  /\ r.kept \in Seq(Candidate) /\ f \o r.removed \in Seq(Candidate)
           /\ Len(r.kept) + Len(f \o r.removed) = Len(s) + Len(f)
           /\ \A x \in Candidate : Occurs(Id(x), r.kept) + Occurs(Id(x), f \o r.removed)
                                     = Occurs(Id(x), s) + Occurs(Id(x), f)
<1>. DEFINE k == r.kept
            m == r.removed
<1>1. /\ k \in Seq(Candidate) /\ m \in Seq(Candidate) /\ Len(k) + Len(m) = Len(s)
      /\ \A x \in Candidate : Occurs(Id(x), k) + Occurs(Id(x), m) = Occurs(Id(x), s)
  BY DEF Partition
<1>. HIDE DEF k, m
<1>2. f \o m \in Seq(Candidate) /\ Len(f \o m) = Len(f) + Len(m)
  BY <1>1
<1>3. Len(f) \in Nat /\ Len(k) \in Nat /\ Len(m) \in Nat
  BY <1>1
<1>4. Len(k) + Len(f \o m) = Len(s) + Len(f)
  <2>. DEFINE n == f \o m
  <2>1. Len(n) = Len(f) + Len(m)
    BY <1>2
  <2>. HIDE DEF n
  <2>2. Len(k) + Len(m) = Len(s)
    BY <1>1
  <2>3. Len(k) + Len(n) = Len(s) + Len(f)
    BY <1>3, <2>1, <2>2
  <2>. QED
    BY <2>3 DEF n
<1>5. ASSUME NEW x \in Candidate
      PROVE  Occurs(Id(x), k) + Occurs(Id(x), f \o m) = Occurs(Id(x), s) + Occurs(Id(x), f)
  <2>1. Occurs(Id(x), f \o m) = Occurs(Id(x), f) + Occurs(Id(x), m)
    BY <1>1, OccursConcat
  <2>2. Occurs(Id(x), f) \in Nat /\ Occurs(Id(x), m) \in Nat /\ Occurs(Id(x), k) \in Nat
    BY <1>1, OccursNat
  <2>. QED
    BY <1>1, <2>1, <2>2
<1>. QED
  BY <1>1, <1>2, <1>4, <1>5 DEF k, m

LEMMA EmbedsFrom ==
    ASSUME NEW s \in Seq(Candidate), NEW t \in Seq(Candidate), NEW u \in Seq(Candidate),
           CountedIn(s, t, u)
    PROVE  Embeds(s \o t, u)
<1>1. s \o t \in Seq(Candidate) /\ \A x : Occurs(x, s \o t) = Occurs(x, s) + Occurs(x, t)
  BY OccursConcat
<1>2. \A i \in DOMAIN (s \o t) : (s \o t)[i] \in Candidate
  BY <1>1
<1>. QED
  BY <1>1, <1>2 DEF CountedIn, Embeds

-----------------------------------------------------------------------------
(* The steps. *)

LEMMA PipelineStarts == ASSUME Contract PROVE Init => PipelineInv
<1>. SUFFICES ASSUME Init PROVE PipelineInv
  OBVIOUS
<1>1. asked = EnabledIn("query", query) /\ DOMAIN answers = {}
  BY DEF Init
<1>2. asked \subseteq Components(Listed["query"]) /\ asked \subseteq Component
  BY <1>1 DEF EnabledIn, Components, Component, Listed
<1>3. TypeOK
  BY <1>1, <1>2 DEF Init, TypeOK, Stage, Listed, Contract
<1>4. AnswersInv
  BY <1>1, <1>2 DEF Init, AnswersInv
<1>5. CountInv
  BY DEF Init, CountInv, Hydrated, Unselected
<1>. QED
  BY <1>3, <1>4, <1>5 DEF PipelineInv

\* The stages a step can lead to are the stages.
LEMMA StagesAre == Stage = {"query", "source", "hydrate", "filter", "score", "post_hydrate",
                            "post_filter", "select", "reply", "done"}
BY DEF Stage, Listed

LEMMA MayAnswerHas ==
    ASSUME NEW c, NEW q \in Query, NEW s \in Seq(Candidate), NEW r \in Outcome(c, q, s),
           r \notin Error
    PROVE  r \in MayAnswer(c)
<1>. DEFINE M == {Outcome(c, v, z) : v \in Query, z \in Seq(Candidate)}
<1>1. Outcome(c, q, s) \in M
  OBVIOUS
<1>2. MayAnswer(c) = (UNION M) \ Error
  BY DEF MayAnswer
<1>3. r \in UNION M
  <2>. HIDE DEF M
  <2>1. \E x \in M : r \in x
    BY <1>1, Zenon
  <2>. QED
    BY <2>1, Zenon
<1>. QED
  BY <1>2, <1>3

\* A parallel stage begins with the components listed for it and no answers.
LEMMA Begins ==
    ASSUME NEW s \in Parallel, Begin(s, query)
    PROVE  /\ stage' = s /\ stage' \in Stage /\ pos' = 1 /\ DOMAIN answers' = {}
           /\ asked' \subseteq Component /\ asked' \subseteq Components(Listed[s])
<1>1. s \in DOMAIN Listed
  BY DEF Parallel, Listed
<1>2. asked' \subseteq Components(Listed[s])
  BY DEF Begin, EnabledIn, Components
<1>3. Components(Listed[s]) \subseteq Component
  BY <1>1, Zenon DEF Components, Component
<1>. QED
  BY <1>1, <1>2, <1>3 DEF Begin, Stage

LEMMA PipelineMoves ==
    ASSUME Contract, PipelineInv, [Next]_vars
    PROVE  PipelineInv'
<1>. USE StagesAre
<1>0. TypeOK /\ AnswersInv /\ CountInv
  BY DEF PipelineInv
<1>1. ASSUME NEW c \in Component, Answer(c) PROVE PipelineInv'
  <2>1. PICK r \in Outcome(c, query, candidates) :
          answers' = [d \in DOMAIN answers \union {c} |-> IF d = c THEN r ELSE answers[d]]
    BY <1>1 DEF Answer
  <2>2. c \in asked /\ UNCHANGED <<stage, pos, asked, query, candidates, result, effects>>
    BY <1>1 DEF Answer
  <2>3. /\ DOMAIN answers' = DOMAIN answers \union {c} /\ answers'[c] = r
        /\ \A d \in DOMAIN answers : d # c => answers'[d] = answers[d]
    BY <2>1
  <2>4. r \notin Error => r \in MayAnswer(c)
    <3>1. query \in Query /\ candidates \in Seq(Candidate)
      BY <1>0 DEF TypeOK
    <3>. QED
      BY <3>1, MayAnswerHas
  <2>5. TypeOK'
    BY <1>0, <2>2, <2>3 DEF TypeOK, result
  <2>6. AnswersInv'
    BY <1>0, <2>2, <2>3, <2>4 DEF AnswersInv
  <2>7. CountInv'
    BY <1>0, <2>2 DEF CountInv, CountedIn, Hydrated, Unselected, result
  <2>. QED
    BY <2>5, <2>6, <2>7 DEF PipelineInv
<1>2. ASSUME More PROVE Turn \in Components(Listed[stage]) /\ pos + 1 \in Nat \ {0}
  BY <1>0, <1>2 DEF More, Turn, Components, TypeOK
<1>3. CASE MergeQuery
  <2>1. query' \in Query
    <3>1. CASE Succeeded
      <4>1. stage = "query" /\ More /\ AllAnswered /\ query' = Update(Turn, query, answers[Turn])
        BY <1>3, <3>1 DEF MergeQuery
      <4>2. Turn \in Components(QueryHydrators)
        BY <1>2, <4>1 DEF Listed
      <4>3. answers[Turn] \in MayAnswer(Turn)
        BY <1>0, <3>1, <4>1 DEF Succeeded, AllAnswered, AnswersInv, Parallel
      <4>4. query \in Query
        BY <1>0 DEF TypeOK
      <4>. QED
        BY <4>1, <4>2, <4>3, <4>4 DEF Contract
    <3>2. CASE ~Succeeded
      BY <1>0, <1>3, <3>2 DEF MergeQuery, TypeOK
    <3>. QED
      BY <3>1, <3>2
  <2>2. /\ More /\ pos' = pos + 1 /\ stage = "query"
        /\ UNCHANGED <<stage, call, candidates, result, effects>>
    BY <1>3 DEF MergeQuery
  <2>3. TypeOK'
    BY <1>0, <1>2, <2>1, <2>2 DEF TypeOK, call, result
  <2>4. AnswersInv'
    BY <1>0, <2>2 DEF AnswersInv, call
  <2>5. CountInv'
    BY <1>0, <2>2 DEF CountInv, CountedIn, Hydrated, Unselected, result
  <2>. QED
    BY <2>3, <2>4, <2>5 DEF PipelineInv
<1>4. CASE MergeSource
  <2>1. candidates' \in Seq(Candidate)
    <3>1. CASE Succeeded
      <4>1. stage = "source" /\ More /\ AllAnswered /\ candidates' = candidates \o answers[Turn]
        BY <1>4, <3>1 DEF MergeSource
      <4>2. Turn \in Components(Sources)
        BY <1>2, <4>1 DEF Listed
      <4>3. answers[Turn] \in MayAnswer(Turn)
        BY <1>0, <3>1, <4>1 DEF Succeeded, AllAnswered, AnswersInv, Parallel
      <4>4. candidates \in Seq(Candidate) /\ answers[Turn] \in Seq(Candidate)
        BY <1>0, <4>2, <4>3 DEF TypeOK, Contract
      <4>. QED
        BY <4>1, <4>4, OccursConcat
    <3>2. CASE ~Succeeded
      BY <1>0, <1>4, <3>2 DEF MergeSource, TypeOK
    <3>. QED
      BY <3>1, <3>2
  <2>2. /\ More /\ pos' = pos + 1 /\ stage = "source"
        /\ UNCHANGED <<stage, call, query, result, effects>>
    BY <1>4 DEF MergeSource
  <2>3. TypeOK'
    BY <1>0, <1>2, <2>1, <2>2 DEF TypeOK, call, result
  <2>4. AnswersInv'
    BY <1>0, <2>2 DEF AnswersInv, call
  <2>5. CountInv'
    BY <1>0, <2>2 DEF CountInv, CountedIn, Hydrated, Unselected, result
  <2>. QED
    BY <2>3, <2>4, <2>5 DEF PipelineInv
<1>5. CASE MergeHydration
  <2>1. /\ candidates' \in Seq(Candidate) /\ Len(candidates') = Len(candidates)
        /\ \A x : Occurs(x, candidates') = Occurs(x, candidates)
    <3>1. CASE Succeeded /\ Len(answers[Turn]) = Len(candidates)
      <4>1. /\ stage \in {"hydrate", "post_hydrate"} /\ More /\ AllAnswered
            /\ candidates' = UpdateAll(Turn, candidates, answers[Turn])
        BY <1>5, <3>1 DEF MergeHydration
      <4>2. Turn \in Components(Hydrators) \union Components(PostSelectionHydrators)
        BY <1>2, <4>1 DEF Listed
      <4>3. answers[Turn] \in MayAnswer(Turn)
        BY <1>0, <3>1, <4>1 DEF Succeeded, AllAnswered, AnswersInv, Parallel
      <4>4. \A i \in DOMAIN answers[Turn] : \A x \in Candidate :
                /\ Update(Turn, x, answers[Turn][i]) \in Candidate
                /\ Id(Update(Turn, x, answers[Turn][i])) = Id(x)
        BY <4>2, <4>3 DEF Contract
      <4>5. candidates \in Seq(Candidate)
        BY <1>0 DEF TypeOK
      <4>. QED
        BY <4>1, <4>4, <4>5, UpdateCounts
    <3>2. CASE ~(Succeeded /\ Len(answers[Turn]) = Len(candidates))
      BY <1>0, <1>5, <3>2 DEF MergeHydration, TypeOK
    <3>. QED
      BY <3>1, <3>2
  <2>2. /\ More /\ pos' = pos + 1 /\ stage \in {"hydrate", "post_hydrate"}
        /\ UNCHANGED <<stage, call, query, result, effects>>
    BY <1>5 DEF MergeHydration
  <2>3. TypeOK'
    BY <1>0, <1>2, <2>1, <2>2 DEF TypeOK, call, result
  <2>4. AnswersInv'
    BY <1>0, <2>2 DEF AnswersInv, call
  <2>5. CountInv'
    BY <1>0, <2>1, <2>2 DEF CountInv, CountedIn, Hydrated, Unselected, result
  <2>. QED
    BY <2>3, <2>4, <2>5 DEF PipelineInv
<1>6. CASE Skip
  <2>1. /\ More /\ pos' = pos + 1
        /\ UNCHANGED <<stage, call, query, candidates, result, effects>>
    BY <1>6 DEF Skip
  <2>2. TypeOK'
    BY <1>0, <1>2, <2>1 DEF TypeOK, call, result
  <2>3. AnswersInv'
    BY <1>0, <2>1 DEF AnswersInv, call
  <2>4. CountInv'
    BY <1>0, <2>1 DEF CountInv, CountedIn, Hydrated, Unselected, result
  <2>. QED
    BY <2>2, <2>3, <2>4 DEF PipelineInv
<1>7. CASE RunFilter
  <2>1. /\ More /\ pos' = pos + 1 /\ stage \in {"filter", "post_filter"}
        /\ UNCHANGED <<stage, call, query, retrieved, reply, effects>>
    BY <1>7 DEF RunFilter
  <2>2. /\ candidates \in Seq(Candidate) /\ filtered \in Seq(Candidate) /\ query \in Query
        /\ retrieved \in Seq(Candidate)
    BY <1>0 DEF TypeOK
  <2>3. PICK r \in Outcome(Turn, query, candidates) :
          IF r \in Error
          THEN UNCHANGED <<candidates, filtered>>
          ELSE candidates' = r.kept /\ filtered' = filtered \o r.removed
    BY <1>7 DEF RunFilter
  <2>4. CASE r \in Error
    <3>1. UNCHANGED <<candidates, filtered>>
      BY <2>3, <2>4
    <3>2. TypeOK'
      BY <1>0, <1>2, <2>1, <3>1 DEF TypeOK, call
    <3>3. AnswersInv'
      BY <1>0, <2>1 DEF AnswersInv, Parallel
    <3>4. CountInv'
      BY <1>0, <2>1, <3>1 DEF CountInv, CountedIn, Hydrated, Unselected
    <3>. QED
      BY <3>2, <3>3, <3>4 DEF PipelineInv
  <2>5. CASE r \notin Error
    <3>1. Turn \in Components(Filters) \union Components(PostSelectionFilters)
      BY <1>2, <2>1 DEF Listed
    <3>2. Partition(r, candidates)
      BY <2>2, <2>5, <3>1 DEF Contract
    <3>3. candidates' = r.kept /\ filtered' = filtered \o r.removed
      BY <2>3, <2>5
    <3>4. /\ candidates' \in Seq(Candidate) /\ filtered' \in Seq(Candidate)
          /\ Len(candidates') + Len(filtered') = Len(candidates) + Len(filtered)
          /\ \A x \in Candidate : Occurs(Id(x), candidates') + Occurs(Id(x), filtered')
                                    = Occurs(Id(x), candidates) + Occurs(Id(x), filtered)
      BY <2>2, <3>2, <3>3, PartitionCounts, Zenon
    <3>5. CountedIn(candidates', filtered', retrieved)
      <4>1. CountedIn(candidates, filtered, retrieved)
        BY <1>0, <2>1 DEF CountInv, Hydrated
      <4>. QED
        BY <3>4, <4>1 DEF CountedIn
    <3>6. TypeOK'
      BY <1>0, <1>2, <2>1, <3>4 DEF TypeOK, call
    <3>7. AnswersInv'
      BY <1>0, <2>1 DEF AnswersInv, Parallel
    <3>8. CountInv'
      BY <1>0, <2>1, <3>4, <3>5 DEF CountInv, CountedIn, Hydrated, Unselected
    <3>. QED
      BY <3>6, <3>7, <3>8 DEF PipelineInv
  <2>. QED
    BY <2>4, <2>5
<1>8. CASE RunScorer
  <2>1. /\ More /\ pos' = pos + 1 /\ stage = "score"
        /\ UNCHANGED <<stage, call, query, result, effects>>
    BY <1>8 DEF RunScorer
  <2>2. candidates \in Seq(Candidate) /\ query \in Query
    BY <1>0 DEF TypeOK
  <2>3. PICK r \in Outcome(Turn, query, candidates) :
          candidates' = IF r \notin Error /\ Len(r) = Len(candidates)
                        THEN UpdateAll(Turn, candidates, r) ELSE candidates
    BY <1>8 DEF RunScorer
  <2>4. /\ candidates' \in Seq(Candidate) /\ Len(candidates') = Len(candidates)
        /\ \A x : Occurs(x, candidates') = Occurs(x, candidates)
    <3>1. CASE r \notin Error /\ Len(r) = Len(candidates)
      <4>1. Turn \in Components(Scorers)
        BY <1>2, <2>1 DEF Listed
      <4>2. r \in MayAnswer(Turn)
        BY <2>2, <3>1, MayAnswerHas
      <4>3. \A i \in DOMAIN r : \A x \in Candidate :
                Update(Turn, x, r[i]) \in Candidate /\ Id(Update(Turn, x, r[i])) = Id(x)
        BY <4>1, <4>2 DEF Contract
      <4>. QED
        BY <2>2, <2>3, <3>1, <4>3, UpdateCounts
    <3>2. CASE ~(r \notin Error /\ Len(r) = Len(candidates))
      BY <2>2, <2>3, <3>2
    <3>. QED
      BY <3>1, <3>2
  <2>5. TypeOK'
    BY <1>0, <1>2, <2>1, <2>4 DEF TypeOK, call, result
  <2>6. AnswersInv'
    BY <1>0, <2>1 DEF AnswersInv, call
  <2>7. CountInv'
    BY <1>0, <2>1, <2>4 DEF CountInv, CountedIn, Hydrated, Unselected, result
  <2>. QED
    BY <2>5, <2>6, <2>7 DEF PipelineInv
<1>9. ASSUME FetchCandidates \/ Hydrate PROVE PipelineInv'
  <2>1. PICK s \in Parallel : /\ Begin(s, query) /\ s \in {"source", "hydrate"}
                              /\ ~Hydrated
                              /\ UNCHANGED <<query, candidates, result, effects>>
    BY <1>9 DEF FetchCandidates, Hydrate, Parallel, Hydrated
  <2>2. TypeOK'
    BY <1>0, <2>1, Begins DEF TypeOK, result
  <2>3. AnswersInv'
    BY <2>1, Begins DEF AnswersInv
  <2>4. CountInv'
    BY <1>0, <2>1, Begins DEF CountInv, Hydrated, Unselected, result
  <2>. QED
    BY <2>2, <2>3, <2>4 DEF PipelineInv
<1>10. CASE Filter
  <2>1. /\ stage = "hydrate" /\ stage' = "filter" /\ pos' = 1 /\ retrieved' = candidates
        /\ UNCHANGED <<call, query, candidates, filtered, reply, effects>>
    BY <1>10 DEF Filter, TurnTo
  <2>2. candidates \in Seq(Candidate) /\ filtered = <<>>
    BY <1>0, <2>1 DEF TypeOK, CountInv, Hydrated
  <2>3. TypeOK'
    BY <1>0, <2>1 DEF TypeOK, call
  <2>4. AnswersInv'
    BY <2>1 DEF AnswersInv, Parallel
  <2>5. CountedIn(candidates, filtered, candidates)
    <3>1. ASSUME NEW x \in Candidate
          PROVE  Occurs(Id(x), candidates) + Occurs(Id(x), filtered) <= Occurs(Id(x), candidates)
      <4>1. Occurs(Id(x), candidates) \in Nat /\ Occurs(Id(x), filtered) = 0
        BY <2>2, OccursNat
      <4>. QED
        BY <4>1
    <3>. QED
      BY <3>1 DEF CountedIn
  <2>6. CountInv'
    <3>1. Len(candidates) + Len(filtered) = Len(candidates)
      BY <2>2
    <3>. QED
      BY <2>1, <2>5, <3>1 DEF CountInv, CountedIn, Hydrated, Unselected
  <2>. QED
    BY <2>3, <2>4, <2>6 DEF PipelineInv
<1>11. ASSUME ScoreAll \/ ToSelect \/ FilterPostSelection PROVE PipelineInv'
  <2>1. /\ Hydrated /\ stage' \in {"score", "select", "post_filter"} /\ pos' = 1
        /\ stage' # "post_filter" => Unselected
        /\ UNCHANGED <<call, query, candidates, result, effects>>
    BY <1>11 DEF ScoreAll, ToSelect, FilterPostSelection, TurnTo, Hydrated, Unselected
  <2>2. TypeOK'
    BY <1>0, <2>1 DEF TypeOK, call, result
  <2>3. AnswersInv'
    BY <2>1 DEF AnswersInv, Parallel
  <2>4. CountInv'
    BY <1>0, <2>1 DEF CountInv, CountedIn, Hydrated, Unselected, result
  <2>. QED
    BY <2>2, <2>3, <2>4 DEF PipelineInv
<1>12. CASE Select
  <2>1. /\ stage = "select" /\ Begin("post_hydrate", query) /\ UNCHANGED <<query, result, effects>>
    BY <1>12 DEF Select
  <2>2. /\ candidates \in Seq(Candidate) /\ filtered \in Seq(Candidate)
        /\ retrieved \in Seq(Candidate)
    BY <1>0 DEF TypeOK
  <2>3. candidates' \in Seq(Candidate) /\ \A x : Occurs(x, candidates') <= Occurs(x, candidates)
    <3>1. CASE Enable(Selector, query)
      <4>1. PICK f \in Orders(candidates) : candidates' = Selected(candidates, f)
        BY <1>12, <3>1 DEF Select
      <4>2. SelectSize \in Nat /\ \A x \in Candidate : Score(x) \in Int
        BY DEF Contract
      <4>. QED
        BY <2>2, <4>1, <4>2, SelectedCounts
    <3>2. CASE ~Enable(Selector, query)
      <4>1. candidates' = candidates
        BY <1>12, <3>2 DEF Select
      <4>2. \A x : Occurs(x, candidates) \in Nat
        BY <2>2, OccursNat
      <4>. QED
        BY <2>2, <4>1, <4>2
    <3>. QED
      BY <3>1, <3>2
  <2>4. "post_hydrate" \in Parallel
    BY DEF Parallel
  <2>5. TypeOK'
    BY <1>0, <2>1, <2>3, <2>4, Begins DEF TypeOK, result
  <2>6. AnswersInv'
    BY <2>1, <2>4, Begins DEF AnswersInv
  <2>7. CountedIn(candidates', filtered, retrieved)
    <3>1. ASSUME NEW x \in Candidate
          PROVE  Occurs(Id(x), candidates') + Occurs(Id(x), filtered) <= Occurs(Id(x), retrieved)
      <4>1. /\ Occurs(Id(x), candidates) \in Nat /\ Occurs(Id(x), candidates') \in Nat
            /\ Occurs(Id(x), filtered) \in Nat /\ Occurs(Id(x), retrieved) \in Nat
        BY <2>2, <2>3, OccursNat
      <4>2. Occurs(Id(x), candidates) + Occurs(Id(x), filtered) <= Occurs(Id(x), retrieved)
        BY <1>0, <2>1 DEF CountInv, CountedIn, Hydrated
      <4>3. Occurs(Id(x), candidates') <= Occurs(Id(x), candidates)
        BY <2>3
      <4>. QED
        BY <4>1, <4>2, <4>3
    <3>. QED
      BY <3>1 DEF CountedIn
  <2>8. CountInv'
    BY <2>1, <2>4, <2>7, Begins DEF CountInv, CountedIn, Hydrated, Unselected, result
  <2>. QED
    BY <2>5, <2>6, <2>8 DEF PipelineInv
<1>13. CASE Reply
  <2>1. /\ stage = "post_filter" /\ stage' = "done" /\ reply' = Truncate(candidates, ResultSize)
        /\ effects' \subseteq {SideEffects[i] : i \in DOMAIN SideEffects}
        /\ UNCHANGED <<pos, call, query, candidates, retrieved, filtered>>
    BY <1>13 DEF Reply
  <2>2. /\ candidates \in Seq(Candidate) /\ filtered \in Seq(Candidate)
        /\ retrieved \in Seq(Candidate) /\ ResultSize \in Nat
    BY <1>0 DEF TypeOK, Contract
  <2>3. reply' \in Seq(Candidate) /\ \A x : Occurs(x, reply') <= Occurs(x, candidates)
    BY <2>1, <2>2, TruncateCounts
  <2>4. TypeOK'
    BY <1>0, <2>1, <2>3 DEF TypeOK, call
  <2>5. AnswersInv'
    BY <2>1 DEF AnswersInv, Parallel
  <2>6. CountedIn(candidates, filtered, retrieved)
    BY <1>0, <2>1 DEF CountInv, Hydrated
  <2>7. CountedIn(reply', filtered, retrieved)
    <3>1. ASSUME NEW x \in Candidate
          PROVE  Occurs(Id(x), reply') + Occurs(Id(x), filtered) <= Occurs(Id(x), retrieved)
      <4>1. /\ Occurs(Id(x), candidates) \in Nat /\ Occurs(Id(x), reply') \in Nat
            /\ Occurs(Id(x), filtered) \in Nat /\ Occurs(Id(x), retrieved) \in Nat
        BY <2>2, <2>3, OccursNat
      <4>2. Occurs(Id(x), candidates) + Occurs(Id(x), filtered) <= Occurs(Id(x), retrieved)
        BY <2>6 DEF CountedIn
      <4>3. Occurs(Id(x), reply') <= Occurs(Id(x), candidates)
        BY <2>3
      <4>. QED
        BY <4>1, <4>2, <4>3
    <3>. QED
      BY <3>1 DEF CountedIn
  <2>8. CountInv'
    BY <2>1, <2>6, <2>7 DEF CountInv, CountedIn, Hydrated, Unselected
  <2>. QED
    BY <2>4, <2>5, <2>8 DEF PipelineInv
<1>14. ASSUME NEW c \in effects, EffectEnds(c) PROVE PipelineInv'
  <2>1. /\ effects' = effects \ {c}
        /\ UNCHANGED <<stage, pos, call, query, candidates, result>>
    BY <1>14 DEF EffectEnds
  <2>2. TypeOK'
    BY <1>0, <2>1 DEF TypeOK, call, result
  <2>3. AnswersInv'
    BY <1>0, <2>1 DEF AnswersInv, call
  <2>4. CountInv'
    BY <1>0, <2>1 DEF CountInv, CountedIn, Hydrated, Unselected, result
  <2>. QED
    BY <2>2, <2>3, <2>4 DEF PipelineInv
<1>15. CASE UNCHANGED vars
  <2>1. TypeOK'
    BY <1>0, <1>15 DEF TypeOK, vars, call, result
  <2>2. AnswersInv'
    BY <1>0, <1>15 DEF AnswersInv, vars, call
  <2>3. CountInv'
    BY <1>0, <1>15 DEF CountInv, CountedIn, Hydrated, Unselected, vars, result
  <2>. QED
    BY <2>1, <2>2, <2>3 DEF PipelineInv
<1>. QED
  BY <1>1, <1>3, <1>4, <1>5, <1>6, <1>7, <1>8, <1>9, <1>10, <1>11, <1>12, <1>13, <1>14, <1>15, Zenon
     DEF Next, Merge, Sequential, Proceed

-----------------------------------------------------------------------------
(* The theorems. *)

LEMMA InvariantConserves == ASSUME Contract, PipelineInv PROVE Conserved
<1>1. /\ candidates \in Seq(Candidate) /\ filtered \in Seq(Candidate)
      /\ retrieved \in Seq(Candidate) /\ reply \in Seq(Candidate)
  BY DEF PipelineInv, TypeOK
<1>2. Hydrated => Embeds(candidates \o filtered, retrieved)
  BY <1>1, EmbedsFrom DEF PipelineInv, CountInv
<1>3. stage = "done" => Embeds(reply \o filtered, retrieved)
  BY <1>1, EmbedsFrom DEF PipelineInv, CountInv
<1>. QED
  BY <1>2, <1>3 DEF Conserved, PipelineInv, CountInv

\* The stages keep the types of the query and the candidates, for any components
\* that keep the contract, in whatever order the parallel ones answer.
THEOREM PipelineTypes == ASSUME Contract PROVE Spec => []TypeOK
<1>1. Init => PipelineInv
  BY PipelineStarts
<1>2. PipelineInv /\ [Next]_vars => PipelineInv'
  BY PipelineMoves
<1>3. PipelineInv => TypeOK
  BY DEF PipelineInv
<1>. QED
  BY <1>1, <1>2, <1>3, PTL DEF Spec

\* execute loses no candidate before the selection and duplicates or invents none
\* at all, whichever components fail, are disabled or answer too little.
THEOREM PipelineConserves == ASSUME Contract PROVE Spec => []Conserved
<1>1. Init => PipelineInv
  BY PipelineStarts
<1>2. PipelineInv /\ [Next]_vars => PipelineInv'
  BY PipelineMoves
<1>3. PipelineInv => Conserved
  BY InvariantConserves
<1>. QED
  BY <1>1, <1>2, <1>3, PTL DEF Spec

-----------------------------------------------------------------------------
(* Nothing is mixed up. *)

\* The answer r suits the candidates s: whatever else was merged into them since
\* they were shown to c, r[i] is right for the i-th.
Suits(c, r, s) ==
    \A i \in DOMAIN s : \A x \in Sound : Id(x) = Id(s[i]) => Update(c, x, r[i]) \in Sound

\* What the components promise about a list of candidates in which nothing is
\* mixed up: an answer of full length is in the order of the list, and filters
\* and sources mix up nothing either.
SoundContract ==
    /\ Sound \subseteq Candidate
    /\ \A c \in Components(Sources) : MayAnswer(c) \subseteq Seq(Sound)
    /\ \A c \in Components(Hydrators) \union Components(Scorers)
                    \union Components(PostSelectionHydrators) :
           \A q \in Query : \A s \in Seq(Sound) : \A r \in Outcome(c, q, s) \ Error :
               Len(r) = Len(s) => Suits(c, r, s)
    /\ \A c \in Components(Filters) \union Components(PostSelectionFilters) :
           \A q \in Query : \A s \in Seq(Sound) : \A r \in Outcome(c, q, s) \ Error :
               r.kept \in Seq(Sound) /\ r.removed \in Seq(Sound)

\* The answers not merged yet still suit the candidates, and none of those merged
\* before took a candidate from its place.
SuitInv ==
    stage \in {"hydrate", "post_hydrate"} =>
        \A c \in DOMAIN answers :
            answers[c] \notin Error /\ Len(answers[c]) = Len(candidates)
                => Suits(c, answers[c], candidates)

SoundInv == PipelineInv /\ Aligned /\ SuitInv

LEMMA SoundParts ==
    Aligned <=> /\ candidates \in Seq(Sound) /\ retrieved \in Seq(Sound)
                /\ filtered \in Seq(Sound) /\ reply \in Seq(Sound)
BY DEF Aligned

LEMMA TruncateSound ==
    ASSUME NEW s \in Seq(Sound), NEW n \in Nat
    PROVE  Truncate(s, n) \in Seq(Sound)
BY DEF Truncate

LEMMA SelectedSound ==
    ASSUME NEW s \in Seq(Sound), NEW f \in Orders(s), SelectSize \in Nat
    PROVE  Selected(s, f) \in Seq(Sound)
<1>. DEFINE t == [k \in DOMAIN s |-> s[f[k]]]
<1>1. f \in [DOMAIN s -> DOMAIN s]
  BY Zenon DEF Orders
<1>2. DOMAIN s = 1 .. Len(s) /\ Len(s) \in Nat
  OBVIOUS
<1>3. t \in Seq(Sound)
  <2>1. t \in [1 .. Len(s) -> Sound]
    BY <1>1, <1>2
  <2>. QED
    BY <1>2, <2>1
<1>. HIDE DEF t
<1>4. Truncate(t, SelectSize) \in Seq(Sound)
  BY <1>3, TruncateSound
<1>. QED
  BY <1>4, Zenon DEF Selected, t

\* Copying an answer that suits the candidates.
LEMMA UpdateSound ==
    ASSUME NEW s \in Seq(Sound), NEW c, NEW r, Len(r) = Len(s), Suits(c, r, s)
    PROVE  UpdateAll(c, s, r) \in Seq(Sound)
<1>. DEFINE t == UpdateAll(c, s, r)
<1>1. DOMAIN s = 1 .. Len(s) /\ Len(s) \in Nat /\ \A i \in DOMAIN s : s[i] \in Sound
  OBVIOUS
<1>2. t = [i \in DOMAIN s |-> IF i \in DOMAIN r THEN Update(c, s[i], r[i]) ELSE s[i]]
  BY DEF UpdateAll
<1>3. \A i \in DOMAIN s : t[i] \in Sound
  BY <1>1, <1>2 DEF Suits
<1>. QED
  <2>1. t \in [1 .. Len(s) -> Sound]
    <3>1. DOMAIN t = 1 .. Len(s) /\ t = [i \in DOMAIN t |-> t[i]]
      BY <1>1, <1>2
    <3>. HIDE DEF t
    <3>. QED
      BY <1>1, <1>3, <3>1
  <2>. QED
    BY <1>1, <2>1

LEMMA SoundStarts == ASSUME Contract PROVE Init => SoundInv
<1>. SUFFICES ASSUME Init PROVE SoundInv
  OBVIOUS
<1>1. PipelineInv
  BY PipelineStarts
<1>2. Aligned /\ SuitInv
  BY SoundParts DEF Init, SuitInv
<1>. QED
  BY <1>1, <1>2 DEF SoundInv

\* The answers of a parallel stage go on suiting the candidates while they are
\* merged: a merge changes no candidate's place and not what it is.
LEMMA SuitsStill ==
    ASSUME SuitInv, UNCHANGED <<stage, answers>>,
           candidates \in Seq(Candidate), candidates' \in Seq(Candidate),
           Len(candidates') = Len(candidates),
           \A i \in DOMAIN candidates : Id(candidates'[i]) = Id(candidates[i])
    PROVE  SuitInv'
<1>1. DOMAIN candidates' = DOMAIN candidates
  OBVIOUS
<1>2. ASSUME stage \in {"hydrate", "post_hydrate"}, NEW c \in DOMAIN answers,
             answers[c] \notin Error, Len(answers[c]) = Len(candidates')
      PROVE  Suits(c, answers[c], candidates')
  <2>1. Suits(c, answers[c], candidates)
    BY <1>2 DEF SuitInv
  <2>. QED
    BY <1>1, <2>1 DEF Suits
<1>. QED
  BY <1>2 DEF SuitInv

\* While nothing is being hydrated no answer waits.
LEMMA SuitsElsewhere ==
    ASSUME stage' \notin {"hydrate", "post_hydrate"} \/ DOMAIN answers' = {} PROVE SuitInv'
BY DEF SuitInv

LEMMA SoundMoves ==
    ASSUME Contract, SoundContract, SoundInv, [Next]_vars
    PROVE  SoundInv'
<1>. SUFFICES Aligned' /\ SuitInv'
  BY PipelineMoves DEF SoundInv
<1>0. PipelineInv /\ PipelineInv' /\ TypeOK /\ AnswersInv /\ TypeOK' /\ SuitInv
      /\ candidates \in Seq(Sound) /\ retrieved \in Seq(Sound)
      /\ filtered \in Seq(Sound) /\ reply \in Seq(Sound)
  BY PipelineMoves, SoundParts DEF SoundInv, PipelineInv
<1>a. candidates \in Seq(Candidate) /\ candidates' \in Seq(Candidate) /\ query \in Query
  BY <1>0 DEF TypeOK
<1>b. ASSUME candidates' \in Seq(Sound), UNCHANGED result PROVE Aligned'
  BY <1>0, <1>b DEF Aligned, result
<1>c. ASSUME UNCHANGED <<candidates, result>> PROVE Aligned'
  BY <1>0, <1>b, <1>c
<1>d. ASSUME UNCHANGED <<stage, answers, candidates>> PROVE SuitInv'
  BY <1>0, <1>d DEF SuitInv, Suits
<1>e. ASSUME More PROVE Turn \in Components(Listed[stage])
  BY <1>e DEF More, Turn, Components
<1>1. ASSUME NEW c \in Component, Answer(c) PROVE Aligned' /\ SuitInv'
  <2>1. PICK r \in Outcome(c, query, candidates) :
          answers' = [d \in DOMAIN answers \union {c} |-> IF d = c THEN r ELSE answers[d]]
    BY <1>1 DEF Answer
  <2>2. c \in asked /\ stage \in Parallel
        /\ UNCHANGED <<stage, pos, asked, query, candidates, result, effects>>
    BY <1>1 DEF Answer
  <2>3. Aligned'
    BY <1>c, <2>2
  <2>4. ASSUME stage \in {"hydrate", "post_hydrate"}, NEW d \in DOMAIN answers',
               answers'[d] \notin Error, Len(answers'[d]) = Len(candidates)
        PROVE  Suits(d, answers'[d], candidates)
    <3>1. CASE d = c
      <4>1. c \in Components(Hydrators) \union Components(PostSelectionHydrators)
        BY <1>0, <2>2, <2>4 DEF AnswersInv, Listed
      <4>2. answers'[d] = r
        BY <2>1, <3>1
      <4>. QED
        BY <1>0, <1>a, <2>4, <3>1, <4>1, <4>2 DEF SoundContract
    <3>2. CASE d # c
      <4>1. d \in DOMAIN answers /\ answers'[d] = answers[d]
        BY <2>1, <2>4, <3>2
      <4>. QED
        BY <1>0, <2>4, <4>1 DEF SuitInv
    <3>. QED
      BY <3>1, <3>2
  <2>5. SuitInv'
    BY <2>2, <2>4 DEF SuitInv, Suits
  <2>. QED
    BY <2>3, <2>5
<1>2. CASE MergeQuery
  <2>1. UNCHANGED <<stage, call, candidates, result>>
    BY <1>2 DEF MergeQuery
  <2>. QED
    BY <1>c, <1>d, <2>1 DEF call
<1>3. CASE MergeSource
  <2>1. candidates' \in Seq(Sound)
    <3>1. CASE Succeeded
      <4>1. stage = "source" /\ More /\ AllAnswered /\ candidates' = candidates \o answers[Turn]
        BY <1>3, <3>1 DEF MergeSource
      <4>2. Turn \in Components(Sources)
        BY <1>e, <4>1 DEF Listed
      <4>3. answers[Turn] \in MayAnswer(Turn)
        BY <1>0, <3>1, <4>1 DEF Succeeded, AllAnswered, AnswersInv, Parallel
      <4>4. answers[Turn] \in Seq(Sound)
        BY <4>2, <4>3 DEF SoundContract
      <4>. QED
        BY <1>0, <4>1, <4>4
    <3>2. CASE ~Succeeded
      BY <1>0, <1>3, <3>2 DEF MergeSource
    <3>. QED
      BY <3>1, <3>2
  <2>2. stage' = "source" /\ UNCHANGED result
    BY <1>3 DEF MergeSource
  <2>. QED
    BY <1>b, <2>1, <2>2, SuitsElsewhere
<1>4. CASE MergeHydration
  <2>1. /\ stage \in {"hydrate", "post_hydrate"} /\ More /\ AllAnswered
        /\ UNCHANGED <<stage, answers, result>>
    BY <1>4 DEF MergeHydration, call
  <2>2. CASE Succeeded /\ Len(answers[Turn]) = Len(candidates)
    <3>1. candidates' = UpdateAll(Turn, candidates, answers[Turn])
      BY <1>4, <2>2 DEF MergeHydration
    <3>2. Turn \in DOMAIN answers /\ answers[Turn] \notin Error
      BY <2>1, <2>2 DEF Succeeded, AllAnswered
    <3>3. candidates' \in Seq(Sound)
      BY <1>0, <2>1, <2>2, <3>1, <3>2, UpdateSound DEF SuitInv
    <3>4. /\ Len(candidates') = Len(candidates)
          /\ \A i \in DOMAIN candidates : Id(candidates'[i]) = Id(candidates[i])
      <4>1. Turn \in Components(Hydrators) \union Components(PostSelectionHydrators)
        BY <1>e, <2>1 DEF Listed
      <4>2. answers[Turn] \in MayAnswer(Turn)
        BY <1>0, <2>1, <3>2 DEF AnswersInv, Parallel
      <4>3. \A i \in DOMAIN answers[Turn] : \A x \in Candidate :
                /\ Update(Turn, x, answers[Turn][i]) \in Candidate
                /\ Id(Update(Turn, x, answers[Turn][i])) = Id(x)
        BY <4>1, <4>2 DEF Contract
      <4>4. Len(candidates') = Len(candidates)
        BY <1>a, <3>1, <4>3, UpdateCounts
      <4>5. ASSUME NEW i \in DOMAIN candidates PROVE Id(candidates'[i]) = Id(candidates[i])
        BY <1>a, <3>1, <4>3 DEF UpdateAll
      <4>. QED
        BY <4>4, <4>5
    <3>. QED
      BY <1>0, <1>a, <1>b, <2>1, <3>3, <3>4, SuitsStill
  <2>3. CASE ~(Succeeded /\ Len(answers[Turn]) = Len(candidates))
    <3>1. candidates' = candidates
      BY <1>4, <2>3 DEF MergeHydration
    <3>. QED
      BY <1>c, <1>d, <2>1, <3>1
  <2>. QED
    BY <2>2, <2>3
<1>5. CASE Skip
  <2>1. UNCHANGED <<stage, call, candidates, result>>
    BY <1>5 DEF Skip
  <2>. QED
    BY <1>c, <1>d, <2>1 DEF call
<1>6. CASE RunFilter
  <2>1. /\ More /\ stage \in {"filter", "post_filter"}
        /\ UNCHANGED <<stage, retrieved, reply>>
    BY <1>6 DEF RunFilter
  <2>2. PICK r \in Outcome(Turn, query, candidates) :
          IF r \in Error
          THEN UNCHANGED <<candidates, filtered>>
          ELSE candidates' = r.kept /\ filtered' = filtered \o r.removed
    BY <1>6 DEF RunFilter
  <2>3. SuitInv'
    BY <2>1, SuitsElsewhere
  <2>4. candidates' \in Seq(Sound) /\ filtered' \in Seq(Sound)
    <3>1. CASE r \in Error
      BY <1>0, <2>2, <3>1
    <3>2. CASE r \notin Error
      <4>1. Turn \in Components(Filters) \union Components(PostSelectionFilters)
        BY <1>e, <2>1 DEF Listed
      <4>2. r.kept \in Seq(Sound) /\ r.removed \in Seq(Sound)
        BY <1>0, <1>a, <3>2, <4>1 DEF SoundContract
      <4>3. candidates' = r.kept /\ filtered' = filtered \o r.removed
        BY <2>2, <3>2
      <4>. DEFINE m == r.removed
      <4>. HIDE DEF m
      <4>4. filtered \o m \in Seq(Sound)
        BY <1>0, <4>2 DEF m
      <4>. QED
        BY <4>2, <4>3, <4>4 DEF m
    <3>. QED
      BY <3>1, <3>2
  <2>. QED
    BY <1>0, <2>1, <2>3, <2>4 DEF Aligned
<1>7. CASE RunScorer
  <2>1. /\ More /\ stage = "score" /\ UNCHANGED <<stage, result>>
    BY <1>7 DEF RunScorer
  <2>2. PICK r \in Outcome(Turn, query, candidates) :
          candidates' = IF r \notin Error /\ Len(r) = Len(candidates)
                        THEN UpdateAll(Turn, candidates, r) ELSE candidates
    BY <1>7 DEF RunScorer
  <2>3. SuitInv'
    BY <2>1, SuitsElsewhere
  <2>4. candidates' \in Seq(Sound)
    <3>1. CASE r \notin Error /\ Len(r) = Len(candidates)
      <4>1. Turn \in Components(Scorers)
        BY <1>e, <2>1 DEF Listed
      <4>2. Suits(Turn, r, candidates)
        BY <1>0, <1>a, <3>1, <4>1 DEF SoundContract
      <4>. QED
        BY <1>0, <2>2, <3>1, <4>2, UpdateSound
    <3>2. CASE ~(r \notin Error /\ Len(r) = Len(candidates))
      BY <1>0, <2>2, <3>2
    <3>. QED
      BY <3>1, <3>2
  <2>. QED
    BY <1>b, <2>1, <2>3, <2>4
<1>8. ASSUME FetchCandidates \/ Hydrate PROVE Aligned' /\ SuitInv'
  <2>1. DOMAIN answers' = {} /\ UNCHANGED <<candidates, result>>
    BY <1>8 DEF FetchCandidates, Hydrate, Begin
  <2>. QED
    BY <1>c, <2>1, SuitsElsewhere
<1>9. CASE Filter
  <2>1. stage' = "filter" /\ retrieved' = candidates /\ UNCHANGED <<candidates, filtered, reply>>
    BY <1>9 DEF Filter, TurnTo
  <2>. QED
    BY <1>0, <2>1, SuitsElsewhere DEF Aligned
<1>10. ASSUME ScoreAll \/ ToSelect \/ FilterPostSelection PROVE Aligned' /\ SuitInv'
  <2>1. stage' \in {"score", "select", "post_filter"} /\ UNCHANGED <<candidates, result>>
    BY <1>10 DEF ScoreAll, ToSelect, FilterPostSelection, TurnTo
  <2>. QED
    BY <1>c, <2>1, SuitsElsewhere
<1>11. CASE Select
  <2>1. DOMAIN answers' = {} /\ UNCHANGED result
    BY <1>11 DEF Select, Begin
  <2>2. candidates' \in Seq(Sound)
    <3>1. CASE Enable(Selector, query)
      <4>1. PICK f \in Orders(candidates) : candidates' = Selected(candidates, f)
        BY <1>11, <3>1 DEF Select
      <4>. QED
        BY <1>0, <4>1, SelectedSound DEF Contract
    <3>2. CASE ~Enable(Selector, query)
      BY <1>0, <1>11, <3>2 DEF Select
    <3>. QED
      BY <3>1, <3>2
  <2>. QED
    BY <1>b, <2>1, <2>2, SuitsElsewhere
<1>12. CASE Reply
  <2>1. /\ stage' = "done" /\ reply' = Truncate(candidates, ResultSize)
        /\ UNCHANGED <<candidates, retrieved, filtered>>
    BY <1>12 DEF Reply
  <2>2. reply' \in Seq(Sound)
    BY <1>0, <2>1, TruncateSound DEF Contract
  <2>. QED
    BY <1>0, <2>1, <2>2, SuitsElsewhere DEF Aligned
<1>13. ASSUME NEW c \in effects, EffectEnds(c) PROVE Aligned' /\ SuitInv'
  <2>1. UNCHANGED <<stage, call, candidates, result>>
    BY <1>13 DEF EffectEnds
  <2>. QED
    BY <1>c, <1>d, <2>1 DEF call
<1>14. CASE UNCHANGED vars
  <2>1. UNCHANGED <<stage, call, candidates, result>>
    BY <1>14 DEF vars
  <2>. QED
    BY <1>c, <1>d, <2>1 DEF call
<1>. QED
  BY <1>1, <1>2, <1>3, <1>4, <1>5, <1>6, <1>7, <1>8, <1>9, <1>10, <1>11, <1>12, <1>13, <1>14, Zenon
     DEF Next, Merge, Sequential, Proceed

\* Whatever fails, is disabled, answers too little or out of order, execute mixes
\* up no two candidates' data, if each component answers in the order it was asked.
THEOREM PipelineAligns == ASSUME Contract, SoundContract PROVE Spec => []Aligned
<1>1. Init => SoundInv
  BY SoundStarts
<1>2. SoundInv /\ [Next]_vars => SoundInv'
  BY SoundMoves
<1>3. SoundInv => Aligned
  BY DEF SoundInv
<1>. QED
  BY <1>1, <1>2, <1>3, PTL DEF Spec
=============================================================================
