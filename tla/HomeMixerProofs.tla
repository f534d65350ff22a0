---------------------------- MODULE HomeMixerProofs ----------------------------
(***************************************************************************)
(* The feed of home-mixer/, for any posts, users, requests, parameters and *)
(* failures.  Its components keep the contract of CandidatePipelineProofs, *)
(* which gives the types, the conservation of the candidates and that the  *)
(* fields of each are its own.  On that rests an invariant of what is      *)
(* known of the candidates at each point of the pipeline, and on the       *)
(* invariant what is promised of the feed.                                 *)
(***************************************************************************)
EXTENDS HomeMixer, FiniteSetTheorems, SequenceTheorems, WellFoundedInduction, TLAPS

-----------------------------------------------------------------------------
(* Sets of numbers in their order. *)

LEMMA AscendingIs ==
    ASSUME NEW S \in SUBSET Int, IsFiniteSet(S)
    PROVE  /\ Cardinality(S) \in Nat
           /\ Ascending(S) \in [1 .. Cardinality(S) -> S]
           /\ \A k, l \in 1 .. Cardinality(S) : k < l => Ascending(S)[k] < Ascending(S)[l]
           /\ \A x \in S : \E k \in 1 .. Cardinality(S) : Ascending(S)[k] = x
<1>. DEFINE n == Cardinality(S)
            Below(x) == {y \in S : y < x}
            rank == [x \in S |-> Cardinality(Below(x)) + 1]
            f == Ascending(S)
<1>1. n \in Nat
  BY FS_CardinalityType
<1>2. ASSUME NEW x \in S
      PROVE  IsFiniteSet(Below(x)) /\ Cardinality(Below(x)) \in Nat /\ rank[x] \in 1 .. n
  <2>1. Below(x) \in SUBSET (S \ {x})
    <3>1. x \in Int /\ ~(x < x)
      OBVIOUS
    <3>. QED
      BY <3>1
  <2>2. IsFiniteSet(S \ {x}) /\ Cardinality(S \ {x}) = n - 1
    BY FS_RemoveElement
  <2>3. IsFiniteSet(Below(x)) /\ Cardinality(Below(x)) <= n - 1
    BY <2>1, <2>2, FS_Subset
  <2>4. Cardinality(Below(x)) \in Nat
    BY <2>3, FS_CardinalityType
  <2>5. rank[x] = Cardinality(Below(x)) + 1
    OBVIOUS
  <2>. HIDE DEF Below, rank, n
  <2>. QED
    BY <1>1, <2>3, <2>4, <2>5
<1>3. ASSUME NEW x \in S, NEW y \in S, x < y
      PROVE  rank[x] < rank[y]
  <2>1. Below(x) \union {x} \in SUBSET Below(y) /\ x \notin Below(x)
    <3>1. x \in Int /\ y \in Int /\ \A z \in S : z \in Int
      OBVIOUS
    <3>2. \A z \in S : z < x => z < y
      BY <1>3, <3>1
    <3>3. ~(x < x)
      BY <3>1
    <3>. QED
      BY <1>3, <3>2, <3>3
  <2>2. Cardinality(Below(x) \union {x}) = Cardinality(Below(x)) + 1
    BY <1>2, <2>1, FS_AddElement, Zenon
  <2>3. Cardinality(Below(x) \union {x}) <= Cardinality(Below(y))
    BY <1>2, <2>1, FS_Subset, Zenon
  <2>4. Cardinality(Below(x)) \in Nat /\ Cardinality(Below(y)) \in Nat
    BY <1>2
  <2>5. rank[x] = Cardinality(Below(x)) + 1 /\ rank[y] = Cardinality(Below(y)) + 1
    OBVIOUS
  <2>. HIDE DEF Below, rank
  <2>. QED
    BY <2>2, <2>3, <2>4, <2>5
<1>4. \A x, y \in S : rank[x] = rank[y] => x = y
  <2>1. \A x, y \in S : x < y \/ x = y \/ y < x
    OBVIOUS
  <2>2. \A x \in S : rank[x] \in Int
    BY <1>2
  <2>. HIDE DEF rank
  <2>. QED
    BY <1>3, <2>1, <2>2
<1>5. rank \in Surjection(S, 1 .. n)
  <2>1. rank \in [S -> 1 .. n]
    BY <1>2
  <2>. HIDE DEF rank
  <2>2. rank \in Injection(S, 1 .. n)
    BY <1>4, <2>1 DEF Injection, IsInjective
  <2>3. IsFiniteSet(1 .. n) /\ Cardinality(1 .. n) = n
    BY <1>1, FS_Interval
  <2>. QED
    BY <2>2, <2>3, FS_Injection
<1>6. ASSUME NEW k \in 1 .. n
      PROVE  f[k] \in S /\ rank[f[k]] = k
  <2>1. PICK x \in S : rank[x] = k
    BY <1>5 DEF Surjection
  <2>2. Cardinality(Below(x)) = k - 1
    BY <1>2, <2>1
  <2>3. f[k] = CHOOSE z \in S : Cardinality(Below(z)) = k - 1
    BY DEF Ascending
  <2>4. f[k] \in S /\ Cardinality(Below(f[k])) = k - 1
    <3>. HIDE DEF Below, f
    <3>. QED
      BY <2>2, <2>3, Zenon
  <2>5. rank[f[k]] = Cardinality(Below(f[k])) + 1
    BY <2>4
  <2>. HIDE DEF Below, rank, f
  <2>. QED
    BY <1>2, <2>4, <2>5
<1>7. f \in [1 .. n -> S]
  <2>1. f = [k \in 1 .. n |-> f[k]]
    BY DEF Ascending
  <2>. HIDE DEF f
  <2>. QED
    BY <1>6, <2>1
<1>8. ASSUME NEW k \in 1 .. n, NEW l \in 1 .. n, k < l
      PROVE  f[k] < f[l]
  <2>1. f[k] \in S /\ f[l] \in S /\ rank[f[k]] = k /\ rank[f[l]] = l
    BY <1>6
  <2>2. ~(f[k] = f[l]) /\ ~(f[l] < f[k])
    <3>1. f[l] < f[k] => l < k
      BY <1>3, <2>1
    <3>. HIDE DEF f, rank, n
    <3>. QED
      BY <1>1, <1>8, <2>1, <3>1
  <2>. HIDE DEF f
  <2>3. f[k] \in Int /\ f[l] \in Int
    BY <2>1
  <2>. QED
    BY <2>2, <2>3
<1>9. ASSUME NEW x \in S PROVE \E k \in 1 .. n : f[k] = x
  <2>1. rank[x] \in 1 .. n
    BY <1>2
  <2>2. f[rank[x]] \in S /\ rank[f[rank[x]]] = rank[x]
    BY <1>6, <2>1
  <2>. HIDE DEF f, rank
  <2>. QED
    BY <1>4, <2>1, <2>2
<1>. QED
  BY <1>1, <1>7, <1>8, <1>9

-----------------------------------------------------------------------------
(* Parts of a list. *)

\* t is what is left of s, in its order.
Thin(t, s) ==
    \E f \in [DOMAIN t -> DOMAIN s] :
        /\ \A k, l \in DOMAIN t : k < l => f[k] < f[l]
        /\ \A k \in DOMAIN t : t[k] = s[f[k]]

IndicesWith(x, s) == {i \in DOMAIN s : s[i].id = x}

LEMMA FiniteIndices ==
    ASSUME NEW s \in Seq(Candidate), NEW I \in SUBSET DOMAIN s
    PROVE  IsFiniteSet(I) /\ I \in SUBSET Int
<1>1. Len(s) \in Nat /\ I \in SUBSET (1 .. Len(s))
  OBVIOUS
<1>2. IsFiniteSet(1 .. Len(s))
  BY <1>1, FS_Interval
<1>. QED
  BY <1>1, <1>2, FS_Subset

LEMMA AtIs ==
    ASSUME NEW s \in Seq(Candidate), NEW I \in SUBSET DOMAIN s
    PROVE  /\ At(s, I) \in Seq(Candidate) /\ Len(At(s, I)) = Cardinality(I)
           /\ Cardinality(I) \in Nat
           /\ \E f \in [1 .. Cardinality(I) -> I] :
                /\ \A k, l \in 1 .. Cardinality(I) : k < l => f[k] < f[l]
                /\ \A i \in I : \E k \in 1 .. Cardinality(I) : f[k] = i
                /\ \A k \in 1 .. Cardinality(I) : At(s, I)[k] = s[f[k]]
<1>. DEFINE n == Cardinality(I)
            f == Ascending(I)
            t == At(s, I)
<1>1. /\ n \in Nat /\ f \in [1 .. n -> I]
      /\ \A k, l \in 1 .. n : k < l => f[k] < f[l]
      /\ \A i \in I : \E k \in 1 .. n : f[k] = i
  BY FiniteIndices, AscendingIs
<1>2. t = [k \in DOMAIN f |-> s[f[k]]]
  BY DEF At, Map
<1>. HIDE DEF n, f, t
<1>3. DOMAIN t = 1 .. n /\ \A k \in 1 .. n : t[k] = s[f[k]] /\ t[k] \in Candidate
  BY <1>1, <1>2
<1>4. t \in Seq(Candidate) /\ Len(t) = n
  <2>1. t \in [1 .. n -> Candidate]
    BY <1>2, <1>3
  <2>. QED
    BY <1>1, <2>1
<1>. QED
  BY <1>1, <1>3, <1>4 DEF n, t

LEMMA AtThins ==
    ASSUME NEW s \in Seq(Candidate), NEW I \in SUBSET DOMAIN s
    PROVE  /\ Thin(At(s, I), s)
           /\ \A k \in DOMAIN At(s, I) : \E i \in I : At(s, I)[k] = s[i]
<1>. DEFINE n == Cardinality(I)
            t == At(s, I)
<1>1. /\ t \in Seq(Candidate) /\ Len(t) = n /\ n \in Nat
      /\ \E f \in [1 .. n -> I] :
            /\ \A k, l \in 1 .. n : k < l => f[k] < f[l]
            /\ \A i \in I : \E k \in 1 .. n : f[k] = i
            /\ \A k \in 1 .. n : t[k] = s[f[k]]
  BY AtIs
<1>. HIDE DEF n, t
<1>2. PICK f \in [1 .. n -> I] :
        /\ \A k, l \in 1 .. n : k < l => f[k] < f[l]
        /\ \A k \in 1 .. n : t[k] = s[f[k]]
  BY <1>1
<1>3. DOMAIN t = 1 .. n /\ f \in [1 .. n -> DOMAIN s]
  BY <1>1
<1>4. Thin(t, s)
  BY <1>2, <1>3 DEF Thin
<1>. QED
  BY <1>2, <1>3, <1>4 DEF t

LEMMA AtCounts ==
    ASSUME NEW s \in Seq(Candidate), NEW I \in SUBSET DOMAIN s, NEW x
    PROVE  /\ Cardinality(IndicesWith(x, At(s, I))) = Cardinality(I \intersect IndicesWith(x, s))
           /\ Cardinality(IndicesWith(x, At(s, I))) \in Nat
<1>. DEFINE n == Cardinality(I)
            t == At(s, I)
            A == IndicesWith(x, t)
            B == I \intersect IndicesWith(x, s)
<1>1. /\ t \in Seq(Candidate) /\ Len(t) = n /\ n \in Nat
      /\ \E f \in [1 .. n -> I] :
            /\ \A k, l \in 1 .. n : k < l => f[k] < f[l]
            /\ \A i \in I : \E k \in 1 .. n : f[k] = i
            /\ \A k \in 1 .. n : t[k] = s[f[k]]
  BY AtIs
<1>. HIDE DEF n, t
<1>2. PICK f \in [1 .. n -> I] :
        /\ \A k, l \in 1 .. n : k < l => f[k] < f[l]
        /\ \A i \in I : \E k \in 1 .. n : f[k] = i
        /\ \A k \in 1 .. n : t[k] = s[f[k]]
  BY <1>1
<1>3. DOMAIN t = 1 .. n
  BY <1>1
<1>4. \A k, l \in 1 .. n : f[k] = f[l] => k = l
  <2>1. \A k, l \in 1 .. n : k < l => f[k] # f[l]
    <3>1. \A k \in 1 .. n : f[k] \in Int
      BY FiniteIndices
    <3>. QED
      BY <1>2, <3>1
  <2>2. \A k, l \in 1 .. n : k < l \/ k = l \/ l < k
    OBVIOUS
  <2>. QED
    BY <2>1, <2>2
<1>. DEFINE g == [k \in A |-> f[k]]
<1>5. /\ g \in [A -> B]
      /\ \A k, l \in A : g[k] = g[l] => k = l
      /\ \A i \in B : \E k \in A : g[k] = i
  BY <1>2, <1>3, <1>4 DEF IndicesWith
<1>6. g \in Bijection(A, B)
  <2>. HIDE DEF g, A, B
  <2>. QED
    BY <1>5 DEF Bijection, Injection, Surjection, IsInjective
<1>7. IsFiniteSet(A)
  <2>1. A \in SUBSET DOMAIN t
    BY DEF IndicesWith
  <2>. QED
    BY <1>1, <2>1, FiniteIndices
<1>8. Cardinality(A) = Cardinality(B) /\ Cardinality(A) \in Nat
  BY <1>6, <1>7, FS_Bijection, FS_CardinalityType DEF ExistsBijection
<1>. QED
  BY <1>8 DEF t

\* What KeepAt does: the two lists have everything between them.
LEMMA KeepAtCounts ==
    ASSUME NEW s \in Seq(Candidate), NEW I \in SUBSET DOMAIN s
    PROVE  LET r == KeepAt(s, I)
           IN  /\ r.kept \in Seq(Candidate) /\ r.removed \in Seq(Candidate)
               /\ Len(r.kept) + Len(r.removed) = Len(s)
               /\ \A x : Cardinality(IndicesWith(x, r.kept)) + Cardinality(IndicesWith(x, r.removed))
                           = Cardinality(IndicesWith(x, s))
<1>. DEFINE J == DOMAIN s \ I
            t == At(s, I)
            u == At(s, J)
<1>1. KeepAt(s, I).kept = t /\ KeepAt(s, I).removed = u /\ J \in SUBSET DOMAIN s
  BY DEF KeepAt
<1>2. /\ t \in Seq(Candidate) /\ Len(t) = Cardinality(I) /\ Cardinality(I) \in Nat
      /\ u \in Seq(Candidate) /\ Len(u) = Cardinality(J) /\ Cardinality(J) \in Nat
  BY <1>1, AtIs
<1>3. ASSUME NEW D \in SUBSET DOMAIN s
      PROVE  Cardinality(D) = Cardinality(I \intersect D) + Cardinality(J \intersect D)
  <2>. DEFINE X == I \intersect D
              Y == J \intersect D
  <2>1. X \union Y = D /\ X \intersect Y = {} /\ X \in SUBSET DOMAIN s /\ Y \in SUBSET DOMAIN s
    OBVIOUS
  <2>2. IsFiniteSet(X) /\ IsFiniteSet(Y)
    BY <2>1, FiniteIndices
  <2>. HIDE DEF X, Y
  <2>3. /\ Cardinality(X \union Y) = Cardinality(X) + Cardinality(Y) - Cardinality(X \intersect Y)
        /\ Cardinality(X) \in Nat /\ Cardinality(Y) \in Nat
    BY <2>2, FS_Union, FS_CardinalityType
  <2>4. Cardinality(X \intersect Y) = 0
    BY <2>1, FS_EmptySet
  <2>5. Cardinality(D) = Cardinality(X) + Cardinality(Y)
    <3>1. Cardinality(X \union Y) = Cardinality(X) + Cardinality(Y)
      BY <2>3, <2>4
    <3>. QED
      BY <2>1, <3>1, Zenon
  <2>. QED
    BY <2>5 DEF X, Y
<1>4. Cardinality(DOMAIN s) = Len(s)
  <2>1. DOMAIN s = 1 .. Len(s) /\ Len(s) \in Nat
    OBVIOUS
  <2>2. Cardinality(1 .. Len(s)) = IF 1 > Len(s) THEN 0 ELSE Len(s) - 1 + 1
    BY <2>1, FS_Interval
  <2>3. Cardinality(1 .. Len(s)) = Len(s)
    BY <2>1, <2>2
  <2>. QED
    BY <2>1, <2>3
<1>5. Len(t) + Len(u) = Len(s)
  <2>1. I \intersect DOMAIN s = I /\ J \intersect DOMAIN s = J
    OBVIOUS
  <2>. HIDE DEF t, u, J
  <2>. QED
    BY <1>2, <1>3, <1>4, <2>1
<1>6. ASSUME NEW x
      PROVE  Cardinality(IndicesWith(x, t)) + Cardinality(IndicesWith(x, u)) = Cardinality(IndicesWith(x, s))
  <2>1. IndicesWith(x, s) \in SUBSET DOMAIN s
    BY DEF IndicesWith
  <2>2. /\ Cardinality(IndicesWith(x, t)) = Cardinality(I \intersect IndicesWith(x, s))
        /\ Cardinality(IndicesWith(x, u)) = Cardinality(J \intersect IndicesWith(x, s))
    BY <1>1, AtCounts
  <2>3. Cardinality(IndicesWith(x, s)) = Cardinality(I \intersect IndicesWith(x, s))
                                          + Cardinality(J \intersect IndicesWith(x, s))
    BY <1>3, <2>1
  <2>. QED
    BY <2>2, <2>3
<1>. HIDE DEF t, u
<1>. QED
  BY <1>1, <1>2, <1>5, <1>6

-----------------------------------------------------------------------------
(* The conversation filter. *)

Count(x, s) == Cardinality(IndicesWith(x, s))
One(b) == IF b THEN 1 ELSE 0

LEMMA CountNat ==
    ASSUME NEW s \in Seq(Candidate), NEW x
    PROVE  IsFiniteSet(IndicesWith(x, s)) /\ Count(x, s) \in Nat /\ Count(x, <<>>) = 0
<1>1. IndicesWith(x, s) \in SUBSET DOMAIN s
  BY DEF IndicesWith
<1>2. IsFiniteSet(IndicesWith(x, s))
  BY <1>1, FiniteIndices
<1>3. IndicesWith(x, <<>>) = {}
  BY DEF IndicesWith
<1>. QED
  BY <1>2, <1>3, FS_CardinalityType, FS_EmptySet DEF Count

LEMMA CountAppend ==
    ASSUME NEW s \in Seq(Candidate), NEW c \in Candidate, NEW x
    PROVE  Append(s, c) \in Seq(Candidate) /\ Count(x, Append(s, c)) = Count(x, s) + One(c.id = x)
<1>. DEFINE t == Append(s, c)
            n == Len(s) + 1
            W == IndicesWith(x, s)
<1>1. /\ t \in Seq(Candidate) /\ DOMAIN t = 1 .. n /\ DOMAIN s = 1 .. n - 1 /\ n \in Nat \ {0}
      /\ t[n] = c /\ \A i \in 1 .. n - 1 : t[i] = s[i]
  OBVIOUS
<1>. HIDE DEF t, n
<1>2. n \notin W
  BY <1>1 DEF IndicesWith
<1>3. IsFiniteSet(W) /\ Cardinality(W) \in Nat
  BY CountNat DEF Count
<1>4. CASE c.id = x
  <2>1. IndicesWith(x, t) = W \union {n}
    <3>1. \A i : i \in 1 .. n <=> i \in 1 .. n - 1 \/ i = n
      BY <1>1
    <3>. QED
      BY <1>1, <1>4, <3>1 DEF IndicesWith
  <2>2. Cardinality(W \union {n}) = Cardinality(W) + 1
    BY <1>2, <1>3, FS_AddElement
  <2>. QED
    BY <1>1, <1>4, <2>1, <2>2 DEF Count, One, t
<1>5. CASE c.id # x
  <2>1. IndicesWith(x, t) = W
    BY <1>1, <1>5 DEF IndicesWith
  <2>2. Cardinality(W) + 0 = Cardinality(W)
    BY <1>3
  <2>. QED
    BY <1>1, <1>5, <2>1, <2>2 DEF Count, One, t
<1>. QED
  BY <1>4, <1>5

LEMMA CountReplace ==
    ASSUME NEW s \in Seq(Candidate), NEW k \in DOMAIN s, NEW c \in Candidate, NEW x
    PROVE  /\ [s EXCEPT ![k] = c] \in Seq(Candidate) /\ Len([s EXCEPT ![k] = c]) = Len(s)
           /\ Count(x, [s EXCEPT ![k] = c]) + One(s[k].id = x) = Count(x, s) + One(c.id = x)
<1>. DEFINE t == [s EXCEPT ![k] = c]
            W == IndicesWith(x, s)
            V == IndicesWith(x, t)
<1>1. /\ t \in Seq(Candidate) /\ DOMAIN t = DOMAIN s /\ Len(t) = Len(s)
      /\ t[k] = c /\ \A i \in DOMAIN s : i # k => t[i] = s[i]
  OBVIOUS
<1>. HIDE DEF t
<1>2. V \ {k} = W \ {k} /\ (k \in V <=> c.id = x) /\ (k \in W <=> s[k].id = x)
  BY <1>1 DEF IndicesWith
<1>3. IsFiniteSet(W) /\ Cardinality(W) \in Nat /\ IsFiniteSet(V) /\ Cardinality(V) \in Nat
  BY <1>1, CountNat DEF Count
<1>. HIDE DEF W, V
<1>4. /\ Cardinality(V \ {k}) = IF k \in V THEN Cardinality(V) - 1 ELSE Cardinality(V)
      /\ Cardinality(W \ {k}) = IF k \in W THEN Cardinality(W) - 1 ELSE Cardinality(W)
  BY <1>3, FS_RemoveElement
<1>5. (IF k \in V THEN Cardinality(V) - 1 ELSE Cardinality(V))
        = (IF k \in W THEN Cardinality(W) - 1 ELSE Cardinality(W))
  BY <1>2, <1>4, Zenon
<1>6. Cardinality(V) + One(k \in W) = Cardinality(W) + One(k \in V)
  BY <1>3, <1>5 DEF One
<1>. QED
  BY <1>1, <1>2, <1>6 DEF Count, One, t, V, W

\* The list s is in descending order of scores that are numbers.
Falling(s) ==
    /\ \A i \in DOMAIN s : s[i].score \in Nat
    /\ \A i, j \in DOMAIN s : i < j => s[i].score >= s[j].score

\* What the filter made of the first n candidates; of a list in descending order it
\* only takes candidates away.
Lists == [kept : Seq(Candidate), removed : Seq(Candidate)]
DistinctConversations(s) ==
    \A i, j \in DOMAIN s : Conversation(s[i]) = Conversation(s[j]) => i = j
AllOf(s, n, r) ==
    /\ r \in Lists
    /\ Len(r.kept) + Len(r.removed) = n
    /\ \A x : Count(x, r.kept) + Count(x, r.removed) = Cardinality({i \in 1 .. n : s[i].id = x})
BestOf(s, n, r) ==
    /\ \E g \in [DOMAIN r.kept -> 1 .. n] :
        /\ \A k, l \in DOMAIN r.kept : k < l => g[k] < g[l]
        /\ \A k \in DOMAIN r.kept : r.kept[k] = s[g[k]]
    /\ DistinctConversations(r.kept)
    /\ \A m \in DOMAIN r.removed : \E k \in DOMAIN r.kept :
        /\ Conversation(r.removed[m]) = Conversation(r.kept[k])
        /\ r.removed[m].score <= r.kept[k].score

LEMMA ListsExcept ==
    ASSUME NEW S, NEW r \in [kept : S, removed : S], NEW c
    PROVE  /\ [r EXCEPT !.kept = Append(@, c)] = [kept |-> Append(r.kept, c), removed |-> r.removed]
           /\ [r EXCEPT !.removed = Append(@, c)] = [kept |-> r.kept, removed |-> Append(r.removed, c)]
<1>1. [r EXCEPT !.kept = Append(@, c)] = [kept |-> Append(r.kept, c), removed |-> r.removed]
  OBVIOUS
<1>2. [r EXCEPT !.removed = Append(@, c)] = [kept |-> r.kept, removed |-> Append(r.removed, c)]
  OBVIOUS
<1>. QED
  BY <1>1, <1>2, Zenon

\* How Dedup treats a candidate.
LEMMA DedupCases ==
    ASSUME NEW r \in Lists, NEW c \in Candidate
    PROVE  \/ /\ \A k \in DOMAIN r.kept : Conversation(r.kept[k]) # Conversation(c)
              /\ Dedup(r, c) = [kept |-> Append(r.kept, c), removed |-> r.removed]
           \/ \E k \in DOMAIN r.kept :
                /\ Conversation(r.kept[k]) = Conversation(c)
                /\ ScoreOrZero(c) > ScoreOrZero(r.kept[k])
                /\ Dedup(r, c) = [kept |-> [r.kept EXCEPT ![k] = c],
                                  removed |-> Append(r.removed, r.kept[k])]
           \/ \E k \in DOMAIN r.kept :
                /\ Conversation(r.kept[k]) = Conversation(c)
                /\ ~(ScoreOrZero(c) > ScoreOrZero(r.kept[k]))
                /\ Dedup(r, c) = [kept |-> r.kept, removed |-> Append(r.removed, c)]
<1>. DEFINE same == {k \in DOMAIN r.kept : Conversation(r.kept[k]) = Conversation(c)}
            z == CHOOSE k \in same : TRUE
<1>1. Dedup(r, c) =
        IF same = {} THEN [r EXCEPT !.kept = Append(@, c)]
        ELSE IF ScoreOrZero(c) > ScoreOrZero(r.kept[z])
        THEN [kept |-> [r.kept EXCEPT ![z] = c], removed |-> Append(r.removed, r.kept[z])]
        ELSE [r EXCEPT !.removed = Append(@, c)]
  BY DEF Dedup
<1>2. /\ [r EXCEPT !.kept = Append(@, c)] = [kept |-> Append(r.kept, c), removed |-> r.removed]
      /\ [r EXCEPT !.removed = Append(@, c)] = [kept |-> r.kept, removed |-> Append(r.removed, c)]
  BY ListsExcept DEF Lists
<1>3. same # {} => z \in same
  <2>. HIDE DEF same
  <2>. QED
    BY Zenon
<1>4. \A k : k \in same <=> k \in DOMAIN r.kept /\ Conversation(r.kept[k]) = Conversation(c)
  OBVIOUS
<1>. HIDE DEF same, z
<1>5. CASE same = {}
  BY <1>1, <1>2, <1>4, <1>5, Zenon
<1>6. CASE same # {} /\ ScoreOrZero(c) > ScoreOrZero(r.kept[z])
  <2>1. Dedup(r, c) = [kept |-> [r.kept EXCEPT ![z] = c], removed |-> Append(r.removed, r.kept[z])]
    BY <1>1, <1>6, Zenon
  <2>. QED
    BY <1>3, <1>4, <1>6, <2>1, Zenon
<1>7. CASE same # {} /\ ~(ScoreOrZero(c) > ScoreOrZero(r.kept[z]))
  <2>1. Dedup(r, c) = [kept |-> r.kept, removed |-> Append(r.removed, c)]
    BY <1>1, <1>2, <1>7, Zenon
  <2>. QED
    BY <1>3, <1>4, <1>7, <2>1, Zenon
<1>. QED
  BY <1>5, <1>6, <1>7, Zenon

LEMMA Exchanged ==
    ASSUME NEW p \in Nat, NEW q \in Nat, NEW u \in Nat, NEW o \in Int, NEW c \in Int,
           NEW k \in Nat, NEW m, NEW v, k + o = p + c, m = q + o, p + q = u, v = u + c
    PROVE  k + m = v
OBVIOUS

LEMMA DedupAdds ==
    ASSUME NEW s \in Seq(Candidate), NEW n \in DOMAIN s, NEW r, AllOf(s, n - 1, r)
    PROVE  AllOf(s, n, Dedup(r, s[n]))
<1>. DEFINE c == s[n]
            d == Dedup(r, c)
            Upto(x, m) == {i \in 1 .. m : s[i].id = x}
<1>1. c \in Candidate /\ n \in Nat \ {0} /\ DOMAIN s = 1 .. Len(s) /\ Len(s) \in Nat
  OBVIOUS
<1>2. /\ r \in Lists /\ r.kept \in Seq(Candidate) /\ r.removed \in Seq(Candidate)
      /\ Len(r.kept) \in Nat /\ Len(r.removed) \in Nat
      /\ Len(r.kept) + Len(r.removed) = n - 1
      /\ \A x : Count(x, r.kept) + Count(x, r.removed) = Cardinality(Upto(x, n - 1))
  BY DEF AllOf, Lists
<1>9. ASSUME NEW a \in Nat, NEW b \in Nat
      PROVE  /\ a = Len(r.kept) + 1 /\ b = Len(r.removed) => a + b = n
             /\ a = Len(r.kept) /\ b = Len(r.removed) + 1 => a + b = n
             /\ a = Len(r.kept) + 1 => a + Len(r.removed) = n
             /\ b = Len(r.removed) + 1 => Len(r.kept) + b = n
  <2>1. Len(r.kept) \in Nat /\ Len(r.removed) \in Nat /\ Len(r.kept) + Len(r.removed) = n - 1
    BY <1>2
  <2>2. n \in Nat
    BY <1>1
  <2>. DEFINE p == Len(r.kept)
              q == Len(r.removed)
  <2>3. p \in Nat /\ q \in Nat /\ p + q = n - 1
    BY <2>1
  <2>. HIDE DEF p, q
  <2>4. a = p + 1 /\ b = q => a + b = n
    BY <2>2, <2>3
  <2>5. a = p /\ b = q + 1 => a + b = n
    BY <2>2, <2>3
  <2>6. a = p + 1 => a + q = n
    BY <2>2, <2>3
  <2>7. b = q + 1 => p + b = n
    BY <2>2, <2>3
  <2>. QED
    BY <2>4, <2>5, <2>6, <2>7 DEF p, q
<1>3. ASSUME NEW x
      PROVE  Cardinality(Upto(x, n)) = Cardinality(Upto(x, n - 1)) + One(c.id = x)
             /\ Cardinality(Upto(x, n - 1)) \in Nat
  <2>1. Upto(x, n - 1) \in SUBSET DOMAIN s /\ n \notin Upto(x, n - 1)
    BY <1>1
  <2>2. IsFiniteSet(Upto(x, n - 1)) /\ Cardinality(Upto(x, n - 1)) \in Nat
    BY <2>1, FiniteIndices, FS_CardinalityType
  <2>3. \A i : i \in 1 .. n <=> i \in 1 .. n - 1 \/ i = n
    BY <1>1
  <2>4. CASE c.id = x
    <3>1. Upto(x, n) = Upto(x, n - 1) \union {n}
      BY <2>3, <2>4
    <3>2. Cardinality(Upto(x, n - 1) \union {n}) = Cardinality(Upto(x, n - 1)) + 1
      BY <2>1, <2>2, FS_AddElement, Zenon
    <3>3. One(c.id = x) = 1
      BY <2>4 DEF One
    <3>. HIDE DEF Upto, c
    <3>. QED
      BY <2>2, <3>1, <3>2, <3>3
  <2>5. CASE c.id # x
    <3>1. Upto(x, n) = Upto(x, n - 1)
      BY <2>3, <2>5
    <3>2. One(c.id = x) = 0
      BY <2>5 DEF One
    <3>. HIDE DEF Upto, c
    <3>. QED
      BY <2>2, <3>1, <3>2
  <2>. QED
    BY <2>4, <2>5
<1>4. \A x : Count(x, r.kept) \in Nat /\ Count(x, r.removed) \in Nat
  BY <1>2, CountNat
<1>. HIDE DEF Upto, c
<1>5. ASSUME d = [kept |-> Append(r.kept, c), removed |-> r.removed]
      PROVE  AllOf(s, n, d)
  <2>. DEFINE k == Append(r.kept, c)
  <2>1. k \in Seq(Candidate) /\ Len(k) = Len(r.kept) + 1
    BY <1>1, <1>2
  <2>2. \A x : Count(x, k) = Count(x, r.kept) + One(c.id = x)
    BY <1>1, <1>2, CountAppend
  <2>. HIDE DEF k
  <2>3. d.kept = k /\ d.removed = r.removed /\ d \in Lists
    BY <1>2, <1>5, <2>1 DEF Lists, k
  <2>4. Len(k) + Len(r.removed) = n
    <3>1. Len(k) \in Nat
      BY <2>1
    <3>. QED
      BY <1>9, <2>1, <3>1
  <2>5. ASSUME NEW x PROVE Count(x, k) + Count(x, r.removed) = Cardinality(Upto(x, n))
    <3>1. One(c.id = x) \in Int
      BY DEF One
    <3>. QED
      BY <1>2, <1>3, <1>4, <2>2, <3>1
  <2>. HIDE DEF d
  <2>. QED
    BY <2>3, <2>4, <2>5 DEF AllOf, Upto
<1>6. ASSUME NEW z \in DOMAIN r.kept,
             d = [kept |-> [r.kept EXCEPT ![z] = c], removed |-> Append(r.removed, r.kept[z])]
      PROVE  AllOf(s, n, d)
  <2>. DEFINE k == [r.kept EXCEPT ![z] = c]
              m == Append(r.removed, r.kept[z])
              o == r.kept[z]
  <2>1. o \in Candidate /\ m \in Seq(Candidate) /\ Len(m) = Len(r.removed) + 1
    BY <1>2
  <2>2. \A x : /\ k \in Seq(Candidate) /\ Len(k) = Len(r.kept)
               /\ Count(x, k) + One(o.id = x) = Count(x, r.kept) + One(c.id = x)
    BY <1>1, <1>2, CountReplace
  <2>3. \A x : Count(x, m) = Count(x, r.removed) + One(o.id = x)
    BY <1>2, <2>1, CountAppend
  <2>. HIDE DEF k, m, o
  <2>4. d.kept = k /\ d.removed = m /\ d \in Lists
    BY <1>6, <2>1, <2>2 DEF Lists, k, m
  <2>5. Len(k) + Len(m) = n
    <3>1. Len(k) \in Nat /\ Len(m) \in Nat /\ Len(k) = Len(r.kept)
      BY <2>1, <2>2
    <3>. QED
      BY <1>9, <2>1, <3>1
  <2>6. ASSUME NEW x PROVE Count(x, k) + Count(x, m) = Cardinality(Upto(x, n))
    <3>1. One(c.id = x) \in Int /\ One(o.id = x) \in Int
      BY DEF One
    <3>2. Count(x, k) \in Nat
      BY <2>2, CountNat
    <3>3. Count(x, k) + One(o.id = x) = Count(x, r.kept) + One(c.id = x)
      BY <2>2
    <3>4. Count(x, m) = Count(x, r.removed) + One(o.id = x)
      BY <2>3
    <3>5. Count(x, r.kept) + Count(x, r.removed) = Cardinality(Upto(x, n - 1))
      BY <1>2
    <3>6. /\ Cardinality(Upto(x, n)) = Cardinality(Upto(x, n - 1)) + One(c.id = x)
          /\ Cardinality(Upto(x, n - 1)) \in Nat /\ Count(x, r.removed) \in Nat
          /\ Count(x, r.kept) \in Nat
      BY <1>3, <1>4
    <3>. QED
      BY <3>1, <3>2, <3>3, <3>4, <3>5, <3>6, Exchanged
  <2>. HIDE DEF d
  <2>. QED
    BY <2>4, <2>5, <2>6 DEF AllOf, Upto
<1>7. ASSUME d = [kept |-> r.kept, removed |-> Append(r.removed, c)]
      PROVE  AllOf(s, n, d)
  <2>. DEFINE m == Append(r.removed, c)
  <2>1. m \in Seq(Candidate) /\ Len(m) = Len(r.removed) + 1
    BY <1>1, <1>2
  <2>2. \A x : Count(x, m) = Count(x, r.removed) + One(c.id = x)
    BY <1>1, <1>2, CountAppend
  <2>. HIDE DEF m
  <2>3. d.kept = r.kept /\ d.removed = m /\ d \in Lists
    BY <1>2, <1>7, <2>1 DEF Lists, m
  <2>4. Len(r.kept) + Len(m) = n
    <3>1. Len(m) \in Nat
      BY <2>1
    <3>. QED
      BY <1>9, <2>1, <3>1
  <2>5. ASSUME NEW x PROVE Count(x, r.kept) + Count(x, m) = Cardinality(Upto(x, n))
    <3>1. One(c.id = x) \in Int
      BY DEF One
    <3>. QED
      BY <1>2, <1>3, <1>4, <2>2, <3>1
  <2>. HIDE DEF d
  <2>. QED
    BY <2>3, <2>4, <2>5 DEF AllOf, Upto
<1>8. AllOf(s, n, d)
  <2>. HIDE DEF d
  <2>1. \/ d = [kept |-> Append(r.kept, c), removed |-> r.removed]
        \/ \E z \in DOMAIN r.kept :
             d = [kept |-> [r.kept EXCEPT ![z] = c], removed |-> Append(r.removed, r.kept[z])]
        \/ d = [kept |-> r.kept, removed |-> Append(r.removed, c)]
    BY <1>1, <1>2, DedupCases, Zenon DEF d
  <2>. QED
    BY <1>5, <1>6, <1>7, <2>1, Zenon
<1>. QED
  BY <1>8 DEF c

LEMMA DedupBest ==
    ASSUME NEW s \in Seq(Candidate), NEW n \in DOMAIN s, NEW r \in Lists, Falling(s),
           BestOf(s, n - 1, r)
    PROVE  BestOf(s, n, Dedup(r, s[n]))
<1>. DEFINE c == s[n]
            d == Dedup(r, c)
            kept == r.kept
            removed == r.removed
<1>1. /\ c \in Candidate /\ n \in Nat \ {0} /\ DOMAIN s = 1 .. Len(s) /\ Len(s) \in Nat
      /\ n <= Len(s)
  OBVIOUS
<1>2. kept \in Seq(Candidate) /\ removed \in Seq(Candidate)
  BY DEF Lists
<1>3. PICK g \in [DOMAIN kept -> 1 .. n - 1] :
        /\ \A k, l \in DOMAIN kept : k < l => g[k] < g[l]
        /\ \A k \in DOMAIN kept : kept[k] = s[g[k]]
  BY DEF BestOf
<1>4. /\ DistinctConversations(kept)
      /\ \A m \in DOMAIN removed : \E k \in DOMAIN kept :
            /\ Conversation(removed[m]) = Conversation(kept[k])
            /\ removed[m].score <= kept[k].score
  BY DEF BestOf
<1>. HIDE DEF c, kept, removed
<1>5. ASSUME NEW k \in DOMAIN kept
      PROVE  /\ kept[k].score \in Nat /\ c.score \in Nat /\ c.score <= kept[k].score
             /\ ~(ScoreOrZero(c) > ScoreOrZero(kept[k]))
  <2>1. g[k] \in DOMAIN s /\ n \in DOMAIN s /\ g[k] < n /\ kept[k] = s[g[k]]
    BY <1>1, <1>3
  <2>2. s[g[k]].score \in Nat /\ s[n].score \in Nat /\ s[g[k]].score >= s[n].score
    BY <2>1 DEF Falling
  <2>3. kept[k].score \in Nat /\ c.score \in Nat /\ c.score <= kept[k].score
    BY <2>1, <2>2 DEF c
  <2>. QED
    BY <2>3 DEF ScoreOrZero, NoScore
<1>6. ASSUME \A k \in DOMAIN kept : Conversation(kept[k]) # Conversation(c),
             d = [kept |-> Append(kept, c), removed |-> removed]
      PROVE  BestOf(s, n, d)
  <2>. DEFINE z == Append(kept, c)
              e == Len(kept) + 1
              h == [k \in 1 .. e |-> IF k = e THEN n ELSE g[k]]
  <2>1. /\ z \in Seq(Candidate) /\ DOMAIN z = 1 .. e /\ DOMAIN kept = 1 .. e - 1 /\ e \in Nat \ {0}
        /\ z[e] = c /\ \A k \in 1 .. e - 1 : z[k] = kept[k]
    BY <1>1, <1>2
  <2>. HIDE DEF z, e
  <2>2. d.kept = z /\ d.removed = removed
    BY <1>6 DEF z
  <2>3. \A k \in 1 .. e : k = e \/ k \in 1 .. e - 1
    BY <2>1
  <2>4. \A k \in 1 .. e - 1 : g[k] \in 1 .. n - 1 /\ kept[k] = s[g[k]]
    BY <1>3, <2>1
  <2>5. /\ h \in [1 .. e -> 1 .. n] /\ h[e] = n /\ \A k \in 1 .. e - 1 : h[k] = g[k]
    <3>1. \A k \in 1 .. e - 1 : k \in 1 .. e /\ k # e
      BY <2>1
    <3>2. 1 .. n - 1 \subseteq 1 .. n /\ n \in 1 .. n /\ e \in 1 .. e
      BY <1>1, <2>1
    <3>. QED
      BY <2>3, <2>4, <3>1, <3>2
  <2>. HIDE DEF h
  <2>6. \A k \in 1 .. e : z[k] = s[h[k]]
    BY <2>1, <2>3, <2>4, <2>5 DEF c
  <2>7. ASSUME NEW k \in 1 .. e, NEW l \in 1 .. e, k < l PROVE h[k] < h[l]
    <3>1. k \in 1 .. e - 1
      BY <2>1, <2>7
    <3>2. CASE l = e
      BY <1>1, <2>4, <2>5, <3>1, <3>2
    <3>3. CASE l \in 1 .. e - 1
      BY <1>3, <2>1, <2>5, <2>7, <3>1, <3>3
    <3>. QED
      BY <2>3, <3>2, <3>3
  <2>8. DistinctConversations(z)
    <3>. SUFFICES ASSUME NEW k \in 1 .. e, NEW l \in 1 .. e, Conversation(z[k]) = Conversation(z[l])
                  PROVE  k = l
      BY <2>1 DEF DistinctConversations
    <3>1. CASE k = e \/ l = e
      BY <1>6, <2>1, <2>3, <3>1
    <3>2. CASE k \in 1 .. e - 1 /\ l \in 1 .. e - 1
      BY <1>4, <2>1, <3>2 DEF DistinctConversations
    <3>. QED
      BY <2>3, <3>1, <3>2
  <2>9. \A m \in DOMAIN removed : \E k \in DOMAIN z :
            /\ Conversation(removed[m]) = Conversation(z[k])
            /\ removed[m].score <= z[k].score
    <3>1. \A k \in DOMAIN kept : k \in DOMAIN z /\ z[k] = kept[k]
      BY <2>1
    <3>. QED
      BY <1>4, <3>1
  <2>. HIDE DEF d
  <2>. QED
    BY <2>1, <2>2, <2>5, <2>6, <2>7, <2>8, <2>9 DEF BestOf
<1>7. ASSUME NEW z \in DOMAIN kept, Conversation(kept[z]) = Conversation(c),
             d = [kept |-> kept, removed |-> Append(removed, c)]
      PROVE  BestOf(s, n, d)
  <2>. DEFINE m == Append(removed, c)
              e == Len(removed) + 1
  <2>1. /\ m \in Seq(Candidate) /\ DOMAIN m = 1 .. e /\ DOMAIN removed = 1 .. e - 1
        /\ e \in Nat \ {0}
        /\ m[e] = c /\ \A k \in 1 .. e - 1 : m[k] = removed[k]
    BY <1>1, <1>2
  <2>. HIDE DEF m, e
  <2>2. d.kept = kept /\ d.removed = m
    BY <1>7 DEF m
  <2>3. g \in [DOMAIN kept -> 1 .. n]
    <3>1. 1 .. n - 1 \subseteq 1 .. n
      BY <1>1
    <3>. QED
      BY <3>1
  <2>4. ASSUME NEW i \in DOMAIN m
        PROVE  \E k \in DOMAIN kept : /\ Conversation(m[i]) = Conversation(kept[k])
                                      /\ m[i].score <= kept[k].score
    <3>1. i = e \/ i \in 1 .. e - 1
      BY <2>1
    <3>2. CASE i = e
      BY <1>5, <1>7, <2>1, <3>2
    <3>3. CASE i \in 1 .. e - 1
      BY <1>4, <2>1, <3>3
    <3>. QED
      BY <3>1, <3>2, <3>3
  <2>. HIDE DEF d
  <2>. QED
    BY <1>3, <1>4, <2>2, <2>3, <2>4 DEF BestOf
<1>8. BestOf(s, n, d)
  <2>. HIDE DEF d
  <2>1. \/ /\ \A k \in DOMAIN kept : Conversation(kept[k]) # Conversation(c)
           /\ d = [kept |-> Append(kept, c), removed |-> removed]
        \/ \E k \in DOMAIN kept : ScoreOrZero(c) > ScoreOrZero(kept[k])
        \/ \E k \in DOMAIN kept :
             /\ Conversation(kept[k]) = Conversation(c)
             /\ d = [kept |-> kept, removed |-> Append(removed, c)]
    BY <1>1, DedupCases, Zenon DEF d, kept, removed
  <2>. QED
    BY <1>5, <1>6, <1>7, <2>1, Zenon
<1>. QED
  BY <1>8 DEF c

LEMMA LeastNat ==
    ASSUME NEW T, T \subseteq Nat, T # {}
    PROVE  \E x \in T : \A y \in T : x <= y
<1>1. \E x \in T : \A y \in T : ~ (<<y, x>> \in OpToRel(<, Nat))
  BY WFMin, NatLessThanWellFounded, Zenon
<1>2. PICK x \in T : \A y \in T : ~ (<<y, x>> \in OpToRel(<, Nat))
  BY <1>1, Zenon
<1>3. ASSUME NEW y \in Nat, y < x
      PROVE  <<y, x>> \in OpToRel(<, Nat)
  <2>1. <<y, x>> \in Nat \X Nat /\ <<y, x>>[1] < <<y, x>>[2]
    BY <1>3
  <2>. QED
    BY <2>1, Zenon DEF OpToRel
<1>4. \A y \in T : ~(y < x)
  BY <1>2, <1>3, Zenon
<1>. QED
  BY <1>4

Start == [kept |-> <<>>, removed |-> <<>>]
\* f is upto, of the first n candidates.
Deduping(f, s, n) == f = [k \in 0 .. n |-> IF k = 0 THEN Start ELSE Dedup(f[k - 1], s[k])]

LEMMA DedupingExists ==
    ASSUME NEW s, NEW n \in Nat
    PROVE  \E f : Deduping(f, s, n)
<1>. DEFINE Bad == {k \in Nat : ~ \E f : Deduping(f, s, k)}
<1>1. CASE Bad = {}
  BY <1>1
<1>2. CASE Bad # {}
  <2>1. PICK x \in Bad : \A y \in Bad : x <= y
    BY <1>2, LeastNat
  <2>2. x # 0
    <3>. DEFINE f == [k \in 0 .. 0 |-> Start]
    <3>1. f = [k \in 0 .. 0 |-> IF k = 0 THEN Start ELSE Dedup(f[k - 1], s[k])]
      OBVIOUS
    <3>. HIDE DEF f
    <3>. QED
      BY <3>1, <2>1, Zenon DEF Deduping
  <2>3. x - 1 \in Nat /\ x - 1 \notin Bad
    BY <2>1, <2>2
  <2>4. PICK f : Deduping(f, s, x - 1)
    BY <2>3
  <2>5. f = [k \in 0 .. x - 1 |-> IF k = 0 THEN Start ELSE Dedup(f[k - 1], s[k])]
    BY <2>4 DEF Deduping
  <2>. DEFINE g == [k \in 0 .. x |-> IF k = x THEN Dedup(f[x - 1], s[x]) ELSE f[k]]
  <2>6. g[x] = Dedup(g[x - 1], s[x])
    BY <2>2
  <2>7. ASSUME NEW k \in 0 .. x
        PROVE  g[k] = IF k = 0 THEN Start ELSE Dedup(g[k - 1], s[k])
    <3>1. CASE k = x
      BY <3>1, <2>6, <2>2
    <3>2. CASE k # x
      <4>1. k \in 0 .. x - 1 /\ g[k] = f[k]
        BY <3>2
      <4>2. k # 0 => g[k - 1] = f[k - 1]
        BY <3>2
      <4>. HIDE DEF g
      <4>3. f[k] = IF k = 0 THEN Start ELSE Dedup(f[k - 1], s[k])
        BY <4>1, <2>5
      <4>. QED
        BY <4>1, <4>2, <4>3, Zenon
    <3>. QED
      BY <3>1, <3>2, Zenon
  <2>8. g = [k \in 0 .. x |-> g[k]]
    OBVIOUS
  <2>. HIDE DEF g
  <2>9. g = [k \in 0 .. x |-> IF k = 0 THEN Start ELSE Dedup(g[k - 1], s[k])]
    BY <2>7, <2>8, Zenon
  <2>. QED
    BY <2>9, <2>1, Zenon DEF Deduping
<1>. QED
  BY <1>1, <1>2

\* What the conversation filter does.
LEMMA DedupConversationIs ==
    ASSUME NEW s \in Seq(Candidate)
    PROVE  /\ AllOf(s, Len(s), DedupConversation(s))
           /\ Falling(s) => BestOf(s, Len(s), DedupConversation(s))
<1>. DEFINE n == Len(s)
            up == CHOOSE f : Deduping(f, s, n)
            Right(k) == AllOf(s, k, up[k]) /\ (Falling(s) => BestOf(s, k, up[k]))
<1>1. n \in Nat /\ DOMAIN s = 1 .. n
  OBVIOUS
<1>2. DedupConversation(s) = up[n]
  BY Zenon DEF DedupConversation, Deduping, Start
<1>3. Deduping(up, s, n)
  BY <1>1, DedupingExists, Zenon
<1>. HIDE DEF up, n
<1>4. up = [k \in 0 .. n |-> IF k = 0 THEN Start ELSE Dedup(up[k - 1], s[k])]
  BY <1>3 DEF Deduping
<1>5. \A k \in 0 .. n : up[k] = IF k = 0 THEN Start ELSE Dedup(up[k - 1], s[k])
  BY <1>4
<1>6. Right(0)
  <2>1. up[0] = Start
    BY <1>1, <1>5
  <2>2. Start \in Lists /\ Start.kept = <<>> /\ Start.removed = <<>>
    BY DEF Start, Lists
  <2>. DEFINE e == <<>>
  <2>3. e \in Seq(Candidate) /\ Len(e) = 0 /\ DOMAIN e = {}
    OBVIOUS
  <2>4. \A x : Count(x, e) + Count(x, e) = Cardinality({i \in 1 .. 0 : s[i].id = x})
    <3>1. \A x : {i \in 1 .. 0 : s[i].id = x} = {}
      OBVIOUS
    <3>2. \A x : Count(x, e) = 0
      BY <2>3, CountNat
    <3>. HIDE DEF e
    <3>. QED
      BY <3>1, <3>2, FS_EmptySet
  <2>. HIDE DEF e
  <2>5. AllOf(s, 0, Start)
    BY <2>2, <2>3, <2>4 DEF AllOf, e
  <2>6. BestOf(s, 0, Start)
    <3>1. [k \in {} |-> 1] \in [{} -> 1 .. 0]
      OBVIOUS
    <3>. QED
      BY <2>2, <2>3, <3>1 DEF BestOf, DistinctConversations, e
  <2>. QED
    BY <2>1, <2>5, <2>6, Zenon
<1>7. ASSUME NEW k \in 1 .. n, Right(k - 1)
      PROVE  Right(k)
  <2>1. up[k] = Dedup(up[k - 1], s[k]) /\ k \in DOMAIN s
    BY <1>1, <1>5
  <2>2. AllOf(s, k - 1, up[k - 1])
    BY <1>7
  <2>3. AllOf(s, k, up[k])
    BY <2>1, <2>2, DedupAdds
  <2>4. up[k - 1] \in Lists
    BY <2>2, Zenon DEF AllOf
  <2>5. Falling(s) => BestOf(s, k, up[k])
    BY <1>7, <2>1, <2>4, DedupBest
  <2>. QED
    BY <2>3, <2>5, Zenon
<1>8. Right(n)
  <2>. DEFINE Bad == {k \in 0 .. n : ~Right(k)}
  <2>1. CASE Bad = {}
    BY <1>1, <2>1
  <2>2. CASE Bad # {}
    <3>. HIDE DEF Right
    <3>0. Bad \subseteq Nat
      BY <1>1
    <3>1. PICK x \in Bad : \A y \in Bad : x <= y
      BY <2>2, <3>0, LeastNat
    <3>2. x # 0
      BY <1>6, <3>1, Zenon
    <3>3. x \in 1 .. n /\ x - 1 \in 0 .. n /\ ~(x <= x - 1)
      BY <1>1, <3>1, <3>2
    <3>4. Right(x - 1)
      BY <3>1, <3>3
    <3>5. Right(x)
      BY <1>7, <3>3, <3>4, Zenon
    <3>. QED
      BY <3>1, <3>5
  <2>. QED
    BY <2>1, <2>2
<1>. QED
  BY <1>2, <1>8, Zenon DEF n

-----------------------------------------------------------------------------
(* What the components answer. *)

LEMMA SourcesAnswer ==
    ASSUME NEW q, NEW s
    PROVE  /\ Outcome("UserActionSeq", q, s) = UserActionSeq
           /\ Outcome("UserFeatures", q, s) = UserFeatures
           /\ Outcome("Phoenix", q, s) = PhoenixSource(q) \union {Failed}
           /\ Outcome("Thunder", q, s) = ThunderSource(q) \union {Failed}
<1>1. Outcome("UserActionSeq", q, s) = UserActionSeq
  BY DEF Outcome
<1>2. Outcome("UserFeatures", q, s) = UserFeatures
  BY DEF Outcome
<1>3. Outcome("Phoenix", q, s) = PhoenixSource(q) \union {Failed}
  BY DEF Outcome
<1>4. Outcome("Thunder", q, s) = ThunderSource(q) \union {Failed}
  BY DEF Outcome
<1>. QED
  BY <1>1, <1>2, <1>3, <1>4, Zenon

LEMMA HydratorsAnswer ==
    ASSUME NEW q, NEW s
    PROVE  /\ Outcome("InNetwork", q, s) = {[i \in DOMAIN s |-> InNetwork(q, s[i])]}
           /\ Outcome("CoreData", q, s) = {[i \in DOMAIN s |-> CoreData(s[i])], Failed}
           /\ Outcome("VideoDuration", q, s) = {[i \in DOMAIN s |-> VideoDuration(s[i])], Failed}
           /\ Outcome("Subscription", q, s) = {[i \in DOMAIN s |-> Subscription(s[i])], Failed}
           /\ Outcome("Gizmoduck", q, s) = {[i \in DOMAIN s |-> Gizmoduck(s[i])], Failed}
           /\ Outcome("VFHydrator", q, s) = {[i \in DOMAIN s |-> Visibility(s[i])]} \union VFErrors(s)
<1>1. Outcome("InNetwork", q, s) = {[i \in DOMAIN s |-> InNetwork(q, s[i])]}
  BY DEF Outcome, Map
<1>2. Outcome("CoreData", q, s) = {[i \in DOMAIN s |-> CoreData(s[i])], Failed}
  BY DEF Outcome, Map
<1>3. Outcome("VideoDuration", q, s) = {[i \in DOMAIN s |-> VideoDuration(s[i])], Failed}
  BY DEF Outcome, Map
<1>4. Outcome("Subscription", q, s) = {[i \in DOMAIN s |-> Subscription(s[i])], Failed}
  BY DEF Outcome, Map
<1>5. Outcome("Gizmoduck", q, s) = {[i \in DOMAIN s |-> Gizmoduck(s[i])], Failed}
  BY DEF Outcome, Map
<1>6. Outcome("VFHydrator", q, s) = {[i \in DOMAIN s |-> Visibility(s[i])]} \union VFErrors(s)
  BY DEF Outcome, Map
<1>. QED
  BY <1>1, <1>2, <1>3, <1>4, <1>5, <1>6, Zenon

LEMMA ScorersAnswer ==
    ASSUME NEW q, NEW s
    PROVE  /\ Outcome("PhoenixScorer", q, s) = {[i \in DOMAIN s |-> s[i].prediction]}
                \union IF q.actions THEN {PhoenixScores(s)} ELSE {}
           /\ Outcome("Weighted", q, s) = {WeightedScores(s)}
           /\ Outcome("AuthorDiversity", q, s) = {AuthorDiversity(s)}
           /\ Outcome("OON", q, s) = {OON(s)}
<1>1. Outcome("PhoenixScorer", q, s) = {[i \in DOMAIN s |-> s[i].prediction]}
                \union IF q.actions THEN {PhoenixScores(s)} ELSE {}
  BY DEF Outcome, Map
<1>2. Outcome("Weighted", q, s) = {WeightedScores(s)}
  BY DEF Outcome
<1>3. Outcome("AuthorDiversity", q, s) = {AuthorDiversity(s)}
  BY DEF Outcome
<1>4. Outcome("OON", q, s) = {OON(s)}
  BY DEF Outcome
<1>. QED
  BY <1>1, <1>2, <1>3, <1>4, Zenon

LEMMA FiltersAnswer ==
    ASSUME NEW q, NEW s
    PROVE  /\ Outcome("DropDuplicates", q, s) = {KeepAt(s, {i \in DOMAIN s : \A j \in 1 .. i - 1 : s[j].id # s[i].id})}
           /\ Outcome("CoreDataHydration", q, s) = {KeepAt(s, {i \in DOMAIN s : s[i].text})}
           /\ Outcome("Age", q, s) = {KeepAt(s, {i \in DOMAIN s : s[i].id \notin Old})}
           /\ Outcome("SelfTweet", q, s) = {KeepAt(s, {i \in DOMAIN s : s[i].author # Viewer})}
           /\ Outcome("RetweetDeduplication", q, s) = {RetweetDeduplication(s)}
           /\ Outcome("IneligibleSubscription", q, s) = {KeepAt(s, {i \in DOMAIN s : 
               s[i].subscription # 0 => s[i].subscription \in Feature(q, Subscribed)})}
           /\ Outcome("PreviouslySeen", q, s) = {KeepAt(s, {i \in DOMAIN s : Related(s[i]) \intersect q.seen = {}})}
           /\ Outcome("PreviouslyServed", q, s) = {KeepAt(s, {i \in DOMAIN s : Related(s[i]) \intersect q.served = {}})}
           /\ Outcome("MutedKeyword", q, s) = {KeepAt(s, {i \in DOMAIN s : s[i].id \notin Feature(q, MutedText)})}
           /\ Outcome("AuthorSocialgraph", q, s) = {KeepAt(s, {i \in DOMAIN s : s[i].author \notin Feature(q, Blocked \union Muted)})}
           /\ Outcome("VF", q, s) = {KeepAt(s, {i \in DOMAIN s : s[i].visibility # "drop"})}
           /\ Outcome("DedupConversation", q, s) = {DedupConversation(s)}
<1>1. Outcome("DropDuplicates", q, s) = {KeepAt(s, {i \in DOMAIN s : \A j \in 1 .. i - 1 : s[j].id # s[i].id})}
  BY DEF Outcome, DropDuplicates
<1>2. Outcome("CoreDataHydration", q, s) = {KeepAt(s, {i \in DOMAIN s : s[i].text})}
  BY DEF Outcome, CoreDataHydration, Keep
<1>3. Outcome("Age", q, s) = {KeepAt(s, {i \in DOMAIN s : s[i].id \notin Old})}
  BY DEF Outcome, Age, Keep
<1>4. Outcome("SelfTweet", q, s) = {KeepAt(s, {i \in DOMAIN s : s[i].author # Viewer})}
  BY DEF Outcome, SelfTweet, Keep
<1>5. Outcome("RetweetDeduplication", q, s) = {RetweetDeduplication(s)}
  BY DEF Outcome
<1>6. Outcome("IneligibleSubscription", q, s) = {KeepAt(s, {i \in DOMAIN s : 
               s[i].subscription # 0 => s[i].subscription \in Feature(q, Subscribed)})}
  BY DEF Outcome, IneligibleSubscription, Keep
<1>7. Outcome("PreviouslySeen", q, s) = {KeepAt(s, {i \in DOMAIN s : Related(s[i]) \intersect q.seen = {}})}
  BY DEF Outcome, PreviouslySeen, Keep
<1>8. Outcome("PreviouslyServed", q, s) = {KeepAt(s, {i \in DOMAIN s : Related(s[i]) \intersect q.served = {}})}
  BY DEF Outcome, PreviouslyServed, Keep
<1>9. Outcome("MutedKeyword", q, s) = {KeepAt(s, {i \in DOMAIN s : s[i].id \notin Feature(q, MutedText)})}
  BY DEF Outcome, MutedKeyword, Keep
<1>10. Outcome("AuthorSocialgraph", q, s) = {KeepAt(s, {i \in DOMAIN s : s[i].author \notin Feature(q, Blocked \union Muted)})}
  BY DEF Outcome, AuthorSocialgraph, Keep
<1>11. Outcome("VF", q, s) = {KeepAt(s, {i \in DOMAIN s : s[i].visibility # "drop"})}
  BY DEF Outcome, VF, Keep
<1>12. Outcome("DedupConversation", q, s) = {DedupConversation(s)}
  BY DEF Outcome
<1>. QED
  BY <1>1, <1>2, <1>3, <1>4, <1>5, <1>6, <1>7, <1>8, <1>9, <1>10, <1>11, <1>12, Zenon

\* What a candidate that a filter keeps is known to be.
Passes(c, q, x) ==
    /\ c = "CoreDataHydration" => x.text
    /\ c = "Age" => x.id \notin Old
    /\ c = "SelfTweet" => x.author # Viewer
    /\ c = "IneligibleSubscription" =>
            (x.subscription # 0 => x.subscription \in Feature(q, Subscribed))
    /\ c = "PreviouslySeen" => Related(x) \intersect q.seen = {}
    /\ c = "PreviouslyServed" => Related(x) \intersect q.served = {}
    /\ c = "MutedKeyword" => x.id \notin Feature(q, MutedText)
    /\ c = "AuthorSocialgraph" => x.author \notin Feature(q, Blocked \union Muted)
    /\ c = "VF" => x.visibility # "drop"

FilterNames == {"DropDuplicates", "CoreDataHydration", "Age", "SelfTweet", "RetweetDeduplication",
                "IneligibleSubscription", "PreviouslySeen", "PreviouslyServed", "MutedKeyword",
                "AuthorSocialgraph"}

\* Every filter but that of conversations keeps the candidates at certain indices.
LEMMA FilterIs ==
    ASSUME NEW q, NEW s \in Seq(Candidate), NEW c \in FilterNames \union {"VF"}
    PROVE  \E I \in SUBSET DOMAIN s :
              /\ Outcome(c, q, s) = {KeepAt(s, I)}
              /\ \A i \in I : Passes(c, q, s[i])
              /\ c = "DropDuplicates" => \A i, j \in I : s[i].id = s[j].id => i = j
              /\ c = "VF" => \A i \in DOMAIN s \ I : s[i].visibility = "drop"
<1>. DEFINE Is(I) == /\ Outcome(c, q, s) = {KeepAt(s, I)}
                     /\ \A i \in I : Passes(c, q, s[i])
                     /\ c = "DropDuplicates" => \A i, j \in I : s[i].id = s[j].id => i = j
                     /\ c = "VF" => \A i \in DOMAIN s \ I : s[i].visibility = "drop"
<1>1. CASE c = "DropDuplicates"
  <2>. DEFINE I == {i \in DOMAIN s : \A j \in 1 .. i - 1 : s[j].id # s[i].id}
  <2>1. \A i, j \in I : s[i].id = s[j].id => i = j
    <3>1. \A i \in DOMAIN s : i \in Nat \ {0}
      OBVIOUS
    <3>2. \A i, j \in DOMAIN s : i < j => i \in 1 .. j - 1
      BY <3>1
    <3>3. \A i, j \in DOMAIN s : i < j \/ i = j \/ j < i
      BY <3>1
    <3>. QED
      BY <3>2, <3>3
  <2>2. Is(I)
    BY <1>1, <2>1, FiltersAnswer DEF Passes
  <2>. QED
    BY <2>2
<1>2. CASE c = "RetweetDeduplication"
  <2>. DEFINE I == {i \in DOMAIN s : s[i].rt = 0 \/ \A j \in 1 .. i - 1 : Subject(s[j]) # s[i].rt}
  <2>1. Is(I)
    BY <1>2, FiltersAnswer DEF Passes, RetweetDeduplication
  <2>. QED
    BY <2>1
<1>3. CASE c = "CoreDataHydration"
  <2>1. Is({i \in DOMAIN s : s[i].text})
    BY <1>3, FiltersAnswer DEF Passes
  <2>. QED
    BY <2>1
<1>4. CASE c = "Age"
  <2>1. Is({i \in DOMAIN s : s[i].id \notin Old})
    BY <1>4, FiltersAnswer DEF Passes
  <2>. QED
    BY <2>1
<1>5. CASE c = "SelfTweet"
  <2>1. Is({i \in DOMAIN s : s[i].author # Viewer})
    BY <1>5, FiltersAnswer DEF Passes
  <2>. QED
    BY <2>1
<1>6. CASE c = "IneligibleSubscription"
  <2>1. Is({i \in DOMAIN s : 
                         s[i].subscription # 0 => s[i].subscription \in Feature(q, Subscribed)})
    BY <1>6, FiltersAnswer DEF Passes
  <2>. QED
    BY <2>1
<1>7. CASE c = "PreviouslySeen"
  <2>1. Is({i \in DOMAIN s : Related(s[i]) \intersect q.seen = {}})
    BY <1>7, FiltersAnswer DEF Passes
  <2>. QED
    BY <2>1
<1>8. CASE c = "PreviouslyServed"
  <2>1. Is({i \in DOMAIN s : Related(s[i]) \intersect q.served = {}})
    BY <1>8, FiltersAnswer DEF Passes
  <2>. QED
    BY <2>1
<1>9. CASE c = "MutedKeyword"
  <2>1. Is({i \in DOMAIN s : s[i].id \notin Feature(q, MutedText)})
    BY <1>9, FiltersAnswer DEF Passes
  <2>. QED
    BY <2>1
<1>10. CASE c = "AuthorSocialgraph"
  <2>. DEFINE F == Feature(q, Blocked \union Muted)
              I == {i \in DOMAIN s : s[i].author \notin F}
  <2>1. Outcome(c, q, s) = {KeepAt(s, I)}
    <3>1. Outcome("AuthorSocialgraph", q, s) = {KeepAt(s, I)}
      BY DEF Outcome, AuthorSocialgraph, Keep
    <3>. HIDE DEF I
    <3>. QED
      BY <1>10, <3>1
  <2>2. \A i \in I : Passes(c, q, s[i])
    <3>. HIDE DEF F
    <3>1. \A i \in I : s[i].author \notin F
      OBVIOUS
    <3>. QED
      BY <1>10, <3>1 DEF Passes, F
  <2>3. Is(I)
    <3>. HIDE DEF I
    <3>. QED
      BY <1>10, <2>1, <2>2
  <2>. QED
    BY <2>3
<1>11. CASE c = "VF"
  <2>1. Is({i \in DOMAIN s : s[i].visibility # "drop"})
    BY <1>11, FiltersAnswer DEF Passes
  <2>. QED
    BY <2>1
<1>. QED
  BY <1>1, <1>2, <1>3, <1>4, <1>5, <1>6, <1>7, <1>8, <1>9, <1>10, <1>11 DEF FilterNames

-----------------------------------------------------------------------------
(* What update copies, field by field. *)

\* The fields the properties are about.
Identity(x, y) == y.id = x.id /\ y.author = x.author /\ y.ancestors = x.ancestors
Content(x, y) == y.text = x.text /\ y.rt = x.rt
Marks(x, y) == y.in_network = x.in_network /\ y.subscription = x.subscription
Scores(x, y) == y.weighted = x.weighted /\ y.score = x.score

LEMMA UpdateInNetwork ==
    ASSUME NEW x \in Candidate, NEW r \in {"true", "false"}
    PROVE  LET y == Update("InNetwork", x, r)
           IN  /\ y \in Candidate
               /\ Identity(x, y) /\ Content(x, y) /\ y.in_network = r
               /\ y.subscription = x.subscription /\ Scores(x, y)
               /\ y.visibility = x.visibility
<1>1. Update("InNetwork", x, r) = [x EXCEPT !.in_network = r]
  BY DEF Update
<1>. QED
  BY <1>1 DEF Candidate, Identity, Content, Marks, Scores

LEMMA UpdateCoreData ==
    ASSUME NEW x \in Candidate, NEW t \in BOOLEAN, NEW p \in Option(Post), NEW u \in Option(User),
           NEW r, r = [text |-> t, rt |-> p, rtuser |-> u]
    PROVE  LET y == Update("CoreData", x, r)
           IN  /\ y \in Candidate
               /\ Identity(x, y) /\ y.text = r.text /\ y.rt = r.rt /\ Marks(x, y)
               /\ Scores(x, y) /\ y.visibility = x.visibility
<1>1. Update("CoreData", x, r) = [x EXCEPT !.text = r.text, !.rt = r.rt, !.rtuser = r.rtuser]
  BY DEF Update
<1>. QED
  BY <1>1 DEF Candidate, Identity, Content, Marks, Scores

LEMMA UpdateVideoDuration ==
    ASSUME NEW x \in Candidate, NEW r \in BOOLEAN
    PROVE  LET y == Update("VideoDuration", x, r)
           IN  /\ y \in Candidate
               /\ Identity(x, y) /\ Content(x, y) /\ Marks(x, y) /\ Scores(x, y)
               /\ y.visibility = x.visibility
<1>1. Update("VideoDuration", x, r) = [x EXCEPT !.long = r]
  BY DEF Update
<1>. QED
  BY <1>1 DEF Candidate, Identity, Content, Marks, Scores

LEMMA UpdateSubscription ==
    ASSUME NEW x \in Candidate, NEW r \in Option(User)
    PROVE  LET y == Update("Subscription", x, r)
           IN  /\ y \in Candidate
               /\ Identity(x, y) /\ Content(x, y) /\ y.in_network = x.in_network
               /\ y.subscription = r /\ Scores(x, y) /\ y.visibility = x.visibility
<1>1. Update("Subscription", x, r) = [x EXCEPT !.subscription = r]
  BY DEF Update
<1>. QED
  BY <1>1 DEF Candidate, Identity, Content, Marks, Scores

LEMMA UpdateGizmoduck ==
    ASSUME NEW x \in Candidate, NEW a \in BOOLEAN, NEW b \in BOOLEAN, NEW r, r = [author_name |-> a, rt_name |-> b]
    PROVE  LET y == Update("Gizmoduck", x, r)
           IN  /\ y \in Candidate
               /\ Identity(x, y) /\ Content(x, y) /\ Marks(x, y) /\ Scores(x, y)
               /\ y.visibility = x.visibility
<1>1. Update("Gizmoduck", x, r) = [x EXCEPT !.author_name = r.author_name, !.rt_name = r.rt_name]
  BY DEF Update
<1>. QED
  BY <1>1 DEF Candidate, Identity, Content, Marks, Scores

LEMMA UpdateVFHydrator ==
    ASSUME NEW x \in Candidate, NEW r \in {"keep", "drop"}
    PROVE  LET y == Update("VFHydrator", x, r)
           IN  /\ y \in Candidate
               /\ Identity(x, y) /\ Content(x, y) /\ Marks(x, y) /\ Scores(x, y)
               /\ y.visibility = r
<1>1. Update("VFHydrator", x, r) = [x EXCEPT !.visibility = r]
  BY DEF Update
<1>. QED
  BY <1>1 DEF Candidate, Identity, Content, Marks, Scores

LEMMA UpdatePhoenixScorer ==
    ASSUME NEW x \in Candidate, NEW r \in Predicted
    PROVE  LET y == Update("PhoenixScorer", x, r)
           IN  /\ y \in Candidate
               /\ Identity(x, y) /\ Content(x, y) /\ Marks(x, y) /\ Scores(x, y)
               /\ y.visibility = x.visibility
<1>1. Update("PhoenixScorer", x, r) = [x EXCEPT !.prediction = r]
  BY DEF Update
<1>. QED
  BY <1>1 DEF Candidate, Identity, Content, Marks, Scores

LEMMA UpdateWeighted ==
    ASSUME NEW x \in Candidate, NEW r \in Int
    PROVE  LET y == Update("Weighted", x, r)
           IN  /\ y \in Candidate
               /\ Identity(x, y) /\ Content(x, y) /\ Marks(x, y) /\ y.weighted = r
               /\ y.score = x.score /\ y.visibility = x.visibility
<1>1. Update("Weighted", x, r) = [x EXCEPT !.weighted = r]
  BY DEF Update
<1>. QED
  BY <1>1 DEF Candidate, Identity, Content, Marks, Scores

LEMMA UpdateAuthorDiversity ==
    ASSUME NEW x \in Candidate, NEW r \in Int
    PROVE  LET y == Update("AuthorDiversity", x, r)
           IN  /\ y \in Candidate
               /\ Identity(x, y) /\ Content(x, y) /\ Marks(x, y) /\ y.weighted = x.weighted
               /\ y.score = r /\ y.visibility = x.visibility
<1>1. Update("AuthorDiversity", x, r) = [x EXCEPT !.score = r]
  BY DEF Update
<1>. QED
  BY <1>1 DEF Candidate, Identity, Content, Marks, Scores

LEMMA UpdateOON ==
    ASSUME NEW x \in Candidate, NEW r \in Int
    PROVE  LET y == Update("OON", x, r)
           IN  /\ y \in Candidate
               /\ Identity(x, y) /\ Content(x, y) /\ Marks(x, y) /\ y.weighted = x.weighted
               /\ y.score = r /\ y.visibility = x.visibility
<1>1. Update("OON", x, r) = [x EXCEPT !.score = r]
  BY DEF Update
<1>. QED
  BY <1>1 DEF Candidate, Identity, Content, Marks, Scores

-----------------------------------------------------------------------------
(* The contract. *)

P == INSTANCE CandidatePipelineProofs WITH
    Selector <- "TopKScore", Id <- LAMBDA c : c.id, Score <- LAMBDA c : c.score, SelectSize <- TopK

LEMMA SourcedIs ==
    ASSUME NEW p \in Post, NEW a \in SUBSET Post
    PROVE  LET x == Sourced(p, a)
           IN  /\ x \in Candidate /\ x.id = p /\ x.author = AuthorOf[p] /\ x.text = FALSE
               /\ x.score = NoScore
<1>1. AuthorOf[p] \in User
  BY HomeMixerAssumption
<1>2. -1 \in Predicted /\ NoScore \in Int
  BY DEF Predicted, NoScore
<1>. QED
  BY <1>1, <1>2 DEF Sourced, Candidate, Option

\* The sources answer with posts as a source makes them; thunder with posts of the
\* accounts the viewer is known to follow.
SourcedFrom(c, q, x) ==
    \E p \in Post, a \in SUBSET Post :
        x = Sourced(p, a) /\ (c = "Thunder" => AuthorOf[p] \in Feature(q, Followed))

LEMMA SourceAnswers ==
    ASSUME NEW q, NEW s, NEW c \in {"Phoenix", "Thunder"}, NEW r \in Outcome(c, q, s), r \notin Error
    PROVE  r \in Seq(Candidate) /\ \A i \in DOMAIN r : SourcedFrom(c, q, r[i])
<1>1. ASSUME NEW l \in Seq(Post), r = [i \in DOMAIN l |-> r[i]],
             \A i \in DOMAIN l : \E a \in SUBSET Post : r[i] = Sourced(l[i], a),
             c = "Thunder" => \A i \in DOMAIN l : AuthorOf[l[i]] \in Feature(q, Followed)
      PROVE  r \in Seq(Candidate) /\ \A i \in DOMAIN r : SourcedFrom(c, q, r[i])
  <2>1. \A i \in DOMAIN l : l[i] \in Post
    OBVIOUS
  <2>2. \A i \in DOMAIN l : r[i] \in Candidate
    <3>. SUFFICES ASSUME NEW i \in DOMAIN l PROVE r[i] \in Candidate
      OBVIOUS
    <3>1. PICK a \in SUBSET Post : r[i] = Sourced(l[i], a)
      BY <1>1
    <3>. QED
      BY <2>1, <3>1, SourcedIs
  <2>3. DOMAIN l = 1 .. Len(l) /\ Len(l) \in Nat
    OBVIOUS
  <2>4. r \in Seq(Candidate)
    <3>1. r \in [1 .. Len(l) -> Candidate]
      BY <1>1, <2>2, <2>3
    <3>. QED
      BY <2>3, <3>1
  <2>5. DOMAIN r = DOMAIN l
    BY <1>1
  <2>6. ASSUME NEW i \in DOMAIN l PROVE SourcedFrom(c, q, r[i])
    <3>1. PICK a \in SUBSET Post : r[i] = Sourced(l[i], a)
      BY <1>1
    <3>. QED
      BY <1>1, <2>1, <3>1, Zenon DEF SourcedFrom
  <2>. QED
    BY <2>4, <2>5, <2>6
<1>2. CASE c = "Phoenix"
  <2>1. r \in PhoenixSource(q)
    BY <1>2, SourcesAnswer DEF Error
  <2>2. PICK l \in PhoenixLists : r = Map(l, LAMBDA p : Sourced(p, {}))
    BY <2>1 DEF PhoenixSource
  <2>3. l \in Seq(Post)
    BY HomeMixerAssumption
  <2>4. r = [i \in DOMAIN l |-> Sourced(l[i], {})]
    BY <2>2 DEF Map
  <2>5. r = [i \in DOMAIN l |-> r[i]] /\ \A i \in DOMAIN l : r[i] = Sourced(l[i], {})
    BY <2>4
  <2>6. {} \in SUBSET Post
    OBVIOUS
  <2>7. \A i \in DOMAIN l : \E a \in SUBSET Post : r[i] = Sourced(l[i], a)
    BY <2>5, <2>6, Zenon
  <2>. QED
    BY <1>1, <1>2, <2>3, <2>5, <2>7
<1>3. CASE c = "Thunder"
  <2>1. r \in ThunderSource(q)
    BY <1>3, SourcesAnswer DEF Error
  <2>2. PICK S \in SUBSET {p \in ThunderPosts : AuthorOf[p] \in Feature(q, Followed)} :
          r = Map(Descending(S), LAMBDA p : Sourced(p, Ancestors(p)))
    BY <2>1 DEF ThunderSource
  <2>. DEFINE l == Descending(S)
              n == Cardinality(S)
  <2>3. S \in SUBSET Post /\ S \in SUBSET Int /\ IsFiniteSet(S)
    <3>1. S \in SUBSET ThunderPosts /\ ThunderPosts \subseteq Post /\ IsFiniteSet(ThunderPosts)
          /\ Post \subseteq Nat
      BY HomeMixerAssumption
    <3>2. IsFiniteSet(S)
      BY <3>1, FS_Subset
    <3>. QED
      BY <3>1, <3>2
  <2>4. n \in Nat /\ Ascending(S) \in [1 .. n -> S]
    BY <2>3, AscendingIs
  <2>5. l = [k \in 1 .. n |-> Ascending(S)[n + 1 - k]]
    BY DEF Descending
  <2>. HIDE DEF l, n
  <2>6. \A k \in 1 .. n : n + 1 - k \in 1 .. n
    BY <2>4
  <2>7. l \in [1 .. n -> S]
    BY <2>4, <2>5, <2>6
  <2>8. l \in Seq(Post) /\ DOMAIN l = 1 .. n
    <3>1. l \in [1 .. n -> Post]
      BY <2>3, <2>7
    <3>. QED
      BY <2>4, <3>1
  <2>9. \A i \in DOMAIN l : AuthorOf[l[i]] \in Feature(q, Followed)
    BY <2>7, <2>8
  <2>10. \A p \in Post : Ancestors(p) \in SUBSET Post
    BY HomeMixerAssumption DEF Ancestors, Option
  <2>11. r = [i \in DOMAIN l |-> Sourced(l[i], Ancestors(l[i]))]
    BY <2>2 DEF Map, l
  <2>12. /\ r = [i \in DOMAIN l |-> r[i]]
         /\ \A i \in DOMAIN l : r[i] = Sourced(l[i], Ancestors(l[i]))
    BY <2>11
  <2>14. \A i \in DOMAIN l : l[i] \in Post
    BY <2>3, <2>7, <2>8
  <2>13. \A i \in DOMAIN l : \E a \in SUBSET Post : r[i] = Sourced(l[i], a)
    BY <2>10, <2>12, <2>14, Zenon
  <2>. QED
    BY <1>1, <2>8, <2>9, <2>12, <2>13
<1>. QED
  BY <1>2, <1>3

LEMMA PositionNat ==
    ASSUME NEW s \in Seq(Candidate), NEW i \in DOMAIN s
    PROVE  Position(s, i) \in Nat
<1>. DEFINE B == {j \in DOMAIN s : s[j].author = s[i].author /\
                      (s[j].weighted > s[i].weighted \/ (s[j].weighted = s[i].weighted /\ j < i))}
<1>1. B \in SUBSET DOMAIN s
  OBVIOUS
<1>2. Cardinality(B) \in Nat
  BY <1>1, FiniteIndices, FS_CardinalityType
<1>. QED
  BY <1>2 DEF Position

LEMMA FactorNat ==
    ASSUME NEW n \in Nat
    PROVE  Factor(n) \in Nat \ {0}
<1>1. Multiplier \in Seq(Nat \ {0}) /\ Multiplier # <<>>
  BY HomeMixerAssumption
<1>2. Len(Multiplier) \in Nat \ {0}
  BY <1>1
<1>3. (IF n < Len(Multiplier) THEN n + 1 ELSE Len(Multiplier)) \in 1 .. Len(Multiplier)
  BY <1>2
<1>. QED
  BY <1>1, <1>3 DEF Factor

\* What the scorers answer: numbers, one for each candidate.
LEMMA ScoresAre ==
    ASSUME NEW s \in Seq(Candidate)
    PROVE  /\ DOMAIN s = 1 .. Len(s) /\ Len(s) \in Nat
           /\ PhoenixScores(s) \in [DOMAIN s -> Predicted]
           /\ WeightedScores(s) \in [DOMAIN s -> Nat]
           /\ AuthorDiversity(s) \in [DOMAIN s -> Int]
           /\ OON(s) \in [DOMAIN s -> Int]
<1>1. DOMAIN s = 1 .. Len(s) /\ Len(s) \in Nat /\ \A i \in DOMAIN s : s[i] \in Candidate
  OBVIOUS
<1>2. \A x \in Candidate : /\ x.id \in Post /\ x.rt \in Option(Post) /\ x.prediction \in Predicted
                           /\ x.long \in BOOLEAN /\ x.weighted \in Int /\ x.score \in Int
  BY DEF Candidate
<1>3. NoScore \in Int
  BY DEF NoScore
<1>4. PhoenixScores(s) \in [DOMAIN s -> Predicted]
  <2>1. \A x \in Candidate : Subject(x) \in Post
    BY <1>2 DEF Subject, Option
  <2>2. \A p \in Post : Prediction[p] \in Predicted
    BY DEF Predicted
  <2>3. PhoenixScores(s) = [i \in DOMAIN s |-> Prediction[Subject(s[i])]]
    BY DEF PhoenixScores, Map
  <2>. QED
    BY <1>1, <2>1, <2>2, <2>3
<1>5. WeightedScores(s) \in [DOMAIN s -> Nat]
  <2>1. WeightedScores(s) = [i \in DOMAIN s |-> Weigh(s[i].prediction, s[i].long)]
    BY DEF WeightedScores, Map
  <2>2. \A x \in Predicted, long \in BOOLEAN : Weigh(x, long) \in Nat
    BY HomeMixerAssumption
  <2>3. \A i \in DOMAIN s : Weigh(s[i].prediction, s[i].long) \in Nat
    BY <1>1, <1>2, <2>2
  <2>. QED
    BY <2>1, <2>3
<1>6. AuthorDiversity(s) \in [DOMAIN s -> Int]
  <2>1. ASSUME NEW i \in DOMAIN s PROVE s[i].weighted * Factor(Position(s, i)) \in Int
    <3>1. s[i].weighted \in Int /\ Factor(Position(s, i)) \in Int
      <4>1. Position(s, i) \in Nat
        BY PositionNat
      <4>2. Factor(Position(s, i)) \in Nat \ {0}
        BY <4>1, FactorNat
      <4>. QED
        BY <1>1, <1>2, <4>2
    <3>. QED
      BY <3>1
  <2>2. AuthorDiversity(s) = [i \in DOMAIN s |->
            IF s[i].weighted = NoScore THEN NoScore ELSE s[i].weighted * Factor(Position(s, i))]
    BY DEF AuthorDiversity
  <2>3. \A i \in DOMAIN s :
            (IF s[i].weighted = NoScore THEN NoScore ELSE s[i].weighted * Factor(Position(s, i))) \in Int
    BY <1>3, <2>1, Zenon
  <2>. QED
    BY <2>2, <2>3
<1>7. OON(s) \in [DOMAIN s -> Int]
  <2>. DEFINE F(x) == IF x.in_network = "false" THEN OonFactor ELSE InFactor
  <2>1. \A x \in Candidate : F(x) \in Int
    BY HomeMixerAssumption
  <2>2. ASSUME NEW i \in DOMAIN s PROVE s[i].score * F(s[i]) \in Int
    <3>1. s[i].score \in Int /\ F(s[i]) \in Int
      BY <1>1, <1>2, <2>1
    <3>. HIDE DEF F
    <3>. QED
      BY <3>1
  <2>3. OON(s) = [i \in DOMAIN s |-> IF s[i].score = NoScore THEN NoScore ELSE s[i].score * F(s[i])]
    BY DEF OON, Map
  <2>. HIDE DEF F
  <2>4. \A i \in DOMAIN s : (IF s[i].score = NoScore THEN NoScore ELSE s[i].score * F(s[i])) \in Int
    BY <1>3, <2>2, Zenon
  <2>. QED
    BY <2>3, <2>4
<1>. QED
  BY <1>1, <1>4, <1>5, <1>6, <1>7

HydratorNames == {"InNetwork", "CoreData", "VideoDuration", "Subscription", "Gizmoduck", "VFHydrator"}
ScorerNames == {"PhoenixScorer", "Weighted", "AuthorDiversity", "OON"}

LEMMA AnswersUpdate ==
    ASSUME NEW q \in Query, NEW s \in Seq(Candidate), NEW c \in HydratorNames \union ScorerNames,
           NEW r \in Outcome(c, q, s), r \notin Error, NEW i \in DOMAIN r, NEW x \in Candidate
    PROVE  Update(c, x, r[i]) \in Candidate /\ Identity(x, Update(c, x, r[i]))
<1>1. DOMAIN s = 1 .. Len(s) /\ Len(s) \in Nat /\ \A k \in DOMAIN s : s[k] \in Candidate
  OBVIOUS
<1>2. \A y \in Candidate : /\ y.id \in Post /\ y.prediction \in Predicted
  BY DEF Candidate
<1>3. CASE c = "InNetwork"
  <2>1. r = [k \in DOMAIN s |-> InNetwork(q, s[k])]
    BY <1>3, HydratorsAnswer
  <2>2. r[i] \in {"true", "false"}
    BY <2>1 DEF InNetwork
  <2>. QED
    BY <1>3, <2>2, UpdateInNetwork
<1>4. CASE c = "CoreData"
  <2>1. r = [k \in DOMAIN s |-> CoreData(s[k])]
    BY <1>4, HydratorsAnswer DEF Error
  <2>2. i \in DOMAIN s /\ r[i] = CoreData(s[i]) /\ s[i].id \in Post
    BY <1>1, <1>2, <2>1
  <2>3. \E t \in BOOLEAN, p \in Option(Post), u \in Option(User) :
            r[i] = [text |-> t, rt |-> p, rtuser |-> u]
    <3>. DEFINE p == RetweetOf[s[i].id]
                u == IF p = 0 THEN 0 ELSE AuthorOf[p]
    <3>1. p \in Option(Post) /\ u \in Option(User) /\ 0 \in Option(Post) /\ 0 \in Option(User)
      BY <2>2, HomeMixerAssumption DEF Option
    <3>2. \/ r[i] = [text |-> FALSE, rt |-> 0, rtuser |-> 0]
          \/ r[i] = [text |-> TRUE, rt |-> p, rtuser |-> u]
      BY <2>2 DEF CoreData
    <3>. HIDE DEF p, u
    <3>. QED
      BY <3>1, <3>2
  <2>. QED
    BY <1>4, <2>3, UpdateCoreData
<1>5. CASE c = "VideoDuration"
  <2>1. r = [k \in DOMAIN s |-> VideoDuration(s[k])]
    BY <1>5, HydratorsAnswer DEF Error
  <2>2. r[i] \in BOOLEAN
    BY <2>1 DEF VideoDuration
  <2>. QED
    BY <1>5, <2>2, UpdateVideoDuration
<1>6. CASE c = "Subscription"
  <2>1. r = [k \in DOMAIN s |-> Subscription(s[k])]
    BY <1>6, HydratorsAnswer DEF Error
  <2>2. r[i] \in Option(User)
    BY <1>1, <1>2, <2>1, HomeMixerAssumption DEF Subscription
  <2>. QED
    BY <1>6, <2>2, UpdateSubscription
<1>7. CASE c = "Gizmoduck"
  <2>1. r = [k \in DOMAIN s |-> Gizmoduck(s[k])]
    BY <1>7, HydratorsAnswer DEF Error
  <2>2. r[i] = [author_name |-> TRUE, rt_name |-> s[i].rtuser # 0]
    BY <2>1 DEF Gizmoduck
  <2>3. TRUE \in BOOLEAN /\ (s[i].rtuser # 0) \in BOOLEAN
    OBVIOUS
  <2>. QED
    BY <1>7, <2>2, <2>3, UpdateGizmoduck
<1>8. CASE c = "VFHydrator"
  <2>1. r = [k \in DOMAIN s |-> Visibility(s[k])]
    BY <1>8, HydratorsAnswer DEF Error, VFErrors
  <2>2. r[i] \in {"keep", "drop"}
    BY <2>1 DEF Visibility
  <2>. QED
    BY <1>8, <2>2, UpdateVFHydrator
<1>9. CASE c = "PhoenixScorer"
  <2>1. r = [k \in DOMAIN s |-> s[k].prediction] \/ r = PhoenixScores(s)
    BY <1>9, ScorersAnswer
  <2>2. r[i] \in Predicted
    <3>1. CASE r = PhoenixScores(s)
      <4>1. r \in [DOMAIN s -> Predicted]
        BY <3>1, ScoresAre, Zenon
      <4>. QED
        BY <4>1
    <3>2. CASE r = [k \in DOMAIN s |-> s[k].prediction]
      <4>1. i \in DOMAIN s /\ r[i] = s[i].prediction
        BY <3>2
      <4>. QED
        BY <1>1, <1>2, <4>1
    <3>. QED
      BY <2>1, <3>1, <3>2
  <2>. QED
    BY <1>9, <2>2, UpdatePhoenixScorer
<1>10. CASE c \in {"Weighted", "AuthorDiversity", "OON"}
  <2>1. r = WeightedScores(s) \/ r = AuthorDiversity(s) \/ r = OON(s)
    BY <1>10, ScorersAnswer
  <2>2. r[i] \in Int
    <3>1. r \in [DOMAIN s -> Nat] \/ r \in [DOMAIN s -> Int]
      BY <2>1, ScoresAre, Zenon
    <3>. QED
      BY <3>1
  <2>. QED
    BY <1>10, <2>2, UpdateWeighted, UpdateAuthorDiversity, UpdateOON
<1>. QED
  BY <1>3, <1>4, <1>5, <1>6, <1>7, <1>8, <1>9, <1>10 DEF HydratorNames, ScorerNames

LEMMA OccursIsCount ==
    ASSUME NEW s, NEW x
    PROVE  P!Occurs(x, s) = Count(x, s)
BY Zenon DEF P!Occurs, P!Cardinality, Cardinality, P!IsFiniteSet, IsFiniteSet, Count, IndicesWith

\* Every filter splits the candidates in two.
LEMMA FiltersSplit ==
    ASSUME NEW q, NEW s \in Seq(Candidate),
           NEW c \in FilterNames \union {"VF", "DedupConversation"}, NEW r \in Outcome(c, q, s)
    PROVE  /\ r.kept \in Seq(Candidate) /\ r.removed \in Seq(Candidate)
           /\ Len(r.kept) + Len(r.removed) = Len(s)
           /\ \A x : Count(x, r.kept) + Count(x, r.removed) = Count(x, s)
<1>1. CASE c \in FilterNames \union {"VF"}
  <2>1. PICK I \in SUBSET DOMAIN s :
          /\ Outcome(c, q, s) = {KeepAt(s, I)}
          /\ \A i \in I : Passes(c, q, s[i])
          /\ c = "DropDuplicates" => \A i, j \in I : s[i].id = s[j].id => i = j
          /\ c = "VF" => \A i \in DOMAIN s \ I : s[i].visibility = "drop"
    BY <1>1, FilterIs, Zenon
  <2>2. r = KeepAt(s, I)
    BY <2>1
  <2>. QED
    BY <2>2, KeepAtCounts DEF Count
<1>2. CASE c = "DedupConversation"
  <2>1. r = DedupConversation(s)
    BY <1>2, FiltersAnswer
  <2>2. AllOf(s, Len(s), r)
    BY <2>1, DedupConversationIs
  <2>3. DOMAIN s = 1 .. Len(s)
    OBVIOUS
  <2>. QED
    BY <2>2, <2>3 DEF AllOf, Lists, Count, IndicesWith
<1>. QED
  BY <1>1, <1>2

LEMMA NamesAre ==
    /\ P!Components(QueryHydrators) = {"UserActionSeq", "UserFeatures"}
    /\ P!Components(Sources) = {"Phoenix", "Thunder"}
    /\ P!Components(Hydrators) \subseteq HydratorNames
    /\ P!Components(PostSelectionHydrators) \subseteq HydratorNames
    /\ P!Components(Scorers) \subseteq ScorerNames
    /\ P!Components(Filters) \subseteq FilterNames
    /\ P!Components(PostSelectionFilters) \subseteq {"VF", "DedupConversation"}
BY DEF P!Components, QueryHydrators, Sources, Hydrators, PostSelectionHydrators, Scorers, Filters,
       PostSelectionFilters, HydratorNames, ScorerNames, FilterNames

LEMMA MayAnswerIs ==
    ASSUME NEW c, NEW r \in P!MayAnswer(c)
    PROVE  r \notin Error /\ \E q \in Query, s \in Seq(Candidate) : r \in Outcome(c, q, s)
BY DEF P!MayAnswer

\* The components of the feed keep the contract of the pipeline.
LEMMA FeedKeepsContract == P!Contract
<1>1. Request \subseteq Query /\ TopK \in Nat /\ ResultSize \in Nat
  <2>1. Requests \subseteq [in_network_only : BOOLEAN, bottom : BOOLEAN,
                            seen : SUBSET Post, served : SUBSET Post]
    BY HomeMixerAssumption
  <2>2. Request \subseteq Query
    <3>. SUFFICES ASSUME NEW r \in Requests
                  PROVE  [actions |-> FALSE, features |-> FALSE, in_network_only |-> r.in_network_only,
                          bottom |-> r.bottom, seen |-> r.seen, served |-> r.served] \in Query
      BY Zenon DEF Request
    <3>1. /\ r.in_network_only \in BOOLEAN /\ r.bottom \in BOOLEAN
          /\ r.seen \in SUBSET Post /\ r.served \in SUBSET Post
      BY <2>1
    <3>. QED
      BY <3>1 DEF Query
  <2>. QED
    BY <2>2, HomeMixerAssumption
<1>2. \A x \in Candidate : x.score \in Int
  BY DEF Candidate
<1>3. ASSUME NEW c \in P!Components(QueryHydrators), NEW r \in P!MayAnswer(c), NEW q \in Query
      PROVE  Update(c, q, r) \in Query
  <2>1. c \in {"UserActionSeq", "UserFeatures"}
    BY NamesAre
  <2>2. r = TRUE
    <3>1. PICK v \in Query, s \in Seq(Candidate) : r \in Outcome(c, v, s)
      BY MayAnswerIs
    <3>2. r \notin Error
      BY MayAnswerIs
    <3>3. Outcome(c, v, s) = {TRUE, Failed}
      BY <2>1, SourcesAnswer DEF UserActionSeq, UserFeatures
    <3>. QED
      BY <3>1, <3>2, <3>3, Zenon DEF Error
  <2>3. Update("UserActionSeq", q, TRUE) = [q EXCEPT !.actions = TRUE]
        /\ Update("UserFeatures", q, TRUE) = [q EXCEPT !.features = TRUE]
    BY DEF Update
  <2>. QED
    BY <2>1, <2>2, <2>3 DEF Query
<1>4. ASSUME NEW c \in P!Components(Sources), NEW r \in P!MayAnswer(c)
      PROVE  r \in Seq(Candidate)
  BY NamesAre, MayAnswerIs, SourceAnswers
<1>5. ASSUME NEW c \in P!Components(Hydrators) \union P!Components(Scorers)
                         \union P!Components(PostSelectionHydrators),
             NEW r \in P!MayAnswer(c), NEW i \in DOMAIN r, NEW x \in Candidate
      PROVE  Update(c, x, r[i]) \in Candidate /\ Update(c, x, r[i]).id = x.id
  <2>1. c \in HydratorNames \union ScorerNames
    BY NamesAre
  <2>2. PICK q \in Query, s \in Seq(Candidate) : r \in Outcome(c, q, s)
    BY MayAnswerIs
  <2>3. r \notin Error
    BY MayAnswerIs
  <2>. QED
    BY <2>1, <2>2, <2>3, AnswersUpdate DEF Identity
<1>6. ASSUME NEW c \in P!Components(Filters) \union P!Components(PostSelectionFilters),
             NEW q \in Query, NEW s \in Seq(Candidate), NEW r \in Outcome(c, q, s) \ Error
      PROVE  P!Partition(r, s)
  <2>1. c \in FilterNames \union {"VF", "DedupConversation"}
    BY NamesAre
  <2>2. /\ r.kept \in Seq(Candidate) /\ r.removed \in Seq(Candidate)
        /\ Len(r.kept) + Len(r.removed) = Len(s)
        /\ \A x : Count(x, r.kept) + Count(x, r.removed) = Count(x, s)
    BY <2>1, FiltersSplit
  <2>3. \A x : P!Occurs(x, r.kept) + P!Occurs(x, r.removed) = P!Occurs(x, s)
    BY <2>2, OccursIsCount
  <2>. QED
    BY <2>2, <2>3 DEF P!Partition
<1>. QED
  BY <1>1, <1>2, <1>3, <1>4, <1>5, <1>6 DEF P!Contract

-----------------------------------------------------------------------------
(* The pipeline of HomeMixer is the one of CandidatePipelineProofs. *)

LEMMA SameInit == Pipeline!Init <=> P!Init
BY Zenon DEF P!Init, Pipeline!Init, P!EnabledIn, Pipeline!EnabledIn, P!Listed, Pipeline!Listed

LEMMA SameNext == [Pipeline!Next]_(Pipeline!vars) <=> [P!Next]_(P!vars)
BY Zenon DEF P!Parallel, Pipeline!Parallel, P!Listed, Pipeline!Listed, P!Stage, Pipeline!Stage, 
       P!Component, Pipeline!Component, P!call, Pipeline!call, P!result, Pipeline!result, 
       P!vars, Pipeline!vars, P!EnabledIn, Pipeline!EnabledIn, P!Turn, Pipeline!Turn, P!More, 
       Pipeline!More, P!Over, Pipeline!Over, P!Begin, Pipeline!Begin, P!TurnTo, 
       Pipeline!TurnTo, P!Truncate, Pipeline!Truncate, P!Answer, Pipeline!Answer, 
       P!AllAnswered, Pipeline!AllAnswered, P!Succeeded, Pipeline!Succeeded, P!MergeQuery, 
       Pipeline!MergeQuery, P!MergeSource, Pipeline!MergeSource, P!UpdateAll, 
       Pipeline!UpdateAll, P!MergeHydration, Pipeline!MergeHydration, P!Skip, Pipeline!Skip, 
       P!RunFilter, Pipeline!RunFilter, P!RunScorer, Pipeline!RunScorer, P!FetchCandidates, 
       Pipeline!FetchCandidates, P!Hydrate, Pipeline!Hydrate, P!Filter, Pipeline!Filter, 
       P!ScoreAll, Pipeline!ScoreAll, P!ToSelect, Pipeline!ToSelect, P!Orders, 
       Pipeline!Orders, P!Selected, Pipeline!Selected, P!Select, Pipeline!Select, 
       P!FilterPostSelection, Pipeline!FilterPostSelection, P!Reply, Pipeline!Reply, 
       P!EffectEnds, Pipeline!EffectEnds, P!Merge, Pipeline!Merge, P!Sequential, 
       Pipeline!Sequential, P!Proceed, Pipeline!Proceed, P!Next, Pipeline!Next

LEMMA SameTypes == TypeOK <=> P!TypeOK
BY Zenon DEF TypeOK, P!TypeOK, Pipeline!TypeOK, P!Stage, Pipeline!Stage, P!Listed, Pipeline!Listed, 
       P!Component, Pipeline!Component

LEMMA SameConserved == Conserved <=> P!Conserved
BY Zenon DEF Conserved, P!Conserved, Pipeline!Conserved, P!Hydrated, Pipeline!Hydrated, P!Unselected, 
       Pipeline!Unselected, P!Embeds, Pipeline!Embeds, P!Occurs, Pipeline!Occurs, 
       P!Cardinality, Pipeline!Cardinality, P!IsFiniteSet, Pipeline!IsFiniteSet

\* The feed keeps the types of the query and the candidates.
THEOREM FeedTypes == Spec => []TypeOK
<1>1. P!Spec => []P!TypeOK
  BY FeedKeepsContract, P!PipelineTypes
<1>. QED
  BY <1>1, SameInit, SameNext, SameTypes, PTL DEF Spec, Pipeline!Spec, P!Spec

\* No post that was retrieved is lost, doubled, or both answered and reported as filtered.
THEOREM FeedConserves == Spec => []Conserved
<1>1. P!Spec => []P!Conserved
  BY FeedKeepsContract, P!PipelineConserves
<1>. QED
  BY <1>1, SameInit, SameNext, SameConserved, PTL DEF Spec, Pipeline!Spec, P!Spec

-----------------------------------------------------------------------------
(* No post carries what belongs to another. *)

\* A filter answers with candidates it was asked about.
LEMMA KeepAtFrom ==
    ASSUME NEW S \in SUBSET Candidate, NEW s \in Seq(S), NEW I \in SUBSET DOMAIN s
    PROVE  KeepAt(s, I).kept \in Seq(S) /\ KeepAt(s, I).removed \in Seq(S)
<1>1. ASSUME NEW J \in SUBSET DOMAIN s PROVE At(s, J) \in Seq(S)
  <2>1. s \in Seq(Candidate) /\ \A i \in DOMAIN s : s[i] \in S
    OBVIOUS
  <2>2. At(s, J) \in Seq(Candidate) /\ \A k \in DOMAIN At(s, J) : \E i \in J : At(s, J)[k] = s[i]
    BY <2>1, AtIs, AtThins
  <2>. DEFINE t == At(s, J)
  <2>3. \A k \in DOMAIN t : t[k] \in S
    BY <2>1, <2>2
  <2>4. t \in Seq(Candidate)
    BY <2>2
  <2>. HIDE DEF t
  <2>5. t \in Seq(S)
    BY <2>3, <2>4
  <2>. QED
    BY <2>5 DEF t
<1>2. KeepAt(s, I).kept = At(s, I) /\ KeepAt(s, I).removed = At(s, DOMAIN s \ I)
  BY DEF KeepAt
<1>. QED
  BY <1>1, <1>2

LEMMA DedupFrom ==
    ASSUME NEW S \in SUBSET Candidate, NEW r \in Lists, NEW c \in S,
           r.kept \in Seq(S), r.removed \in Seq(S)
    PROVE  Dedup(r, c).kept \in Seq(S) /\ Dedup(r, c).removed \in Seq(S)
<1>. DEFINE d == Dedup(r, c)
            kept == r.kept
            removed == r.removed
<1>1. \/ d = [kept |-> Append(kept, c), removed |-> removed]
      \/ \E z \in DOMAIN kept :
           d = [kept |-> [kept EXCEPT ![z] = c], removed |-> Append(removed, kept[z])]
      \/ d = [kept |-> kept, removed |-> Append(removed, c)]
  BY DedupCases, Zenon
<1>. HIDE DEF d, kept, removed
<1>2. kept \in Seq(S) /\ removed \in Seq(S)
  BY DEF kept, removed
<1>3. Append(kept, c) \in Seq(S) /\ Append(removed, c) \in Seq(S)
  BY <1>2
<1>4. ASSUME NEW z \in DOMAIN kept
      PROVE  [kept EXCEPT ![z] = c] \in Seq(S) /\ Append(removed, kept[z]) \in Seq(S)
  <2>1. kept[z] \in S
    BY <1>2
  <2>2. Append(removed, kept[z]) \in Seq(S)
    BY <1>2, <2>1
  <2>3. [kept EXCEPT ![z] = c] \in Seq(S)
    BY <1>2
  <2>. QED
    BY <2>2, <2>3
<1>5. \A a, b : d = [kept |-> a, removed |-> b] => d.kept = a /\ d.removed = b
  OBVIOUS
<1>6. d.kept \in Seq(S) /\ d.removed \in Seq(S)
  BY <1>1, <1>2, <1>3, <1>4, <1>5, Zenon
<1>. QED
  BY <1>6 DEF d

LEMMA DedupConversationFrom ==
    ASSUME NEW S \in SUBSET Candidate, NEW s \in Seq(S)
    PROVE  DedupConversation(s).kept \in Seq(S) /\ DedupConversation(s).removed \in Seq(S)
<1>. DEFINE n == Len(s)
            up == CHOOSE f : Deduping(f, s, n)
            Right(k) == up[k] \in Lists /\ up[k].kept \in Seq(S) /\ up[k].removed \in Seq(S)
<1>1. n \in Nat /\ DOMAIN s = 1 .. n /\ s \in Seq(Candidate) /\ \A i \in DOMAIN s : s[i] \in S
  OBVIOUS
<1>2. DedupConversation(s) = up[n]
  BY Zenon DEF DedupConversation, Deduping, Start
<1>3. Deduping(up, s, n)
  BY <1>1, DedupingExists, Zenon
<1>. HIDE DEF up, n
<1>4. up = [k \in 0 .. n |-> IF k = 0 THEN Start ELSE Dedup(up[k - 1], s[k])]
  BY <1>3 DEF Deduping
<1>5. \A k \in 0 .. n : up[k] = IF k = 0 THEN Start ELSE Dedup(up[k - 1], s[k])
  BY <1>4
<1>6. Right(0)
  <2>1. up[0] = Start
    BY <1>1, <1>5
  <2>. QED
    BY <2>1 DEF Start, Lists
<1>7. ASSUME NEW k \in 1 .. n, Right(k - 1)
      PROVE  Right(k)
  <2>1. up[k] = Dedup(up[k - 1], s[k]) /\ s[k] \in S
    BY <1>1, <1>5
  <2>2. up[k - 1] \in Lists /\ up[k - 1].kept \in Seq(S) /\ up[k - 1].removed \in Seq(S)
    BY <1>7
  <2>3. up[k].kept \in Seq(S) /\ up[k].removed \in Seq(S)
    BY <2>1, <2>2, DedupFrom
  <2>4. up[k] \in Lists
    <3>1. s[k] \in Candidate
      BY <2>1
    <3>. DEFINE r == up[k - 1]
    <3>2. \/ up[k] = [kept |-> Append(r.kept, s[k]), removed |-> r.removed]
          \/ \E z \in DOMAIN r.kept :
               up[k] = [kept |-> [r.kept EXCEPT ![z] = s[k]], removed |-> Append(r.removed, r.kept[z])]
          \/ up[k] = [kept |-> r.kept, removed |-> Append(r.removed, s[k])]
      BY <2>1, <2>2, <3>1, DedupCases, Zenon
    <3>3. \E a, b : up[k] = [kept |-> a, removed |-> b]
      BY <3>2, Zenon
    <3>4. up[k].kept \in Seq(Candidate) /\ up[k].removed \in Seq(Candidate)
      BY <2>3
    <3>. QED
      BY <3>3, <3>4 DEF Lists
  <2>. QED
    BY <2>3, <2>4
<1>8. Right(n)
  <2>. DEFINE Bad == {k \in 0 .. n : ~Right(k)}
  <2>1. CASE Bad = {}
    BY <1>1, <2>1
  <2>2. CASE Bad # {}
    <3>. HIDE DEF Right
    <3>0. Bad \subseteq Nat
      BY <1>1
    <3>1. PICK x \in Bad : \A y \in Bad : x <= y
      BY <2>2, <3>0, LeastNat
    <3>2. x # 0
      BY <1>6, <3>1, Zenon
    <3>3. x \in 1 .. n /\ x - 1 \in 0 .. n /\ ~(x <= x - 1)
      BY <1>1, <3>1, <3>2
    <3>4. Right(x - 1)
      BY <3>1, <3>3
    <3>5. Right(x)
      BY <1>7, <3>3, <3>4, Zenon
    <3>. QED
      BY <3>1, <3>5
  <2>. QED
    BY <2>1, <2>2
<1>. QED
  BY <1>2, <1>8, Zenon DEF n

\* What the model may predict for the post p, or for the tweet it shows.
PredictedFor(p) == {-1, Prediction[p], Prediction[ContentOf(p)]}
Empty == [text |-> FALSE, rt |-> 0, rtuser |-> 0]

LEMMA SoundIs ==
    ASSUME NEW x \in Candidate
    PROVE  x \in Sound <=>
             /\ x.author = AuthorOf[x.id] /\ x.ancestors \in {{}, Ancestors(x.id)}
             /\ [text |-> x.text, rt |-> x.rt, rtuser |-> x.rtuser] \in {Empty, CoreData(x)}
             /\ x.long => x.id \in Long
             /\ x.subscription \in {0, SubscriptionOf[x.id]}
             /\ x.visibility \in {"none", Visibility(x)}
             /\ x.prediction \in PredictedFor(x.id)
             /\ \/ x.weighted = NoScore
                \/ \E z \in PredictedFor(x.id), long \in {FALSE, x.id \in Long} : x.weighted = Weigh(z, long)
BY Zenon DEF Sound, PredictedFor, Empty, VideoDuration, Subscription

\* What the sources make is sound.
LEMMA SourcesSound ==
    ASSUME NEW q, NEW s, NEW c \in {"Phoenix", "Thunder"}, NEW r \in Outcome(c, q, s), r \notin Error
    PROVE  r \in Seq(Sound)
<1>1. ASSUME NEW p \in Post, NEW a \in {{}, Ancestors(p)} PROVE Sourced(p, a) \in Sound
  <2>1. Ancestors(p) \in SUBSET Post
    BY HomeMixerAssumption DEF Ancestors, Option
  <2>2. Sourced(p, a) \in Candidate
    BY <2>1, SourcedIs
  <2>. DEFINE x == Sourced(p, a)
  <2>3. /\ x.id = p /\ x.author = AuthorOf[p] /\ x.ancestors = a /\ x.text = FALSE /\ x.rt = 0
        /\ x.rtuser = 0 /\ x.long = FALSE /\ x.subscription = 0 /\ x.visibility = "none"
        /\ x.prediction = -1 /\ x.weighted = NoScore
    BY DEF Sourced
  <2>4. x \in Candidate
    BY <2>2
  <2>. HIDE DEF x
  <2>5. x \in Sound
    BY <2>3, <2>4, SoundIs DEF Empty, PredictedFor
  <2>. QED
    BY <2>5 DEF x
<1>2. r \in Seq(Candidate)
  BY SourceAnswers
<1>3. ASSUME NEW i \in DOMAIN r PROVE \E p \in Post : \E a \in {{}, Ancestors(p)} : r[i] = Sourced(p, a)
  <2>1. CASE c = "Phoenix"
    <3>1. r \in PhoenixSource(q)
      BY <2>1, SourcesAnswer DEF Error
    <3>2. PICK l \in PhoenixLists : r = Map(l, LAMBDA p : Sourced(p, {}))
      BY <3>1 DEF PhoenixSource
    <3>3. l \in Seq(Post)
      BY HomeMixerAssumption
    <3>4. r = [k \in DOMAIN l |-> Sourced(l[k], {})]
      BY <3>2 DEF Map
    <3>5. i \in DOMAIN l /\ r[i] = Sourced(l[i], {})
      BY <3>4
    <3>6. l[i] \in Post
      BY <3>3, <3>5
    <3>. QED
      BY <3>5, <3>6
  <2>2. CASE c = "Thunder"
    <3>1. r \in ThunderSource(q)
      BY <2>2, SourcesAnswer DEF Error
    <3>2. PICK S \in SUBSET {p \in ThunderPosts : AuthorOf[p] \in Feature(q, Followed)} :
            r = Map(Descending(S), LAMBDA p : Sourced(p, Ancestors(p)))
      BY <3>1 DEF ThunderSource
    <3>3. S \in SUBSET Post /\ S \in SUBSET Int /\ IsFiniteSet(S)
      <4>1. S \in SUBSET ThunderPosts /\ ThunderPosts \subseteq Post /\ IsFiniteSet(ThunderPosts)
            /\ Post \subseteq Nat
        BY HomeMixerAssumption
      <4>2. IsFiniteSet(S)
        BY <4>1, FS_Subset
      <4>. QED
        BY <4>1, <4>2
    <3>. DEFINE l == Descending(S)
                n == Cardinality(S)
    <3>4. n \in Nat /\ Ascending(S) \in [1 .. n -> S]
      BY <3>3, AscendingIs
    <3>5. l = [k \in 1 .. n |-> Ascending(S)[n + 1 - k]]
      BY DEF Descending
    <3>6. r = [k \in DOMAIN l |-> Sourced(l[k], Ancestors(l[k]))]
      BY <3>2 DEF Map
    <3>. HIDE DEF l, n
    <3>7. i \in DOMAIN l /\ r[i] = Sourced(l[i], Ancestors(l[i]))
      BY <3>6
    <3>8. n + 1 - i \in 1 .. n /\ l[i] = Ascending(S)[n + 1 - i]
      BY <3>4, <3>5, <3>7
    <3>9. l[i] \in Post
      BY <3>3, <3>4, <3>8
    <3>. QED
      BY <3>7, <3>9
  <2>. QED
    BY <2>1, <2>2
<1>4. \A i \in DOMAIN r : r[i] \in Sound
  BY <1>1, <1>3
<1>. QED
  BY <1>2, <1>4

\* A sound candidate shows the tweet it is known to show, or is not known to be a retweet.
LEMMA SubjectOfSound ==
    ASSUME NEW x \in Sound
    PROVE  Prediction[Subject(x)] \in PredictedFor(x.id)
<1>1. x \in Candidate
  BY DEF Sound
<1>2. [text |-> x.text, rt |-> x.rt, rtuser |-> x.rtuser] \in {Empty, CoreData(x)}
  BY <1>1, SoundIs, Zenon
<1>3. x.rt \in {0, RetweetOf[x.id]}
  BY <1>2 DEF Empty, CoreData
<1>. QED
  BY <1>3 DEF Subject, ContentOf, PredictedFor

\* However late an answer is merged, it leaves a sound candidate sound.
LEMMA UpdatesSound ==
    ASSUME NEW q \in Query, NEW s \in Seq(Sound), NEW c \in HydratorNames \union ScorerNames,
           NEW r \in Outcome(c, q, s), r \notin Error,
           NEW i \in DOMAIN s, NEW x \in Sound, x.id = s[i].id
    PROVE  Update(c, x, r[i]) \in Sound
<1>1. /\ s \in Seq(Candidate) /\ s[i] \in Sound /\ s[i] \in Candidate /\ x \in Candidate
      /\ DOMAIN s = 1 .. Len(s)
  <2>1. Sound \subseteq Candidate
    BY Zenon DEF Sound
  <2>. QED
    BY <2>1
<1>2. /\ x.author = AuthorOf[x.id] /\ x.ancestors \in {{}, Ancestors(x.id)}
      /\ [text |-> x.text, rt |-> x.rt, rtuser |-> x.rtuser] \in {Empty, CoreData(x)}
      /\ x.long => x.id \in Long
      /\ x.subscription \in {0, SubscriptionOf[x.id]}
      /\ x.visibility \in {"none", Visibility(x)}
      /\ x.prediction \in PredictedFor(x.id)
      /\ \/ x.weighted = NoScore
         \/ \E z \in PredictedFor(x.id), long \in {FALSE, x.id \in Long} : x.weighted = Weigh(z, long)
  BY <1>1, SoundIs, Zenon
<1>. DEFINE y == Update(c, x, r[i])
            Same(u, v) == /\ u.id = v.id /\ u.author = v.author /\ u.ancestors = v.ancestors
            Told(u, v) == u.text = v.text /\ u.rt = v.rt /\ u.rtuser = v.rtuser
            Rest(u, v) == u.long = v.long /\ u.subscription = v.subscription
            Seen(u, v) == u.visibility = v.visibility
            Guessed(u, v) == u.prediction = v.prediction
            Weighed(u, v) == u.weighted = v.weighted
<1>3. DOMAIN r = DOMAIN s
  <2>1. CASE c \in HydratorNames
    BY <2>1, HydratorsAnswer DEF HydratorNames, VFErrors, Error
  <2>2. CASE c \in ScorerNames
    BY <2>2, ScorersAnswer DEF ScorerNames, PhoenixScores, WeightedScores, AuthorDiversity, OON, Map
  <2>. QED
    BY <2>1, <2>2
<1>4. y \in Candidate
  BY <1>1, <1>3, AnswersUpdate
<1>5. ASSUME Same(y, x), Told(y, x), Rest(y, x), Seen(y, x), Guessed(y, x), Weighed(y, x)
      PROVE  y \in Sound
  <2>1. CoreData(y) = CoreData(x) /\ Visibility(y) = Visibility(x)
    BY <1>5 DEF CoreData, Visibility
  <2>. HIDE DEF y
  <2>. QED
    BY <1>2, <1>4, <1>5, <2>1, SoundIs
<1>6. CASE c \in {"InNetwork", "Gizmoduck", "AuthorDiversity", "OON"}
  <2>1. CASE c = "InNetwork"
    <3>1. y = [x EXCEPT !.in_network = r[i]]
      BY <2>1 DEF Update
    <3>. HIDE DEF y
    <3>2. Same(y, x) /\ Told(y, x) /\ Rest(y, x) /\ Seen(y, x) /\ Guessed(y, x) /\ Weighed(y, x)
      BY <1>1, <3>1 DEF Candidate
    <3>. QED
      BY <1>5, <3>2 DEF y
  <2>2. CASE c = "Gizmoduck"
    <3>1. y = [x EXCEPT !.author_name = r[i].author_name, !.rt_name = r[i].rt_name]
      BY <2>2 DEF Update
    <3>. HIDE DEF y
    <3>2. Same(y, x) /\ Told(y, x) /\ Rest(y, x) /\ Seen(y, x) /\ Guessed(y, x) /\ Weighed(y, x)
      BY <1>1, <3>1 DEF Candidate
    <3>. QED
      BY <1>5, <3>2 DEF y
  <2>3. CASE c = "AuthorDiversity"
    <3>1. y = [x EXCEPT !.score = r[i]]
      BY <2>3 DEF Update
    <3>. HIDE DEF y
    <3>2. Same(y, x) /\ Told(y, x) /\ Rest(y, x) /\ Seen(y, x) /\ Guessed(y, x) /\ Weighed(y, x)
      BY <1>1, <3>1 DEF Candidate
    <3>. QED
      BY <1>5, <3>2 DEF y
  <2>4. CASE c = "OON"
    <3>1. y = [x EXCEPT !.score = r[i]]
      BY <2>4 DEF Update
    <3>. HIDE DEF y
    <3>2. Same(y, x) /\ Told(y, x) /\ Rest(y, x) /\ Seen(y, x) /\ Guessed(y, x) /\ Weighed(y, x)
      BY <1>1, <3>1 DEF Candidate
    <3>. QED
      BY <1>5, <3>2 DEF y
  <2>. QED
    BY <1>6, <2>1, <2>2, <2>3, <2>4
<1>7. CASE c = "CoreData"
  <2>1. r = [k \in DOMAIN s |-> CoreData(s[k])]
    BY <1>7, HydratorsAnswer DEF Error
  <2>2. r[i] = CoreData(x)
    BY <2>1 DEF CoreData
  <2>3. y = [x EXCEPT !.text = r[i].text, !.rt = r[i].rt, !.rtuser = r[i].rtuser]
    BY <1>7 DEF Update
  <2>. HIDE DEF y
  <2>4. /\ Same(y, x) /\ Rest(y, x) /\ Seen(y, x) /\ Guessed(y, x) /\ Weighed(y, x)
        /\ y.text = r[i].text /\ y.rt = r[i].rt /\ y.rtuser = r[i].rtuser
    BY <1>1, <2>3 DEF Candidate
  <2>5. [text |-> y.text, rt |-> y.rt, rtuser |-> y.rtuser] = CoreData(y)
    BY <2>2, <2>4 DEF CoreData
  <2>6. Visibility(y) = Visibility(x)
    BY <2>4 DEF Visibility
  <2>. QED
    BY <1>2, <1>4, <2>4, <2>5, <2>6, SoundIs DEF y
<1>8. CASE c = "VideoDuration"
  <2>1. r = [k \in DOMAIN s |-> VideoDuration(s[k])]
    BY <1>8, HydratorsAnswer DEF Error
  <2>2. r[i] = (x.id \in Long)
    BY <2>1 DEF VideoDuration
  <2>3. y = [x EXCEPT !.long = r[i]]
    BY <1>8 DEF Update
  <2>. HIDE DEF y
  <2>4. /\ Same(y, x) /\ Told(y, x) /\ Seen(y, x) /\ Guessed(y, x) /\ Weighed(y, x)
        /\ y.long = r[i] /\ y.subscription = x.subscription
    BY <1>1, <2>3 DEF Candidate
  <2>5. CoreData(y) = CoreData(x) /\ Visibility(y) = Visibility(x)
    BY <2>4 DEF CoreData, Visibility
  <2>6. y.long => y.id \in Long
    BY <2>2, <2>4, Zenon
  <2>. QED
    BY <1>2, <1>4, <2>4, <2>5, <2>6, SoundIs DEF y
<1>9. CASE c = "Subscription"
  <2>1. r = [k \in DOMAIN s |-> Subscription(s[k])]
    BY <1>9, HydratorsAnswer DEF Error
  <2>2. r[i] = SubscriptionOf[x.id]
    BY <2>1 DEF Subscription
  <2>3. y = [x EXCEPT !.subscription = r[i]]
    BY <1>9 DEF Update
  <2>. HIDE DEF y
  <2>4. /\ Same(y, x) /\ Told(y, x) /\ Seen(y, x) /\ Guessed(y, x) /\ Weighed(y, x)
        /\ y.subscription = r[i] /\ y.long = x.long
    BY <1>1, <2>3 DEF Candidate
  <2>5. CoreData(y) = CoreData(x) /\ Visibility(y) = Visibility(x)
    BY <2>4 DEF CoreData, Visibility
  <2>. QED
    BY <1>2, <1>4, <2>2, <2>4, <2>5, SoundIs DEF y
<1>10. CASE c = "VFHydrator"
  <2>1. r = [k \in DOMAIN s |-> Visibility(s[k])]
    BY <1>10, HydratorsAnswer DEF Error, VFErrors
  <2>2. r[i] = Visibility(x)
    BY <2>1 DEF Visibility
  <2>3. y = [x EXCEPT !.visibility = r[i]]
    BY <1>10 DEF Update
  <2>. HIDE DEF y
  <2>4. /\ Same(y, x) /\ Told(y, x) /\ Rest(y, x) /\ Guessed(y, x) /\ Weighed(y, x)
        /\ y.visibility = r[i]
    BY <1>1, <2>3 DEF Candidate
  <2>5. CoreData(y) = CoreData(x) /\ Visibility(y) = Visibility(x)
    BY <2>4 DEF CoreData, Visibility
  <2>. QED
    BY <1>2, <1>4, <2>2, <2>4, <2>5, SoundIs DEF y
<1>11. CASE c = "PhoenixScorer"
  <2>1. r = [k \in DOMAIN s |-> s[k].prediction] \/ r = PhoenixScores(s)
    BY <1>11, ScorersAnswer
  <2>2. s[i].prediction \in PredictedFor(x.id)
    BY <1>1, SoundIs, Zenon
  <2>3. r[i] \in PredictedFor(x.id)
    <3>1. PhoenixScores(s) = [k \in DOMAIN s |-> Prediction[Subject(s[k])]]
      BY DEF PhoenixScores, Map
    <3>2. Prediction[Subject(s[i])] \in PredictedFor(x.id)
      BY <1>1, SubjectOfSound
    <3>. QED
      BY <2>1, <2>2, <3>1, <3>2
  <2>4. y = [x EXCEPT !.prediction = r[i]]
    BY <1>11 DEF Update
  <2>. HIDE DEF y
  <2>5. /\ Same(y, x) /\ Told(y, x) /\ Rest(y, x) /\ Seen(y, x) /\ Weighed(y, x)
        /\ y.prediction = r[i]
    BY <1>1, <2>4 DEF Candidate
  <2>6. CoreData(y) = CoreData(x) /\ Visibility(y) = Visibility(x)
    BY <2>5 DEF CoreData, Visibility
  <2>. QED
    BY <1>2, <1>4, <2>3, <2>5, <2>6, SoundIs DEF y
<1>12. CASE c = "Weighted"
  <2>1. r = [k \in DOMAIN s |-> Weigh(s[k].prediction, s[k].long)]
    BY <1>12, ScorersAnswer DEF WeightedScores, Map
  <2>2. s[i].prediction \in PredictedFor(x.id) /\ s[i].long \in BOOLEAN
        /\ (s[i].long => x.id \in Long)
    BY <1>1, SoundIs DEF Candidate
  <2>3. s[i].long \in {FALSE, x.id \in Long}
    BY <2>2
  <2>4. \E z \in PredictedFor(x.id), long \in {FALSE, x.id \in Long} : r[i] = Weigh(z, long)
    BY <2>1, <2>2, <2>3
  <2>5. y = [x EXCEPT !.weighted = r[i]]
    BY <1>12 DEF Update
  <2>. HIDE DEF y
  <2>6. /\ Same(y, x) /\ Told(y, x) /\ Rest(y, x) /\ Seen(y, x) /\ Guessed(y, x)
        /\ y.weighted = r[i]
    BY <1>1, <2>5 DEF Candidate
  <2>7. CoreData(y) = CoreData(x) /\ Visibility(y) = Visibility(x)
    BY <2>6 DEF CoreData, Visibility
  <2>8. \E z \in PredictedFor(y.id), long \in {FALSE, y.id \in Long} : y.weighted = Weigh(z, long)
    BY <2>4, <2>6, Zenon
  <2>9. y.prediction \in PredictedFor(y.id) /\ (y.long => y.id \in Long)
    BY <1>2, <2>6, Zenon
  <2>. QED
    BY <1>2, <1>4, <2>6, <2>7, <2>8, <2>9, SoundIs DEF y
<1>. QED
  BY <1>6, <1>7, <1>8, <1>9, <1>10, <1>11, <1>12 DEF HydratorNames, ScorerNames

\* The components of the feed mix up no posts.
LEMMA FeedKeepsSound == P!SoundContract
<1>1. Sound \subseteq Candidate
  BY Zenon DEF Sound
<1>2. ASSUME NEW c \in P!Components(Sources), NEW r \in P!MayAnswer(c) PROVE r \in Seq(Sound)
  BY NamesAre, MayAnswerIs, SourcesSound
<1>3. ASSUME NEW c \in P!Components(Hydrators) \union P!Components(Scorers)
                         \union P!Components(PostSelectionHydrators),
             NEW q \in Query, NEW s \in Seq(Sound), NEW r \in Outcome(c, q, s) \ Error
      PROVE  P!Suits(c, r, s)
  <2>1. c \in HydratorNames \union ScorerNames
    BY NamesAre
  <2>2. \A i \in DOMAIN s : \A x \in Sound : x.id = s[i].id => Update(c, x, r[i]) \in Sound
    BY <2>1, UpdatesSound
  <2>. QED
    BY <2>2 DEF P!Suits
<1>4. ASSUME NEW c \in P!Components(Filters) \union P!Components(PostSelectionFilters),
             NEW q \in Query, NEW s \in Seq(Sound), NEW r \in Outcome(c, q, s) \ Error
      PROVE  r.kept \in Seq(Sound) /\ r.removed \in Seq(Sound)
  <2>1. c \in FilterNames \union {"VF", "DedupConversation"}
    BY NamesAre
  <2>2. CASE c \in FilterNames \union {"VF"}
    <3>1. s \in Seq(Candidate)
      BY <1>1
    <3>2. PICK I \in SUBSET DOMAIN s :
            /\ Outcome(c, q, s) = {KeepAt(s, I)}
            /\ \A i \in I : Passes(c, q, s[i])
            /\ c = "DropDuplicates" => \A i, j \in I : s[i].id = s[j].id => i = j
            /\ c = "VF" => \A i \in DOMAIN s \ I : s[i].visibility = "drop"
      BY <2>2, <3>1, FilterIs, Zenon
    <3>3. r = KeepAt(s, I)
      BY <3>2
    <3>. QED
      BY <1>1, <3>3, KeepAtFrom
  <2>3. CASE c = "DedupConversation"
    <3>1. r = DedupConversation(s)
      BY <2>3, FiltersAnswer
    <3>. QED
      BY <1>1, <3>1, DedupConversationFrom
  <2>. QED
    BY <2>1, <2>2, <2>3
<1>. QED
  BY <1>1, <1>2, <1>3, <1>4 DEF P!SoundContract

LEMMA SameAligned == Aligned <=> P!Aligned
BY Zenon DEF Aligned, P!Aligned, Pipeline!Aligned

\* No post is shown, ranked or filtered by the core data, video, subscription,
\* visibility, prediction or weighted score of another, however many calls fail
\* and in whatever order the others come back.
THEOREM FeedAligned == Spec => []Aligned
<1>1. P!Spec => []P!Aligned
  BY FeedKeepsContract, FeedKeepsSound, P!PipelineAligns
<1>. QED
  BY <1>1, SameInit, SameNext, SameAligned, PTL DEF Spec, Pipeline!Spec, P!Spec

-----------------------------------------------------------------------------
(* What is known of the candidates at each point of the pipeline. *)

\* The stages after a stage.
Later ==
    [hydrate |-> {"filter", "score", "select", "post_hydrate", "post_filter", "done"},
     filter |-> {"score", "select", "post_hydrate", "post_filter", "done"},
     score |-> {"select", "post_hydrate", "post_filter", "done"},
     select |-> {"post_hydrate", "post_filter", "done"},
     post_hydrate |-> {"post_filter", "done"},
     post_filter |-> {"done"}]

\* At position p of the stage st, the k-th component of the stage x had its turn.
Past(st, p, x, k) == st \in Later[x] \/ (st = x /\ p > k)

\* Of a candidate c; ok says that the visibility service answered.
Known(st, p, q, ok, c) ==
    /\ c.author = AuthorOf[c.id]
    /\ c.text => c.rt = RetweetOf[c.id]
    /\ q.in_network_only => q.features /\ AuthorOf[c.id] \in Followed
    /\ Past(st, p, "hydrate", 1) => c.in_network = InNetwork(q, c)
    /\ \A k \in 1 .. 10 : Past(st, p, "filter", k) /\ Enable(Filters[k], q) => Passes(Filters[k], q, c)
    /\ Past(st, p, "score", 2) => c.weighted \in Nat
    /\ IF Past(st, p, "score", 3) THEN c.score \in Nat ELSE c.score = NoScore
    /\ Past(st, p, "post_hydrate", 1) /\ ok => (c.id \in Violating => c.visibility = "drop")
    /\ Past(st, p, "post_filter", 1) => c.visibility # "drop"

\* The final scores of an author's candidates are in the order of the weighted ones.
InOrder(c, d) ==
    c.author = d.author =>
        /\ c.weighted < d.weighted => c.score < d.score
        /\ d.weighted < c.weighted => d.score < c.score

\* Of two candidates, c before d.
Apart(st, p, c, d) ==
    /\ Past(st, p, "filter", 1) => c.id # d.id
    /\ Past(st, p, "score", 3) => InOrder(c, d)
    /\ st \in Later["select"] => c.score >= d.score
    /\ Past(st, p, "post_filter", 2) => Conversation(c) # Conversation(d)

Good(st, p, q, ok, s) ==
    /\ \A i \in DOMAIN s : Known(st, p, q, ok, s[i])
    /\ \A i, j \in DOMAIN s : i < j => Apart(st, p, s[i], s[j])

\* Of what was filtered: it had no score yet, or was to be dropped, or a better one of
\* its conversation is left.
Explained(st, p, s, f) ==
    \A k \in DOMAIN f :
        \/ f[k].score = NoScore
        \/ f[k].visibility = "drop"
        \/ /\ Past(st, p, "post_filter", 2)
           /\ \E i \in DOMAIN s : Conversation(f[k]) = Conversation(s[i]) /\ f[k].score <= s[i].score

\* Nothing of the above is told apart at the two points.
SameClock(st, p, su, r) ==
    /\ Past(st, p, "hydrate", 1) <=> Past(su, r, "hydrate", 1)
    /\ \A k \in 1 .. 10 : Past(st, p, "filter", k) <=> Past(su, r, "filter", k)
    /\ \A k \in {2, 3} : Past(st, p, "score", k) <=> Past(su, r, "score", k)
    /\ st \in Later["select"] <=> su \in Later["select"]
    /\ Past(st, p, "post_hydrate", 1) <=> Past(su, r, "post_hydrate", 1)
    /\ \A k \in {1, 2} : Past(st, p, "post_filter", k) <=> Past(su, r, "post_filter", k)

LEMMA ClockGood ==
    ASSUME NEW st, NEW p, NEW su, NEW r, SameClock(st, p, su, r), NEW q, NEW ok, NEW s,
           Good(st, p, q, ok, s)
    PROVE  Good(su, r, q, ok, s)
<1>1. ASSUME NEW c, Known(st, p, q, ok, c) PROVE Known(su, r, q, ok, c)
  BY <1>1 DEF SameClock, Known
<1>2. ASSUME NEW c, NEW d, Apart(st, p, c, d) PROVE Apart(su, r, c, d)
  <2>1. 1 \in 1 .. 10
    OBVIOUS
  <2>. QED
    BY <1>2, <2>1 DEF SameClock, Apart
<1>. QED
  BY <1>1, <1>2 DEF Good

LEMMA ThinGood ==
    ASSUME NEW st, NEW p, NEW q, NEW ok, NEW s, NEW t, Good(st, p, q, ok, s), Thin(t, s)
    PROVE  Good(st, p, q, ok, t)
<1>1. PICK f \in [DOMAIN t -> DOMAIN s] :
        /\ \A k, l \in DOMAIN t : k < l => f[k] < f[l]
        /\ \A k \in DOMAIN t : t[k] = s[f[k]]
  BY DEF Thin
<1>2. ASSUME NEW k \in DOMAIN t PROVE Known(st, p, q, ok, t[k])
  BY <1>1 DEF Good
<1>3. ASSUME NEW k \in DOMAIN t, NEW l \in DOMAIN t, k < l PROVE Apart(st, p, t[k], t[l])
  BY <1>1, <1>3 DEF Good
<1>. QED
  BY <1>2, <1>3 DEF Good

LEMMA PassesSame ==
    ASSUME NEW c \in FilterNames, NEW q, NEW x, NEW y, Identity(x, y), Content(x, y),
           y.subscription = x.subscription
    PROVE  Passes(c, q, y) <=> Passes(c, q, x)
<1>1. Related(y) = Related(x)
  BY DEF Related, Content, Identity
<1>. QED
  BY <1>1 DEF Passes, Identity, Content, FilterNames

LEMMA FiltersAre == DOMAIN Filters = 1 .. 10 /\ \A k \in 1 .. 10 : Filters[k] \in FilterNames
<1>1. DOMAIN Filters = 1 .. 10
  BY DEF Filters
<1>2. \A k \in 1 .. 10 : k = 1 \/ k = 2 \/ k = 3 \/ k = 4 \/ k = 5 \/ k = 6 \/ k = 7 \/ k = 8
                          \/ k = 9 \/ k = 10
  OBVIOUS
<1>. QED
  BY <1>1, <1>2 DEF Filters, FilterNames

-----------------------------------------------------------------------------
(* How the components keep it. *)

\* A source's candidates come to those there are.
LEMMA SourceGood ==
    ASSUME NEW p \in Nat, NEW q, NEW ok, NEW s \in Seq(Candidate), Good("source", p, q, ok, s),
           NEW c \in {"Phoenix", "Thunder"}, Enable(c, q),
           NEW r \in Seq(Candidate), \A i \in DOMAIN r : SourcedFrom(c, q, r[i])
    PROVE  Good("source", p + 1, q, ok, s \o r)
<1>1. /\ \A x, k : x \in DOMAIN Later => ~Past("source", p, x, k) /\ ~Past("source", p + 1, x, k)
      /\ "source" \notin Later["select"]
  BY DEF Past, Later
<1>2. ASSUME NEW x, Known("source", p, q, ok, x) PROVE Known("source", p + 1, q, ok, x)
  BY <1>1, <1>2 DEF Known, Later
<1>3. ASSUME NEW i \in DOMAIN r PROVE Known("source", p + 1, q, ok, r[i])
  <2>1. PICK t \in Post, a \in SUBSET Post :
            r[i] = Sourced(t, a) /\ (c = "Thunder" => AuthorOf[t] \in Feature(q, Followed))
    BY DEF SourcedFrom
  <2>2. /\ r[i].id = t /\ r[i].author = AuthorOf[t] /\ r[i].text = FALSE /\ r[i].score = NoScore
    <3>. DEFINE x == Sourced(t, a)
    <3>1. x.id = t /\ x.author = AuthorOf[t] /\ x.text = FALSE /\ x.score = NoScore
      BY SourcedIs
    <3>2. r[i] = x
      BY <2>1
    <3>. QED
      BY <3>1, <3>2, Zenon
  <2>3. q.in_network_only => q.features /\ AuthorOf[t] \in Followed
    <3>1. c = "Phoenix" => ~q.in_network_only
      BY DEF Enable
    <3>2. AuthorOf[t] \in Feature(q, Followed) => q.features /\ AuthorOf[t] \in Followed
      BY DEF Feature
    <3>. QED
      BY <2>1, <3>1, <3>2
  <2>. QED
    BY <1>1, <2>2, <2>3 DEF Known, Later
<1>4. ASSUME NEW i \in DOMAIN (s \o r) PROVE Known("source", p + 1, q, ok, (s \o r)[i])
  <2>1. \/ i \in DOMAIN s /\ (s \o r)[i] = s[i]
        \/ (i - Len(s)) \in DOMAIN r /\ (s \o r)[i] = r[i - Len(s)]
    OBVIOUS
  <2>. QED
    BY <1>2, <1>3, <2>1 DEF Good
<1>5. \A x, y : Apart("source", p + 1, x, y)
  BY <1>1 DEF Apart, Later
<1>. QED
  BY <1>4, <1>5 DEF Good

\* Hydrators do not change what tells two candidates apart before the filters.
LEMMA EarlyApart ==
    ASSUME NEW p
    PROVE  \A x, y : Apart("hydrate", p, x, y)
BY DEF Apart, Past, Later

LEMMA HydrateGood ==
    ASSUME NEW p \in Nat, NEW q, NEW ok, NEW s \in Seq(Candidate), Good("hydrate", p, q, ok, s),
           NEW c \in HydratorNames, NEW t, DOMAIN t = DOMAIN s,
           c # "VFHydrator", p = 1 <=> c = "InNetwork",
           \A i \in DOMAIN s : Identity(s[i], t[i]) /\ Scores(s[i], t[i]),
           c # "InNetwork" => \A i \in DOMAIN s : t[i].in_network = s[i].in_network,
           c = "InNetwork" => \A i \in DOMAIN s : t[i].in_network = InNetwork(q, s[i]),
           c # "CoreData" => \A i \in DOMAIN s : Content(s[i], t[i]),
           c = "CoreData" => \A i \in DOMAIN s : \/ Content(s[i], t[i])
                                                 \/ t[i].text => t[i].rt = RetweetOf[t[i].id]
    PROVE  Good("hydrate", p + 1, q, ok, t)
<1>1. /\ \A k : /\ ~Past("hydrate", p, "filter", k) /\ ~Past("hydrate", p + 1, "filter", k)
                /\ ~Past("hydrate", p, "score", k) /\ ~Past("hydrate", p + 1, "score", k)
                /\ ~Past("hydrate", p + 1, "post_hydrate", k) /\ ~Past("hydrate", p + 1, "post_filter", k)
      /\ p # 1 => (Past("hydrate", p, "hydrate", 1) <=> Past("hydrate", p + 1, "hydrate", 1))
  BY DEF Past, Later
<1>2. ASSUME NEW i \in DOMAIN s PROVE Known("hydrate", p + 1, q, ok, t[i])
  <2>1. Known("hydrate", p, q, ok, s[i])
    BY DEF Good
  <2>2. t[i].author = AuthorOf[t[i].id]
    BY <2>1 DEF Known, Identity
  <2>3. t[i].text => t[i].rt = RetweetOf[t[i].id]
    BY <2>1 DEF Known, Identity, Content
  <2>4. q.in_network_only => q.features /\ AuthorOf[t[i].id] \in Followed
    BY <2>1 DEF Known, Identity
  <2>5. InNetwork(q, t[i]) = InNetwork(q, s[i])
    BY DEF InNetwork, Identity
  <2>6. Past("hydrate", p + 1, "hydrate", 1) => t[i].in_network = InNetwork(q, t[i])
    BY <1>1, <2>1, <2>5 DEF Known
  <2>7. t[i].score = NoScore
    BY <1>1, <2>1 DEF Known, Scores
  <2>. QED
    BY <1>1, <2>2, <2>3, <2>4, <2>6, <2>7 DEF Known
<1>. QED
  BY <1>2, EarlyApart DEF Good

\* A filter leaves candidates that passed it.
LEMMA FilterGood ==
    ASSUME NEW p \in 1 .. 10, NEW q, NEW ok, NEW s \in Seq(Candidate), Good("filter", p, q, ok, s),
           NEW r \in Outcome(Filters[p], q, s)
    PROVE  Good("filter", p + 1, q, ok, r.kept) /\ \A k \in DOMAIN r.removed : r.removed[k].score = NoScore
<1>. DEFINE c == Filters[p]
<1>1. c \in FilterNames
  BY FiltersAre
<1>2. PICK I \in SUBSET DOMAIN s :
        /\ Outcome(c, q, s) = {KeepAt(s, I)}
        /\ \A i \in I : Passes(c, q, s[i])
        /\ c = "DropDuplicates" => \A i, j \in I : s[i].id = s[j].id => i = j
  <2>1. \E I \in SUBSET DOMAIN s :
          /\ Outcome(c, q, s) = {KeepAt(s, I)}
          /\ \A i \in I : Passes(c, q, s[i])
          /\ c = "DropDuplicates" => \A i, j \in I : s[i].id = s[j].id => i = j
          /\ c = "VF" => \A i \in DOMAIN s \ I : s[i].visibility = "drop"
    <3>. HIDE DEF c
    <3>. QED
      BY <1>1, FilterIs, Zenon
  <2>. HIDE DEF c
  <2>. QED
    BY <2>1, Zenon
<1>. DEFINE t == At(s, I)
            u == At(s, DOMAIN s \ I)
<1>3. r.kept = t /\ r.removed = u
  <2>1. r = KeepAt(s, I)
    BY <1>2
  <2>. QED
    BY <2>1 DEF KeepAt
<1>4. Thin(t, s) /\ \A k \in DOMAIN t : \E i \in I : t[k] = s[i]
  BY AtThins
<1>5. \A k \in DOMAIN u : \E i \in DOMAIN s : u[k] = s[i]
  <2>1. DOMAIN s \ I \in SUBSET DOMAIN s
    OBVIOUS
  <2>. QED
    BY <2>1, AtThins
<1>6. p = 1 <=> c = "DropDuplicates"
  BY DEF Filters
<1>7. /\ \A k : /\ ~Past("filter", p, "score", k) /\ ~Past("filter", p + 1, "score", k)
                /\ ~Past("filter", p + 1, "post_hydrate", k) /\ ~Past("filter", p + 1, "post_filter", k)
                /\ Past("filter", p, "hydrate", k) /\ Past("filter", p + 1, "hydrate", k)
      /\ \A k \in 1 .. 10 : Past("filter", p + 1, "filter", k) <=> Past("filter", p, "filter", k) \/ k = p
      /\ "filter" \notin Later["select"]
  BY DEF Past, Later
<1>. HIDE DEF c, t, u
<1>8. Good("filter", p, q, ok, t)
  BY <1>4, ThinGood
<1>9. ASSUME NEW k \in DOMAIN t PROVE Known("filter", p + 1, q, ok, t[k])
  <2>1. Known("filter", p, q, ok, t[k])
    BY <1>8 DEF Good
  <2>2. Passes(c, q, t[k])
    BY <1>2, <1>4
  <2>3. \A j \in 1 .. 10 : Past("filter", p + 1, "filter", j) /\ Enable(Filters[j], q)
                              => Passes(Filters[j], q, t[k])
    BY <1>7, <2>1, <2>2 DEF Known, c
  <2>. QED
    BY <1>7, <2>1, <2>3 DEF Known
<1>10. ASSUME NEW k \in DOMAIN t, NEW l \in DOMAIN t, k < l PROVE Apart("filter", p + 1, t[k], t[l])
  <2>1. Apart("filter", p, t[k], t[l])
    BY <1>8, <1>10 DEF Good
  <2>2. Past("filter", p + 1, "filter", 1) => t[k].id # t[l].id
    <3>1. CASE p = 1
      <4>1. PICK f \in [1 .. Cardinality(I) -> I] :
              /\ \A m, n \in 1 .. Cardinality(I) : m < n => f[m] < f[n]
              /\ \A m \in 1 .. Cardinality(I) : t[m] = s[f[m]]
        BY AtIs DEF t
      <4>2. DOMAIN t = 1 .. Cardinality(I)
        BY AtIs DEF t
      <4>3. f[k] < f[l] /\ f[k] \in I /\ f[l] \in I /\ f[k] \in Int
        BY <1>10, <4>1, <4>2, FiniteIndices
      <4>. QED
        BY <1>2, <1>6, <3>1, <4>1, <4>2, <4>3
    <3>2. CASE p # 1
      BY <1>7, <2>1, <3>2 DEF Apart
    <3>. QED
      BY <3>1, <3>2
  <2>. QED
    BY <1>7, <2>2 DEF Apart
<1>11. ASSUME NEW k \in DOMAIN u PROVE u[k].score = NoScore
  BY <1>5, <1>7 DEF Good, Known
<1>. QED
  BY <1>3, <1>9, <1>10, <1>11 DEF Good

\* A smaller number times a factor that is not greater is smaller.
LEMMA TimesLess ==
    ASSUME NEW a \in Nat, NEW b \in Nat, NEW f \in Nat \ {0}, NEW g \in Nat \ {0}, a < b, f <= g
    PROVE  a * f < b * g /\ a * f \in Nat
<1>1. a * f <= a * g
  OBVIOUS
<1>2. a * g < b * g
  OBVIOUS
<1>3. a * f \in Nat /\ a * g \in Nat /\ b * g \in Nat
  OBVIOUS
<1>. QED
  BY <1>1, <1>2, <1>3

LEMMA FactorFalls ==
    ASSUME NEW m \in Nat, NEW n \in Nat, m <= n
    PROVE  Factor(n) <= Factor(m)
<1>. DEFINE l == Len(Multiplier)
            At0(k) == IF k < l THEN k + 1 ELSE l
<1>1. /\ Multiplier \in Seq(Nat \ {0}) /\ Multiplier # <<>>
      /\ \A i, j \in DOMAIN Multiplier : i <= j => Multiplier[i] >= Multiplier[j]
  BY HomeMixerAssumption
<1>2. l \in Nat \ {0} /\ DOMAIN Multiplier = 1 .. l
  BY <1>1
<1>. HIDE DEF l
<1>3. At0(m) \in 1 .. l /\ At0(n) \in 1 .. l /\ At0(m) <= At0(n)
  BY <1>2
<1>. HIDE DEF At0
<1>4. Multiplier[At0(m)] >= Multiplier[At0(n)]
  BY <1>1, <1>2, <1>3
<1>5. Factor(m) = Multiplier[At0(m)] /\ Factor(n) = Multiplier[At0(n)]
  BY DEF Factor, At0, l
<1>6. Factor(m) \in Nat \ {0} /\ Factor(n) \in Nat \ {0}
  BY FactorNat
<1>. QED
  BY <1>4, <1>5, <1>6

\* The better of two candidates of an author has no higher position.
LEMMA PositionFalls ==
    ASSUME NEW s \in Seq(Candidate), NEW i \in DOMAIN s, NEW j \in DOMAIN s,
           s[i].author = s[j].author, s[i].weighted < s[j].weighted
    PROVE  Position(s, j) <= Position(s, i)
<1>. DEFINE B(m) == {k \in DOMAIN s : s[k].author = s[m].author /\
                      (s[k].weighted > s[m].weighted \/ (s[k].weighted = s[m].weighted /\ k < m))}
<1>1. \A k \in DOMAIN s : s[k].weighted \in Int
  <2>1. \A k \in DOMAIN s : s[k] \in Candidate
    OBVIOUS
  <2>2. \A x \in Candidate : x.weighted \in Int
    BY DEF Candidate
  <2>. QED
    BY <2>1, <2>2
<1>2. B(j) \in SUBSET B(i)
  BY <1>1
<1>3. B(i) \in SUBSET DOMAIN s
  OBVIOUS
<1>. HIDE DEF B
<1>4. Cardinality(B(j)) <= Cardinality(B(i))
  BY <1>2, <1>3, FiniteIndices, FS_Subset
<1>. QED
  BY <1>4 DEF Position, B

LEMMA DiversityOrders ==
    ASSUME NEW s \in Seq(Candidate), \A k \in DOMAIN s : s[k].weighted \in Nat, NEW i \in DOMAIN s
    PROVE  /\ AuthorDiversity(s)[i] \in Nat
           /\ \A j \in DOMAIN s : s[i].author = s[j].author /\ s[i].weighted < s[j].weighted
                                    => AuthorDiversity(s)[i] < AuthorDiversity(s)[j]
<1>1. ASSUME NEW k \in DOMAIN s
      PROVE  /\ AuthorDiversity(s)[k] = s[k].weighted * Factor(Position(s, k))
             /\ Position(s, k) \in Nat /\ Factor(Position(s, k)) \in Nat \ {0}
             /\ s[k].weighted \in Nat /\ AuthorDiversity(s)[k] \in Nat
  <2>1. s[k].weighted \in Nat /\ s[k].weighted # NoScore
    BY DEF NoScore
  <2>2. AuthorDiversity(s)[k] = s[k].weighted * Factor(Position(s, k))
    BY <2>1 DEF AuthorDiversity
  <2>3. Position(s, k) \in Nat
    BY PositionNat
  <2>4. Factor(Position(s, k)) \in Nat \ {0}
    BY <2>3, FactorNat
  <2>5. s[k].weighted * Factor(Position(s, k)) \in Nat
    <3>1. \A a \in Nat, b \in Nat \ {0} : a * b \in Nat
      OBVIOUS
    <3>. QED
      BY <2>1, <2>4, <3>1
  <2>. QED
    BY <2>1, <2>2, <2>3, <2>4, <2>5
<1>2. ASSUME NEW j \in DOMAIN s, s[i].author = s[j].author, s[i].weighted < s[j].weighted
      PROVE  AuthorDiversity(s)[i] < AuthorDiversity(s)[j]
  <2>1. Position(s, j) <= Position(s, i)
    BY <1>2, PositionFalls
  <2>2. Factor(Position(s, i)) <= Factor(Position(s, j))
    BY <1>1, <2>1, FactorFalls
  <2>3. s[i].weighted * Factor(Position(s, i)) < s[j].weighted * Factor(Position(s, j))
    BY <1>1, <1>2, <2>2, TimesLess
  <2>. QED
    BY <1>1, <2>3
<1>. QED
  BY <1>1, <1>2

LEMMA OONOrders ==
    ASSUME NEW q, NEW s \in Seq(Candidate), \A k \in DOMAIN s : s[k].score \in Nat,
           \A k \in DOMAIN s : s[k].in_network = InNetwork(q, s[k]), NEW i \in DOMAIN s
    PROVE  /\ OON(s)[i] \in Nat
           /\ \A j \in DOMAIN s : s[i].author = s[j].author /\ s[i].score < s[j].score
                                    => OON(s)[i] < OON(s)[j]
<1>. DEFINE F(x) == IF x.in_network = "false" THEN OonFactor ELSE InFactor
<1>1. \A x : F(x) \in Nat \ {0}
  BY HomeMixerAssumption
<1>2. ASSUME NEW k \in DOMAIN s
      PROVE  OON(s)[k] = s[k].score * F(s[k]) /\ OON(s)[k] \in Nat
  <2>1. s[k].score \in Nat /\ s[k].score # NoScore
    BY DEF NoScore
  <2>2. OON(s)[k] = s[k].score * F(s[k])
    BY <2>1 DEF OON, Map
  <2>. HIDE DEF F
  <2>3. \A a \in Nat, b \in Nat \ {0} : a * b \in Nat
    OBVIOUS
  <2>. QED
    BY <1>1, <2>1, <2>2, <2>3
<1>3. ASSUME NEW j \in DOMAIN s, s[i].author = s[j].author, s[i].score < s[j].score
      PROVE  OON(s)[i] < OON(s)[j]
  <2>1. F(s[i]) = F(s[j])
    BY <1>3 DEF InNetwork
  <2>. HIDE DEF F
  <2>2. F(s[i]) <= F(s[j])
    BY <1>1, <2>1
  <2>3. s[i].score \in Nat /\ s[j].score \in Nat
    OBVIOUS
  <2>4. s[i].score * F(s[i]) < s[j].score * F(s[j])
    BY <1>1, <1>3, <2>2, <2>3, TimesLess
  <2>. QED
    BY <1>2, <2>4
<1>. QED
  BY <1>2, <1>3

\* Scorers change the scores only.
LEMMA ScorersUpdate ==
    ASSUME NEW p \in 1 .. 4, NEW q, NEW s \in Seq(Candidate), NEW r \in Outcome(Scorers[p], q, s)
    PROVE  /\ r \in Seq(Int) /\ DOMAIN r = DOMAIN s
           /\ \A i \in DOMAIN s :
                LET x == s[i]  y == Update(Scorers[p], s[i], r[i])
                IN  /\ Identity(x, y) /\ Content(x, y) /\ Marks(x, y) /\ y.visibility = x.visibility
                    /\ IF p = 2 THEN y.weighted \in Nat ELSE y.weighted = x.weighted
                    /\ p <= 2 => y.score = x.score
                    /\ p = 3 => r = AuthorDiversity(s) /\ y.score = r[i]
                    /\ p = 4 => r = OON(s) /\ y.score = r[i]
<1>. DEFINE c == Scorers[p]
            y(i) == Update(c, s[i], r[i])
<1>1. DOMAIN s = 1 .. Len(s) /\ Len(s) \in Nat /\ \A i \in DOMAIN s : s[i] \in Candidate
  OBVIOUS
<1>2. \/ p = 1 /\ c = "PhoenixScorer"
      \/ p = 2 /\ c = "Weighted"
      \/ p = 3 /\ c = "AuthorDiversity"
      \/ p = 4 /\ c = "OON"
  <2>1. p = 1 \/ p = 2 \/ p = 3 \/ p = 4
    OBVIOUS
  <2>. QED
    BY <2>1 DEF Scorers
<1>. HIDE DEF c
<1>3. CASE p = 1
  <2>1. r = [k \in DOMAIN s |-> s[k].prediction] \/ r = PhoenixScores(s)
    BY <1>2, <1>3, ScorersAnswer DEF c
  <2>2. \A i \in DOMAIN s : s[i].prediction \in Predicted
    BY <1>1 DEF Candidate
  <2>3. r \in [DOMAIN s -> Predicted]
    BY <2>1, <2>2, ScoresAre
  <2>4. Predicted \subseteq Int
    BY HomeMixerAssumption DEF Predicted
  <2>5. r \in Seq(Int) /\ DOMAIN r = DOMAIN s
    <3>1. r \in [1 .. Len(s) -> Int]
      BY <1>1, <2>3, <2>4
    <3>. QED
      BY <1>1, <3>1
  <2>6. ASSUME NEW i \in DOMAIN s
        PROVE  /\ Identity(s[i], y(i)) /\ Content(s[i], y(i)) /\ Marks(s[i], y(i))
               /\ Scores(s[i], y(i)) /\ y(i).visibility = s[i].visibility
    <3>1. r[i] \in Predicted /\ s[i] \in Candidate /\ c = "PhoenixScorer"
      BY <1>1, <1>2, <1>3, <2>3
    <3>. QED
      BY <3>1, UpdatePhoenixScorer
  <2>. HIDE DEF y
  <2>. QED
    BY <1>3, <2>5, <2>6 DEF Scores, y, c
<1>4. CASE p = 2
  <2>1. r = WeightedScores(s)
    BY <1>2, <1>4, ScorersAnswer DEF c
  <2>2. r \in [DOMAIN s -> Nat]
    BY <2>1, ScoresAre
  <2>3. r \in Seq(Int) /\ DOMAIN r = DOMAIN s
    BY <1>1, <2>2
  <2>4. ASSUME NEW i \in DOMAIN s
        PROVE  /\ Identity(s[i], y(i)) /\ Content(s[i], y(i)) /\ Marks(s[i], y(i))
               /\ y(i).weighted \in Nat /\ y(i).score = s[i].score
               /\ y(i).visibility = s[i].visibility
    <3>1. r[i] \in Nat /\ r[i] \in Int /\ s[i] \in Candidate /\ c = "Weighted"
      BY <1>1, <1>2, <1>4, <2>2
    <3>. DEFINE z == Update("Weighted", s[i], r[i])
    <3>2. /\ Identity(s[i], z) /\ Content(s[i], z) /\ Marks(s[i], z)
          /\ z.weighted = r[i] /\ z.score = s[i].score /\ z.visibility = s[i].visibility
      BY <3>1, UpdateWeighted
    <3>3. y(i) = z
      BY <3>1
    <3>. HIDE DEF y, z
    <3>. QED
      BY <3>1, <3>2, <3>3
  <2>. HIDE DEF y
  <2>. QED
    BY <1>4, <2>3, <2>4 DEF y, c
<1>5. CASE p \in {3, 4}
  <2>1. (p = 3 => r = AuthorDiversity(s)) /\ (p = 4 => r = OON(s))
    BY <1>2, <1>5, ScorersAnswer DEF c
  <2>2. r \in [DOMAIN s -> Int]
    BY <1>5, <2>1, ScoresAre
  <2>3. r \in Seq(Int) /\ DOMAIN r = DOMAIN s
    BY <1>1, <2>2
  <2>4. ASSUME NEW i \in DOMAIN s
        PROVE  /\ Identity(s[i], y(i)) /\ Content(s[i], y(i)) /\ Marks(s[i], y(i))
               /\ y(i).weighted = s[i].weighted /\ y(i).score = r[i]
               /\ y(i).visibility = s[i].visibility
    <3>1. r[i] \in Int /\ s[i] \in Candidate /\ c \in {"AuthorDiversity", "OON"}
      BY <1>1, <1>2, <1>5, <2>2
    <3>2. CASE c = "AuthorDiversity"
      BY <3>1, <3>2, UpdateAuthorDiversity DEF Scores
    <3>3. CASE c = "OON"
      BY <3>1, <3>3, UpdateOON DEF Scores
    <3>. QED
      BY <3>1, <3>2, <3>3
  <2>. HIDE DEF y
  <2>. QED
    BY <1>5, <2>1, <2>3, <2>4 DEF y, c
<1>6. p \in {1, 2, 3, 4}
  OBVIOUS
<1>. QED
  BY <1>3, <1>4, <1>5, <1>6

LEMMA ScoreGood ==
    ASSUME NEW p \in 1 .. 4, NEW q, NEW ok, NEW s \in Seq(Candidate), Good("score", p, q, ok, s),
           NEW r \in Outcome(Scorers[p], q, s), NEW t, DOMAIN t = DOMAIN s,
           \A i \in DOMAIN s : t[i] = Update(Scorers[p], s[i], r[i])
    PROVE  Good("score", p + 1, q, ok, t)
<1>1. ASSUME NEW i \in DOMAIN s
      PROVE  /\ Identity(s[i], t[i]) /\ Content(s[i], t[i]) /\ Marks(s[i], t[i])
             /\ t[i].visibility = s[i].visibility
             /\ IF p = 2 THEN t[i].weighted \in Nat ELSE t[i].weighted = s[i].weighted
             /\ p <= 2 => t[i].score = s[i].score
             /\ p = 3 => t[i].score = AuthorDiversity(s)[i]
             /\ p = 4 => t[i].score = OON(s)[i]
  BY ScorersUpdate
<1>2. /\ \A k : /\ ~Past("score", p + 1, "post_hydrate", k) /\ ~Past("score", p + 1, "post_filter", k)
                /\ Past("score", p, "hydrate", k) /\ Past("score", p, "filter", k)
                /\ Past("score", p + 1, "filter", k)
      /\ \A n \in 1 .. 5 : /\ Past("score", n, "score", 2) <=> n > 2
                           /\ Past("score", n, "score", 3) <=> n > 3
      /\ "score" \notin Later["select"]
  BY DEF Past, Later
<1>3. \A k \in DOMAIN s : Known("score", p, q, ok, s[k])
  BY DEF Good
<1>4. /\ \A k \in DOMAIN s : /\ s[k].in_network = InNetwork(q, s[k])
                             /\ p > 2 => s[k].weighted \in Nat
                             /\ IF p > 3 THEN s[k].score \in Nat ELSE s[k].score = NoScore
  BY <1>2, <1>3 DEF Known
<1>5. ASSUME NEW i \in DOMAIN s
      PROVE  IF p > 2 THEN t[i].score \in Nat ELSE t[i].score = NoScore
  <2>1. CASE p <= 2
    BY <1>1, <1>4, <2>1
  <2>2. CASE p = 3
    <3>1. AuthorDiversity(s)[i] \in Nat
      BY <1>4, <2>2, DiversityOrders
    <3>. QED
      BY <1>1, <2>2, <3>1
  <2>3. CASE p = 4
    <3>1. OON(s)[i] \in Nat
      <4>1. /\ \A k \in DOMAIN s : s[k].score \in Nat
            /\ \A k \in DOMAIN s : s[k].in_network = InNetwork(q, s[k])
        BY <1>4, <2>3
      <4>. QED
        BY <4>1, OONOrders
    <3>. QED
      BY <1>1, <2>3, <3>1
  <2>. QED
    BY <2>1, <2>2, <2>3
<1>6. ASSUME NEW i \in DOMAIN s PROVE Known("score", p + 1, q, ok, t[i])
  <2>1. Known("score", p, q, ok, s[i])
    BY <1>3
  <2>2. /\ t[i].author = AuthorOf[t[i].id]
        /\ t[i].text => t[i].rt = RetweetOf[t[i].id]
        /\ q.in_network_only => q.features /\ AuthorOf[t[i].id] \in Followed
    BY <1>1, <2>1 DEF Known, Identity, Content
  <2>3. t[i].in_network = InNetwork(q, t[i])
    BY <1>1, <1>4 DEF Identity, Marks, InNetwork
  <2>4. \A k \in 1 .. 10 : Enable(Filters[k], q) => Passes(Filters[k], q, t[i])
    <3>1. ASSUME NEW k \in 1 .. 10, Enable(Filters[k], q) PROVE Passes(Filters[k], q, t[i])
      <4>1. Passes(Filters[k], q, s[i])
        BY <1>2, <2>1, <3>1 DEF Known
      <4>. QED
        BY <1>1, <4>1, FiltersAre, PassesSame DEF Marks
    <3>. QED
      BY <3>1
  <2>5. p > 1 => t[i].weighted \in Nat
    BY <1>1, <1>4
  <2>6. /\ Past("score", p + 1, "score", 2) <=> p > 1
        /\ Past("score", p + 1, "score", 3) <=> p > 2
    BY DEF Past, Later
  <2>7. /\ ~Past("score", p + 1, "post_hydrate", 1) /\ ~Past("score", p + 1, "post_filter", 1)
        /\ IF p > 2 THEN t[i].score \in Nat ELSE t[i].score = NoScore
    BY <1>2, <1>5
  <2>8. /\ IF Past("score", p + 1, "score", 3) THEN t[i].score \in Nat ELSE t[i].score = NoScore
        /\ Past("score", p + 1, "score", 2) => t[i].weighted \in Nat
    BY <2>5, <2>6, <2>7
  <2>. QED
    BY <2>2, <2>3, <2>4, <2>7, <2>8, Zenon DEF Known
<1>7. ASSUME NEW i \in DOMAIN s, NEW j \in DOMAIN s, i < j PROVE Apart("score", p + 1, t[i], t[j])
  <2>1. Apart("score", p, s[i], s[j])
    BY <1>7 DEF Good
  <2>2. t[i].id # t[j].id
    BY <1>1, <1>2, <2>1 DEF Apart, Identity
  <2>3. p > 2 => InOrder(t[i], t[j])
    <3>0. p > 2 => /\ t[i].weighted = s[i].weighted /\ t[j].weighted = s[j].weighted
                   /\ t[i].author = s[i].author /\ t[j].author = s[j].author
      BY <1>1 DEF Identity
    <3>1. CASE p = 3
      <4>1. /\ s[i].author = s[j].author /\ s[i].weighted < s[j].weighted
                => AuthorDiversity(s)[i] < AuthorDiversity(s)[j]
            /\ s[i].author = s[j].author /\ s[j].weighted < s[i].weighted
                => AuthorDiversity(s)[j] < AuthorDiversity(s)[i]
        BY <1>4, <3>1, DiversityOrders
      <4>. QED
        BY <1>1, <3>0, <3>1, <4>1 DEF InOrder
    <3>2. CASE p = 4
      <4>1. /\ s[i].author = s[j].author /\ s[i].score < s[j].score => OON(s)[i] < OON(s)[j]
            /\ s[i].author = s[j].author /\ s[j].score < s[i].score => OON(s)[j] < OON(s)[i]
        <5>1. /\ \A k \in DOMAIN s : s[k].score \in Nat
              /\ \A k \in DOMAIN s : s[k].in_network = InNetwork(q, s[k])
          BY <1>4, <3>2
        <5>. QED
          BY <5>1, OONOrders
      <4>2. InOrder(s[i], s[j])
        BY <1>2, <2>1, <3>2 DEF Apart
      <4>. QED
        BY <1>1, <3>0, <3>2, <4>1, <4>2 DEF InOrder
    <3>. QED
      BY <3>1, <3>2
  <2>4. p + 1 \in 1 .. 5
    OBVIOUS
  <2>. QED
    BY <1>2, <2>2, <2>3, <2>4 DEF Apart
<1>. QED
  BY <1>6, <1>7 DEF Good

\* The selection brings the candidates into the order of their scores.
LEMMA SelectGood ==
    ASSUME NEW p, NEW q, NEW ok, NEW s \in Seq(Candidate), Good("select", p, q, ok, s),
           NEW f \in P!Orders(s)
    PROVE  Good("post_hydrate", 1, q, ok, P!Selected(s, f))
<1>. DEFINE u == [k \in DOMAIN s |-> s[f[k]]]
            t == P!Selected(s, f)
            Before(i, j) == s[i].score > s[j].score \/ (s[i].score = s[j].score /\ i < j)
<1>1. /\ f \in [DOMAIN s -> DOMAIN s]
      /\ \A k, l \in DOMAIN s : k < l => Before(f[k], f[l])
  BY Zenon DEF P!Orders
<1>2. DOMAIN s = 1 .. Len(s) /\ Len(s) \in Nat /\ \A i \in DOMAIN s : s[i] \in Candidate
  OBVIOUS
<1>3. \A i \in DOMAIN s : s[i].score \in Int /\ i \in Int
  BY <1>2 DEF Candidate
<1>4. \A k, l \in DOMAIN s : k < l => f[k] # f[l] /\ s[f[k]].score >= s[f[l]].score
  BY <1>1, <1>3
<1>5. /\ DOMAIN t \subseteq DOMAIN s
      /\ \A k \in DOMAIN t : k \in DOMAIN s /\ t[k] = s[f[k]]
  <2>1. u \in Seq(Candidate) /\ DOMAIN u = DOMAIN s /\ Len(u) = Len(s)
    <3>1. u \in [1 .. Len(s) -> Candidate]
      BY <1>1, <1>2
    <3>. QED
      BY <1>2, <3>1
  <2>2. \A k \in DOMAIN s : u[k] = s[f[k]]
    OBVIOUS
  <2>3. t = P!Truncate(u, TopK)
    BY DEF P!Selected
  <2>4. TopK \in Nat
    BY HomeMixerAssumption
  <2>. HIDE DEF u, t
  <2>5. DOMAIN t \subseteq DOMAIN u /\ \A k \in DOMAIN t : t[k] = u[k]
    BY <2>1, <2>3, <2>4 DEF P!Truncate
  <2>. QED
    BY <2>1, <2>2, <2>5
<1>6. /\ \A k : /\ ~Past("post_hydrate", 1, "post_filter", k)
                /\ Past("post_hydrate", 1, "hydrate", k) /\ Past("select", p, "hydrate", k)
                /\ Past("post_hydrate", 1, "filter", k) /\ Past("select", p, "filter", k)
                /\ Past("post_hydrate", 1, "score", k) /\ Past("select", p, "score", k)
      /\ ~Past("post_hydrate", 1, "post_hydrate", 1)
  BY DEF Past, Later
<1>. HIDE DEF t
<1>7. ASSUME NEW k \in DOMAIN t PROVE Known("post_hydrate", 1, q, ok, t[k])
  <2>1. Known("select", p, q, ok, s[f[k]])
    BY <1>1, <1>5 DEF Good
  <2>2. t[k] = s[f[k]]
    BY <1>5
  <2>. QED
    BY <1>6, <2>1, <2>2 DEF Known
<1>8. ASSUME NEW k \in DOMAIN t, NEW l \in DOMAIN t, k < l
      PROVE  Apart("post_hydrate", 1, t[k], t[l])
  <2>1. /\ f[k] \in DOMAIN s /\ f[l] \in DOMAIN s /\ f[k] # f[l]
        /\ t[k] = s[f[k]] /\ t[l] = s[f[l]] /\ t[k].score >= t[l].score
    BY <1>1, <1>4, <1>5, <1>8
  <2>2. f[k] < f[l] \/ f[l] < f[k]
    BY <1>3, <2>1
  <2>3. Apart("select", p, t[k], t[l]) \/ Apart("select", p, t[l], t[k])
    BY <2>1, <2>2 DEF Good
  <2>4. t[k].id # t[l].id /\ InOrder(t[k], t[l])
    BY <1>6, <2>3 DEF Apart, InOrder
  <2>. QED
    BY <1>6, <2>1, <2>4 DEF Apart
<1>. QED
  BY <1>7, <1>8 DEF Good, t

\* The visibility hydrator changes the visibility only.
LEMMA VisibilityGood ==
    ASSUME NEW q, NEW ok, NEW s \in Seq(Candidate), Good("post_hydrate", 1, q, ok, s),
           NEW t, DOMAIN t = DOMAIN s,
           \A i \in DOMAIN s : /\ Identity(s[i], t[i]) /\ Content(s[i], t[i]) /\ Marks(s[i], t[i])
                               /\ Scores(s[i], t[i]),
           ok => \A i \in DOMAIN s : t[i].visibility = Visibility(s[i])
    PROVE  Good("post_hydrate", 2, q, ok, t)
<1>1. \A k : /\ ~Past("post_hydrate", 2, "post_filter", k) /\ ~Past("post_hydrate", 1, "post_filter", k)
             /\ Past("post_hydrate", 1, "hydrate", k)
             /\ Past("post_hydrate", 1, "filter", k) /\ Past("post_hydrate", 2, "filter", k)
             /\ Past("post_hydrate", 1, "score", k) /\ Past("post_hydrate", 2, "score", k)
  BY DEF Past, Later
<1>2. "post_hydrate" \in Later["select"]
  BY DEF Later
<1>3. ASSUME NEW i \in DOMAIN s PROVE Known("post_hydrate", 2, q, ok, t[i])
  <2>1. Known("post_hydrate", 1, q, ok, s[i])
    BY DEF Good
  <2>2. /\ t[i].author = AuthorOf[t[i].id]
        /\ t[i].text => t[i].rt = RetweetOf[t[i].id]
        /\ q.in_network_only => q.features /\ AuthorOf[t[i].id] \in Followed
    BY <2>1 DEF Known, Identity, Content
  <2>3. t[i].in_network = InNetwork(q, t[i])
    BY <1>1, <2>1 DEF Known, Identity, Marks, InNetwork
  <2>4. \A k \in 1 .. 10 : Enable(Filters[k], q) => Passes(Filters[k], q, t[i])
    <3>1. ASSUME NEW k \in 1 .. 10, Enable(Filters[k], q) PROVE Passes(Filters[k], q, t[i])
      <4>1. Passes(Filters[k], q, s[i])
        BY <1>1, <2>1, <3>1 DEF Known
      <4>. QED
        BY <4>1, FiltersAre, PassesSame DEF Marks
    <3>. QED
      BY <3>1
  <2>5. t[i].weighted \in Nat /\ t[i].score \in Nat
    BY <1>1, <2>1 DEF Known, Scores
  <2>6. ok => (t[i].id \in Violating => t[i].visibility = "drop")
    BY DEF Visibility, Identity
  <2>. QED
    BY <1>1, <2>2, <2>3, <2>4, <2>5, <2>6, Zenon DEF Known
<1>4. ASSUME NEW i \in DOMAIN s, NEW j \in DOMAIN s, i < j PROVE Apart("post_hydrate", 2, t[i], t[j])
  <2>1. Apart("post_hydrate", 1, s[i], s[j])
    BY <1>4 DEF Good
  <2>. QED
    BY <1>1, <1>2, <2>1 DEF Apart, InOrder, Identity, Scores
<1>. QED
  BY <1>3, <1>4 DEF Good

LEMMA VFGood ==
    ASSUME NEW q, NEW ok, NEW s \in Seq(Candidate), Good("post_filter", 1, q, ok, s),
           NEW r \in Outcome("VF", q, s)
    PROVE  /\ Good("post_filter", 2, q, ok, r.kept)
           /\ \A k \in DOMAIN r.removed : r.removed[k].visibility = "drop"
<1>1. PICK I \in SUBSET DOMAIN s :
        /\ Outcome("VF", q, s) = {KeepAt(s, I)}
        /\ \A i \in I : Passes("VF", q, s[i])
        /\ \A i \in DOMAIN s \ I : s[i].visibility = "drop"
  <2>1. "VF" \in FilterNames \union {"VF"}
    OBVIOUS
  <2>. QED
    BY <2>1, FilterIs
<1>. DEFINE t == At(s, I)
            u == At(s, DOMAIN s \ I)
<1>2. r.kept = t /\ r.removed = u
  <2>1. r = KeepAt(s, I)
    BY <1>1
  <2>. QED
    BY <2>1 DEF KeepAt
<1>3. Thin(t, s) /\ \A k \in DOMAIN t : \E i \in I : t[k] = s[i]
  BY AtThins
<1>4. \A k \in DOMAIN u : \E i \in DOMAIN s \ I : u[k] = s[i]
  <2>1. DOMAIN s \ I \in SUBSET DOMAIN s
    OBVIOUS
  <2>. QED
    BY <2>1, AtThins
<1>. HIDE DEF t, u
<1>5. Good("post_filter", 1, q, ok, t)
  BY <1>3, ThinGood
<1>6. \A k \in DOMAIN t : t[k].visibility # "drop"
  BY <1>1, <1>3 DEF Passes
<1>7. /\ \A k : /\ Past("post_filter", 1, "hydrate", k) /\ Past("post_filter", 1, "filter", k)
                /\ Past("post_filter", 1, "score", k) /\ Past("post_filter", 1, "post_hydrate", k)
                /\ Past("post_filter", 2, "hydrate", k) /\ Past("post_filter", 2, "filter", k)
                /\ Past("post_filter", 2, "score", k) /\ Past("post_filter", 2, "post_hydrate", k)
      /\ ~Past("post_filter", 2, "post_filter", 2)
  BY DEF Past, Later
<1>8. ASSUME NEW k \in DOMAIN t PROVE Known("post_filter", 2, q, ok, t[k])
  <2>1. Known("post_filter", 1, q, ok, t[k])
    BY <1>5 DEF Good
  <2>. QED
    BY <1>6, <1>7, <2>1 DEF Known
<1>9. ASSUME NEW k \in DOMAIN t, NEW l \in DOMAIN t, k < l PROVE Apart("post_filter", 2, t[k], t[l])
  <2>1. Apart("post_filter", 1, t[k], t[l])
    BY <1>5, <1>9 DEF Good
  <2>. QED
    BY <1>7, <2>1 DEF Apart
<1>. QED
  BY <1>1, <1>2, <1>4, <1>8, <1>9 DEF Good

\* In the descending order the conversation filter keeps the best of each conversation.
LEMMA ConversationsGood ==
    ASSUME NEW q, NEW ok, NEW s \in Seq(Candidate), Good("post_filter", 2, q, ok, s),
           NEW r \in Outcome("DedupConversation", q, s)
    PROVE  /\ Good("post_filter", 3, q, ok, r.kept)
           /\ \A m \in DOMAIN r.removed : \E k \in DOMAIN r.kept :
                /\ Conversation(r.removed[m]) = Conversation(r.kept[k])
                /\ r.removed[m].score <= r.kept[k].score
<1>. DEFINE t == r.kept
<1>1. /\ \A k : /\ Past("post_filter", 2, "hydrate", k) /\ Past("post_filter", 2, "filter", k)
                /\ Past("post_filter", 2, "score", k) /\ Past("post_filter", 2, "post_hydrate", k)
                /\ Past("post_filter", 3, "hydrate", k) /\ Past("post_filter", 3, "filter", k)
                /\ Past("post_filter", 3, "score", k) /\ Past("post_filter", 3, "post_hydrate", k)
      /\ Past("post_filter", 2, "post_filter", 1) /\ "post_filter" \in Later["select"]
  BY DEF Past, Later
<1>2. Falling(s)
  <2>1. \A i \in DOMAIN s : s[i].score \in Nat
    BY <1>1 DEF Good, Known
  <2>2. \A i, j \in DOMAIN s : i < j => s[i].score >= s[j].score
    BY <1>1 DEF Good, Apart
  <2>. QED
    BY <2>1, <2>2 DEF Falling
<1>3. r = DedupConversation(s) /\ DOMAIN s = 1 .. Len(s)
  BY FiltersAnswer
<1>4. BestOf(s, Len(s), r)
  BY <1>2, <1>3, DedupConversationIs
<1>5. Thin(t, s) /\ DistinctConversations(t)
  BY <1>3, <1>4, Zenon DEF BestOf, Thin
<1>6. Good("post_filter", 2, q, ok, t)
  BY <1>5, ThinGood
<1>7. DOMAIN t \subseteq Int
  <2>1. t \in Seq(Candidate)
    BY <1>3, DedupConversationIs DEF AllOf, Lists
  <2>. QED
    BY <2>1
<1>8. \A m \in DOMAIN r.removed : \E k \in DOMAIN t :
        /\ Conversation(r.removed[m]) = Conversation(t[k])
        /\ r.removed[m].score <= t[k].score
  BY <1>4, Zenon DEF BestOf
<1>. HIDE DEF t
<1>9. ASSUME NEW k \in DOMAIN t PROVE Known("post_filter", 3, q, ok, t[k])
  <2>1. Known("post_filter", 2, q, ok, t[k])
    BY <1>6 DEF Good
  <2>. QED
    BY <1>1, <2>1 DEF Known
<1>10. ASSUME NEW k \in DOMAIN t, NEW l \in DOMAIN t, k < l PROVE Apart("post_filter", 3, t[k], t[l])
  <2>1. Apart("post_filter", 2, t[k], t[l])
    BY <1>6, <1>10 DEF Good
  <2>2. Conversation(t[k]) # Conversation(t[l])
    BY <1>5, <1>7, <1>10 DEF DistinctConversations
  <2>. QED
    BY <1>1, <2>1, <2>2 DEF Apart
<1>. QED
  BY <1>8, <1>9, <1>10 DEF Good, t

\* Nothing is known of the visibility service before its hydrator had its turn.
LEMMA EarlyGood ==
    ASSUME NEW st, NEW p, NEW su, NEW r, SameClock(st, p, su, r), ~Past(st, p, "post_hydrate", 1),
           NEW q, NEW ok, NEW oj, NEW s, Good(st, p, q, ok, s)
    PROVE  Good(su, r, q, oj, s)
<1>1. ASSUME NEW c, Known(st, p, q, ok, c) PROVE Known(st, p, q, oj, c)
  BY <1>1 DEF Known
<1>2. Good(st, p, q, oj, s)
  BY <1>1 DEF Good
<1>. QED
  BY <1>2, ClockGood

\* What was filtered stays explained, and what is filtered now may be of three kinds.
LEMMA ExplainedMore ==
    ASSUME NEW st, NEW p, NEW s, NEW f \in Seq(Candidate), Explained(st, p, s, f),
           ~Past(st, p, "post_filter", 2), NEW su, NEW r, NEW t, NEW g \in Seq(Candidate),
           Explained(su, r, t, g)
    PROVE  Explained(su, r, t, f \o g)
<1>1. ASSUME NEW k \in DOMAIN (f \o g)
      PROVE  \/ k \in DOMAIN f /\ (f \o g)[k] = f[k]
             \/ (k - Len(f)) \in DOMAIN g /\ (f \o g)[k] = g[k - Len(f)]
  OBVIOUS
<1>2. \A k \in DOMAIN f : f[k].score = NoScore \/ f[k].visibility = "drop"
  BY DEF Explained
<1>. QED
  BY <1>1, <1>2 DEF Explained

LEMMA ExplainedStill ==
    ASSUME NEW st, NEW p, NEW s, NEW f, Explained(st, p, s, f), ~Past(st, p, "post_filter", 2),
           NEW su, NEW r, NEW t
    PROVE  Explained(su, r, t, f)
BY DEF Explained

\* What a hydrator's answer changes: it answered for a list of the same candidates.
LEMMA HydratorsUpdate ==
    ASSUME NEW c \in HydratorNames, NEW q, NEW s \in Seq(Candidate), NEW r \in Outcome(c, q, s),
           r \notin Error, NEW i \in DOMAIN s, NEW x \in Candidate, Identity(s[i], x)
    PROVE  /\ DOMAIN r = DOMAIN s
           /\ LET y == Update(c, x, r[i])
              IN  /\ Identity(x, y) /\ Scores(x, y)
                  /\ c # "CoreData" => Content(x, y)
                  /\ c = "CoreData" => (y.text => y.rt = RetweetOf[y.id])
                  /\ IF c = "InNetwork" THEN y.in_network = InNetwork(q, x)
                                        ELSE y.in_network = x.in_network
                  /\ c = "VFHydrator" => Marks(x, y) /\ y.visibility = Visibility(x)
<1>1. s[i] \in Candidate
  OBVIOUS
<1>2. s[i].id \in Post
  BY <1>1 DEF Candidate
<1>3. CASE c = "InNetwork"
  <2>1. r = [k \in DOMAIN s |-> InNetwork(q, s[k])]
    BY <1>3, HydratorsAnswer
  <2>2. r[i] = InNetwork(q, x) /\ r[i] \in {"true", "false"}
    BY <2>1 DEF InNetwork, Identity
  <2>. QED
    BY <1>3, <2>1, <2>2, UpdateInNetwork
<1>4. CASE c = "CoreData"
  <2>1. r = [k \in DOMAIN s |-> CoreData(s[k])]
    BY <1>4, HydratorsAnswer DEF Error
  <2>2. r[i] = CoreData(s[i])
    BY <2>1
  <2>. DEFINE p == RetweetOf[s[i].id]
              u == IF p = 0 THEN 0 ELSE AuthorOf[p]
  <2>3. p \in Option(Post) /\ u \in Option(User) /\ 0 \in Option(Post) /\ 0 \in Option(User)
    BY <1>2, HomeMixerAssumption DEF Option
  <2>4. \/ r[i] = [text |-> FALSE, rt |-> 0, rtuser |-> 0]
        \/ r[i] = [text |-> TRUE, rt |-> p, rtuser |-> u]
    BY <2>2 DEF CoreData
  <2>5. r[i].text => r[i].rt = RetweetOf[x.id]
    BY <2>4 DEF Identity
  <2>6. \E t \in BOOLEAN, v \in Option(Post), w \in Option(User) :
            r[i] = [text |-> t, rt |-> v, rtuser |-> w]
    <3>. HIDE DEF p, u
    <3>. QED
      BY <2>3, <2>4
  <2>7. LET y == Update("CoreData", x, r[i])
        IN  /\ Identity(x, y) /\ y.text = r[i].text /\ y.rt = r[i].rt /\ Marks(x, y) /\ Scores(x, y)
    BY <2>6, UpdateCoreData
  <2>. QED
    BY <1>4, <2>1, <2>5, <2>7 DEF Identity, Marks
<1>5. CASE c = "VideoDuration"
  <2>1. r = [k \in DOMAIN s |-> VideoDuration(s[k])]
    BY <1>5, HydratorsAnswer DEF Error
  <2>2. r[i] \in BOOLEAN
    BY <2>1 DEF VideoDuration
  <2>. QED
    BY <1>5, <2>1, <2>2, UpdateVideoDuration DEF Marks
<1>6. CASE c = "Subscription"
  <2>1. r = [k \in DOMAIN s |-> Subscription(s[k])]
    BY <1>6, HydratorsAnswer DEF Error
  <2>2. r[i] \in Option(User)
    BY <1>2, <2>1, HomeMixerAssumption DEF Subscription
  <2>. QED
    BY <1>6, <2>1, <2>2, UpdateSubscription
<1>7. CASE c = "Gizmoduck"
  <2>1. r = [k \in DOMAIN s |-> Gizmoduck(s[k])]
    BY <1>7, HydratorsAnswer DEF Error
  <2>2. r[i] = [author_name |-> TRUE, rt_name |-> s[i].rtuser # 0]
    BY <2>1 DEF Gizmoduck
  <2>3. TRUE \in BOOLEAN /\ (s[i].rtuser # 0) \in BOOLEAN
    OBVIOUS
  <2>. QED
    BY <1>7, <2>1, <2>2, <2>3, UpdateGizmoduck DEF Marks
<1>8. CASE c = "VFHydrator"
  <2>1. r = [k \in DOMAIN s |-> Visibility(s[k])]
    BY <1>8, HydratorsAnswer DEF Error, VFErrors
  <2>2. r[i] \in {"keep", "drop"} /\ r[i] = Visibility(x)
    BY <2>1 DEF Visibility, Identity
  <2>3. LET y == Update("VFHydrator", x, r[i])
        IN  /\ Identity(x, y) /\ Content(x, y) /\ Marks(x, y) /\ Scores(x, y) /\ y.visibility = r[i]
    BY <2>2, UpdateVFHydrator
  <2>. QED
    BY <1>8, <2>1, <2>2, <2>3 DEF Marks
<1>. QED
  BY <1>3, <1>4, <1>5, <1>6, <1>7, <1>8 DEF HydratorNames

\* Marking the network, scoring and filtering cannot fail.
LEMMA NeverFails ==
    ASSUME NEW q, NEW s \in Seq(Candidate)
    PROVE  /\ \A r \in Outcome("InNetwork", q, s) : r \notin Error
           /\ \A p \in 1 .. 4 : \A r \in Outcome(Scorers[p], q, s) : r \notin Error
           /\ \A c \in FilterNames \union {"VF", "DedupConversation"} : \A r \in Outcome(c, q, s) :
                  r \notin Error
<1>1. \A e \in Error : /\ e \notin Seq(Int) /\ e \notin Seq({"true", "false"}) /\ e \notin Lists
  BY HomeMixerAssumption DEF Error, Lists
<1>2. ASSUME NEW r \in Outcome("InNetwork", q, s) PROVE r \in Seq({"true", "false"})
  <2>1. r = [k \in DOMAIN s |-> InNetwork(q, s[k])]
    BY HydratorsAnswer
  <2>2. DOMAIN s = 1 .. Len(s) /\ Len(s) \in Nat
    OBVIOUS
  <2>3. \A k \in DOMAIN s : InNetwork(q, s[k]) \in {"true", "false"}
    BY DEF InNetwork
  <2>4. r \in [1 .. Len(s) -> {"true", "false"}]
    BY <2>1, <2>2, <2>3
  <2>. QED
    BY <2>2, <2>4
<1>3. ASSUME NEW p \in 1 .. 4, NEW r \in Outcome(Scorers[p], q, s) PROVE r \in Seq(Int)
  BY ScorersUpdate
<1>4. ASSUME NEW c \in FilterNames \union {"VF", "DedupConversation"}, NEW r \in Outcome(c, q, s)
      PROVE  r \in Lists
  <2>1. r.kept \in Seq(Candidate) /\ r.removed \in Seq(Candidate)
    BY FiltersSplit
  <2>2. CASE c \in FilterNames \union {"VF"}
    <3>1. PICK I \in SUBSET DOMAIN s :
            /\ Outcome(c, q, s) = {KeepAt(s, I)}
            /\ \A i \in I : Passes(c, q, s[i])
            /\ c = "DropDuplicates" => \A i, j \in I : s[i].id = s[j].id => i = j
            /\ c = "VF" => \A i \in DOMAIN s \ I : s[i].visibility = "drop"
      BY <2>2, FilterIs, Zenon
    <3>2. r = KeepAt(s, I)
      BY <3>1
    <3>3. r = [kept |-> At(s, I), removed |-> At(s, DOMAIN s \ I)]
      BY <3>2 DEF KeepAt
    <3>4. At(s, I) \in Seq(Candidate) /\ At(s, DOMAIN s \ I) \in Seq(Candidate)
      BY <2>1, <3>3
    <3>. QED
      BY <3>3, <3>4 DEF Lists
  <2>3. CASE c = "DedupConversation"
    <3>1. r = DedupConversation(s)
      BY <2>3, FiltersAnswer
    <3>. QED
      BY <3>1, DedupConversationIs DEF AllOf
  <2>. QED
    BY <2>2, <2>3
<1>. QED
  BY <1>1, <1>2, <1>3, <1>4

-----------------------------------------------------------------------------
(* The invariant of the feed. *)

\* The answers of a stage are answers about s, the candidates as they were when it began.
Snapshot(s) ==
    /\ s \in Seq(Candidate)
    /\ \A c \in DOMAIN answers : answers[c] \in Outcome(c, query, s)
    /\ stage # "source" =>
        DOMAIN s = DOMAIN candidates /\ \A i \in DOMAIN s : Identity(s[i], candidates[i])

\* None comes any more when the first is merged.
AnswersKnown ==
    stage \in {"source", "hydrate", "post_hydrate"} =>
        /\ asked = P!EnabledIn(stage, query)
        /\ IF pos = 1 THEN Snapshot(candidates)
                      ELSE DOMAIN answers = asked /\ \E s \in Seq(Candidate) : Snapshot(s)

FeedInv ==
    /\ AnswersKnown
    /\ stage = "query" => candidates = <<>>
    /\ Good(stage, pos, query, Ok("VFHydrator"), candidates)
    /\ Explained(stage, pos, candidates, filtered)
    /\ reply = IF stage = "done" THEN P!Truncate(candidates, ResultSize) ELSE <<>>

MixerInv == P!PipelineInv /\ FeedInv

LEMMA FeedStarts == P!Init => FeedInv
<1>. SUFFICES ASSUME P!Init PROVE FeedInv
  OBVIOUS
<1>1. stage = "query" /\ candidates = <<>> /\ filtered = <<>> /\ reply = <<>>
  BY DEF P!Init
<1>2. DOMAIN candidates = {} /\ DOMAIN filtered = {}
  BY <1>1
<1>3. Good(stage, pos, query, Ok("VFHydrator"), candidates) /\ Explained(stage, pos, candidates, filtered)
  BY <1>2 DEF Good, Explained
<1>4. AnswersKnown
  BY <1>1 DEF AnswersKnown
<1>. QED
  BY <1>1, <1>3, <1>4 DEF FeedInv

\* A step that leaves the candidates and what is told apart alone.
LEMMA ClockMoves ==
    ASSUME FeedInv, UNCHANGED <<query, candidates, filtered>>,
           SameClock(stage, pos, stage', pos'),
           Past(stage, pos, "post_hydrate", 1) => UNCHANGED answers
    PROVE  /\ Good(stage', pos', query', Ok("VFHydrator")', candidates')
           /\ Explained(stage', pos', candidates', filtered')
<1>1. /\ Good(stage, pos, query, Ok("VFHydrator"), candidates)
      /\ Explained(stage, pos, candidates, filtered)
  BY DEF FeedInv
<1>2. Explained(stage', pos', candidates', filtered')
  BY <1>1 DEF Explained, SameClock
<1>3. CASE Past(stage, pos, "post_hydrate", 1)
  <2>1. Ok("VFHydrator")' <=> Ok("VFHydrator")
    BY <1>3 DEF Ok
  <2>2. Good(stage', pos', query, Ok("VFHydrator"), candidates)
    BY <1>1, ClockGood
  <2>. QED
    BY <1>2, <2>1, <2>2 DEF Good, Known
<1>4. CASE ~Past(stage, pos, "post_hydrate", 1)
  <2>1. Good(stage', pos', query, Ok("VFHydrator")', candidates)
    BY <1>1, <1>4, EarlyGood
  <2>. QED
    BY <1>2, <2>1
<1>. QED
  BY <1>3, <1>4

LEMMA AnswersBegin ==
    ASSUME NEW st, P!Begin(st, query), UNCHANGED query, candidates' \in Seq(Candidate)
    PROVE  AnswersKnown'
<1>1. /\ stage' = st /\ pos' = 1 /\ asked' = P!EnabledIn(st, query) /\ DOMAIN answers' = {}
  BY DEF P!Begin
<1>2. asked' = P!EnabledIn(stage', query')
  BY <1>1
<1>3. Snapshot(candidates)'
  BY <1>1 DEF Snapshot, Identity
<1>. QED
  BY <1>1, <1>2, <1>3 DEF AnswersKnown

LEMMA TypesKnown ==
    ASSUME P!PipelineInv
    PROVE  /\ candidates \in Seq(Candidate) /\ filtered \in Seq(Candidate) /\ query \in Query
           /\ pos \in Nat \ {0}
BY DEF P!PipelineInv, P!TypeOK

\* The lists of components by stage.
LEMMA ListedAre ==
    /\ DOMAIN P!Listed = {"query", "source", "hydrate", "filter", "score", "post_hydrate", "post_filter"}
    /\ P!Listed["source"] = Sources /\ DOMAIN Sources = 1 .. 2
    /\ P!Listed["hydrate"] = Hydrators /\ DOMAIN Hydrators = 1 .. 5
    /\ P!Listed["filter"] = Filters /\ DOMAIN Filters = 1 .. 10
    /\ P!Listed["score"] = Scorers /\ DOMAIN Scorers = 1 .. 4
    /\ P!Listed["post_hydrate"] = PostSelectionHydrators /\ DOMAIN PostSelectionHydrators = 1 .. 1
    /\ P!Listed["post_filter"] = PostSelectionFilters /\ DOMAIN PostSelectionFilters = 1 .. 2
<1>1. /\ DOMAIN Sources = 1 .. 2 /\ DOMAIN Hydrators = 1 .. 5 /\ DOMAIN Filters = 1 .. 10
      /\ DOMAIN Scorers = 1 .. 4 /\ DOMAIN PostSelectionHydrators = 1 .. 1
      /\ DOMAIN PostSelectionFilters = 1 .. 2
  BY DEF Sources, Hydrators, Filters, Scorers, PostSelectionHydrators, PostSelectionFilters
<1>. QED
  BY <1>1 DEF P!Listed

\* A call ends.
LEMMA FeedAnswers ==
    ASSUME MixerInv, NEW c, P!Answer(c)
    PROVE  FeedInv'
<1>1. UNCHANGED <<stage, pos, asked, query, candidates, filtered, reply>> /\ stage \in P!Parallel
  BY DEF P!Answer, P!result
<1>2. PICK r \in Outcome(c, query, candidates) :
        answers' = [d \in DOMAIN answers \union {c} |-> IF d = c THEN r ELSE answers[d]]
  BY DEF P!Answer
<1>3. c \in asked \ DOMAIN answers
  BY DEF P!Answer
<1>4. FeedInv /\ pos \in Nat \ {0} /\ candidates \in Seq(Candidate)
  BY TypesKnown DEF MixerInv
<1>5. ASSUME stage \in {"source", "hydrate", "post_hydrate"} PROVE pos = 1 /\ AnswersKnown'
  <2>1. pos = 1 /\ asked = P!EnabledIn(stage, query) /\ Snapshot(candidates)
    BY <1>3, <1>4, <1>5 DEF FeedInv, AnswersKnown
  <2>2. Snapshot(candidates)'
    BY <1>1, <1>2, <2>1 DEF Snapshot
  <2>3. asked' = P!EnabledIn(stage', query')
    BY <1>1, <2>1
  <2>. QED
    BY <1>1, <2>1, <2>2, <2>3 DEF AnswersKnown
<1>6. AnswersKnown'
  BY <1>1, <1>5 DEF AnswersKnown
<1>7. ~Past(stage, pos, "post_hydrate", 1)
  BY <1>1, <1>5 DEF P!Parallel, Past, Later
<1>8. SameClock(stage, pos, stage', pos')
  BY <1>1 DEF SameClock
<1>9. /\ Good(stage', pos', query', Ok("VFHydrator")', candidates')
      /\ Explained(stage', pos', candidates', filtered')
  BY <1>1, <1>4, <1>7, <1>8, ClockMoves
<1>. QED
  BY <1>1, <1>4, <1>6, <1>9 DEF FeedInv, P!Parallel

LEMMA FeedMergesQuery ==
    ASSUME MixerInv, P!MergeQuery
    PROVE  FeedInv'
<1>1. stage = "query" /\ UNCHANGED <<stage, candidates, filtered, reply>>
  BY DEF P!MergeQuery, P!result
<1>2. FeedInv /\ candidates = <<>>
  BY <1>1 DEF MixerInv, FeedInv
<1>3. DOMAIN candidates' = {}
  BY <1>1, <1>2
<1>4. Good(stage', pos', query', Ok("VFHydrator")', candidates')
  BY <1>3 DEF Good
<1>5. Explained(stage', pos', candidates', filtered')
  BY <1>1, <1>2 DEF FeedInv, Explained, Past, Later
<1>6. AnswersKnown'
  BY <1>1 DEF AnswersKnown
<1>. QED
  BY <1>1, <1>2, <1>4, <1>5, <1>6 DEF FeedInv

LEMMA FeedMergesSource ==
    ASSUME MixerInv, P!MergeSource
    PROVE  FeedInv'
<1>1. /\ stage = "source" /\ P!More /\ P!AllAnswered /\ pos' = pos + 1
      /\ UNCHANGED <<stage, asked, answers, query, filtered, reply>>
  BY DEF P!MergeSource, P!result, P!call
<1>2. /\ FeedInv /\ pos \in Nat \ {0} /\ candidates \in Seq(Candidate) /\ query \in Query
  BY TypesKnown DEF MixerInv
<1>3. PICK s \in Seq(Candidate) : Snapshot(s)
  BY <1>1, <1>2 DEF FeedInv, AnswersKnown
<1>4. asked = P!EnabledIn("source", query) /\ DOMAIN answers = asked
  BY <1>1, <1>2 DEF FeedInv, AnswersKnown, P!AllAnswered
<1>5. AnswersKnown'
  <2>1. Snapshot(s)'
    BY <1>1, <1>3 DEF Snapshot
  <2>2. pos' # 1 /\ DOMAIN answers' = asked' /\ asked' = P!EnabledIn(stage', query')
    BY <1>1, <1>2, <1>4
  <2>. QED
    BY <2>1, <2>2 DEF AnswersKnown
<1>6. Good("source", pos, query, Ok("VFHydrator"), candidates)
  BY <1>1, <1>2 DEF FeedInv
<1>7. P!Turn \in {"Phoenix", "Thunder"}
  <2>1. pos = 1 \/ pos = 2
    BY <1>1, ListedAre DEF P!More
  <2>. QED
    BY <1>1, <2>1, ListedAre DEF P!Turn, Sources
<1>8. Good("source", pos + 1, query, Ok("VFHydrator"), candidates')
  <2>1. CASE P!Succeeded
    <3>. DEFINE r == answers[P!Turn]
    <3>1. P!Turn \in asked /\ r \notin Error /\ candidates' = candidates \o r
      BY <2>1 DEF P!Succeeded, P!MergeSource
    <3>2. Enable(P!Turn, query) /\ r \in Outcome(P!Turn, query, s)
      BY <1>3, <1>4, <3>1 DEF P!EnabledIn, Snapshot
    <3>3. r \in Seq(Candidate) /\ \A i \in DOMAIN r : SourcedFrom(P!Turn, query, r[i])
      BY <1>7, <3>1, <3>2, SourceAnswers
    <3>4. Good("source", pos + 1, query, Ok("VFHydrator"), candidates \o r)
      <4>. HIDE DEF r
      <4>. QED
        BY <1>2, <1>6, <1>7, <3>2, <3>3, SourceGood
    <3>. QED
      BY <3>1, <3>4
  <2>2. CASE ~P!Succeeded
    <3>1. candidates' = candidates
      BY <2>2 DEF P!MergeSource
    <3>2. SameClock("source", pos, "source", pos + 1)
      BY DEF SameClock, Past, Later
    <3>. QED
      BY <1>6, <3>1, <3>2, ClockGood
  <2>. QED
    BY <2>1, <2>2
<1>9. Ok("VFHydrator")' <=> Ok("VFHydrator")
  BY <1>1 DEF Ok
<1>10. Good(stage', pos', query', Ok("VFHydrator")', candidates')
  BY <1>1, <1>8, <1>9 DEF Good, Known
<1>11. Explained(stage', pos', candidates', filtered')
  BY <1>1, <1>2, ExplainedStill DEF FeedInv, Past, Later
<1>. QED
  BY <1>1, <1>2, <1>5, <1>10, <1>11 DEF FeedInv

\* The first hydrator, which marks what is in the network, always answers.
LEMMA NetworkMarked ==
    ASSUME NEW s \in Seq(Candidate), Snapshot(s), stage = "hydrate", pos = 1,
           asked = P!EnabledIn("hydrate", query), DOMAIN answers = asked
    PROVE  P!Turn = "InNetwork" /\ P!Succeeded
<1>1. P!Turn = "InNetwork"
  BY ListedAre DEF P!Turn, Hydrators
<1>2. "InNetwork" \in asked
  <2>1. 1 \in DOMAIN Hydrators /\ Hydrators[1] = "InNetwork" /\ Enable("InNetwork", query)
    BY DEF Hydrators, Enable
  <2>. QED
    BY <2>1, ListedAre DEF P!EnabledIn
<1>3. answers["InNetwork"] \notin Error
  BY <1>2, NeverFails DEF Snapshot
<1>. QED
  BY <1>1, <1>2, <1>3 DEF P!Succeeded

\* An answer is copied into the candidates.
LEMMA FeedMergesHydration ==
    ASSUME MixerInv, P!MergeHydration
    PROVE  FeedInv'
<1>1. /\ stage \in {"hydrate", "post_hydrate"} /\ P!More /\ P!AllAnswered /\ pos' = pos + 1
      /\ UNCHANGED <<stage, asked, answers, query, filtered, reply>>
  BY DEF P!MergeHydration, P!result, P!call
<1>2. /\ FeedInv /\ pos \in Nat \ {0} /\ candidates \in Seq(Candidate) /\ query \in Query
  BY TypesKnown DEF MixerInv
<1>3. PICK s \in Seq(Candidate) : Snapshot(s)
  BY <1>1, <1>2 DEF FeedInv, AnswersKnown
<1>4. asked = P!EnabledIn(stage, query) /\ DOMAIN answers = asked
  BY <1>1, <1>2 DEF FeedInv, AnswersKnown, P!AllAnswered
<1>5. DOMAIN s = DOMAIN candidates /\ \A i \in DOMAIN s : Identity(s[i], candidates[i])
  BY <1>1, <1>3 DEF Snapshot
<1>6. /\ stage = "hydrate" => P!Turn \in HydratorNames \ {"VFHydrator"} /\ (pos = 1 <=> P!Turn = "InNetwork")
      /\ stage = "post_hydrate" => P!Turn = "VFHydrator" /\ pos = 1
  <2>1. CASE stage = "hydrate"
    <3>1. pos = 1 \/ pos = 2 \/ pos = 3 \/ pos = 4 \/ pos = 5
      BY <1>1, <2>1, ListedAre DEF P!More
    <3>. QED
      BY <2>1, <3>1, ListedAre DEF P!Turn, Hydrators, HydratorNames
  <2>2. CASE stage = "post_hydrate"
    <3>1. pos = 1
      BY <1>1, <2>2, ListedAre DEF P!More
    <3>. QED
      BY <2>2, <3>1, ListedAre DEF P!Turn, PostSelectionHydrators
  <2>. QED
    BY <1>1, <2>1, <2>2
<1>. DEFINE c == P!Turn
            r == answers[c]
            ok == Ok("VFHydrator")
<1>7. ASSUME P!Succeeded
      PROVE  /\ r \in Outcome(c, query, s) /\ r \notin Error
             /\ DOMAIN candidates' = DOMAIN candidates
             /\ \A i \in DOMAIN candidates : candidates'[i] = Update(c, candidates[i], r[i])
             /\ DOMAIN r = DOMAIN candidates
  <2>1. c \in asked /\ r \notin Error /\ r \in Outcome(c, query, s)
    BY <1>3, <1>4, <1>7 DEF P!Succeeded, Snapshot
  <2>2. r = [k \in DOMAIN s |-> r[k]]
    <3>1. \/ r = [k \in DOMAIN s |-> InNetwork(query, s[k])]
          \/ r = [k \in DOMAIN s |-> CoreData(s[k])]
          \/ r = [k \in DOMAIN s |-> VideoDuration(s[k])]
          \/ r = [k \in DOMAIN s |-> Subscription(s[k])]
          \/ r = [k \in DOMAIN s |-> Gizmoduck(s[k])]
          \/ r = [k \in DOMAIN s |-> Visibility(s[k])]
      <4>1. r \notin {Failed, InFailed, OutFailed} /\ VFErrors(s) \subseteq {InFailed, OutFailed}
        BY <2>1 DEF Error, VFErrors
      <4>2. c \in HydratorNames
        BY <1>1, <1>6 DEF HydratorNames
      <4>. HIDE DEF c, r
      <4>. QED
        BY <2>1, <4>1, <4>2, HydratorsAnswer DEF HydratorNames
    <3>. QED
      BY <3>1
  <2>. HIDE DEF c, r
  <2>3. DOMAIN candidates = 1 .. Len(candidates) /\ Len(candidates) \in Nat /\ DOMAIN r = DOMAIN candidates
    BY <1>2, <1>5, <2>2
  <2>4. Len(r) = Len(candidates)
    BY <2>2, <2>3
  <2>5. candidates' = [i \in DOMAIN candidates |->
                          IF i \in DOMAIN r THEN Update(c, candidates[i], r[i]) ELSE candidates[i]]
    BY <1>7, <2>4 DEF P!MergeHydration, P!UpdateAll, c, r
  <2>. QED
    BY <2>1, <2>3, <2>5
<1>8. ASSUME P!Succeeded, NEW i \in DOMAIN candidates
      PROVE  LET x == candidates[i]  y == candidates'[i]
             IN  /\ Identity(x, y) /\ Scores(x, y)
                 /\ c # "CoreData" => Content(x, y)
                 /\ c = "CoreData" => (y.text => y.rt = RetweetOf[y.id])
                 /\ IF c = "InNetwork" THEN y.in_network = InNetwork(query, x)
                                       ELSE y.in_network = x.in_network
                 /\ c = "VFHydrator" => Marks(x, y) /\ y.visibility = Visibility(x)
  <2>1. c \in HydratorNames
    BY <1>1, <1>6 DEF HydratorNames
  <2>2. candidates[i] \in Candidate
    BY <1>2
  <2>3. r \in Outcome(c, query, s) /\ r \notin Error /\ candidates'[i] = Update(c, candidates[i], r[i])
    BY <1>7, <1>8
  <2>. HIDE DEF c, r
  <2>. QED
    BY <1>5, <1>8, <2>1, <2>2, <2>3, HydratorsUpdate
<1>9. ASSUME ~P!Succeeded PROVE candidates' = candidates
  BY <1>9 DEF P!MergeHydration
<1>10. DOMAIN candidates' = DOMAIN candidates
       /\ \A i \in DOMAIN candidates : Identity(candidates[i], candidates'[i])
  BY <1>7, <1>8, <1>9 DEF Identity
<1>11. AnswersKnown'
  <2>1. Snapshot(s)'
    BY <1>1, <1>3, <1>5, <1>10 DEF Snapshot, Identity
  <2>2. pos' # 1 /\ DOMAIN answers' = asked' /\ asked' = P!EnabledIn(stage', query')
    BY <1>1, <1>2, <1>4
  <2>. QED
    BY <2>1, <2>2 DEF AnswersKnown
<1>12. Good(stage, pos, query, ok, candidates)
  BY <1>2 DEF FeedInv
<1>13. ok <=> Ok("VFHydrator")'
  BY <1>1 DEF Ok
<1>. HIDE DEF ok
<1>14. Good(stage, pos + 1, query, ok, candidates')
  <2>1. CASE stage = "hydrate" /\ P!Succeeded
    <3>. HIDE DEF c, r
    <3>1. c \in HydratorNames /\ c # "VFHydrator" /\ (pos = 1 <=> c = "InNetwork")
      BY <1>6, <2>1 DEF c
    <3>. QED
      BY <1>2, <1>8, <1>10, <1>12, <2>1, <3>1, HydrateGood
  <2>2. CASE stage = "hydrate" /\ ~P!Succeeded
    <3>1. pos # 1
      BY <1>3, <1>4, <2>2, NetworkMarked
    <3>2. SameClock("hydrate", pos, "hydrate", pos + 1)
      BY <1>2, <3>1 DEF SameClock, Past, Later
    <3>. QED
      BY <1>9, <1>12, <2>2, <3>2, ClockGood
  <2>3. CASE stage = "post_hydrate"
    <3>1. pos = 1 /\ c = "VFHydrator" /\ pos + 1 = 2
      BY <1>6, <2>3
    <3>2. "VFHydrator" \in asked
      <4>1. 1 \in DOMAIN PostSelectionHydrators /\ PostSelectionHydrators[1] = "VFHydrator"
            /\ Enable("VFHydrator", query)
        BY DEF PostSelectionHydrators, Enable
      <4>. QED
        BY <1>4, <2>3, <4>1, ListedAre DEF P!EnabledIn
    <3>3. ok <=> P!Succeeded
      BY <1>4, <3>1, <3>2 DEF ok, Ok, P!Succeeded
    <3>4. CASE P!Succeeded
      <4>1. \A i \in DOMAIN candidates :
              /\ Identity(candidates[i], candidates'[i]) /\ Content(candidates[i], candidates'[i])
              /\ Marks(candidates[i], candidates'[i]) /\ Scores(candidates[i], candidates'[i])
              /\ candidates'[i].visibility = Visibility(candidates[i])
        BY <1>8, <3>1, <3>4
      <4>. QED
        BY <1>2, <1>10, <1>12, <2>3, <3>1, <4>1, VisibilityGood
    <3>5. CASE ~P!Succeeded
      <4>1. \A x : Identity(x, x) /\ Content(x, x) /\ Marks(x, x) /\ Scores(x, x)
        BY DEF Identity, Content, Marks, Scores
      <4>2. candidates' = candidates /\ ~ok
        BY <1>9, <3>3, <3>5
      <4>. QED
        BY <1>2, <1>12, <2>3, <3>1, <4>1, <4>2, VisibilityGood
    <3>. QED
      BY <3>4, <3>5
  <2>. QED
    BY <1>1, <2>1, <2>2, <2>3
<1>15. Good(stage', pos', query', Ok("VFHydrator")', candidates')
  BY <1>1, <1>13, <1>14 DEF Good, Known
<1>16. Explained(stage', pos', candidates', filtered')
  BY <1>1, <1>2, ExplainedStill DEF FeedInv, Past, Later
<1>. QED
  BY <1>1, <1>2, <1>11, <1>15, <1>16 DEF FeedInv

\* The only component of the sequential stages that may be disabled is the eighth filter.
LEMMA FeedSkips ==
    ASSUME MixerInv, P!Skip
    PROVE  FeedInv'
<1>1. /\ stage \in {"filter", "score", "post_filter"} /\ P!More /\ ~Enable(P!Turn, query)
      /\ pos' = pos + 1 /\ UNCHANGED <<stage, answers, query, candidates, filtered, reply>>
  BY DEF P!Skip, P!result, P!call
<1>2. FeedInv /\ pos \in Nat \ {0}
  BY TypesKnown DEF MixerInv
<1>3. P!Turn = "PreviouslyServed"
  BY <1>1, ListedAre DEF Enable, P!Turn, P!More, Scorers, PostSelectionFilters, Filters
<1>4. stage = "filter" /\ pos \in 1 .. 10 /\ P!Turn = Filters[pos]
  <2>1. /\ stage = "score" => pos \in 1 .. 4 /\ P!Turn = Scorers[pos]
        /\ stage = "post_filter" => pos \in 1 .. 2 /\ P!Turn = PostSelectionFilters[pos]
        /\ stage = "filter" => pos \in 1 .. 10 /\ P!Turn = Filters[pos]
    BY <1>1, ListedAre DEF P!Turn, P!More
  <2>2. stage # "score"
    <3>1. \A k \in 1 .. 4 : k = 1 \/ k = 2 \/ k = 3 \/ k = 4
      OBVIOUS
    <3>2. \A k \in 1 .. 4 : Scorers[k] # "PreviouslyServed"
      BY <3>1 DEF Scorers
    <3>. QED
      BY <1>3, <2>1, <3>2
  <2>3. stage # "post_filter"
    <3>1. \A k \in 1 .. 2 : k = 1 \/ k = 2
      OBVIOUS
    <3>2. \A k \in 1 .. 2 : PostSelectionFilters[k] # "PreviouslyServed"
      BY <3>1 DEF PostSelectionFilters
    <3>. QED
      BY <1>3, <2>1, <3>2
  <2>. QED
    BY <1>1, <2>1, <2>2, <2>3
<1>5. pos # 1
  BY <1>3, <1>4 DEF Filters
<1>6. Good("filter", pos, query, Ok("VFHydrator"), candidates)
  BY <1>2, <1>4 DEF FeedInv
<1>7. /\ \A x \in DOMAIN Later \ {"filter"} : \A k : Past("filter", pos + 1, x, k) <=> Past("filter", pos, x, k)
      /\ \A k \in 1 .. 10 : Past("filter", pos + 1, "filter", k) <=> Past("filter", pos, "filter", k) \/ k = pos
      /\ Past("filter", pos + 1, "filter", 1) <=> Past("filter", pos, "filter", 1)
  BY <1>4, <1>5 DEF Past, Later
<1>8. DOMAIN Later = {"hydrate", "filter", "score", "select", "post_hydrate", "post_filter"}
  BY DEF Later
<1>9. ASSUME NEW x, Known("filter", pos, query, Ok("VFHydrator"), x)
      PROVE  Known("filter", pos + 1, query, Ok("VFHydrator"), x)
  <2>1. ~Enable(Filters[pos], query)
    BY <1>1, <1>4
  <2>. QED
    BY <1>7, <1>8, <1>9, <2>1 DEF Known
<1>10. ASSUME NEW x, NEW y, Apart("filter", pos, x, y) PROVE Apart("filter", pos + 1, x, y)
  BY <1>7, <1>8, <1>10 DEF Apart
<1>11. Good("filter", pos + 1, query, Ok("VFHydrator"), candidates)
  BY <1>6, <1>9, <1>10 DEF Good
<1>12. Ok("VFHydrator")' <=> Ok("VFHydrator")
  BY <1>1 DEF Ok
<1>13. Good(stage', pos', query', Ok("VFHydrator")', candidates')
  BY <1>1, <1>4, <1>11, <1>12 DEF Good, Known
<1>14. Explained(stage', pos', candidates', filtered')
  BY <1>1, <1>2, <1>4, ExplainedStill DEF FeedInv, Past, Later
<1>15. AnswersKnown'
  BY <1>1, <1>4 DEF AnswersKnown
<1>. QED
  BY <1>1, <1>2, <1>4, <1>13, <1>14, <1>15 DEF FeedInv

LEMMA FeedFilters ==
    ASSUME MixerInv, P!RunFilter
    PROVE  FeedInv'
<1>1. /\ stage \in {"filter", "post_filter"} /\ P!More
      /\ pos' = pos + 1 /\ UNCHANGED <<stage, answers, query, reply>>
  BY DEF P!RunFilter, P!call
<1>2. PICK r \in Outcome(P!Turn, query, candidates) :
        IF r \in Error THEN UNCHANGED <<candidates, filtered>>
                       ELSE candidates' = r.kept /\ filtered' = filtered \o r.removed
  BY DEF P!RunFilter
<1>3. /\ FeedInv /\ pos \in Nat \ {0} /\ candidates \in Seq(Candidate) /\ filtered \in Seq(Candidate)
      /\ query \in Query
  BY TypesKnown DEF MixerInv
<1>4. \/ stage = "filter" /\ pos \in 1 .. 10 /\ P!Turn = Filters[pos]
      \/ stage = "post_filter" /\ pos = 1 /\ P!Turn = "VF"
      \/ stage = "post_filter" /\ pos = 2 /\ P!Turn = "DedupConversation"
  <2>1. stage = "post_filter" => pos = 1 \/ pos = 2
    BY <1>1, ListedAre DEF P!More
  <2>2. stage = "filter" => pos \in 1 .. 10
    BY <1>1, ListedAre DEF P!More
  <2>. QED
    BY <1>1, <2>1, <2>2, ListedAre DEF P!Turn, PostSelectionFilters
<1>5. P!Turn \in FilterNames \union {"VF", "DedupConversation"}
  BY <1>4, FiltersAre
<1>6. candidates' = r.kept /\ filtered' = filtered \o r.removed
  BY <1>2, <1>3, <1>5, NeverFails
<1>7. r.removed \in Seq(Candidate)
  BY <1>3, <1>5, FiltersSplit
<1>8. Good(stage, pos, query, Ok("VFHydrator"), candidates) /\ Explained(stage, pos, candidates, filtered)
  BY <1>3 DEF FeedInv
<1>9. /\ Good(stage, pos + 1, query, Ok("VFHydrator"), r.kept)
      /\ Explained(stage, pos + 1, r.kept, r.removed)
  <2>1. CASE stage = "filter"
    <3>1. Good("filter", pos + 1, query, Ok("VFHydrator"), r.kept)
          /\ \A k \in DOMAIN r.removed : r.removed[k].score = NoScore
      BY <1>3, <1>4, <1>8, <2>1, FilterGood
    <3>. QED
      BY <2>1, <3>1 DEF Explained
  <2>2. CASE stage = "post_filter" /\ pos = 1
    <3>1. Good("post_filter", 2, query, Ok("VFHydrator"), r.kept)
          /\ \A k \in DOMAIN r.removed : r.removed[k].visibility = "drop"
      BY <1>3, <1>4, <1>8, <2>2, VFGood
    <3>. QED
      BY <2>2, <3>1 DEF Explained
  <2>3. CASE stage = "post_filter" /\ pos = 2
    <3>1. /\ Good("post_filter", 3, query, Ok("VFHydrator"), r.kept)
          /\ \A m \in DOMAIN r.removed : \E k \in DOMAIN r.kept :
                /\ Conversation(r.removed[m]) = Conversation(r.kept[k])
                /\ r.removed[m].score <= r.kept[k].score
      BY <1>3, <1>4, <1>8, <2>3, ConversationsGood
    <3>2. Past("post_filter", 3, "post_filter", 2)
      BY DEF Past, Later
    <3>. QED
      BY <2>3, <3>1, <3>2 DEF Explained
  <2>. QED
    BY <1>4, <2>1, <2>2, <2>3
<1>10. ~Past(stage, pos, "post_filter", 2)
  BY <1>4 DEF Past, Later
<1>11. Explained(stage', pos', candidates', filtered')
  <2>1. Explained(stage, pos + 1, r.kept, filtered \o r.removed)
    BY <1>3, <1>7, <1>8, <1>9, <1>10, ExplainedMore
  <2>. QED
    BY <1>1, <1>6, <2>1
<1>12. Ok("VFHydrator")' <=> Ok("VFHydrator")
  BY <1>1 DEF Ok
<1>13. Good(stage', pos', query', Ok("VFHydrator")', candidates')
  BY <1>1, <1>6, <1>9, <1>12 DEF Good, Known
<1>14. AnswersKnown'
  BY <1>1 DEF AnswersKnown
<1>. QED
  BY <1>1, <1>3, <1>11, <1>13, <1>14 DEF FeedInv

LEMMA FeedScores ==
    ASSUME MixerInv, P!RunScorer
    PROVE  FeedInv'
<1>1. /\ stage = "score" /\ P!More
      /\ pos' = pos + 1 /\ UNCHANGED <<stage, answers, query, filtered, reply>>
  BY DEF P!RunScorer, P!call, P!result
<1>2. PICK r \in Outcome(P!Turn, query, candidates) :
        candidates' = IF r \notin Error /\ Len(r) = Len(candidates)
                      THEN P!UpdateAll(P!Turn, candidates, r) ELSE candidates
  BY DEF P!RunScorer
<1>3. /\ FeedInv /\ candidates \in Seq(Candidate) /\ query \in Query
  BY TypesKnown DEF MixerInv
<1>4. pos \in 1 .. 4 /\ P!Turn = Scorers[pos]
  BY <1>1, ListedAre DEF P!More, P!Turn
<1>5. r \notin Error /\ r \in Seq(Int) /\ DOMAIN r = DOMAIN candidates
  BY <1>2, <1>3, <1>4, NeverFails, ScorersUpdate
<1>6. Len(r) = Len(candidates)
  BY <1>3, <1>5
<1>7. candidates' = [i \in DOMAIN candidates |->
                        IF i \in DOMAIN r THEN Update(P!Turn, candidates[i], r[i]) ELSE candidates[i]]
  BY <1>2, <1>5, <1>6 DEF P!UpdateAll
<1>8. /\ DOMAIN candidates' = DOMAIN candidates
      /\ \A i \in DOMAIN candidates : candidates'[i] = Update(Scorers[pos], candidates[i], r[i])
  BY <1>4, <1>5, <1>7
<1>9. Good("score", pos, query, Ok("VFHydrator"), candidates)
  BY <1>1, <1>3 DEF FeedInv
<1>10. Good("score", pos + 1, query, Ok("VFHydrator"), candidates')
  BY <1>2, <1>3, <1>4, <1>8, <1>9, ScoreGood
<1>11. Ok("VFHydrator")' <=> Ok("VFHydrator")
  BY <1>1 DEF Ok
<1>12. Good(stage', pos', query', Ok("VFHydrator")', candidates')
  BY <1>1, <1>10, <1>11 DEF Good, Known
<1>13. Explained(stage', pos', candidates', filtered')
  BY <1>1, <1>3, ExplainedStill DEF FeedInv, Past, Later
<1>14. AnswersKnown'
  BY <1>1 DEF AnswersKnown
<1>. QED
  BY <1>1, <1>3, <1>12, <1>13, <1>14 DEF FeedInv

LEMMA FeedSelects ==
    ASSUME MixerInv, P!Select, candidates' \in Seq(Candidate)
    PROVE  FeedInv'
<1>1. /\ stage = "select" /\ P!Begin("post_hydrate", query)
      /\ stage' = "post_hydrate" /\ pos' = 1 /\ UNCHANGED <<query, filtered, reply>>
  BY DEF P!Select, P!Begin, P!result
<1>2. Enable("TopKScore", query)
  BY DEF Enable
<1>3. PICK f \in P!Orders(candidates) : candidates' = P!Selected(candidates, f)
  BY <1>2 DEF P!Select
<1>4. FeedInv /\ candidates \in Seq(Candidate)
  BY TypesKnown DEF MixerInv
<1>5. Good("select", pos, query, Ok("VFHydrator"), candidates)
  BY <1>1, <1>4 DEF FeedInv
<1>6. Good("select", pos, query, Ok("VFHydrator")', candidates)
  <2>1. SameClock("select", pos, "select", pos) /\ ~Past("select", pos, "post_hydrate", 1)
    BY DEF SameClock, Past, Later
  <2>. QED
    BY <1>5, <2>1, EarlyGood
<1>7. Good("post_hydrate", 1, query, Ok("VFHydrator")', candidates')
  BY <1>3, <1>4, <1>6, SelectGood
<1>8. Good(stage', pos', query', Ok("VFHydrator")', candidates')
  BY <1>1, <1>7
<1>9. Explained(stage', pos', candidates', filtered')
  BY <1>1, <1>4, ExplainedStill DEF FeedInv, Past, Later
<1>10. AnswersKnown'
  BY <1>1, AnswersBegin
<1>. QED
  BY <1>1, <1>4, <1>8, <1>9, <1>10 DEF FeedInv

\* From one stage to the next, where the candidates stay.
LEMMA FeedProceeds ==
    ASSUME MixerInv,
           P!FetchCandidates \/ P!Hydrate \/ P!Filter \/ P!ScoreAll \/ P!ToSelect
               \/ P!FilterPostSelection \/ P!Reply
    PROVE  FeedInv'
<1>1. /\ UNCHANGED <<query, candidates, filtered>> /\ stage \in DOMAIN P!Listed /\ P!Over
      /\ \/ stage = "query" /\ stage' = "source" /\ P!Begin("source", query)
         \/ stage = "source" /\ stage' = "hydrate" /\ P!Begin("hydrate", query)
         \/ stage = "hydrate" /\ stage' = "filter" /\ pos' = 1 /\ UNCHANGED answers
         \/ stage = "filter" /\ stage' = "score" /\ pos' = 1 /\ UNCHANGED answers
         \/ stage = "score" /\ stage' = "select" /\ pos' = 1 /\ UNCHANGED answers
         \/ stage = "post_hydrate" /\ stage' = "post_filter" /\ pos' = 1 /\ UNCHANGED answers
         \/ stage = "post_filter" /\ stage' = "done" /\ UNCHANGED answers
      /\ reply' = IF stage' = "done" THEN P!Truncate(candidates, ResultSize) ELSE reply
  BY DEF P!FetchCandidates, P!Hydrate, P!Filter, P!ScoreAll, P!ToSelect, P!FilterPostSelection,
         P!Reply, P!Over, P!Begin, P!TurnTo, P!result, P!call
<1>2. FeedInv /\ pos \in Nat \ {0} /\ candidates \in Seq(Candidate)
  BY TypesKnown DEF MixerInv
<1>3. /\ stage = "hydrate" => pos > 5
      /\ stage = "filter" => pos > 10
      /\ stage = "score" => pos > 4
      /\ stage = "post_hydrate" => pos > 1
      /\ stage = "post_filter" => pos > 2
  BY <1>1, <1>2, ListedAre DEF P!Over
<1>4. SameClock(stage, pos, stage', pos')
  BY <1>1, <1>2, <1>3 DEF SameClock, Past, Later, P!Begin
<1>5. Past(stage, pos, "post_hydrate", 1) => UNCHANGED answers
  BY <1>1 DEF Past, Later
<1>6. /\ Good(stage', pos', query', Ok("VFHydrator")', candidates')
      /\ Explained(stage', pos', candidates', filtered')
  BY <1>1, <1>2, <1>4, <1>5, ClockMoves
<1>7. AnswersKnown'
  <2>1. CASE stage' \in {"source", "hydrate"}
    BY <1>1, <1>2, <2>1, AnswersBegin
  <2>2. CASE stage' \notin {"source", "hydrate"}
    BY <1>1, <2>2 DEF AnswersKnown
  <2>. QED
    BY <2>1, <2>2
<1>8. reply' = IF stage' = "done" THEN P!Truncate(candidates', ResultSize) ELSE <<>>
  BY <1>1, <1>2 DEF FeedInv
<1>. QED
  BY <1>1, <1>6, <1>7, <1>8 DEF FeedInv

\* Steps that change neither the request's way nor its candidates.
LEMMA FeedRests ==
    ASSUME MixerInv, UNCHANGED <<stage, pos, asked, answers, query, candidates, filtered, reply>>
    PROVE  FeedInv'
<1>1. FeedInv
  BY DEF MixerInv
<1>2. SameClock(stage, pos, stage', pos')
  BY DEF SameClock
<1>3. /\ Good(stage', pos', query', Ok("VFHydrator")', candidates')
      /\ Explained(stage', pos', candidates', filtered')
  BY <1>1, <1>2, ClockMoves
<1>4. AnswersKnown'
  <2>1. AnswersKnown /\ P!EnabledIn(stage, query) = P!EnabledIn(stage', query')
    BY <1>1 DEF FeedInv
  <2>. QED
    BY <2>1 DEF AnswersKnown, Snapshot
<1>. QED
  BY <1>1, <1>3, <1>4 DEF FeedInv

LEMMA FeedMoves ==
    ASSUME MixerInv, [P!Next]_(P!vars)
    PROVE  MixerInv'
<1>1. P!PipelineInv'
  BY FeedKeepsContract, P!PipelineMoves DEF MixerInv
<1>2. candidates' \in Seq(Candidate)
  BY <1>1 DEF P!PipelineInv, P!TypeOK
<1>. SUFFICES FeedInv'
  BY <1>1 DEF MixerInv
<1>3. CASE \E c \in P!Component : P!Answer(c)
  BY <1>3, FeedAnswers
<1>4. CASE P!Merge
  BY <1>4, FeedMergesQuery, FeedMergesSource, FeedMergesHydration DEF P!Merge
<1>5. CASE P!Sequential
  BY <1>5, FeedSkips, FeedFilters, FeedScores DEF P!Sequential
<1>6. CASE P!Proceed
  BY <1>2, <1>6, FeedProceeds, FeedSelects DEF P!Proceed
<1>7. CASE \E c \in effects : P!EffectEnds(c)
  BY <1>7, FeedRests DEF P!EffectEnds, P!result, P!call
<1>8. CASE UNCHANGED P!vars
  BY <1>8, FeedRests DEF P!vars, P!result, P!call
<1>. QED
  BY <1>3, <1>4, <1>5, <1>6, <1>7, <1>8 DEF P!Next

\* The invariant the properties of the feed rest on.
THEOREM FeedInvariant == Spec => []MixerInv
<1>1. P!Init => MixerInv
  BY FeedKeepsContract, P!PipelineStarts, FeedStarts DEF MixerInv
<1>2. MixerInv /\ [P!Next]_(P!vars) => MixerInv'
  BY FeedMoves
<1>. QED
  BY <1>1, <1>2, SameInit, SameNext, PTL DEF Spec, Pipeline!Spec

-----------------------------------------------------------------------------
(* The feed. *)

\* What is known of the candidates is known of what is served.
LEMMA ServedAre ==
    ASSUME MixerInv
    PROVE  /\ \A i \in DOMAIN reply :
                /\ reply[i] \in Candidate
                /\ reply[i].author = AuthorOf[reply[i].id]
                /\ reply[i].text => reply[i].rt = RetweetOf[reply[i].id]
                /\ query.in_network_only => query.features /\ AuthorOf[reply[i].id] \in Followed
                /\ \A k \in 1 .. 10 : Enable(Filters[k], query) => Passes(Filters[k], query, reply[i])
                /\ reply[i].score \in Nat /\ reply[i].weighted \in Nat
                /\ Ok("VFHydrator") => reply[i].id \notin Violating
           /\ \A i, j \in DOMAIN reply :
                i < j => /\ reply[i].id # reply[j].id /\ InOrder(reply[i], reply[j])
                         /\ reply[i].score >= reply[j].score
           /\ DOMAIN reply \subseteq Int
<1>1. CASE stage # "done"
  <2>1. DOMAIN reply = {}
    BY <1>1 DEF MixerInv, FeedInv
  <2>. QED
    BY <2>1
<1>2. CASE stage = "done"
  <2>1. /\ candidates \in Seq(Candidate) /\ reply = P!Truncate(candidates, ResultSize)
        /\ Good("done", pos, query, Ok("VFHydrator"), candidates) /\ ResultSize \in Nat
    BY <1>2, TypesKnown, HomeMixerAssumption DEF MixerInv, FeedInv
  <2>2. /\ DOMAIN reply \subseteq DOMAIN candidates /\ DOMAIN reply \subseteq Int
        /\ \A i \in DOMAIN reply : reply[i] = candidates[i]
    BY <2>1 DEF P!Truncate
  <2>3. /\ \A k : /\ Past("done", pos, "filter", k) /\ Past("done", pos, "score", k)
                  /\ Past("done", pos, "post_hydrate", k) /\ Past("done", pos, "post_filter", k)
        /\ "done" \in Later["select"]
    BY DEF Past, Later
  <2>4. ASSUME NEW i \in DOMAIN reply
        PROVE  reply[i] \in Candidate /\ Known("done", pos, query, Ok("VFHydrator"), reply[i])
    BY <2>1, <2>2 DEF Good
  <2>5. ASSUME NEW i \in DOMAIN reply, NEW j \in DOMAIN reply, i < j
        PROVE  Apart("done", pos, reply[i], reply[j])
    BY <2>1, <2>2, <2>5 DEF Good
  <2>6. \A i \in DOMAIN reply :
                /\ reply[i] \in Candidate
                /\ reply[i].author = AuthorOf[reply[i].id]
                /\ reply[i].text => reply[i].rt = RetweetOf[reply[i].id]
                /\ query.in_network_only => query.features /\ AuthorOf[reply[i].id] \in Followed
                /\ \A k \in 1 .. 10 : Enable(Filters[k], query) => Passes(Filters[k], query, reply[i])
                /\ reply[i].score \in Nat /\ reply[i].weighted \in Nat
                /\ Ok("VFHydrator") => reply[i].id \notin Violating
    BY <2>3, <2>4 DEF Known
  <2>7. \A i, j \in DOMAIN reply :
                i < j => /\ reply[i].id # reply[j].id /\ InOrder(reply[i], reply[j])
                         /\ reply[i].score >= reply[j].score
    BY <2>3, <2>5 DEF Apart
  <2>. QED
    BY <2>2, <2>6, <2>7
<1>. QED
  BY <1>1, <1>2

LEMMA ServedIsEligible == MixerInv => ServedEligible
<1>. SUFFICES ASSUME MixerInv PROVE ServedEligible
  OBVIOUS
<1>1. \A i, j \in DOMAIN reply : reply[i].id = reply[j].id => i = j
  <2>1. ASSUME NEW i \in DOMAIN reply, NEW j \in DOMAIN reply, i # j PROVE reply[i].id # reply[j].id
    <3>1. i \in Int /\ j \in Int
      BY ServedAre
    <3>2. i < j \/ j < i
      BY <2>1, <3>1
    <3>. QED
      BY <3>2, ServedAre
  <2>. QED
    BY <2>1
<1>2. ASSUME NEW i \in DOMAIN reply
      PROVE  LET p == reply[i].id
             IN  /\ AuthorOf[p] # Viewer /\ p \notin Old
                 /\ {p, ContentOf(p)} \intersect query.seen = {}
                 /\ query.bottom => {p, ContentOf(p)} \intersect query.served = {}
                 /\ query.features => p \notin MutedText /\ AuthorOf[p] \notin Blocked \union Muted
                 /\ reply[i].subscription \in Option(Subscribed)
                 /\ Ok("VFHydrator") => p \notin Violating
  <2>. DEFINE x == reply[i]
  <2>1. /\ x.author = AuthorOf[x.id] /\ (x.text => x.rt = RetweetOf[x.id])
        /\ \A k \in 1 .. 10 : Enable(Filters[k], query) => Passes(Filters[k], query, x)
        /\ Ok("VFHydrator") => x.id \notin Violating
        /\ x.id \in Post
    BY ServedAre DEF Candidate
  <2>. HIDE DEF x
  <2>2. /\ Passes("CoreDataHydration", query, x) /\ Passes("Age", query, x)
        /\ Passes("SelfTweet", query, x) /\ Passes("IneligibleSubscription", query, x)
        /\ Passes("PreviouslySeen", query, x)
        /\ query.bottom => Passes("PreviouslyServed", query, x)
        /\ Passes("MutedKeyword", query, x) /\ Passes("AuthorSocialgraph", query, x)
    <3>1. /\ Filters[2] = "CoreDataHydration" /\ Filters[3] = "Age" /\ Filters[4] = "SelfTweet"
          /\ Filters[6] = "IneligibleSubscription" /\ Filters[7] = "PreviouslySeen"
          /\ Filters[8] = "PreviouslyServed" /\ Filters[9] = "MutedKeyword"
          /\ Filters[10] = "AuthorSocialgraph"
      BY DEF Filters
    <3>2. \A c \in FilterNames : c # "PreviouslyServed" \/ query.bottom => Enable(c, query)
      BY DEF Enable, FilterNames
    <3>3. \A k \in 1 .. 10 : (Filters[k] # "PreviouslyServed" \/ query.bottom)
                                => Passes(Filters[k], query, x)
      BY <2>1, <3>2, FiltersAre
    <3>. QED
      BY <3>1, <3>3
  <2>3. x.text /\ x.id \notin Old /\ x.author # Viewer
    BY <2>2 DEF Passes
  <2>4. x.subscription \in Option(Subscribed)
    BY <2>2 DEF Passes, Feature, Option
  <2>5. {x.id, ContentOf(x.id)} \subseteq Related(x)
    <3>1. x.rt = RetweetOf[x.id] /\ x.id # 0
      BY <2>1, <2>3, HomeMixerAssumption
    <3>. QED
      BY <3>1 DEF ContentOf, Related
  <2>6. /\ {x.id, ContentOf(x.id)} \intersect query.seen = {}
        /\ query.bottom => {x.id, ContentOf(x.id)} \intersect query.served = {}
    <3>1. /\ Related(x) \intersect query.seen = {}
          /\ query.bottom => Related(x) \intersect query.served = {}
      BY <2>2 DEF Passes
    <3>. QED
      BY <2>5, <3>1
  <2>7. query.features => x.id \notin MutedText /\ x.author \notin Blocked \union Muted
    BY <2>2 DEF Passes, Feature
  <2>. QED
    BY <2>1, <2>3, <2>4, <2>6, <2>7 DEF x
<1>. QED
  BY <1>1, <1>2 DEF ServedEligible

LEMMA ServedIsInOrder == MixerInv => Ranked /\ AuthorOrder /\ InNetworkOnly
<1>. SUFFICES ASSUME MixerInv PROVE Ranked /\ AuthorOrder /\ InNetworkOnly
  OBVIOUS
<1>1. Ranked /\ InNetworkOnly
  BY ServedAre DEF Ranked, InNetworkOnly
<1>2. ASSUME NEW i \in DOMAIN reply, NEW j \in DOMAIN reply,
             i < j, reply[i].author = reply[j].author
      PROVE  reply[i].weighted >= reply[j].weighted
  <2>1. /\ reply[i].weighted < reply[j].weighted => reply[i].score < reply[j].score
        /\ reply[i].score >= reply[j].score
        /\ reply[i].score \in Int /\ reply[j].score \in Int
        /\ reply[i].weighted \in Int /\ reply[j].weighted \in Int
    BY <1>2, ServedAre DEF InOrder
  <2>. QED
    BY <2>1
<1>. QED
  BY <1>1, <1>2 DEF AuthorOrder

\* The conversation the filter takes a candidate to be of: it is one of the posts of the
\* candidate's conversation, and the first one if the source named that.
LEMMA KeyIs ==
    ASSUME NEW c \in Candidate, c.ancestors \in {{}, Ancestors(c.id)}
    PROVE  /\ RootOf[Conversation(c)] = RootOf[c.id]
           /\ Placed(c) => Conversation(c) = RootOf[c.id]
<1>. DEFINE p == c.id
            parent == ReplyTo[p]
            root == RootOf[p]
<1>1. /\ p \in Post /\ parent \in Option(Post) /\ root \in Post /\ Post \subseteq Nat \ {0}
      /\ RootOf[root] = root
      /\ parent = 0 => root = p
      /\ parent # 0 => RootOf[parent] = root /\ root <= parent
  BY HomeMixerAssumption DEF Candidate
<1>2. CASE c.ancestors = {}
  <2>1. Conversation(c) = p
    BY <1>2 DEF Conversation
  <2>2. Placed(c) => parent = 0
    BY <1>2 DEF Placed
  <2>. QED
    BY <1>1, <2>1, <2>2
<1>3. CASE c.ancestors # {}
  <2>1. parent # 0 /\ c.ancestors \in {{parent}, {parent, root}}
    BY <1>3 DEF Ancestors
  <2>2. parent \in Nat /\ root \in Nat
    BY <1>1, <2>1 DEF Option
  <2>. DEFINE least(a) == a \in c.ancestors /\ \A b \in c.ancestors : a <= b
  <2>3. \E a : least(a)
    BY <1>1, <2>1, <2>2
  <2>4. least(Conversation(c))
    BY <1>3, <2>3 DEF Conversation
  <2>5. Conversation(c) \in {parent, root}
    BY <2>1, <2>4
  <2>6. root \in c.ancestors => Conversation(c) = root
    BY <1>1, <2>1, <2>2, <2>4, <2>5
  <2>. QED
    BY <1>1, <2>1, <2>5, <2>6 DEF Placed
<1>. QED
  BY <1>2, <1>3

LEMMA LeftIsBest == MixerInv /\ Aligned => BestOfConversation
<1>. SUFFICES ASSUME MixerInv, Aligned, stage = "done"
              PROVE  /\ \A i, j \in DOMAIN candidates :
                          /\ RootOf[candidates[i].id] = RootOf[candidates[j].id]
                          /\ Placed(candidates[i]) /\ Placed(candidates[j])
                          => i = j
                     /\ \A k \in DOMAIN filtered :
                          filtered[k].visibility # "drop" /\ filtered[k].score # NoScore =>
                              \E i \in DOMAIN candidates :
                                  /\ RootOf[candidates[i].id] = RootOf[filtered[k].id]
                                  /\ filtered[k].score <= candidates[i].score
  BY DEF BestOfConversation
<1>1. /\ candidates \in Seq(Candidate) /\ filtered \in Seq(Candidate)
      /\ Good("done", pos, query, Ok("VFHydrator"), candidates)
      /\ Explained("done", pos, candidates, filtered)
  BY TypesKnown DEF MixerInv, FeedInv
<1>2. Past("done", pos, "post_filter", 2)
  BY DEF Past, Later
<1>3. ASSUME NEW s \in {candidates, filtered}, NEW i \in DOMAIN s
      PROVE  /\ RootOf[Conversation(s[i])] = RootOf[s[i].id]
             /\ Placed(s[i]) => Conversation(s[i]) = RootOf[s[i].id]
  <2>1. s \in Seq(Sound) /\ s[i] \in Sound
    <3>1. s \in Seq(Sound)
      BY Zenon, SameAligned DEF P!Aligned
    <3>. QED
      BY <3>1
  <2>2. s[i] \in Candidate /\ s[i].ancestors \in {{}, Ancestors(s[i].id)}
    BY <2>1, Zenon DEF Sound
  <2>. QED
    BY <2>2, KeyIs
<1>4. ASSUME NEW i \in DOMAIN candidates, NEW j \in DOMAIN candidates, i # j,
             Placed(candidates[i]), Placed(candidates[j])
      PROVE  RootOf[candidates[i].id] # RootOf[candidates[j].id]
  <2>1. i < j \/ j < i
    <3>1. i \in Int /\ j \in Int
      BY <1>1
    <3>. QED
      BY <1>4, <3>1
  <2>2. Conversation(candidates[i]) # Conversation(candidates[j])
    BY <1>1, <1>2, <2>1 DEF Good, Apart
  <2>. QED
    BY <1>3, <1>4, <2>2
<1>5. ASSUME NEW k \in DOMAIN filtered, filtered[k].visibility # "drop", filtered[k].score # NoScore
      PROVE  \E i \in DOMAIN candidates : /\ RootOf[candidates[i].id] = RootOf[filtered[k].id]
                                          /\ filtered[k].score <= candidates[i].score
  <2>1. PICK i \in DOMAIN candidates : /\ Conversation(filtered[k]) = Conversation(candidates[i])
                                       /\ filtered[k].score <= candidates[i].score
    BY <1>1, <1>5 DEF Explained
  <2>2. RootOf[candidates[i].id] = RootOf[filtered[k].id]
    BY <1>3, <2>1
  <2>. QED
    BY <2>1, <2>2
<1>. QED
  BY <1>4, <1>5

\* Whatever fails, nothing is served that the filters have to keep back: no post twice, none
\* the viewer wrote, saw or must not see.
THEOREM FeedEligible == Spec => []ServedEligible
BY FeedInvariant, ServedIsEligible, PTL

\* The feed is in descending order of the final scores.
THEOREM FeedRanked == Spec => []Ranked
BY FeedInvariant, ServedIsInOrder, PTL

\* The factors of the last two scorers leave each author's posts in their order.
THEOREM FeedKeepsAuthorOrder == Spec => []AuthorOrder
BY FeedInvariant, ServedIsInOrder, PTL

\* Requests for posts in the network get no others.
THEOREM FeedStaysInNetwork == Spec => []InNetworkOnly
BY FeedInvariant, ServedIsInOrder, PTL

\* One post at most is left of each conversation among those whose source named its first
\* post, and whatever the conversation filter took out has a post of the same conversation
\* left that is not worse.
THEOREM FeedHasBest == Spec => []BestOfConversation
BY FeedInvariant, FeedAligned, LeftIsBest, PTL

-----------------------------------------------------------------------------
(* The ranking model.  That Prediction gives a score to a post alone, whatever *)
(* it is ranked with, is what its attention mask is for.                       *)

CONSTANTS SeqLen, Offset, Valid, NumLayers
VARIABLES layer, depends

Phoenix == INSTANCE AttentionMask

\* Isolated is inductive with the types.
MaskInv ==
    /\ layer \in Nat
    /\ depends \in [Phoenix!Position -> SUBSET Phoenix!Position]
    /\ Phoenix!Isolated

\* The positions a valid one attends to are its context.
LEMMA AttendsToContext ==
    ASSUME Offset \in Nat, SeqLen \in Nat, Valid \subseteq Phoenix!Position,
           NEW i \in Valid
    PROVE  Phoenix!Attended(i) = Phoenix!Context(i)
<1>1. i \in Int /\ \A j \in Valid : j \in Int
  BY DEF Phoenix!Position
<1>2. \A j \in Valid : Phoenix!AttnMask(i, j) <=> j = i \/ (j <= i /\ j < Offset)
  BY <1>1 DEF Phoenix!AttnMask
<1>3. Phoenix!Allowed(i) = Phoenix!Context(i)
  BY <1>2 DEF Phoenix!Allowed, Phoenix!Context
<1>. QED
  BY <1>3 DEF Phoenix!Attended, Phoenix!Context

\* The context of what is in a context lies in it.
LEMMA ContextCloses ==
    ASSUME Offset \in Nat, SeqLen \in Nat, Valid \subseteq Phoenix!Position,
           NEW i \in Valid, NEW j \in Phoenix!Context(i)
    PROVE  j \in Valid /\ j \in Phoenix!Context(j) /\ Phoenix!Context(j) \subseteq Phoenix!Context(i)
<1>1. j \in Valid /\ (j = i \/ (j <= i /\ j < Offset))
  BY DEF Phoenix!Context
<1>2. i \in Int /\ \A k \in Valid : k \in Int
  BY DEF Phoenix!Position
<1>3. ASSUME j # i, NEW k \in Phoenix!Context(j)
      PROVE  k \in Phoenix!Context(i)
  <2>1. j <= i /\ j < Offset /\ k \in Valid /\ k <= j
    BY <1>1, <1>2, <1>3 DEF Phoenix!Context
  <2>2. k <= i /\ k < Offset
    BY <1>1, <1>2, <2>1
  <2>. QED
    BY <2>1, <2>2 DEF Phoenix!Context
<1>4. j \in Phoenix!Context(j)
  BY DEF Phoenix!Context
<1>. QED
  BY <1>1, <1>3, <1>4

\* Candidate isolation, for every length, offset, padding and depth: the score of
\* a candidate does not depend on which other candidates are in the batch.
THEOREM CandidateIsolation ==
    ASSUME Offset \in Nat, SeqLen \in Nat, Valid \subseteq Phoenix!Position
    PROVE  Phoenix!Spec => []Phoenix!Isolated
<1>1. Phoenix!Init => MaskInv
  BY DEF Phoenix!Init, MaskInv, Phoenix!Isolated
<1>2. MaskInv /\ [Phoenix!Layer]_(Phoenix!vars) => MaskInv'
  <2>. SUFFICES ASSUME MaskInv, [Phoenix!Layer]_(Phoenix!vars) PROVE MaskInv'
    OBVIOUS
  <2>1. CASE UNCHANGED Phoenix!vars
    BY <2>1 DEF MaskInv, Phoenix!Isolated, Phoenix!vars
  <2>2. CASE Phoenix!Layer
    <3>1. layer' \in Nat /\ layer' # 0
      BY <2>2 DEF Phoenix!Layer, MaskInv
    <3>2. depends' \in [Phoenix!Position -> SUBSET Phoenix!Position]
      <4>1. ASSUME NEW i \in Phoenix!Position
            PROVE  UNION {depends[j] : j \in Phoenix!Attended(i)} \subseteq Phoenix!Position
        BY DEF MaskInv, Phoenix!Attended, Phoenix!Allowed
      <4>. QED
        BY <2>2, <4>1 DEF Phoenix!Layer, MaskInv
    <3>3. ASSUME NEW i \in Valid
          PROVE  depends'[i] = Phoenix!Context(i)
      <4>1. depends'[i] = depends[i] \union UNION {depends[j] : j \in Phoenix!Context(i)}
        BY <2>2, AttendsToContext DEF Phoenix!Layer
      <4>2. \A j \in Phoenix!Context(i) : j \in depends[j] /\ depends[j] \subseteq Phoenix!Context(i)
        <5>. SUFFICES ASSUME NEW j \in Phoenix!Context(i)
                      PROVE  j \in depends[j] /\ depends[j] \subseteq Phoenix!Context(i)
          OBVIOUS
        <5>1. j \in Valid /\ j \in Phoenix!Context(j) /\ Phoenix!Context(j) \subseteq Phoenix!Context(i)
          BY ContextCloses
        <5>2. depends[j] = {j} \/ depends[j] = Phoenix!Context(j)
          BY <5>1 DEF MaskInv, Phoenix!Isolated
        <5>. QED
          BY <5>1, <5>2
      <4>3. i \in Phoenix!Context(i)
        BY DEF Phoenix!Context
      <4>. QED
        BY <4>1, <4>2, <4>3
    <3>. QED
      BY <3>1, <3>2, <3>3 DEF MaskInv, Phoenix!Isolated, Phoenix!Context
  <2>. QED
    BY <2>1, <2>2
<1>3. MaskInv => Phoenix!Isolated
  BY DEF MaskInv
<1>. QED
  BY <1>1, <1>2, <1>3, PTL DEF Phoenix!Spec
=============================================================================
