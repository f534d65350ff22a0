------------------------ MODULE ThunderServiceProofs ------------------------
(***************************************************************************)
(* The types and the promises of ThunderService, for any number of         *)
(* requests, posts and users, any limits and any changes of the store.     *)
(*                                                                         *)
(* A reply is sound because every turn of a user adds at most the cap, and *)
(* every post at most once: Turn counts the turns, CountInv and TimesInv   *)
(* what they brought.  A wanted post is missing for a reason because of    *)
(* what the scan of its author knows about the entries behind its cursor   *)
(* (ScanInv), which is remembered for the users who had their turn         *)
(* (WantInv) while the store goes on changing.  Both are stated of the     *)
(* values a step depends on, so that a step is an argument about values.   *)
(***************************************************************************)
EXTENDS ThunderService, FiniteSetTheorems, SequenceTheorems, WellFoundedInduction, TLAPS

-----------------------------------------------------------------------------
(* The invariants. *)

\* What the timeline m may list.
OfMap(m, p) == IF m = "video" THEN ~Light[p].is_reply ELSE MainMap(p) = m

\* A timeline lists posts of S by its user, of its map, and none twice.
Listing(T, S) ==
    \A m \in Map : \A u \in User :
        /\ \A i \in DOMAIN T[m][u] :
              T[m][u][i] \in S /\ Light[T[m][u][i]].author_id = u /\ OfMap(m, T[m][u][i])
        /\ \A i, j \in DOMAIN T[m][u] : T[m][u][i] = T[m][u][j] => i = j

StoreInv ==
    /\ posts \intersect deleted = {}
    /\ Listing(timeline, posts \union deleted \union trimmed)

\* Where the request x and its task t are, and what the task was given; G was
\* deleted when it was spawned, S is steady since.
QueryInv(x, t, G, S, P, D) ==
    /\ x.stage \in {"new", "strato", "rejected"} => t.pc = "none"
    /\ x.stage = "scan" => t.pc # "none"
    /\ x.stage = "strato" => x.query \in Query /\ x.query.following = <<>>
    /\ x.stage = "done" => t.pc = "done" /\ x.reply = t.best
    /\ t.pc # "none" =>
          /\ x.query \in Query
          /\ x.query.following # <<>> => t.following = Take(x.query.following, MaxInput)
          /\ Len(t.following) <= MaxInput
          /\ t.excluded = Elements(Take(x.query.exclude, MaxInput))
          /\ t.map \in FromMaps(x.query)
          /\ G \subseteq D /\ S \subseteq P

\* Where the task is in its lists and in the timelines T.
Cursor(t, T) ==
    /\ t.pc = "user" => t.u <= Len(t.following) + 1
    /\ t.pc = "scan" =>
          /\ t.u \in DOMAIN t.following
          /\ t.i \in 1 .. Len(T[t.map][Author(t)])
          /\ t.budget \in 1 .. MaxScan /\ t.room \in 1 .. Cap(t.map)
          /\ ~t.late
    /\ t.pc \in {"rank", "done", "panicked"} => t.map # "original"

ServiceInv ==
    /\ TypeOK /\ StoreInv /\ PermitsAccounted
    /\ \A r \in Request :
          /\ QueryInv(req[r], task[r], gone[r], steady[r], posts, deleted)
          /\ Cursor(task[r], timeline)

\* What a task has found may be served.
FoundInv(t, q, G) ==
    t.pc # "none" => \A i \in DOMAIN t.found :
        /\ t.found[i] \notin G \union t.excluded
        /\ ~OwnRetweet(t.found[i], q.user_id)
        /\ \E m \in FromMaps(q) : OfMap(m, t.found[i])
        /\ ~q.is_video_request => Answers(t.found[i], Post, Elements(t.following))

Turns(v, s, n) == Cardinality({k \in 1 .. n : s[k] = v})

Finished(t, m) ==
    t.pc \in {"rank", "done", "panicked"} \/ (m = "original" /\ t.map = "secondary")

\* The turns the user v has had in the map m, a current one included.
Turn(t, m, v) ==
    IF Finished(t, m) THEN Turns(v, t.following, Len(t.following))
    ELSE IF m = t.map THEN Turns(v, t.following, IF t.pc = "scan" THEN t.u ELSE t.u - 1)
    ELSE 0

Current(t, m, v) == t.pc = "scan" /\ m = t.map /\ v = Author(t)

ByMap(m, p) == m = "video" \/ MainMap(p) = m
Mine(m, v) == {p \in Post : Light[p].author_id = v /\ ByMap(m, p)}
Among(X, s) == Cardinality({i \in DOMAIN s : s[i] \in X})

\* A turn brings no more posts than the cap.
CountInv(t, q) ==
    t.pc # "none" => \A m \in FromMaps(q) : \A v \in User :
        Among(Mine(m, v), t.found) + (IF Current(t, m, v) THEN t.room ELSE 0)
            <= Cap(m) * Turn(t, m, v)

\* Is p still ahead of the scan?
Ahead(t, T, m, p) ==
    /\ Current(t, m, Light[p].author_id)
    /\ \E k \in 1 .. t.i : T[m][Light[p].author_id][k] = p

\* A turn brings a post once.
TimesInv(t, q, T) ==
    t.pc # "none" => \A m \in FromMaps(q) : \A p \in Post :
        ByMap(m, p) =>
            Among({p}, t.found) + (IF Ahead(t, T, m, p) THEN 1 ELSE 0)
                <= Turn(t, m, Light[p].author_id)

\* Wanted, FoundOf, CutOff and BeyondScan of a task t, its query q, what is
\* steady S and the timelines T.
Wants(t, q, S, T, m, p) ==
    /\ p \in S \ t.excluded
    /\ Light[p].author_id \in Elements(t.following)
    /\ p \in Elements(T[m][Light[p].author_id])
    /\ ~OwnRetweet(p, q.user_id)
    /\ m = "secondary" => Answers(p, S, Elements(t.following))

Has(t, m, u) == {p \in Elements(t.found) : Light[p].author_id = u /\ ByMap(m, p)}

Cut(t, m, p) ==
    /\ t.late
    /\ \A u \in Elements(t.following) :
          Place(u, t.following) >= Place(Light[p].author_id, t.following) => Has(t, m, u) = {}

\* The entries of s after the index i that are in X.
After(s, i, X) == Cardinality({k \in DOMAIN s : k > i /\ s[k] \in X})

Beyond(t, T, m, p) ==
    \E at \in DOMAIN T[m][Light[p].author_id] :
        /\ T[m][Light[p].author_id][at] = p
        /\ After(T[m][Light[p].author_id], at, Post \ t.excluded) >= MaxScan

\* Why p is not looked for any longer once its author had a turn.
Reason(t, T, m, p) ==
    \/ p \in Elements(t.found)
    \/ Beyond(t, T, m, p)
    \/ Cardinality(Has(t, m, Light[p].author_id)) >= Cap(m)

\* What the scan of a user knows about the entries behind it.
ScanInv(t, q, S, T) ==
    t.pc = "scan" =>
        /\ After(T[t.map][Author(t)], t.i, Post \ t.excluded) + t.budget = MaxScan
        /\ After(T[t.map][Author(t)], t.i, Elements(t.found)) + t.room >= Cap(t.map)
        /\ \A k \in DOMAIN T[t.map][Author(t)] :
              k > t.i /\ Wants(t, q, S, T, t.map, T[t.map][Author(t)][k])
                  => T[t.map][Author(t)][k] \in Elements(t.found)

\* What is known about the users who had their turn, and of a map once it is done.
WantInv(t, q, S, T) ==
    t.pc # "none" => \A m \in FromMaps(q) : \A p \in Post :
        Wants(t, q, S, T, m, p) =>
            /\ Finished(t, m) => Reason(t, T, m, p) \/ Cut(t, m, p)
            /\ m = t.map /\ (\E k \in 1 .. t.u - 1 : t.following[k] = Light[p].author_id)
                  => Reason(t, T, m, p)

BestInv(t, q) ==
    t.pc = "done" => \E s \in Orders(t.found) : t.best = Take(s, Limit(q))

Local(t, q, G, S, T) ==
    /\ FoundInv(t, q, G) /\ CountInv(t, q) /\ TimesInv(t, q, T)
    /\ ScanInv(t, q, S, T) /\ WantInv(t, q, S, T) /\ BestInv(t, q)

TaskInv ==
    \A r \in Request : Local(task[r], req[r].query, gone[r], steady[r], timeline)

-----------------------------------------------------------------------------
(* The timelines the service starts with. *)

LEMMA LeastNat ==
    ASSUME NEW T, T \subseteq Nat, T # {}
    PROVE  \E x \in T : \A y \in T : x <= y
<1>1. \E x \in T : \A y \in T : ~ (<<y, x>> \in OpToRel(<, Nat))
  BY WFMin, NatLessThanWellFounded, Zenon
<1>2. PICK x \in T : \A y \in T : ~ (<<y, x>> \in OpToRel(<, Nat))
  BY <1>1, Zenon
<1>3. ASSUME NEW y \in Nat, y < x
      PROVE  <<y, x>> \in OpToRel(<, Nat)
  <2>1. <<y, x>> \in Nat \X Nat /\ <<y, x>>[1] < <<y, x>>[2]
    BY <1>3
  <2>. QED
    BY <2>1, Zenon DEF OpToRel
<1>4. \A y \in T : ~(y < x)
  BY <1>2, <1>3, Zenon
<1>. QED
  BY <1>4

Empty == [m \in Map |-> [u \in User |-> <<>>]]
Early(n) == {Arrived[i] : i \in 1 .. n}
Fill(T, n) == Pushed(T, Arrived[n], Early(n))
\* f is Filled up to n.
Filling(f, n) == f = [k \in 0 .. n |-> IF k = 0 THEN Empty ELSE Fill(f[k - 1], k)]

LEMMA FillingExists ==
    ASSUME NEW n \in Nat
    PROVE  \E f : Filling(f, n)
<1>. DEFINE Bad == {k \in Nat : ~ \E f : Filling(f, k)}
<1>1. CASE Bad = {}
  BY <1>1
<1>2. CASE Bad # {}
  <2>1. PICK x \in Bad : \A y \in Bad : x <= y
    BY <1>2, LeastNat
  <2>2. x # 0
    <3>. DEFINE f == [k \in 0 .. 0 |-> Empty]
    <3>1. f = [k \in 0 .. 0 |-> IF k = 0 THEN Empty ELSE Fill(f[k - 1], k)]
      OBVIOUS
    <3>. HIDE DEF f
    <3>. QED
      BY <3>1, <2>1, Zenon DEF Filling
  <2>3. x - 1 \in Nat /\ x - 1 \notin Bad
    BY <2>1, <2>2
  <2>4. PICK f : Filling(f, x - 1)
    BY <2>3
  <2>5. f = [k \in 0 .. x - 1 |-> IF k = 0 THEN Empty ELSE Fill(f[k - 1], k)]
    BY <2>4 DEF Filling
  <2>. DEFINE g == [k \in 0 .. x |-> IF k = x THEN Fill(f[x - 1], x) ELSE f[k]]
  <2>6. g[x] = Fill(g[x - 1], x)
    BY <2>2
  <2>7. ASSUME NEW k \in 0 .. x
        PROVE  g[k] = IF k = 0 THEN Empty ELSE Fill(g[k - 1], k)
    <3>1. CASE k = x
      BY <3>1, <2>6, <2>2
    <3>2. CASE k # x
      <4>1. k \in 0 .. x - 1 /\ g[k] = f[k]
        BY <3>2
      <4>2. k # 0 => g[k - 1] = f[k - 1]
        BY <3>2
      <4>. HIDE DEF g
      <4>3. f[k] = IF k = 0 THEN Empty ELSE Fill(f[k - 1], k)
        BY <4>1, <2>5
      <4>. QED
        BY <4>1, <4>2, <4>3, Zenon
    <3>. QED
      BY <3>1, <3>2, Zenon
  <2>8. g = [k \in 0 .. x |-> g[k]]
    OBVIOUS
  <2>. HIDE DEF g
  <2>9. g = [k \in 0 .. x |-> IF k = 0 THEN Empty ELSE Fill(g[k - 1], k)]
    BY <2>7, <2>8, Zenon
  <2>. QED
    BY <2>9, <2>1, Zenon DEF Filling
<1>. QED
  BY <1>1, <1>2

LEMMA FillingAgrees ==
    ASSUME NEW n \in Nat, NEW m \in Nat, NEW f, NEW g, Filling(f, n), Filling(g, m),
           NEW k \in 0 .. n, k <= m
    PROVE  f[k] = g[k]
<1>. DEFINE Bad == {j \in 0 .. n : j <= m /\ f[j] # g[j]}
<1>1. CASE Bad = {}
  BY <1>1
<1>2. CASE Bad # {}
  <2>. Bad \subseteq Nat
    OBVIOUS
  <2>1. PICK x \in Bad : \A y \in Bad : x <= y
    BY <1>2, LeastNat
  <2>2. /\ f[x] = IF x = 0 THEN Empty ELSE Fill(f[x - 1], x)
        /\ g[x] = IF x = 0 THEN Empty ELSE Fill(g[x - 1], x)
    BY DEF Filling
  <2>3. x # 0 => x - 1 \in 0 .. n /\ x - 1 <= m /\ x - 1 \notin Bad
    BY <2>1
  <2>4. x # 0 => f[x - 1] = g[x - 1]
    BY <2>3
  <2>. QED
    BY <2>1, <2>2, <2>4, Zenon
<1>. QED
  BY <1>1, <1>2

\* Filled is what its definition says: there is such a function.
LEMMA FilledUnfolds ==
    ASSUME NEW n \in Nat
    PROVE  Filled[n] = IF n = 0 THEN Empty ELSE Fill(Filled[n - 1], n)
<1>. DEFINE F == [k \in Nat |-> (CHOOSE f : Filling(f, k))[k]]
            Def(G) == [k \in Nat |-> IF k = 0 THEN Empty ELSE Fill(G[k - 1], k)]
<1>1. ASSUME NEW k \in Nat
      PROVE  F[k] = IF k = 0 THEN Empty ELSE Fill(F[k - 1], k)
  <2>1. PICK f : f = CHOOSE h : Filling(h, k)
    OBVIOUS
  <2>2. Filling(f, k)
    BY <2>1, FillingExists, Zenon
  <2>3. F[k] = f[k]
    BY <2>1
  <2>4. k \in 0 .. k
    OBVIOUS
  <2>5. f[k] = IF k = 0 THEN Empty ELSE Fill(f[k - 1], k)
    BY <2>2, <2>4 DEF Filling
  <2>6. ASSUME k # 0 PROVE F[k - 1] = f[k - 1]
    <3>1. k - 1 \in Nat /\ k - 1 \in 0 .. k - 1 /\ k - 1 <= k
      BY <2>6
    <3>2. PICK g : g = CHOOSE h : Filling(h, k - 1)
      OBVIOUS
    <3>3. Filling(g, k - 1)
      BY <3>1, <3>2, FillingExists, Zenon
    <3>4. F[k - 1] = g[k - 1]
      BY <3>1, <3>2
    <3>5. g[k - 1] = f[k - 1]
      BY <3>1, <3>3, <2>2, FillingAgrees
    <3>. QED
      BY <3>4, <3>5
  <2>. HIDE DEF F
  <2>. QED
    BY <2>3, <2>5, <2>6, Zenon
<1>2. F = [k \in Nat |-> F[k]]
  OBVIOUS
<1>. HIDE DEF F
<1>3. F = Def(F)
  BY <1>1, <1>2, Zenon
<1>4. Filled = CHOOSE G : G = Def(G)
  BY Zenon DEF Filled, Fill, Early, Empty
<1>5. Filled = Def(Filled)
  BY <1>3, <1>4, Zenon
<1>. QED
  BY <1>5

Timeline == [Map -> [User -> Seq(Post)]]

LEMMA LightType ==
    ASSUME NEW p \in Post
    PROVE  /\ Light[p].author_id \in User /\ Light[p].is_reply \in BOOLEAN
           /\ Light[p].is_retweet \in BOOLEAN /\ Light[p].created_at \in Nat
           /\ MainMap(p) \in {"original", "secondary"}
<1>1. Light[p] \in LightPost
  BY ServiceAssumption
<1>. QED
  BY <1>1 DEF LightPost, MainMap

LEMMA PushedLists ==
    ASSUME NEW T \in Timeline, NEW R \in SUBSET Post, NEW S, NEW p \in Post, p \notin R,
           Listing(T, R)
    PROVE  Pushed(T, p, S) \in Timeline /\ Listing(Pushed(T, p, S), R \union {p})
<1>. DEFINE new == Pushed(T, p, S)
<1>1. ASSUME NEW m \in Map, NEW u \in User
      PROVE  /\ T[m][u] \in Seq(Post)
             /\ new[m][u] = IF m \in MapsOf(p, S) /\ u = Light[p].author_id
                            THEN Append(T[m][u], p) ELSE T[m][u]
  BY DEF Timeline, Pushed
<1>2. new \in Timeline
  <2>1. \A m \in Map : \A u \in User : new[m][u] \in Seq(Post)
    <3>. SUFFICES ASSUME NEW m \in Map, NEW u \in User PROVE new[m][u] \in Seq(Post)
      OBVIOUS
    <3>. HIDE DEF new
    <3>1. Append(T[m][u], p) \in Seq(Post)
      BY <1>1
    <3>. QED
      BY <1>1, <3>1, Zenon
  <2>. QED
    BY <2>1 DEF Pushed, Timeline
<1>. HIDE DEF new
<1>3. ASSUME NEW m \in MapsOf(p, S) PROVE OfMap(m, p)
  BY <1>3, LightType DEF MapsOf, VideoEligible, OfMap
<1>4. Listing(new, R \union {p})
  <2>. SUFFICES ASSUME NEW m \in Map, NEW u \in User
       PROVE  /\ \A i \in DOMAIN new[m][u] : new[m][u][i] \in R \union {p}
                     /\ Light[new[m][u][i]].author_id = u /\ OfMap(m, new[m][u][i])
              /\ \A i, j \in DOMAIN new[m][u] : new[m][u][i] = new[m][u][j] => i = j
    BY Zenon DEF Listing
  <2>1. /\ \A i \in DOMAIN T[m][u] :
              T[m][u][i] \in R /\ Light[T[m][u][i]].author_id = u /\ OfMap(m, T[m][u][i])
        /\ \A i, j \in DOMAIN T[m][u] : T[m][u][i] = T[m][u][j] => i = j
    BY DEF Listing
  <2>2. CASE m \in MapsOf(p, S) /\ u = Light[p].author_id
    <3>. DEFINE s == T[m][u]
                a == Append(s, p)
    <3>1. s \in Seq(Post) /\ new[m][u] = a
      BY <1>1, <2>2
    <3>2. \A i \in DOMAIN a : \/ i \in DOMAIN s /\ a[i] = s[i]
                              \/ i = Len(s) + 1 /\ a[i] = p
      BY <3>1
    <3>3. OfMap(m, p)
      BY <1>3, <2>2
    <3>4. \A i \in DOMAIN s : s[i] # p
      BY <2>1
    <3>. HIDE DEF s, a
    <3>5. \A i \in DOMAIN s : s[i] \in R /\ Light[s[i]].author_id = u /\ OfMap(m, s[i])
      BY <2>1, Zenon DEF s
    <3>6. \A i, j \in DOMAIN s : s[i] = s[j] => i = j
      BY <2>1, Zenon DEF s
    <3>7. \A i \in DOMAIN a : a[i] \in R \union {p} /\ Light[a[i]].author_id = u /\ OfMap(m, a[i])
      BY <3>2, <3>3, <3>5, <2>2, Zenon
    <3>8. \A i, j \in DOMAIN a : a[i] = a[j] => i = j
      BY <3>2, <3>4, <3>6, Zenon
    <3>. QED
      BY <3>1, <3>7, <3>8, Zenon
  <2>3. CASE ~(m \in MapsOf(p, S) /\ u = Light[p].author_id)
    <3>1. new[m][u] = T[m][u]
      BY <1>1, <2>3
    <3>. QED
      BY <2>1, <3>1, Zenon
  <2>. QED
    BY <2>2, <2>3, Zenon
<1>. QED
  BY <1>2, <1>4 DEF new

LEMMA FilledLists ==
    ASSUME NEW n \in 0 .. Len(Arrived)
    PROVE  Filled[n] \in Timeline /\ Listing(Filled[n], Early(n))
<1>. DEFINE Good(k) == Filled[k] \in Timeline /\ Listing(Filled[k], Early(k))
            Bad == {k \in 0 .. Len(Arrived) : ~Good(k)}
<1>0. Len(Arrived) \in Nat /\ \A k \in 1 .. Len(Arrived) : Arrived[k] \in Post
  BY ServiceAssumption
<1>1. CASE Bad = {}
  BY <1>1
<1>2. CASE Bad # {}
  <2>0. Bad \subseteq Nat
    BY <1>0
  <2>1. PICK x \in Bad : \A y \in Bad : x <= y
    BY <1>2, <2>0, LeastNat
  <2>2. CASE x = 0
    <3>1. Filled[x] = Empty
      BY <2>2, FilledUnfolds
    <3>2. Empty \in Timeline
      BY DEF Empty, Timeline
    <3>3. Listing(Empty, Early(x))
      BY DEF Listing, Empty
    <3>. QED
      BY <3>1, <3>2, <3>3, <2>1, Zenon
  <2>3. CASE x # 0
    <3>1. x \in Nat /\ x - 1 \in Nat /\ x - 1 \in 0 .. Len(Arrived) /\ x \in 1 .. Len(Arrived) /\ x - 1 \notin Bad
      BY <1>0, <2>1, <2>3
    <3>2. Good(x - 1)
      BY <3>1
    <3>3. Filled[x] = Pushed(Filled[x - 1], Arrived[x], Early(x))
      BY <3>1, <2>3, FilledUnfolds, Zenon DEF Fill
    <3>4. Arrived[x] \notin Early(x - 1) /\ Arrived[x] \in Post /\ Early(x - 1) \in SUBSET Post
      <4>1. 1 .. x - 1 \subseteq 1 .. Len(Arrived)
        BY <1>0, <3>1
      <4>2. \A i \in 1 .. x - 1 : Arrived[i] # Arrived[x]
        BY <3>1, <4>1, ServiceAssumption
      <4>. QED
        BY <1>0, <4>1, <4>2, <3>1 DEF Early
    <3>5. Early(x) = Early(x - 1) \union {Arrived[x]}
      <4>1. 1 .. x = (1 .. x - 1) \union {x}
        BY <3>1
      <4>. QED
        BY <4>1, Zenon DEF Early
    <3>6. Good(x)
      <4>1. Filled[x - 1] \in Timeline /\ Listing(Filled[x - 1], Early(x - 1))
        BY <3>2
      <4>. DEFINE T == Filled[x - 1]
      <4>. HIDE DEF T
      <4>2. T \in Timeline /\ Listing(T, Early(x - 1))
        BY <4>1 DEF T
      <4>3. /\ Pushed(T, Arrived[x], Early(x)) \in Timeline
            /\ Listing(Pushed(T, Arrived[x], Early(x)), Early(x - 1) \union {Arrived[x]})
        BY <4>2, <3>4, PushedLists
      <4>. QED
        BY <4>3, <3>3, <3>5, Zenon DEF T
    <3>. QED
      BY <3>6, <2>1, Zenon
  <2>. QED
    BY <2>2, <2>3
<1>. QED
  BY <1>1, <1>2

-----------------------------------------------------------------------------
(* What a step does to the values a request keeps. *)

LEMMA CapNat ==
    ASSUME NEW m \in Map
    PROVE  Cap(m) \in Nat
BY ServiceAssumption DEF Map, Cap

LEMMA TakeIs ==
    ASSUME NEW S, NEW s \in Seq(S), NEW n \in Nat
    PROVE  /\ Take(s, n) \in Seq(S) /\ Len(Take(s, n)) <= n /\ Len(Take(s, n)) <= Len(s)
           /\ Len(Take(s, n)) = n \/ Take(s, n) = s
           /\ \A i \in DOMAIN Take(s, n) : i \in DOMAIN s /\ Take(s, n)[i] = s[i]
<1>1. Least(n, Len(s)) \in 0 .. Len(s)
  BY DEF Least
<1>2. /\ Take(s, n) \in Seq(S) /\ Len(Take(s, n)) = Least(n, Len(s))
      /\ \A i \in 1 .. Len(Take(s, n)) : Take(s, n)[i] = s[i]
  BY <1>1 DEF Take
<1>3. Len(Take(s, n)) <= n /\ Len(Take(s, n)) <= Len(s)
  BY <1>1, <1>2 DEF Least
<1>4. \A i \in DOMAIN Take(s, n) : i \in DOMAIN s /\ Take(s, n)[i] = s[i]
  BY <1>2, <1>3
<1>5. CASE Len(Take(s, n)) # n
  <2>1. Len(Take(s, n)) = Len(s)
    BY <1>2, <1>5 DEF Least
  <2>2. \A i \in 1 .. Len(s) : Take(s, n)[i] = s[i]
    BY <2>1, <1>2, Zenon
  <2>3. Take(s, n) = s
    BY <2>1, <2>2, <1>2, SeqEqual
  <2>. QED
    BY <1>2, <1>3, <1>4, <2>3
<1>. QED
  BY <1>2, <1>3, <1>4, <1>5

\* How a task begins with a user, and goes on with the entry p.
Begun(t, T) ==
    [t EXCEPT !.pc = "scan", !.budget = MaxScan, !.room = Cap(t.map),
              !.i = Len(T[t.map][Author(t)])]
Skips(t) == [t EXCEPT !.i = @ - 1]
Refuses(t) == [t EXCEPT !.i = @ - 1, !.budget = @ - 1]
Takes(t, p) == [t EXCEPT !.i = @ - 1, !.budget = @ - 1, !.room = @ - 1, !.found = Append(@, p)]

\* The task of r before it settles, an entry or the beginning of a user further.
Scans(r, t1) ==
    \/ MoreUsers(task[r]) /\ t1 = Begun(task[r], timeline)
    \/ /\ task[r].pc = "scan" /\ Entry(task[r]) \in task[r].excluded
       /\ t1 = Skips(task[r])
    \/ /\ task[r].pc = "scan" /\ Entry(task[r]) \notin task[r].excluded
       /\ ~Eligible(r, Entry(task[r]))
       /\ t1 = Refuses(task[r])
    \/ /\ task[r].pc = "scan" /\ Entry(task[r]) \notin task[r].excluded
       /\ Eligible(r, Entry(task[r]))
       /\ t1 = Takes(task[r], Entry(task[r]))

Goes(r, t) ==
    \/ \E t1 : Scans(r, t1) /\ t = Settled(t1)
    \/ MoreUsers(task[r]) /\ t = [task[r] EXCEPT !.late = TRUE]
    \/ /\ task[r].pc = "user" /\ ~MoreUsers(task[r])
       /\ t = IF task[r].map = "original" THEN [task[r] EXCEPT !.map = "secondary", !.u = 1]
              ELSE [task[r] EXCEPT !.pc = "rank", !.u = 1]
    \/ /\ task[r].pc = "rank"
       /\ \E s \in Orders(task[r].found) :
             t = [task[r] EXCEPT !.pc = "done", !.best = Take(s, Limit(req[r].query))]
    \/ task[r].pc = "rank" /\ t = [task[r] EXCEPT !.pc = "panicked"]

\* How a request enters, and what becomes of it without its task.
Enters(x, t, G, S) ==
    \E q \in Query : \E list \in Seq(User) :
        /\ q.following # <<>> => list = q.following
        /\ x = [stage |-> "scan", query |-> q, reply |-> <<>>]
        /\ t = NewTask(q, list) /\ G = deleted /\ S = Listed

Stays(r, x) ==
    \/ req[r].stage = "new" /\ \E q \in Query :
          q.following = <<>> /\ x = [stage |-> "strato", query |-> q, reply |-> <<>>]
    \/ req[r].stage = "new" /\ x = [req[r] EXCEPT !.stage = "rejected"]
    \/ req[r].stage \in {"strato", "scan"} /\ \E stage \in {"failed", "cancelled"} :
          x = [req[r] EXCEPT !.stage = stage, !.reply = <<>>]
    \/ /\ req[r].stage = "scan" /\ task[r].pc = "done"
       /\ x = [req[r] EXCEPT !.stage = "done", !.reply = task[r].best]

Moves(r, x, t, G, S) ==
    /\ req' = [req EXCEPT ![r] = x] /\ task' = [task EXCEPT ![r] = t]
    /\ gone' = [gone EXCEPT ![r] = G] /\ steady' = [steady EXCEPT ![r] = S]
    /\ UNCHANGED store
    /\ \/ req[r].stage \in {"new", "strato"} /\ Enters(x, t, G, S)
       \/ Stays(r, x) /\ t = task[r] /\ G = gone[r] /\ S = steady[r]
       \/ Goes(r, t) /\ x = req[r] /\ G = gone[r] /\ S = steady[r]

RequestStep(r) ==
    (\E q \in Query : Admit(r, q)) \/ Reject(r) \/ Cancel(r) \/ Proceed(r)

LEMMA RequestMoves ==
    ASSUME TypeOK, NEW r \in Request, RequestStep(r),
           QueryInv(req[r], task[r], gone[r], steady[r], posts, deleted)
    PROVE  \E x, t, G, S : Moves(r, x, t, G, S)
<1>0. /\ req = [req EXCEPT ![r] = req[r]] /\ task = [task EXCEPT ![r] = task[r]]
      /\ gone = [gone EXCEPT ![r] = gone[r]] /\ steady = [steady EXCEPT ![r] = steady[r]]
  BY DEF TypeOK
<1>1. ASSUME NEW q \in Query, NEW list \in Seq(User), q.following # <<>> => list = q.following,
             req[r].stage \in {"new", "strato"}, Spawn(r, q, list), UNCHANGED store
      PROVE  \E x, t, G, S : Moves(r, x, t, G, S)
  <2>. DEFINE x == [stage |-> "scan", query |-> q, reply |-> <<>>]
  <2>1. Enters(x, NewTask(q, list), deleted, Listed)
    BY <1>1, Zenon DEF Enters
  <2>2. Moves(r, x, NewTask(q, list), deleted, Listed)
    BY <1>1, <2>1, Zenon DEF Moves, Spawn
  <2>. QED
    BY <2>2, Zenon
<1>2. ASSUME NEW x, Stays(r, x), req' = [req EXCEPT ![r] = x], UNCHANGED <<store, task, gone, steady>>
      PROVE  \E y, t, G, S : Moves(r, y, t, G, S)
  <2>1. Moves(r, x, task[r], gone[r], steady[r])
    BY <1>0, <1>2, Zenon DEF Moves
  <2>. QED
    BY <2>1, Zenon
<1>3. ASSUME NEW t, Goes(r, t), task' = [task EXCEPT ![r] = t], UNCHANGED TaskOnly
      PROVE  \E x, y, G, S : Moves(r, x, y, G, S)
  <2>1. Moves(r, req[r], t, gone[r], steady[r])
    BY <1>0, <1>3, Zenon DEF Moves, TaskOnly
  <2>. QED
    BY <2>1, Zenon
<1>4. ASSUME NEW q \in Query, Admit(r, q)
      PROVE  \E x, t, G, S : Moves(r, x, t, G, S)
  <2>1. q.following \in Seq(User)
    BY ServiceAssumption DEF Asked
  <2>2. req[r].stage = "new" /\ UNCHANGED store
    BY <1>4, Zenon DEF Admit
  <2>3. CASE q.following = <<>> /\ q.debug
    <3>. DEFINE x == [stage |-> "strato", query |-> q, reply |-> <<>>]
    <3>1. Stays(r, x)
      BY <2>2, <2>3, Zenon DEF Stays
    <3>2. req' = [req EXCEPT ![r] = x] /\ UNCHANGED <<store, task, gone, steady>>
      BY <1>4, <2>3, Zenon DEF Admit
    <3>. QED
      BY <3>1, <3>2, <1>2, Zenon
  <2>4. CASE ~(q.following = <<>> /\ q.debug)
    <3>1. Spawn(r, q, q.following)
      BY <1>4, <2>4, Zenon DEF Admit
    <3>. QED
      BY <3>1, <2>1, <2>2, <1>1, Zenon
  <2>. QED
    BY <2>3, <2>4, Zenon
<1>5. ASSUME Reject(r)
      PROVE  \E x, t, G, S : Moves(r, x, t, G, S)
  <2>. DEFINE x == [req[r] EXCEPT !.stage = "rejected"]
  <2>1. Stays(r, x) /\ UNCHANGED <<store, task, gone, steady>>
    BY <1>5, Zenon DEF Reject, Stays
  <2>2. req' = [req EXCEPT ![r] = x]
    BY <1>5 DEF Reject
  <2>. QED
    BY <2>1, <2>2, <1>2, Zenon
<1>6. ASSUME NEW stage, NEW reply, Leave(r, stage, reply),
             Stays(r, [req[r] EXCEPT !.stage = stage, !.reply = reply])
      PROVE  \E x, t, G, S : Moves(r, x, t, G, S)
  <2>. DEFINE x == [req[r] EXCEPT !.stage = stage, !.reply = reply]
  <2>1. req' = [req EXCEPT ![r] = x] /\ UNCHANGED <<store, task, gone, steady>>
    BY <1>6 DEF Leave, TypeOK, Req
  <2>. QED
    BY <2>1, <1>2, <1>6, Zenon
<1>7. CASE Cancel(r)
  <2>1. Stays(r, [req[r] EXCEPT !.stage = "cancelled", !.reply = <<>>])
    BY <1>7, Zenon DEF Cancel, Stays
  <2>. QED
    BY <1>7, <2>1, <1>6, Zenon DEF Cancel
<1>8. CASE FetchFails(r)
  <2>1. Stays(r, [req[r] EXCEPT !.stage = "failed", !.reply = <<>>])
    BY <1>8, Zenon DEF FetchFails, Stays
  <2>. QED
    BY <1>8, <2>1, <1>6, Zenon DEF FetchFails
<1>9. CASE JoinFails(r)
  <2>1. Stays(r, [req[r] EXCEPT !.stage = "failed", !.reply = <<>>])
    BY <1>9, Zenon DEF JoinFails, Stays
  <2>. QED
    BY <1>9, <2>1, <1>6, Zenon DEF JoinFails
<1>10. CASE Respond(r)
  <2>1. Stays(r, [req[r] EXCEPT !.stage = "done", !.reply = task[r].best])
    BY <1>10, Zenon DEF Respond, Stays
  <2>. QED
    BY <1>10, <2>1, <1>6, Zenon DEF Respond
<1>11. ASSUME NEW list \in Lists, Fetched(r, list)
       PROVE  \E x, t, G, S : Moves(r, x, t, G, S)
  <2>1. list \in Seq(User)
    BY ServiceAssumption
  <2>2. req[r].query \in Query /\ req[r].query.following = <<>> /\ req[r].stage = "strato"
    BY <1>11 DEF Fetched, QueryInv
  <2>3. Spawn(r, req[r].query, list) /\ UNCHANGED store
    BY <1>11, Zenon DEF Fetched
  <2>. QED
    BY <2>1, <2>2, <2>3, <1>1, Zenon
<1>12. CASE NextUser(r)
  <2>1. Goes(r, Settled(Begun(task[r], timeline)))
    BY <1>12, Zenon DEF NextUser, Goes, Scans
  <2>2. task' = [task EXCEPT ![r] = Settled(Begun(task[r], timeline))] /\ UNCHANGED TaskOnly
    BY <1>12, Zenon DEF NextUser, Begun
  <2>. QED
    BY <2>1, <2>2, <1>3, Zenon
<1>13. CASE TimedOut(r)
  <2>1. Goes(r, [task[r] EXCEPT !.late = TRUE])
    BY <1>13, Zenon DEF TimedOut, Goes
  <2>2. task' = [task EXCEPT ![r] = [task[r] EXCEPT !.late = TRUE]] /\ UNCHANGED TaskOnly
    BY <1>13 DEF TimedOut
  <2>. QED
    BY <2>1, <2>2, <1>3, Zenon
<1>14. CASE MapDone(r)
  <2>. DEFINE t == IF task[r].map = "original" THEN [task[r] EXCEPT !.map = "secondary", !.u = 1]
                   ELSE [task[r] EXCEPT !.pc = "rank", !.u = 1]
  <2>1. Goes(r, t)
    BY <1>14, Zenon DEF MapDone, Goes
  <2>2. task' = [task EXCEPT ![r] = t] /\ UNCHANGED TaskOnly
    BY <1>14 DEF MapDone, TypeOK, Task
  <2>. QED
    BY <2>1, <2>2, <1>3, Zenon
<1>15. CASE Look(r)
  <2>. DEFINE p == Entry(task[r])
              s == [task[r] EXCEPT !.i = @ - 1]
              t1 == IF p \in s.excluded THEN s
                    ELSE IF ~Eligible(r, p) THEN [s EXCEPT !.budget = @ - 1]
                    ELSE [s EXCEPT !.budget = @ - 1, !.room = @ - 1, !.found = Append(@, p)]
  <2>1. /\ task[r].pc = "scan" /\ UNCHANGED TaskOnly
        /\ task' = [task EXCEPT ![r] = Settled(t1)]
    BY <1>15, Zenon DEF Look
  <2>2. /\ s.excluded = task[r].excluded /\ s = Skips(task[r])
        /\ [s EXCEPT !.budget = @ - 1] = Refuses(task[r])
        /\ [s EXCEPT !.budget = @ - 1, !.room = @ - 1, !.found = Append(@, p)] = Takes(task[r], p)
    BY DEF Skips, Refuses, Takes, TypeOK, Task
  <2>3. Scans(r, t1)
    <3>. HIDE DEF p, s
    <3>. QED
      BY <2>1, <2>2, Zenon DEF Scans, p
  <2>4. Goes(r, Settled(t1))
    BY <2>3, Zenon DEF Goes
  <2>. QED
    BY <2>1, <2>4, <1>3, Zenon
<1>16. CASE ScoreRecent(r)
  <2>1. PICK s \in Orders(task[r].found) :
           task' = [task EXCEPT ![r].pc = "done", ![r].best = Take(s, Limit(req[r].query))]
    BY <1>16, Zenon DEF ScoreRecent
  <2>. DEFINE t == [task[r] EXCEPT !.pc = "done", !.best = Take(s, Limit(req[r].query))]
  <2>2. Goes(r, t) /\ UNCHANGED TaskOnly
    BY <1>16, Zenon DEF Goes, ScoreRecent
  <2>3. task' = [task EXCEPT ![r] = t]
    BY <2>1 DEF TypeOK, Task
  <2>. QED
    BY <2>2, <2>3, <1>3, Zenon
<1>17. CASE StatisticsPanic(r)
  <2>1. Goes(r, [task[r] EXCEPT !.pc = "panicked"]) /\ UNCHANGED TaskOnly
    BY <1>17, Zenon DEF StatisticsPanic, Goes
  <2>2. task' = [task EXCEPT ![r] = [task[r] EXCEPT !.pc = "panicked"]]
    BY <1>17 DEF StatisticsPanic
  <2>. QED
    BY <2>1, <2>2, <1>3, Zenon
<1>. QED
  BY <1>4, <1>5, <1>7, <1>8, <1>9, <1>10, <1>11, <1>12, <1>13, <1>14, <1>15, <1>16, <1>17, Zenon
  DEF RequestStep, Proceed, TaskStep

LEMMA OneLess ==
    ASSUME NEW n \in Nat, NEW i \in 1 .. n
    PROVE  i \in Nat /\ i - 1 \in Nat /\ i \in 0 .. n /\ i - 1 \in 0 .. n /\ n \in 0 .. n
OBVIOUS

LEMMA SettledIs ==
    ASSUME NEW t \in Task
    PROVE  /\ Settled(t) \in Task
           /\ Settled(t).following = t.following /\ Settled(t).excluded = t.excluded
           /\ Settled(t).map = t.map /\ Settled(t).late = t.late
           /\ Settled(t).found = t.found /\ Settled(t).best = t.best
           /\ \/ (t.i = 0 \/ t.budget = 0 \/ t.room = 0)
                 /\ Settled(t).pc = "user" /\ Settled(t).u = t.u + 1
              \/ t.i # 0 /\ t.budget # 0 /\ t.room # 0 /\ Settled(t) = t
<1>1. CASE t.i = 0 \/ t.budget = 0 \/ t.room = 0
  <2>. DEFINE n == [t EXCEPT !.pc = "user", !.u = @ + 1, !.i = 0, !.budget = 0, !.room = 0]
  <2>1. Settled(t) = n
    BY <1>1, Zenon DEF Settled
  <2>2. /\ n.pc = "user" /\ n.u = t.u + 1 /\ n.i = 0 /\ n.budget = 0 /\ n.room = 0
        /\ n.following = t.following /\ n.excluded = t.excluded /\ n.map = t.map
        /\ n.late = t.late /\ n.found = t.found /\ n.best = t.best
    BY DEF Task
  <2>3. n \in Task
    <3>1. t.u + 1 \in Nat \ {0} /\ 0 \in Nat
      BY DEF Task
    <3>. QED
      BY <3>1, Zenon DEF Task
  <2>. HIDE DEF n
  <2>. QED
    BY <1>1, <2>1, <2>2, <2>3, Zenon
<1>2. CASE ~(t.i = 0 \/ t.budget = 0 \/ t.room = 0)
  <2>1. Settled(t) = t
    BY <1>2, Zenon DEF Settled
  <2>. QED
    BY <1>2, <2>1, Zenon
<1>. QED
  BY <1>1, <1>2, Zenon

\* The entry a scan is at.
LEMMA EntryIs ==
    ASSUME NEW t \in Task, NEW T \in Timeline, Cursor(t, T), t.pc = "scan"
    PROVE  /\ Author(t) \in User /\ T[t.map][Author(t)] \in Seq(Post)
           /\ t.i \in DOMAIN T[t.map][Author(t)]
           /\ T[t.map][Author(t)][t.i] \in Post
<1>1. t.following \in Seq(User) /\ t.map \in Map /\ t.u \in DOMAIN t.following
  BY DEF Task, Cursor
<1>2. Author(t) \in User
  BY <1>1 DEF Author
<1>3. T[t.map][Author(t)] \in Seq(Post)
  BY <1>1, <1>2 DEF Timeline
<1>4. t.i \in DOMAIN T[t.map][Author(t)]
  BY <1>3 DEF Cursor
<1>. QED
  BY <1>2, <1>3, <1>4

\* Where a task is before it settles.
Within(t, T, t1) ==
    /\ t1 \in Task /\ t1.pc = "scan" /\ t1.u = t.u /\ t1.following = t.following
    /\ t1.excluded = t.excluded /\ t1.map = t.map /\ ~t1.late /\ t1.best = t.best
    /\ t1.u \in DOMAIN t.following
    /\ t1.i \in 0 .. Len(T[t.map][Author(t)])
    /\ t1.budget \in 0 .. MaxScan /\ t1.room \in 0 .. Cap(t.map)

LEMMA ScansWithin ==
    ASSUME TypeOK, NEW r \in Request, Cursor(task[r], timeline), NEW t1, Scans(r, t1)
    PROVE  Within(task[r], timeline, t1)
<1>. DEFINE t == task[r]
            T == timeline
<1>0. t \in Task /\ T \in Timeline
  BY DEF TypeOK, Timeline
<1>1. Cap(t.map) \in Nat /\ MaxScan \in Nat /\ t.map \in Map /\ t.following \in Seq(User)
  BY <1>0, CapNat, ServiceAssumption DEF Task
<1>2. CASE MoreUsers(t) /\ t1 = Begun(t, T)
  <2>1. t.u \in DOMAIN t.following /\ ~t.late
    BY <1>0, <1>1, <1>2 DEF MoreUsers, Task
  <2>2. Author(t) \in User
    BY <2>1, <1>1 DEF Author
  <2>3. T[t.map][Author(t)] \in Seq(Post)
    BY <2>2, <1>0, <1>1 DEF Timeline
  <2>4. Len(T[t.map][Author(t)]) \in Nat
    BY <2>3
  <2>. HIDE DEF t, T
  <2>. QED
    <3>1. /\ t1.pc = "scan" /\ t1.u = t.u /\ t1.i = Len(T[t.map][Author(t)])
          /\ t1.budget = MaxScan /\ t1.room = Cap(t.map)
          /\ t1.following = t.following /\ t1.excluded = t.excluded /\ t1.map = t.map
          /\ t1.late = t.late /\ t1.found = t.found /\ t1.best = t.best
      BY <1>0, <1>2 DEF Begun, Task
    <3>2. t1 \in Task
      BY <1>0, <1>1, <1>2, <2>4 DEF Begun, Task
    <3>. QED
      <4>1. \A n \in Nat : n \in 0 .. n
        OBVIOUS
      <4>. QED
        <5>1. ~t1.late
          BY <2>1, <3>1
        <5>. QED
          BY <1>1, <2>1, <2>4, <3>1, <3>2, <4>1, <5>1, Zenon DEF Within, t, T
<1>3. CASE t.pc = "scan" /\ t1 \in {Skips(t), Refuses(t), Takes(t, Entry(t))}
  <2>1. Entry(t) \in Post /\ Cursor(t, T)
    BY <1>0, <1>3, EntryIs DEF Entry
  <2>2. /\ t.u \in DOMAIN t.following /\ t.i \in 1 .. Len(T[t.map][Author(t)])
        /\ t.budget \in 1 .. MaxScan /\ t.room \in 1 .. Cap(t.map) /\ ~t.late
    BY <1>3, <2>1 DEF Cursor
  <2>3. Len(T[t.map][Author(t)]) \in Nat
    BY <1>0, <1>3, <2>1, EntryIs
  <2>. DEFINE p == Entry(t)
  <2>. HIDE DEF t, T, p
  <2>4. p \in Post /\ t1 \in {Skips(t), Refuses(t), Takes(t, p)}
    BY <1>3, <2>1 DEF p
  <2>5. Append(t.found, p) \in Seq(Post)
    BY <1>0, <2>4 DEF Task
  <2>. QED
    <3>0. /\ t.i \in Nat /\ t.i - 1 \in Nat /\ t.budget \in Nat /\ t.budget - 1 \in Nat
          /\ t.room \in Nat /\ t.room - 1 \in Nat
      BY <1>1, <2>2, <2>3
    <3>1. /\ t1.pc = "scan" /\ t1.u = t.u /\ t1.i = t.i - 1
          /\ t1.budget \in {t.budget, t.budget - 1} /\ t1.room \in {t.room, t.room - 1}
          /\ t1.following = t.following /\ t1.excluded = t.excluded /\ t1.map = t.map
          /\ t1.late = t.late /\ t1.best = t.best
      <4>1. CASE t1 = Skips(t)
        BY <1>0, <1>3, <4>1 DEF Skips, Task
      <4>2. CASE t1 = Refuses(t)
        BY <1>0, <1>3, <4>2 DEF Refuses, Task
      <4>3. CASE t1 = Takes(t, p)
        BY <1>0, <1>3, <4>3 DEF Takes, Task
      <4>. QED
        BY <2>4, <4>1, <4>2, <4>3
    <3>2. t1 \in Task
      <4>1. CASE t1 = Skips(t)
        BY <1>0, <3>0, <4>1 DEF Skips, Task
      <4>2. CASE t1 = Refuses(t)
        BY <1>0, <3>0, <4>2 DEF Refuses, Task
      <4>3. CASE t1 = Takes(t, p)
        BY <1>0, <3>0, <2>5, <4>3 DEF Takes, Task
      <4>. QED
        BY <2>4, <4>1, <4>2, <4>3
    <3>3. /\ t1.i \in 0 .. Len(T[t.map][Author(t)])
          /\ t1.budget \in 0 .. MaxScan /\ t1.room \in 0 .. Cap(t.map)
      BY <1>1, <2>2, <2>3, <3>1, OneLess, Zenon
    <3>. QED
      <4>1. ~t1.late
        BY <2>2, <3>1
      <4>. QED
        BY <2>2, <3>1, <3>2, <3>3, <4>1, Zenon DEF Within, t, T
<1>. QED
  BY <1>2, <1>3, Zenon DEF Scans

LEMMA OrdersAre ==
    ASSUME NEW s \in Seq(Post), NEW o \in Orders(s)
    PROVE  /\ o \in Seq(Post) /\ Len(o) = Len(s)
           /\ \E f \in Injection(DOMAIN s, DOMAIN s) : \A k \in DOMAIN s : o[k] = s[f[k]]
           /\ \A k, l \in DOMAIN s : k < l => Light[o[k]].created_at >= Light[o[l]].created_at
<1>1. PICK f \in [DOMAIN s -> DOMAIN s] :
        /\ \A k, l \in DOMAIN s : k < l =>
              f[k] # f[l] /\ Light[s[f[k]]].created_at >= Light[s[f[l]]].created_at
        /\ o = [k \in DOMAIN s |-> s[f[k]]]
  BY Zenon DEF Orders
<1>2. DOMAIN s = 1 .. Len(s) /\ Len(s) \in Nat
  OBVIOUS
<1>3. o \in Seq(Post) /\ Len(o) = Len(s)
  <2>1. o \in [1 .. Len(s) -> Post]
    BY <1>1, <1>2
  <2>. QED
    BY <2>1, <1>2
<1>4. f \in Injection(DOMAIN s, DOMAIN s)
  <2>1. \A k, l \in DOMAIN s : f[k] = f[l] => k = l
    BY <1>1, <1>2
  <2>. QED
    BY <1>1, <2>1, Zenon DEF Injection, IsInjective
<1>5. \A k \in DOMAIN s : o[k] = s[f[k]]
  BY <1>1, Zenon
<1>6. \A k, l \in DOMAIN s : k < l => Light[o[k]].created_at >= Light[o[l]].created_at
  BY <1>1, <1>5, Zenon
<1>. QED
  BY <1>3, <1>4, <1>5, <1>6, Zenon

LEMMA QueryFields ==
    ASSUME NEW q \in Query
    PROVE  /\ q.user_id \in User /\ q.following \in Seq(User) /\ q.exclude \in Seq(Post)
           /\ q.max_results \in Nat /\ q.is_video_request \in BOOLEAN
           /\ Limit(q) \in Nat
<1>1. q \in Asked
  BY ServiceAssumption
<1>2. /\ q.user_id \in User /\ q.following \in Seq(User) /\ q.exclude \in Seq(Post)
      /\ q.max_results \in Nat /\ q.is_video_request \in BOOLEAN
  BY <1>1 DEF Asked
<1>. QED
  BY <1>2, ServiceAssumption DEF Limit

LEMMA NewTaskIs ==
    ASSUME NEW q \in Query, NEW list \in Seq(User)
    PROVE  /\ NewTask(q, list) \in Task /\ NewTask(q, list).pc = "user"
           /\ NewTask(q, list).following = Take(list, MaxInput)
           /\ NewTask(q, list).excluded = Elements(Take(q.exclude, MaxInput))
           /\ NewTask(q, list).map \in FromMaps(q) /\ NewTask(q, list).u = 1
           /\ NewTask(q, list).map # "secondary"
           /\ NewTask(q, list).found = <<>> /\ ~NewTask(q, list).late
<1>. DEFINE t == NewTask(q, list)
<1>1. /\ t.pc = "user" /\ t.following = Take(list, MaxInput)
      /\ t.excluded = Elements(Take(q.exclude, MaxInput))
      /\ t.map = (IF q.is_video_request THEN "video" ELSE "original")
      /\ t.u = 1 /\ t.i = 0 /\ t.budget = 0 /\ t.room = 0 /\ t.late = FALSE
      /\ t.found = <<>> /\ t.best = <<>>
  BY DEF NewTask, NoTask
<1>2. Take(list, MaxInput) \in Seq(User) /\ Take(q.exclude, MaxInput) \in Seq(Post)
  BY TakeIs, QueryFields, ServiceAssumption
<1>3. Elements(Take(q.exclude, MaxInput)) \in SUBSET Post
  BY <1>2 DEF Elements
<1>4. t \in Task
  <2>1. NoTask \in Task
    <3>1. "original" \in Map /\ <<>> \in Seq(Post) /\ <<>> \in Seq(User) /\ 1 \in Nat \ {0}
      BY DEF Map
    <3>. QED
      BY <3>1 DEF NoTask, Task
  <2>2. (IF q.is_video_request THEN "video" ELSE "original") \in Map
    BY DEF Map
  <2>3. "user" \in {"none", "user", "scan", "rank", "done", "panicked"}
    OBVIOUS
  <2>. QED
    BY <2>1, <2>2, <2>3, <1>2, <1>3, Zenon DEF NewTask, Task
<1>5. t.map \in FromMaps(q) /\ t.map # "secondary"
  BY <1>1 DEF FromMaps
<1>. QED
  BY <1>1, <1>4, <1>5

LEMMA MoveTypes ==
    ASSUME ServiceInv, NEW r \in Request, NEW x, NEW t, NEW G, NEW S, Moves(r, x, t, G, S)
    PROVE  /\ x \in Req /\ t \in Task /\ G \in SUBSET Post /\ S \in SUBSET Post
           /\ QueryInv(x, t, G, S, posts, deleted) /\ Cursor(t, timeline)
<1>. DEFINE x0 == req[r]
            t0 == task[r]
<1>0. /\ x0 \in Req /\ t0 \in Task /\ gone[r] \in SUBSET Post /\ steady[r] \in SUBSET Post
      /\ posts \in SUBSET Post /\ deleted \in SUBSET Post /\ timeline \in Timeline
      /\ QueryInv(x0, t0, gone[r], steady[r], posts, deleted) /\ Cursor(t0, timeline)
  BY DEF ServiceInv, TypeOK, Timeline
<1>1. CASE Enters(x, t, G, S)
  <2>1. PICK q \in Query, list \in Seq(User) :
          /\ q.following # <<>> => list = q.following
          /\ x = [stage |-> "scan", query |-> q, reply |-> <<>>]
          /\ t = NewTask(q, list) /\ G = deleted /\ S = Listed
    BY <1>1, Zenon DEF Enters
  <2>2. /\ t \in Task /\ t.pc = "user" /\ t.following = Take(list, MaxInput)
        /\ t.excluded = Elements(Take(q.exclude, MaxInput)) /\ t.map \in FromMaps(q) /\ t.u = 1
    BY <2>1, NewTaskIs
  <2>3. x \in Req
    BY <2>1 DEF Req
  <2>4. G \in SUBSET Post /\ S \in SUBSET Post /\ G \subseteq deleted /\ S \subseteq posts
    BY <1>0, <2>1 DEF Listed
  <2>5. Len(Take(list, MaxInput)) <= MaxInput
    BY TakeIs, ServiceAssumption
  <2>6. QueryInv(x, t, G, S, posts, deleted)
    BY <2>1, <2>2, <2>4, <2>5 DEF QueryInv
  <2>7. Cursor(t, timeline)
    BY <2>2 DEF Cursor, Task
  <2>. QED
    BY <2>2, <2>3, <2>4, <2>6, <2>7
<1>2. CASE Stays(r, x) /\ t = t0 /\ G = gone[r] /\ S = steady[r]
  <2>1. /\ x0.query \in Query \union {NoQuery} /\ x0.reply \in Seq(Post)
        /\ x0 = [stage |-> x0.stage, query |-> x0.query, reply |-> x0.reply]
        /\ t0.best \in Seq(Post) /\ <<>> \in Seq(Post)
    BY <1>0 DEF Req, Task
  <2>2. CASE x0.stage = "new" /\ \E q \in Query :
               q.following = <<>> /\ x = [stage |-> "strato", query |-> q, reply |-> <<>>]
    <3>. HIDE DEF x0, t0
    <3>. QED
      BY <1>0, <1>2, <2>1, <2>2 DEF QueryInv, Req
  <2>3. CASE x0.stage = "new" /\ x = [x0 EXCEPT !.stage = "rejected"]
    <3>1. x = [stage |-> "rejected", query |-> x0.query, reply |-> x0.reply]
      BY <2>1, <2>3
    <3>. HIDE DEF x0, t0
    <3>. QED
      BY <1>0, <1>2, <2>1, <2>3, <3>1 DEF QueryInv, Req
  <2>4. ASSUME NEW stage \in {"failed", "cancelled"}, x0.stage \in {"strato", "scan"},
               x = [x0 EXCEPT !.stage = stage, !.reply = <<>>]
        PROVE  x \in Req /\ QueryInv(x, t, G, S, posts, deleted)
    <3>1. x = [stage |-> stage, query |-> x0.query, reply |-> <<>>]
      BY <2>1, <2>4
    <3>. HIDE DEF x0, t0
    <3>. QED
      BY <1>0, <1>2, <2>1, <2>4, <3>1 DEF QueryInv, Req
  <2>5. CASE /\ x0.stage = "scan" /\ t0.pc = "done"
             /\ x = [x0 EXCEPT !.stage = "done", !.reply = t0.best]
    <3>1. x = [stage |-> "done", query |-> x0.query, reply |-> t0.best]
      BY <2>1, <2>5
    <3>. HIDE DEF x0, t0
    <3>. QED
      BY <1>0, <1>2, <2>1, <2>5, <3>1 DEF QueryInv, Req
  <2>6. x \in Req /\ QueryInv(x, t, G, S, posts, deleted)
    BY <1>2, <2>2, <2>3, <2>4, <2>5, Zenon DEF Stays
  <2>. QED
    BY <1>0, <1>2, <2>6, Zenon
<1>3. CASE Goes(r, t) /\ x = x0 /\ G = gone[r] /\ S = steady[r]
  <2>0. /\ t0.pc \notin {"none", "done"} => QueryInv(x, t, G, S, posts, deleted)
              \/ t.pc = "none" \/ t.following # t0.following \/ t.excluded # t0.excluded
              \/ t.map \notin FromMaps(x0.query)
        /\ t0.pc # "none" => x0.query \in Query /\ t0.map \in FromMaps(x0.query)
    BY <1>0, <1>3 DEF QueryInv
  <2>1. /\ t0.following \in Seq(User) /\ Len(t0.following) \in Nat /\ t0.map \in Map
        /\ t0.u \in Nat /\ t0.u # 0 /\ t0.best \in Seq(Post) /\ t0.found \in Seq(Post)
    BY <1>0 DEF Task
  <2>2. ASSUME NEW t1, Scans(r, t1), t = Settled(t1)
        PROVE  t \in Task /\ QueryInv(x, t, G, S, posts, deleted) /\ Cursor(t, timeline)
    <3>1. Within(t0, timeline, t1)
      BY <1>0, <2>2, ScansWithin DEF ServiceInv
    <3>2. t0.pc \in {"user", "scan"}
      BY <2>2 DEF Scans, MoreUsers
    <3>3. t1 \in Task
      BY <3>1 DEF Within
    <3>4. /\ t \in Task /\ t.following = t1.following /\ t.excluded = t1.excluded
          /\ t.map = t1.map /\ t.late = t1.late
          /\ \/ (t1.i = 0 \/ t1.budget = 0 \/ t1.room = 0) /\ t.pc = "user" /\ t.u = t1.u + 1
             \/ t1.i # 0 /\ t1.budget # 0 /\ t1.room # 0 /\ t = t1
      BY <2>2, <3>3, SettledIs
    <3>. HIDE DEF x0, t0
    <3>5. QueryInv(x, t, G, S, posts, deleted)
      BY <2>0, <3>1, <3>2, <3>4 DEF Within
    <3>6. Cursor(t, timeline)
      <4>1. CASE t.pc = "user" /\ t.u = t1.u + 1
        <5>1. t.u <= Len(t.following) + 1
          BY <2>1, <3>1, <3>4, <4>1 DEF Within
        <5>. QED
          BY <4>1, <5>1 DEF Cursor
      <4>2. CASE t1.i # 0 /\ t1.budget # 0 /\ t1.room # 0 /\ t = t1
        <5>1. \A n : \A i \in 0 .. n : i # 0 => i \in 1 .. n
          OBVIOUS
        <5>2. /\ t.u \in DOMAIN t.following /\ ~t.late
              /\ t.i \in 0 .. Len(timeline[t.map][Author(t)])
              /\ t.budget \in 0 .. MaxScan /\ t.room \in 0 .. Cap(t.map) /\ t.pc = "scan"
          BY <3>1, <4>2 DEF Within, Author
        <5>3. /\ t.i \in 1 .. Len(timeline[t.map][Author(t)])
              /\ t.budget \in 1 .. MaxScan /\ t.room \in 1 .. Cap(t.map)
          BY <4>2, <5>1, <5>2, Zenon
        <5>. QED
          BY <5>2, <5>3 DEF Cursor
      <4>. QED
        BY <3>4, <4>1, <4>2, Zenon
    <3>. QED
      BY <3>4, <3>5, <3>6, Zenon
  <2>3. ASSUME MoreUsers(t0), t = [t0 EXCEPT !.late = TRUE]
        PROVE  t \in Task /\ QueryInv(x, t, G, S, posts, deleted) /\ Cursor(t, timeline)
    <3>1. /\ t.pc = t0.pc /\ t.following = t0.following /\ t.excluded = t0.excluded
          /\ t.map = t0.map /\ t.u = t0.u /\ t0.pc = "user" /\ t0.u <= Len(t0.following)
      BY <1>0, <2>3 DEF Task, MoreUsers
    <3>2. t \in Task
      BY <1>0, <2>3 DEF Task
    <3>. HIDE DEF x0, t0
    <3>3. QueryInv(x, t, G, S, posts, deleted)
      BY <2>0, <3>1
    <3>4. Cursor(t, timeline)
      BY <2>1, <3>1 DEF Cursor
    <3>. QED
      BY <3>2, <3>3, <3>4
  <2>4. ASSUME t0.pc = "user", t0.map = "original",
               t = [t0 EXCEPT !.map = "secondary", !.u = 1]
        PROVE  t \in Task /\ QueryInv(x, t, G, S, posts, deleted) /\ Cursor(t, timeline)
    <3>1. /\ t.pc = t0.pc /\ t.following = t0.following /\ t.excluded = t0.excluded
          /\ t.map = "secondary" /\ t.u = 1
      BY <1>0, <2>4 DEF Task
    <3>2. t \in Task
      <4>1. "secondary" \in Map /\ 1 \in Nat \ {0}
        BY DEF Map
      <4>. QED
        BY <1>0, <2>4, <4>1, Zenon DEF Task
    <3>. HIDE DEF x0, t0
    <3>3. QueryInv(x, t, G, S, posts, deleted)
      <4>1. "secondary" \in FromMaps(x0.query)
        BY <2>0, <2>4 DEF FromMaps
      <4>. QED
        BY <2>0, <2>4, <3>1, <4>1
    <3>4. Cursor(t, timeline)
      BY <2>1, <2>4, <3>1 DEF Cursor
    <3>. QED
      BY <3>2, <3>3, <3>4
  <2>5. ASSUME t0.pc = "user", t0.map # "original", t = [t0 EXCEPT !.pc = "rank", !.u = 1]
        PROVE  t \in Task /\ QueryInv(x, t, G, S, posts, deleted) /\ Cursor(t, timeline)
    <3>1. /\ t.pc = "rank" /\ t.following = t0.following /\ t.excluded = t0.excluded
          /\ t.map = t0.map
      BY <1>0, <2>5 DEF Task
    <3>2. t \in Task
      <4>1. 1 \in Nat \ {0}
        OBVIOUS
      <4>. QED
        BY <1>0, <2>5, <4>1, Zenon DEF Task
    <3>. HIDE DEF x0, t0
    <3>3. QueryInv(x, t, G, S, posts, deleted) /\ Cursor(t, timeline)
      BY <2>0, <2>5, <3>1 DEF Cursor
    <3>. QED
      BY <3>2, <3>3
  <2>6. ASSUME t0.pc = "rank", NEW s \in Orders(t0.found),
               t = [t0 EXCEPT !.pc = "done", !.best = Take(s, Limit(x0.query))]
        PROVE  t \in Task /\ QueryInv(x, t, G, S, posts, deleted) /\ Cursor(t, timeline)
    <3>1. /\ t.pc = "done" /\ t.following = t0.following /\ t.excluded = t0.excluded
          /\ t.map = t0.map
      BY <1>0, <2>6 DEF Task
    <3>2. t \in Task
      <4>1. Take(s, Limit(x0.query)) \in Seq(Post)
        BY <2>0, <2>1, <2>6, QueryFields, OrdersAre, TakeIs
      <4>. QED
        BY <1>0, <2>6, <4>1, Zenon DEF Task
    <3>. HIDE DEF x0, t0
    <3>3. QueryInv(x, t, G, S, posts, deleted)
      BY <2>0, <2>6, <3>1
    <3>4. Cursor(t, timeline)
      BY <1>0, <2>6, <3>1 DEF Cursor
    <3>. QED
      BY <3>2, <3>3, <3>4
  <2>7. ASSUME t0.pc = "rank", t = [t0 EXCEPT !.pc = "panicked"]
        PROVE  t \in Task /\ QueryInv(x, t, G, S, posts, deleted) /\ Cursor(t, timeline)
    <3>1. /\ t.pc = "panicked" /\ t.following = t0.following /\ t.excluded = t0.excluded
          /\ t.map = t0.map
      BY <1>0, <2>7 DEF Task
    <3>2. t \in Task
      BY <1>0, <2>7 DEF Task
    <3>. HIDE DEF x0, t0
    <3>3. QueryInv(x, t, G, S, posts, deleted)
      BY <2>0, <2>7, <3>1
    <3>4. Cursor(t, timeline)
      BY <1>0, <2>7, <3>1 DEF Cursor
    <3>. QED
      BY <3>2, <3>3, <3>4
  <2>8. t \in Task /\ QueryInv(x, t, G, S, posts, deleted) /\ Cursor(t, timeline)
    BY <1>3, <2>2, <2>3, <2>4, <2>5, <2>6, <2>7, Zenon DEF Goes
  <2>. QED
    BY <1>0, <1>3, <2>8, Zenon
<1>. QED
  BY <1>1, <1>2, <1>3, Zenon DEF Moves

\* What a change of the store does to a timeline s: a new post at its end, or the
\* loss of its front, which is not steady any longer.
Changed(s, new) ==
    \/ new = s
    \/ \E p \in Post \ (posts \union deleted \union trimmed) : new = Append(s, p)
    \/ s # <<>> /\ new = Tail(s) /\ \A r \in Request : Head(s) \notin steady'[r]

LEMMA StoreMoves ==
    ASSUME ServiceInv, StoreStep
    PROVE  /\ posts' \in SUBSET Post /\ deleted' \in SUBSET Post /\ trimmed' \in SUBSET Post
           /\ timeline' \in Timeline /\ changes' \in 0 .. MaxChanges
           /\ UNCHANGED Service /\ StoreInv' /\ deleted \subseteq deleted'
           /\ steady' \in [Request -> SUBSET Post]
           /\ \A r \in Request : /\ steady'[r] \subseteq steady[r]
                                 /\ steady[r] \subseteq posts => steady'[r] \subseteq posts'
           /\ \A m \in Map : \A u \in User :
                 /\ Changed(timeline[m][u], timeline'[m][u])
                 /\ Held(m, u) => timeline'[m][u] = timeline[m][u]
<1>0. /\ posts \in SUBSET Post /\ deleted \in SUBSET Post /\ trimmed \in SUBSET Post
      /\ timeline \in Timeline /\ changes \in 0 .. MaxChanges
      /\ steady \in [Request -> SUBSET Post] /\ MaxChanges \in Nat
      /\ posts \intersect deleted = {} /\ Listing(timeline, posts \union deleted \union trimmed)
  BY ServiceAssumption DEF ServiceInv, TypeOK, StoreInv, Timeline
<1>1. ASSUME Change PROVE changes' \in 0 .. MaxChanges
  BY <1>0, <1>1 DEF Change
<1>2. ASSUME NEW p \in Post, Unsteady(p)
      PROVE  /\ steady' \in [Request -> SUBSET Post]
             /\ \A r \in Request : steady'[r] = steady[r] \ {p}
  BY <1>0, <1>2 DEF Unsteady
<1>3. ASSUME NEW A, NEW B, A \subseteq B, NEW T, Listing(T, A)
      PROVE  Listing(T, B)
  BY <1>3 DEF Listing
<1>4. CASE \E p \in Post : Insert(p)
  <2>1. PICK p \in Post : Insert(p)
    BY <1>4
  <2>2. /\ p \notin posts \union deleted \union trimmed
        /\ \A m \in MapsOf(p, posts) : ~Held(m, Light[p].author_id)
        /\ posts' = posts \union {p} /\ timeline' = Pushed(timeline, p, posts)
        /\ UNCHANGED <<deleted, trimmed, steady, Service>> /\ Change
    BY <2>1, Zenon DEF Insert
  <2>. DEFINE R == posts \union deleted \union trimmed
  <2>3. /\ Pushed(timeline, p, posts) \in Timeline
        /\ Listing(Pushed(timeline, p, posts), R \union {p})
    <3>1. R \in SUBSET Post /\ p \notin R /\ Listing(timeline, R)
      BY <1>0, <2>2
    <3>. HIDE DEF R
    <3>. QED
      BY <1>0, <3>1, PushedLists
  <2>4. R \union {p} = posts' \union deleted' \union trimmed'
    BY <2>2
  <2>5. StoreInv'
    <3>1. Listing(timeline', posts' \union deleted' \union trimmed')
      BY <2>2, <2>3, <2>4, Zenon
    <3>2. posts' \intersect deleted' = {}
      BY <1>0, <2>2
    <3>. QED
      BY <3>1, <3>2, Zenon DEF StoreInv
  <2>6. ASSUME NEW m \in Map, NEW u \in User
        PROVE  /\ Changed(timeline[m][u], timeline'[m][u])
               /\ Held(m, u) => timeline'[m][u] = timeline[m][u]
    <3>1. timeline'[m][u] = IF m \in MapsOf(p, posts) /\ u = Light[p].author_id
                            THEN Append(timeline[m][u], p) ELSE timeline[m][u]
      BY <2>2 DEF Pushed
    <3>2. p \in Post \ (posts \union deleted \union trimmed)
      BY <2>2
    <3>3. Changed(timeline[m][u], timeline'[m][u])
      BY <3>1, <3>2, Zenon DEF Changed
    <3>. QED
      BY <3>1, <3>3, <2>2, Zenon
  <2>7. /\ posts' \in SUBSET Post /\ deleted' \in SUBSET Post /\ trimmed' \in SUBSET Post
        /\ deleted \subseteq deleted' /\ timeline' \in Timeline /\ UNCHANGED Service
    BY <1>0, <2>2, <2>3, Zenon
  <2>8. /\ steady' \in [Request -> SUBSET Post]
        /\ \A r \in Request : /\ steady'[r] \subseteq steady[r]
                              /\ steady[r] \subseteq posts => steady'[r] \subseteq posts'
    BY <1>0, <2>2
  <2>. QED
    BY <1>1, <2>2, <2>5, <2>6, <2>7, <2>8, Zenon
<1>5. CASE \E p \in Post : Delete(p)
  <2>1. PICK p \in Post : Delete(p)
    BY <1>5
  <2>2. /\ posts' = posts \ {p} /\ deleted' = deleted \union {p} /\ Unsteady(p)
        /\ UNCHANGED <<timeline, trimmed, Service>> /\ Change
    BY <2>1, Zenon DEF Delete
  <2>3. /\ posts' \in SUBSET Post /\ deleted' \in SUBSET Post /\ trimmed' \in SUBSET Post
        /\ deleted \subseteq deleted' /\ timeline' \in Timeline
        /\ posts' \intersect deleted' = {}
        /\ posts \union deleted \union trimmed \subseteq posts' \union deleted' \union trimmed'
    BY <1>0, <2>2
  <2>4. StoreInv'
    <3>1. Listing(timeline', posts' \union deleted' \union trimmed')
      BY <1>0, <1>3, <2>2, <2>3, Zenon
    <3>. QED
      BY <2>3, <3>1, Zenon DEF StoreInv
  <2>5. /\ steady' \in [Request -> SUBSET Post]
        /\ \A r \in Request : /\ steady'[r] \subseteq steady[r]
                              /\ steady[r] \subseteq posts => steady'[r] \subseteq posts'
    BY <1>2, <2>2
  <2>6. \A m \in Map : \A u \in User :
           Changed(timeline[m][u], timeline'[m][u]) /\ timeline'[m][u] = timeline[m][u]
    BY <2>2, Zenon DEF Changed
  <2>. QED
    BY <1>1, <2>2, <2>3, <2>4, <2>5, <2>6, Zenon
<1>6. CASE \E m \in Map, u \in User : Trim(m, u)
  <2>1. PICK n \in Map, v \in User : Trim(n, v)
    BY <1>6
  <2>. DEFINE s == timeline[n][v]
              p == Head(s)
  <2>2. /\ ~Held(n, v) /\ s # <<>> /\ Change
        /\ posts' = posts \ {p} /\ trimmed' = trimmed \union {p} /\ Unsteady(p)
        /\ timeline' = [timeline EXCEPT ![n][v] = Tail(@)]
        /\ UNCHANGED <<deleted, Service>>
    BY <2>1, Zenon DEF Trim
  <2>3. s \in Seq(Post)
    BY <1>0 DEF Timeline
  <2>4. /\ p \in Post /\ Tail(s) \in Seq(Post)
        /\ \A i \in DOMAIN Tail(s) : i + 1 \in DOMAIN s /\ Tail(s)[i] = s[i + 1] /\ i \in Int
    BY <2>2, <2>3
  <2>5. /\ timeline' \in Timeline
        /\ \A m \in Map : \A u \in User :
              timeline'[m][u] = IF m = n /\ u = v THEN Tail(s) ELSE timeline[m][u]
    <3>. HIDE DEF p
    <3>1. \A m \in Map : \A u \in User :
              timeline'[m][u] = IF m = n /\ u = v THEN Tail(s) ELSE timeline[m][u]
      BY <1>0, <2>2 DEF Timeline
    <3>2. timeline' \in Timeline
      <4>1. timeline[n] \in [User -> Seq(Post)]
        BY <1>0 DEF Timeline
      <4>2. [timeline[n] EXCEPT ![v] = Tail(s)] \in [User -> Seq(Post)]
        BY <4>1, <2>4
      <4>3. timeline' = [timeline EXCEPT ![n] = [timeline[n] EXCEPT ![v] = Tail(s)]]
        BY <1>0, <2>2 DEF Timeline
      <4>. HIDE DEF s
      <4>. QED
        BY <1>0, <4>2, <4>3 DEF Timeline
    <3>. QED
      BY <3>1, <3>2
  <2>6. /\ posts' \in SUBSET Post /\ deleted' \in SUBSET Post /\ trimmed' \in SUBSET Post
        /\ deleted \subseteq deleted' /\ posts' \intersect deleted' = {}
        /\ posts \union deleted \union trimmed \subseteq posts' \union deleted' \union trimmed'
    <3>. HIDE DEF p
    <3>. QED
      BY <1>0, <2>2, <2>4
  <2>7. /\ steady' \in [Request -> SUBSET Post]
        /\ \A r \in Request : steady'[r] = steady[r] \ {p}
    BY <1>2, <2>2, <2>4
  <2>8. StoreInv'
    <3>1. Listing(timeline, posts' \union deleted' \union trimmed')
      BY <1>0, <1>3, <2>6, Zenon
    <3>. DEFINE R == posts' \union deleted' \union trimmed'
    <3>. HIDE DEF R
    <3>2. Listing(timeline, R)
      BY <3>1 DEF R
    <3>3. Listing(timeline', R)
      <4>. SUFFICES ASSUME NEW m \in Map, NEW u \in User
           PROVE  /\ \A i \in DOMAIN timeline'[m][u] : timeline'[m][u][i] \in R
                         /\ Light[timeline'[m][u][i]].author_id = u /\ OfMap(m, timeline'[m][u][i])
                  /\ \A i, j \in DOMAIN timeline'[m][u] :
                        timeline'[m][u][i] = timeline'[m][u][j] => i = j
        BY Zenon DEF Listing
      <4>1. /\ \A i \in DOMAIN timeline[m][u] : timeline[m][u][i] \in R
                  /\ Light[timeline[m][u][i]].author_id = u /\ OfMap(m, timeline[m][u][i])
            /\ \A i, j \in DOMAIN timeline[m][u] : timeline[m][u][i] = timeline[m][u][j] => i = j
        BY <3>2 DEF Listing
      <4>2. CASE m = n /\ u = v
        <5>1. timeline'[m][u] = Tail(s) /\ s = timeline[m][u]
          BY <2>5, <4>2
        <5>2. \A i, j \in DOMAIN Tail(s) : i + 1 = j + 1 => i = j
          BY <2>4
        <5>. HIDE DEF s
        <5>3. /\ \A i \in DOMAIN s : s[i] \in R /\ Light[s[i]].author_id = u /\ OfMap(m, s[i])
              /\ \A i, j \in DOMAIN s : s[i] = s[j] => i = j
          BY <4>1, <5>1, Zenon
        <5>4. \A i \in DOMAIN Tail(s) : i + 1 \in DOMAIN s /\ Tail(s)[i] = s[i + 1]
          BY <2>4, Zenon
        <5>. DEFINE z == Tail(s)
        <5>. HIDE DEF z
        <5>5. \A i \in DOMAIN z : z[i] \in R /\ Light[z[i]].author_id = u /\ OfMap(m, z[i])
          <6>. SUFFICES ASSUME NEW i \in DOMAIN z
               PROVE  z[i] \in R /\ Light[z[i]].author_id = u /\ OfMap(m, z[i])
            OBVIOUS
          <6>1. i + 1 \in DOMAIN s /\ z[i] = s[i + 1]
            BY <5>4 DEF z
          <6>2. s[i + 1] \in R /\ Light[s[i + 1]].author_id = u /\ OfMap(m, s[i + 1])
            BY <5>3, <6>1, Zenon
          <6>. QED
            BY <6>1, <6>2
        <5>6. \A i, j \in DOMAIN z : z[i] = z[j] => i = j
          BY <5>2, <5>3, <5>4, Zenon DEF z
        <5>. QED
          BY <5>1, <5>5, <5>6, Zenon DEF z
      <4>3. CASE ~(m = n /\ u = v)
        <5>1. timeline'[m][u] = timeline[m][u]
          BY <2>5, <4>3, Zenon
        <5>. QED
          BY <4>1, <5>1, Zenon
      <4>. QED
        BY <4>2, <4>3, Zenon
    <3>. QED
      BY <2>6, <3>3, Zenon DEF StoreInv, R
  <2>9. ASSUME NEW m \in Map, NEW u \in User
        PROVE  /\ Changed(timeline[m][u], timeline'[m][u])
               /\ Held(m, u) => timeline'[m][u] = timeline[m][u]
    <3>1. CASE m = n /\ u = v
      <4>1. timeline'[m][u] = Tail(s) /\ s = timeline[m][u]
        BY <2>5, <3>1
      <4>2. \A r \in Request : Head(s) \notin steady'[r]
        BY <2>7
      <4>3. Changed(timeline[m][u], timeline'[m][u])
        BY <2>2, <4>1, <4>2, Zenon DEF Changed
      <4>. QED
        BY <4>3, <3>1, <2>2, Zenon
    <3>2. CASE ~(m = n /\ u = v)
      <4>1. timeline'[m][u] = timeline[m][u]
        BY <2>5, <3>2, Zenon
      <4>. QED
        BY <4>1, Zenon DEF Changed
    <3>. QED
      BY <3>1, <3>2, Zenon
  <2>10. \A r \in Request : /\ steady'[r] \subseteq steady[r]
                            /\ steady[r] \subseteq posts => steady'[r] \subseteq posts'
    <3>. HIDE DEF p
    <3>. QED
      BY <2>2, <2>7
  <2>. QED
    BY <1>1, <2>2, <2>5, <2>6, <2>7, <2>8, <2>9, <2>10, Zenon
<1>. QED
  BY <1>4, <1>5, <1>6, Zenon DEF StoreStep

-----------------------------------------------------------------------------
(* Permits, types, the store and the cursors. *)

LEMMA PermitsKept ==
    ASSUME TypeOK, PermitsAccounted, NEW r \in Request, RequestStep(r)
    PROVE  /\ PermitsAccounted'
           /\ permits' \in 0 .. MaxConcurrent /\ inFlight' \in 0 .. MaxConcurrent
<1>. DEFINE In == {"strato", "scan"}
<1>0. /\ IsFiniteSet(Request) /\ MaxConcurrent \in Nat /\ permits \in Nat /\ inFlight \in Nat
      /\ req \in [Request -> Req]
      /\ permits <= MaxConcurrent /\ inFlight <= MaxConcurrent
  BY ServiceAssumption DEF TypeOK
<1>1. IsFiniteSet(Inside) /\ Cardinality(Inside) \in Nat
  <2>1. Inside \in SUBSET Request
    BY DEF Inside
  <2>. QED
    BY <1>0, <2>1, FS_Subset, FS_CardinalityType
<1>2. permits + Cardinality(Inside) = MaxConcurrent /\ inFlight = Cardinality(Inside)
  BY DEF PermitsAccounted
<1>3. ASSUME NEW y, req' = [req EXCEPT ![r] = y]
      PROVE  Inside' = IF y.stage \in In THEN Inside \union {r} ELSE Inside \ {r}
  BY <1>0, <1>3 DEF Inside
<1>4. ASSUME Inside' = Inside, UNCHANGED <<permits, inFlight>>
      PROVE  /\ PermitsAccounted'
             /\ permits' \in 0 .. MaxConcurrent /\ inFlight' \in 0 .. MaxConcurrent
  BY <1>0, <1>2, <1>4 DEF PermitsAccounted
<1>5. ASSUME NEW y, req' = [req EXCEPT ![r] = y], y.stage \in In, req[r].stage \notin In,
             permits > 0, permits' = permits - 1, inFlight' = inFlight + 1
      PROVE  /\ PermitsAccounted'
             /\ permits' \in 0 .. MaxConcurrent /\ inFlight' \in 0 .. MaxConcurrent
  <2>1. Inside' = Inside \union {r} /\ r \notin Inside
    BY <1>3, <1>5 DEF Inside
  <2>2. Cardinality(Inside') = Cardinality(Inside) + 1
    BY <1>1, <2>1, FS_AddElement
  <2>. QED
    BY <1>0, <1>1, <1>2, <1>5, <2>2 DEF PermitsAccounted
<1>6. ASSUME NEW y, req' = [req EXCEPT ![r] = y], y.stage \notin In, req[r].stage \in In,
             permits' = permits + 1, inFlight' = inFlight - 1
      PROVE  /\ PermitsAccounted'
             /\ permits' \in 0 .. MaxConcurrent /\ inFlight' \in 0 .. MaxConcurrent
  <2>1. Inside' = Inside \ {r} /\ r \in Inside
    BY <1>3, <1>6 DEF Inside
  <2>2. Cardinality(Inside') = Cardinality(Inside) - 1 /\ Cardinality(Inside) # 0
    <3>1. Cardinality(Inside') = Cardinality(Inside) - 1
      BY <1>1, <2>1, FS_RemoveElement
    <3>2. Cardinality(Inside) # 0
      BY <1>1, <2>1, FS_EmptySet
    <3>. QED
      BY <3>1, <3>2
  <2>. QED
    BY <1>0, <1>1, <1>2, <1>6, <2>2 DEF PermitsAccounted
<1>7. CASE \E q \in Query : Admit(r, q)
  <2>1. PICK q \in Query : Admit(r, q)
    BY <1>7
  <2>2. \E y : req' = [req EXCEPT ![r] = y] /\ y.stage \in In
    <3>. DEFINE y(stage) == [stage |-> stage, query |-> q, reply |-> <<>>]
    <3>1. req' = [req EXCEPT ![r] = y("strato")] \/ req' = [req EXCEPT ![r] = y("scan")]
      BY <2>1, Zenon DEF Admit, Spawn
    <3>2. y("strato").stage \in In /\ y("scan").stage \in In
      OBVIOUS
    <3>. HIDE DEF y, In
    <3>. QED
      BY <3>1, <3>2, Zenon
  <2>3. /\ req[r].stage \notin In /\ permits > 0 /\ permits' = permits - 1
        /\ inFlight' = inFlight + 1
    BY <2>1 DEF Admit
  <2>. HIDE DEF In
  <2>. QED
    BY <1>5, <2>2, <2>3, Zenon
<1>8. CASE Reject(r)
  <2>1. Inside' = Inside
    <3>1. req' = [req EXCEPT ![r] = [req[r] EXCEPT !.stage = "rejected"]]
      BY <1>0, <1>8 DEF Reject, Req
    <3>2. [req[r] EXCEPT !.stage = "rejected"].stage \notin In /\ r \notin Inside
      BY <1>0, <1>8 DEF Reject, Req, Inside
    <3>. QED
      BY <1>3, <3>1, <3>2
  <2>. QED
    BY <1>4, <1>8, <2>1 DEF Reject
<1>9. ASSUME NEW stage \in {"done", "failed", "cancelled"}, NEW reply, Leave(r, stage, reply),
             req[r].stage \in In
      PROVE  /\ PermitsAccounted'
             /\ permits' \in 0 .. MaxConcurrent /\ inFlight' \in 0 .. MaxConcurrent
  <2>. DEFINE y == [req[r] EXCEPT !.stage = stage, !.reply = reply]
  <2>1. req' = [req EXCEPT ![r] = y] /\ y.stage \notin In
    BY <1>0, <1>9 DEF Leave, Req
  <2>2. permits' = permits + 1 /\ inFlight' = inFlight - 1
    BY <1>9 DEF Leave
  <2>. HIDE DEF y, In
  <2>. QED
    BY <1>6, <1>9, <2>1, <2>2, Zenon
<1>10. CASE Cancel(r) \/ FetchFails(r) \/ Respond(r) \/ JoinFails(r)
  BY <1>9, <1>10 DEF Cancel, FetchFails, Respond, JoinFails
<1>11. CASE \E list \in Lists : Fetched(r, list)
  <2>1. /\ r \in Inside /\ UNCHANGED <<permits, inFlight>>
        /\ \E y : req' = [req EXCEPT ![r] = y] /\ y.stage = "scan"
    <3>. DEFINE y == [stage |-> "scan", query |-> req[r].query, reply |-> <<>>]
    <3>1. req' = [req EXCEPT ![r] = y]
      BY <1>11, Zenon DEF Fetched, Spawn
    <3>2. y.stage = "scan"
      OBVIOUS
    <3>3. r \in Inside /\ UNCHANGED <<permits, inFlight>>
      BY <1>11 DEF Fetched, Inside
    <3>. HIDE DEF y
    <3>. QED
      BY <3>1, <3>2, <3>3, Zenon
  <2>2. Inside' = Inside
    BY <1>3, <2>1
  <2>. QED
    BY <1>4, <2>1, <2>2
<1>12. CASE TaskStep(r)
  <2>1. UNCHANGED <<req, permits, inFlight>>
    BY <1>12, Zenon DEF TaskStep, NextUser, TimedOut, MapDone, Look, ScoreRecent,
       StatisticsPanic, TaskOnly
  <2>2. Inside' = Inside
    BY <2>1 DEF Inside
  <2>. QED
    BY <1>4, <2>1, <2>2
<1>. QED
  BY <1>7, <1>8, <1>10, <1>11, <1>12, Zenon DEF RequestStep, Proceed

LEMMA InitService == Init => ServiceInv
<1>. SUFFICES ASSUME Init PROVE ServiceInv
  OBVIOUS
<1>1. Len(Arrived) \in Nat /\ Arrived \in Seq(Post) /\ MaxConcurrent \in Nat /\ MaxChanges \in Nat
  BY ServiceAssumption
<1>2. timeline \in Timeline /\ Listing(timeline, Early(Len(Arrived)))
  BY <1>1, FilledLists DEF Init
<1>3. posts = Early(Len(Arrived)) /\ deleted = {} /\ trimmed = {} /\ posts \in SUBSET Post
  BY <1>1 DEF Init, Early, Elements
<1>4. StoreInv
  <2>1. posts \union deleted \union trimmed = Early(Len(Arrived)) /\ posts \intersect deleted = {}
    BY <1>3
  <2>. QED
    BY <1>2, <2>1, Zenon DEF StoreInv
<1>5. NoTask \in Task /\ NoTask.pc = "none"
  <2>1. "original" \in Map /\ <<>> \in Seq(Post) /\ <<>> \in Seq(User) /\ 1 \in Nat \ {0}
    BY DEF Map
  <2>. QED
    BY <2>1 DEF NoTask, Task
<1>6. TypeOK
  <2>1. /\ req \in [Request -> Req] /\ task \in [Request -> Task]
    BY <1>5 DEF Init, Req
  <2>2. /\ gone \in [Request -> SUBSET Post] /\ steady \in [Request -> SUBSET Post]
        /\ changes \in 0 .. MaxChanges /\ permits \in 0 .. MaxConcurrent
        /\ inFlight \in 0 .. MaxConcurrent
    BY <1>1 DEF Init
  <2>. QED
    BY <1>2, <1>3, <2>1, <2>2 DEF TypeOK, Timeline
<1>7. PermitsAccounted
  <2>1. Inside = {}
    BY DEF Inside, Init
  <2>. QED
    BY <1>1, <2>1, FS_EmptySet DEF PermitsAccounted, Init
<1>8. ASSUME NEW r \in Request
      PROVE  /\ QueryInv(req[r], task[r], gone[r], steady[r], posts, deleted)
             /\ Cursor(task[r], timeline)
  <2>1. req[r].stage = "new" /\ task[r].pc = "none"
    BY <1>5 DEF Init
  <2>. QED
    BY <2>1 DEF QueryInv, Cursor
<1>. QED
  BY <1>4, <1>6, <1>7, <1>8 DEF ServiceInv

LEMMA NextService == ServiceInv /\ [Next]_vars => ServiceInv'
<1>. SUFFICES ASSUME ServiceInv, [Next]_vars PROVE ServiceInv'
  OBVIOUS
<1>0. /\ TypeOK /\ StoreInv /\ PermitsAccounted
      /\ \A r \in Request : /\ QueryInv(req[r], task[r], gone[r], steady[r], posts, deleted)
                            /\ Cursor(task[r], timeline)
  BY DEF ServiceInv
<1>1. CASE StoreStep
  <2>1. /\ posts' \in SUBSET Post /\ deleted' \in SUBSET Post /\ trimmed' \in SUBSET Post
        /\ timeline' \in Timeline /\ changes' \in 0 .. MaxChanges
        /\ UNCHANGED Service /\ StoreInv' /\ deleted \subseteq deleted'
        /\ steady' \in [Request -> SUBSET Post]
        /\ \A r \in Request : /\ steady'[r] \subseteq steady[r]
                              /\ steady[r] \subseteq posts => steady'[r] \subseteq posts'
        /\ \A m \in Map : \A u \in User : Held(m, u) => timeline'[m][u] = timeline[m][u]
    BY <1>1, StoreMoves
  <2>2. TypeOK' /\ PermitsAccounted'
    <3>1. TypeOK'
      BY <1>0, <2>1 DEF TypeOK, Service, Timeline
    <3>2. PermitsAccounted'
      BY <1>0, <2>1 DEF PermitsAccounted, Service, Inside
    <3>. QED
      BY <3>1, <3>2
  <2>3. ASSUME NEW r \in Request
        PROVE  /\ QueryInv(req[r], task[r], gone[r], steady[r], posts, deleted)'
               /\ Cursor(task[r], timeline)'
    <3>1. UNCHANGED <<req, task, gone>>
      BY <2>1 DEF Service
    <3>2. QueryInv(req[r], task[r], gone[r], steady'[r], posts', deleted')
      BY <1>0, <2>1 DEF QueryInv
    <3>3. ASSUME task[r].pc = "scan"
          PROVE  timeline'[task[r].map][Author(task[r])] = timeline[task[r].map][Author(task[r])]
      <4>1. task[r] \in Task /\ timeline \in Timeline
        BY <1>0 DEF TypeOK, Timeline
      <4>2. task[r].map \in Map /\ Author(task[r]) \in User
        BY <1>0, <3>3, <4>1, EntryIs DEF Task
      <4>3. Held(task[r].map, Author(task[r]))
        BY <3>3 DEF Held, Author
      <4>. QED
        BY <2>1, <4>2, <4>3
    <3>4. Cursor(task[r], timeline')
      BY <1>0, <3>3 DEF Cursor
    <3>. QED
      BY <3>1, <3>2, <3>4
  <2>. QED
    BY <2>1, <2>2, <2>3 DEF ServiceInv
<1>2. ASSUME NEW r \in Request, RequestStep(r)
      PROVE  ServiceInv'
  <2>1. PICK x, t, G, S : Moves(r, x, t, G, S)
    BY <1>0, <1>2, RequestMoves
  <2>2. /\ x \in Req /\ t \in Task /\ G \in SUBSET Post /\ S \in SUBSET Post
        /\ QueryInv(x, t, G, S, posts, deleted) /\ Cursor(t, timeline)
    BY <2>1, MoveTypes
  <2>3. /\ req' = [req EXCEPT ![r] = x] /\ task' = [task EXCEPT ![r] = t]
        /\ gone' = [gone EXCEPT ![r] = G] /\ steady' = [steady EXCEPT ![r] = S]
        /\ UNCHANGED <<posts, deleted, timeline, trimmed, changes>>
    BY <2>1 DEF Moves, store
  <2>4. /\ PermitsAccounted'
        /\ permits' \in 0 .. MaxConcurrent /\ inFlight' \in 0 .. MaxConcurrent
    BY <1>0, <1>2, PermitsKept
  <2>5. TypeOK'
    <3>1. /\ req' \in [Request -> Req] /\ task' \in [Request -> Task]
          /\ gone' \in [Request -> SUBSET Post] /\ steady' \in [Request -> SUBSET Post]
      BY <1>0, <2>2, <2>3 DEF TypeOK
    <3>. QED
      BY <1>0, <2>3, <2>4, <3>1 DEF TypeOK
  <2>6. ASSUME NEW q \in Request
        PROVE  /\ QueryInv(req[q], task[q], gone[q], steady[q], posts, deleted)'
               /\ Cursor(task[q], timeline)'
    <3>1. CASE q = r
      <4>1. req'[q] = x /\ task'[q] = t /\ gone'[q] = G /\ steady'[q] = S
        BY <1>0, <2>3, <3>1 DEF TypeOK
      <4>. QED
        BY <2>2, <2>3, <4>1
    <3>2. CASE q # r
      <4>1. req'[q] = req[q] /\ task'[q] = task[q] /\ gone'[q] = gone[q] /\ steady'[q] = steady[q]
        BY <1>0, <2>3, <3>2 DEF TypeOK
      <4>. QED
        BY <1>0, <2>3, <4>1
    <3>. QED
      BY <3>1, <3>2
  <2>7. StoreInv'
    BY <1>0, <2>3 DEF StoreInv
  <2>. QED
    BY <2>4, <2>5, <2>6, <2>7 DEF ServiceInv
<1>3. CASE UNCHANGED vars
  <2>1. UNCHANGED <<posts, deleted, timeline, trimmed, changes, permits, inFlight, req, task, gone, steady>>
    BY <1>3 DEF vars, store
  <2>. QED
    BY <1>0, <2>1 DEF ServiceInv, TypeOK, StoreInv, PermitsAccounted, Inside
<1>. QED
  BY <1>1, <1>2, <1>3, Zenon DEF Next, RequestStep

-----------------------------------------------------------------------------
(* Counting. *)

LEMMA AmongAppend ==
    ASSUME NEW R, NEW s \in Seq(R), NEW p \in R, NEW X
    PROVE  /\ Among(X, s) \in Nat
           /\ Among(X, Append(s, p)) = Among(X, s) + (IF p \in X THEN 1 ELSE 0)
<1>. DEFINE A == {i \in DOMAIN s : s[i] \in X}
            a == Append(s, p)
            B == {i \in DOMAIN a : a[i] \in X}
<1>1. IsFiniteSet(A) /\ Cardinality(A) \in Nat
  <2>1. IsFiniteSet(1 .. Len(s)) /\ A \in SUBSET (1 .. Len(s))
    BY FS_Interval
  <2>. QED
    BY <2>1, FS_Subset, FS_CardinalityType
<1>2. B = IF p \in X THEN A \union {Len(s) + 1} ELSE A
  OBVIOUS
<1>3. Len(s) + 1 \notin A
  OBVIOUS
<1>. HIDE DEF A, B
<1>4. Cardinality(B) = Cardinality(A) + (IF p \in X THEN 1 ELSE 0)
  <2>1. CASE p \in X
    <3>1. Cardinality(A \union {Len(s) + 1}) = Cardinality(A) + 1
      BY <1>1, <1>3, FS_AddElement, Zenon
    <3>. QED
      BY <1>1, <1>2, <2>1, <3>1
  <2>2. CASE p \notin X
    BY <1>1, <1>2, <2>2
  <2>. QED
    BY <2>1, <2>2
<1>. QED
  BY <1>1, <1>4 DEF Among, A, B

LEMMA AmongNone ==
    ASSUME NEW X
    PROVE  Among(X, <<>>) = 0
<1>1. {i \in DOMAIN <<>> : <<>>[i] \in X} = {}
  OBVIOUS
<1>. QED
  BY <1>1, FS_EmptySet DEF Among

LEMMA TurnsGrow ==
    ASSUME NEW v, NEW s, NEW n \in Nat
    PROVE  /\ Turns(v, s, n) \in Nat /\ Turns(v, s, 0) = 0
           /\ n # 0 => Turns(v, s, n) = Turns(v, s, n - 1) + (IF s[n] = v THEN 1 ELSE 0)
           /\ \A k \in 0 .. n : Turns(v, s, k) <= Turns(v, s, n) /\ Turns(v, s, k) \in Nat
<1>. DEFINE A(k) == {i \in 1 .. k : s[i] = v}
<1>1. ASSUME NEW k \in Nat
      PROVE  IsFiniteSet(A(k)) /\ Cardinality(A(k)) \in Nat
  <2>1. IsFiniteSet(1 .. k) /\ A(k) \in SUBSET (1 .. k)
    BY FS_Interval
  <2>. QED
    BY <2>1, FS_Subset, FS_CardinalityType
<1>2. A(0) = {}
  OBVIOUS
<1>3. n # 0 => n - 1 \in Nat /\ n \notin A(n - 1) /\ A(n) = IF s[n] = v THEN A(n - 1) \union {n} ELSE A(n - 1)
  OBVIOUS
<1>4. \A k \in 0 .. n : k \in Nat /\ A(k) \in SUBSET A(n)
  OBVIOUS
<1>. HIDE DEF A
<1>5. n # 0 => Cardinality(A(n)) = Cardinality(A(n - 1)) + (IF s[n] = v THEN 1 ELSE 0)
  BY <1>1, <1>3, FS_AddElement
<1>6. \A k \in 0 .. n : Cardinality(A(k)) <= Cardinality(A(n)) /\ Cardinality(A(k)) \in Nat
  BY <1>1, <1>4, FS_Subset
<1>7. Cardinality(A(0)) = 0
  BY <1>2, FS_EmptySet
<1>. QED
  BY <1>1, <1>5, <1>6, <1>7, Zenon DEF Turns, A

LEMMA AfterStep ==
    ASSUME NEW R, NEW s \in Seq(R), NEW X, NEW i \in 0 .. Len(s)
    PROVE  /\ After(s, i, X) \in Nat /\ After(s, Len(s), X) = 0
           /\ i # 0 => After(s, i - 1, X) = After(s, i, X) + (IF s[i] \in X THEN 1 ELSE 0)
           /\ \A k \in 0 .. i : After(s, i, X) <= After(s, k, X) /\ After(s, k, X) \in Nat
<1>. DEFINE A(k) == {j \in DOMAIN s : j > k /\ s[j] \in X}
<1>1. ASSUME NEW k \in 0 .. Len(s)
      PROVE  IsFiniteSet(A(k)) /\ Cardinality(A(k)) \in Nat
  <2>1. Len(s) \in Nat /\ A(k) \in SUBSET (1 .. Len(s))
    OBVIOUS
  <2>2. IsFiniteSet(1 .. Len(s))
    BY <2>1, FS_Interval
  <2>. QED
    BY <2>1, <2>2, FS_Subset, FS_CardinalityType
<1>2. A(Len(s)) = {} /\ Len(s) \in Nat
  OBVIOUS
<1>3. i # 0 => /\ i - 1 \in 0 .. Len(s) /\ i \notin A(i)
               /\ A(i - 1) = IF s[i] \in X THEN A(i) \union {i} ELSE A(i)
  OBVIOUS
<1>4. \A k \in 0 .. i : k \in 0 .. Len(s) /\ A(i) \in SUBSET A(k)
  OBVIOUS
<1>. HIDE DEF A
<1>5. i # 0 => Cardinality(A(i - 1)) = Cardinality(A(i)) + (IF s[i] \in X THEN 1 ELSE 0)
  BY <1>1, <1>3, FS_AddElement
<1>6. \A k \in 0 .. i : Cardinality(A(i)) <= Cardinality(A(k)) /\ Cardinality(A(k)) \in Nat
  BY <1>1, <1>4, FS_Subset
<1>7. Cardinality(A(Len(s))) = 0
  BY <1>2, FS_EmptySet
<1>. QED
  BY <1>1, <1>5, <1>6, <1>7, Zenon DEF After, A

LEMMA AfterMore ==
    ASSUME NEW R, NEW s \in Seq(R), NEW X, NEW Y, X \subseteq Y, NEW i \in 0 .. Len(s)
    PROVE  After(s, i, X) <= After(s, i, Y)
<1>. DEFINE A == {j \in DOMAIN s : j > i /\ s[j] \in X}
            B == {j \in DOMAIN s : j > i /\ s[j] \in Y}
<1>0. Len(s) \in Nat /\ B \in SUBSET (1 .. Len(s)) /\ A \in SUBSET B
  OBVIOUS
<1>1. IsFiniteSet(B)
  <2>1. IsFiniteSet(1 .. Len(s))
    BY <1>0, FS_Interval
  <2>. QED
    BY <1>0, <2>1, FS_Subset
<1>. HIDE DEF A, B
<1>2. Cardinality(A) <= Cardinality(B)
  BY <1>0, <1>1, FS_Subset
<1>. QED
  BY <1>2 DEF After, A, B

\* The entry that is looked at, and what becomes of it.
LEMMA ScansAre ==
    ASSUME TypeOK, NEW r \in Request, Cursor(task[r], timeline), NEW t1, Scans(r, t1)
    PROVE  \/ /\ MoreUsers(task[r]) /\ t1.found = task[r].found
              /\ t1.i = Len(timeline[task[r].map][Author(task[r])])
              /\ t1.budget = MaxScan /\ t1.room = Cap(task[r].map)
           \/ /\ task[r].pc = "scan" /\ Entry(task[r]) \in task[r].excluded
              /\ t1.i = task[r].i - 1 /\ t1.found = task[r].found
              /\ t1.budget = task[r].budget /\ t1.room = task[r].room
           \/ /\ task[r].pc = "scan" /\ Entry(task[r]) \notin task[r].excluded
              /\ ~Eligible(r, Entry(task[r]))
              /\ t1.i = task[r].i - 1 /\ t1.found = task[r].found
              /\ t1.budget = task[r].budget - 1 /\ t1.room = task[r].room
           \/ /\ task[r].pc = "scan" /\ Entry(task[r]) \notin task[r].excluded
              /\ Eligible(r, Entry(task[r]))
              /\ t1.i = task[r].i - 1 /\ t1.found = Append(task[r].found, Entry(task[r]))
              /\ t1.budget = task[r].budget - 1 /\ t1.room = task[r].room - 1
<1>. DEFINE t == task[r]
            T == timeline
            p == Entry(t)
            l == Len(T[t.map][Author(t)])
<1>0. t \in Task
  BY DEF TypeOK
<1>. HIDE DEF p, l, t
<1>1. CASE MoreUsers(t) /\ t1 = Begun(t, T)
  <2>1. t1.found = t.found /\ t1.i = l /\ t1.budget = MaxScan /\ t1.room = Cap(t.map)
    BY <1>0, <1>1 DEF Begun, Task, l
  <2>. QED
    BY <1>1, <2>1, Zenon DEF t, l
<1>2. CASE t1 = Skips(t) /\ t.pc = "scan" /\ p \in t.excluded
  <2>1. t1.i = t.i - 1 /\ t1.found = t.found /\ t1.budget = t.budget /\ t1.room = t.room
    BY <1>0, <1>2 DEF Skips, Task
  <2>. QED
    BY <1>2, <2>1, Zenon DEF t, p
<1>3. CASE t1 = Refuses(t) /\ t.pc = "scan" /\ p \notin t.excluded /\ ~Eligible(r, p)
  <2>1. t1.i = t.i - 1 /\ t1.found = t.found /\ t1.budget = t.budget - 1 /\ t1.room = t.room
    BY <1>0, <1>3 DEF Refuses, Task
  <2>. QED
    BY <1>3, <2>1, Zenon DEF t, p
<1>4. CASE t1 = Takes(t, p) /\ t.pc = "scan" /\ p \notin t.excluded /\ Eligible(r, p)
  <2>1. /\ t1.i = t.i - 1 /\ t1.found = Append(t.found, p) /\ t1.budget = t.budget - 1
        /\ t1.room = t.room - 1
    BY <1>0, <1>4 DEF Takes, Task
  <2>. QED
    BY <1>4, <2>1, Zenon DEF t, p
<1>. QED
  BY <1>1, <1>2, <1>3, <1>4, Zenon DEF Scans, t, p

-----------------------------------------------------------------------------
(* What a turn brings. *)

LEMMA TurnNat ==
    ASSUME NEW t \in Task, NEW m, NEW v
    PROVE  Turn(t, m, v) \in Nat
<1>1. /\ Len(t.following) \in Nat /\ t.u \in Nat /\ t.u - 1 \in Nat
  BY DEF Task
<1>. QED
  BY <1>1, TurnsGrow DEF Turn

LEMMA TurnSettles ==
    ASSUME NEW t \in Task, t.pc = "scan", NEW m, NEW v
    PROVE  /\ Turn(Settled(t), m, v) = Turn(t, m, v) /\ Finished(Settled(t), m) = Finished(t, m)
           /\ Current(Settled(t), m, v) => Settled(t) = t
<1>1. /\ Settled(t).following = t.following /\ Settled(t).map = t.map
      /\ \/ Settled(t).pc = "user" /\ Settled(t).u = t.u + 1
         \/ Settled(t) = t
  BY SettledIs
<1>2. CASE Settled(t) = t
  BY <1>2
<1>3. CASE Settled(t).pc = "user" /\ Settled(t).u = t.u + 1
  <2>1. Settled(t).u - 1 = t.u
    BY <1>3 DEF Task
  <2>2. Finished(Settled(t), m) = Finished(t, m)
    BY <1>1, <1>3 DEF Finished
  <2>3. Turn(Settled(t), m, v) = Turn(t, m, v)
    <3>. DEFINE z == Settled(t)
    <3>1. z.u - 1 = t.u /\ Finished(z, m) = Finished(t, m) /\ z.pc = "user"
          /\ z.following = t.following /\ z.map = t.map
      BY <1>1, <1>3, <2>1, <2>2
    <3>. HIDE DEF z
    <3>2. Turn(z, m, v) = Turn(t, m, v)
      BY <3>1 DEF Turn
    <3>. QED
      BY <3>2 DEF z
  <2>. QED
    BY <1>3, <2>2, <2>3 DEF Current
<1>. QED
  BY <1>1, <1>2, <1>3

LEMMA TurnGoesOn ==
    ASSUME ServiceInv, NEW r \in Request, NEW t1, Scans(r, t1), NEW m, NEW v
    PROVE  /\ Finished(t1, m) = Finished(task[r], m)
           /\ task[r].pc = "user" => /\ ~Current(task[r], m, v)
                                     /\ Turn(t1, m, v) = Turn(task[r], m, v)
                                            + (IF Current(t1, m, v) THEN 1 ELSE 0)
           /\ task[r].pc = "scan" => /\ Current(t1, m, v) = Current(task[r], m, v)
                                     /\ Turn(t1, m, v) = Turn(task[r], m, v)
<1>. DEFINE t == task[r]
<1>1. Within(t, timeline, t1)
  BY ScansWithin DEF ServiceInv
<1>2. t \in Task /\ t1 \in Task
  BY <1>1 DEF ServiceInv, TypeOK, Within
<1>3. /\ t1.following = t.following /\ t1.map = t.map /\ t1.u = t.u /\ t1.pc = "scan"
      /\ t.u \in DOMAIN t.following /\ Author(t1) = Author(t)
  BY <1>1 DEF Within, Author
<1>4. t.pc \in {"user", "scan"}
  BY DEF Scans, MoreUsers
<1>. HIDE DEF t
<1>5. Finished(t1, m) = Finished(t, m)
  BY <1>3, <1>4 DEF Finished
<1>6. /\ t.u \in Nat /\ t.u # 0
      /\ Turns(v, t.following, t.u)
            = Turns(v, t.following, t.u - 1) + (IF Author(t) = v THEN 1 ELSE 0)
      /\ Turns(v, t.following, t.u - 1) \in Nat
  <2>1. t.u \in Nat /\ t.u # 0 /\ t.u - 1 \in Nat
    BY <1>2 DEF Task
  <2>. QED
    BY <2>1, TurnsGrow DEF Author
<1>7. CASE t.pc = "user"
  <2>1. CASE ~Finished(t, m) /\ m = t.map
    <3>1. Turn(t1, m, v) = Turns(v, t.following, t.u)
      BY <1>3, <1>5, <2>1 DEF Turn
    <3>2. Turn(t, m, v) = Turns(v, t.following, t.u - 1)
      BY <1>7, <2>1 DEF Turn
    <3>3. (Current(t1, m, v) <=> v = Author(t)) /\ ~Current(t, m, v)
      BY <1>3, <1>7, <2>1 DEF Current
    <3>4. Turn(t1, m, v) = Turn(t, m, v) + (IF Current(t1, m, v) THEN 1 ELSE 0)
      BY <1>6, <3>1, <3>2, <3>3
    <3>. QED
      BY <1>5, <1>7, <3>3, <3>4 DEF t
  <2>2. CASE Finished(t, m) \/ m # t.map
    <3>1. m # t.map
      BY <1>7, <2>2 DEF Finished
    <3>2. ~Current(t1, m, v) /\ ~Current(t, m, v) /\ Turn(t1, m, v) = Turn(t, m, v)
      BY <1>3, <1>5, <3>1 DEF Turn, Current
    <3>3. Turn(t, m, v) \in Nat
      BY <1>2, TurnNat
    <3>. QED
      BY <1>5, <1>7, <3>2, <3>3 DEF t
  <2>. QED
    BY <2>1, <2>2, <1>5, <1>7 DEF t
<1>8. CASE t.pc = "scan"
  <2>1. Current(t1, m, v) = Current(t, m, v)
    BY <1>3, <1>8 DEF Current
  <2>2. Turn(t1, m, v) = Turn(t, m, v)
    BY <1>3, <1>5, <1>8 DEF Turn
  <2>. QED
    BY <1>5, <1>8, <2>1, <2>2 DEF t
<1>. QED
  BY <1>4, <1>7, <1>8 DEF t

\* The entry of a scan belongs to the user and the map scanned, and to no other.
LEMMA EntryMine ==
    ASSUME ServiceInv, NEW r \in Request, task[r].pc = "scan"
    PROVE  /\ Entry(task[r]) \in Post
           /\ Light[Entry(task[r])].author_id = Author(task[r])
           /\ OfMap(task[r].map, Entry(task[r]))
           /\ req[r].query \in Query /\ task[r].map \in FromMaps(req[r].query)
           /\ \A m \in FromMaps(req[r].query) : ByMap(m, Entry(task[r])) <=> m = task[r].map
<1>. DEFINE t == task[r]
            p == Entry(t)
<1>1. /\ t \in Task /\ timeline \in Timeline /\ Cursor(t, timeline)
      /\ Listing(timeline, posts \union deleted \union trimmed)
      /\ req[r].query \in Query /\ t.map \in FromMaps(req[r].query)
  BY DEF ServiceInv, TypeOK, Timeline, StoreInv, QueryInv
<1>2. /\ Author(t) \in User /\ t.i \in DOMAIN timeline[t.map][Author(t)] /\ p \in Post
      /\ t.map \in Map
  BY <1>1, EntryIs DEF Entry, Task
<1>3. Light[p].author_id = Author(t) /\ OfMap(t.map, p)
  BY <1>1, <1>2 DEF Listing, Entry
<1>4. \A m \in FromMaps(req[r].query) : ByMap(m, p) <=> m = t.map
  BY <1>1, <1>2, <1>3, LightType DEF FromMaps, ByMap, OfMap
<1>. QED
  BY <1>1, <1>2, <1>3, <1>4

LEMMA CountScans ==
    ASSUME ServiceInv, NEW r \in Request, NEW t1, Scans(r, t1), CountInv(task[r], req[r].query)
    PROVE  CountInv(t1, req[r].query)
<1>. DEFINE t == task[r]
            q == req[r].query
<1>. SUFFICES ASSUME NEW m \in FromMaps(q), NEW v \in User
     PROVE  Among(Mine(m, v), t1.found) + (IF Current(t1, m, v) THEN t1.room ELSE 0)
                <= Cap(m) * Turn(t1, m, v)
  BY DEF CountInv
<1>0. t.pc \in {"user", "scan"}
  BY DEF Scans, MoreUsers
<1>1. Among(Mine(m, v), t.found) + (IF Current(t, m, v) THEN t.room ELSE 0)
          <= Cap(m) * Turn(t, m, v)
  BY <1>0 DEF CountInv
<1>2. /\ t \in Task /\ t1 \in Task /\ t1.map = t.map /\ t.found \in Seq(Post)
      /\ t.room \in Nat /\ t1.room \in Nat
  <2>1. t \in Task /\ Within(t, timeline, t1)
    BY ScansWithin DEF ServiceInv, TypeOK
  <2>2. t1 \in Task /\ t1.map = t.map
    BY <2>1 DEF Within
  <2>. QED
    BY <2>1, <2>2 DEF Task
<1>3. Cap(m) \in Nat /\ Turn(t, m, v) \in Nat /\ Among(Mine(m, v), t.found) \in Nat
  <2>1. m \in Map
    BY DEF FromMaps, Map
  <2>2. Among(Mine(m, v), t.found) \in Nat
    <3>. DEFINE s == t.found
    <3>1. s \in Seq(Post)
      BY <1>2
    <3>. HIDE DEF s
    <3>2. IsFiniteSet(1 .. Len(s)) /\ {i \in DOMAIN s : s[i] \in Mine(m, v)} \in SUBSET (1 .. Len(s))
      <4>1. Len(s) \in Nat /\ DOMAIN s = 1 .. Len(s)
        BY <3>1
      <4>. QED
        BY <4>1, FS_Interval
    <3>. QED
      BY <3>2, FS_Subset, FS_CardinalityType DEF Among, s
  <2>. QED
    BY <1>2, <2>1, <2>2, CapNat, TurnNat
<1>4. CASE MoreUsers(t) /\ t1.found = t.found /\ t1.room = Cap(t.map)
  <2>1. t.pc = "user"
    BY <1>4 DEF MoreUsers
  <2>2. ~Current(t, m, v) /\ Turn(t1, m, v) = Turn(t, m, v) + (IF Current(t1, m, v) THEN 1 ELSE 0)
    BY <2>1, TurnGoesOn
  <2>3. Current(t1, m, v) => m = t.map
    BY <1>2 DEF Current
  <2>. HIDE DEF t
  <2>4. Cap(m) * (Turn(t, m, v) + 1) = Cap(m) * Turn(t, m, v) + Cap(m)
    BY <1>3
  <2>. QED
    BY <1>1, <1>3, <1>4, <2>2, <2>3, <2>4
<1>5. CASE t.pc = "scan" /\ t1.found = t.found /\ t1.room = t.room
  <2>1. Current(t1, m, v) = Current(t, m, v) /\ Turn(t1, m, v) = Turn(t, m, v)
    BY <1>5, TurnGoesOn
  <2>. QED
    BY <1>1, <1>5, <2>1
<1>6. CASE t.pc = "scan" /\ t1.found = Append(t.found, Entry(t)) /\ t1.room = t.room - 1
  <2>1. Current(t1, m, v) = Current(t, m, v) /\ Turn(t1, m, v) = Turn(t, m, v)
    BY <1>6, TurnGoesOn
  <2>2. /\ Entry(t) \in Post /\ Light[Entry(t)].author_id = Author(t)
        /\ ByMap(m, Entry(t)) <=> m = t.map
    BY <1>6, EntryMine
  <2>3. Entry(t) \in Mine(m, v) <=> Current(t, m, v)
    BY <1>6, <2>2 DEF Mine, Current
  <2>. HIDE DEF t
  <2>4. Among(Mine(m, v), t1.found)
            = Among(Mine(m, v), t.found) + (IF Entry(t) \in Mine(m, v) THEN 1 ELSE 0)
    BY <1>2, <1>6, <2>2, AmongAppend
  <2>. QED
    BY <1>1, <1>2, <1>3, <1>6, <2>1, <2>3, <2>4
<1>7. TypeOK /\ Cursor(task[r], timeline)
  BY DEF ServiceInv
<1>. QED
  BY <1>4, <1>5, <1>6, <1>7, ScansAre

LEMMA AmongNat ==
    ASSUME NEW R, NEW s \in Seq(R), NEW X
    PROVE  Among(X, s) \in Nat
<1>1. Len(s) \in Nat /\ {i \in DOMAIN s : s[i] \in X} \in SUBSET (1 .. Len(s))
  OBVIOUS
<1>2. IsFiniteSet(1 .. Len(s))
  BY <1>1, FS_Interval
<1>. QED
  BY <1>1, <1>2, FS_Subset, FS_CardinalityType DEF Among

LEMMA TimesScans ==
    ASSUME ServiceInv, NEW r \in Request, NEW t1, Scans(r, t1),
           TimesInv(task[r], req[r].query, timeline)
    PROVE  TimesInv(t1, req[r].query, timeline)
<1>. DEFINE t == task[r]
            q == req[r].query
            T == timeline
            e == Entry(t)
<1>. SUFFICES ASSUME NEW m \in FromMaps(q), NEW p \in Post, ByMap(m, p)
     PROVE  Among({p}, t1.found) + (IF Ahead(t1, T, m, p) THEN 1 ELSE 0)
                <= Turn(t1, m, Light[p].author_id)
  BY DEF TimesInv
<1>. DEFINE v == Light[p].author_id
<1>0. t.pc \in {"user", "scan"}
  BY DEF Scans, MoreUsers
<1>1. Among({p}, t.found) + (IF Ahead(t, T, m, p) THEN 1 ELSE 0) <= Turn(t, m, v)
  BY <1>0 DEF TimesInv
<1>2. /\ t \in Task /\ T \in Timeline /\ t.found \in Seq(Post)
      /\ Cursor(t, T) /\ Listing(T, posts \union deleted \union trimmed)
      /\ TypeOK /\ t1.following = t.following /\ t1.u = t.u /\ t1.map = t.map /\ t1.pc = "scan"
  <2>1. t \in Task /\ Within(t, timeline, t1)
    BY ScansWithin DEF ServiceInv, TypeOK
  <2>2. t1.following = t.following /\ t1.u = t.u /\ t1.map = t.map /\ t1.pc = "scan"
    BY <2>1 DEF Within
  <2>. QED
    BY <2>1, <2>2 DEF ServiceInv, TypeOK, Timeline, StoreInv, Task
<1>3. Turn(t, m, v) \in Nat /\ Among({p}, t.found) \in Nat
  BY <1>2, TurnNat, AmongNat
<1>4. CASE MoreUsers(t) /\ t1.found = t.found
  <2>1. t.pc = "user"
    BY <1>4 DEF MoreUsers
  <2>2. ~Current(t, m, v) /\ Turn(t1, m, v) = Turn(t, m, v) + (IF Current(t1, m, v) THEN 1 ELSE 0)
    BY <2>1, TurnGoesOn
  <2>3. ~Ahead(t, T, m, p) /\ (Ahead(t1, T, m, p) => Current(t1, m, v))
    BY <2>2 DEF Ahead
  <2>. HIDE DEF t, T, v
  <2>. QED
    BY <1>1, <1>3, <1>4, <2>2, <2>3 DEF v
<1>5. ASSUME t.pc = "scan", t1.i = t.i - 1
      PROVE  /\ Turn(t1, m, v) = Turn(t, m, v) /\ (Ahead(t1, T, m, p) => Ahead(t, T, m, p))
             /\ p = e => Ahead(t, T, m, p) /\ ~Ahead(t1, T, m, p)
  <2>1. Current(t1, m, v) = Current(t, m, v) /\ Turn(t1, m, v) = Turn(t, m, v)
    BY <1>5, TurnGoesOn
  <2>2. t.i \in DOMAIN T[t.map][Author(t)] /\ T[t.map][Author(t)] \in Seq(Post) /\ Author(t) \in User
    BY <1>2, <1>5, EntryIs
  <2>3. t.i \in Nat /\ 1 .. t.i - 1 \subseteq 1 .. t.i
    BY <1>2 DEF Task
  <2>4. Ahead(t1, T, m, p) => Ahead(t, T, m, p)
    BY <1>5, <2>1, <2>3 DEF Ahead
  <2>5. ASSUME p = e PROVE Ahead(t, T, m, p) /\ ~Ahead(t1, T, m, p)
    <3>1. v = Author(t) /\ m = t.map
      BY <1>5, <2>5, EntryMine
    <3>2. Current(t, m, v)
      BY <1>5, <3>1 DEF Current
    <3>3. t.i \in 1 .. t.i /\ T[m][v][t.i] = p
      BY <2>2, <2>5, <3>1 DEF Entry
    <3>4. m \in Map /\ v \in User
      BY <1>2, <2>2, <3>1 DEF Task
    <3>. DEFINE s == T[m][v]
    <3>5. \A i, j \in DOMAIN s : s[i] = s[j] => i = j
      BY <1>2, <3>4 DEF Listing
    <3>6. DOMAIN s = 1 .. Len(s) /\ t.i \in DOMAIN s /\ Len(s) \in Nat
      BY <2>2, <3>1
    <3>7. \A k \in 1 .. t.i - 1 : k \in DOMAIN s /\ k # t.i
      BY <2>3, <3>6
    <3>8. \A k \in 1 .. t.i - 1 : s[k] # p
      BY <3>3, <3>5, <3>6, <3>7, Zenon
    <3>9. Ahead(t, T, m, p)
      BY <3>2, <3>3, Zenon DEF Ahead
    <3>10. ~Ahead(t1, T, m, p)
      BY <1>5, <3>8 DEF Ahead
    <3>. QED
      BY <3>9, <3>10
  <2>. QED
    BY <2>1, <2>4, <2>5
<1>6. CASE t.pc = "scan" /\ t1.i = t.i - 1 /\ t1.found = t.found
  <2>1. Turn(t1, m, v) = Turn(t, m, v) /\ (Ahead(t1, T, m, p) => Ahead(t, T, m, p))
    BY <1>5, <1>6
  <2>. HIDE DEF t, T, v
  <2>. QED
    BY <1>1, <1>3, <1>6, <2>1 DEF v
<1>7. CASE t.pc = "scan" /\ t1.i = t.i - 1 /\ t1.found = Append(t.found, e)
  <2>1. /\ Turn(t1, m, v) = Turn(t, m, v) /\ (Ahead(t1, T, m, p) => Ahead(t, T, m, p))
        /\ p = e => Ahead(t, T, m, p) /\ ~Ahead(t1, T, m, p)
    BY <1>5, <1>7
  <2>2. e \in Post
    BY <1>7, EntryMine
  <2>. HIDE DEF t, T, v, e
  <2>3. Among({p}, t1.found) = Among({p}, t.found) + (IF e \in {p} THEN 1 ELSE 0)
    BY <1>2, <1>7, <2>2, AmongAppend
  <2>. QED
    BY <1>1, <1>3, <2>1, <2>3 DEF v
<1>. QED
  BY <1>2, <1>4, <1>6, <1>7, ScansAre

LEMMA FoundScans ==
    ASSUME ServiceInv, NEW r \in Request, NEW t1, Scans(r, t1),
           FoundInv(task[r], req[r].query, gone[r])
    PROVE  FoundInv(t1, req[r].query, gone[r])
<1>. DEFINE t == task[r]
            q == req[r].query
            e == Entry(t)
            Fine(p) == /\ p \notin gone[r] \union t.excluded /\ ~OwnRetweet(p, q.user_id)
                       /\ \E m \in FromMaps(q) : OfMap(m, p)
                       /\ ~q.is_video_request => Answers(p, Post, Elements(t.following))
<1>1. /\ t \in Task /\ t.found \in Seq(Post) /\ TypeOK /\ Cursor(t, timeline)
      /\ t1.following = t.following /\ t1.excluded = t.excluded
  <2>1. t \in Task /\ Within(t, timeline, t1)
    BY ScansWithin DEF ServiceInv, TypeOK
  <2>2. t1.following = t.following /\ t1.excluded = t.excluded
    BY <2>1 DEF Within
  <2>. QED
    BY <2>1, <2>2 DEF ServiceInv, Task
<1>2. t.pc \in {"user", "scan"}
  BY DEF Scans, MoreUsers
<1>3. \A i \in DOMAIN t.found : Fine(t.found[i])
  BY <1>2 DEF FoundInv
<1>4. ASSUME t.pc = "scan", e \notin t.excluded, Eligible(r, e)
      PROVE  e \in Post /\ Fine(e)
  <2>1. /\ e \in Post /\ q \in Query /\ t.map \in FromMaps(q) /\ OfMap(t.map, e)
    BY <1>4, EntryMine
  <2>2. /\ gone[r] \subseteq deleted /\ posts \in SUBSET Post
    BY <1>4 DEF ServiceInv, QueryInv, TypeOK
  <2>3. /\ e \in posts \ deleted /\ ~OwnRetweet(e, q.user_id)
        /\ t.map = "secondary" => Answers(e, posts, Elements(t.following))
    BY <1>4 DEF Eligible
  <2>4. ASSUME ~q.is_video_request PROVE Answers(e, Post, Elements(t.following))
    <3>1. t.map \in {"original", "secondary"}
      BY <2>1, <2>4 DEF FromMaps
    <3>2. CASE t.map = "secondary"
      BY <2>2, <2>3, <3>2 DEF Answers
    <3>3. CASE t.map = "original"
      <4>1. MainMap(e) = "original"
        BY <2>1, <3>3 DEF OfMap
      <4>2. ~Light[e].is_reply
        BY <4>1 DEF MainMap
      <4>3. Light[e].in_reply_to_post_id = None
        BY <2>1, <4>2, ServiceAssumption
      <4>. QED
        BY <4>3 DEF Answers
    <3>. QED
      BY <3>1, <3>2, <3>3
  <2>5. e \notin gone[r] \union t.excluded
    BY <1>4, <2>2, <2>3
  <2>. HIDE DEF e, t, q
  <2>. QED
    BY <2>1, <2>3, <2>4, <2>5, Zenon
<1>5. CASE t1.found = t.found
  <2>1. \A i \in DOMAIN t1.found : Fine(t1.found[i])
    BY <1>3, <1>5
  <2>. QED
    BY <1>1, <2>1 DEF FoundInv
<1>6. CASE t.pc = "scan" /\ e \notin t.excluded /\ Eligible(r, e) /\ t1.found = Append(t.found, e)
  <2>1. e \in Post /\ Fine(e)
    BY <1>4, <1>6
  <2>2. \A i \in DOMAIN t1.found : \/ i \in DOMAIN t.found /\ t1.found[i] = t.found[i]
                                   \/ t1.found[i] = e
    <3>. HIDE DEF e, t
    <3>. QED
      BY <1>1, <1>6, <2>1
  <2>. HIDE DEF Fine
  <2>3. \A i \in DOMAIN t1.found : Fine(t1.found[i])
    BY <1>3, <2>1, <2>2, Zenon
  <2>. QED
    BY <1>1, <2>3 DEF FoundInv, Fine
<1>. QED
  BY <1>1, <1>5, <1>6, ScansAre

-----------------------------------------------------------------------------
(* What a scan knows, and leaves behind. *)

LEMMA ElementsFinite ==
    ASSUME NEW R, NEW s \in Seq(R)
    PROVE  IsFiniteSet(Elements(s)) /\ Elements(s) \subseteq R
<1>. DEFINE f == [i \in 1 .. Len(s) |-> s[i]]
<1>1. Len(s) \in Nat /\ DOMAIN s = 1 .. Len(s)
  OBVIOUS
<1>2. f \in Surjection(1 .. Len(s), Elements(s))
  BY <1>1 DEF Surjection, Elements
<1>3. IsFiniteSet(1 .. Len(s))
  BY <1>1, FS_Interval
<1>4. IsFiniteSet(Elements(s))
  BY <1>2, <1>3, FS_Surjection
<1>. QED
  BY <1>4 DEF Elements

LEMMA HasFinite ==
    ASSUME NEW t \in Task, NEW m, NEW v
    PROVE  IsFiniteSet(Has(t, m, v)) /\ Cardinality(Has(t, m, v)) \in Nat
<1>1. t.found \in Seq(Post)
  BY DEF Task
<1>2. IsFiniteSet(Elements(t.found)) /\ Has(t, m, v) \in SUBSET Elements(t.found)
  BY <1>1, ElementsFinite DEF Has
<1>. QED
  BY <1>2, FS_Subset, FS_CardinalityType

LEMMA AppendElements ==
    ASSUME NEW R, NEW s \in Seq(R), NEW p \in R
    PROVE  Elements(Append(s, p)) = Elements(s) \union {p}
<1>1. /\ DOMAIN Append(s, p) = DOMAIN s \union {Len(s) + 1}
      /\ Append(s, p)[Len(s) + 1] = p /\ \A i \in DOMAIN s : Append(s, p)[i] = s[i]
  OBVIOUS
<1>. QED
  BY <1>1 DEF Elements

\* A reason stays one while the task finds more.
LEMMA ReasonKept ==
    ASSUME NEW t \in Task, NEW n \in Task, n.excluded = t.excluded,
           Elements(t.found) \subseteq Elements(n.found),
           NEW T, NEW m \in Map, NEW p \in Post, Reason(t, T, m, p)
    PROVE  Reason(n, T, m, p)
<1>. DEFINE v == Light[p].author_id
<1>1. Has(t, m, v) \in SUBSET Has(n, m, v)
  BY DEF Has
<1>2. /\ Cardinality(Has(t, m, v)) <= Cardinality(Has(n, m, v))
      /\ Cardinality(Has(t, m, v)) \in Nat /\ Cardinality(Has(n, m, v)) \in Nat /\ Cap(m) \in Nat
  BY <1>1, HasFinite, FS_Subset, CapNat
<1>3. Beyond(t, T, m, p) => Beyond(n, T, m, p)
  BY DEF Beyond
<1>. QED
  BY <1>2, <1>3 DEF Reason

LEMMA WantsSame ==
    ASSUME NEW t, NEW n, n.excluded = t.excluded, n.following = t.following,
           NEW q, NEW S, NEW T, NEW m, NEW p
    PROVE  Wants(n, q, S, T, m, p) <=> Wants(t, q, S, T, m, p)
BY DEF Wants

LEMMA ScanScans ==
    ASSUME ServiceInv, NEW r \in Request, NEW t1, Scans(r, t1),
           ScanInv(task[r], req[r].query, steady[r], timeline)
    PROVE  ScanInv(t1, req[r].query, steady[r], timeline)
<1>. DEFINE t == task[r]
            q == req[r].query
            S == steady[r]
            s == timeline[t.map][Author(t)]
            e == Entry(t)
            X == Post \ t.excluded
            Wanted0(k) == Wants(t, q, S, timeline, t.map, s[k])
<1>1. /\ t \in Task /\ t1 \in Task /\ t.found \in Seq(Post) /\ TypeOK /\ Cursor(t, timeline)
      /\ t1.following = t.following /\ t1.excluded = t.excluded /\ t1.map = t.map
      /\ t1.pc = "scan" /\ Author(t1) = Author(t) /\ timeline \in Timeline
      /\ MaxScan \in Nat /\ Cap(t.map) \in Nat
  <2>1. t \in Task /\ Within(t, timeline, t1)
    BY ScansWithin DEF ServiceInv, TypeOK
  <2>2. /\ t1.following = t.following /\ t1.excluded = t.excluded /\ t1.map = t.map /\ t1 \in Task
        /\ t1.pc = "scan" /\ Author(t1) = Author(t)
    BY <2>1 DEF Within, Author
  <2>3. Cap(t.map) \in Nat
    BY <2>1, CapNat DEF Task
  <2>. QED
    BY <2>1, <2>2, <2>3, ServiceAssumption DEF ServiceInv, Task, TypeOK, Timeline
<1>2. s \in Seq(Post)
  <2>1. t.u \in DOMAIN t.following
    BY <1>1, ScansWithin DEF Within
  <2>2. Author(t) \in User /\ t.map \in Map
    BY <1>1, <2>1 DEF Author, Task
  <2>. QED
    BY <1>1, <2>2 DEF Timeline
<1>3. ASSUME After(s, t1.i, X) + t1.budget = MaxScan,
             After(s, t1.i, Elements(t1.found)) + t1.room >= Cap(t.map),
             \A k \in DOMAIN s : k > t1.i /\ Wanted0(k) => s[k] \in Elements(t1.found)
      PROVE  ScanInv(t1, q, S, timeline)
  <2>1. \A k : Wants(t1, q, S, timeline, t.map, s[k]) <=> Wanted0(k)
    BY <1>1, WantsSame
  <2>. HIDE DEF t, q, S
  <2>. QED
    BY <1>1, <1>3, <2>1 DEF ScanInv
<1>4. CASE /\ MoreUsers(t) /\ t1.i = Len(s) /\ t1.budget = MaxScan /\ t1.room = Cap(t.map)
  <2>1. Len(s) \in 0 .. Len(s) /\ Len(s) \in Nat
    BY <1>2
  <2>2. After(s, t1.i, X) = 0 /\ After(s, t1.i, Elements(t1.found)) = 0
    <3>. HIDE DEF s, X
    <3>. QED
      BY <1>2, <1>4, <2>1, AfterStep
  <2>3. \A k \in DOMAIN s : ~(k > t1.i)
    BY <1>2, <1>4
  <2>. HIDE DEF s, t, X
  <2>. QED
    BY <1>1, <1>3, <1>4, <2>2, <2>3
<1>5. ASSUME t.pc = "scan"
      PROVE  /\ t.i \in 0 .. Len(s) /\ t.i # 0 /\ t.i \in DOMAIN s /\ s[t.i] = e /\ e \in Post
             /\ t.i \in Nat /\ t.budget \in Nat /\ t.room \in Nat /\ t.i - 1 \in 0 .. Len(s)
             /\ After(s, t.i, X) + t.budget = MaxScan
             /\ After(s, t.i, Elements(t.found)) + t.room >= Cap(t.map)
             /\ \A k \in DOMAIN s : k > t.i /\ Wanted0(k) => s[k] \in Elements(t.found)
             /\ \A Y : /\ After(s, t.i - 1, Y) = After(s, t.i, Y) + (IF e \in Y THEN 1 ELSE 0)
                       /\ After(s, t.i, Y) \in Nat
             /\ \A k \in DOMAIN s : k > t.i - 1 => k > t.i \/ k = t.i
  <2>1. t.i \in DOMAIN s /\ s[t.i] = e /\ e \in Post
    BY <1>1, <1>5, EntryIs DEF Entry
  <2>2. t.i \in Nat /\ t.budget \in Nat /\ t.room \in Nat
    BY <1>1 DEF Task
  <2>3. t.i \in 0 .. Len(s) /\ t.i # 0 /\ t.i - 1 \in 0 .. Len(s)
    BY <1>2, <2>1
  <2>4. /\ After(s, t.i, X) + t.budget = MaxScan
        /\ After(s, t.i, Elements(t.found)) + t.room >= Cap(t.map)
        /\ \A k \in DOMAIN s : k > t.i /\ Wanted0(k) => s[k] \in Elements(t.found)
    BY <1>5 DEF ScanInv
  <2>5. \A Y : /\ After(s, t.i - 1, Y) = After(s, t.i, Y) + (IF e \in Y THEN 1 ELSE 0)
               /\ After(s, t.i, Y) \in Nat
    <3>. HIDE DEF s, t, e
    <3>. QED
      BY <1>2, <2>1, <2>3, AfterStep
  <2>6. \A k \in DOMAIN s : k > t.i - 1 => k > t.i \/ k = t.i
    BY <1>2, <2>2
  <2>. QED
    BY <2>1, <2>2, <2>3, <2>4, <2>5, <2>6, Zenon
<1>6. CASE /\ t.pc = "scan" /\ e \in t.excluded /\ t1.i = t.i - 1 /\ t1.found = t.found
           /\ t1.budget = t.budget /\ t1.room = t.room
  <2>1. e \notin X /\ ~Wanted0(t.i)
    BY <1>5, <1>6 DEF Wants
  <2>. HIDE DEF s, t, X, e, Wanted0
  <2>2. After(s, t1.i, X) + t1.budget = MaxScan
    BY <1>1, <1>5, <1>6, <2>1
  <2>3. After(s, t1.i, Elements(t1.found)) + t1.room >= Cap(t.map)
    <3>. DEFINE F == Elements(t.found)
    <3>1. /\ After(s, t.i - 1, F) = After(s, t.i, F) + (IF e \in F THEN 1 ELSE 0)
          /\ After(s, t.i, F) \in Nat
      BY <1>5, <1>6, Zenon
    <3>2. t1.i = t.i - 1 /\ Elements(t1.found) = F /\ t1.room = t.room
      BY <1>6
    <3>3. After(s, t.i, F) + t.room >= Cap(t.map) /\ t.room \in Nat
      BY <1>5, <1>6
    <3>. HIDE DEF F
    <3>. QED
      BY <1>1, <3>1, <3>2, <3>3
  <2>4. \A k \in DOMAIN s : k > t1.i /\ Wanted0(k) => s[k] \in Elements(t1.found)
    BY <1>5, <1>6, <2>1, Zenon
  <2>. QED
    BY <1>3, <2>2, <2>3, <2>4, Zenon
<1>7. CASE /\ t.pc = "scan" /\ e \notin t.excluded /\ ~Eligible(r, e)
           /\ t1.i = t.i - 1 /\ t1.found = t.found
           /\ t1.budget = t.budget - 1 /\ t1.room = t.room
  <2>1. e \in X
    BY <1>5, <1>7
  <2>2. ~Wanted0(t.i)
    <3>1. S \subseteq posts /\ posts \intersect deleted = {}
      BY <1>7 DEF ServiceInv, QueryInv, StoreInv
    <3>. SUFFICES ASSUME Wanted0(t.i) PROVE Eligible(r, e)
      BY <1>7
    <3>2. /\ e \in S /\ ~OwnRetweet(e, q.user_id)
          /\ t.map = "secondary" => Answers(e, S, Elements(t.following))
      BY <1>5, <1>7 DEF Wants
    <3>3. t.map = "secondary" => Answers(e, posts, Elements(t.following))
      BY <3>1, <3>2 DEF Answers
    <3>4. e \in posts \ deleted
      BY <3>1, <3>2
    <3>. QED
      BY <3>2, <3>3, <3>4 DEF Eligible
  <2>. HIDE DEF s, t, X, e, Wanted0
  <2>3. After(s, t1.i, X) + t1.budget = MaxScan
    BY <1>1, <1>5, <1>7, <2>1
  <2>4. After(s, t1.i, Elements(t1.found)) + t1.room >= Cap(t.map)
    <3>. DEFINE F == Elements(t.found)
    <3>1. /\ After(s, t.i - 1, F) = After(s, t.i, F) + (IF e \in F THEN 1 ELSE 0)
          /\ After(s, t.i, F) \in Nat
      BY <1>5, <1>7, Zenon
    <3>2. t1.i = t.i - 1 /\ Elements(t1.found) = F /\ t1.room = t.room
      BY <1>7
    <3>3. After(s, t.i, F) + t.room >= Cap(t.map) /\ t.room \in Nat
      BY <1>5, <1>7
    <3>. HIDE DEF F
    <3>. QED
      BY <1>1, <3>1, <3>2, <3>3
  <2>5. \A k \in DOMAIN s : k > t1.i /\ Wanted0(k) => s[k] \in Elements(t1.found)
    BY <1>5, <1>7, <2>2, Zenon
  <2>. QED
    BY <1>3, <2>3, <2>4, <2>5, Zenon
<1>8. CASE /\ t.pc = "scan" /\ e \notin t.excluded
           /\ t1.i = t.i - 1 /\ t1.found = Append(t.found, e)
           /\ t1.budget = t.budget - 1 /\ t1.room = t.room - 1
  <2>1. e \in X
    BY <1>5, <1>8
  <2>. HIDE DEF s, t, X, e, Wanted0
  <2>2. e \in Elements(t1.found) /\ Elements(t.found) \subseteq Elements(t1.found)
    BY <1>1, <1>5, <1>8, AppendElements
  <2>3. After(s, t1.i, X) + t1.budget = MaxScan
    BY <1>1, <1>5, <1>8, <2>1
  <2>4. After(s, t1.i, Elements(t1.found)) + t1.room >= Cap(t.map)
    <3>1. After(s, t.i, Elements(t.found)) <= After(s, t.i, Elements(t1.found))
      BY <1>2, <1>5, <1>8, <2>2, AfterMore
    <3>2. After(s, t1.i, Elements(t1.found)) = After(s, t.i, Elements(t1.found)) + 1
      BY <1>5, <1>8, <2>2
    <3>. QED
      BY <1>1, <1>5, <1>8, <3>1, <3>2
  <2>5. \A k \in DOMAIN s : k > t1.i /\ Wanted0(k) => s[k] \in Elements(t1.found)
    BY <1>5, <1>8, <2>2, Zenon
  <2>. QED
    BY <1>3, <2>3, <2>4, <2>5, Zenon
<1>. QED
  BY <1>1, <1>4, <1>6, <1>7, <1>8, ScansAre

LEMMA WantScans ==
    ASSUME ServiceInv, NEW r \in Request, NEW t1, Scans(r, t1),
           WantInv(task[r], req[r].query, steady[r], timeline)
    PROVE  WantInv(t1, req[r].query, steady[r], timeline)
<1>. DEFINE t == task[r]
            q == req[r].query
            S == steady[r]
            T == timeline
<1>1. /\ t \in Task /\ t1 \in Task /\ t.found \in Seq(Post) /\ TypeOK /\ Cursor(t, T)
      /\ t1.following = t.following /\ t1.excluded = t.excluded /\ t1.map = t.map /\ t1.u = t.u
  <2>1. t \in Task /\ Within(t, T, t1)
    BY ScansWithin DEF ServiceInv, TypeOK
  <2>2. /\ t1.following = t.following /\ t1.excluded = t.excluded /\ t1.map = t.map /\ t1 \in Task
        /\ t1.u = t.u
    BY <2>1 DEF Within
  <2>. QED
    BY <2>1, <2>2 DEF ServiceInv, Task
<1>2. /\ t.pc \in {"user", "scan"} /\ ~t.late
  BY <1>1 DEF Scans, MoreUsers, Cursor
<1>3. Elements(t.found) \subseteq Elements(t1.found)
  <2>1. CASE t1.found = t.found
    BY <2>1
  <2>2. CASE t.pc = "scan" /\ t1.found = Append(t.found, Entry(t))
    <3>1. Entry(t) \in Post
      BY <2>2, EntryMine
    <3>. HIDE DEF t
    <3>. QED
      BY <1>1, <2>2, <3>1, AppendElements
  <2>. QED
    BY <1>1, <2>1, <2>2, ScansAre
<1>. SUFFICES ASSUME NEW m \in FromMaps(q), NEW p \in Post, Wants(t1, q, S, T, m, p)
     PROVE  /\ Finished(t1, m) => Reason(t1, T, m, p) \/ Cut(t1, m, p)
            /\ m = t1.map /\ (\E k \in 1 .. t1.u - 1 : t1.following[k] = Light[p].author_id)
                  => Reason(t1, T, m, p)
  BY DEF WantInv
<1>4. Wants(t, q, S, T, m, p)
  BY <1>1, WantsSame
<1>5. /\ Finished(t, m) => Reason(t, T, m, p) \/ Cut(t, m, p)
      /\ m = t.map /\ (\E k \in 1 .. t.u - 1 : t.following[k] = Light[p].author_id)
            => Reason(t, T, m, p)
  BY <1>2, <1>4 DEF WantInv
<1>6. ~Cut(t, m, p)
  BY <1>2 DEF Cut
<1>7. Reason(t, T, m, p) => Reason(t1, T, m, p)
  <2>1. m \in Map
    BY DEF FromMaps, Map
  <2>. QED
    BY <1>1, <1>3, <2>1, ReasonKept
<1>8. Finished(t1, m) = Finished(t, m)
  BY TurnGoesOn
<1>. QED
  BY <1>1, <1>5, <1>6, <1>7, <1>8

\* The entries behind the cursor that are found are different posts of the user.
LEMMA AfterHas ==
    ASSUME NEW t \in Task, NEW T \in Timeline, NEW R, Listing(T, R), NEW m \in Map, NEW v \in User,
           NEW i \in 0 .. Len(T[m][v])
    PROVE  After(T[m][v], i, Elements(t.found)) <= Cardinality(Has(t, m, v))
<1>. DEFINE s == T[m][v]
            A == {k \in DOMAIN s : k > i /\ s[k] \in Elements(t.found)}
            f == [k \in A |-> s[k]]
<1>1. /\ s \in Seq(Post)
      /\ \A k \in DOMAIN s : Light[s[k]].author_id = v /\ OfMap(m, s[k]) /\ s[k] \in Post
      /\ \A k, l \in DOMAIN s : s[k] = s[l] => k = l
  <2>1. s \in Seq(Post)
    BY DEF Timeline
  <2>2. \A k \in DOMAIN s : s[k] \in Post
    BY <2>1
  <2>. QED
    BY <2>1, <2>2 DEF Listing
<1>2. \A k \in A : s[k] \in Has(t, m, v)
  BY <1>1 DEF Has, ByMap, OfMap
<1>3. f \in Injection(A, Has(t, m, v))
  <2>1. f \in [A -> Has(t, m, v)]
    BY <1>2
  <2>2. \A k, l \in A : f[k] = f[l] => k = l
    BY <1>1
  <2>. HIDE DEF f
  <2>. QED
    BY <2>1, <2>2 DEF Injection, IsInjective
<1>4. Cardinality(A) <= Cardinality(Has(t, m, v))
  BY <1>3, HasFinite, FS_Injection
<1>. QED
  BY <1>4 DEF After

LEMMA WantSettles ==
    ASSUME NEW t \in Task, NEW q \in Query, NEW S, NEW T \in Timeline, NEW R, Listing(T, R),
           t.pc = "scan", t.map \in FromMaps(q), t.u \in DOMAIN t.following, ~t.late,
           t.i \in 0 .. Len(T[t.map][Author(t)]),
           ScanInv(t, q, S, T), WantInv(t, q, S, T)
    PROVE  ScanInv(Settled(t), q, S, T) /\ WantInv(Settled(t), q, S, T)
<1>. DEFINE n == Settled(t)
            v == Author(t)
            s == T[t.map][v]
<1>1. /\ n \in Task /\ n.following = t.following /\ n.excluded = t.excluded /\ n.map = t.map
      /\ n.late = t.late /\ n.found = t.found
      /\ \/ (t.i = 0 \/ t.budget = 0 \/ t.room = 0) /\ n.pc = "user" /\ n.u = t.u + 1
         \/ n = t
  BY SettledIs
<1>2. CASE n = t
  BY <1>2
<1>3. CASE (t.i = 0 \/ t.budget = 0 \/ t.room = 0) /\ n.pc = "user" /\ n.u = t.u + 1
  <2>0. /\ v \in User /\ t.map \in Map /\ s \in Seq(Post) /\ t.u \in Nat /\ Cap(t.map) \in Nat
        /\ MaxScan \in Nat /\ t.budget \in Nat /\ t.room \in Nat /\ t.i \in Nat
    <3>1. v \in User /\ t.map \in Map /\ t.u \in Nat /\ t.budget \in Nat /\ t.room \in Nat /\ t.i \in Nat
      BY DEF Author, Task
    <3>2. s \in Seq(Post)
      BY <3>1 DEF Timeline
    <3>. QED
      BY <3>1, <3>2, CapNat, ServiceAssumption
  <2>1. ScanInv(n, q, S, T)
    BY <1>3 DEF ScanInv
  <2>2. ASSUME NEW m \in FromMaps(q), NEW p \in Post, Wants(n, q, S, T, m, p)
        PROVE  /\ Finished(n, m) => Reason(n, T, m, p) \/ Cut(n, m, p)
               /\ m = n.map /\ (\E k \in 1 .. n.u - 1 : n.following[k] = Light[p].author_id)
                     => Reason(n, T, m, p)
    <3>1. Wants(t, q, S, T, m, p) /\ m \in Map
      <4>1. m \in Map
        BY DEF FromMaps, Map
      <4>. HIDE DEF n
      <4>. QED
        BY <1>1, <2>2, <4>1, WantsSame
    <3>2. /\ Finished(t, m) => Reason(t, T, m, p) \/ Cut(t, m, p)
          /\ m = t.map /\ (\E k \in 1 .. t.u - 1 : t.following[k] = Light[p].author_id)
                => Reason(t, T, m, p)
      BY <3>1 DEF WantInv
    <3>3. Reason(t, T, m, p) => Reason(n, T, m, p)
      <4>. HIDE DEF n
      <4>. QED
        BY <1>1, <3>1, ReasonKept
    <3>4. Finished(n, m) = Finished(t, m)
      BY TurnSettles
    <3>5. ~Cut(t, m, p)
      BY DEF Cut
    <3>6. ASSUME m = t.map, v = Light[p].author_id
          PROVE  Reason(t, T, m, p)
      <4>1. p \in Elements(s)
        BY <3>1, <3>6 DEF Wants
      <4>2. PICK k \in DOMAIN s : s[k] = p
        BY <4>1 DEF Elements
      <4>. DEFINE X == Post \ t.excluded
      <4>3. /\ After(s, t.i, X) + t.budget = MaxScan
            /\ After(s, t.i, Elements(t.found)) + t.room >= Cap(t.map)
            /\ \A j \in DOMAIN s :
                  j > t.i /\ Wants(t, q, S, T, t.map, s[j]) => s[j] \in Elements(t.found)
        BY DEF ScanInv
      <4>4. CASE k > t.i
        BY <3>1, <3>6, <4>2, <4>3, <4>4 DEF Reason
      <4>5. CASE ~(k > t.i)
        <5>1. k \in Nat /\ k # 0 /\ k \in 0 .. t.i /\ t.i # 0 /\ t.i \in 0 .. Len(s) /\ Len(s) \in Nat
          BY <2>0, <4>2, <4>5
        <5>2. After(s, t.i, X) <= After(s, k, X) /\ After(s, t.i, X) \in Nat /\ After(s, k, X) \in Nat
          <6>. HIDE DEF s, X
          <6>. QED
            BY <2>0, <5>1, AfterStep
        <5>3. After(s, t.i, Elements(t.found)) <= Cardinality(Has(t, m, v))
          BY <2>0, <3>6, AfterHas
        <5>4. /\ After(s, t.i, Elements(t.found)) \in Nat /\ Cardinality(Has(t, m, v)) \in Nat
          <6>1. Cardinality(Has(t, m, v)) \in Nat
            BY HasFinite
          <6>. HIDE DEF s
          <6>. QED
            BY <2>0, <5>1, <6>1, AfterStep
        <5>5. CASE t.budget = 0
          <6>1. After(s, k, X) >= MaxScan
            BY <2>0, <4>3, <5>2, <5>5
          <6>2. Beyond(t, T, m, p)
            BY <3>6, <4>2, <6>1 DEF Beyond
          <6>. QED
            BY <6>2 DEF Reason
        <5>6. CASE t.room = 0
          <6>1. Cardinality(Has(t, m, v)) >= Cap(m)
            BY <2>0, <3>6, <4>3, <5>3, <5>4, <5>6
          <6>. QED
            BY <3>6, <6>1 DEF Reason
        <5>. QED
          BY <1>3, <5>1, <5>5, <5>6
      <4>. QED
        BY <4>4, <4>5
    <3>7. ASSUME m = n.map, NEW k \in 1 .. n.u - 1, n.following[k] = Light[p].author_id
          PROVE  Reason(n, T, m, p)
      <4>1. k \in 1 .. t.u - 1 \/ k = t.u
        BY <1>3, <2>0
      <4>2. CASE k = t.u
        <5>1. v = Light[p].author_id
          BY <1>1, <3>7, <4>2 DEF Author
        <5>. QED
          BY <1>1, <3>3, <3>6, <3>7, <5>1
      <4>3. CASE k \in 1 .. t.u - 1
        <5>1. t.following[k] = Light[p].author_id /\ m = t.map
          BY <1>1, <3>7
        <5>. QED
          BY <3>2, <3>3, <4>3, <5>1
      <4>. QED
        BY <4>1, <4>2, <4>3
    <3>. HIDE DEF n
    <3>. QED
      BY <3>2, <3>3, <3>4, <3>5, <3>7
  <2>3. WantInv(n, q, S, T)
    <3>. HIDE DEF n
    <3>. QED
      BY <2>2 DEF WantInv
  <2>. QED
    BY <2>1, <2>3
<1>. QED
  BY <1>1, <1>2, <1>3

-----------------------------------------------------------------------------
(* What a task has done stays true of it, whatever it does next. *)

LEMMA Product ==
    ASSUME NEW c \in Nat, NEW a \in Nat, NEW b \in Nat, a <= b
    PROVE  c * a <= c * b
<1>1. b - a \in Nat /\ b = a + (b - a)
  OBVIOUS
<1>2. c * b = c * a + c * (b - a)
  BY <1>1
<1>3. c * (b - a) \in Nat /\ c * a \in Nat
  BY <1>1
<1>. QED
  BY <1>2, <1>3

LEMMA LocalSettles ==
    ASSUME NEW t \in Task, NEW q \in Query, NEW G, NEW S, NEW T \in Timeline, NEW R, Listing(T, R),
           t.pc = "scan", t.map \in FromMaps(q), t.u \in DOMAIN t.following, ~t.late,
           t.i \in 0 .. Len(T[t.map][Author(t)]),
           FoundInv(t, q, G), CountInv(t, q), TimesInv(t, q, T),
           ScanInv(t, q, S, T), WantInv(t, q, S, T)
    PROVE  Local(Settled(t), q, G, S, T)
<1>. DEFINE n == Settled(t)
<1>1. /\ n.following = t.following /\ n.excluded = t.excluded /\ n.found = t.found
      /\ n.pc = "user" \/ n = t
  BY SettledIs
<1>2. ScanInv(n, q, S, T) /\ WantInv(n, q, S, T)
  BY WantSettles
<1>3. FoundInv(n, q, G)
  BY <1>1 DEF FoundInv
<1>4. BestInv(n, q)
  BY <1>1 DEF BestInv
<1>5. ASSUME NEW m, NEW v
      PROVE  Turn(n, m, v) = Turn(t, m, v) /\ (Current(n, m, v) => n = t)
  BY TurnSettles
<1>6. CASE n = t
  BY <1>2, <1>3, <1>4, <1>6 DEF Local
<1>7. CASE n.pc = "user"
  <2>1. \A m, v : ~Current(n, m, v)
    BY <1>7 DEF Current
  <2>2. CountInv(n, q)
    <3>. SUFFICES ASSUME NEW m \in FromMaps(q), NEW v \in User
         PROVE  Among(Mine(m, v), n.found) + 0 <= Cap(m) * Turn(n, m, v)
      BY <2>1 DEF CountInv
    <3>1. Among(Mine(m, v), t.found) + (IF Current(t, m, v) THEN t.room ELSE 0)
              <= Cap(m) * Turn(t, m, v)
      BY DEF CountInv
    <3>2. /\ t.room \in Nat /\ Among(Mine(m, v), t.found) \in Nat /\ Cap(m) \in Nat
          /\ Turn(t, m, v) \in Nat
      BY AmongNat, TurnNat, CapNat DEF Task, FromMaps, Map
    <3>3. Among(Mine(m, v), n.found) = Among(Mine(m, v), t.found) /\ Turn(n, m, v) = Turn(t, m, v)
      BY <1>1, <1>5
    <3>. HIDE DEF n
    <3>4. Cap(m) * Turn(t, m, v) \in Nat
      BY <3>2
    <3>. QED
      BY <3>1, <3>2, <3>3, <3>4
  <2>3. TimesInv(n, q, T)
    <3>. SUFFICES ASSUME NEW m \in FromMaps(q), NEW p \in Post, ByMap(m, p)
         PROVE  Among({p}, n.found) + 0 <= Turn(n, m, Light[p].author_id)
      BY <2>1 DEF TimesInv, Ahead
    <3>1. Among({p}, t.found) + (IF Ahead(t, T, m, p) THEN 1 ELSE 0)
              <= Turn(t, m, Light[p].author_id)
      BY DEF TimesInv
    <3>2. Among({p}, t.found) \in Nat /\ Turn(t, m, Light[p].author_id) \in Nat
      BY AmongNat, TurnNat DEF Task
    <3>3. /\ Among({p}, n.found) = Among({p}, t.found)
          /\ Turn(n, m, Light[p].author_id) = Turn(t, m, Light[p].author_id)
      BY <1>1, <1>5
    <3>. HIDE DEF n
    <3>. QED
      BY <3>1, <3>2, <3>3
  <2>. QED
    BY <1>2, <1>3, <1>4, <2>2, <2>3 DEF Local
<1>. QED
  BY <1>1, <1>6, <1>7

LEMMA LocalScans ==
    ASSUME ServiceInv, NEW r \in Request, NEW t1, Scans(r, t1),
           Local(task[r], req[r].query, gone[r], steady[r], timeline)
    PROVE  Local(Settled(t1), req[r].query, gone[r], steady[r], timeline)
<1>. DEFINE t == task[r]
            q == req[r].query
<1>1. /\ FoundInv(t1, q, gone[r]) /\ CountInv(t1, q) /\ TimesInv(t1, q, timeline)
      /\ ScanInv(t1, q, steady[r], timeline) /\ WantInv(t1, q, steady[r], timeline)
  BY FoundScans, CountScans, TimesScans, ScanScans, WantScans DEF Local
<1>2. Within(t, timeline, t1)
  BY ScansWithin DEF ServiceInv
<1>3. t.pc \in {"user", "scan"}
  BY DEF Scans, MoreUsers
<1>4. q \in Query /\ t.map \in FromMaps(q)
  BY <1>3 DEF ServiceInv, QueryInv
<1>5. timeline \in Timeline /\ Listing(timeline, posts \union deleted \union trimmed)
  BY DEF ServiceInv, TypeOK, Timeline, StoreInv
<1>6. /\ t1 \in Task /\ t1.pc = "scan" /\ t1.map \in FromMaps(q) /\ t1.u \in DOMAIN t1.following
      /\ ~t1.late /\ t1.i \in 0 .. Len(timeline[t1.map][Author(t1)])
  BY <1>2, <1>4 DEF Within, Author
<1>. HIDE DEF q, t
<1>. QED
  BY <1>1, <1>4, <1>5, <1>6, LocalSettles DEF q

\* Where a user who is listed comes first.
LEMMA PlaceIs ==
    ASSUME NEW s \in Seq(User), NEW u \in Elements(s)
    PROVE  Place(u, s) \in DOMAIN s /\ s[Place(u, s)] = u /\ \A j \in DOMAIN s : s[j] = u => Place(u, s) <= j
<1>. DEFINE A == {i \in DOMAIN s : s[i] = u}
<1>1. A \subseteq Nat /\ A # {}
  BY DEF Elements
<1>2. PICK i \in A : \A j \in A : i <= j
  BY <1>1, LeastNat
<1>3. \E j \in DOMAIN s : s[j] = u /\ \A k \in DOMAIN s : s[k] = u => j <= k
  BY <1>2
<1>. QED
  BY <1>3, Zenon DEF Place

LEMMA AmongZero ==
    ASSUME NEW s \in Seq(Post), NEW X, Among(X, s) = 0
    PROVE  \A p \in Elements(s) : p \notin X
<1>. DEFINE A == {i \in DOMAIN s : s[i] \in X}
<1>1. A \in SUBSET (1 .. Len(s)) /\ Len(s) \in Nat
  OBVIOUS
<1>2. IsFiniteSet(A)
  BY <1>1, FS_Interval, FS_Subset
<1>3. A = {}
  BY <1>2, FS_EmptySet DEF Among
<1>. QED
  BY <1>3 DEF Elements

\* A map is done: its turns are over, and whoever had none got nothing.
LEMMA LocalMapDone ==
    ASSUME NEW t \in Task, NEW q \in Query, NEW G, NEW S, NEW T \in Timeline,
           t.pc = "user", ~MoreUsers(t), t.u <= Len(t.following) + 1, t.map \in FromMaps(q),
           Local(t, q, G, S, T), NEW n \in Task,
           n.found = t.found, n.following = t.following, n.excluded = t.excluded,
           n.late = t.late, n.u = 1,
           \/ t.map = "original" /\ n.map = "secondary" /\ n.pc = "user"
           \/ t.map # "original" /\ n.map = t.map /\ n.pc = "rank"
    PROVE  Local(n, q, G, S, T)
<1>0. /\ t.u \in Nat /\ t.u # 0 /\ t.u - 1 \in Nat /\ Len(t.following) \in Nat
      /\ t.u - 1 \in 0 .. Len(t.following) /\ t.following \in Seq(User) /\ t.found \in Seq(Post)
  <2>1. t.u \in Nat /\ t.u # 0 /\ t.following \in Seq(User) /\ t.found \in Seq(Post)
    BY DEF Task
  <2>2. Len(t.following) \in Nat
    BY <2>1
  <2>. QED
    BY <2>1, <2>2
<1>1. ASSUME NEW m \in FromMaps(q), NEW v
      PROVE  /\ Turn(t, m, v) <= Turn(n, m, v) /\ Turn(t, m, v) \in Nat /\ Turn(n, m, v) \in Nat
             /\ ~Current(t, m, v) /\ ~Current(n, m, v)
  <2>1. Turn(t, m, v) \in Nat /\ Turn(n, m, v) \in Nat
    BY TurnNat
  <2>2. CASE Finished(t, m)
    <3>1. m = "original" /\ t.map = "secondary"
      BY <2>2 DEF Finished
    <3>2. Finished(n, m)
      BY <3>1 DEF Finished
    <3>. QED
      BY <2>1, <2>2, <3>2 DEF Turn, Current
  <2>3. CASE ~Finished(t, m) /\ m = t.map
    <3>1. Finished(n, m)
      BY <2>3 DEF Finished
    <3>2. Turn(t, m, v) = Turns(v, t.following, t.u - 1)
      BY <2>3 DEF Turn
    <3>3. Turn(n, m, v) = Turns(v, t.following, Len(t.following))
      BY <3>1 DEF Turn
    <3>4. Turns(v, t.following, t.u - 1) <= Turns(v, t.following, Len(t.following))
      BY <1>0, TurnsGrow
    <3>. QED
      BY <2>1, <3>2, <3>3, <3>4 DEF Current
  <2>4. CASE ~Finished(t, m) /\ m # t.map
    <3>1. Turn(t, m, v) = 0
      BY <2>4 DEF Turn
    <3>. QED
      BY <2>1, <3>1 DEF Current
  <2>. QED
    BY <2>2, <2>3, <2>4
<1>2. FoundInv(n, q, G)
  BY DEF Local, FoundInv
<1>3. CountInv(n, q)
  <2>. SUFFICES ASSUME NEW m \in FromMaps(q), NEW v \in User
       PROVE  Among(Mine(m, v), n.found) + 0 <= Cap(m) * Turn(n, m, v)
    BY <1>1 DEF CountInv
  <2>1. Among(Mine(m, v), t.found) + 0 <= Cap(m) * Turn(t, m, v)
    BY <1>1 DEF CountInv, Local
  <2>2. Cap(m) \in Nat /\ Among(Mine(m, v), t.found) \in Nat
    BY <1>0, AmongNat, CapNat DEF FromMaps, Map
  <2>3. Cap(m) * Turn(t, m, v) <= Cap(m) * Turn(n, m, v)
    BY <1>1, <2>2, Product
  <2>4. Cap(m) * Turn(t, m, v) \in Nat /\ Cap(m) * Turn(n, m, v) \in Nat
    BY <1>1, <2>2
  <2>. QED
    BY <2>1, <2>2, <2>3, <2>4
<1>4. TimesInv(n, q, T)
  <2>. SUFFICES ASSUME NEW m \in FromMaps(q), NEW p \in Post, ByMap(m, p)
       PROVE  Among({p}, n.found) + 0 <= Turn(n, m, Light[p].author_id)
    BY <1>1 DEF TimesInv, Ahead
  <2>1. Among({p}, t.found) + 0 <= Turn(t, m, Light[p].author_id)
    BY <1>1 DEF TimesInv, Ahead, Local
  <2>2. Among({p}, t.found) \in Nat
    BY <1>0, AmongNat
  <2>. QED
    BY <1>1, <2>1, <2>2
<1>5. ScanInv(n, q, S, T) /\ BestInv(n, q)
  BY DEF ScanInv, BestInv
<1>6. ASSUME NEW m \in FromMaps(q), NEW p \in Post, Wants(n, q, S, T, m, p), Finished(n, m)
      PROVE  Reason(n, T, m, p) \/ Cut(n, m, p)
  <2>. DEFINE a == Light[p].author_id
  <2>1. Wants(t, q, S, T, m, p) /\ a \in Elements(t.following) /\ m \in Map
    <3>1. m \in Map
      BY DEF FromMaps, Map
    <3>. QED
      BY <1>6, <3>1, WantsSame DEF Wants
  <2>2. /\ Finished(t, m) => Reason(t, T, m, p) \/ Cut(t, m, p)
        /\ m = t.map /\ (\E k \in 1 .. t.u - 1 : t.following[k] = a) => Reason(t, T, m, p)
    BY <2>1 DEF Local, WantInv
  <2>3. Reason(t, T, m, p) => Reason(n, T, m, p)
    BY <2>1, ReasonKept
  <2>4. \A v : Has(n, m, v) = Has(t, m, v)
    BY DEF Has
  <2>5. Cut(t, m, p) => Cut(n, m, p)
    BY <2>4 DEF Cut
  <2>6. CASE Finished(t, m)
    BY <2>2, <2>3, <2>5, <2>6
  <2>7. CASE ~Finished(t, m)
    <3>1. m = t.map
      BY <1>6, <2>7 DEF Finished, FromMaps
    <3>2. CASE \E k \in 1 .. t.u - 1 : t.following[k] = a
      BY <2>2, <2>3, <3>1, <3>2
    <3>3. CASE ~\E k \in 1 .. t.u - 1 : t.following[k] = a
      <4>1. Place(a, t.following) \in DOMAIN t.following /\ t.following[Place(a, t.following)] = a
        BY <1>0, <2>1, PlaceIs
      <4>2. Place(a, t.following) >= t.u /\ Place(a, t.following) \in Nat /\ t.u <= Len(t.following)
        BY <1>0, <3>3, <4>1
      <4>3. n.late
        BY <4>2 DEF MoreUsers
      <4>4. ASSUME NEW v \in Elements(t.following),
                   Place(v, t.following) >= Place(a, t.following)
            PROVE  Has(n, m, v) = {}
        <5>1. /\ Place(v, t.following) \in DOMAIN t.following
              /\ \A j \in DOMAIN t.following : t.following[j] = v => Place(v, t.following) <= j
          BY <1>0, PlaceIs
        <5>2. \A j \in 1 .. t.u - 1 : j \in DOMAIN t.following /\ ~(Place(v, t.following) <= j)
          BY <1>0, <4>2, <4>4, <5>1
        <5>3. {j \in 1 .. t.u - 1 : t.following[j] = v} = {}
          BY <5>1, <5>2
        <5>4. Turn(t, m, v) = 0
          BY <2>7, <3>1, <5>3, FS_EmptySet DEF Turn, Turns
        <5>5. v \in User
          BY <1>0 DEF Elements
        <5>6. Among(Mine(m, v), t.found) + 0 <= Cap(m) * 0
          BY <1>1, <5>4, <5>5 DEF CountInv, Local
        <5>7. Among(Mine(m, v), t.found) \in Nat /\ Cap(m) \in Nat
          BY <1>0, <2>1, AmongNat, CapNat
        <5>8. Among(Mine(m, v), t.found) = 0
          BY <5>6, <5>7
        <5>9. \A o \in Elements(t.found) : o \notin Mine(m, v)
          BY <1>0, <5>8, AmongZero
        <5>10. Elements(t.found) \subseteq Post
          BY <1>0, ElementsFinite
        <5>. QED
          BY <5>9, <5>10 DEF Has, Mine
      <4>5. Cut(n, m, p)
        BY <4>3, <4>4 DEF Cut
      <4>. QED
        BY <4>5
    <3>. QED
      BY <3>2, <3>3
  <2>. QED
    BY <2>6, <2>7
<1>7. WantInv(n, q, S, T)
  BY <1>6 DEF WantInv
<1>. QED
  BY <1>2, <1>3, <1>4, <1>5, <1>7 DEF Local

\* Time runs out, the sort is done, or the statistics panic: nothing is found.
LEMMA LocalSame ==
    ASSUME NEW t \in Task, NEW q, NEW G, NEW S, NEW T, Local(t, q, G, S, T), NEW n \in Task,
           n.found = t.found, n.following = t.following, n.excluded = t.excluded,
           n.map = t.map, n.u = t.u, t.late => n.late,
           \/ t.pc = "user" /\ n.pc = "user"
           \/ t.pc = "rank" /\ n.pc \in {"done", "panicked"},
           BestInv(n, q)
    PROVE  Local(n, q, G, S, T)
<1>1. ASSUME NEW m, NEW v
      PROVE  /\ Finished(n, m) = Finished(t, m) /\ Turn(n, m, v) = Turn(t, m, v)
             /\ ~Current(n, m, v) /\ ~Current(t, m, v) /\ Has(n, m, v) = Has(t, m, v)
  <2>1. Finished(n, m) = Finished(t, m)
    BY DEF Finished
  <2>2. Turn(n, m, v) = Turn(t, m, v)
    BY <2>1 DEF Turn
  <2>. QED
    BY <2>1, <2>2 DEF Current, Has
<1>2. FoundInv(n, q, G)
  BY DEF Local, FoundInv
<1>3. CountInv(n, q)
  BY <1>1 DEF Local, CountInv
<1>4. TimesInv(n, q, T)
  BY <1>1 DEF Local, TimesInv, Ahead
<1>5. ScanInv(n, q, S, T)
  BY DEF ScanInv
<1>6. ASSUME NEW m, NEW p
      PROVE  /\ Wants(n, q, S, T, m, p) <=> Wants(t, q, S, T, m, p)
             /\ Reason(t, T, m, p) => Reason(n, T, m, p)
             /\ Cut(t, m, p) => Cut(n, m, p)
  <2>1. Wants(n, q, S, T, m, p) <=> Wants(t, q, S, T, m, p)
    BY WantsSame
  <2>2. Reason(t, T, m, p) => Reason(n, T, m, p)
    BY <1>1 DEF Reason, Beyond
  <2>3. Cut(t, m, p) => Cut(n, m, p)
    BY <1>1 DEF Cut
  <2>. QED
    BY <2>1, <2>2, <2>3
<1>7. WantInv(n, q, S, T)
  BY <1>1, <1>6 DEF WantInv, Local
<1>. QED
  BY <1>2, <1>3, <1>4, <1>5, <1>7 DEF Local

LEMMA LocalNone ==
    ASSUME NEW t, NEW q, NEW G, NEW S, NEW T, t.pc = "none"
    PROVE  Local(t, q, G, S, T)
BY DEF Local, FoundInv, CountInv, TimesInv, ScanInv, WantInv, BestInv

LEMMA LocalEnters ==
    ASSUME NEW q \in Query, NEW list \in Seq(User), NEW G, NEW S, NEW T
    PROVE  Local(NewTask(q, list), q, G, S, T)
<1>. DEFINE n == NewTask(q, list)
<1>1. /\ n \in Task /\ n.pc = "user" /\ n.u = 1 /\ n.map # "secondary" /\ n.found = <<>>
  BY NewTaskIs
<1>2. \A m, v : ~Current(n, m, v) /\ ~Finished(n, m) /\ Turn(n, m, v) \in Nat
  BY <1>1, TurnNat DEF Current, Finished
<1>. HIDE DEF n
<1>3. FoundInv(n, q, G)
  <2>1. DOMAIN n.found = {}
    BY <1>1
  <2>. QED
    BY <2>1 DEF FoundInv
<1>4. \A X : Among(X, n.found) = 0
  BY <1>1, AmongNone
<1>5. CountInv(n, q)
  <2>. SUFFICES ASSUME NEW m \in FromMaps(q), NEW v \in User
       PROVE  Among(Mine(m, v), n.found) + 0 <= Cap(m) * Turn(n, m, v)
    BY <1>2 DEF CountInv
  <2>1. Cap(m) * Turn(n, m, v) \in Nat
    <3>1. Cap(m) \in Nat /\ Turn(n, m, v) \in Nat
      BY <1>2, CapNat DEF FromMaps, Map
    <3>. QED
      BY <3>1
  <2>. QED
    BY <1>4, <2>1
<1>6. TimesInv(n, q, T)
  BY <1>2, <1>4 DEF TimesInv, Ahead
<1>7. ScanInv(n, q, S, T) /\ BestInv(n, q)
  BY <1>1 DEF ScanInv, BestInv
<1>8. WantInv(n, q, S, T)
  BY <1>1, <1>2 DEF WantInv
<1>. QED
  BY <1>3, <1>5, <1>6, <1>7, <1>8 DEF Local, n

LEMMA LocalMoves ==
    ASSUME ServiceInv, NEW r \in Request, NEW x, NEW t, NEW G, NEW S, Moves(r, x, t, G, S),
           Local(task[r], req[r].query, gone[r], steady[r], timeline)
    PROVE  Local(t, x.query, G, S, timeline)
<1>. DEFINE t0 == task[r]
            q == req[r].query
            T == timeline
<1>0. /\ t0 \in Task /\ t \in Task /\ T \in Timeline /\ req[r] \in Req
      /\ QueryInv(req[r], t0, gone[r], steady[r], posts, deleted) /\ Cursor(t0, T)
  BY MoveTypes DEF ServiceInv, TypeOK, Timeline
<1>1. CASE Enters(x, t, G, S)
  <2>1. PICK p \in Query, list \in Seq(User) :
          x = [stage |-> "scan", query |-> p, reply |-> <<>>] /\ t = NewTask(p, list)
    BY <1>1, Zenon DEF Enters
  <2>2. x.query = p
    BY <2>1
  <2>. QED
    BY <2>1, <2>2, LocalEnters
<1>2. CASE Stays(r, x) /\ t = t0 /\ G = gone[r] /\ S = steady[r]
  <2>1. CASE req[r].stage = "new"
    <3>1. t0.pc = "none"
      BY <1>0, <2>1 DEF QueryInv
    <3>. QED
      BY <1>2, <3>1, LocalNone
  <2>2. CASE req[r].stage # "new"
    <3>1. x.query = q
      BY <1>0, <1>2, <2>2 DEF Stays, Req
    <3>. HIDE DEF q
    <3>. QED
      BY <1>2, <3>1 DEF q
  <2>. QED
    BY <2>1, <2>2
<1>3. CASE Goes(r, t) /\ x = req[r] /\ G = gone[r] /\ S = steady[r]
  <2>1. CASE \E t1 : Scans(r, t1) /\ t = Settled(t1)
    <3>1. PICK t1 : Scans(r, t1) /\ t = Settled(t1)
      BY <2>1
    <3>. QED
      BY <1>3, <3>1, LocalScans
  <2>2. ASSUME t0.pc \notin {"none", "scan"} PROVE q \in Query /\ t0.map \in FromMaps(q)
    BY <1>0, <2>2 DEF QueryInv
  <2>. DEFINE G0 == gone[r]
              S0 == steady[r]
  <2>3. Local(t0, q, G0, S0, T)
    OBVIOUS
  <2>4. CASE MoreUsers(t0) /\ t = [t0 EXCEPT !.late = TRUE]
    <3>1. /\ t.found = t0.found /\ t.following = t0.following /\ t.excluded = t0.excluded
          /\ t.map = t0.map /\ t.u = t0.u /\ t.late /\ t.pc = "user" /\ t0.pc = "user"
      BY <1>0, <2>4 DEF Task, MoreUsers
    <3>2. BestInv(t, q)
      BY <3>1 DEF BestInv
    <3>. HIDE DEF t0, q, T, G0, S0
    <3>3. Local(t, q, G0, S0, T)
      BY <1>0, <2>3, <3>1, <3>2, LocalSame
    <3>. QED
      BY <1>3, <3>3 DEF q, T, G0, S0
  <2>5. CASE /\ t0.pc = "user" /\ ~MoreUsers(t0)
             /\ t = IF t0.map = "original" THEN [t0 EXCEPT !.map = "secondary", !.u = 1]
                    ELSE [t0 EXCEPT !.pc = "rank", !.u = 1]
    <3>1. /\ t.found = t0.found /\ t.following = t0.following /\ t.excluded = t0.excluded
          /\ t.late = t0.late /\ t.u = 1
          /\ \/ t0.map = "original" /\ t.map = "secondary" /\ t.pc = "user"
             \/ t0.map # "original" /\ t.map = t0.map /\ t.pc = "rank"
      BY <1>0, <2>5 DEF Task
    <3>2. t0.u <= Len(t0.following) + 1 /\ q \in Query /\ t0.map \in FromMaps(q)
      BY <1>0, <2>2, <2>5 DEF Cursor
    <3>. HIDE DEF t0, q, T, G0, S0
    <3>3. Local(t, q, G0, S0, T)
      BY <1>0, <2>3, <2>5, <3>1, <3>2, LocalMapDone
    <3>. QED
      BY <1>3, <3>3 DEF q, T, G0, S0
  <2>6. ASSUME NEW s \in Orders(t0.found), t0.pc = "rank",
               t = [t0 EXCEPT !.pc = "done", !.best = Take(s, Limit(q))]
        PROVE  Local(t, q, G0, S0, T)
    <3>1. /\ t.found = t0.found /\ t.following = t0.following /\ t.excluded = t0.excluded
          /\ t.map = t0.map /\ t.u = t0.u /\ t.late = t0.late /\ t.pc = "done"
          /\ t.best = Take(s, Limit(q))
      BY <1>0, <2>6 DEF Task
    <3>2. BestInv(t, q)
      BY <2>6, <3>1 DEF BestInv
    <3>. HIDE DEF t0, q, T, G0, S0
    <3>. QED
      BY <1>0, <2>3, <2>6, <3>1, <3>2, LocalSame
  <2>7. CASE t0.pc = "rank" /\ t = [t0 EXCEPT !.pc = "panicked"]
    <3>1. /\ t.found = t0.found /\ t.following = t0.following /\ t.excluded = t0.excluded
          /\ t.map = t0.map /\ t.u = t0.u /\ t.late = t0.late /\ t.pc = "panicked"
      BY <1>0, <2>7 DEF Task
    <3>2. BestInv(t, q)
      BY <3>1 DEF BestInv
    <3>. HIDE DEF t0, q, T, G0, S0
    <3>3. Local(t, q, G0, S0, T)
      BY <1>0, <2>3, <2>7, <3>1, <3>2, LocalSame
    <3>. QED
      BY <1>3, <3>3 DEF q, T, G0, S0
  <2>. QED
    BY <1>3, <2>1, <2>4, <2>5, <2>6, <2>7, Zenon DEF Goes
<1>. QED
  BY <1>1, <1>2, <1>3, Zenon DEF Moves

\* A change of the store takes only posts that are not steady, and adds only posts
\* that were not there.
LEMMA LocalChanges ==
    ASSUME ServiceInv, StoreStep, NEW r \in Request,
           Local(task[r], req[r].query, gone[r], steady[r], timeline)
    PROVE  Local(task[r], req[r].query, gone[r], steady'[r], timeline')
<1>. DEFINE t == task[r]
            q == req[r].query
            S == steady[r]
            N == steady'[r]
            T == timeline
            U == timeline'
<1>1. CASE t.pc = "none"
  BY <1>1, LocalNone
<1>2. CASE t.pc # "none"
  <2>1. /\ t \in Task /\ T \in Timeline /\ U \in Timeline /\ q \in Query /\ N \subseteq S
        /\ S \subseteq posts /\ Cursor(t, T) /\ t.map \in Map
        /\ Listing(T, posts \union deleted \union trimmed)
        /\ \A m \in Map : \A v \in User : Changed(T[m][v], U[m][v]) /\ (Held(m, v) => U[m][v] = T[m][v])
    <3>1. /\ t \in Task /\ T \in Timeline /\ q \in Query /\ S \subseteq posts /\ Cursor(t, T)
          /\ t.map \in Map /\ Listing(T, posts \union deleted \union trimmed)
      BY <1>2 DEF ServiceInv, TypeOK, Timeline, QueryInv, Task, StoreInv
    <3>. QED
      BY <3>1, StoreMoves
  <2>2. ASSUME t.pc = "scan"
        PROVE  U[t.map][Author(t)] = T[t.map][Author(t)] /\ Author(t) \in User
    <3>1. Author(t) \in User
      BY <2>1, <2>2, EntryIs
    <3>2. Held(t.map, Author(t))
      BY <2>2 DEF Held, Author
    <3>. QED
      BY <2>1, <3>1, <3>2
  <2>3. ASSUME NEW m \in Map, NEW p \in Post, Wants(t, q, N, U, m, p)
        PROVE  Wants(t, q, S, T, m, p) /\ p \in N /\ p \in posts /\ Light[p].author_id \in User
    <3>. DEFINE v == Light[p].author_id
                s == T[m][v]
    <3>1. v \in User
      BY LightType
    <3>2. /\ p \in N /\ p \in S /\ p \in posts /\ p \notin t.excluded /\ p \in Elements(U[m][v])
      BY <2>1, <2>3 DEF Wants
    <3>3. s \in Seq(Post) /\ Changed(s, U[m][v])
      BY <2>1, <3>1 DEF Timeline
    <3>4. p \in Elements(s)
      <4>1. CASE U[m][v] = s
        BY <3>2, <4>1
      <4>2. CASE \E o \in Post \ (posts \union deleted \union trimmed) : U[m][v] = Append(s, o)
        <5>1. PICK o \in Post \ (posts \union deleted \union trimmed) : U[m][v] = Append(s, o)
          BY <4>2
        <5>. HIDE DEF s
        <5>2. p \in Elements(s) \union {o}
          BY <3>2, <3>3, <5>1, AppendElements
        <5>. QED
          BY <3>2, <5>1, <5>2
      <4>3. CASE s # <<>> /\ U[m][v] = Tail(s)
        <5>. DEFINE z == Tail(s)
        <5>1. \A i \in DOMAIN z : i + 1 \in DOMAIN s /\ z[i] = s[i + 1]
          BY <3>3, <4>3
        <5>2. p \in Elements(z)
          BY <3>2, <4>3
        <5>. HIDE DEF s, z
        <5>. QED
          BY <5>1, <5>2 DEF Elements
      <4>. QED
        BY <3>3, <4>1, <4>2, <4>3, Zenon DEF Changed
    <3>5. m = "secondary" => Answers(p, S, Elements(t.following))
      <4>1. m = "secondary" => Answers(p, N, Elements(t.following))
        BY <2>3 DEF Wants
      <4>. HIDE DEF N, S
      <4>. QED
        BY <2>1, <4>1 DEF Answers
    <3>6. v \in Elements(t.following) /\ ~OwnRetweet(p, q.user_id)
      BY <2>3 DEF Wants
    <3>. HIDE DEF t, q, S, N, T, U
    <3>. QED
      BY <3>1, <3>2, <3>4, <3>5, <3>6 DEF Wants
  <2>4. ASSUME NEW m \in Map, NEW p \in Post, p \in N, Beyond(t, T, m, p)
        PROVE  Beyond(t, U, m, p)
    <3>. DEFINE v == Light[p].author_id
                s == T[m][v]
                z == U[m][v]
                X == Post \ t.excluded
    <3>1. s \in Seq(Post) /\ z \in Seq(Post) /\ Changed(s, z)
      BY <2>1, LightType DEF Timeline
    <3>2. PICK at \in DOMAIN s : s[at] = p /\ After(s, at, X) >= MaxScan
      BY <2>4 DEF Beyond
    <3>3. CASE z = s
      BY <3>2, <3>3 DEF Beyond
    <3>4. CASE \E o \in Post : z = Append(s, o)
      <4>1. PICK o \in Post : z = Append(s, o)
        BY <3>4
      <4>. DEFINE A == {k \in DOMAIN s : k > at /\ s[k] \in X}
                  B == {k \in DOMAIN z : k > at /\ z[k] \in X}
      <4>2. /\ at \in DOMAIN z /\ z[at] = p /\ DOMAIN z = 1 .. Len(z) /\ Len(z) \in Nat
            /\ \A k \in DOMAIN s : k \in DOMAIN z /\ z[k] = s[k]
        <5>. HIDE DEF s, z
        <5>. QED
          BY <3>1, <3>2, <4>1
      <4>3. A \in SUBSET B /\ B \in SUBSET (1 .. Len(z))
        <5>. HIDE DEF s, z, X
        <5>. QED
          BY <4>2
      <4>4. Cardinality(A) <= Cardinality(B) /\ Cardinality(A) \in Nat /\ Cardinality(B) \in Nat
        <5>. HIDE DEF A, B
        <5>1. IsFiniteSet(B)
          <6>1. IsFiniteSet(1 .. Len(z))
            BY <4>2, FS_Interval
          <6>. QED
            BY <4>3, <6>1, FS_Subset, Zenon
        <5>. QED
          BY <4>3, <5>1, FS_Subset, FS_CardinalityType
      <4>5. After(z, at, X) >= MaxScan
        <5>1. After(s, at, X) = Cardinality(A) /\ After(z, at, X) = Cardinality(B)
          BY DEF After
        <5>2. MaxScan \in Nat
          BY ServiceAssumption
        <5>. HIDE DEF s, z, X, A, B
        <5>. QED
          BY <3>2, <4>4, <5>1, <5>2
      <4>. QED
        BY <4>2, <4>5 DEF Beyond
    <3>5. CASE s # <<>> /\ z = Tail(s) /\ Head(s) \notin N
      <4>. DEFINE A == {k \in DOMAIN s : k > at /\ s[k] \in X}
                  B == {k \in DOMAIN z : k > at - 1 /\ z[k] \in X}
                  f == [k \in A |-> k - 1]
      <4>1. at # 1
        BY <2>4, <3>1, <3>2, <3>5
      <4>2. /\ at \in Nat /\ at - 1 \in DOMAIN z /\ z[at - 1] = p
            /\ DOMAIN z = 1 .. Len(z) /\ Len(z) \in Nat
            /\ \A k \in DOMAIN s : k \in Nat /\ k # 0
                  /\ (k # 1 => k - 1 \in DOMAIN z /\ z[k - 1] = s[k])
        <5>. HIDE DEF s, z
        <5>1. /\ Len(s) \in Nat /\ DOMAIN s = 1 .. Len(s) /\ Len(z) = Len(s) - 1 /\ Len(z) \in Nat
              /\ DOMAIN z = 1 .. Len(z) /\ \A k \in 1 .. Len(z) : z[k] = s[k + 1]
          BY <3>1, <3>5
        <5>2. ASSUME NEW k \in DOMAIN s, k # 1
              PROVE  k - 1 \in DOMAIN z /\ z[k - 1] = s[k]
          <6>1. k \in Nat /\ k - 1 \in 1 .. Len(z) /\ (k - 1) + 1 = k
            BY <5>1, <5>2
          <6>. QED
            BY <5>1, <6>1
        <5>. QED
          BY <3>2, <4>1, <5>1, <5>2
      <4>3. f \in Injection(A, B)
        <5>. HIDE DEF s, z, X
        <5>1. \A k \in A : k - 1 \in B /\ k \in Nat
          BY <4>2
        <5>2. f \in [A -> B] /\ \A k, l \in A : f[k] = f[l] => k = l
          BY <5>1
        <5>. HIDE DEF f
        <5>. QED
          BY <5>2 DEF Injection, IsInjective
      <4>4. Cardinality(A) <= Cardinality(B) /\ Cardinality(A) \in Nat /\ Cardinality(B) \in Nat
        <5>1. IsFiniteSet(B)
          <6>1. B \in SUBSET (1 .. Len(z))
            BY <4>2
          <6>. HIDE DEF B
          <6>2. IsFiniteSet(1 .. Len(z))
            BY <4>2, FS_Interval
          <6>. QED
            BY <6>1, <6>2, FS_Subset, Zenon
        <5>. HIDE DEF A, B, f
        <5>. QED
          BY <4>3, <5>1, FS_Injection, FS_CardinalityType
      <4>5. After(z, at - 1, X) >= MaxScan
        <5>1. After(s, at, X) = Cardinality(A) /\ After(z, at - 1, X) = Cardinality(B)
          BY DEF After
        <5>2. MaxScan \in Nat
          BY ServiceAssumption
        <5>. HIDE DEF s, z, X, A, B
        <5>. QED
          BY <3>2, <4>4, <5>1, <5>2
      <4>. QED
        BY <4>2, <4>5 DEF Beyond
    <3>. QED
      BY <3>1, <3>3, <3>4, <3>5, Zenon DEF Changed
  <2>5. Local(t, q, gone[r], S, T)
    OBVIOUS
  <2>6. FoundInv(t, q, gone[r]) /\ CountInv(t, q) /\ BestInv(t, q)
    BY <2>5 DEF Local
  <2>7. TimesInv(t, q, U)
    <3>1. \A m, p : Ahead(t, U, m, p) <=> Ahead(t, T, m, p)
      BY <2>2 DEF Ahead, Current
    <3>. HIDE DEF t, q, T, U
    <3>. QED
      BY <2>5, <3>1 DEF Local, TimesInv
  <2>8. ScanInv(t, q, N, U)
    <3>. SUFFICES ASSUME t.pc = "scan" PROVE ScanInv(t, q, N, U)
      BY DEF ScanInv
    <3>. DEFINE s == T[t.map][Author(t)]
    <3>1. U[t.map][Author(t)] = s /\ s \in Seq(Post)
      BY <2>1, <2>2 DEF Timeline
    <3>2. \A k \in DOMAIN s : Wants(t, q, N, U, t.map, s[k]) => Wants(t, q, S, T, t.map, s[k])
      <4>1. \A k \in DOMAIN s : s[k] \in Post
        BY <3>1
      <4>. QED
        BY <2>1, <2>3, <4>1
    <3>3. /\ After(s, t.i, Post \ t.excluded) + t.budget = MaxScan
          /\ After(s, t.i, Elements(t.found)) + t.room >= Cap(t.map)
          /\ \A k \in DOMAIN s : k > t.i /\ Wants(t, q, S, T, t.map, s[k])
                => s[k] \in Elements(t.found)
      BY <2>5 DEF Local, ScanInv
    <3>. HIDE DEF t, q, S, N, T, U, s
    <3>. QED
      BY <3>1, <3>2, <3>3 DEF ScanInv
  <2>9. WantInv(t, q, N, U)
    <3>. SUFFICES ASSUME NEW m \in FromMaps(q), NEW p \in Post, Wants(t, q, N, U, m, p)
         PROVE  /\ Finished(t, m) => Reason(t, U, m, p) \/ Cut(t, m, p)
                /\ m = t.map /\ (\E k \in 1 .. t.u - 1 : t.following[k] = Light[p].author_id)
                      => Reason(t, U, m, p)
      BY DEF WantInv
    <3>1. m \in Map
      BY DEF FromMaps, Map
    <3>2. Wants(t, q, S, T, m, p) /\ p \in N
      BY <2>3, <3>1
    <3>3. Reason(t, T, m, p) => Reason(t, U, m, p)
      BY <2>4, <3>1, <3>2 DEF Reason
    <3>. HIDE DEF t, q, S, N, T, U
    <3>. QED
      BY <1>2, <2>5, <3>2, <3>3 DEF Local, WantInv
  <2>. QED
    BY <2>6, <2>7, <2>8, <2>9 DEF Local
<1>. QED
  BY <1>1, <1>2

LEMMA InitTasks == Init => TaskInv
<1>. SUFFICES ASSUME Init, NEW r \in Request
     PROVE  Local(task[r], req[r].query, gone[r], steady[r], timeline)
  BY DEF TaskInv
<1>1. task[r].pc = "none"
  BY DEF Init, NoTask
<1>. QED
  BY <1>1, LocalNone

LEMMA NextTasks == ServiceInv /\ TaskInv /\ [Next]_vars => TaskInv'
<1>. SUFFICES ASSUME ServiceInv, TaskInv, [Next]_vars, NEW q \in Request
     PROVE  Local(task'[q], req'[q].query, gone'[q], steady'[q], timeline')
  BY DEF TaskInv
<1>0. Local(task[q], req[q].query, gone[q], steady[q], timeline)
  BY DEF TaskInv
<1>1. CASE StoreStep
  <2>1. UNCHANGED Service
    BY <1>1, StoreMoves
  <2>2. Local(task[q], req[q].query, gone[q], steady'[q], timeline')
    BY <1>0, <1>1, LocalChanges
  <2>. QED
    BY <2>1, <2>2 DEF Service
<1>2. ASSUME NEW r \in Request, RequestStep(r)
      PROVE  Local(task'[q], req'[q].query, gone'[q], steady'[q], timeline')
  <2>0. TypeOK /\ QueryInv(req[r], task[r], gone[r], steady[r], posts, deleted)
    BY DEF ServiceInv
  <2>1. PICK x, t, G, S : Moves(r, x, t, G, S)
    BY <1>2, <2>0, RequestMoves
  <2>2. /\ req' = [req EXCEPT ![r] = x] /\ task' = [task EXCEPT ![r] = t]
        /\ gone' = [gone EXCEPT ![r] = G] /\ steady' = [steady EXCEPT ![r] = S]
        /\ timeline' = timeline
    BY <2>1 DEF Moves, store
  <2>3. CASE q = r
    <3>1. Local(t, x.query, G, S, timeline)
      BY <1>0, <2>1, <2>3, LocalMoves
    <3>2. req'[q] = x /\ task'[q] = t /\ gone'[q] = G /\ steady'[q] = S
      BY <2>0, <2>2, <2>3 DEF TypeOK
    <3>. QED
      BY <2>2, <3>1, <3>2
  <2>4. CASE q # r
    <3>1. req'[q] = req[q] /\ task'[q] = task[q] /\ gone'[q] = gone[q] /\ steady'[q] = steady[q]
      BY <2>0, <2>2, <2>4 DEF TypeOK
    <3>. QED
      BY <1>0, <2>2, <3>1
  <2>. QED
    BY <2>3, <2>4
<1>3. CASE UNCHANGED vars
  BY <1>0, <1>3 DEF vars, store
<1>. QED
  BY <1>1, <1>2, <1>3, Zenon DEF Next, RequestStep

-----------------------------------------------------------------------------
(* What follows for a reply. *)

LEMMA AmongReply ==
    ASSUME NEW s \in Seq(Post), NEW o \in Orders(s), NEW n \in Nat, NEW X
    PROVE  Among(X, Take(o, n)) <= Among(X, s)
<1>1. PICK f \in Injection(DOMAIN s, DOMAIN s) : \A k \in DOMAIN s : o[k] = s[f[k]]
  BY OrdersAre
<1>2. o \in Seq(Post) /\ Len(o) = Len(s)
  BY OrdersAre
<1>. DEFINE b == Take(o, n)
            A == {i \in DOMAIN b : b[i] \in X}
            B == {i \in DOMAIN s : s[i] \in X}
            g == [i \in A |-> f[i]]
<1>3. \A i \in DOMAIN b : i \in DOMAIN s /\ b[i] = o[i]
  <2>1. \A i \in DOMAIN b : i \in DOMAIN o /\ b[i] = o[i]
    BY <1>2, TakeIs
  <2>2. DOMAIN o = DOMAIN s
    BY <1>2
  <2>. HIDE DEF b
  <2>. QED
    BY <2>1, <2>2
<1>4. f \in [DOMAIN s -> DOMAIN s] /\ \A k, l \in DOMAIN s : f[k] = f[l] => k = l
  BY <1>1 DEF Injection, IsInjective
<1>. HIDE DEF b
<1>5. \A i \in A : i \in DOMAIN s /\ f[i] \in B
  BY <1>1, <1>3, <1>4
<1>6. g \in Injection(A, B)
  <2>1. g \in [A -> B] /\ \A k, l \in A : g[k] = g[l] => k = l
    BY <1>4, <1>5
  <2>. HIDE DEF g
  <2>. QED
    BY <2>1 DEF Injection, IsInjective
<1>7. IsFiniteSet(B)
  <2>1. B \in SUBSET (1 .. Len(s)) /\ Len(s) \in Nat
    OBVIOUS
  <2>2. IsFiniteSet(1 .. Len(s))
    BY <2>1, FS_Interval
  <2>. QED
    BY <2>1, <2>2, FS_Subset, Zenon
<1>. HIDE DEF A, B, g
<1>8. Cardinality(A) <= Cardinality(B)
  BY <1>6, <1>7, FS_Injection
<1>. QED
  BY <1>8 DEF Among, A, B, b

LEMMA TimesAre ==
    ASSUME NEW s \in Seq(User), NEW v
    PROVE  Turns(v, s, Len(s)) = Times(v, s)
<1>1. DOMAIN s = 1 .. Len(s)
  OBVIOUS
<1>. QED
  BY <1>1 DEF Turns, Times

LEMMA Sound == ServiceInv /\ TaskInv => ReplySound
<1>. SUFFICES ASSUME ServiceInv, TaskInv, NEW r \in Request, req[r].stage = "done"
     PROVE  LET q == req[r].query
                reply == req[r].reply
                following == task[r].following
            IN  /\ Len(reply) <= Limit(q)
                /\ \A i, j \in DOMAIN reply : i < j =>
                       Light[reply[i]].created_at >= Light[reply[j]].created_at
                /\ Len(following) <= MaxInput
                /\ q.following # <<>> => following = Take(q.following, MaxInput)
                /\ \A p \in Elements(reply) :
                      /\ p \notin gone[r] \union Elements(Take(q.exclude, MaxInput))
                      /\ ~OwnRetweet(p, q.user_id)
                      /\ q.is_video_request => ~Light[p].is_reply
                      /\ ~q.is_video_request => Answers(p, Post, Elements(following))
                      /\ Times(p, reply) <= Times(Light[p].author_id, following)
                /\ \A m \in FromMaps(q), u \in User :
                      Cardinality({i \in DOMAIN reply : Light[reply[i]].author_id = u
                                      /\ (q.is_video_request \/ MainMap(reply[i]) = m)})
                          <= Cap(m) * Times(u, following)
  BY Zenon DEF ReplySound
<1>. DEFINE t == task[r]
            q == req[r].query
            reply == req[r].reply
            F == t.following
<1>1. /\ t \in Task /\ t.pc = "done" /\ reply = t.best /\ q \in Query /\ Len(F) <= MaxInput
      /\ q.following # <<>> => F = Take(q.following, MaxInput)
      /\ t.excluded = Elements(Take(q.exclude, MaxInput)) /\ t.map \in FromMaps(q)
  BY DEF ServiceInv, TypeOK, QueryInv
<1>2. Local(t, q, gone[r], steady[r], timeline)
  BY DEF TaskInv
<1>3. PICK s \in Orders(t.found) : t.best = Take(s, Limit(q))
  BY <1>1, <1>2 DEF Local, BestInv
<1>4. t.found \in Seq(Post) /\ F \in Seq(User) /\ Limit(q) \in Nat /\ Len(F) \in Nat
  BY <1>1, QueryFields DEF Task
<1>5. /\ s \in Seq(Post) /\ Len(s) = Len(t.found)
      /\ \A k, l \in DOMAIN s : k < l => Light[s[k]].created_at >= Light[s[l]].created_at
      /\ \A k \in DOMAIN s : \E j \in DOMAIN t.found : s[k] = t.found[j]
  <2>. DEFINE z == t.found
  <2>. HIDE DEF z
  <2>1. z \in Seq(Post) /\ s \in Orders(z)
    BY <1>3, <1>4 DEF z
  <2>2. PICK f \in Injection(DOMAIN z, DOMAIN z) : \A k \in DOMAIN z : s[k] = z[f[k]]
    BY <2>1, OrdersAre
  <2>3. f \in [DOMAIN z -> DOMAIN z]
    BY DEF Injection
  <2>4. /\ s \in Seq(Post) /\ Len(s) = Len(z)
        /\ \A k, l \in DOMAIN z : k < l => Light[s[k]].created_at >= Light[s[l]].created_at
    BY <2>1, OrdersAre
  <2>5. DOMAIN s = DOMAIN z
    BY <2>1, <2>4
  <2>. QED
    BY <2>2, <2>3, <2>4, <2>5 DEF z
<1>6. /\ Len(reply) <= Limit(q) /\ reply \in Seq(Post)
      /\ \A i \in DOMAIN reply : i \in DOMAIN s /\ reply[i] = s[i]
  <2>1. \A n \in Nat : /\ Take(s, n) \in Seq(Post) /\ Len(Take(s, n)) <= n
                       /\ \A i \in DOMAIN Take(s, n) : i \in DOMAIN s /\ Take(s, n)[i] = s[i]
    BY <1>5, TakeIs
  <2>2. reply = Take(s, Limit(q))
    BY <1>1, <1>3
  <2>. HIDE DEF reply
  <2>. QED
    BY <1>4, <2>1, <2>2
<1>7. \A X : Among(X, reply) <= Among(X, t.found)
  BY <1>1, <1>3, <1>4, AmongReply
<1>8. \A X : Among(X, reply) \in Nat /\ Among(X, t.found) \in Nat
  BY <1>4, <1>6, AmongNat
<1>9. \A m, v : Turn(t, m, v) = Times(v, F) /\ Turn(t, m, v) \in Nat /\ ~Current(t, m, v)
  <2>1. \A m : Finished(t, m)
    BY <1>1 DEF Finished
  <2>2. \A m, v : Turn(t, m, v) = Times(v, F)
    BY <1>4, <2>1, TimesAre DEF Turn
  <2>3. \A m, v : Turn(t, m, v) \in Nat
    BY <1>1, TurnNat
  <2>. QED
    BY <1>1, <2>2, <2>3 DEF Current
<1>10. \A i, j \in DOMAIN reply : i < j =>
           Light[reply[i]].created_at >= Light[reply[j]].created_at
  BY <1>5, <1>6
<1>11. ASSUME NEW p \in Elements(reply)
       PROVE  /\ p \notin gone[r] \union Elements(Take(q.exclude, MaxInput))
              /\ ~OwnRetweet(p, q.user_id)
              /\ q.is_video_request => ~Light[p].is_reply
              /\ ~q.is_video_request => Answers(p, Post, Elements(F))
              /\ Times(p, reply) <= Times(Light[p].author_id, F)
  <2>1. PICK j \in DOMAIN t.found : p = t.found[j]
    BY <1>5, <1>6 DEF Elements
  <2>2. p \in Post
    BY <1>4, <2>1
  <2>3. /\ p \notin gone[r] \union t.excluded /\ ~OwnRetweet(p, q.user_id)
        /\ \E m \in FromMaps(q) : OfMap(m, p)
        /\ ~q.is_video_request => Answers(p, Post, Elements(F))
    BY <1>1, <1>2, <2>1 DEF Local, FoundInv
  <2>4. q.is_video_request => ~Light[p].is_reply
    BY <2>3 DEF FromMaps, OfMap
  <2>5. \E m \in FromMaps(q) : ByMap(m, p)
    BY <2>2, LightType DEF FromMaps, ByMap
  <2>6. PICK m \in FromMaps(q) : ByMap(m, p)
    BY <2>5
  <2>7. Among({p}, t.found) + 0 <= Turn(t, m, Light[p].author_id)
    BY <1>1, <1>2, <1>9, <2>2, <2>6 DEF Local, TimesInv, Ahead
  <2>8. Times(p, reply) = Among({p}, reply)
    BY DEF Times, Among
  <2>9. Times(p, reply) <= Times(Light[p].author_id, F)
    <3>1. /\ Among({p}, reply) <= Among({p}, t.found) /\ Among({p}, reply) \in Nat
          /\ Among({p}, t.found) \in Nat
          /\ Turn(t, m, Light[p].author_id) = Times(Light[p].author_id, F)
          /\ Turn(t, m, Light[p].author_id) \in Nat
      BY <1>7, <1>8, <1>9
    <3>. HIDE DEF t, q, reply, F
    <3>. QED
      BY <2>7, <2>8, <3>1
  <2>. QED
    BY <1>1, <2>3, <2>4, <2>9
<1>12. ASSUME NEW m \in FromMaps(q), NEW u \in User
       PROVE  Cardinality({i \in DOMAIN reply : Light[reply[i]].author_id = u
                              /\ (q.is_video_request \/ MainMap(reply[i]) = m)})
                  <= Cap(m) * Times(u, F)
  <2>. DEFINE A == {i \in DOMAIN reply : Light[reply[i]].author_id = u
                              /\ (q.is_video_request \/ MainMap(reply[i]) = m)}
  <2>1. \A i \in DOMAIN reply : reply[i] \in Post
    BY <1>6
  <2>2. \A o \in Post : ByMap(m, o) <=> (q.is_video_request \/ MainMap(o) = m)
    BY DEF FromMaps, ByMap
  <2>3. A = {i \in DOMAIN reply : reply[i] \in Mine(m, u)}
    <3>. HIDE DEF q, reply
    <3>. QED
      BY <2>1, <2>2 DEF Mine
  <2>4. Cardinality(A) = Among(Mine(m, u), reply)
    BY <2>3, Zenon DEF Among
  <2>5. Among(Mine(m, u), t.found) + 0 <= Cap(m) * Turn(t, m, u)
    BY <1>1, <1>2, <1>9 DEF Local, CountInv
  <2>6. /\ Among(Mine(m, u), reply) <= Among(Mine(m, u), t.found)
        /\ Among(Mine(m, u), reply) \in Nat /\ Among(Mine(m, u), t.found) \in Nat
        /\ Turn(t, m, u) = Times(u, F) /\ Turn(t, m, u) \in Nat
    BY <1>7, <1>8, <1>9
  <2>7. Cap(m) \in Nat
    BY CapNat DEF FromMaps, Map
  <2>8. Cap(m) * Turn(t, m, u) \in Nat
    BY <2>6, <2>7
  <2>. HIDE DEF t, q, reply, F, A
  <2>9. Cardinality(A) <= Cap(m) * Times(u, F)
    BY <2>4, <2>5, <2>6, <2>8
  <2>. QED
    BY <2>9 DEF A
<1>. QED
  BY <1>1, <1>6, <1>10, <1>11, <1>12, Zenon

LEMMA OrdersAll ==
    ASSUME NEW s \in Seq(Post), NEW o \in Orders(s)
    PROVE  Elements(s) \subseteq Elements(o)
<1>1. PICK f \in Injection(DOMAIN s, DOMAIN s) : \A k \in DOMAIN s : o[k] = s[f[k]]
  BY OrdersAre
<1>2. DOMAIN o = DOMAIN s
  BY OrdersAre
<1>3. IsFiniteSet(DOMAIN s)
  <2>1. Len(s) \in Nat /\ DOMAIN s = 1 .. Len(s)
    OBVIOUS
  <2>. QED
    BY <2>1, FS_Interval
<1>4. f \in Surjection(DOMAIN s, DOMAIN s)
  BY <1>3, FS_Injection
<1>5. \A i \in DOMAIN s : \E k \in DOMAIN s : f[k] = i
  BY <1>4 DEF Surjection
<1>. QED
  BY <1>1, <1>2, <1>5 DEF Elements

\* A post that is found is in the reply, or the reply is full of newer ones.
LEMMA FullOfNewer ==
    ASSUME NEW s \in Seq(Post), NEW o \in Orders(s), NEW n \in Nat, NEW p \in Elements(s)
    PROVE  \/ p \in Elements(Take(o, n))
           \/ /\ Len(Take(o, n)) = n
              /\ \A x \in Elements(Take(o, n)) : Light[x].created_at >= Light[p].created_at
<1>1. PICK k \in DOMAIN o : o[k] = p
  BY OrdersAll DEF Elements
<1>. DEFINE b == Take(o, n)
<1>2. /\ o \in Seq(Post) /\ DOMAIN o = DOMAIN s /\ DOMAIN o = 1 .. Len(o) /\ Len(o) \in Nat
      /\ \A i, j \in DOMAIN o : i < j => Light[o[i]].created_at >= Light[o[j]].created_at
  <2>1. o \in Seq(Post) /\ Len(o) = Len(s)
    BY OrdersAre
  <2>2. DOMAIN o = DOMAIN s /\ DOMAIN o = 1 .. Len(o) /\ Len(o) \in Nat
    BY <2>1
  <2>. QED
    BY <2>1, <2>2, OrdersAre
<1>3. /\ b \in Seq(Post) /\ (Len(b) = n \/ b = o)
      /\ \A i \in DOMAIN b : i \in DOMAIN o /\ b[i] = o[i]
  BY <1>2, TakeIs
<1>4. Len(b) \in Nat /\ DOMAIN b = 1 .. Len(b)
  BY <1>2, <1>3
<1>. HIDE DEF b
<1>5. CASE k \in DOMAIN b
  BY <1>1, <1>3, <1>5 DEF Elements, b
<1>6. CASE k \notin DOMAIN b
  <2>1. Len(b) = n
    BY <1>1, <1>3, <1>6
  <2>2. k \in Nat /\ k >= 1 /\ k > n
    BY <1>1, <1>2, <1>4, <1>6, <2>1
  <2>3. \A i \in DOMAIN b : i < k
    BY <1>4, <2>1, <2>2
  <2>4. \A i \in DOMAIN b : Light[b[i]].created_at >= Light[p].created_at
    BY <1>1, <1>2, <1>3, <2>3
  <2>. QED
    BY <2>1, <2>4 DEF Elements, b
<1>. QED
  BY <1>5, <1>6

LEMMA BeyondIs ==
    ASSUME TypeOK, StoreInv, NEW r \in Request, NEW m \in Map, NEW p \in Post,
           Beyond(task[r], timeline, m, p)
    PROVE  BeyondScan(r, m, p)
<1>. DEFINE v == Light[p].author_id
            s == timeline[m][v]
            e == task[r].excluded
<1>1. v \in User /\ s \in Seq(Post)
  BY LightType DEF TypeOK
<1>2. PICK at \in DOMAIN s : s[at] = p /\ After(s, at, Post \ e) >= MaxScan
  BY DEF Beyond
<1>3. \A i, j \in DOMAIN s : s[i] = s[j] => i = j
  BY <1>1 DEF StoreInv, Listing
<1>4. at = CHOOSE i \in DOMAIN s : s[i] = p
  BY <1>2, <1>3
<1>5. {i \in DOMAIN s : i > at /\ s[i] \in Post \ e} = {i \in DOMAIN s : i > at /\ s[i] \notin e}
  <2>1. \A i \in DOMAIN s : s[i] \in Post
    BY <1>1
  <2>. HIDE DEF s, e
  <2>. QED
    BY <2>1
<1>6. Cardinality({i \in DOMAIN s : i > at /\ s[i] \notin e}) >= MaxScan
  BY <1>2, <1>5 DEF After
<1>. QED
  BY <1>4, <1>6 DEF BeyondScan

LEMMA Left == ServiceInv /\ TaskInv => LeftOutForAReason
<1>. SUFFICES ASSUME ServiceInv, TaskInv, NEW r \in Request, req[r].stage = "done",
                     NEW m \in FromMaps(req[r].query), NEW p \in Post, Wanted(r, m, p)
     PROVE  \/ p \in Elements(req[r].reply)
            \/ /\ p \in Elements(task[r].found)
               /\ Len(req[r].reply) = Limit(req[r].query)
               /\ \A q \in Elements(req[r].reply) : Light[q].created_at >= Light[p].created_at
            \/ /\ p \notin Elements(task[r].found)
               /\ \/ CutOff(r, m, p)
                  \/ BeyondScan(r, m, p)
                  \/ Cardinality(FoundOf(r, m, Light[p].author_id)) >= Cap(m)
  BY Zenon DEF LeftOutForAReason
<1>. DEFINE t == task[r]
            q == req[r].query
<1>1. /\ t \in Task /\ t.pc = "done" /\ req[r].reply = t.best /\ q \in Query
      /\ TypeOK /\ StoreInv
  BY DEF ServiceInv, TypeOK, QueryInv
<1>2. Local(t, q, gone[r], steady[r], timeline)
  BY DEF TaskInv
<1>3. PICK o \in Orders(t.found) : t.best = Take(o, Limit(q))
  BY <1>1, <1>2 DEF Local, BestInv
<1>4. t.found \in Seq(Post) /\ Limit(q) \in Nat /\ m \in Map
  BY <1>1, QueryFields DEF Task, FromMaps, Map
<1>5. CASE p \in Elements(t.found)
  <2>1. \/ p \in Elements(t.best)
        \/ /\ Len(t.best) = Limit(q)
           /\ \A x \in Elements(t.best) : Light[x].created_at >= Light[p].created_at
    BY <1>3, <1>4, <1>5, FullOfNewer
  <2>. QED
    BY <1>1, <1>5, <2>1, Zenon
<1>6. CASE p \notin Elements(t.found)
  <2>1. Wants(t, q, steady[r], timeline, m, p)
    BY Zenon DEF Wanted, Wants
  <2>2. Finished(t, m)
    BY <1>1 DEF Finished
  <2>3. Reason(t, timeline, m, p) \/ Cut(t, m, p)
    BY <1>1, <1>2, <2>1, <2>2 DEF Local, WantInv
  <2>4. \A u : FoundOf(r, m, u) = Has(t, m, u)
    BY DEF FoundOf, Has, ByMap
  <2>5. Cut(t, m, p) => CutOff(r, m, p)
    BY <2>4, Zenon DEF Cut, CutOff
  <2>6. Beyond(t, timeline, m, p) => BeyondScan(r, m, p)
    BY <1>1, <1>4, BeyondIs
  <2>. QED
    BY <1>6, <2>3, <2>4, <2>5, <2>6, Zenon DEF Reason
<1>. QED
  BY <1>5, <1>6

-----------------------------------------------------------------------------
(* The theorems. *)

\* The invariant the others follow from: what the store, the permits, the requests
\* and their tasks are and what a task knows, after any number of steps of any
\* requests and of the store.
THEOREM ServiceInvariant == Spec => [](ServiceInv /\ TaskInv)
<1>1. Init => ServiceInv /\ TaskInv
  BY InitService, InitTasks
<1>2. ServiceInv /\ TaskInv /\ [Next]_vars => (ServiceInv /\ TaskInv)'
  BY NextService, NextTasks
<1>. QED
  BY <1>1, <1>2, PTL DEF Spec

\* The maps, the counters, the requests and the tasks keep their types: the permits
\* and the gauge never leave 0 .. max_concurrent_requests.
THEOREM ServiceTypes == Spec => []TypeOK
<1>1. ServiceInv => TypeOK
  BY DEF ServiceInv
<1>. QED
  BY <1>1, ServiceInvariant, PTL

\* However a request ends (a reply, an error, a panic of its task, the client going
\* away), its permit and its place in the gauge are given back exactly once.
THEOREM PermitsReturned == Spec => []PermitsAccounted
<1>1. ServiceInv => PermitsAccounted
  BY DEF ServiceInv
<1>. QED
  BY <1>1, ServiceInvariant, PTL

\* A reply is what get_in_network_posts promises: within its limit, newest first, of
\* the first followed users, without exclusions, deleted posts and the viewer's own
\* retweets, and within the caps per author.
THEOREM RepliesSound == Spec => []ReplySound
BY ServiceInvariant, Sound, PTL

\* A wanted post that was there all the time is missing from a reply only for one of
\* the reasons the code has; what happens to the store meanwhile is not one of them.
THEOREM NothingElseLeftOut == Spec => []LeftOutForAReason
BY ServiceInvariant, Left, PTL

=============================================================================
