--------------------------- MODULE PhpServiceProofs ---------------------------
(***************************************************************************)
(* Proofs about PhpService, for any posts, lists, requests, configurations *)
(* and times.  Each filter gives the list a quality (Aged, Distinct, ...),  *)
(* and no later step takes it away, since steps only lose candidates or    *)
(* change their places and scores (Follows).  The memory of the duplicates *)
(* filter covers what was ever replied and what is on its way (MemoryInv). *)
(* Whatever a filter drops is excused, or another candidate stands for it, *)
(* then covers it, then is the best of its conversation (ReasonInv).  If   *)
(* the arithmetic on scores gives integers (ScoresAreInts), places stay    *)
(* apart (TypesInv); if decay moreover never raises a score (ScoresDecay), *)
(* the selector sorts by what the scorers made of each candidate (RankInv) *)
(* and all ranks are given (RankIs).                                       *)
(***************************************************************************)
EXTENDS PhpService, FiniteSetTheorems, WellFoundedInduction, TLAPS

\* What the filters establish, one after the other.
Aged(s) == \A c \in s : BornAt[c.id] <= now /\ began - BornAt[c.id] <= pipe.maxAge
Distinct(s) == \A c, d \in s : c.id = d.id => c = d
Unseen(s) == \A c \in s : c.id \notin query.seen
Unserved(s) == \A c \in s : c.id \notin query.served
NotOwn(s) == \A c \in s : LookupAuthor(c.id) # query.user
NotMuted(s) ==
    \A c \in s : query.muted # "malformed" /\ (query.muted = "words" => c.id \notin MutedText)
OneRetweet(s) ==
    \A c, d \in s : RetweetOf[c.id] # 0 /\ RetweetOf[c.id] = RetweetOf[d.id] => c = d
OneConversation(s) ==
    \A c, d \in s : ConversationOf(c.id) = ConversationOf(d.id) => c = d

\* t holds candidates of s, perhaps with other places and scores.
Follows(t, s) == Ids(t) \subseteq Ids(s) /\ (Distinct(s) => Distinct(t))

\* The filters before the n-th have run.
Past(n) == (stage = "filter" /\ pos > n) \/ stage \in {"score", "select"}

FilterInv ==
    /\ Past(1) => Aged(candidates)
    /\ Past(2) => Distinct(candidates)
    /\ Past(3) => Unseen(candidates)
    /\ Past(4) => Unserved(candidates)
    /\ Past(5) => NotOwn(candidates)
    /\ Past(6) => NotMuted(candidates)
    /\ Past(7) => OneRetweet(candidates)
    /\ Past(8) => OneConversation(candidates)

\* Places and scores are numbers as long as filters compare them.
Fields == {"id", "at", "network", "score", "quality", "weighted"}
CandidateInv ==
    /\ \A c \in candidates : DOMAIN c = Fields /\ c.id \in Post
    /\ \A c \in reply : c.id \in Post
    /\ stage = "filter" =>
        /\ Places(candidates)
        /\ \A c \in candidates : c.at \in Int /\ c.score \in Int

MemoryInv ==
    /\ shown \subseteq seenIds
    /\ Past(2) => Ids(candidates) \subseteq seenIds /\ Ids(candidates) \intersect shown = {}

Pipe == [maxAge : Int, diversity : BOOLEAN, extended : BOOLEAN]
ServiceInv ==
    /\ now \in Int /\ began \in Int /\ began <= now
    /\ pipe \in Pipe /\ config \in Config
    /\ stage \in {"idle", "fetch", "filter", "score", "select", "replied", "thrown"}
    /\ pos \in Nat /\ (stage = "filter" => pos \in 1 .. 8)
    /\ stage = "score" => pos \in 1 .. Len(Scorers)
    /\ query \in Query

IInv == ServiceInv /\ CandidateInv /\ FilterInv /\ MemoryInv /\ ServedEligible

-----------------------------------------------------------------------------
\* What a list has, a list that follows it has.
LEMMA FollowsKeeps ==
    ASSUME NEW s, NEW t, Follows(t, s)
    PROVE  /\ Aged(s) => Aged(t)
           /\ Distinct(s) => Distinct(t)
           /\ Unseen(s) => Unseen(t)
           /\ Unserved(s) => Unserved(t)
           /\ NotOwn(s) => NotOwn(t)
           /\ NotMuted(s) => NotMuted(t)
           /\ Distinct(s) /\ OneRetweet(s) => OneRetweet(t)
           /\ Distinct(s) /\ OneConversation(s) => OneConversation(t)
<1>1. \A c \in t : \E d \in s : d.id = c.id
  BY DEF Follows, Ids
<1>2. Distinct(s) => Distinct(t)
  BY DEF Follows
<1>3. Aged(s) => Aged(t)
  BY <1>1 DEF Aged
<1>4. (Unseen(s) => Unseen(t)) /\ (Unserved(s) => Unserved(t))
  BY <1>1 DEF Unseen, Unserved
<1>5. (NotOwn(s) => NotOwn(t)) /\ (NotMuted(s) => NotMuted(t))
  BY <1>1 DEF NotOwn, NotMuted
<1>6. ASSUME Distinct(s), OneRetweet(s) PROVE OneRetweet(t)
  BY <1>1, <1>2, <1>6 DEF Distinct, OneRetweet
<1>7. ASSUME Distinct(s), OneConversation(s) PROVE OneConversation(t)
  BY <1>1, <1>2, <1>7 DEF Distinct, OneConversation
<1>. QED  BY <1>2, <1>3, <1>4, <1>5, <1>6, <1>7

LEMMA SubsetFollows ==
    ASSUME NEW s, NEW t, t \subseteq s
    PROVE  Follows(t, s)
BY DEF Follows, Ids, Distinct

\* By g, the candidates r of s become those of t, with the same ids.
Changes(g, t, r, s) ==
    /\ r \subseteq s /\ \A c \in r : g[c].id = c.id
    /\ \A d \in t : \E c \in r : d = g[c]

\* Changing other fields than the id keeps what a list follows.
LEMMA ImageFollows ==
    ASSUME NEW s, NEW t, NEW r, NEW g, Changes(g, t, r, s)
    PROVE  Follows(t, s)
<1>. r \subseteq s /\ (\A c \in r : g[c].id = c.id) /\ \A d \in t : \E c \in r : d = g[c]
  BY DEF Changes
<1>1. Ids(t) \subseteq Ids(s)
  BY DEF Ids
<1>2. ASSUME Distinct(s) PROVE Distinct(t)
  BY <1>2 DEF Distinct
<1>. QED  BY <1>1, <1>2 DEF Follows

\* Scoring changes scores only.
LEMMA ScoredFollows ==
    ASSUME NEW s, \A c \in s : DOMAIN c = Fields /\ c.id \in Post,
           NEW f \in {"Weighted", "OON", "AuthorDiversity"}
    PROVE  /\ Follows(Scored(f, s), s)
           /\ \A c \in Scored(f, s) : DOMAIN c = Fields /\ c.id \in Post
<1>. DEFINE Kind(g) == \A c \in s : DOMAIN g[c] = Fields /\ g[c].id = c.id
<1>1. \A g : Kind(g) /\ (\A d \in Scored(f, s) : \E c \in s : d = g[c])
           => /\ Follows(Scored(f, s), s)
              /\ \A d \in Scored(f, s) : DOMAIN d = Fields /\ d.id \in Post
  <2>. SUFFICES ASSUME NEW g, Kind(g), \A d \in Scored(f, s) : \E c \in s : d = g[c]
                PROVE  /\ Follows(Scored(f, s), s)
                       /\ \A d \in Scored(f, s) : DOMAIN d = Fields /\ d.id \in Post
    OBVIOUS
  <2>1. \A d \in Scored(f, s) : DOMAIN d = Fields /\ d.id \in Post
    OBVIOUS
  <2>2. Changes(g, Scored(f, s), s, s)
    BY DEF Changes
  <2>3. Follows(Scored(f, s), s)
    BY <2>2, ImageFollows, Zenon
  <2>. QED  BY <2>1, <2>3
<1>2. CASE f = "Weighted"
  <2>. DEFINE g == [c \in s |-> [c EXCEPT !.weighted = c.quality, !.score = c.quality]]
  <2>1. Kind(g)
    BY DEF Fields
  <2>2. \A d \in Scored(f, s) : \E c \in s : d = g[c]
    BY <1>2 DEF Scored, Weighted
  <2>. HIDE DEF g, Kind
  <2>. QED  BY <1>1, <2>1, <2>2
<1>3. CASE f = "OON"
  <2>. DEFINE g == [c \in s |->
         IF c.network = "true"
         THEN c
         ELSE [c EXCEPT !.weighted = Boosted(@), !.score = Boosted(c.weighted), !.network = "false"]]
  <2>1. Kind(g)
    BY DEF Fields
  <2>2. \A d \in Scored(f, s) : \E c \in s : d = g[c]
    BY <1>3 DEF Scored, OON
  <2>. HIDE DEF g, Kind
  <2>. QED  BY <1>1, <2>1, <2>2
<1>4. CASE f = "AuthorDiversity"
  <2>. DEFINE g == [c \in s |-> [c EXCEPT !.weighted = Decayed(@, Position(s, c)),
                                          !.score = Decayed(c.weighted, Position(s, c))]]
  <2>1. Kind(g)
    BY DEF Fields
  <2>2. \A d \in Scored(f, s) : \E c \in s : d = g[c]
    BY <1>4 DEF Scored, AuthorDiversity
  <2>. HIDE DEF g, Kind
  <2>. QED  BY <1>1, <2>1, <2>2
<1>. QED  BY <1>2, <1>3, <1>4

LEMMA TopKFollows ==
    ASSUME NEW s, \A c \in s : DOMAIN c = Fields
    PROVE  Follows(TopK(s), s)
<1>. DEFINE r == {c \in s : Cardinality(Ahead(s, c)) < limit}
            g == [c \in r |-> [c EXCEPT !.at = Cardinality(Ahead(s, c)) + 1]]
<1>1. \A c \in r : g[c].id = c.id
  BY DEF Fields
<1>2. \A d \in TopK(s) : \E c \in r : d = g[c]
  BY DEF TopK
<1>3. Changes(g, TopK(s), r, s)
  <2>1. r \subseteq s
    OBVIOUS
  <2>. HIDE DEF g, r
  <2>. QED  BY <1>1, <1>2, <2>1 DEF Changes
<1>. QED  BY <1>3, ImageFollows, Zenon

\* The winners of conversations take the places of others.
LEMMA DedupFollows ==
    ASSUME NEW s, \A c \in s : DOMAIN c = Fields /\ c.id \in Post,
           Places(s), \A c \in s : c.at \in Int /\ c.score \in Int
    PROVE  /\ Follows(DedupConversation(s), s)
           /\ OneConversation(DedupConversation(s))
           /\ \A c \in DedupConversation(s) : DOMAIN c = Fields /\ c.id \in Post
<1>. DEFINE First(c) == CHOOSE n \in {d.at : d \in Mates(s, c)} : \A d \in Mates(s, c) : n <= d.at
            r == {c \in s : Best(s, c)}
            g == [c \in r |-> [c EXCEPT !.at = First(c)]]
<1>1. \A c \in r : DOMAIN g[c] = Fields /\ g[c].id = c.id
  BY DEF Fields
<1>2. \A d \in DedupConversation(s) : \E c \in r : d = g[c]
  BY DEF DedupConversation
<1>3. ASSUME NEW c \in r, NEW d \in r, ConversationOf(g[c].id) = ConversationOf(g[d].id)
      PROVE  c = d
  <2>1. ConversationOf(c.id) = ConversationOf(d.id)
    BY <1>1, <1>3
  <2>2. c \in Mates(s, d) /\ d \in Mates(s, c)
    BY <2>1 DEF Mates
  <2>3. c.at = d.at
    BY <2>2 DEF Best
  <2>. QED  BY <2>3 DEF Places
<1>4. OneConversation(DedupConversation(s))
  <2>. HIDE DEF g, r
  <2>. QED  BY <1>2, <1>3 DEF OneConversation
<1>5. \A c \in DedupConversation(s) : DOMAIN c = Fields /\ c.id \in Post
  <2>. HIDE DEF g
  <2>. QED  BY <1>1, <1>2
<1>6. Follows(DedupConversation(s), s)
  <2>1. r \subseteq s /\ \A c \in r : g[c].id = c.id
    BY <1>1
  <2>2. Changes(g, DedupConversation(s), r, s)
    <3>. HIDE DEF g, r
    <3>. QED  BY <1>2, <2>1 DEF Changes
  <2>. QED  BY <2>2, ImageFollows, Zenon
<1>. QED  BY <1>4, <1>5, <1>6

\* What the n-th filter gives the list.
Quality(n, s) ==
    /\ n = 1 => Aged(s)
    /\ n = 2 => Distinct(s) /\ Ids(s) \intersect seenIds = {}
    /\ n = 3 => Unseen(s)
    /\ n = 4 => Unserved(s)
    /\ n = 5 => NotOwn(s)
    /\ n = 6 => NotMuted(s)
    /\ n = 7 => OneRetweet(s)
    /\ n = 8 => OneConversation(s)

\* Each filter gives its quality, and all but the last only drop candidates.
LEMMA KeptQuality ==
    ASSUME NEW s, \A c \in s : DOMAIN c = Fields /\ c.id \in Post,
           Places(s), \A c \in s : c.at \in Int /\ c.score \in Int,
           ServiceInv, NEW n \in 1 .. 8,
           n = 6 => query.muted # "malformed" \/ s = {}
    PROVE  /\ Follows(Kept(Filters[n], s), s)
           /\ Quality(n, Kept(Filters[n], s))
           /\ \A c \in Kept(Filters[n], s) : DOMAIN c = Fields /\ c.id \in Post
           /\ n < 8 => Kept(Filters[n], s) \subseteq s
<1>1. CASE n = 1
  <2>1. Kept(Filters[n], s) = Age(s)
    BY <1>1 DEF Kept, Filters
  <2>2. Aged(Age(s))
    <3>. SUFFICES ASSUME NEW c \in Age(s)
                  PROVE  BornAt[c.id] <= now /\ began - BornAt[c.id] <= pipe.maxAge
      BY DEF Aged
    <3>1. BornAt[c.id] <= now /\ now - BornAt[c.id] <= pipe.maxAge /\ BornAt[c.id] \in Int
      BY PhpAssumption DEF Age
    <3>2. now \in Int /\ began \in Int /\ began <= now /\ pipe.maxAge \in Int
      BY DEF ServiceInv, Pipe
    <3>. QED  BY <3>1, <3>2
  <2>3. Age(s) \subseteq s
    BY DEF Age
  <2>. QED  BY <1>1, <2>1, <2>2, <2>3, SubsetFollows DEF Quality
<1>2. CASE n = 2
  <2>1. Kept(Filters[n], s) = DropDuplicates(s)
    BY <1>2 DEF Kept, Filters
  <2>2. DropDuplicates(s) \subseteq s
    BY DEF DropDuplicates
  <2>3. Distinct(DropDuplicates(s))
    <3>. SUFFICES ASSUME NEW c \in DropDuplicates(s), NEW d \in DropDuplicates(s), c.id = d.id
                  PROVE  c = d
      BY DEF Distinct
    <3>1. c.at <= d.at /\ d.at <= c.at
      BY DEF DropDuplicates
    <3>. QED  BY <2>2, <3>1 DEF Places
  <2>4. Ids(DropDuplicates(s)) \intersect seenIds = {}
    BY DEF DropDuplicates, Ids
  <2>. QED  BY <1>2, <2>1, <2>2, <2>3, <2>4, SubsetFollows DEF Quality
<1>3. CASE n = 3
  <2>1. Kept(Filters[n], s) = PreviouslySeen(s)
    BY <1>3 DEF Kept, Filters
  <2>2. PreviouslySeen(s) \subseteq s /\ Unseen(PreviouslySeen(s))
    BY DEF PreviouslySeen, Unseen
  <2>. QED  BY <1>3, <2>1, <2>2, SubsetFollows DEF Quality
<1>4. CASE n = 4
  <2>1. Kept(Filters[n], s) = PreviouslyServed(s)
    BY <1>4 DEF Kept, Filters
  <2>2. PreviouslyServed(s) \subseteq s /\ Unserved(PreviouslyServed(s))
    BY DEF PreviouslyServed, Unserved
  <2>. QED  BY <1>4, <2>1, <2>2, SubsetFollows DEF Quality
<1>5. CASE n = 5
  <2>1. Kept(Filters[n], s) = SelfTweet(s)
    BY <1>5 DEF Kept, Filters
  <2>2. SelfTweet(s) \subseteq s /\ NotOwn(SelfTweet(s))
    BY DEF SelfTweet, NotOwn
  <2>. QED  BY <1>5, <2>1, <2>2, SubsetFollows DEF Quality
<1>6. CASE n = 6
  <2>1. Kept(Filters[n], s) = MutedKeyword(s)
    BY <1>6 DEF Kept, Filters
  <2>2. MutedKeyword(s) \subseteq s /\ NotMuted(MutedKeyword(s))
    BY <1>6 DEF MutedKeyword, NotMuted
  <2>. QED  BY <1>6, <2>1, <2>2, SubsetFollows DEF Quality
<1>7. CASE n = 7
  <2>1. Kept(Filters[n], s) = RetweetDeduplication(s)
    BY <1>7 DEF Kept, Filters
  <2>2. RetweetDeduplication(s) \subseteq s
    BY DEF RetweetDeduplication
  <2>3. OneRetweet(RetweetDeduplication(s))
    <3>. SUFFICES ASSUME NEW c \in RetweetDeduplication(s), NEW d \in RetweetDeduplication(s),
                         RetweetOf[c.id] # 0, RetweetOf[c.id] = RetweetOf[d.id]
                  PROVE  c = d
      BY DEF OneRetweet
    <3>1. ~(c.at < d.at) /\ ~(d.at < c.at)
      BY DEF RetweetDeduplication, Subject
    <3>2. c.at = d.at
      BY <2>2, <3>1
    <3>. QED  BY <2>2, <3>2 DEF Places
  <2>. QED  BY <1>7, <2>1, <2>2, <2>3, SubsetFollows DEF Quality
<1>8. CASE n = 8
  <2>1. Kept(Filters[n], s) = DedupConversation(s)
    BY <1>8 DEF Kept, Filters
  <2>. QED  BY <1>8, <2>1, DedupFollows DEF Quality
<1>. QED  BY <1>1, <1>2, <1>3, <1>4, <1>5, <1>6, <1>7, <1>8

-----------------------------------------------------------------------------
THEOREM PhpInit == Init => IInv
<1>. SUFFICES ASSUME Init PROVE IInv
  OBVIOUS
<1>1. ServiceInv
  <2>1. DefaultConfig.maxAge \in Int /\ DefaultConfig.diversity \in BOOLEAN /\ config \in Config
    BY PhpAssumption DEF Init, Config
  <2>2. pipe \in Pipe
    BY <2>1 DEF Init, Pipe
  <2>. QED  BY <2>1, <2>2, PhpAssumption DEF Init, ServiceInv
<1>2. CandidateInv /\ FilterInv /\ MemoryInv /\ ServedEligible
  BY DEF Init, CandidateInv, FilterInv, MemoryInv, Past, ServedEligible
<1>. QED  BY <1>1, <1>2 DEF IInv

LEMMA FreshPipe ==
    ASSUME NEW c \in Config, Fresh(c)
    PROVE  pipe' \in Pipe /\ config' \in Config
<1>1. c.maxAge \in Int /\ c.diversity \in BOOLEAN
  BY DEF Config
<1>. QED  BY <1>1 DEF Fresh, Pipe

\* The calls between requests.
LEMMA PhpIdle ==
    ASSUME IInv, NEW c \in Config,
           Create(c) \/ UpdateConfig(c) \/ CheckHealth \/ Reset \/ AddSource
    PROVE  IInv'
<1>. USE DEF Idle, Rest, request, service
<1>1. c \in Config /\ DefaultConfig \in Config
  BY PhpAssumption
<1>2. UNCHANGED <<pos, query, reply, candidates, now, began>>
  BY DEF Create, UpdateConfig, CheckHealth, Reset, AddSource
<1>7. ServiceInv'
  <2>1. stage' \in {"idle", "replied", "thrown"}
    BY DEF Create, UpdateConfig, CheckHealth, Reset, AddSource
  <2>2. pipe' \in Pipe /\ config' \in Config
    <3>1. CASE Fresh(c) \/ Fresh(DefaultConfig)
      BY <1>1, <3>1, FreshPipe
    <3>2. CASE UpdateConfig(c)
      BY <1>1, <3>2 DEF IInv, ServiceInv, UpdateConfig
    <3>3. CASE AddSource
      BY <3>3 DEF IInv, ServiceInv, AddSource, Pipe
    <3>. QED  BY <3>1, <3>2, <3>3 DEF Create, CheckHealth, Reset, Build
  <2>. QED  BY <1>2, <2>1, <2>2 DEF IInv, ServiceInv
<1>3. candidates' = candidates /\ stage' \notin {"filter", "score", "select"}
  BY DEF Create, UpdateConfig, CheckHealth, Reset, AddSource, Build, Fresh
<1>4. CandidateInv' /\ FilterInv'
  BY <1>2, <1>3 DEF IInv, CandidateInv, FilterInv, Past
<1>5. MemoryInv'
  BY <1>3 DEF IInv, MemoryInv, Past, Create, UpdateConfig, CheckHealth, Reset, AddSource, Build, Fresh
<1>6. ServedEligible'
  <2>1. CASE stage' # "replied"
    BY <2>1 DEF ServedEligible
  <2>2. CASE stage' = "replied"
    <3>1. stage = "replied" /\ pipe'.maxAge = pipe.maxAge
      BY <2>2 DEF Create, UpdateConfig, CheckHealth, Reset, AddSource, IInv, ServiceInv, Pipe
    <3>. QED  BY <1>2, <3>1 DEF IInv, ServedEligible
  <2>. QED  BY <2>1, <2>2
<1>. QED  BY <1>7, <1>4, <1>5, <1>6 DEF IInv

LEMMA PhpBegin ==
    ASSUME IInv, NEW q \in Requests, NEW c \in Configs, Begin(q, c)
    PROVE  IInv'
<1>1. ServiceInv'
  <2>1. pipe' \in Pipe /\ config' \in Config
    <3>1. CASE Fresh(c)
      BY <3>1, PhpAssumption, FreshPipe
    <3>2. CASE UNCHANGED service
      BY <3>2 DEF IInv, ServiceInv, service
    <3>. QED  BY <3>1, <3>2 DEF Begin, Build
  <2>. QED  BY <2>1, PhpAssumption DEF IInv, ServiceInv, Begin
<1>2. CandidateInv' /\ FilterInv' /\ ServedEligible'
  BY DEF Begin, CandidateInv, FilterInv, Past, ServedEligible
<1>3. MemoryInv'
  BY DEF IInv, MemoryInv, Past, Begin, Build, Fresh, service
<1>. QED  BY <1>1, <1>2, <1>3 DEF IInv

\* What the sources return, in the order of the places.
LEMMA Fetched ==
    ASSUME query \in Query, FetchFromSources
    PROVE  /\ candidates' \subseteq Candidate /\ Places(candidates)' /\ IsFiniteSet(candidates')
           /\ \A c \in candidates' :
                c.quality = 0 \/ \E l \in Lists : \E i \in DOMAIN l : c.quality = l[i].quality
<1>1. PICK mock \in PhoenixSource(query), l \in IF pipe.extended THEN Lists ELSE {<<>>} :
        candidates' = Listed(mock, 0) \union Listed(l, Len(mock))
  BY DEF FetchFromSources
<1>2. mock \in Seq(Sourced) /\ l \in Seq(Sourced)
  <2>1. query.bottom \in BOOLEAN
    BY DEF Query
  <2>2. MockSize(query) \in Nat /\ MockSize(query) <= Len(MockPosts)
    BY <2>1, PhpAssumption DEF MockSize
  <2>3. PICK score \in [1 .. MockSize(query) -> Scores] :
          mock = [i \in 1 .. MockSize(query) |->
                    [id |-> MockPosts[i], network |-> "false", score |-> score[i], quality |-> 0]]
    BY DEF PhoenixSource
  <2>4. \A i \in 1 .. MockSize(query) : MockPosts[i] \in Post /\ score[i] \in Int
    <3>. TAKE i \in 1 .. MockSize(query)
    <3>1. i \in 1 .. Len(MockPosts)
      BY <2>2, PhpAssumption
    <3>2. MockPosts[i] \in Post
      BY <3>1, PhpAssumption
    <3>3. score[i] \in Scores
      BY <2>3
    <3>. QED  BY <3>2, <3>3, PhpAssumption
  <2>5. mock \in [1 .. MockSize(query) -> Sourced]
    BY <2>3, <2>4 DEF Sourced
  <2>6. mock \in Seq(Sourced)
    BY <2>2, <2>5
  <2>7. <<>> \in Seq(Sourced)
    OBVIOUS
  <2>8. l \in Seq(Sourced)
    BY <2>7, PhpAssumption
  <2>. QED  BY <2>6, <2>8
<1>3. ASSUME NEW n \in Nat, NEW s \in Seq(Sourced)
      PROVE  /\ Listed(s, n) \subseteq Candidate /\ IsFiniteSet(Listed(s, n)) /\ Places(Listed(s, n))
             /\ \A c \in Listed(s, n) : n < c.at /\ c.at <= n + Len(s)
  <2>. DEFINE place(i) == [id |-> s[i].id, at |-> n + i, network |-> s[i].network, score |-> s[i].score,
                           quality |-> s[i].quality, weighted |-> 0]
              f == [i \in DOMAIN s |-> place(i)]
  <2>1. DOMAIN s = 1 .. Len(s) /\ Len(s) \in Nat /\ \A i \in DOMAIN s : s[i] \in Sourced
    OBVIOUS
  <2>2. Listed(s, n) = {place(i) : i \in DOMAIN s}
    BY Zenon DEF Listed
  <2>3. \A i \in DOMAIN s : /\ place(i) \in Candidate
                            /\ n < place(i).at /\ place(i).at <= n + Len(s) /\ place(i).at = n + i
    BY <2>1 DEF Candidate, Sourced
  <2>4. IsFiniteSet(DOMAIN s)
    BY <2>1, FS_Interval
  <2>5. f \in Surjection(DOMAIN s, Listed(s, n))
    BY <2>2 DEF Surjection
  <2>6. IsFiniteSet(Listed(s, n))
    BY <2>4, <2>5, FS_Surjection
  <2>7. Places(Listed(s, n))
    <3>. SUFFICES ASSUME NEW i \in DOMAIN s, NEW j \in DOMAIN s, place(i).at = place(j).at
                  PROVE  place(i) = place(j)
      BY <2>2 DEF Places
    <3>1. i = j
      BY <2>1, <2>3
    <3>. QED  BY <3>1
  <2>. HIDE DEF place
  <2>. QED  BY <2>2, <2>3, <2>6, <2>7
<1>4. Len(mock) \in Nat
  BY <1>2
<1>. DEFINE a == Listed(mock, 0)
            b == Listed(l, Len(mock))
<1>5. /\ a \subseteq Candidate /\ IsFiniteSet(a) /\ Places(a)
      /\ \A c \in a : c.at <= Len(mock)
  <2>1. \A c \in a : c.at <= 0 + Len(mock)
    BY <1>2, <1>3
  <2>. QED  BY <1>2, <1>3, <1>4, <2>1
<1>6. /\ b \subseteq Candidate /\ IsFiniteSet(b) /\ Places(b)
      /\ \A c \in b : Len(mock) < c.at
  BY <1>2, <1>3, <1>4
<1>7. \A c \in Candidate : c.at \in Nat
  BY DEF Candidate
<1>11. ASSUME NEW c \in a \union b
       PROVE  c.quality = 0 \/ \E k \in Lists : \E i \in DOMAIN k : c.quality = k[i].quality
  <2>1. CASE c \in a
    <3>1. PICK i \in DOMAIN mock : c.quality = mock[i].quality
      BY <2>1 DEF Listed
    <3>2. PICK score \in [1 .. MockSize(query) -> Scores] :
            mock = [j \in 1 .. MockSize(query) |->
                      [id |-> MockPosts[j], network |-> "false", score |-> score[j], quality |-> 0]]
      BY DEF PhoenixSource
    <3>3. mock[i].quality = 0
      BY <3>2
    <3>. QED  BY <3>1, <3>3
  <2>2. CASE c \in b
    <3>1. PICK i \in DOMAIN l : c.quality = l[i].quality
      BY <2>2 DEF Listed
    <3>2. l \in Lists
      BY <3>1
    <3>. QED  BY <3>1, <3>2
  <2>. QED  BY <2>1, <2>2
<1>. HIDE DEF a, b
<1>8. Places(a \union b)
  BY <1>4, <1>5, <1>6, <1>7 DEF Places
<1>9. IsFiniteSet(a \union b)
  BY <1>5, <1>6, FS_Union
<1>10. candidates' = a \union b
  BY <1>1 DEF a, b
<1>. QED  BY <1>5, <1>6, <1>8, <1>9, <1>10, <1>11 DEF Places

\* The first list: places apart, fields in order.
LEMMA PhpFetch ==
    ASSUME IInv, FetchFromSources
    PROVE  IInv'
<1>. USE DEF request, service
<1>1. UNCHANGED <<built, config, pipe, seenIds, query, limit, reply, now, began, before, shown>>
        /\ stage' = "filter" /\ pos' = 1
  BY DEF FetchFromSources
<1>2. candidates' \subseteq Candidate /\ Places(candidates)'
  BY Fetched DEF IInv, ServiceInv
<1>3. \A c \in candidates' : DOMAIN c = Fields /\ c.id \in Post /\ c.at \in Int /\ c.score \in Int
  BY <1>2 DEF Candidate, Fields
<1>4. CandidateInv'
  BY <1>1, <1>2, <1>3 DEF IInv, CandidateInv
<1>5. ServiceInv'
  BY <1>1 DEF IInv, ServiceInv
<1>6. FilterInv' /\ ServedEligible' /\ MemoryInv'
  BY <1>1 DEF IInv, FilterInv, ServedEligible, MemoryInv, Past
<1>. QED  BY <1>4, <1>5, <1>6 DEF IInv

\* What one filter leaves, with everything the filters before it established.
LEMMA PhpFilter ==
    ASSUME IInv, ApplyFilter
    PROVE  IInv'
<1>. USE DEF request, history, service
<1>. DEFINE t == Kept(Filters[pos], candidates)
<1>1. /\ stage = "filter" /\ candidates' = t /\ seenIds' = Remember(Filters[pos], t)
      /\ UNCHANGED <<built, config, pipe, query, limit, reply, now, began, shown>>
  BY DEF ApplyFilter
<1>2. pos \in 1 .. 8 /\ Len(Filters) = 8
  BY <1>1 DEF IInv, ServiceInv, Filters
<1>3. pos = 6 => query.muted # "malformed" \/ candidates = {}
  BY DEF ApplyFilter, Malformed, Filters
<1>4. /\ Follows(t, candidates) /\ Quality(pos, t)
      /\ \A c \in t : DOMAIN c = Fields /\ c.id \in Post
      /\ pos < 8 => t \subseteq candidates
  BY <1>1, <1>2, <1>3, KeptQuality DEF IInv, CandidateInv
<1>5. \/ stage' = "score" /\ pos' = 1 /\ (t = {} \/ pos = 8)
      \/ stage' = "filter" /\ pos' = pos + 1 /\ pos < 8
  BY <1>1, <1>2 DEF ApplyFilter
<1>6. ServiceInv'
  BY <1>1, <1>2, <1>5 DEF IInv, ServiceInv, Scorers
<1>7. CandidateInv'
  <2>1. stage' = "filter" => Places(t) /\ \A c \in t : c.at \in Int /\ c.score \in Int
    BY <1>1, <1>4, <1>5 DEF IInv, CandidateInv, Places
  <2>. QED  BY <1>1, <1>4, <2>1 DEF IInv, CandidateInv, Places
<1>8. \A n \in 1 .. 8 : Past(n)' => t = {} \/ n <= pos
  BY <1>2, <1>5 DEF Past
<1>9. \A n \in 1 .. 8 : n < pos => Past(n)
  BY <1>1, <1>2 DEF Past
<1>10. \A n \in 1 .. 8 : Past(n)' => t = {} \/ n = pos \/ Past(n)
  BY <1>2, <1>8, <1>9
<1>11. FilterInv'
  <2>1. CASE t = {}
    BY <1>1, <2>1 DEF FilterInv, Aged, Distinct, Unseen, Unserved, NotOwn, NotMuted, OneRetweet, OneConversation
  <2>2. CASE t # {}
    <3>1. pos > 2 => Distinct(candidates)
      BY <1>9, <1>2 DEF IInv, FilterInv
    <3>2. /\ Past(1)' => Aged(t)
          /\ Past(2)' => Distinct(t)
          /\ Past(3)' => Unseen(t)
          /\ Past(4)' => Unserved(t)
      BY <1>4, <1>10, <2>2, FollowsKeeps DEF IInv, FilterInv, Quality
    <3>3. /\ Past(5)' => NotOwn(t)
          /\ Past(6)' => NotMuted(t)
      BY <1>4, <1>10, <2>2, FollowsKeeps DEF IInv, FilterInv, Quality
    <3>4. /\ Past(7)' => OneRetweet(t)
          /\ Past(8)' => OneConversation(t)
      BY <1>2, <1>4, <1>8, <1>9, <1>10, <2>2, <3>1, FollowsKeeps DEF IInv, FilterInv, Quality
    <3>5. /\ Aged(t) <=> Aged(candidates)'
          /\ Distinct(t) <=> Distinct(candidates)'
          /\ Unseen(t) <=> Unseen(candidates)'
          /\ Unserved(t) <=> Unserved(candidates)'
          /\ NotOwn(t) <=> NotOwn(candidates)'
          /\ NotMuted(t) <=> NotMuted(candidates)'
          /\ OneRetweet(t) <=> OneRetweet(candidates)'
          /\ OneConversation(t) <=> OneConversation(candidates)'
      BY <1>1 DEF Aged, Distinct, Unseen, Unserved, NotOwn, NotMuted, OneRetweet, OneConversation
    <3>. HIDE DEF t
    <3>. QED  BY <3>2, <3>3, <3>4, <3>5 DEF FilterInv
  <2>. QED  BY <2>1, <2>2
<1>12. MemoryInv'
  <2>1. shown' \subseteq seenIds'
    BY <1>1 DEF IInv, MemoryInv, Remember
  <2>2. CASE t = {}
    BY <1>1, <2>1, <2>2 DEF MemoryInv, Ids
  <2>3. CASE t # {} /\ pos = 2
    <3>1. Ids(t) \subseteq seenIds' /\ Ids(t) \intersect seenIds = {}
      BY <1>1, <1>4, <2>3 DEF Remember, Quality, Filters
    <3>. QED  BY <1>1, <2>1, <3>1 DEF IInv, MemoryInv, Ids
  <2>4. CASE t # {} /\ pos < 2
    BY <1>2, <1>8, <2>1, <2>4 DEF MemoryInv
  <2>5. CASE t # {} /\ pos > 2
    <3>1. Ids(candidates) \subseteq seenIds /\ Ids(candidates) \intersect shown = {}
      BY <1>2, <1>9, <2>5 DEF IInv, MemoryInv
    <3>2. Ids(t) \subseteq Ids(candidates) /\ Ids(candidates)' = Ids(t)
      BY <1>1, <1>4 DEF Follows, Ids
    <3>3. seenIds \subseteq seenIds'
      BY <1>1 DEF Remember
    <3>. QED  BY <1>1, <2>1, <3>1, <3>2, <3>3 DEF MemoryInv
  <2>. QED  BY <1>2, <2>2, <2>3, <2>4, <2>5
<1>13. ServedEligible'
  BY <1>5 DEF ServedEligible
<1>. QED  BY <1>6, <1>7, <1>11, <1>12, <1>13 DEF IInv

LEMMA PhpScore ==
    ASSUME IInv, ApplyScorer
    PROVE  IInv'
<1>. USE DEF request, history, service
<1>. DEFINE t == Scored(Scorers[pos], candidates)
<1>1. /\ stage = "score" /\ candidates' = t
      /\ UNCHANGED <<built, config, pipe, query, limit, reply, now, began, shown, seenIds>>
  BY DEF ApplyScorer
<1>2. pos \in 1 .. Len(Scorers) /\ Scorers' = Scorers
  BY <1>1 DEF IInv, ServiceInv, Scorers
<1>3. Scorers[pos] \in {"Weighted", "OON", "AuthorDiversity"}
  BY <1>2 DEF Scorers
<1>4. Follows(t, candidates) /\ \A c \in t : DOMAIN c = Fields /\ c.id \in Post
  BY <1>3, ScoredFollows DEF IInv, CandidateInv
<1>5. (stage' = "select" /\ pos' = 1) \/ (stage' = "score" /\ pos' = pos + 1 /\ pos # Len(Scorers))
  BY <1>1 DEF ApplyScorer
<1>6. ServiceInv'
  <2>1. Len(Scorers) \in Nat
    BY DEF Scorers
  <2>. QED  BY <1>1, <1>2, <1>5, <2>1 DEF IInv, ServiceInv
<1>7. CandidateInv' /\ ServedEligible'
  BY <1>1, <1>4, <1>5 DEF IInv, CandidateInv, ServedEligible
<1>8. FilterInv'
  <2>1. /\ Aged(candidates) /\ Distinct(candidates) /\ Unseen(candidates) /\ Unserved(candidates)
        /\ NotOwn(candidates) /\ NotMuted(candidates)
        /\ OneRetweet(candidates) /\ OneConversation(candidates)
    BY <1>1 DEF IInv, FilterInv, Past
  <2>2. /\ Aged(t) /\ Distinct(t) /\ Unseen(t) /\ Unserved(t)
        /\ NotOwn(t) /\ NotMuted(t) /\ OneRetweet(t) /\ OneConversation(t)
    BY <1>4, <2>1, FollowsKeeps
  <2>. HIDE DEF t
  <2>. QED  BY <1>1, <2>2 DEF FilterInv, Aged, Distinct, Unseen, Unserved, NotOwn, NotMuted,
                              OneRetweet, OneConversation
<1>9. MemoryInv'
  <2>1. Ids(t) \subseteq Ids(candidates) /\ Ids(candidates)' = Ids(t)
    BY <1>1, <1>4 DEF Follows, Ids
  <2>. HIDE DEF t
  <2>. QED  BY <1>1, <2>1 DEF IInv, MemoryInv, Past
<1>. QED  BY <1>6, <1>7, <1>8, <1>9 DEF IInv

\* The reply has what the candidates have.
LEMMA PhpSelect ==
    ASSUME IInv, SelectAndReply
    PROVE  IInv' /\ Ids(reply') \intersect shown = {}
<1>. USE DEF request, history, service
<1>. DEFINE t == TopK(candidates)
<1>1. /\ stage = "select" /\ stage' = "replied" /\ reply' = t /\ shown' = shown \union Ids(t)
      /\ UNCHANGED <<built, config, pipe, query, limit, candidates, now, began, seenIds, pos>>
  BY DEF SelectAndReply, Ids
<1>2. Follows(t, candidates)
  BY TopKFollows DEF IInv, CandidateInv
<1>3. /\ Aged(candidates) /\ Distinct(candidates) /\ Unseen(candidates) /\ Unserved(candidates)
      /\ NotOwn(candidates) /\ NotMuted(candidates)
      /\ OneRetweet(candidates) /\ OneConversation(candidates)
  BY <1>1 DEF IInv, FilterInv, Past
<1>4. /\ Aged(t) /\ Distinct(t) /\ Unseen(t) /\ Unserved(t)
      /\ NotOwn(t) /\ NotMuted(t) /\ OneRetweet(t) /\ OneConversation(t)
  BY <1>2, <1>3, FollowsKeeps
<1>5. ServiceInv'
  BY <1>1 DEF IInv, ServiceInv
<1>6. CandidateInv' /\ FilterInv'
  <2>1. \A c \in t : c.id \in Post
    BY <1>2 DEF IInv, CandidateInv, Follows, Ids
  <2>. HIDE DEF t
  <2>. QED  BY <1>1, <2>1 DEF IInv, CandidateInv, FilterInv, Past
<1>7. Ids(t) \subseteq seenIds /\ Ids(t) \intersect shown = {}
  BY <1>1, <1>2 DEF IInv, MemoryInv, Past, Follows
<1>8. MemoryInv'
  BY <1>1, <1>7 DEF IInv, MemoryInv, Past
<1>9. ServedEligible'
  <2>. HIDE DEF t
  <2>. QED  BY <1>1, <1>4 DEF ServedEligible, Aged, Distinct, Unseen, Unserved, NotOwn, NotMuted,
                              OneRetweet, OneConversation
<1>. QED  BY <1>1, <1>5, <1>6, <1>7, <1>8, <1>9 DEF IInv, Ids

\* Time passes, or something throws.
LEMMA PhpOther ==
    ASSUME IInv, FetchThrows \/ FilterThrows \/ Tick \/ UNCHANGED vars
    PROVE  IInv'
<1>. USE DEF request, history, service
<1>1. /\ UNCHANGED <<built, config, pipe, seenIds, pos, query, limit, reply, candidates, began, shown>>
      /\ stage' = stage \/ stage' = "thrown"
      /\ now' = now \/ now' = now + 1
  BY DEF FetchThrows, FilterThrows, Tick, vars
<1>2. now \in Int /\ began \in Int /\ now' \in Int /\ now <= now'
  BY <1>1 DEF IInv, ServiceInv
<1>3. ServiceInv'
  BY <1>1, <1>2 DEF IInv, ServiceInv, Scorers
<1>4. CandidateInv' /\ MemoryInv'
  BY <1>1 DEF IInv, CandidateInv, MemoryInv, Past
<1>5. Past(1)' => Aged(candidates)'
  <2>1. Past(1)' => Aged(candidates)
    BY <1>1 DEF IInv, FilterInv, Past
  <2>2. \A c \in candidates : BornAt[c.id] \in Int
    BY PhpAssumption DEF IInv, CandidateInv
  <2>. QED  BY <1>1, <1>2, <2>1, <2>2 DEF Aged
<1>6. FilterInv'
  BY <1>1, <1>5 DEF IInv, FilterInv, Past, Distinct, Unseen, Unserved, NotOwn, NotMuted,
                    OneRetweet, OneConversation
<1>7. ServedEligible'
  <2>1. CASE stage' # "replied"
    BY <2>1 DEF ServedEligible
  <2>2. CASE stage' = "replied"
    <3>1. stage = "replied"
      BY <1>1, <2>2
    <3>2. \A c \in reply : c.id \in Post
      BY DEF IInv, CandidateInv
    <3>3. \A c \in reply : BornAt[c.id] <= now'
      BY <1>2, <3>1, <3>2, PhpAssumption DEF IInv, ServedEligible
    <3>. QED  BY <1>1, <3>1, <3>3 DEF IInv, ServedEligible
  <2>. QED  BY <2>1, <2>2
<1>. QED  BY <1>3, <1>4, <1>6, <1>7 DEF IInv

THEOREM PhpInductive == IInv /\ [Next]_vars => IInv'
<1>. SUFFICES ASSUME IInv, [Next]_vars PROVE IInv'
  OBVIOUS
<1>1. ASSUME NEW c \in Configs, Create(c) \/ UpdateConfig(c) PROVE IInv'
  <2>1. c \in Config
    BY PhpAssumption
  <2>. QED  BY <1>1, <2>1, PhpIdle
<1>2. CASE CheckHealth \/ Reset \/ AddSource
  <2>1. DefaultConfig \in Config
    BY PhpAssumption
  <2>. QED  BY <1>2, <2>1, PhpIdle
<1>3. ASSUME NEW q \in Requests, NEW c \in Configs, Begin(q, c) PROVE IInv'
  BY <1>3, PhpBegin
<1>4. CASE FetchFromSources
  BY <1>4, PhpFetch
<1>5. CASE ApplyFilter
  BY <1>5, PhpFilter
<1>6. CASE ApplyScorer
  BY <1>6, PhpScore
<1>7. CASE SelectAndReply
  BY <1>7, PhpSelect
<1>8. CASE FetchThrows \/ FilterThrows \/ Tick \/ UNCHANGED vars
  BY <1>8, PhpOther
<1>. QED  BY <1>1, <1>2, <1>3, <1>4, <1>5, <1>6, <1>7, <1>8 DEF Next

\* What a reply holds is fit for the request: no filter undoes what one before it
\* did, nor do the scorers and the selector.
THEOREM PhpServedEligible == Spec => []ServedEligible
<1>1. IInv => ServedEligible
  BY DEF IInv
<1>. QED  BY <1>1, PhpInit, PhpInductive, PTL DEF Spec

\* One service never replies a post twice.
THEOREM PhpNeverAgain == Spec => NeverAgain
<1>1. IInv /\ [Next]_vars =>
        [stage' = "replied" /\ stage # "replied" => Ids(reply') \intersect shown = {}]_vars
  <2>. SUFFICES ASSUME IInv, [Next]_vars, stage' = "replied", stage # "replied"
                PROVE  Ids(reply') \intersect shown = {}
    OBVIOUS
  <2>1. SelectAndReply
    BY DEF Next, vars, Create, UpdateConfig, CheckHealth, Reset, AddSource, Rest, Begin,
           FetchFromSources, FetchThrows, ApplyFilter, FilterThrows, ApplyScorer, Tick
  <2>. QED  BY <2>1, PhpSelect
<1>. QED  BY <1>1, PhpInit, PhpInductive, PTL DEF Spec, NeverAgain

-----------------------------------------------------------------------------
(* Nothing is dropped without a reason. *)

\* An earlier copy of o, or o itself.
Stands(c, o) == c.id = o.id /\ c.at <= o.at
\* What may be left in the place of o when retweets have been compared.
Covers(e, o) == e = o \/ (e.at < o.at /\ (e.id = o.id \/ Subject(e.id) = RetweetOf[o.id]))
Excused(p) == Ineligible(p) \/ p \in before

\* What each candidate of the request that is gone can say for itself, before the
\* pos-th filter; until the second, the memory is what it was.
ReasonInv ==
    /\ stage = "fetch" \/ (stage = "filter" /\ pos <= 2) => seenIds = before
    /\ stage \in {"filter", "score"} =>
        IsFiniteSet(offered) /\ offered \subseteq Candidate /\ Places(offered)
    /\ stage = "filter" =>
        /\ candidates \subseteq offered
        /\ \A o \in offered :
            \/ Excused(o.id)
            \/ \E c \in candidates : IF pos <= 7 THEN Stands(c, o) ELSE Covers(c, o)
    /\ NothingWithoutReason

LEMMA LeastNat ==
    ASSUME NEW T, T \subseteq Nat, T # {}
    PROVE  \E x \in T : \A y \in T : x <= y
<1>1. \E x \in T : \A y \in T : ~ (<<y, x>> \in OpToRel(<, Nat))
  BY WFMin, NatLessThanWellFounded, Zenon
<1>2. PICK x \in T : \A y \in T : ~ (<<y, x>> \in OpToRel(<, Nat))
  BY <1>1, Zenon
<1>3. ASSUME NEW y \in Nat, y < x
      PROVE  <<y, x>> \in OpToRel(<, Nat)
  <2>1. <<y, x>> \in Nat \X Nat /\ <<y, x>>[1] < <<y, x>>[2]
    BY <1>3
  <2>. QED
    BY <2>1, Zenon DEF OpToRel
<1>4. \A y \in T : ~(y < x)
  BY <1>2, <1>3, Zenon
<1>. QED
  BY <1>4

\* Some candidate of a list has the first place.
LEMMA FirstPlace ==
    ASSUME NEW s, s \subseteq Candidate, s # {}
    PROVE  \E c \in s : \A d \in s : c.at <= d.at
<1>. DEFINE T == {c.at : c \in s}
<1>1. T \subseteq Nat /\ T # {}
  BY DEF Candidate
<1>2. PICK x \in T : \A y \in T : x <= y
  BY <1>1, LeastNat
<1>. QED  BY <1>2

\* Of finitely many things, ordered by who is ahead of whom, one has none ahead.
LEMMA Foremost ==
    ASSUME NEW s, IsFiniteSet(s), s # {}, NEW ahead \in [s -> SUBSET s],
           \A c \in s : c \notin ahead[c],
           \A c \in s : \A d \in ahead[c] : ahead[d] \subseteq ahead[c]
    PROVE  \E c \in s : ahead[c] = {}
<1>. DEFINE T == {Cardinality(ahead[c]) : c \in s}
<1>1. \A c \in s : IsFiniteSet(ahead[c]) /\ Cardinality(ahead[c]) \in Nat
  <2>. SUFFICES ASSUME NEW c \in s PROVE IsFiniteSet(ahead[c]) /\ Cardinality(ahead[c]) \in Nat
    OBVIOUS
  <2>1. ahead[c] \in SUBSET s
    OBVIOUS
  <2>2. IsFiniteSet(ahead[c])
    BY <2>1, FS_Subset
  <2>. QED  BY <2>2, FS_CardinalityType
<1>2. T \subseteq Nat /\ T # {}
  BY <1>1
<1>3. PICK x \in T : \A y \in T : x <= y
  BY <1>2, LeastNat
<1>4. PICK c \in s : x = Cardinality(ahead[c])
  BY <1>3
<1>5. ASSUME NEW d \in ahead[c] PROVE FALSE
  <2>1. d \in s /\ ahead[d] \in SUBSET ahead[c] /\ ahead[d] # ahead[c]
    BY <1>5
  <2>2. Cardinality(ahead[d]) <= Cardinality(ahead[c])
        /\ Cardinality(ahead[d]) # Cardinality(ahead[c])
    BY <1>1, <2>1, FS_Subset
  <2>3. Cardinality(ahead[c]) <= Cardinality(ahead[d])
    BY <1>3, <1>4, <2>1
  <2>. QED  BY <1>1, <2>1, <2>2, <2>3
<1>. QED  BY <1>5

\* The best of a conversation, among the candidates of a list.
LEMMA BestExists ==
    ASSUME NEW s, s \subseteq Candidate, IsFiniteSet(s), NEW e \in s
    PROVE  \E b \in s : Best(s, b) /\ ConversationOf(b.id) = ConversationOf(e.id) /\ e.score <= b.score
<1>. DEFINE m == Mates(s, e)
            ahead == [c \in m |-> {d \in m : d.score > c.score \/ (d.score = c.score /\ d.at < c.at)}]
<1>1. m \subseteq s /\ e \in m /\ \A c \in m : ConversationOf(c.id) = ConversationOf(e.id)
  BY DEF Mates
<1>2. IsFiniteSet(m)
  BY <1>1, FS_Subset
<1>3. \A c \in m : c.score \in Int /\ c.at \in Int
  BY <1>1 DEF Candidate
<1>4. \A c, d \in m : Mates(s, c) = m
  BY <1>1 DEF Mates
<1>. HIDE DEF m
<1>5. /\ ahead \in [m -> SUBSET m]
      /\ \A c \in m : c \notin ahead[c]
      /\ \A c \in m : \A d \in ahead[c] : ahead[d] \subseteq ahead[c]
  BY <1>3
<1>. HIDE DEF ahead
<1>6. PICK b \in m : ahead[b] = {}
  <2>1. m # {}
    BY <1>1
  <2>. QED
    BY <1>2, <1>5, <2>1, Foremost
<1>7. \A d \in m : ~(d.score > b.score) /\ ~(d.score = b.score /\ d.at < b.at)
  BY <1>6 DEF ahead
<1>8. \A d \in m : d.score < b.score \/ (d.score = b.score /\ b.at <= d.at)
  BY <1>3, <1>7
<1>9. Best(s, b)
  BY <1>4, <1>8 DEF Best
<1>10. e.score <= b.score
  BY <1>1, <1>3, <1>8
<1>. QED  BY <1>1, <1>9, <1>10

\* The filters before the seventh drop what is excused, or has an earlier copy.
LEMMA KeptStands ==
    ASSUME NEW s, s \subseteq Candidate, ServiceInv, NEW n \in 1 .. 6,
           n = 2 => seenIds = before,
           n = 6 => query.muted # "malformed" \/ s = {},
           NEW c \in s, ~Excused(c.id)
    PROVE  \E d \in Kept(Filters[n], s) : Stands(d, c)
<1>1. c.id \in Post /\ c.at \in Nat /\ \A d \in s : d.at \in Nat
  BY DEF Candidate
<1>2. c.id \notin query.seen /\ c.id \notin query.served /\ LookupAuthor(c.id) # query.user
      /\ (query.muted = "words" => c.id \notin MutedText) /\ c.id \notin before
      /\ ~(BornAt[c.id] > began) /\ ~(now - BornAt[c.id] > pipe.maxAge)
  BY DEF Excused, Ineligible
<1>3. c \in Kept(Filters[n], s) => \E d \in Kept(Filters[n], s) : Stands(d, c)
  BY <1>1 DEF Stands
<1>4. CASE n = 1
  <2>1. BornAt[c.id] \in Int /\ now \in Int /\ began \in Int /\ began <= now /\ pipe.maxAge \in Int
    BY <1>1, PhpAssumption DEF ServiceInv, Pipe
  <2>2. c \in Age(s)
    BY <1>2, <2>1 DEF Age
  <2>. QED  BY <1>3, <1>4, <2>2 DEF Kept, Filters
<1>5. CASE n = 2
  <2>. DEFINE copies == {d \in s : d.id = c.id}
  <2>1. PICK d \in copies : \A e \in copies : d.at <= e.at
    BY FirstPlace
  <2>2. d \in DropDuplicates(s) /\ Stands(d, c)
    BY <1>2, <1>5, <2>1 DEF DropDuplicates, Stands
  <2>. QED  BY <1>5, <2>2 DEF Kept, Filters
<1>6. CASE n = 3
  BY <1>2, <1>3, <1>6 DEF Kept, Filters, PreviouslySeen
<1>7. CASE n = 4
  BY <1>2, <1>3, <1>7 DEF Kept, Filters, PreviouslyServed
<1>8. CASE n = 5
  BY <1>2, <1>3, <1>8 DEF Kept, Filters, SelfTweet
<1>9. CASE n = 6
  BY <1>2, <1>3, <1>9 DEF Kept, Filters, MutedKeyword
<1>. QED  BY <1>4, <1>5, <1>6, <1>7, <1>8, <1>9

\* The seventh drops a retweet only behind the first candidate that shows the same post.
LEMMA RetweetCovers ==
    ASSUME NEW s, s \subseteq Candidate, NEW c \in s
    PROVE  \E e \in RetweetDeduplication(s) :
              e = c \/ (e.at < c.at /\ Subject(e.id) = RetweetOf[c.id])
<1>1. \A d \in s : d.at \in Nat
  BY DEF Candidate
<1>2. CASE c \in RetweetDeduplication(s)
  BY <1>2
<1>3. CASE c \notin RetweetDeduplication(s)
  <2>. DEFINE same == {d \in s : Subject(d.id) = RetweetOf[c.id]}
  <2>1. PICK d \in same : d.at < c.at
    BY <1>3 DEF RetweetDeduplication
  <2>2. PICK e \in same : \A x \in same : e.at <= x.at
    BY FirstPlace, <2>1
  <2>3. e.at < c.at
    BY <1>1, <2>1, <2>2
  <2>4. e \in RetweetDeduplication(s)
    <3>1. CASE RetweetOf[e.id] = 0
      BY <3>1 DEF RetweetDeduplication
    <3>2. CASE RetweetOf[e.id] # 0
      <4>1. RetweetOf[e.id] = RetweetOf[c.id]
        BY <2>2, <3>2 DEF Subject
      <4>2. \A x \in s : x.at < e.at => Subject(x.id) # RetweetOf[e.id]
        BY <1>1, <2>2, <4>1
      <4>. QED  BY <4>2 DEF RetweetDeduplication
    <3>. QED  BY <3>1, <3>2
  <2>. QED  BY <2>2, <2>3, <2>4
<1>. QED  BY <1>2, <1>3

LEMMA ReasonInit == Init => ReasonInv
BY DEF Init, ReasonInv, NothingWithoutReason

\* The first list is all there.
LEMMA ReasonFetch ==
    ASSUME IInv, ReasonInv, FetchFromSources
    PROVE  ReasonInv'
<1>1. stage = "fetch" /\ stage' = "filter" /\ pos' = 1 /\ offered' = candidates'
      /\ UNCHANGED <<seenIds, before>>
  BY DEF FetchFromSources, service, request
<1>2. candidates' \subseteq Candidate /\ Places(candidates)' /\ IsFiniteSet(candidates')
  BY Fetched DEF IInv, ServiceInv
<1>3. Places(offered)'
  BY <1>1, <1>2 DEF Places
<1>4. \A o \in offered' : \E c \in candidates' : Stands(c, o)
  <2>1. \A o \in offered' : Stands(o, o)
    BY <1>1, <1>2 DEF Stands, Candidate
  <2>. QED  BY <1>1, <2>1
<1>5. NothingWithoutReason'
  BY <1>1 DEF NothingWithoutReason
<1>. QED  BY <1>1, <1>2, <1>3, <1>4, <1>5 DEF ReasonInv

\* A filter: what it drops has a reason, or one stands for it or covers it.
LEMMA ReasonFilter ==
    ASSUME IInv, ReasonInv, ApplyFilter
    PROVE  ReasonInv'
<1>. DEFINE t == Kept(Filters[pos], candidates)
<1>1. /\ stage = "filter" /\ candidates' = t /\ seenIds' = Remember(Filters[pos], t)
      /\ UNCHANGED <<pipe, query, now, offered, began, before>>
  BY DEF ApplyFilter, request, history
<1>2. pos \in 1 .. 8 /\ Len(Filters) = 8
  BY <1>1 DEF IInv, ServiceInv, Filters
<1>3. \/ stage' = "score" /\ pos' = 1 /\ (t = {} \/ pos = 8)
      \/ stage' = "filter" /\ pos' = pos + 1 /\ pos < 8
  BY <1>1, <1>2 DEF ApplyFilter
<1>4. \A p : Excused(p)' = Excused(p)
  BY <1>1 DEF Excused, Ineligible
<1>5. /\ IsFiniteSet(offered) /\ offered \subseteq Candidate /\ Places(offered)
      /\ candidates \subseteq offered /\ candidates \subseteq Candidate
  BY <1>1 DEF ReasonInv
<1>6. \A c \in candidates : DOMAIN c = Fields /\ c.id \in Post /\ c.at \in Int /\ c.score \in Int
  BY <1>5 DEF Candidate, Fields
<1>7. pos = 6 => query.muted # "malformed" \/ candidates = {}
  BY DEF ApplyFilter, Malformed, Filters
<1>8. pos < 8 => t \subseteq candidates
  BY <1>1, <1>2, <1>6, <1>7, KeptQuality DEF IInv, CandidateInv
<1>9. pos' <= 2 /\ stage' = "filter" => seenIds' = before'
  <2>. SUFFICES ASSUME pos' <= 2, stage' = "filter" PROVE seenIds' = before'
    OBVIOUS
  <2>1. pos = 1
    BY <1>2, <1>3
  <2>2. seenIds' = seenIds /\ seenIds = before
    BY <1>1, <2>1 DEF Remember, Filters, ReasonInv
  <2>. QED  BY <1>1, <2>2
<1>10. ASSUME NEW o \in offered, ~Excused(o.id)
       PROVE  /\ pos <= 6 => \E d \in t : Stands(d, o)
              /\ pos = 7 => \E d \in t : Covers(d, o)
              /\ pos = 8 => \E e \in offered, d \in t :
                    Covers(e, o) /\ ConversationOf(d.id) = ConversationOf(e.id) /\ e.score <= d.score
  <2>1. PICK c \in candidates : IF pos <= 7 THEN Stands(c, o) ELSE Covers(c, o)
    BY <1>1, <1>10 DEF ReasonInv
  <2>2. c \in offered /\ c.at \in Nat /\ o.at \in Nat
    BY <1>5 DEF Candidate
  <2>3. CASE pos <= 6
    <3>1. Stands(c, o) /\ ~Excused(c.id)
      BY <1>2, <1>10, <2>1, <2>3 DEF Stands
    <3>2. pos \in 1 .. 6 /\ (pos = 2 => seenIds = before)
      BY <1>1, <1>2, <2>3 DEF ReasonInv
    <3>3. PICK d \in t : Stands(d, c)
      BY <1>5, <1>7, <3>1, <3>2, KeptStands DEF IInv
    <3>4. d.at \in Nat
      BY <1>2, <1>5, <1>8, <2>3 DEF Candidate
    <3>5. Stands(d, o)
      BY <2>2, <3>1, <3>3, <3>4 DEF Stands
    <3>. QED  BY <2>3, <3>5
  <2>4. CASE pos = 7
    <3>1. Stands(c, o)
      BY <2>1, <2>4
    <3>2. PICK e \in RetweetDeduplication(candidates) :
              e = c \/ (e.at < c.at /\ Subject(e.id) = RetweetOf[c.id])
      BY <1>5, RetweetCovers
    <3>3. e \in candidates /\ e.at \in Nat
      BY <1>5 DEF RetweetDeduplication, Candidate
    <3>4. c.at = o.at => c = o
      BY <2>2 , <1>5 DEF Places
    <3>5. Covers(e, o)
      BY <2>2, <3>1, <3>2, <3>3, <3>4 DEF Stands, Covers
    <3>6. t = RetweetDeduplication(candidates)
      BY <2>4 DEF Kept, Filters
    <3>. QED  BY <2>4, <3>5, <3>6
  <2>5. CASE pos = 8
    <3>1. Covers(c, o)
      BY <2>1, <2>5
    <3>2. PICK b \in candidates :
              Best(candidates, b) /\ ConversationOf(b.id) = ConversationOf(c.id) /\ c.score <= b.score
      <4>1. IsFiniteSet(candidates)
        BY <1>5, FS_Subset
      <4>. QED  BY <1>5, <4>1, BestExists
    <3>. DEFINE place == CHOOSE n \in {d.at : d \in Mates(candidates, b)} :
                            \A d \in Mates(candidates, b) : n <= d.at
                d == [b EXCEPT !.at = place]
    <3>3. d \in DedupConversation(candidates)
      BY <3>2 DEF DedupConversation
    <3>4. t = DedupConversation(candidates)
      BY <2>5 DEF Kept, Filters
    <3>. HIDE DEF place
    <3>5. d.id = b.id /\ d.score = b.score
      BY <1>6 DEF Fields
    <3>. HIDE DEF d
    <3>. QED  BY <2>2, <2>5, <3>1, <3>2, <3>3, <3>4, <3>5
  <2>. QED  BY <1>2, <2>3, <2>4, <2>5
<1>. HIDE DEF t
<1>11. stage' = "filter" =>
         \A o \in offered : Excused(o.id)
                            \/ \E c \in t : IF pos' <= 7 THEN Stands(c, o) ELSE Covers(c, o)
  BY <1>2, <1>3, <1>10
<1>12. NothingWithoutReason'
  <2>1. CASE stage' = "filter"
    BY <2>1 DEF NothingWithoutReason
  <2>2. CASE stage' = "score"
    <3>1. \A o \in offered : Excused(o.id) \/ \E e \in offered, d \in t :
             Covers(e, o) /\ ConversationOf(d.id) = ConversationOf(e.id) /\ e.score <= d.score
      BY <1>2, <1>3, <1>10, <2>2
    <3>2. \A o \in offered' : Excused(o.id)' \/ \E e \in offered', d \in candidates' :
             Covers(e, o) /\ ConversationOf(d.id) = ConversationOf(e.id) /\ e.score <= d.score
      BY <1>1, <1>4, <3>1
    <3>. QED  BY <3>2 DEF NothingWithoutReason, Excused, Covers
  <2>. QED  BY <1>3, <2>1, <2>2
<1>13. Places(offered)'
  BY <1>1, <1>5 DEF Places
<1>14. stage' = "filter" => candidates' \subseteq offered'
  BY <1>1, <1>3, <1>5, <1>8
<1>15. stage' = "filter" =>
         \A o \in offered' : Excused(o.id)'
                             \/ \E c \in candidates' : IF pos' <= 7 THEN Stands(c, o) ELSE Covers(c, o)
  BY <1>1, <1>4, <1>11
<1>. QED  BY <1>1, <1>3, <1>5, <1>9, <1>12, <1>13, <1>14, <1>15 DEF ReasonInv

\* As time passes, more is excused and nothing less.
LEMMA ReasonOther ==
    ASSUME IInv, ReasonInv, FetchThrows \/ FilterThrows \/ Tick \/ UNCHANGED vars
    PROVE  ReasonInv'
<1>1. /\ UNCHANGED <<pipe, seenIds, pos, query, candidates, offered, began, before>>
      /\ stage' = stage \/ stage' = "thrown"
      /\ now' = now \/ now' = now + 1
  BY DEF FetchThrows, FilterThrows, Tick, vars, service, request, history
<1>2. now \in Int /\ now' \in Int /\ now <= now' /\ pipe.maxAge \in Int
  BY <1>1 DEF IInv, ServiceInv, Pipe
<1>3. \A p \in Post : Ineligible(p) => Ineligible(p)'
  BY <1>1, <1>2, PhpAssumption DEF Ineligible
<1>4. stage' \in {"filter", "score"} => \A o \in offered : o.id \in Post
  BY <1>1 DEF ReasonInv, Candidate
<1>5. stage' \in {"filter", "score"} => \A o \in offered : Excused(o.id) => Excused(o.id)'
  BY <1>1, <1>3, <1>4 DEF Excused
<1>6. NothingWithoutReason'
  <2>. SUFFICES ASSUME stage' = "score", pos' = 1, NEW o \in offered
                PROVE  \/ Ineligible(o.id)'
                       \/ o.id \in before
                       \/ \E e \in offered, c \in candidates :
                            /\ e = o \/ (e.at < o.at /\ (e.id = o.id \/ Subject(e.id) = RetweetOf[o.id]))
                            /\ ConversationOf(c.id) = ConversationOf(e.id) /\ e.score <= c.score
    BY <1>1 DEF NothingWithoutReason
  <2>1. stage = "score" /\ pos = 1 /\ NothingWithoutReason
    BY <1>1 DEF ReasonInv
  <2>2. Ineligible(o.id) => Ineligible(o.id)'
    BY <1>3, <1>4
  <2>. QED  BY <2>1, <2>2 DEF NothingWithoutReason
<1>7. stage' = "filter" =>
         \A o \in offered : Excused(o.id)'
                            \/ \E c \in candidates : IF pos <= 7 THEN Stands(c, o) ELSE Covers(c, o)
  BY <1>1, <1>5 DEF ReasonInv
<1>8. stage' \in {"filter", "score"} =>
         IsFiniteSet(offered') /\ offered' \subseteq Candidate /\ Places(offered)'
  BY <1>1 DEF ReasonInv, Places
<1>. QED  BY <1>1, <1>6, <1>7, <1>8 DEF ReasonInv

\* The calls between requests, the beginning of one, its scores and its reply.
LEMMA ReasonElsewhere ==
    ASSUME IInv, ReasonInv,
           \/ \E c \in Configs : Create(c) \/ UpdateConfig(c)
           \/ CheckHealth \/ Reset \/ AddSource
           \/ \E q \in Requests, c \in Configs : Begin(q, c)
           \/ ApplyScorer \/ SelectAndReply
    PROVE  ReasonInv'
<1>1. CASE ApplyScorer
  <2>1. Len(Scorers) \in Nat /\ pos \in 1 .. Len(Scorers) /\ stage = "score"
    BY <1>1 DEF IInv, ServiceInv, ApplyScorer, Scorers
  <2>2. stage' = "select" \/ (stage' = "score" /\ pos' # 1)
    BY <1>1, <2>1 DEF ApplyScorer
  <2>3. offered' = offered
    BY <1>1 DEF ApplyScorer, history
  <2>. QED  BY <2>1, <2>2, <2>3 DEF ReasonInv, NothingWithoutReason, Places
<1>2. ASSUME NEW q \in Requests, NEW c \in Configs, Begin(q, c) PROVE ReasonInv'
  BY <1>2 DEF Begin, ReasonInv, NothingWithoutReason
<1>3. CASE stage' \in {"idle", "replied", "thrown"}
  BY <1>3 DEF ReasonInv, NothingWithoutReason
<1>4. CASE \/ \E c \in Configs : Create(c) \/ UpdateConfig(c)
           \/ CheckHealth \/ Reset \/ AddSource \/ SelectAndReply
  <2>1. stage' \in {"idle", "replied", "thrown"}
    BY <1>4 DEF Create, UpdateConfig, CheckHealth, Reset, AddSource, SelectAndReply, Idle
  <2>. QED  BY <1>3, <2>1
<1>. QED  BY <1>1, <1>2, <1>4

\* No candidate is dropped by the filters without a reason that still holds when
\* they are done: eligible ones that are new to the service stay, or lose against one
\* that does.
THEOREM PhpNothingWithoutReason == Spec => []NothingWithoutReason
<1>1. IInv /\ ReasonInv /\ [Next]_vars => ReasonInv'
  <2>. SUFFICES ASSUME IInv, ReasonInv, [Next]_vars PROVE ReasonInv'
    OBVIOUS
  <2>1. CASE FetchFromSources
    BY <2>1, ReasonFetch
  <2>2. CASE ApplyFilter
    BY <2>2, ReasonFilter
  <2>3. CASE FetchThrows \/ FilterThrows \/ Tick \/ UNCHANGED vars
    BY <2>3, ReasonOther
  <2>4. CASE \/ \E c \in Configs : Create(c) \/ UpdateConfig(c)
             \/ CheckHealth \/ Reset \/ AddSource
             \/ \E q \in Requests, c \in Configs : Begin(q, c)
             \/ ApplyScorer \/ SelectAndReply
    BY <2>4, ReasonElsewhere
  <2>. QED  BY <2>1, <2>2, <2>3, <2>4 DEF Next
<1>2. ReasonInv => NothingWithoutReason
  BY DEF ReasonInv
<1>. QED  BY PhpInit, PhpInductive, ReasonInit, <1>1, <1>2, PTL DEF Spec

-----------------------------------------------------------------------------
(* Types, if the arithmetic on scores gives scores. *)

ScoresAreInts ==
    /\ \A x \in Int : Boosted(x) \in Int
    /\ \A x \in Int, n \in Nat : Decayed(x, n) \in Int

ListOK(s) == s \subseteq Candidate /\ IsFiniteSet(s) /\ Places(s)

TypesInv == TypeOK /\ ListOK(candidates)

\* A finite list whose members become other candidates.
LEMMA ImageList ==
    ASSUME NEW s, ListOK(s), NEW r, r \subseteq s, NEW g \in [r -> Candidate],
           NEW t, t = {g[c] : c \in r}
    PROVE  /\ t \subseteq Candidate /\ IsFiniteSet(t)
           /\ (\A c, d \in r : g[c].at = g[d].at => c = d) => ListOK(t)
<1>1. IsFiniteSet(r)
  BY FS_Subset DEF ListOK
<1>2. g \in Surjection(r, t)
  BY DEF Surjection
<1>3. t \subseteq Candidate /\ IsFiniteSet(t)
  BY <1>1, <1>2, FS_Surjection
<1>4. (\A c, d \in r : g[c].at = g[d].at => c = d) => Places(t)
  BY DEF Places
<1>. QED  BY <1>3, <1>4 DEF ListOK

LEMMA SubsetList ==
    ASSUME NEW s, ListOK(s), NEW t, t \subseteq s
    PROVE  ListOK(t)
BY FS_Subset DEF ListOK, Places

\* The places of the winners of conversations.
LEMMA DedupList ==
    ASSUME NEW s, ListOK(s)
    PROVE  ListOK(DedupConversation(s))
<1>. DEFINE First(c) == CHOOSE n \in {d.at : d \in Mates(s, c)} : \A d \in Mates(s, c) : n <= d.at
            r == {c \in s : Best(s, c)}
            g == [c \in r |-> [c EXCEPT !.at = First(c)]]
<1>1. \A c \in s : \E m \in Mates(s, c) : First(c) = m.at
  <2>. SUFFICES ASSUME NEW c \in s PROVE \E m \in Mates(s, c) : First(c) = m.at
    OBVIOUS
  <2>1. c \in Mates(s, c) /\ Mates(s, c) \subseteq Candidate
    BY DEF Mates, ListOK
  <2>2. \E m \in Mates(s, c) : \A d \in Mates(s, c) : m.at <= d.at
    BY <2>1, FirstPlace
  <2>3. \E n \in {d.at : d \in Mates(s, c)} : \A d \in Mates(s, c) : n <= d.at
    BY <2>2
  <2>4. First(c) \in {d.at : d \in Mates(s, c)}
    BY <2>3
  <2>. QED  BY <2>4
<1>2. \A c, d \in s : First(c) = First(d) => ConversationOf(c.id) = ConversationOf(d.id)
  <2>. SUFFICES ASSUME NEW c \in s, NEW d \in s, First(c) = First(d)
                PROVE  ConversationOf(c.id) = ConversationOf(d.id)
    OBVIOUS
  <2>1. PICK m \in Mates(s, c) : First(c) = m.at
    BY <1>1
  <2>2. PICK k \in Mates(s, d) : First(d) = k.at
    BY <1>1
  <2>3. m = k
    BY <2>1, <2>2 DEF ListOK, Places, Mates
  <2>. QED  BY <2>1, <2>2, <2>3 DEF Mates
<1>3. \A c \in s : First(c) \in Nat
  BY <1>1 DEF Mates, ListOK, Candidate
<1>. HIDE DEF First
<1>4. g \in [r -> Candidate] /\ \A c \in r : g[c].at = First(c)
  BY <1>3 DEF ListOK, Candidate
<1>5. \A c, d \in r : ConversationOf(c.id) = ConversationOf(d.id) => c = d
  <2>. SUFFICES ASSUME NEW c \in r, NEW d \in r, ConversationOf(c.id) = ConversationOf(d.id) PROVE c = d
    OBVIOUS
  <2>1. c \in Mates(s, d) /\ d \in Mates(s, c)
    BY DEF Mates
  <2>2. c.at \in Nat /\ d.at \in Nat /\ c.score \in Int /\ d.score \in Int
    BY DEF ListOK, Candidate
  <2>3. c.at = d.at
    BY <2>1, <2>2 DEF Best
  <2>. QED  BY <2>3 DEF ListOK, Places
<1>6. \A c, d \in r : g[c].at = g[d].at => c = d
  BY <1>2, <1>4, <1>5
<1>7. DedupConversation(s) = {g[c] : c \in r}
  BY DEF DedupConversation, First
<1>. HIDE DEF g, r
<1>8. r \subseteq s
  BY DEF r
<1>. QED  BY <1>4, <1>6, <1>7, <1>8, ImageList

LEMMA KeptList ==
    ASSUME NEW s, ListOK(s), NEW n \in 1 .. 8
    PROVE  ListOK(Kept(Filters[n], s))
<1>1. CASE n = 8
  BY <1>1, DedupList DEF Kept, Filters
<1>2. CASE n # 8
  <2>1. Filters[n] \in {"Age", "DropDuplicates", "PreviouslySeen", "PreviouslyServed", "SelfTweet",
                        "MutedKeyword", "RetweetDeduplication"}
    BY <1>2 DEF Filters
  <2>2. Kept(Filters[n], s) \subseteq s
    BY <2>1 DEF Kept, Age, DropDuplicates, PreviouslySeen, PreviouslyServed, SelfTweet,
                MutedKeyword, RetweetDeduplication
  <2>. QED  BY <2>2, SubsetList
<1>. QED  BY <1>1, <1>2

LEMMA PositionNat ==
    ASSUME NEW s, IsFiniteSet(s), NEW c
    PROVE  Position(s, c) \in Nat
<1>1. IsFiniteSet({d \in s : AuthorOf[d.id] = AuthorOf[c.id] /\ d.at < c.at})
  BY FS_Subset
<1>. QED  BY <1>1, FS_CardinalityType DEF Position

\* Each scorer as a function of the candidate; places stay, and so does what a
\* candidate was retrieved with.
ScorerOf(f, s) ==
    [c \in s |->
        CASE f = "Weighted" -> [c EXCEPT !.weighted = c.quality, !.score = c.quality]
          [] f = "OON" ->
                IF c.network = "true"
                THEN c
                ELSE [c EXCEPT !.weighted = Boosted(@), !.score = Boosted(c.weighted), !.network = "false"]
          [] f = "AuthorDiversity" ->
                [c EXCEPT !.weighted = Decayed(@, Position(s, c)),
                          !.score = Decayed(c.weighted, Position(s, c))]]

LEMMA ScorerIs ==
    ASSUME NEW s, ListOK(s), ScoresAreInts, NEW f \in {"Weighted", "OON", "AuthorDiversity"}
    PROVE  /\ Scored(f, s) = {ScorerOf(f, s)[c] : c \in s}
           /\ ScorerOf(f, s) \in [s -> Candidate]
           /\ \A c \in s : /\ ScorerOf(f, s)[c].at = c.at /\ ScorerOf(f, s)[c].id = c.id
                           /\ ScorerOf(f, s)[c].quality = c.quality
<1>1. \A c \in s : Position(s, c) \in Nat
  BY PositionNat DEF ListOK
<1>2. s \subseteq Candidate
  BY DEF ListOK
<1>3. CASE f = "Weighted"
  BY <1>2, <1>3 DEF Scored, Weighted, ScorerOf, Candidate
<1>4. CASE f = "OON"
  BY <1>2, <1>4 DEF Scored, OON, ScorerOf, Candidate, ScoresAreInts
<1>5. CASE f = "AuthorDiversity"
  BY <1>1, <1>2, <1>5 DEF Scored, AuthorDiversity, ScorerOf, Candidate, ScoresAreInts
<1>. QED  BY <1>3, <1>4, <1>5

LEMMA ScoredList ==
    ASSUME NEW s, ListOK(s), ScoresAreInts, NEW f \in {"Weighted", "OON", "AuthorDiversity"}
    PROVE  ListOK(Scored(f, s))
<1>. DEFINE g == ScorerOf(f, s)
<1>1. /\ Scored(f, s) = {g[c] : c \in s} /\ g \in [s -> Candidate]
      /\ \A c, d \in s : g[c].at = g[d].at => c = d
  BY ScorerIs DEF ListOK, Places
<1>. HIDE DEF g
<1>. QED  BY <1>1, ImageList

\* The stable sort: everybody has a rank of his own, and all ranks up to the
\* number of candidates are given.
Rank(s, c) == Cardinality(Ahead(s, c)) + 1

LEMMA RankIs ==
    ASSUME NEW s, ListOK(s)
    PROVE  /\ Cardinality(s) \in Nat
           /\ \A c \in s : Rank(s, c) \in 1 .. Cardinality(s)
           /\ \A c, d \in s : Rank(s, c) < Rank(s, d) => c.weighted >= d.weighted
           /\ \A c, d \in s : Rank(s, c) = Rank(s, d) => c = d
           /\ \A n \in 1 .. Cardinality(s) : \E c \in s : Rank(s, c) = n
<1>. DEFINE f == [c \in s |-> Rank(s, c)]
            N == Cardinality(s)
<1>1. IsFiniteSet(s) /\ N \in Nat
  BY FS_CardinalityType DEF ListOK
<1>2. \A c \in s : c.weighted \in Int /\ c.at \in Int
  BY DEF ListOK, Candidate
<1>3. \A c \in s : /\ Ahead(s, c) \subseteq s \ {c} /\ IsFiniteSet(Ahead(s, c))
                   /\ Cardinality(Ahead(s, c)) \in Nat /\ Cardinality(Ahead(s, c)) <= N - 1
  <2>. SUFFICES ASSUME NEW c \in s
                PROVE  /\ Ahead(s, c) \subseteq s \ {c} /\ IsFiniteSet(Ahead(s, c))
                       /\ Cardinality(Ahead(s, c)) \in Nat /\ Cardinality(Ahead(s, c)) <= N - 1
    OBVIOUS
  <2>1. Ahead(s, c) \subseteq s \ {c}
    BY <1>2 DEF Ahead
  <2>2. IsFiniteSet(s \ {c}) /\ Cardinality(s \ {c}) = N - 1
    BY <1>1, FS_RemoveElement
  <2>3. IsFiniteSet(Ahead(s, c)) /\ Cardinality(Ahead(s, c)) <= N - 1
    BY <2>1, <2>2, FS_Subset
  <2>. QED  BY <2>1, <2>3, FS_CardinalityType
<1>4. \A c \in s : Rank(s, c) \in 1 .. N
  <2>. SUFFICES ASSUME NEW c \in s PROVE Rank(s, c) \in 1 .. N
    OBVIOUS
  <2>1. Cardinality(Ahead(s, c)) \in Nat /\ Cardinality(Ahead(s, c)) <= N - 1
    BY <1>3
  <2>. QED  BY <1>1, <2>1 DEF Rank
<1>5. \A c, d \in s : c \in Ahead(s, d) => Rank(s, c) < Rank(s, d)
  <2>. SUFFICES ASSUME NEW c \in s, NEW d \in s, c \in Ahead(s, d) PROVE Rank(s, c) < Rank(s, d)
    OBVIOUS
  <2>1. Ahead(s, c) \in SUBSET Ahead(s, d) /\ c \notin Ahead(s, c)
    BY <1>2 DEF Ahead
  <2>2. Cardinality(Ahead(s, c)) <= Cardinality(Ahead(s, d))
        /\ Cardinality(Ahead(s, d)) # Cardinality(Ahead(s, c))
    BY <1>3, <2>1, FS_Subset
  <2>3. Cardinality(Ahead(s, c)) \in Nat /\ Cardinality(Ahead(s, d)) \in Nat
    BY <1>3
  <2>. QED  BY <2>2, <2>3 DEF Rank
<1>6. \A c, d \in s : c = d \/ c \in Ahead(s, d) \/ d \in Ahead(s, c)
  BY <1>2 DEF Ahead, ListOK, Places
<1>7. \A c, d \in s : Rank(s, c) = Rank(s, d) => c = d
  BY <1>4, <1>5, <1>6
<1>8. \A c, d \in s : Rank(s, c) < Rank(s, d) => c.weighted >= d.weighted
  <2>. SUFFICES ASSUME NEW c \in s, NEW d \in s, Rank(s, c) < Rank(s, d)
                PROVE  c.weighted >= d.weighted
    OBVIOUS
  <2>1. Rank(s, c) \in Int /\ Rank(s, d) \in Int
    BY <1>4
  <2>2. ~(Rank(s, d) < Rank(s, c)) /\ c # d
    BY <2>1
  <2>3. c \in Ahead(s, d)
    BY <1>5, <1>6, <2>2
  <2>. QED  BY <1>2, <2>3 DEF Ahead
<1>9. f \in Injection(s, 1 .. N)
  BY <1>4, <1>7 DEF Injection, IsInjective
<1>10. IsFiniteSet(1 .. N) /\ Cardinality(1 .. N) = N
  BY <1>1, FS_Interval
<1>11. f \in Surjection(s, 1 .. N)
  BY <1>9, <1>10, FS_Injection
<1>12. \A n \in 1 .. N : \E c \in s : f[c] = n
  BY <1>11 DEF Surjection
<1>. QED  BY <1>1, <1>4, <1>7, <1>8, <1>12

\* The reply: as many as there are and may be, numbered, the best ones.
LEMMA TopKIs ==
    ASSUME NEW s, ListOK(s), limit \in Nat
    PROVE  LET t == TopK(s)
               K == IF Cardinality(s) < limit THEN Cardinality(s) ELSE limit
           IN  /\ t \subseteq Candidate
               /\ Cardinality(t) = K /\ {c.at : c \in t} = 1 .. K
               /\ \A c, d \in t : c.at < d.at => c.weighted >= d.weighted
               /\ \A c \in t, d \in s : d.id \notin Ids(t) => c.weighted >= d.weighted
<1>. DEFINE t == TopK(s)
            N == Cardinality(s)
            K == IF N < limit THEN N ELSE limit
            r == {c \in s : Rank(s, c) <= limit}
            g == [c \in r |-> [c EXCEPT !.at = Rank(s, c)]]
            at == [c \in t |-> c.at]
<1>1. /\ N \in Nat
      /\ \A c \in s : Rank(s, c) \in 1 .. N
      /\ \A c, d \in s : Rank(s, c) < Rank(s, d) => c.weighted >= d.weighted
      /\ \A c, d \in s : Rank(s, c) = Rank(s, d) => c = d
      /\ \A n \in 1 .. N : \E c \in s : Rank(s, c) = n
  BY RankIs
<1>2. \A c \in s : Cardinality(Ahead(s, c)) \in Nat
  <2>. SUFFICES ASSUME NEW c \in s PROVE Cardinality(Ahead(s, c)) \in Nat
    OBVIOUS
  <2>1. IsFiniteSet(Ahead(s, c))
    BY FS_Subset DEF Ahead, ListOK
  <2>. QED  BY <2>1, FS_CardinalityType
<1>3. r = {c \in s : Cardinality(Ahead(s, c)) < limit}
  BY <1>2 DEF Rank
<1>4. t = {g[c] : c \in r}
  BY <1>3 DEF TopK, Rank
<1>5. g \in [r -> Candidate]
      /\ \A c \in r : g[c].at = Rank(s, c) /\ g[c].id = c.id /\ g[c].weighted = c.weighted
  BY <1>1 DEF ListOK, Candidate
<1>6. r \subseteq s /\ \A c \in r : Rank(s, c) \in 1 .. K
  BY <1>1
<1>7. \A n \in 1 .. K : \E c \in r : Rank(s, c) = n
  BY <1>1
<1>8. \A c \in s \ r : ~(Rank(s, c) <= limit)
  OBVIOUS
<1>. HIDE DEF r, g, t
<1>9. t \subseteq Candidate
  BY <1>4, <1>5
<1>10. {c.at : c \in t} = 1 .. K
  BY <1>4, <1>5, <1>6, <1>7
<1>11. at \in Bijection(t, 1 .. K)
  <2>1. \A c, d \in t : c.at = d.at => c = d
    BY <1>1, <1>4, <1>5, <1>6
  <2>2. at \in [t -> 1 .. K] /\ \A n \in 1 .. K : \E c \in t : at[c] = n
    BY <1>10
  <2>3. at \in Injection(t, 1 .. K)
    BY <2>1, <2>2 DEF Injection, IsInjective
  <2>. QED  BY <2>2, <2>3 DEF Bijection, Surjection
<1>12. Cardinality(t) = K
  <2>0. K \in Nat
    BY <1>1
  <2>. HIDE DEF K
  <2>1. K \in Nat /\ IsFiniteSet(1 .. K) /\ Cardinality(1 .. K) = K
    BY <2>0, FS_Interval
  <2>2. IsFiniteSet(t)
    BY <1>11, <2>1, FS_Injection DEF Bijection
  <2>3. ExistsBijection(t, 1 .. K)
    BY <1>11 DEF ExistsBijection
  <2>. QED  BY <2>1, <2>2, <2>3, FS_Bijection
<1>13. \A c, d \in t : c.at < d.at => c.weighted >= d.weighted
  BY <1>1, <1>4, <1>5, <1>6
<1>14. ASSUME NEW c \in t, NEW d \in s, d.id \notin Ids(t)
       PROVE  c.weighted >= d.weighted
  <2>1. PICK x \in r : c = g[x]
    BY <1>4
  <2>2. d \notin r
    BY <1>4, <1>5, <1>14 DEF Ids
  <2>3. Rank(s, x) \in Int /\ Rank(s, d) \in Int /\ Rank(s, x) <= limit /\ ~(Rank(s, d) <= limit)
    BY <1>1, <1>6, <1>8, <2>2 DEF r
  <2>4. Rank(s, x) < Rank(s, d)
    BY <2>3
  <2>. QED  BY <1>1, <1>5, <1>6, <2>1, <2>4
<1>. QED  BY <1>9, <1>10, <1>12, <1>13, <1>14 DEF t

LEMMA TypesInit == Init => TypesInv
<1>. SUFFICES ASSUME Init PROVE TypesInv
  OBVIOUS
<1>1. DefaultConfig \in Config /\ query \in Query
  BY PhpAssumption DEF Init
<1>2. pipe \in [maxAge : Nat, diversity : BOOLEAN, extended : BOOLEAN]
  BY <1>1 DEF Init, Config
<1>3. pos \in 1 .. Len(Filters) /\ requests \in 0 .. MaxRequests
  BY PhpAssumption DEF Init, Filters
<1>4. ListOK(candidates) /\ Places(offered)
  BY FS_EmptySet DEF Init, ListOK, Places
<1>. QED  BY <1>1, <1>2, <1>3, <1>4 DEF Init, TypesInv, TypeOK

\* Between requests only the service changes.
LEMMA TypesIdle ==
    ASSUME TypesInv,
           \/ \E c \in Configs : Create(c) \/ UpdateConfig(c)
           \/ CheckHealth \/ Reset \/ AddSource
    PROVE  TypesInv'
<1>. USE DEF Idle, Rest, request, service
<1>1. UNCHANGED <<pos, query, limit, reply, candidates, now, offered, began, before, requests>>
      /\ stage' \in {"idle", "replied", "thrown"}
  BY DEF Create, UpdateConfig, CheckHealth, Reset, AddSource
<1>2. built' \in BOOLEAN /\ config' \in Config
      /\ pipe' \in [maxAge : Nat, diversity : BOOLEAN, extended : BOOLEAN]
      /\ seenIds' \in SUBSET Post /\ shown' \in SUBSET Post
  <2>1. ASSUME NEW c \in Config, NEW b \in BOOLEAN, Fresh(c), built' = b
        PROVE  /\ built' \in BOOLEAN /\ config' \in Config
               /\ pipe' \in [maxAge : Nat, diversity : BOOLEAN, extended : BOOLEAN]
               /\ seenIds' \in SUBSET Post /\ shown' \in SUBSET Post
    BY <2>1 DEF Fresh, Config
  <2>2. ASSUME NEW c \in Configs, UpdateConfig(c) \/ AddSource
        PROVE  /\ built' \in BOOLEAN /\ config' \in Config
               /\ pipe' \in [maxAge : Nat, diversity : BOOLEAN, extended : BOOLEAN]
               /\ seenIds' \in SUBSET Post /\ shown' \in SUBSET Post
    BY <2>2, PhpAssumption DEF UpdateConfig, AddSource, TypesInv, TypeOK
  <2>3. CASE AddSource
    BY <2>3 DEF AddSource, TypesInv, TypeOK
  <2>. QED  BY <2>1, <2>2, <2>3, PhpAssumption DEF Create, CheckHealth, Reset, Build
<1>3. ListOK(candidates)' /\ Places(offered)'
  BY <1>1 DEF TypesInv, TypeOK, ListOK, Places
<1>. QED  BY <1>1, <1>2, <1>3 DEF TypesInv, TypeOK

LEMMA TypesBegin ==
    ASSUME TypesInv, NEW q \in Requests, NEW c \in Configs, Begin(q, c)
    PROVE  TypesInv'
<1>1. c \in Config /\ q \in Query
  BY PhpAssumption
<1>2. built' \in BOOLEAN /\ config' \in Config
      /\ pipe' \in [maxAge : Nat, diversity : BOOLEAN, extended : BOOLEAN]
      /\ seenIds' \in SUBSET Post /\ shown' \in SUBSET Post
  <2>1. CASE Build(c)
    BY <1>1, <2>1 DEF Build, Fresh, Config
  <2>2. CASE UNCHANGED <<service, shown>>
    BY <2>2 DEF service, TypesInv, TypeOK
  <2>. QED  BY <2>1, <2>2 DEF Begin
<1>3. query' \in Query /\ limit' \in Nat /\ requests' \in 0 .. MaxRequests
  <2>1. config'.limit \in Nat
    BY <1>2 DEF Config
  <2>. QED  BY <1>1, <2>1, PhpAssumption DEF Begin, TypesInv, TypeOK
<1>4. /\ candidates' = {} /\ reply' = {} /\ offered' = {}
      /\ stage' = "fetch" /\ pos' = 1 /\ before' = seenIds' /\ began' = now /\ now' = now
  BY DEF Begin
<1>5. ListOK(candidates)' /\ Places(offered)'
  BY <1>4, FS_EmptySet DEF ListOK, Places
<1>. QED  BY <1>2, <1>3, <1>4, <1>5 DEF TypesInv, TypeOK, Filters

LEMMA TypesFetch ==
    ASSUME TypesInv, FetchFromSources
    PROVE  TypesInv'
<1>1. candidates' \subseteq Candidate /\ Places(candidates)' /\ IsFiniteSet(candidates')
  BY Fetched DEF TypesInv, TypeOK
<1>2. offered' = candidates' /\ stage' = "filter" /\ pos' = 1
      /\ UNCHANGED <<service, request, now, began, before, shown, requests>>
  BY DEF FetchFromSources
<1>3. ListOK(candidates)' /\ Places(offered)' /\ offered' \in SUBSET Candidate
  BY <1>1, <1>2 DEF ListOK, Places
<1>. QED  BY <1>1, <1>2, <1>3 DEF TypesInv, TypeOK, service, request, Filters

LEMMA TypesFilter ==
    ASSUME IInv, TypesInv, ApplyFilter
    PROVE  TypesInv'
<1>. DEFINE t == Kept(Filters[pos], candidates)
<1>1. /\ stage = "filter" /\ candidates' = t /\ seenIds' = Remember(Filters[pos], t)
      /\ UNCHANGED <<built, config, pipe, request, now, history>>
  BY DEF ApplyFilter
<1>2. pos \in 1 .. 8 /\ Len(Filters) = 8
  BY <1>1 DEF IInv, ServiceInv, Filters
<1>3. \/ stage' = "score" /\ pos' = 1
      \/ stage' = "filter" /\ pos' = pos + 1 /\ pos < 8
  BY <1>1, <1>2 DEF ApplyFilter
<1>4. ListOK(t)
  BY <1>2, KeptList DEF TypesInv
<1>5. seenIds' \in SUBSET Post
  <2>1. Ids(t) \subseteq Post
    BY <1>4 DEF ListOK, Ids, Candidate
  <2>. QED  BY <1>1, <2>1 DEF Remember, TypesInv, TypeOK
<1>. HIDE DEF t
<1>6. ListOK(candidates)'
  BY <1>1, <1>4 DEF ListOK, Places
<1>7. Places(offered)'
  BY <1>1 DEF history, TypesInv, TypeOK, Places
<1>8. pos' \in 1 .. Len(Filters)'
  BY <1>2, <1>3 DEF Filters
<1>. QED  BY <1>1, <1>3, <1>5, <1>6, <1>7, <1>8 DEF TypesInv, TypeOK, ListOK, request, history

LEMMA TypesScore ==
    ASSUME ScoresAreInts, IInv, TypesInv, ApplyScorer
    PROVE  TypesInv'
<1>1. pos \in 1 .. Len(Scorers) /\ Len(Scorers) \in 2 .. 3
      /\ Scorers[pos] \in {"Weighted", "OON", "AuthorDiversity"}
  BY DEF ApplyScorer, IInv, ServiceInv, Scorers
<1>2. ListOK(Scored(Scorers[pos], candidates))
  BY <1>1, ScoredList DEF TypesInv
<1>3. candidates' = Scored(Scorers[pos], candidates)
      /\ UNCHANGED <<service, request, now, history>>
  BY DEF ApplyScorer
<1>4. ListOK(candidates)'
  BY <1>2, <1>3 DEF ListOK, Places
<1>5. (stage' = "select" /\ pos' = 1) \/ (stage' = "score" /\ pos' = pos + 1 /\ pos # Len(Scorers))
  BY DEF ApplyScorer
<1>6. pos' \in 1 .. Len(Filters)'
  BY <1>1, <1>5 DEF Filters
<1>7. Places(offered)'
  BY <1>3 DEF history, TypesInv, TypeOK, Places
<1>. QED  BY <1>3, <1>4, <1>5, <1>6, <1>7 DEF TypesInv, TypeOK, ListOK, service, request, history

LEMMA TypesSelect ==
    ASSUME TypesInv, SelectAndReply
    PROVE  TypesInv'
<1>1. reply' \in SUBSET Candidate
  BY TopKIs DEF SelectAndReply, TypesInv, TypeOK
<1>2. shown' \in SUBSET Post
  <2>1. Ids(reply') \subseteq Post
    BY <1>1 DEF Ids, Candidate
  <2>. QED  BY <2>1 DEF SelectAndReply, TypesInv, TypeOK
<1>3. stage' = "replied"
      /\ UNCHANGED <<service, pos, query, limit, candidates, now, offered, began, before, requests>>
  BY DEF SelectAndReply
<1>4. ListOK(candidates)' /\ Places(offered)'
  BY <1>3 DEF TypesInv, TypeOK, ListOK, Places
<1>. QED  BY <1>1, <1>2, <1>3, <1>4 DEF TypesInv, TypeOK, service

LEMMA TypesOther ==
    ASSUME TypesInv, FetchThrows \/ FilterThrows \/ Tick \/ UNCHANGED vars
    PROVE  TypesInv'
<1>1. /\ UNCHANGED <<service, pos, request, candidates, history>>
      /\ stage' = stage \/ stage' = "thrown"
      /\ now' = now \/ now' = now + 1
  BY DEF FetchThrows, FilterThrows, Tick, vars
<1>2. ListOK(candidates)' /\ Places(offered)'
  BY <1>1 DEF TypesInv, TypeOK, ListOK, Places, history
<1>. QED  BY <1>1, <1>2 DEF TypesInv, TypeOK, service, request, history

\* Candidates keep their places apart, through every filter and scorer.
LEMMA PhpTypesInvariant == ASSUME ScoresAreInts PROVE Spec => []TypesInv
<1>1. IInv /\ TypesInv /\ [Next]_vars => TypesInv'
  <2>. SUFFICES ASSUME IInv, TypesInv, [Next]_vars PROVE TypesInv'
    OBVIOUS
  <2>1. CASE \/ \E c \in Configs : Create(c) \/ UpdateConfig(c)
             \/ CheckHealth \/ Reset \/ AddSource
    BY <2>1, TypesIdle
  <2>2. CASE \E q \in Requests, c \in Configs : Begin(q, c)
    BY <2>2, TypesBegin
  <2>3. CASE FetchFromSources
    BY <2>3, TypesFetch
  <2>4. CASE ApplyFilter
    BY <2>4, TypesFilter
  <2>5. CASE ApplyScorer
    BY <2>5, TypesScore
  <2>6. CASE SelectAndReply
    BY <2>6, TypesSelect
  <2>7. CASE FetchThrows \/ FilterThrows \/ Tick \/ UNCHANGED vars
    BY <2>7, TypesOther
  <2>. QED  BY <2>1, <2>2, <2>3, <2>4, <2>5, <2>6, <2>7 DEF Next
<1>. QED  BY <1>1, PhpInit, PhpInductive, TypesInit, PTL DEF Spec

\* Every variable keeps its type, whatever integers the arithmetic on scores gives.
THEOREM PhpTypes == ASSUME ScoresAreInts PROVE Spec => []TypeOK
<1>1. TypesInv => TypeOK
  BY DEF TypesInv
<1>2. Spec => []TypesInv
  BY PhpTypesInvariant
<1>. QED  BY <1>1, <1>2, PTL

-----------------------------------------------------------------------------
(* The order of the reply, if decay never raises a score. *)

\* Scores that are weighed from probabilities are no less than 0, whatever boosts
\* and decays them is not negative, and a power of the decay is no more than a lower
\* one; the first candidate of an author is not decayed.
ScoresDecay ==
    /\ ScoresAreInts
    /\ \A l \in Lists : \A i \in DOMAIN l : l[i].quality \in Nat
    /\ \A x \in Nat : Boosted(x) \in Nat /\ Decayed(x, 0) = x
    /\ \A x \in Nat, m \in Nat, n \in Nat : m <= n => Decayed(x, n) <= Decayed(x, m)

\* What the scorers make of the weighted score, one after the other.
Base(c) == IF c.network = "true" THEN c.quality ELSE Boosted(c.quality)
Worth(s, c) == IF pipe.diversity THEN Decayed(Base(c), Position(s, c)) ELSE Base(c)

RankInv ==
    /\ \A c \in candidates : c.quality \in Nat
    /\ stage = "score" /\ pos = 2 => \A c \in candidates : c.weighted = c.quality
    /\ stage = "score" /\ pos = 3 => pipe.diversity /\ \A c \in candidates : c.weighted = Base(c)
    /\ stage \in {"select", "replied"} => \A c \in candidates : c.weighted = Worth(candidates, c)
    /\ stage = "replied" => reply = TopK(candidates)

\* Scoring does not move a candidate among those of its author.
LEMMA PositionSame ==
    ASSUME NEW s, ListOK(s), NEW g \in [s -> Candidate], NEW t, t = {g[c] : c \in s},
           \A c \in s : g[c].at = c.at /\ g[c].id = c.id,
           NEW c \in s
    PROVE  Position(t, g[c]) = Position(s, c)
<1>. DEFINE A == {d \in s : AuthorOf[d.id] = AuthorOf[c.id] /\ d.at < c.at}
            B == {d \in t : AuthorOf[d.id] = AuthorOf[g[c].id] /\ d.at < g[c].at}
            h == [d \in A |-> g[d]]
<1>1. IsFiniteSet(A)
  BY FS_Subset DEF ListOK
<1>2. \A d \in A : g[d] \in B
  OBVIOUS
<1>3. \A x \in B : \E d \in A : x = g[d]
  OBVIOUS
<1>4. \A d, e \in A : g[d] = g[e] => d = e
  BY DEF ListOK, Places
<1>5. h \in Bijection(A, B)
  <2>. HIDE DEF A, B
  <2>1. h \in [A -> B] /\ \A x \in B : \E d \in A : h[d] = x
    BY <1>2, <1>3
  <2>2. h \in Injection(A, B)
    BY <1>4, <2>1 DEF Injection, IsInjective
  <2>. QED  BY <2>1, <2>2 DEF Bijection, Surjection
<1>6. Cardinality(B) = Cardinality(A)
  <2>1. ExistsBijection(A, B)
    BY <1>5 DEF ExistsBijection
  <2>. HIDE DEF A, B
  <2>. QED  BY <1>1, <2>1, FS_Bijection
<1>. QED  BY <1>6 DEF Position

LEMMA RankInit == Init => RankInv
BY DEF Init, RankInv

LEMMA RankFilter ==
    ASSUME IInv, TypesInv, RankInv, ApplyFilter
    PROVE  RankInv'
<1>1. stage = "filter" /\ candidates' = Kept(Filters[pos], candidates)
      /\ (stage' = "filter" \/ (stage' = "score" /\ pos' = 1))
  BY DEF ApplyFilter
<1>2. pos \in 1 .. 8
  BY <1>1 DEF IInv, ServiceInv
<1>3. \A c \in Kept(Filters[pos], candidates) : \E d \in candidates : c.quality = d.quality
  <2>1. CASE pos = 8
    <3>1. Kept(Filters[pos], candidates) = DedupConversation(candidates)
      BY <2>1 DEF Kept, Filters
    <3>. QED  BY <3>1 DEF DedupConversation, TypesInv, ListOK, Candidate
  <2>2. CASE pos # 8
    <3>1. Filters[pos] \in {"Age", "DropDuplicates", "PreviouslySeen", "PreviouslyServed", "SelfTweet",
                            "MutedKeyword", "RetweetDeduplication"}
      BY <1>2, <2>2 DEF Filters
    <3>2. Kept(Filters[pos], candidates) \subseteq candidates
      BY <3>1 DEF Kept, Age, DropDuplicates, PreviouslySeen, PreviouslyServed, SelfTweet,
                  MutedKeyword, RetweetDeduplication
    <3>. QED  BY <3>2
  <2>. QED  BY <2>1, <2>2
<1>. QED  BY <1>1, <1>3 DEF RankInv

LEMMA RankScore ==
    ASSUME ScoresDecay, IInv, TypesInv, RankInv, ApplyScorer
    PROVE  RankInv'
<1>. DEFINE f == Scorers[pos]
            s == candidates
            g == ScorerOf(f, s)
<1>1. /\ stage = "score" /\ candidates' = Scored(f, s) /\ pipe' = pipe
      /\ \/ stage' = "select" /\ pos = Len(Scorers)
         \/ stage' = "score" /\ pos' = pos + 1 /\ pos # Len(Scorers)
  BY DEF ApplyScorer, service
<1>2. /\ pos \in 1 .. Len(Scorers) /\ Len(Scorers) = IF pipe.diversity THEN 3 ELSE 2
      /\ f = IF pos = 1 THEN "Weighted" ELSE IF pos = 2 THEN "OON" ELSE "AuthorDiversity"
  BY <1>1 DEF IInv, ServiceInv, Scorers
<1>3. f \in {"Weighted", "OON", "AuthorDiversity"} /\ ListOK(s) /\ s \subseteq Candidate
  BY <1>2 DEF TypesInv, ListOK
<1>4. /\ candidates' = {g[c] : c \in s} /\ g \in [s -> Candidate]
      /\ \A c \in s : g[c].at = c.at /\ g[c].id = c.id /\ g[c].quality = c.quality
  BY <1>1, <1>3, ScorerIs DEF ScoresDecay
<1>. HIDE DEF f
<1>5. \A c \in candidates' : c.quality \in Nat
  <2>. HIDE DEF g
  <2>. QED  BY <1>4 DEF RankInv
<1>6. CASE pos = 1
  <2>1. \A c \in s : g[c].weighted = g[c].quality
    BY <1>2, <1>3, <1>6 DEF ScorerOf, Candidate
  <2>2. stage' = "score" /\ pos' = 2
    BY <1>1, <1>2, <1>6
  <2>. HIDE DEF g
  <2>. QED  BY <1>4, <1>5, <2>1, <2>2 DEF RankInv
<1>7. CASE pos = 2
  <2>1. \A c \in s : c.weighted = c.quality
    BY <1>1, <1>7 DEF RankInv
  <2>2. \A c \in s : g[c].weighted = Base(g[c])
    BY <1>2, <1>3, <1>7, <2>1 DEF ScorerOf, Candidate, Base
  <2>3. \/ stage' = "score" /\ pos' = 3 /\ pipe.diversity
        \/ stage' = "select" /\ ~pipe.diversity
    BY <1>1, <1>2, <1>7
  <2>. HIDE DEF g
  <2>4. \A c \in candidates' : c.weighted = Base(c)
    BY <1>4, <2>2
  <2>. QED  BY <1>1, <1>5, <2>3, <2>4 DEF RankInv, Worth
<1>8. CASE pos = 3
  <2>1. pipe.diversity /\ \A c \in s : c.weighted = Base(c)
    BY <1>1, <1>8 DEF RankInv
  <2>2. \A c \in s : g[c].weighted = Decayed(Base(c), Position(s, c)) /\ Base(g[c]) = Base(c)
    <3>. SUFFICES ASSUME NEW c \in s
                  PROVE  g[c].weighted = Decayed(Base(c), Position(s, c)) /\ Base(g[c]) = Base(c)
      OBVIOUS
    <3>1. g[c] = [c EXCEPT !.weighted = Decayed(@, Position(s, c)),
                           !.score = Decayed(c.weighted, Position(s, c))]
      BY <1>2, <1>8 DEF ScorerOf
    <3>2. c \in Candidate /\ c.weighted = Base(c)
      BY <1>3, <2>1
    <3>. HIDE DEF g
    <3>3. /\ g[c].weighted = Decayed(c.weighted, Position(s, c))
          /\ g[c].network = c.network /\ g[c].quality = c.quality
      BY <3>1, <3>2 DEF Candidate
    <3>. QED  BY <3>2, <3>3 DEF Base
  <2>. HIDE DEF g
  <2>3. \A c \in s : Position(candidates', g[c]) = Position(s, c)
    BY <1>3, <1>4, PositionSame
  <2>4. \A c \in s : g[c].weighted = Decayed(Base(g[c]), Position(candidates', g[c]))
    BY <2>2, <2>3
  <2>5. stage' = "select"
    BY <1>1, <1>2, <1>8, <2>1
  <2>6. \A c \in candidates' : c.weighted = Decayed(Base(c), Position(candidates', c))
    BY <1>4, <2>4
  <2>. QED  BY <1>1, <1>5, <2>1, <2>5, <2>6 DEF RankInv, Worth
<1>. QED  BY <1>2, <1>6, <1>7, <1>8

LEMMA RankElsewhere ==
    ASSUME ScoresDecay, IInv, TypesInv, RankInv, [Next]_vars, ~ApplyFilter, ~ApplyScorer
    PROVE  RankInv'
<1>1. CASE FetchFromSources
  <2>1. stage' = "filter"
    BY <1>1 DEF FetchFromSources
  <2>2. \A c \in candidates' : c.quality \in Nat
    <3>1. \A c \in candidates' :
             c.quality = 0 \/ \E l \in Lists : \E i \in DOMAIN l : c.quality = l[i].quality
      BY <1>1, Fetched DEF TypesInv, TypeOK
    <3>. QED  BY <3>1 DEF ScoresDecay
  <2>. QED  BY <2>1, <2>2 DEF RankInv
<1>2. CASE SelectAndReply
  <2>1. reply' = TopK(candidates) /\ stage = "select" /\ stage' = "replied"
        /\ UNCHANGED <<pipe, candidates, limit>>
    BY <1>2 DEF SelectAndReply, service
  <2>2. TopK(candidates)' = TopK(candidates)
    BY <2>1 DEF TopK
  <2>. QED  BY <2>1, <2>2 DEF RankInv, Worth
<1>3. ASSUME NEW q \in Requests, NEW c \in Configs, Begin(q, c) PROVE RankInv'
  BY <1>3 DEF Begin, RankInv
<1>4. CASE \/ \E c \in Configs : Create(c) \/ UpdateConfig(c)
           \/ CheckHealth \/ Reset \/ AddSource
           \/ FetchThrows \/ FilterThrows \/ Tick \/ UNCHANGED vars
  <2>1. UNCHANGED <<candidates, reply, limit, pos>>
    BY <1>4 DEF Create, UpdateConfig, CheckHealth, Reset, AddSource, FetchThrows, FilterThrows, Tick,
                vars, Rest, request
  <2>2. stage' \in {"idle", "thrown"} \/ (stage' = stage /\ pipe'.diversity = pipe.diversity)
    BY <1>4 DEF Create, UpdateConfig, CheckHealth, Reset, AddSource, FetchThrows, FilterThrows, Tick,
                vars, service, TypesInv, TypeOK
  <2>3. TopK(candidates)' = TopK(candidates)
    BY <2>1 DEF TopK
  <2>. QED  BY <2>1, <2>2, <2>3 DEF RankInv, Worth
<1>. QED  BY <1>1, <1>2, <1>3, <1>4 DEF Next

\* What the invariant says of a reply.
LEMMA RankedReply ==
    ASSUME ScoresDecay, TypesInv, RankInv
    PROVE  Ranked
<1>. SUFFICES ASSUME stage = "replied" PROVE Ranked
  BY DEF Ranked
<1>. DEFINE s == candidates
<1>1. reply = TopK(s) /\ ListOK(s) /\ limit \in Nat
  BY DEF RankInv, TypesInv, TypeOK
<1>2. \A c \in s : c.weighted = Worth(s, c) /\ c.quality \in Nat
  BY DEF RankInv
<1>3. \A c \in s : Base(c) \in Nat /\ Position(s, c) \in Nat
  BY <1>1, <1>2, PositionNat DEF Base, ScoresDecay, ListOK
<1>4. ASSUME pipe.diversity, NEW c \in s, NEW d \in s, AuthorOf[c.id] = AuthorOf[d.id],
             c.network = d.network, c.quality = d.quality, c.at < d.at
      PROVE  d.weighted <= c.weighted
  <2>. DEFINE A(x) == {y \in s : AuthorOf[y.id] = AuthorOf[x.id] /\ y.at < x.at}
  <2>1. \A y \in s : y.at \in Nat
    BY <1>1 DEF ListOK, Candidate
  <2>2. A(c) \in SUBSET A(d) /\ IsFiniteSet(A(d))
    BY <1>1, <1>4, <2>1, FS_Subset DEF ListOK
  <2>3. Position(s, c) <= Position(s, d)
    BY <2>2, FS_Subset DEF Position
  <2>4. Base(c) = Base(d)
    BY <1>4 DEF Base
  <2>5. Decayed(Base(d), Position(s, d)) <= Decayed(Base(c), Position(s, c))
    BY <1>3, <2>3, <2>4 DEF ScoresDecay
  <2>. QED  BY <1>2, <1>4, <2>5 DEF Worth
<1>5. ASSUME NEW c \in s, \A d \in s : d.at < c.at => AuthorOf[d.id] # AuthorOf[c.id]
      PROVE  c.weighted = IF c.network = "true" THEN c.quality ELSE Boosted(c.quality)
  <2>1. {d \in s : AuthorOf[d.id] = AuthorOf[c.id] /\ d.at < c.at} = {}
    BY <1>5
  <2>2. Position(s, c) = 0
    BY <2>1, FS_EmptySet DEF Position
  <2>3. Decayed(Base(c), 0) = Base(c)
    BY <1>3 DEF ScoresDecay
  <2>4. c.weighted = Base(c)
    BY <1>2, <2>2, <2>3 DEF Worth
  <2>. QED  BY <2>4 DEF Base
<1>6. /\ Cardinality(reply) = IF Cardinality(s) < limit THEN Cardinality(s) ELSE limit
      /\ {c.at : c \in reply} = 1 .. Cardinality(reply)
      /\ \A c, d \in reply : c.at < d.at => c.weighted >= d.weighted
      /\ \A c \in reply, d \in s : d.id \notin Ids(reply) => c.weighted >= d.weighted
  BY <1>1, TopKIs
<1>. QED  BY <1>4, <1>5, <1>6 DEF Ranked

\* The reply is the front of the candidates in descending order of what the scorers
\* made of them; nobody left out is worth more, and a later candidate of an author is
\* never put before an earlier one that was weighed the same.
THEOREM PhpRanked == ASSUME ScoresDecay PROVE Spec => []Ranked
<1>1. IInv /\ TypesInv /\ RankInv /\ [Next]_vars => RankInv'
  BY RankFilter, RankScore, RankElsewhere
<1>2. TypesInv /\ RankInv => Ranked
  BY RankedReply
<1>3. Spec => []TypesInv
  BY PhpTypesInvariant DEF ScoresDecay
<1>. QED  BY <1>1, <1>2, <1>3, PhpInit, PhpInductive, RankInit, PTL DEF Spec
=============================================================================
