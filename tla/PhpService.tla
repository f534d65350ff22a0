------------------------------ MODULE PhpService ------------------------------
(***************************************************************************)
(* The recommendation service of the PHP port: the static service behind    *)
(* Algorithm, its pipeline of sources, filters, scorers and a selector, and *)
(* the requests it answers, one after the other, in one process.  An        *)
(* application may also hold a HomeMixerService of its own: it then makes   *)
(* it as Create does and reaches its updateConfig, its pipeline and its     *)
(* getRecommendations.  Between two requests the service keeps its          *)
(* configuration, its pipeline, and the memory of DropDuplicatesFilter.     *)
(*                                                                         *)
(* A list of candidates is the set of its members, each with its place in   *)
(* the list.  What a post says of itself (author, retweeted post, parent,   *)
(* ancestors, time of its snowflake id, text) are constant functions.       *)
(* Abstracted: scores are integers, and the arithmetic on them is Boosted   *)
(* and Decayed; a filter reads the clock once for all candidates.           *)
(***************************************************************************)
EXTENDS Integers, Sequences, FiniteSets

CONSTANTS
    Post, User,
    AuthorOf, BornAt, MutedText,
    RetweetOf, ReplyTo, LeastAncestor,   \* 0 for "none"
    Scores,          \* the retrieval scores, 0 also standing for null
    MockPosts,       \* what MockPhoenixClient makes up, in this order
    MockLimit,       \* the limit PhoenixSource asks for
    Lists,           \* what a source of the application may return
    Requests, Configs, DefaultConfig,
    Boosted(_),      \* a score times oon_boost_factor
    Decayed(_, _),   \* a score times a power of diversity_decay_factor
    Horizon, MaxRequests

VARIABLES
    built,        \* Algorithm::$service is set
    config,       \* its config
    pipe,         \* what its pipeline was built with, and whether a source was added to it
    seenIds,      \* the memory of its DropDuplicatesFilter
    stage, pos,   \* where execute is
    query, limit, candidates, reply,
    now,          \* seconds
    \* not in the code: the candidates fetched for the request, its time and the
    \* memory when it began, the posts this service ever replied, the bound
    offered, began, before, shown, requests

service == <<built, config, pipe, seenIds>>
history == <<offered, began, before, shown, requests>>
request == <<query, limit, reply>>
vars == <<service, stage, pos, request, candidates, now, history>>

Config == [limit : Nat, maxAge : Nat, diversity : BOOLEAN]
Query == [user : User, seen : SUBSET Post, served : SUBSET Post, bottom : BOOLEAN,
          muted : {"none", "words", "malformed"}]
Candidate == [id : Post, at : Nat, network : {"none", "true", "false"},
              score : Int, quality : Int, weighted : Int]

\* A candidate as a source makes it.
Sourced == [id : Post, network : {"none", "true", "false"}, score : Int, quality : Int]

ASSUME PhpAssumption ==
    /\ BornAt \in [Post -> Int]
    /\ Scores \subseteq Int
    /\ MockLimit \in Nat /\ MockPosts \in Seq(Post) /\ 2 * MockLimit <= Len(MockPosts)
    /\ Lists \subseteq Seq(Sourced)
    /\ Requests \subseteq Query /\ Configs \subseteq Config /\ DefaultConfig \in Config
    /\ MaxRequests \in Nat

Ids(s) == {c.id : c \in s}
Idle == stage \in {"idle", "replied", "thrown"}

-----------------------------------------------------------------------------
(* The pipeline. *)

\* Mutant of Listed: the places of the second list run from 1 again.
MutListed(l, n) ==
    {[id |-> l[i].id, at |-> i, network |-> l[i].network, score |-> l[i].score,
      quality |-> l[i].quality, weighted |-> 0] : i \in DOMAIN l}

\* A list that follows the first n candidates.
Listed(l, n) ==
    {[id |-> l[i].id, at |-> n + i, network |-> l[i].network, score |-> l[i].score,
      quality |-> l[i].quality, weighted |-> 0] : i \in DOMAIN l}

MockSize(q) == IF q.bottom THEN 2 * MockLimit ELSE MockLimit

\* The client makes up the same ids for everybody and draws the scores.
PhoenixSource(q) ==
    {[i \in 1 .. MockSize(q) |->
        [id |-> MockPosts[i], network |-> "false", score |-> score[i], quality |-> 0]] :
     score \in [1 .. MockSize(q) -> Scores]}

Filters == <<"Age", "DropDuplicates", "PreviouslySeen", "PreviouslyServed", "SelfTweet",
             "MutedKeyword", "RetweetDeduplication", "DedupConversation">>
Scorers ==
    IF pipe.diversity THEN <<"Weighted", "OON", "AuthorDiversity">> ELSE <<"Weighted", "OON">>

\* An id from the future has no age and is dropped too.
Age(s) == {c \in s : BornAt[c.id] <= now /\ now - BornAt[c.id] <= pipe.maxAge}

DropDuplicates(s) ==
    {c \in s : c.id \notin query.seen \union seenIds /\ \A d \in s : d.id = c.id => c.at <= d.at}

\* Mutant of PreviouslyServed: a copy of the filter before it.
MutPreviouslyServed(s) == {c \in s : c.id \notin query.seen}

PreviouslySeen(s) == {c \in s : c.id \notin query.seen}
PreviouslyServed(s) == {c \in s : c.id \notin query.served}

\* Who wrote what a candidate shows.
LookupAuthor(p) == IF RetweetOf[p] = 0 THEN AuthorOf[p] ELSE AuthorOf[RetweetOf[p]]
SelfTweet(s) == {c \in s : LookupAuthor(c.id) # query.user}

MutedKeyword(s) == {c \in s : query.muted = "words" => c.id \notin MutedText}

Subject(p) == IF RetweetOf[p] = 0 THEN p ELSE RetweetOf[p]
\* Only retweets are removed, when what they show was shown before.
RetweetDeduplication(s) ==
    {c \in s : RetweetOf[c.id] = 0 \/ \A d \in s : d.at < c.at => Subject(d.id) # RetweetOf[c.id]}

\* getConversationId: the parent a post names comes before its ancestors, so the posts of
\* one thread may have different keys, a reply to a reply another one than its thread's
\* first post.
ConversationOf(p) ==
    IF ReplyTo[p] # 0 THEN ReplyTo[p] ELSE IF LeastAncestor[p] # 0 THEN LeastAncestor[p] ELSE p

Mates(s, c) == {d \in s : ConversationOf(d.id) = ConversationOf(c.id)}
\* Mutant of Best: the worst one.
MutBest(s, c) == \A d \in Mates(s, c) : d.score > c.score \/ (d.score = c.score /\ c.at <= d.at)

\* The first of the best scored of those with its key.
Best(s, c) == \A d \in Mates(s, c) : d.score < c.score \/ (d.score = c.score /\ c.at <= d.at)

\* The best takes the place of the first.
DedupConversation(s) ==
    {[c EXCEPT !.at = CHOOSE n \in {d.at : d \in Mates(s, c)} : \A d \in Mates(s, c) : n <= d.at] :
     c \in {c \in s : Best(s, c)}}

Kept(f, s) ==
    CASE f = "Age" -> Age(s)
      [] f = "DropDuplicates" -> DropDuplicates(s)
      [] f = "PreviouslySeen" -> PreviouslySeen(s)
      [] f = "PreviouslyServed" -> PreviouslyServed(s)
      [] f = "SelfTweet" -> SelfTweet(s)
      [] f = "MutedKeyword" -> MutedKeyword(s)
      [] f = "RetweetDeduplication" -> RetweetDeduplication(s)
      [] f = "DedupConversation" -> DedupConversation(s)

\* The weighted score replaces the retrieval score.
Weighted(s) == {[c EXCEPT !.weighted = c.quality, !.score = c.quality] : c \in s}
OON(s) ==
    {IF c.network = "true"
     THEN c
     ELSE [c EXCEPT !.weighted = Boosted(@), !.score = Boosted(c.weighted), !.network = "false"] :
     c \in s}

\* Mutant of Position: all authors share one count.
MutPosition(s, c) == Cardinality({d \in s : d.at < c.at})

\* How many candidates of its author come before c, in the order of the list.
Position(s, c) == Cardinality({d \in s : AuthorOf[d.id] = AuthorOf[c.id] /\ d.at < c.at})
AuthorDiversity(s) ==
    {[c EXCEPT !.weighted = Decayed(@, Position(s, c)),
               !.score = Decayed(c.weighted, Position(s, c))] : c \in s}

Scored(f, s) ==
    CASE f = "Weighted" -> Weighted(s)
      [] f = "OON" -> OON(s)
      [] f = "AuthorDiversity" -> AuthorDiversity(s)

\* The stable sort by descending score.
Ahead(s, c) ==
    {d \in s : d.weighted > c.weighted \/ (d.weighted = c.weighted /\ d.at < c.at)}
TopK(s) ==
    {[c EXCEPT !.at = Cardinality(Ahead(s, c)) + 1] :
     c \in {c \in s : Cardinality(Ahead(s, c)) < limit}}

-----------------------------------------------------------------------------
(* The service. *)

\* A new service of configuration c, with a new pipeline and new filters.
Fresh(c) ==
    /\ config' = c
    /\ pipe' = [maxAge |-> c.maxAge, diversity |-> c.diversity, extended |-> FALSE]
    /\ seenIds' = {} /\ shown' = {}

Build(c) == built' = TRUE /\ Fresh(c)

Rest == <<pos, request, candidates, now, offered, began, before, requests>>

\* Algorithm::create replaces the service.
Create(c) == Idle /\ Build(c) /\ stage' = "idle" /\ UNCHANGED Rest

\* checkHealth makes one if there is none.
CheckHealth == Idle /\ ~built /\ Build(DefaultConfig) /\ stage' = "idle" /\ UNCHANGED Rest

\* Algorithm::reset; the variables of no service are those of a fresh one.
Reset == Idle /\ built' = FALSE /\ Fresh(DefaultConfig) /\ stage' = "idle" /\ UNCHANGED Rest

\* The pipeline is what it was built as, whatever the configuration becomes.
UpdateConfig(c) ==
    /\ Idle /\ built
    /\ config' = c
    /\ UNCHANGED <<built, pipe, seenIds, shown, stage, Rest>>

\* getPipeline()->addSource(...)
AddSource ==
    /\ Idle /\ built /\ ~pipe.extended
    /\ pipe' = [pipe EXCEPT !.extended = TRUE]
    /\ UNCHANGED <<built, config, seenIds, shown, stage, Rest>>

-----------------------------------------------------------------------------
(* A request. *)

\* getService uses the options only if it has to build the service.
Begin(q, options) ==
    /\ Idle /\ requests < MaxRequests
    /\ IF built THEN UNCHANGED <<service, shown>> ELSE Build(options)
    /\ query' = q
    /\ limit' = config'.limit
    /\ candidates' = {} /\ reply' = {} /\ offered' = {}
    /\ stage' = "fetch" /\ pos' = 1
    /\ before' = seenIds' /\ began' = now
    /\ requests' = requests + 1
    /\ UNCHANGED now

\* ThunderSource has nothing; then PhoenixSource, then the application's source.
FetchFromSources ==
    /\ stage = "fetch"
    /\ \E mock \in PhoenixSource(query), l \in IF pipe.extended THEN Lists ELSE {<<>>} :
        candidates' = Listed(mock, 0) \union Listed(l, Len(mock))
    /\ offered' = candidates'
    /\ stage' = "filter" /\ pos' = 1
    /\ UNCHANGED <<service, request, now, began, before, shown, requests>>

\* Nothing catches what an application's source throws.
FetchThrows ==
    /\ stage = "fetch" /\ pipe.extended
    /\ stage' = "thrown"
    /\ UNCHANGED <<service, pos, request, candidates, now, history>>

\* Mutant of Remember: the memory is replaced.
MutRemember(f, s) == IF f = "DropDuplicates" THEN Ids(s) ELSE seenIds

Remember(f, s) == IF f = "DropDuplicates" THEN seenIds \union Ids(s) ELSE seenIds

\* A keyword that is not a string is a TypeError of stripos.
Malformed ==
    Filters[pos] = "MutedKeyword" /\ query.muted = "malformed" /\ candidates # {}

\* The filters after one that leaves nothing are not called.
ApplyFilter ==
    /\ stage = "filter" /\ ~Malformed
    /\ candidates' = Kept(Filters[pos], candidates)
    /\ seenIds' = Remember(Filters[pos], candidates')
    /\ IF candidates' = {} \/ pos = Len(Filters)
       THEN stage' = "score" /\ pos' = 1
       ELSE stage' = stage /\ pos' = pos + 1
    /\ UNCHANGED <<built, config, pipe, request, now, history>>

FilterThrows ==
    /\ stage = "filter" /\ Malformed
    /\ stage' = "thrown"
    /\ UNCHANGED <<service, pos, request, candidates, now, history>>

ApplyScorer ==
    /\ stage = "score"
    /\ candidates' = Scored(Scorers[pos], candidates)
    /\ IF pos = Len(Scorers) THEN stage' = "select" /\ pos' = 1 ELSE stage' = stage /\ pos' = pos + 1
    /\ UNCHANGED <<service, request, now, history>>

\* selectTopK, and the reply: nothing is registered to run after selection.
SelectAndReply ==
    /\ stage = "select"
    /\ reply' = TopK(candidates)
    /\ shown' = shown \union Ids(reply')
    /\ stage' = "replied"
    /\ UNCHANGED <<service, pos, query, limit, candidates, now, offered, began, before, requests>>

Tick ==
    /\ now < Horizon
    /\ now' = now + 1
    /\ UNCHANGED <<service, stage, pos, request, candidates, history>>

Init ==
    /\ built = FALSE
    /\ config = DefaultConfig
    /\ pipe = [maxAge |-> DefaultConfig.maxAge, diversity |-> DefaultConfig.diversity, extended |-> FALSE]
    /\ seenIds = {} /\ shown = {}
    /\ stage = "idle" /\ pos = 1
    /\ query \in Requests /\ limit = 0
    /\ candidates = {} /\ reply = {} /\ offered = {} /\ before = {}
    /\ now = 0 /\ began = 0 /\ requests = 0

Next ==
    \/ \E c \in Configs : Create(c) \/ UpdateConfig(c)
    \/ CheckHealth \/ Reset \/ AddSource
    \/ \E q \in Requests, c \in Configs : Begin(q, c)
    \/ FetchFromSources \/ FetchThrows \/ ApplyFilter \/ FilterThrows \/ ApplyScorer \/ SelectAndReply
    \/ Tick

Spec == Init /\ [][Next]_vars

-----------------------------------------------------------------------------
Places(s) == \A c, d \in s : c.at = d.at => c = d

\* Candidates keep their places apart, and replies are numbered from 1.
TypeOK ==
    /\ built \in BOOLEAN /\ config \in Config
    /\ pipe \in [maxAge : Nat, diversity : BOOLEAN, extended : BOOLEAN]
    /\ stage \in {"idle", "fetch", "filter", "score", "select", "replied", "thrown"}
    /\ pos \in 1 .. Len(Filters)
    /\ query \in Query /\ limit \in Nat
    /\ candidates \in SUBSET Candidate /\ Places(candidates)
    /\ offered \in SUBSET Candidate /\ Places(offered)
    /\ reply \in SUBSET Candidate
    /\ seenIds \in SUBSET Post /\ before \in SUBSET Post /\ shown \in SUBSET Post
    /\ now \in Nat /\ began \in Nat /\ requests \in 0 .. MaxRequests

\* What eight filters in a row, some of which reorder or look back, leave in a
\* reply: no post twice, one post for each conversation key (ConversationOf, which is
\* less than one for each thread), one retweet of a post;
\* nothing the client says was seen or served, nothing the user wrote, no muted
\* keyword, nothing from the future or beyond the age the pipeline was built
\* with (as of the beginning of the request).
ServedEligible ==
    stage = "replied" =>
        /\ \A c, d \in reply :
            /\ c.id = d.id => c = d
            /\ ConversationOf(c.id) = ConversationOf(d.id) => c = d
            /\ RetweetOf[c.id] # 0 /\ RetweetOf[c.id] = RetweetOf[d.id] => c = d
        /\ \A c \in reply :
            /\ c.id \notin query.seen \union query.served
            /\ LookupAuthor(c.id) # query.user
            /\ query.muted = "words" => c.id \notin MutedText
            /\ query.muted # "malformed"
            /\ BornAt[c.id] <= now /\ began - BornAt[c.id] <= pipe.maxAge

\* One service never replies a post again, to whomever, whatever was thrown or
\* reconfigured in between.
NeverAgain == [][stage' = "replied" /\ stage # "replied" => Ids(reply') \intersect shown = {}]_vars

\* Whether a candidate may be dropped for what it is.
Ineligible(p) ==
    \/ p \in query.seen \union query.served \/ LookupAuthor(p) = query.user
    \/ query.muted = "words" /\ p \in MutedText
    \/ BornAt[p] > began \/ now - BornAt[p] > pipe.maxAge

\* What the filters drop was ineligible, or remembered from before, or stands
\* behind a candidate that is left and scored at least as well: one with its
\* conversation key, or with that of an earlier candidate that is the same post or is
\* shown by it.
NothingWithoutReason ==
    stage = "score" /\ pos = 1 =>
        \A o \in offered :
            \/ Ineligible(o.id)
            \/ o.id \in before
            \/ \E e \in offered, c \in candidates :
                /\ e = o \/ (e.at < o.at /\ (e.id = o.id \/ Subject(e.id) = RetweetOf[o.id]))
                /\ ConversationOf(c.id) = ConversationOf(e.id) /\ e.score <= c.score

\* The reply is the front of the candidates in descending order of their weighted
\* score, ties in the order of the sources; with diversity, the k-th of an author is
\* decayed k times, counted in that order.
Ranked ==
    stage = "replied" =>
        /\ Cardinality(reply) = IF Cardinality(candidates) < limit THEN Cardinality(candidates) ELSE limit
        /\ {c.at : c \in reply} = 1 .. Cardinality(reply)
        /\ \A c, d \in reply : c.at < d.at => c.weighted >= d.weighted
        /\ \A c \in reply, d \in candidates : d.id \notin Ids(reply) => c.weighted >= d.weighted
        /\ \A c, d \in candidates :
            /\ pipe.diversity /\ AuthorOf[c.id] = AuthorOf[d.id] /\ c.network = d.network
            /\ c.quality = d.quality /\ c.at < d.at
            => d.weighted <= c.weighted
        /\ \A c \in candidates :
            /\ \A d \in candidates : d.at < c.at => AuthorOf[d.id] # AuthorOf[c.id]
            => c.weighted = IF c.network = "true" THEN c.quality ELSE Boosted(c.quality)

\* DropDuplicatesFilter "removes duplicate posts": what it removes is still in the
\* list, or was seen according to the request.
OnlyDuplicatesDropped ==
    [][stage = "filter" /\ Filters[pos] = "DropDuplicates" =>
        Ids(candidates) \subseteq Ids(candidates') \union query.seen]_vars
=============================================================================
