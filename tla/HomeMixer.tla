------------------------------ MODULE HomeMixer ------------------------------
(***************************************************************************)
(* The "For You" pipeline: CandidatePipeline with the components of        *)
(* home-mixer/, in the order build_with_clients lists them, against remote *)
(* services that may fail.  The constants are what the services know.      *)
(*                                                                         *)
(* Post ids are numbers, as the conversation root is the least ancestor.   *)
(* Abstracted: the text of a post (whether it is blank, whether the        *)
(* viewer's muted keywords match), the predictions of the ranking model    *)
(* (one number per post) and the arithmetic of the weights, which are not  *)
(* in the repository.                                                      *)
(***************************************************************************)
EXTENDS Integers, Sequences, FiniteSets

CONSTANTS
    Post, User, Viewer,
    \* what the services know about posts; 0 stands for "none"
    AuthorOf, RetweetOf, ReplyTo, SubscriptionOf,
    RootOf,          \* the first post of the post's conversation
    Rootless,        \* replies whose event named no conversation
    Lost,            \* posts the tweet entity service does not know
    Old,             \* posts beyond MAX_POST_AGE
    MutedText,       \* posts whose text matches the viewer's muted keywords
    Long,            \* posts with a video above MIN_VIDEO_DURATION_MS
    Violating,       \* posts visibility filtering says to drop
    Prediction,      \* the ranking model, -1 where it has none
    \* what they know about the viewer
    Followed, Blocked, Muted, Subscribed,
    \* what the two sources may return, and what requests may say
    ThunderPosts, PhoenixLists, Requests,
    \* the parameters
    Weigh(_, _),     \* prediction, long: weighted and normalised score
    Multiplier,      \* the author diversity factors by position, down to the floor
    OonFactor, InFactor,   \* OON_WEIGHT_FACTOR is OonFactor / InFactor
    TopK, ResultSize,
    \* the errors: of a call; of either call to the visibility service
    Failed, InFailed, OutFailed

VARIABLES stage, pos, asked, answers, query, candidates, retrieved, filtered, reply, effects
vars == <<stage, pos, asked, answers, query, candidates, retrieved, filtered, reply, effects>>

NoScore == -1000   \* NEG_INFINITY, where a score is None

Option(S) == S \union {0}
Predicted == {Prediction[p] : p \in Post} \union {-1}

\* PostCandidate, but for the fields nothing below depends on.
Candidate ==
    [id : Post, author : User, text : BOOLEAN, rt : Option(Post), rtuser : Option(User),
     ancestors : SUBSET Post, in_network : {"none", "true", "false"},
     subscription : Option(User), long : BOOLEAN, author_name : BOOLEAN, rt_name : BOOLEAN,
     prediction : Predicted, weighted : Int, score : Int, visibility : {"none", "keep", "drop"}]

\* A conversation's first post is the oldest of it, and ids grow with time.  Weighted
\* scores are not negative: that is what offset_score is for.  An error is none of the
\* answers that cannot fail.
ASSUME HomeMixerAssumption ==
    /\ Post \subseteq Nat \ {0} /\ User \subseteq Nat \ {0} /\ Viewer \in User
    /\ AuthorOf \in [Post -> User] /\ RetweetOf \in [Post -> Option(Post)]
    /\ ReplyTo \in [Post -> Option(Post)] /\ RootOf \in [Post -> Post]
    /\ Rootless \subseteq Post
    /\ \A p \in Post :
        /\ RootOf[RootOf[p]] = RootOf[p]
        /\ IF ReplyTo[p] = 0 THEN RootOf[p] = p
           ELSE RootOf[ReplyTo[p]] = RootOf[p] /\ RootOf[p] <= ReplyTo[p]
    /\ SubscriptionOf \in [Post -> Option(User)] /\ Prediction \in [Post -> Int]
    /\ ThunderPosts \subseteq Post /\ IsFiniteSet(ThunderPosts) /\ PhoenixLists \subseteq Seq(Post)
    /\ Requests \subseteq [in_network_only : BOOLEAN, bottom : BOOLEAN,
                            seen : SUBSET Post, served : SUBSET Post]
    /\ \A x \in Predicted, long \in BOOLEAN : Weigh(x, long) \in Nat
    /\ Multiplier \in Seq(Nat \ {0}) /\ Multiplier # <<>>
    /\ \A i, j \in DOMAIN Multiplier : i <= j => Multiplier[i] >= Multiplier[j]
    /\ OonFactor \in Nat \ {0} /\ InFactor \in Nat \ {0}
    /\ TopK \in Nat /\ ResultSize \in Nat
    /\ \A e \in {Failed, InFailed, OutFailed} :
        /\ e \notin Seq(Int) /\ e \notin Seq({"true", "false"})
        /\ e \notin [kept : Seq(Candidate), removed : Seq(Candidate)]

\* A candidate as its source makes it.
Sourced(p, ancestors) ==
    [id |-> p, author |-> AuthorOf[p], text |-> FALSE, rt |-> 0, rtuser |-> 0,
     ancestors |-> ancestors, in_network |-> "none", subscription |-> 0, long |-> FALSE,
     author_name |-> FALSE, rt_name |-> FALSE, prediction |-> -1, weighted |-> NoScore,
     score |-> NoScore, visibility |-> "none"]

\* ScoredPostsQuery: the request, and what the query hydrators add.
Query == [actions : BOOLEAN, features : BOOLEAN, in_network_only : BOOLEAN, bottom : BOOLEAN,
          seen : SUBSET Post, served : SUBSET Post]
Request == {[actions |-> FALSE, features |-> FALSE, in_network_only |-> r.in_network_only,
             bottom |-> r.bottom, seen |-> r.seen, served |-> r.served] : r \in Requests}

\* user_features: the default, until they are hydrated.
Feature(q, F) == IF q.features THEN F ELSE {}

Map(s, Op(_)) == [i \in DOMAIN s |-> Op(s[i])]

\* The members of a finite set of numbers in their order, and in reverse.
Ascending(S) ==
    [k \in 1 .. Cardinality(S) |-> CHOOSE x \in S : Cardinality({y \in S : y < x}) = k - 1]
Descending(S) == [k \in 1 .. Cardinality(S) |-> Ascending(S)[Cardinality(S) + 1 - k]]

-----------------------------------------------------------------------------
(* Query hydrators: each fills its part of the query, or fails. *)

\* Also fails if no actions are left after aggregation and filtering.
UserActionSeq == {TRUE, Failed}
UserFeatures == {TRUE, Failed}

-----------------------------------------------------------------------------
(* Sources. *)

\* The ancestors thunder tells of a reply: its parent, and the conversation's first
\* post if its event named the conversation.
\* Mutant of Ancestors: a missing parent counts as post 0.
MutAncestors(p) == {ReplyTo[p]} \union IF ReplyTo[p] = 0 \/ p \in Rootless THEN {} ELSE {RootOf[p]}

Ancestors(p) ==
    IF ReplyTo[p] = 0 THEN {}
    ELSE {ReplyTo[p]} \union IF p \in Rootless THEN {} ELSE {RootOf[p]}

\* Recent posts of the accounts the query says the viewer follows, newest first.
ThunderSource(q) ==
    LET visible == {p \in ThunderPosts : AuthorOf[p] \in Feature(q, Followed)}
    IN  {Map(Descending(S), LAMBDA p : Sourced(p, Ancestors(p))) :
            S \in SUBSET visible}

\* Retrieval needs the action sequence; it tells nothing of ancestors.
PhoenixSource(q) ==
    IF q.actions THEN {Map(l, LAMBDA p : Sourced(p, {})) : l \in PhoenixLists} ELSE {}

-----------------------------------------------------------------------------
(* Hydrators: what each answers for a candidate, and what update copies. *)

InNetwork(q, c) == IF c.author \in Feature(q, Followed) \union {Viewer} THEN "true" ELSE "false"

\* The author's id is answered too, but update does not copy it.
CoreData(c) ==
    IF c.id \in Lost
    THEN [text |-> FALSE, rt |-> 0, rtuser |-> 0]
    ELSE [text |-> TRUE, rt |-> RetweetOf[c.id],
          rtuser |-> IF RetweetOf[c.id] = 0 THEN 0 ELSE AuthorOf[RetweetOf[c.id]]]

VideoDuration(c) == c.id \in Long
Subscription(c) == SubscriptionOf[c.id]

\* Names of the author and of the retweeted user, as far as the snapshot knows them.
Gizmoduck(c) == [author_name |-> TRUE, rt_name |-> c.rtuser # 0]

Visibility(c) == IF c.id \in Violating THEN "drop" ELSE "keep"

\* One call for the posts in the network and one for the others, each made only
\* if there are any: one error is enough to lose both answers.
VFErrors(s) ==
    {e \in {InFailed, OutFailed} :
        \E i \in DOMAIN s : (s[i].in_network = "true") = (e = InFailed)}

-----------------------------------------------------------------------------
(* Filters: partitions of the candidates. *)

\* The subsequence of s at the indices I.
At(s, I) == Map(Ascending(I), LAMBDA i : s[i])
KeepAt(s, I) == [kept |-> At(s, I), removed |-> At(s, DOMAIN s \ I)]
Keep(s, Test(_)) == KeepAt(s, {i \in DOMAIN s : Test(s[i])})

\* Mutant of DropDuplicates: the first of several is lost.
MutDropDuplicates(s) ==
    [kept |-> At(s, {i \in DOMAIN s : \A j \in DOMAIN s \ {i} : s[j].id # s[i].id}),
     removed |-> At(s, {i \in DOMAIN s : \E j \in 1 .. i - 1 : s[j].id = s[i].id})]

DropDuplicates(s) == KeepAt(s, {i \in DOMAIN s : \A j \in 1 .. i - 1 : s[j].id # s[i].id})

\* The tweet a candidate shows.
Subject(c) == IF c.rt = 0 THEN c.id ELSE c.rt

\* Only retweets are removed, when their tweet was shown before.
RetweetDeduplication(s) ==
    KeepAt(s, {i \in DOMAIN s : s[i].rt = 0 \/ \A j \in 1 .. i - 1 : Subject(s[j]) # s[i].rt})

Related(c) == {c.id, c.rt} \ {0}
\* Mutant of PreviouslySeen: the retweeted post is not looked up.
MutPreviouslySeen(s, q) == Keep(s, LAMBDA c : c.id \notin q.seen)

PreviouslySeen(s, q) == Keep(s, LAMBDA c : Related(c) \intersect q.seen = {})
PreviouslyServed(s, q) == Keep(s, LAMBDA c : Related(c) \intersect q.served = {})

\* author_id is checked too, but a source never leaves it out.
CoreDataHydration(s) == Keep(s, LAMBDA c : c.text)

Age(s) == Keep(s, LAMBDA c : c.id \notin Old)
SelfTweet(s) == Keep(s, LAMBDA c : c.author # Viewer)
IneligibleSubscription(s, q) ==
    Keep(s, LAMBDA c : c.subscription # 0 => c.subscription \in Feature(q, Subscribed))
MutedKeyword(s, q) == Keep(s, LAMBDA c : c.id \notin Feature(q, MutedText))
AuthorSocialgraph(s, q) == Keep(s, LAMBDA c : c.author \notin Feature(q, Blocked \union Muted))
VF(s) == Keep(s, LAMBDA c : c.visibility # "drop")

\* The conversation as the filter tells it: by the least of the ancestors the source
\* named.  A reply whose source named none is a conversation of its own.
Conversation(c) ==
    IF c.ancestors = {} THEN c.id ELSE CHOOSE a \in c.ancestors : \A b \in c.ancestors : a <= b
ScoreOrZero(c) == IF c.score = NoScore THEN 0 ELSE c.score

\* Mutant of Dedup: the worse candidate takes the place.
MutDedup(r, c) ==
    LET same == {k \in DOMAIN r.kept : Conversation(r.kept[k]) = Conversation(c)}
        k == CHOOSE k \in same : TRUE
    IN  IF same = {} THEN [r EXCEPT !.kept = Append(@, c)]
        ELSE IF ScoreOrZero(c) < ScoreOrZero(r.kept[k])
        THEN [kept |-> [r.kept EXCEPT ![k] = c], removed |-> Append(r.removed, r.kept[k])]
        ELSE [r EXCEPT !.removed = Append(@, c)]

\* The candidate c comes to those kept and removed already: a better one takes the
\* place of the one kept for its conversation.
Dedup(r, c) ==
    LET same == {k \in DOMAIN r.kept : Conversation(r.kept[k]) = Conversation(c)}
        k == CHOOSE k \in same : TRUE
    IN  IF same = {} THEN [r EXCEPT !.kept = Append(@, c)]
        ELSE IF ScoreOrZero(c) > ScoreOrZero(r.kept[k])
        THEN [kept |-> [r.kept EXCEPT ![k] = c], removed |-> Append(r.removed, r.kept[k])]
        ELSE [r EXCEPT !.removed = Append(@, c)]

DedupConversation(s) ==
    LET upto[n \in 0 .. Len(s)] ==
            IF n = 0 THEN [kept |-> <<>>, removed |-> <<>>] ELSE Dedup(upto[n - 1], s[n])
    IN  upto[Len(s)]

-----------------------------------------------------------------------------
(* Scorers. *)

\* Predictions are asked for the tweet a candidate shows.
PhoenixScores(s) == Map(s, LAMBDA c : Prediction[Subject(c)])
WeightedScores(s) == Map(s, LAMBDA c : Weigh(c.prediction, c.long))

\* Mutant of Position: the worst of an author comes first.
MutPosition(s, i) ==
    Cardinality({j \in DOMAIN s : s[j].author = s[i].author /\
        (s[j].weighted < s[i].weighted \/ (s[j].weighted = s[i].weighted /\ j < i))})

\* How many better candidates of its author come before the i-th one.
Position(s, i) ==
    Cardinality({j \in DOMAIN s : s[j].author = s[i].author /\
        (s[j].weighted > s[i].weighted \/ (s[j].weighted = s[i].weighted /\ j < i))})
Factor(position) == Multiplier[IF position < Len(Multiplier) THEN position + 1 ELSE Len(Multiplier)]
AuthorDiversity(s) ==
    [i \in DOMAIN s |->
        IF s[i].weighted = NoScore THEN NoScore ELSE s[i].weighted * Factor(Position(s, i))]
OON(s) ==
    Map(s, LAMBDA c : IF c.score = NoScore THEN NoScore
                      ELSE c.score * (IF c.in_network = "false" THEN OonFactor ELSE InFactor))

-----------------------------------------------------------------------------
(* The pipeline. *)

QueryHydrators == <<"UserActionSeq", "UserFeatures">>
Sources == <<"Phoenix", "Thunder">>
Hydrators == <<"InNetwork", "CoreData", "VideoDuration", "Subscription", "Gizmoduck">>
Filters == <<"DropDuplicates", "CoreDataHydration", "Age", "SelfTweet", "RetweetDeduplication",
             "IneligibleSubscription", "PreviouslySeen", "PreviouslyServed", "MutedKeyword",
             "AuthorSocialgraph">>
Scorers == <<"PhoenixScorer", "Weighted", "AuthorDiversity", "OON">>
PostSelectionHydrators == <<"VFHydrator">>
PostSelectionFilters == <<"VF", "DedupConversation">>
SideEffects == <<"CacheRequestInfo">>
Error == {Failed, InFailed, OutFailed}

\* Mutant of Enable: retrieval runs for in-network requests too.
MutEnable(c, q) ==
    /\ c = "CacheRequestInfo" => ~q.in_network_only
    /\ c = "PreviouslyServed" => q.bottom

\* CacheRequestInfo also wants APP_ENV to be prod, which it is here.
Enable(c, q) ==
    /\ c \in {"Phoenix", "CacheRequestInfo"} => ~q.in_network_only
    /\ c = "PreviouslyServed" => q.bottom

Outcome(c, q, s) ==
    CASE c = "UserActionSeq" -> UserActionSeq
      [] c = "UserFeatures" -> UserFeatures
      [] c = "Phoenix" -> PhoenixSource(q) \union {Failed}
      [] c = "Thunder" -> ThunderSource(q) \union {Failed}
      [] c = "InNetwork" -> {Map(s, LAMBDA x : InNetwork(q, x))}
      [] c = "CoreData" -> {Map(s, CoreData), Failed}
      [] c = "VideoDuration" -> {Map(s, VideoDuration), Failed}
      [] c = "Subscription" -> {Map(s, Subscription), Failed}
      [] c = "Gizmoduck" -> {Map(s, Gizmoduck), Failed}
      [] c = "DropDuplicates" -> {DropDuplicates(s)}
      [] c = "CoreDataHydration" -> {CoreDataHydration(s)}
      [] c = "Age" -> {Age(s)}
      [] c = "SelfTweet" -> {SelfTweet(s)}
      [] c = "RetweetDeduplication" -> {RetweetDeduplication(s)}
      [] c = "IneligibleSubscription" -> {IneligibleSubscription(s, q)}
      [] c = "PreviouslySeen" -> {PreviouslySeen(s, q)}
      [] c = "PreviouslyServed" -> {PreviouslyServed(s, q)}
      [] c = "MutedKeyword" -> {MutedKeyword(s, q)}
      [] c = "AuthorSocialgraph" -> {AuthorSocialgraph(s, q)}
      \* without predictions the candidates come back as they were
      [] c = "PhoenixScorer" ->
            {Map(s, LAMBDA x : x.prediction)} \union IF q.actions THEN {PhoenixScores(s)} ELSE {}
      [] c = "Weighted" -> {WeightedScores(s)}
      [] c = "AuthorDiversity" -> {AuthorDiversity(s)}
      [] c = "OON" -> {OON(s)}
      [] c = "VFHydrator" -> {Map(s, Visibility)} \union VFErrors(s)
      [] c = "VF" -> {VF(s)}
      [] c = "DedupConversation" -> {DedupConversation(s)}

Update(c, x, r) ==
    CASE c = "UserActionSeq" -> [x EXCEPT !.actions = r]
      [] c = "UserFeatures" -> [x EXCEPT !.features = r]
      [] c = "InNetwork" -> [x EXCEPT !.in_network = r]
      [] c = "CoreData" -> [x EXCEPT !.text = r.text, !.rt = r.rt, !.rtuser = r.rtuser]
      [] c = "VideoDuration" -> [x EXCEPT !.long = r]
      [] c = "Subscription" -> [x EXCEPT !.subscription = r]
      [] c = "Gizmoduck" -> [x EXCEPT !.author_name = r.author_name, !.rt_name = r.rt_name]
      [] c = "PhoenixScorer" -> [x EXCEPT !.prediction = r]
      [] c = "Weighted" -> [x EXCEPT !.weighted = r]
      [] c \in {"AuthorDiversity", "OON"} -> [x EXCEPT !.score = r]
      [] c = "VFHydrator" -> [x EXCEPT !.visibility = r]

ContentOf(p) == IF RetweetOf[p] = 0 THEN p ELSE RetweetOf[p]

\* Candidates that carry nothing that was computed for another post, but for the
\* final score, which depends on all of them: each field is empty, or what its
\* hydrator or scorer computes for the candidate or for the tweet it shows.
Sound ==
    {c \in Candidate :
        /\ c.author = AuthorOf[c.id] /\ c.ancestors \in {{}, Ancestors(c.id)}
        /\ [text |-> c.text, rt |-> c.rt, rtuser |-> c.rtuser]
               \in {[text |-> FALSE, rt |-> 0, rtuser |-> 0], CoreData(c)}
        /\ c.long => VideoDuration(c)
        /\ c.subscription \in {0, Subscription(c)}
        /\ c.visibility \in {"none", Visibility(c)}
        /\ LET predicted == {-1, Prediction[c.id], Prediction[ContentOf(c.id)]}
           IN  /\ c.prediction \in predicted
               /\ \/ c.weighted = NoScore
                  \/ \E x \in predicted, long \in {FALSE, VideoDuration(c)} : c.weighted = Weigh(x, long)}

Pipeline == INSTANCE CandidatePipeline WITH
    Selector <- "TopKScore", Id <- LAMBDA c : c.id, Score <- LAMBDA c : c.score, SelectSize <- TopK

Init == Pipeline!Init
Next == Pipeline!Next
Spec == Pipeline!Spec

-----------------------------------------------------------------------------
TypeOK == Pipeline!TypeOK
Conserved == Pipeline!Conserved

\* However many calls fail or come back out of order, no post is shown, ranked or
\* filtered by the core data, video, subscription, visibility, prediction or
\* weighted score of another.
Aligned == Pipeline!Aligned

Ok(c) == c \in DOMAIN answers /\ answers[c] \notin Error
\* Whatever failed, the feed shows no post twice, none of the viewer's own or
\* beyond the age limit, none the client says was seen (nor a retweet of one),
\* none of those served already if the request asks for more; if the viewer's
\* features came through, none by a blocked or muted author or with a muted
\* keyword; if the visibility service answered, none it says to drop; and none
\* known to be for subscribers the viewer is not one of.
\* That a retweet is known to be one depends on hydration: without core data
\* nothing is served.
ServedEligible ==
    /\ \A i, j \in DOMAIN reply : reply[i].id = reply[j].id => i = j
    /\ \A i \in DOMAIN reply :
        LET p == reply[i].id
        IN  /\ AuthorOf[p] # Viewer /\ p \notin Old
            /\ {p, ContentOf(p)} \intersect query.seen = {}
            /\ query.bottom => {p, ContentOf(p)} \intersect query.served = {}
            /\ query.features => p \notin MutedText /\ AuthorOf[p] \notin Blocked \union Muted
            /\ reply[i].subscription \in Option(Subscribed)
            /\ Ok("VFHydrator") => p \notin Violating

\* The feed is in descending order of the final score, although the
\* conversation filter puts candidates in the places of others.
Ranked == \A i, j \in DOMAIN reply : i < j => reply[i].score >= reply[j].score

\* Its source named the first post of the conversation it belongs to: so of every post
\* that is no reply, and of replies from thunder whose event names the conversation, but
\* of no reply from retrieval.
Placed(c) == ReplyTo[c.id] = 0 \/ RootOf[c.id] \in c.ancestors

\* Of the posts whose source named their conversation's first post, the feed has at
\* most one per conversation; and whatever passed the visibility filter and was left
\* out then gave way to a post of the same conversation that is not worse.  It may
\* show several replies of one conversation, or a reply and what it replies to, if
\* their sources did not name the first post: the filter has no more than the
\* ancestors to tell conversations apart.
BestOfConversation ==
    stage = "done" =>
        /\ \A i, j \in DOMAIN candidates :
            /\ RootOf[candidates[i].id] = RootOf[candidates[j].id]
            /\ Placed(candidates[i]) /\ Placed(candidates[j])
            => i = j
        /\ \A k \in DOMAIN filtered :
            filtered[k].visibility # "drop" /\ filtered[k].score # NoScore =>
                \E i \in DOMAIN candidates :
                    /\ RootOf[candidates[i].id] = RootOf[filtered[k].id]
                    /\ filtered[k].score <= candidates[i].score

\* The diversity factors never turn the order of one author's posts round.
AuthorOrder ==
    \A i, j \in DOMAIN reply :
        i < j /\ reply[i].author = reply[j].author => reply[i].weighted >= reply[j].weighted

\* A request for in-network posts only gets posts of followed accounts only,
\* and none at all if it is not known whom the viewer follows.
InNetworkOnly ==
    query.in_network_only =>
        \A i \in DOMAIN reply : query.features /\ AuthorOf[reply[i].id] \in Followed
=============================================================================
