--------------------------- MODULE ThunderService ---------------------------
(***************************************************************************)
(* The gRPC service of thunder/thunder_service.rs: requests for the posts  *)
(* of the users someone follows are admitted while permits last, and       *)
(* answered by a blocking task that scans the timelines of PostStore       *)
(* (get_videos_by_users, get_all_posts_by_users, get_posts_from_map in     *)
(* thunder/posts/post_store.rs) while the store goes on changing.          *)
(*                                                                         *)
(* A step of a task is one user or one entry of a timeline; a request is   *)
(* interrupted only where its future awaits.  The store's own operations   *)
(* are one step each here: their inner interleavings are PostStore's       *)
(* subject.  A timeline does not change while it is scanned, because the   *)
(* scan holds its lock.  Metrics and logging are left out.                 *)
(***************************************************************************)
EXTENDS Integers, Sequences, FiniteSets

CONSTANTS
    Request, Post, User,
    None,
    Light,          \* the LightPost of each post
    Arrived,        \* the posts stored at the start, in the order of arrival
    Query,          \* the requests clients may send
    Lists,          \* the following lists Strato may answer
    MaxConcurrent,  \* max_concurrent_requests
    MaxInput,       \* MAX_INPUT_LIST_SIZE
    MaxPosts, MaxVideos,                \* MAX_POSTS_TO_RETURN, MAX_VIDEOS_TO_RETURN
    MaxScan,                            \* MAX_TINY_POSTS_PER_USER_SCAN
    MaxOriginal, MaxReply, MaxVideo,    \* MAX_*_POSTS_PER_AUTHOR
    HasTimeout,     \* request_timeout is not zero
    MaxChanges      \* bound: changes of the store after the start

LightPost == [author_id : User, created_at : Nat, is_reply : BOOLEAN, is_retweet : BOOLEAN,
              has_video : BOOLEAN, source_post_id : Post \union {None},
              source_user_id : User \union {None}, in_reply_to_post_id : Post \union {None},
              in_reply_to_user_id : User \union {None}, conversation_id : Post \union {None}]

\* GetInNetworkPostsRequest; a max_results of 0 is one left out.
Asked == [user_id : User, following : Seq(User), exclude : Seq(Post), max_results : Nat,
          is_video_request : BOOLEAN, debug : BOOLEAN]

\* Listeners set is_reply whenever in_reply_to_post_id is there, and a post that is
\* stored already is not listed again.
ASSUME ServiceAssumption ==
    /\ IsFiniteSet(Request) /\ None \notin Post \union User
    /\ Light \in [Post -> LightPost]
    /\ \A p \in Post : Light[p].in_reply_to_post_id # None => Light[p].is_reply
    /\ Arrived \in Seq(Post)
    /\ \A i, j \in DOMAIN Arrived : Arrived[i] = Arrived[j] => i = j
    /\ Query \subseteq Asked /\ Lists \subseteq Seq(User)
    /\ MaxConcurrent \in Nat /\ MaxInput \in Nat /\ MaxPosts \in Nat /\ MaxVideos \in Nat
    /\ MaxScan \in Nat /\ MaxOriginal \in Nat /\ MaxReply \in Nat /\ MaxVideo \in Nat
    /\ HasTimeout \in BOOLEAN /\ MaxChanges \in Nat

VARIABLES
    posts, deleted, timeline,   \* the maps of PostStore; timelines of post ids
    trimmed,                    \* posts past the retention period, dropped by the trimmer
    changes,                    \* changes of the store so far
    permits, inFlight,          \* request_semaphore, IN_FLIGHT_REQUESTS
    req,                        \* the requests
    task,                       \* their blocking tasks
    gone,                       \* history: posts deleted before the task was spawned
    steady                      \* history: posts stored and listed ever since then

store == <<posts, deleted, timeline, trimmed, changes>>
vars == <<store, permits, inFlight, req, task, gone, steady>>

Map == {"original", "secondary", "video"}
Elements(s) == {s[i] : i \in DOMAIN s}
Least(a, b) == IF a < b THEN a ELSE b
Take(s, n) == SubSeq(s, 1, Least(n, Len(s)))

-----------------------------------------------------------------------------
(* The store. *)

\* A reply is never a video post; a retweet is one if its source is in S.
VideoEligible(p, S) ==
    /\ ~Light[p].is_reply
    /\ \/ Light[p].has_video
       \/ /\ Light[p].is_retweet
          /\ \E s \in S : /\ s = Light[p].source_post_id
                          /\ Light[s].has_video /\ ~Light[s].is_reply

MainMap(p) == IF Light[p].is_reply \/ Light[p].is_retweet THEN "secondary" ELSE "original"
MapsOf(p, S) == {MainMap(p)} \union (IF VideoEligible(p, S) THEN {"video"} ELSE {})

\* The timelines T once p is stored when the posts S were.
Pushed(T, p, S) ==
    [m \in Map |-> [u \in User |->
        IF m \in MapsOf(p, S) /\ u = Light[p].author_id THEN Append(T[m][u], p) ELSE T[m][u]]]

Filled[n \in Nat] ==
    IF n = 0 THEN [m \in Map |-> [u \in User |-> <<>>]]
    ELSE Pushed(Filled[n - 1], Arrived[n], {Arrived[i] : i \in 1 .. n})

\* The timeline a task in the middle of a user holds the lock of.
Held(m, u) == \E r \in Request : task[r].pc = "scan" /\ task[r].map = m /\ task[r].following[task[r].u] = u

Change == changes < MaxChanges /\ changes' = changes + 1
Unsteady(p) == steady' = [r \in Request |-> steady[r] \ {p}]
Service == <<permits, inFlight, req, task, gone>>

Insert(p) ==
    /\ Change
    /\ p \notin posts \union deleted \union trimmed
    /\ \A m \in MapsOf(p, posts) : ~Held(m, Light[p].author_id)
    /\ posts' = posts \union {p}
    /\ timeline' = Pushed(timeline, p, posts)
    /\ UNCHANGED <<deleted, trimmed, steady, Service>>

\* mark_as_deleted waits for no timeline of a user.
Delete(p) ==
    /\ Change
    /\ p \notin deleted
    /\ posts' = posts \ {p}
    /\ deleted' = deleted \union {p}
    /\ Unsteady(p)
    /\ UNCHANGED <<timeline, trimmed, Service>>

\* The trimmer drops the front of a timeline, once past the retention period.
Trim(m, u) ==
    /\ Change
    /\ ~Held(m, u) /\ timeline[m][u] # <<>>
    /\ LET p == Head(timeline[m][u])
       IN  /\ posts' = posts \ {p}
           /\ trimmed' = trimmed \union {p}
           /\ Unsteady(p)
    /\ timeline' = [timeline EXCEPT ![m][u] = Tail(@)]
    /\ UNCHANGED <<deleted, Service>>

StoreStep ==
    \/ \E p \in Post : Insert(p) \/ Delete(p)
    \/ \E m \in Map, u \in User : Trim(m, u)

-----------------------------------------------------------------------------
(* The requests. *)

NoQuery == [user_id |-> None]
NoTask == [pc |-> "none", following |-> <<>>, excluded |-> {}, map |-> "original", u |-> 1,
           i |-> 0, budget |-> 0, room |-> 0, late |-> FALSE, found |-> <<>>, best |-> <<>>]

\* Mutant of NewTask: the lists are not cut to MAX_INPUT_LIST_SIZE.
MutNewTask(q, list) ==
    [NoTask EXCEPT !.pc = "user", !.following = list, !.excluded = Elements(q.exclude),
                   !.map = IF q.is_video_request THEN "video" ELSE "original"]

\* The first MaxInput users and exclusions go to the blocking task.
NewTask(q, list) ==
    [NoTask EXCEPT !.pc = "user", !.following = Take(list, MaxInput),
                   !.excluded = Elements(Take(q.exclude, MaxInput)),
                   !.map = IF q.is_video_request THEN "video" ELSE "original"]

Listed == {p \in posts : \E m \in Map : p \in Elements(timeline[m][Light[p].author_id])}

Spawn(r, q, list) ==
    /\ req' = [req EXCEPT ![r] = [stage |-> "scan", query |-> q, reply |-> <<>>]]
    /\ task' = [task EXCEPT ![r] = NewTask(q, list)]
    /\ gone' = [gone EXCEPT ![r] = deleted]
    /\ steady' = [steady EXCEPT ![r] = Listed]

\* try_acquire succeeds; only a debug request without a list asks Strato for it.
Admit(r, q) ==
    /\ req[r].stage = "new"
    /\ permits > 0
    /\ permits' = permits - 1
    /\ inFlight' = inFlight + 1
    /\ IF q.following = <<>> /\ q.debug
       THEN /\ req' = [req EXCEPT ![r] = [stage |-> "strato", query |-> q, reply |-> <<>>]]
            /\ UNCHANGED <<task, gone, steady>>
       ELSE Spawn(r, q, q.following)
    /\ UNCHANGED store

\* Mutant of Reject: the guard exists already, and its drop lowers the gauge.
MutReject(r) ==
    /\ req[r].stage = "new"
    /\ permits = 0
    /\ inFlight' = inFlight - 1
    /\ req' = [req EXCEPT ![r].stage = "rejected"]
    /\ UNCHANGED <<store, permits, task, gone, steady>>

\* RESOURCE_EXHAUSTED, at once.
Reject(r) ==
    /\ req[r].stage = "new"
    /\ permits = 0
    /\ req' = [req EXCEPT ![r].stage = "rejected"]
    /\ UNCHANGED <<store, permits, inFlight, task, gone, steady>>

Fetched(r, list) ==
    /\ req[r].stage = "strato"
    /\ Spawn(r, req[r].query, list)
    /\ UNCHANGED <<store, permits, inFlight>>

\* Mutant of Leave: the permit is not returned unless there is a reply.
MutLeave(r, stage, reply) ==
    /\ req' = [req EXCEPT ![r].stage = stage, ![r].reply = reply]
    /\ permits' = IF stage = "done" THEN permits + 1 ELSE permits
    /\ inFlight' = inFlight - 1
    /\ UNCHANGED <<store, task, gone, steady>>

\* Every way out drops the guard and the permit.
Leave(r, stage, reply) ==
    /\ req' = [req EXCEPT ![r].stage = stage, ![r].reply = reply]
    /\ permits' = permits + 1
    /\ inFlight' = inFlight - 1
    /\ UNCHANGED <<store, task, gone, steady>>

FetchFails(r) == req[r].stage = "strato" /\ Leave(r, "failed", <<>>)
Respond(r) == req[r].stage = "scan" /\ task[r].pc = "done" /\ Leave(r, "done", task[r].best)
JoinFails(r) == req[r].stage = "scan" /\ task[r].pc = "panicked" /\ Leave(r, "failed", <<>>)

\* The client goes away and the future is dropped; the blocking task is not.
Cancel(r) == req[r].stage \in {"strato", "scan"} /\ Leave(r, "cancelled", <<>>)

-----------------------------------------------------------------------------
(* The blocking task: get_posts_from_map for one map or two, score_recent. *)

Cap(m) == CASE m = "original" -> MaxOriginal [] m = "secondary" -> MaxReply
            [] m = "video" -> MaxVideo

TaskOnly == <<store, permits, inFlight, req, gone, steady>>

Author(t) == t.following[t.u]
MoreUsers(t) == t.pc = "user" /\ t.u <= Len(t.following) /\ ~t.late

\* The scan of a user ends with the timeline, the budget or the author's cap.
Settled(t) ==
    IF t.i = 0 \/ t.budget = 0 \/ t.room = 0
    THEN [t EXCEPT !.pc = "user", !.u = @ + 1, !.i = 0, !.budget = 0, !.room = 0]
    ELSE t

\* The time is looked at before a user, never within one.
NextUser(r) ==
    /\ MoreUsers(task[r])
    /\ LET t == task[r]
       IN  task' = [task EXCEPT ![r] = Settled([t EXCEPT
                       !.pc = "scan", !.budget = MaxScan, !.room = Cap(t.map),
                       !.i = Len(timeline[t.map][Author(t)])])]
    /\ UNCHANGED TaskOnly

\* start_time.elapsed() has reached request_timeout, and stays there.
TimedOut(r) ==
    /\ HasTimeout
    /\ MoreUsers(task[r])
    /\ task' = [task EXCEPT ![r].late = TRUE]
    /\ UNCHANGED TaskOnly

\* Mutant of MapDone: a task that is late goes on with the loop.
MutMapDone(r) ==
    /\ task[r].pc = "user" /\ task[r].u > Len(task[r].following)
    /\ task' = IF task[r].map = "original"
               THEN [task EXCEPT ![r].map = "secondary", ![r].u = 1]
               ELSE [task EXCEPT ![r].pc = "rank", ![r].u = 1]
    /\ UNCHANGED TaskOnly

\* The originals are followed by the secondary timelines, under the same clock.
MapDone(r) ==
    /\ task[r].pc = "user" /\ ~MoreUsers(task[r])
    /\ task' = IF task[r].map = "original"
               THEN [task EXCEPT ![r].map = "secondary", ![r].u = 1]
               ELSE [task EXCEPT ![r].pc = "rank", ![r].u = 1]
    /\ UNCHANGED TaskOnly

\* A reply is served if it answers an original, or if it answers a reply to the
\* root of the conversation and its target is followed; S is what is stored.
Answers(p, S, following) ==
    LET parent == Light[p].in_reply_to_post_id
    IN  \/ parent = None
        \/ /\ parent \in S
           /\ \/ ~Light[parent].is_retweet /\ ~Light[parent].is_reply
              \/ /\ Light[p].conversation_id # None
                 /\ Light[parent].in_reply_to_post_id = Light[p].conversation_id
                 /\ Light[p].in_reply_to_user_id \in following

OwnRetweet(p, user) == Light[p].is_retweet /\ Light[p].source_user_id = user

\* Mutant of Eligible: deleted_posts is not looked up.
MutEligible(r, p) ==
    /\ p \in posts \union deleted
    /\ ~OwnRetweet(p, req[r].query.user_id)
    /\ task[r].map = "secondary" => Answers(p, posts, Elements(task[r].following))

Eligible(r, p) ==
    /\ p \in posts \ deleted
    /\ ~OwnRetweet(p, req[r].query.user_id)
    /\ task[r].map = "secondary" => Answers(p, posts, Elements(task[r].following))

Entry(t) == timeline[t.map][Author(t)][t.i]

\* Mutant of Look: an excluded post uses up the budget of the scan.
MutLook(r) ==
    LET p == Entry(task[r])
        s == [task[r] EXCEPT !.i = @ - 1, !.budget = @ - 1]
    IN  /\ task[r].pc = "scan"
        /\ task' = [task EXCEPT ![r] = Settled(
               IF p \in s.excluded \/ ~Eligible(r, p) THEN s
               ELSE [s EXCEPT !.room = @ - 1, !.found = Append(@, p)])]
        /\ UNCHANGED TaskOnly

\* One entry, from the back.  Exclusions come before the budget of the scan,
\* everything else after it.
Look(r) ==
    LET p == Entry(task[r])
        s == [task[r] EXCEPT !.i = @ - 1]
    IN  /\ task[r].pc = "scan"
        /\ task' = [task EXCEPT ![r] = Settled(
               IF p \in s.excluded THEN s
               ELSE IF ~Eligible(r, p) THEN [s EXCEPT !.budget = @ - 1]
               ELSE [s EXCEPT !.budget = @ - 1, !.room = @ - 1, !.found = Append(@, p)])]
        /\ UNCHANGED TaskOnly

Limit(q) ==
    IF q.max_results > 0 THEN q.max_results
    ELSE IF q.is_video_request THEN MaxVideos ELSE MaxPosts

\* The orders in which an unstable sort by descending created_at may leave s.
Orders(s) ==
    LET At(i) == Light[s[i]].created_at
    IN  {[k \in DOMAIN s |-> s[f[k]]] :
            f \in {f \in [DOMAIN s -> DOMAIN s] :
                    \A k, l \in DOMAIN s : k < l => f[k] # f[l] /\ At(f[k]) >= At(f[l])}}

\* Mutant of ScoreRecent: the result is cut before it is sorted.
MutScoreRecent(r) ==
    /\ task[r].pc = "rank"
    /\ \E s \in Orders(Take(task[r].found, Limit(req[r].query))) :
           task' = [task EXCEPT ![r].pc = "done", ![r].best = s]
    /\ UNCHANGED TaskOnly

ScoreRecent(r) ==
    /\ task[r].pc = "rank"
    /\ \E s \in Orders(task[r].found) :
           task' = [task EXCEPT ![r].pc = "done", ![r].best = Take(s, Limit(req[r].query))]
    /\ UNCHANGED TaskOnly

\* The statistics of a result that is not empty panic if the host's clock is
\* before the epoch.
StatisticsPanic(r) ==
    /\ task[r].pc = "rank" /\ task[r].found # <<>>
    /\ task' = [task EXCEPT ![r].pc = "panicked"]
    /\ UNCHANGED TaskOnly

TaskStep(r) ==
    NextUser(r) \/ TimedOut(r) \/ MapDone(r) \/ Look(r) \/ ScoreRecent(r) \/ StatisticsPanic(r)

-----------------------------------------------------------------------------
Init ==
    /\ posts = Elements(Arrived) /\ deleted = {} /\ trimmed = {}
    /\ timeline = Filled[Len(Arrived)]
    /\ changes = 0
    /\ permits = MaxConcurrent /\ inFlight = 0
    /\ req = [r \in Request |-> [stage |-> "new", query |-> NoQuery, reply |-> <<>>]]
    /\ task = [r \in Request |-> NoTask]
    /\ gone = [r \in Request |-> {}] /\ steady = [r \in Request |-> {}]

\* Whatever goes on for a request without its client: Strato answers or errs,
\* the task runs on a thread of its own, the future is polled once it is ready.
\* At most one of the three is possible at a time.  Nothing forces requests,
\* changes or cancellations.
Proceed(r) ==
    \/ FetchFails(r) \/ \E list \in Lists : Fetched(r, list)
    \/ TaskStep(r)
    \/ Respond(r) \/ JoinFails(r)

Next ==
    \/ StoreStep
    \/ \E r \in Request : (\E q \in Query : Admit(r, q)) \/ Reject(r) \/ Cancel(r) \/ Proceed(r)

Spec == Init /\ [][Next]_vars
FairSpec == Spec /\ \A r \in Request : WF_vars(Proceed(r))

-----------------------------------------------------------------------------
Task == [pc : {"none", "user", "scan", "rank", "done", "panicked"}, following : Seq(User),
         excluded : SUBSET Post, map : Map, u : Nat \ {0}, i : Nat, budget : Nat, room : Nat,
         late : BOOLEAN, found : Seq(Post), best : Seq(Post)]
Req == [stage : {"new", "strato", "scan", "done", "rejected", "failed", "cancelled"},
        query : Query \union {NoQuery}, reply : Seq(Post)]

TypeOK ==
    /\ posts \subseteq Post /\ deleted \subseteq Post /\ trimmed \subseteq Post
    /\ timeline \in [Map -> [User -> Seq(Post)]]
    /\ changes \in 0 .. MaxChanges
    /\ permits \in 0 .. MaxConcurrent /\ inFlight \in 0 .. MaxConcurrent
    /\ req \in [Request -> Req]
    /\ task \in [Request -> Task]
    /\ gone \in [Request -> SUBSET Post] /\ steady \in [Request -> SUBSET Post]

Inside == {r \in Request : req[r].stage \in {"strato", "scan"}}
Running == {r \in Request : task[r].pc \in {"user", "scan", "rank"}}
Times(x, s) == Cardinality({i \in DOMAIN s : s[i] = x})

\* Whichever way a request ends, while its task runs or after it, its permit and
\* its place in the gauge are given back once: the requests inside and the
\* permits left make up max_concurrent_requests.
PermitsAccounted ==
    /\ permits + Cardinality(Inside) = MaxConcurrent
    /\ inFlight = Cardinality(Inside)

FromMaps(q) == IF q.is_video_request THEN {"video"} ELSE {"original", "secondary"}

\* A reply holds no more posts than asked for, newest first, by the first users
\* of the list only, none of the first exclusions, nothing that was deleted when
\* the task was spawned, no retweet of the viewer's own posts; an author has no
\* more posts in it than the caps allow, and a post occurs twice only if its
\* author is listed twice.
ReplySound ==
    \A r \in Request : req[r].stage = "done" =>
        LET q == req[r].query
            reply == req[r].reply
            following == task[r].following
        IN  /\ Len(reply) <= Limit(q)
            /\ \A i, j \in DOMAIN reply : i < j =>
                   Light[reply[i]].created_at >= Light[reply[j]].created_at
            /\ Len(following) <= MaxInput
            /\ q.following # <<>> => following = Take(q.following, MaxInput)
            /\ \A p \in Elements(reply) :
                  /\ p \notin gone[r] \union Elements(Take(q.exclude, MaxInput))
                  /\ ~OwnRetweet(p, q.user_id)
                  /\ q.is_video_request => ~Light[p].is_reply
                  /\ ~q.is_video_request => Answers(p, Post, Elements(following))
                  /\ Times(p, reply) <= Times(Light[p].author_id, following)
            /\ \A m \in FromMaps(q), u \in User :
                  Cardinality({i \in DOMAIN reply : Light[reply[i]].author_id = u
                                  /\ (q.is_video_request \/ MainMap(reply[i]) = m)})
                      <= Cap(m) * Times(u, following)

\* Where a user comes first in the list.
Place(u, s) == CHOOSE i \in DOMAIN s : s[i] = u /\ \A j \in DOMAIN s : s[j] = u => i <= j

\* p is wanted of the timeline m, and was there all the time.
Wanted(r, m, p) ==
    /\ p \in steady[r] \ task[r].excluded
    /\ Light[p].author_id \in Elements(task[r].following)
    /\ p \in Elements(timeline[m][Light[p].author_id])
    /\ ~OwnRetweet(p, req[r].query.user_id)
    /\ m = "secondary" => Answers(p, steady[r], Elements(task[r].following))

FoundOf(r, m, u) == {p \in Elements(task[r].found) :
    Light[p].author_id = u /\ (m = "video" \/ MainMap(p) = m)}

\* The time was up before the author's turn, so nobody after him was scanned.
CutOff(r, m, p) ==
    /\ task[r].late
    /\ \A u \in Elements(task[r].following) :
          Place(u, task[r].following) >= Place(Light[p].author_id, task[r].following)
              => FoundOf(r, m, u) = {}

\* MAX_TINY_POSTS_PER_USER_SCAN newer entries, wanted or not, stand before p.
BeyondScan(r, m, p) ==
    LET s == timeline[m][Light[p].author_id]
        at == CHOOSE i \in DOMAIN s : s[i] = p
    IN  Cardinality({i \in DOMAIN s : i > at /\ s[i] \notin task[r].excluded}) >= MaxScan

\* A wanted post that was stored and listed for as long as the task ran is
\* in the reply, unless the time was up before its author's turn (the rest of
\* that author's posts are then missing too), the scan's budget went to newer
\* entries, its author's cap went to others, or the reply is full of posts that
\* are no older: concurrent insertions, deletions and trims take nothing else
\* from a reply, and a cancelled request takes nothing from another one.
LeftOutForAReason ==
    \A r \in Request : req[r].stage = "done" =>
        \A m \in FromMaps(req[r].query), p \in Post :
            Wanted(r, m, p) =>
                \/ p \in Elements(req[r].reply)
                \/ /\ p \in Elements(task[r].found)
                   /\ Len(req[r].reply) = Limit(req[r].query)
                   /\ \A q \in Elements(req[r].reply) :
                          Light[q].created_at >= Light[p].created_at
                \/ /\ p \notin Elements(task[r].found)
                   /\ \/ CutOff(r, m, p)
                      \/ BeyondScan(r, m, p)
                      \/ Cardinality(FoundOf(r, m, Light[p].author_id)) >= Cap(m)

\* Every admitted request ends, with a reply or an error, and every task ends,
\* that of a cancelled request too.
Ends == \A r \in Request : r \in Inside \union Running ~> r \notin Inside \union Running
=============================================================================
