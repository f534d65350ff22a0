----------------------------- MODULE MCHomeMixer -----------------------------
(* Eleven posts and a viewer (user 1) who follows users 2 and 3.              *)
EXTENDS HomeMixer

\* 1 is an outsider's post, 2 a friend's, 3 the friend's retweet of 1, 4
\* another friend's reply to 2, 7 an answer to that, 11 one to 7 whose event does
\* not name the conversation; 5 is by a blocked user, 6 the viewer's own, 8 too old,
\* 9 by a muted user, 10 has a muted keyword.
MCAuthorOf == <<5, 2, 2, 3, 4, 1, 2, 5, 6, 5, 3>>
MCRetweetOf == [p \in Post |-> IF p = 3 THEN 1 ELSE 0]
MCReplyTo == [p \in Post |-> CASE p = 4 -> 2 [] p = 7 -> 4 [] p = 11 -> 7 [] OTHER -> 0]
MCRootOf == [p \in Post |-> IF p \in {4, 7, 11} THEN 2 ELSE p]
MCSubscriptionOf == [p \in Post |-> IF p \in {1, 2} THEN AuthorOf[p] ELSE 0]
MCPrediction == <<3, 1, -1, 2, 9, 9, 5, 9, 9, 9, 6>>

MCPhoenixLists == {<<1>>, <<3, 1>>, <<2, 2>>, <<5, 6>>, <<1, 4>>, <<8, 9, 10>>}
MCRequests ==
    [in_network_only : {FALSE}, bottom : {FALSE}, seen : {{}, {1}}, served : {{2}}]
        \union [in_network_only : {TRUE}, bottom : {TRUE}, seen : {{}}, served : {{1, 4}}]

\* At least what the offset leaves of a post without predictions.
MCWeigh(prediction, long) ==
    4 + (IF prediction = -1 THEN 0 ELSE prediction) + (IF long THEN 2 ELSE 0)
MCMultiplier == <<4, 3, 2>>
=============================================================================
