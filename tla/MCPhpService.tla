---------------------------- MODULE MCPhpService ----------------------------
(* Users 1 and 2 ask; eight posts, of which two are made up by the mock       *)
(* client and of another age.                                                 *)
EXTENDS PhpService

\* 1 and 2 are by user 3, 3 answers 1, 4 is a retweet of 1, 5 is by user 1, names 1 as
\* an ancestor and has a muted keyword, 6 is from the future and answers 3; 7 and 8
\* are the mock client's.
MCAuthorOf == <<3, 3, 4, 4, 1, 4, 5, 6>>
MCRetweetOf == [p \in Post |-> IF p = 4 THEN 1 ELSE 0]
MCReplyTo == [p \in Post |-> CASE p = 3 -> 1 [] p = 6 -> 3 [] OTHER -> 0]
MCLeastAncestor == [p \in Post |-> IF p \in {3, 5, 6} THEN 1 ELSE 0]
MCBornAt == <<0, 1, 0, 0, 0, 2, -90, -90>>
MCMockPosts == <<7, 8>>

Item(id, network, score, quality) ==
    [id |-> id, network |-> network, score |-> score, quality |-> quality]
MCLists ==
    {<<>>,
     <<Item(1, "true", 1, 2), Item(2, "true", 0, 2), Item(3, "none", 2, 5), Item(2, "false", 1, 3)>>,
     <<Item(4, "false", 1, 3), Item(1, "true", 0, 4), Item(4, "false", 2, 4), Item(5, "none", 1, 5)>>,
     <<Item(6, "false", 1, 1), Item(3, "true", 0, 1), Item(4, "none", 0, 6)>>}

MCRequests ==
    {[user |-> 1, seen |-> {}, served |-> {}, bottom |-> FALSE, muted |-> "none"],
     [user |-> 2, seen |-> {2}, served |-> {3}, bottom |-> TRUE, muted |-> "words"],
     [user |-> 2, seen |-> {}, served |-> {1}, bottom |-> FALSE, muted |-> "malformed"]}

MCDefaultConfig == [limit |-> 2, maxAge |-> 1, diversity |-> TRUE]
MCConfigs == {MCDefaultConfig, [limit |-> 3, maxAge |-> 99, diversity |-> FALSE]}

\* Three quarters and powers of a half, of scores times four.
MCBoosted(score) == (score * 3) \div 2
MCDecayed(score, n) == score \div (2 ^ n)
=============================================================================
