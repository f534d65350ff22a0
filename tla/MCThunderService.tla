-------------------------- MODULE MCThunderService --------------------------
(* Two followed authors and a viewer (user 3).  Post 1 is an original by     *)
(* user 1, 2 a video by user 1, 3 user 2's reply to 1, 4 user 2's reply to 3, *)
(* 5 user 2's retweet of a post by the viewer.                               *)
EXTENDS ThunderService

Plain(author, at) ==
    [author_id |-> author, created_at |-> at, is_reply |-> FALSE, is_retweet |-> FALSE,
     has_video |-> FALSE, source_post_id |-> None, source_user_id |-> None,
     in_reply_to_post_id |-> None, in_reply_to_user_id |-> None, conversation_id |-> None]
ReplyTo(author, at, parent, user, root) ==
    [Plain(author, at) EXCEPT !.is_reply = TRUE, !.in_reply_to_post_id = parent,
        !.in_reply_to_user_id = user, !.conversation_id = root]
RetweetOf(author, at, source, user) ==
    [Plain(author, at) EXCEPT !.is_retweet = TRUE, !.source_post_id = source,
        !.source_user_id = user]

MCLight == <<Plain(1, 1), [Plain(1, 2) EXCEPT !.has_video = TRUE], ReplyTo(2, 3, 1, 1, 1),
             ReplyTo(2, 4, 3, 2, 1), RetweetOf(2, 4, None, 3)>>

MCArrived == <<1, 2, 3, 4>>

Ask(following, exclude, max, video, debug) ==
    [user_id |-> 3, following |-> following, exclude |-> exclude, max_results |-> max,
     is_video_request |-> video, debug |-> debug]

MCQuery == {Ask(<<1, 2>>, <<>>, 0, FALSE, FALSE), Ask(<<2, 2, 1>>, <<4, 2, 1>>, 1, FALSE, FALSE),
            Ask(<<>>, <<>>, 0, TRUE, TRUE)}
MCLists == {<<2, 1, 1>>}
=============================================================================
