---------------------------- MODULE MCChatStream -----------------------------
(* Two messages, two images, and answers with each kind of line before and    *)
(* after another: enough for a turn to overlap another, an image to come      *)
(* late, and a cut through any line beside whole ones.                        *)
EXTENDS ChatStream

MCStreams == {<<"reasoning", "content">>, <<"other", "content", "done">>}
=============================================================================
