----------------------------- MODULE Conversation -----------------------------
(* What the chat of the dashboard promises: one message at a time, each sent  *)
(* with the conversation as it stands; the conversation grows by a turn when  *)
(* its response ends, which the page cannot tell from one that was cut short, *)
(* and by nothing when it is refused or breaks off with an error.             *)
EXTENDS Naturals, Sequences

VARIABLES busy,      \* a message waits for its answer
          contexts,  \* the conversation each message was sent with
          ended,     \* messages whose responses ended without an error
          history    \* the conversation: messages by their numbers

vars == <<busy, contexts, ended, history>>

Init == busy = FALSE /\ contexts = <<>> /\ ended = {} /\ history = <<>>

Send ==
  /\ ~busy
  /\ busy' = TRUE
  /\ contexts' = Append(contexts, history)
  /\ UNCHANGED <<ended, history>>

Keep ==
  /\ busy
  /\ busy' = FALSE
  /\ ended' = ended \cup {Len(contexts)}
  /\ history' = Append(history, Len(contexts))
  /\ UNCHANGED contexts

Drop ==
  /\ busy
  /\ busy' = FALSE
  /\ UNCHANGED <<contexts, ended, history>>

Next == Send \/ Keep \/ Drop
Spec == Init /\ [][Next]_vars
=============================================================================
