----------------------------- MODULE ChatStream ------------------------------
(* The chat of the dashboard (webfs/web/ui/js/app.js, sendChatMessage): one   *)
(* answer at a time, read from a streamed response whose chunks may end       *)
(* anywhere, a history that becomes the context of the next request, and an   *)
(* image that a FileReader delivers when it likes.                            *)
(* The browser runs one callback at a time; the code between two awaits is    *)
(* one step.  A response is a sequence of lines, and of a line only its kind  *)
(* counts.  Positions count half lines: a chunk that ends at an odd position  *)
(* ends inside a line.  A text is the set of the lines it was made from.      *)
EXTENDS Naturals, Sequences

CONSTANTS Streams,     \* responses, as sequences of kinds of lines
          MaxTurns,    \* bound on the messages sent
          MaxImages    \* bound on the images attached

\* A line carries a piece of the answer, a piece of reasoning or nothing the
\* page uses; [DONE] comes last if at all.
ASSUME StreamsAssumption ==
  \A s \in Streams : /\ s \in Seq({"content", "reasoning", "other", "done"})
                     /\ \A i \in 1 .. Len(s) : s[i] = "done" => i = Len(s)
ASSUME BoundsAssumption == MaxTurns \in Nat /\ MaxImages \in Nat

VARIABLES isGenerating,
          turn,         \* a record for each message sent
          chatHistory,  \* the turns whose two messages were pushed, in order
          attached,     \* images chosen so far; an image is its number
          reading,      \* images a FileReader is still loading
          image         \* attachedImageBase64, 0 when empty

vars == <<isGenerating, turn, chatHistory, attached, reading, image>>

Turns == 1 .. Len(turn)
Active == {t \in Turns : turn[t].stage \in {"asked", "streaming"}}
Kept == {t \in Turns : turn[t].stage = "kept"}

Init ==
  /\ isGenerating = FALSE
  /\ turn = <<>>
  /\ chatHistory = <<>>
  /\ attached = 0
  /\ reading = {}
  /\ image = 0
-----------------------------------------------------------------------------
(* Images.                                                                  *)

AttachImageEarly ==                  \* does not wait for reader.onload
  /\ attached < MaxImages
  /\ attached' = attached + 1
  /\ reading' = reading \cup {attached + 1}
  /\ image' = attached + 1
  /\ UNCHANGED <<isGenerating, turn, chatHistory>>

\* loadImagePreview.
AttachImage ==
  /\ attached < MaxImages
  /\ attached' = attached + 1
  /\ reading' = reading \cup {attached + 1}
  /\ UNCHANGED <<isGenerating, turn, chatHistory, image>>

\* reader.onload, whatever was attached, removed or sent meanwhile.
ImageLoaded(i) ==
  /\ i \in reading
  /\ reading' = reading \ {i}
  /\ image' = i
  /\ UNCHANGED <<isGenerating, turn, chatHistory, attached>>

\* The button is on the preview, which is there while an image is.
RemoveImage ==
  /\ image # 0
  /\ image' = 0
  /\ UNCHANGED <<isGenerating, turn, chatHistory, attached, reading>>
-----------------------------------------------------------------------------
(* A turn.                                                                  *)

NewTurn == [stage |-> "asked", lines |-> <<>>, read |-> 0, ends |-> {},
            text |-> {}, shown |-> {},
            image |-> image, context |-> chatHistory]

\* hasText: the input holds more than blanks.
Ask(hasText) ==
  /\ hasText \/ image # 0
  /\ Len(turn) < MaxTurns
  /\ turn' = Append(turn, NewTurn)
  /\ isGenerating' = TRUE
  /\ UNCHANGED <<chatHistory, attached, reading>>

SendWhileGenerating(hasText) ==      \* drops "if (this.isGenerating) return"
  Ask(hasText) /\ image' = 0

SendKeepsImage(hasText) ==           \* does not empty attachedImageBase64
  ~isGenerating /\ Ask(hasText) /\ UNCHANGED image

sendChatMessage(hasText) ==
  /\ ~isGenerating
  /\ Ask(hasText)
  /\ image' = 0

\* response.ok with a body to read.
Answered(t) ==
  /\ turn[t].stage = "asked"
  /\ \E s \in Streams :
       turn' = [turn EXCEPT ![t].stage = "streaming", ![t].lines = s]
  /\ UNCHANGED <<isGenerating, chatHistory, attached, reading, image>>

RefusedStaysBusy(t) ==               \* returns without isGenerating = false
  /\ turn[t].stage = "asked"
  /\ turn' = [turn EXCEPT ![t].stage = "failed"]
  /\ UNCHANGED <<isGenerating, chatHistory, attached, reading, image>>

\* fetch throws, or the answer is an error.
Refused(t) ==
  /\ turn[t].stage = "asked"
  /\ turn' = [turn EXCEPT ![t].stage = "failed"]
  /\ isGenerating' = FALSE
  /\ UNCHANGED <<chatHistory, attached, reading, image>>

\* chunk.split('\n') yields these lines whole.  The pieces of other lines do
\* not start with "data:" or do not parse.
WholeLines(s, p, q) == {i \in 1 .. Len(s) : p <= 2 * i - 2 /\ 2 * i <= q}

StopAtOtherLines(s, p, q) ==         \* break for continue on other lines
  {i \in WholeLines(s, p, q) :
     \A j \in WholeLines(s, p, q) : j < i => s[j] \notin {"other", "done"}}

\* The loop over the lines breaks at [DONE].
Parsed(s, p, q) ==
  {i \in WholeLines(s, p, q) :
     \A j \in WholeLines(s, p, q) : j <= i => s[j] # "done"}

Of(kind, s, lines) == {i \in lines : s[i] = kind}

\* contentEl is the paragraph itself and holds no other: querySelector('p')
\* gives null, the assignment throws after fullText has grown, and the catch
\* that skips parse errors swallows it.  Reasoning is shown at once, in a block of
\* its own inside the paragraph, and kept nowhere else.
ReadChunk(t) ==
  /\ turn[t].stage = "streaming"
  /\ \E q \in turn[t].read + 1 .. 2 * Len(turn[t].lines) :
       LET s == turn[t].lines
           new == Parsed(s, turn[t].read, q)
       IN  turn' = [turn EXCEPT
                      ![t].read = q,
                      ![t].ends = @ \cup {q},
                      ![t].text = @ \cup Of("content", s, new),
                      ![t].shown = @ \cup Of("reasoning", s, new)]
  /\ UNCHANGED <<isGenerating, chatHistory, attached, reading, image>>

\* The stream is done: at its end, or early, even before the first line, when the
\* proxy's copy from llama-server fails and the response ends like any other.  The
\* text read so far is pushed as the answer.
EndStream(t) ==
  /\ turn[t].stage = "streaming"
  /\ turn' = [turn EXCEPT ![t].stage = "kept"]
  /\ chatHistory' = Append(chatHistory, t)
  /\ isGenerating' = FALSE
  /\ UNCHANGED <<attached, reading, image>>

BreakStreamKeeps(t) ==               \* pushes the pair before the try
  /\ turn[t].stage = "streaming"
  /\ turn' = [turn EXCEPT ![t].stage = "failed", ![t].shown = {}]
  /\ chatHistory' = Append(chatHistory, t)
  /\ isGenerating' = FALSE
  /\ UNCHANGED <<attached, reading, image>>

\* reader.read() rejects: an error replaces what was shown, nothing is pushed.
BreakStream(t) ==
  /\ turn[t].stage = "streaming"
  /\ turn' = [turn EXCEPT ![t].stage = "failed", ![t].shown = {}]
  /\ isGenerating' = FALSE
  /\ UNCHANGED <<chatHistory, attached, reading, image>>

Next ==
  \/ AttachImage
  \/ \E i \in reading : ImageLoaded(i)
  \/ RemoveImage
  \/ \E hasText \in BOOLEAN : sendChatMessage(hasText)
  \/ \E t \in Turns : \/ Answered(t)
                      \/ Refused(t)
                      \/ ReadChunk(t)
                      \/ EndStream(t)
                      \/ BreakStream(t)

Spec == Init /\ [][Next]_vars
-----------------------------------------------------------------------------
Lines(t) == 1 .. Len(turn[t].lines)
Entries(s) == {s[k] : k \in 1 .. Len(s)}

TurnRecord ==
  [stage : {"asked", "streaming", "kept", "failed"}, lines : Streams \cup {<<>>},
   read : Nat, ends : SUBSET Nat, text : SUBSET Nat, shown : SUBSET Nat,
   image : Nat, context : Seq(Nat)]

\* Every variable has its type, and what was read of an answer is in it; no
\* image is in the input before its FileReader is done.
TypeOK ==
  /\ isGenerating \in BOOLEAN
  /\ turn \in Seq(TurnRecord)
  /\ \A t \in Turns : /\ turn[t].read <= 2 * Len(turn[t].lines)
                      /\ turn[t].ends \subseteq 1 .. turn[t].read
                      /\ turn[t].text \cup turn[t].shown \subseteq Lines(t)
                      /\ turn[t].image <= attached
  /\ chatHistory \in Seq(Turns)
  /\ attached \in Nat
  /\ reading \subseteq 1 .. attached
  /\ image \in (0 .. attached) \ reading

\* isGenerating is set exactly while a turn is under way, and it is the last
\* one: two answers are never read at the same time (sendChatMessage's guard
\* and its four ways out).
OneTurnAtATime ==
  /\ isGenerating = (Active # {})
  /\ \A t \in Active : t = Len(turn)

\* The history holds the turns whose response ended without an error, each once
\* and in the order they were asked.
HistoryInOrder ==
  /\ Entries(chatHistory) = Kept
  /\ \A j, k \in 1 .. Len(chatHistory) : j < k => chatHistory[j] < chatHistory[k]

\* Messages, contexts and history change only as Conversation says: the turn
\* under way alone, at the end of its response, complete or cut short, becomes
\* context; one that is refused, fails or breaks off with an error never does.
Promise == INSTANCE Conversation WITH
             busy <- isGenerating, ended <- Kept, history <- chatHistory,
             contexts <- [t \in Turns |-> turn[t].context]
ConversationKept == Promise!Spec

\* The context a message was sent with is all that was ever kept before it:
\* no answer that ends later could have belonged into it.
ContextIsComplete ==
  \A t \in Turns :
    Entries(turn[t].context) = {u \in Kept : u < t}

\* However a response is cut into chunks, its text and the reasoning on the page
\* are made of exactly those lines read so far that no cut went through.
TextIsWholeLines ==
  \A t \in Turns :
    LET s == turn[t].lines
        whole == {i \in Lines(t) : 2 * i <= turn[t].read /\ 2 * i - 1 \notin turn[t].ends}
    IN  /\ turn[t].text = Of("content", s, whole)
        /\ t \in Active \cup Kept =>
             Of("reasoning", s, turn[t].shown) = Of("reasoning", s, whole)

\* An image the user attached is sent with one message at most, and one that
\* was sent never comes back into the input.
ImageSentOnce ==
  \A t \in Turns :
    turn[t].image # 0 => /\ image # turn[t].image
                         /\ turn[t].image \notin reading
                         /\ \A u \in Turns : turn[u].image = turn[t].image => u = t

\* README: streamed answers appear token by token.  The page shows the text that
\* was received.
TokensAreShown == \A t \in Active \cup Kept : turn[t].text \subseteq turn[t].shown
=============================================================================
