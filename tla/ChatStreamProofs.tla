-------------------------- MODULE ChatStreamProofs ---------------------------
(* The chat for any number of turns and images and any responses.  A turn     *)
(* under way is the only one and the last, so what ends is appended in order; *)
(* what one chunk adds is judged by the last chunk's end alone.               *)
EXTENDS ChatStream, SequenceTheorems, TLAPS

\* What holds of each turn on its own.
Uncut(s, q, ends) == {i \in 1 .. Len(s) : 2 * i <= q /\ 2 * i - 1 \notin ends}
WholeSoFar(r) == Uncut(r.lines, r.read, r.ends)

Sound(r) ==
  /\ r.read <= 2 * Len(r.lines)
  /\ r.ends \subseteq 1 .. r.read
  /\ r.read # 0 => r.read \in r.ends
  /\ r.text = Of("content", r.lines, WholeSoFar(r))
  /\ r.shown = IF r.stage = "failed" THEN {} ELSE Of("reasoning", r.lines, WholeSoFar(r))
  /\ r.stage = "asked" => r.lines = <<>> /\ r.read = 0

ImagesOK ==
  /\ attached \in Nat
  /\ reading \subseteq 1 .. attached
  /\ image \in (0 .. attached) \ reading
  /\ \A t \in Turns : turn[t].image <= attached

\* The conjunction that every step preserves.
IInv ==
  /\ isGenerating \in BOOLEAN
  /\ turn \in Seq(TurnRecord)
  /\ \A t \in Turns : Sound(turn[t])
  /\ chatHistory \in Seq(Turns)
  /\ ImagesOK
  /\ OneTurnAtATime
  /\ HistoryInOrder
  /\ ContextIsComplete
  /\ ImageSentOnce

\* Appending one entry to a sequence of turns adds that turn and no other.
LEMMA EntriesAppend ==
  ASSUME NEW S, NEW s \in Seq(S), NEW e
  PROVE  Entries(Append(s, e)) = Entries(s) \cup {e}
<1>1. /\ Len(Append(s, e)) = Len(s) + 1
      /\ Len(s) \in Nat
      /\ \A k \in 1 .. Len(s) : Append(s, e)[k] = s[k]
      /\ Append(s, e)[Len(s) + 1] = e
  <2>1. s \in Seq(S \cup {e}) /\ e \in S \cup {e}
    OBVIOUS
  <2> QED BY <2>1
<1>2. 1 .. Len(s) + 1 = (1 .. Len(s)) \cup {Len(s) + 1}
  BY <1>1
<1> QED BY <1>1, <1>2 DEF Entries

LEMMA InitIInv == Init => IInv
<1> SUFFICES ASSUME Init PROVE IInv
  OBVIOUS
<1>1. Turns = {} /\ Active = {} /\ Kept = {} /\ Entries(chatHistory) = {}
  BY DEF Init, Turns, Active, Kept, Entries
<1>2. turn \in Seq(TurnRecord) /\ chatHistory \in Seq(Turns)
  BY DEF Init
<1>3. ImagesOK
  BY <1>1 DEF Init, ImagesOK
<1>4. OneTurnAtATime /\ ContextIsComplete /\ ImageSentOnce
  BY <1>1 DEF Init, OneTurnAtATime, ContextIsComplete, ImageSentOnce
<1>5. HistoryInOrder
  <2>1. 1 .. Len(chatHistory) = {}
    BY DEF Init
  <2> QED BY <1>1, <2>1 DEF HistoryInOrder
<1> QED BY <1>1, <1>2, <1>3, <1>4, <1>5 DEF Init, IInv

\* The image callbacks touch no turn; a new image is none that was sent.
LEMMA ImageStep ==
  ASSUME IInv, AttachImage \/ (\E i \in reading : ImageLoaded(i)) \/ RemoveImage
  PROVE  IInv'
<1>1. UNCHANGED <<isGenerating, turn, chatHistory>>
  BY DEF AttachImage, ImageLoaded, RemoveImage
<1>2. Turns' = Turns /\ Active' = Active /\ Kept' = Kept
  BY <1>1 DEF Turns, Active, Kept
<1>3. OneTurnAtATime' /\ HistoryInOrder' /\ ContextIsComplete'
  BY <1>1, <1>2 DEF IInv, OneTurnAtATime, HistoryInOrder, ContextIsComplete, Entries
<1>4. \A t \in Turns : turn[t].image \in Nat
  <2>1. \A t \in Turns : turn[t] \in TurnRecord
    BY DEF IInv, Turns
  <2> QED BY <2>1 DEF TurnRecord
<1>5. ImagesOK' /\ ImageSentOnce'
  <2>1. CASE AttachImage
    BY <1>1, <1>2, <1>4, <2>1 DEF IInv, AttachImage, ImagesOK, ImageSentOnce
  <2>2. CASE \E i \in reading : ImageLoaded(i)
    BY <1>1, <1>2, <1>4, <2>2 DEF IInv, ImageLoaded, ImagesOK, ImageSentOnce
  <2>3. CASE RemoveImage
    BY <1>1, <1>2, <1>4, <2>3 DEF IInv, RemoveImage, ImagesOK, ImageSentOnce
  <2> QED BY <2>1, <2>2, <2>3
<1> QED BY <1>1, <1>2, <1>3, <1>5 DEF IInv

\* A message is sent while no turn is under way: it becomes the last turn, and
\* the history it takes along is complete.
LEMMA SendStep ==
  ASSUME IInv, NEW hasText \in BOOLEAN, sendChatMessage(hasText)
  PROVE  IInv'
<1> DEFINE n == Len(turn) + 1
<1>1. NewTurn \in TurnRecord
  <2>1. chatHistory \in Seq(Nat)
    BY DEF IInv, Turns
  <2>2. image \in Nat
    BY DEF IInv, ImagesOK
  <2> QED BY <2>1, <2>2 DEF NewTurn, TurnRecord
<1>2. /\ Len(turn) \in Nat
      /\ turn' \in Seq(TurnRecord)
      /\ Len(turn') = n
      /\ Turns' = Turns \cup {n}
      /\ n \notin Turns
      /\ \A t \in Turns : t < n /\ turn'[t] = turn[t]
      /\ turn'[n] = NewTurn
  BY <1>1 DEF IInv, sendChatMessage, Ask, Turns
<1>3. Active = {} /\ Active' = {n} /\ Kept' = Kept
  <2>1. Active = {}
    BY DEF IInv, OneTurnAtATime, sendChatMessage
  <2>2. Active' = {n}
    BY <1>2, <2>1 DEF Active, NewTurn
  <2>3. Kept' = Kept
    BY <1>2 DEF Kept, NewTurn
  <2> QED BY <2>1, <2>2, <2>3
<1>4. UNCHANGED <<chatHistory, attached, reading>> /\ image' = 0 /\ isGenerating' = TRUE
  BY DEF sendChatMessage, Ask
<1>5. \A t \in Turns' : Sound(turn'[t])
  <2>1. Sound(NewTurn)
    BY DEF Sound, NewTurn, Of, WholeSoFar, Uncut
  <2> QED BY <1>2, <2>1 DEF IInv
<1>6. chatHistory' \in Seq(Turns')
  BY <1>2, <1>4 DEF IInv
<1>7. ImagesOK'
  BY <1>2, <1>4 DEF IInv, ImagesOK, NewTurn
<1>8. OneTurnAtATime'
  BY <1>2, <1>3, <1>4 DEF OneTurnAtATime
<1>9. HistoryInOrder'
  BY <1>3, <1>4 DEF IInv, HistoryInOrder, Entries
<1>10. ContextIsComplete'
  <2>1. \A t \in Turns : {u \in Kept' : u < t} = {u \in Kept : u < t}
    BY <1>3
  <2>2. {u \in Kept' : u < n} = Entries(turn'[n].context)
    BY <1>2, <1>3 DEF IInv, HistoryInOrder, NewTurn, Kept
  <2>3. \A t \in Turns : Entries(turn'[t].context) = Entries(turn[t].context)
    BY <1>2
  <2> QED BY <1>2, <2>1, <2>2, <2>3 DEF IInv, ContextIsComplete
<1>11. ImageSentOnce'
  <2>1. \A t \in Turns : turn[t].image # 0 => turn[t].image # image
    BY DEF IInv, ImageSentOnce
  <2>2. turn'[n].image = image
    BY <1>2 DEF NewTurn
  <2>3. ASSUME NEW t \in Turns', turn'[t].image # 0
        PROVE  turn'[t].image # image' /\ turn'[t].image \notin reading'
    <3>1. image \notin reading
      BY DEF IInv, ImagesOK
    <3>2. CASE t = n
      BY <1>4, <2>2, <2>3, <3>1, <3>2
    <3>3. CASE t \in Turns
      <4>1. turn[t].image # 0 => turn[t].image \notin reading
        BY <3>3 DEF IInv, ImageSentOnce
      <4> QED BY <1>2, <1>4, <2>3, <3>3, <4>1
    <3> QED BY <1>2, <3>2, <3>3
  <2>4. \A t, u \in Turns' : turn'[t].image # 0 /\ turn'[u].image = turn'[t].image => u = t
    BY <1>2, <2>1, <2>2 DEF IInv, ImageSentOnce
  <2> QED BY <2>3, <2>4 DEF ImageSentOnce
<1> QED BY <1>2, <1>4, <1>5, <1>6, <1>7, <1>8, <1>9, <1>10, <1>11 DEF IInv

\* A step of the turn under way replaces its record by another sound one; the
\* turn enters the history if and only if it is kept.
LEMMA TurnStep ==
  ASSUME IInv, NEW t \in Turns, turn[t].stage \in {"asked", "streaming"},
         NEW r \in TurnRecord, Sound(r),
         r.image = turn[t].image, r.context = turn[t].context,
         turn' = [turn EXCEPT ![t] = r],
         chatHistory' = IF r.stage = "kept" THEN Append(chatHistory, t) ELSE chatHistory,
         isGenerating' \in BOOLEAN, isGenerating' <=> r.stage \in {"asked", "streaming"},
         UNCHANGED <<attached, reading, image>>
  PROVE  IInv'
<1>1. /\ turn' \in Seq(TurnRecord)
      /\ Len(turn') = Len(turn)
      /\ Turns' = Turns
      /\ turn'[t] = r
      /\ \A u \in Turns : u # t => turn'[u] = turn[u]
      /\ \A u \in Turns : turn'[u].image = turn[u].image /\ turn'[u].context = turn[u].context
  BY DEF IInv, Turns
<1>2. Active = {t} /\ t = Len(turn) /\ t \notin Kept
  BY DEF IInv, OneTurnAtATime, Active, Kept
<1>3. Active' = IF r.stage \in {"asked", "streaming"} THEN {t} ELSE {}
  <2>1. \A u \in Turns : u # t => u \notin Active
    BY <1>2
  <2> QED BY <1>1, <2>1 DEF Active
<1>4. Kept' = IF r.stage = "kept" THEN Kept \cup {t} ELSE Kept
  BY <1>1, <1>2 DEF Kept
<1>5. \A u \in Turns : u \in Nat /\ u <= t
  BY <1>2 DEF Turns
<1>6. \A u \in Turns' : Sound(turn'[u])
  BY <1>1 DEF IInv
<1>7. chatHistory' \in Seq(Turns')
  BY <1>1 DEF IInv
<1>8. ImagesOK'
  BY <1>1 DEF IInv, ImagesOK
<1>9. OneTurnAtATime'
  BY <1>1, <1>2, <1>3 DEF OneTurnAtATime
<1>10. HistoryInOrder'
  <2>1. CASE r.stage = "kept"
    <3> DEFINE m == Len(chatHistory)
    <3>1. /\ m \in Nat /\ Len(chatHistory') = m + 1
          /\ chatHistory'[m + 1] = t
          /\ \A k \in 1 .. m : chatHistory'[k] = chatHistory[k] /\ chatHistory[k] \in Turns
      BY <2>1 DEF IInv
    <3>2. Entries(chatHistory') = Entries(chatHistory) \cup {t}
      BY <2>1, EntriesAppend DEF IInv
    <3>3. \A k \in 1 .. m : chatHistory[k] < t
      <4>1. \A k \in 1 .. m : chatHistory[k] \in Kept
        BY <3>1 DEF IInv, HistoryInOrder, Entries
      <4> QED BY <1>2, <1>5, <3>1, <4>1
    <3>4. \A j, k \in 1 .. m + 1 : j < k => chatHistory'[j] < chatHistory'[k]
      BY <3>1, <3>3 DEF IInv, HistoryInOrder
    <3> HIDE DEF m
    <3>5. \A j, k \in 1 .. Len(chatHistory') : j < k => chatHistory'[j] < chatHistory'[k]
      BY <3>1, <3>4
    <3> QED BY <1>4, <2>1, <3>2, <3>5 DEF IInv, HistoryInOrder
  <2>2. CASE r.stage # "kept"
    BY <1>4, <2>2 DEF IInv, HistoryInOrder, Entries
  <2> QED BY <2>1, <2>2
<1>11. ContextIsComplete'
  <2>1. \A u \in Turns : {v \in Kept' : v < u} = {v \in Kept : v < u}
    BY <1>4, <1>5
  <2> QED BY <1>1, <2>1 DEF IInv, ContextIsComplete, Entries
<1>12. ImageSentOnce'
  BY <1>1 DEF IInv, ImageSentOnce
<1> QED BY <1>1, <1>6, <1>7, <1>8, <1>9, <1>10, <1>11, <1>12 DEF IInv

\* A line that ends in this chunk and was not cut began after the last chunk.
LEMMA ChunkAddsWholeLines ==
  ASSUME NEW s \in Streams \cup {<<>>}, NEW p \in Nat, NEW q \in p + 1 .. 2 * Len(s),
         NEW ends \in SUBSET (1 .. p), p # 0 => p \in ends,
         NEW kind \in {"content", "reasoning"}
  PROVE  Of(kind, s, Uncut(s, q, ends \cup {q}))
           = Of(kind, s, Uncut(s, p, ends)) \cup Of(kind, s, Parsed(s, p, q))
<1>1. Len(s) \in Nat /\ \A i \in 1 .. Len(s) : s[i] = "done" => i = Len(s)
  BY StreamsAssumption
<1>2. \A i \in 1 .. Len(s) : s[i] = kind => \A j \in 1 .. Len(s) : j <= i => s[j] # "done"
  BY <1>1
<1>3. \A i \in 1 .. Len(s) : s[i] = kind => (i \in Parsed(s, p, q) <=> p <= 2 * i - 2 /\ 2 * i <= q)
  BY <1>2 DEF Parsed, WholeLines
<1>4. \A i \in 1 .. Len(s) :
        (2 * i <= q /\ 2 * i - 1 \notin ends \cup {q})
          <=> \/ 2 * i <= p /\ 2 * i - 1 \notin ends
              \/ p <= 2 * i - 2 /\ 2 * i <= q
  BY <1>1
<1>5. Parsed(s, p, q) \subseteq 1 .. Len(s)
  BY DEF Parsed, WholeLines
<1> QED BY <1>3, <1>4, <1>5 DEF Of, Uncut

\* A chunk keeps the record of its turn sound.
LEMMA ReadStep ==
  ASSUME IInv, NEW t \in Turns, ReadChunk(t)
  PROVE  IInv'
<1> DEFINE s == turn[t].lines
           p == turn[t].read
<1>1. turn[t] \in TurnRecord /\ Sound(turn[t]) /\ turn[t].stage = "streaming"
  BY DEF IInv, Turns, ReadChunk
<1>2. PICK q \in p + 1 .. 2 * Len(s) :
        turn' = [turn EXCEPT
                   ![t].read = q,
                   ![t].ends = @ \cup {q},
                   ![t].text = @ \cup Of("content", s, Parsed(s, p, q)),
                   ![t].shown = @ \cup Of("reasoning", s, Parsed(s, p, q))]
  BY DEF ReadChunk
<1> DEFINE r == [turn[t] EXCEPT
                   !.read = q,
                   !.ends = @ \cup {q},
                   !.text = @ \cup Of("content", s, Parsed(s, p, q)),
                   !.shown = @ \cup Of("reasoning", s, Parsed(s, p, q))]
<1>3. turn' = [turn EXCEPT ![t] = r]
  BY <1>2 DEF IInv, Turns
<1>4. p \in Nat /\ s \in Streams \cup {<<>>} /\ Len(s) \in Nat /\ q \in Nat
  BY <1>1, StreamsAssumption DEF TurnRecord
<1>5. r \in TurnRecord
  <2>1. Parsed(s, p, q) \subseteq Nat
    BY <1>4 DEF Parsed, WholeLines
  <2>2. /\ Of("content", s, Parsed(s, p, q)) \subseteq Nat
        /\ Of("reasoning", s, Parsed(s, p, q)) \subseteq Nat
    BY <2>1 DEF Of
  <2> QED BY <1>1, <1>4, <2>2 DEF TurnRecord
<1>6. /\ r.read = q /\ r.lines = s /\ r.stage = "streaming"
      /\ r.ends = turn[t].ends \cup {q}
      /\ r.text = turn[t].text \cup Of("content", s, Parsed(s, p, q))
      /\ r.shown = turn[t].shown \cup Of("reasoning", s, Parsed(s, p, q))
      /\ r.image = turn[t].image /\ r.context = turn[t].context
  BY <1>1 DEF TurnRecord
<1>7. Sound(r)
  <2>1. turn[t].ends \in SUBSET (1 .. p) /\ (p # 0 => p \in turn[t].ends) /\ p <= 2 * Len(s)
    BY <1>1 DEF Sound
  <2>2. /\ turn[t].text = Of("content", s, WholeSoFar(turn[t]))
        /\ turn[t].shown = Of("reasoning", s, WholeSoFar(turn[t]))
    BY <1>1 DEF Sound
  <2> HIDE DEF s, p, r
  <2> DEFINE e == turn[t].ends
  <2>7. \A kind \in {"content", "reasoning"} :
          Of(kind, s, Uncut(s, q, e \cup {q}))
            = Of(kind, s, Uncut(s, p, e)) \cup Of(kind, s, Parsed(s, p, q))
    <3>1. e \in SUBSET (1 .. p) /\ (p # 0 => p \in e)
      BY <2>1
    <3>2. q \in p + 1 .. 2 * Len(s)
      OBVIOUS
    <3> HIDE DEF e
    <3> QED BY <1>4, <3>1, <3>2, ChunkAddsWholeLines
  <2>8. WholeSoFar(turn[t]) = Uncut(s, p, e)
    BY DEF WholeSoFar, s, p
  <2>9. WholeSoFar(r) = Uncut(s, q, e \cup {q})
    BY <1>6 DEF WholeSoFar
  <2>3. r.text = Of("content", s, WholeSoFar(r))
    <3>1. Of("content", s, WholeSoFar(r))
            = Of("content", s, WholeSoFar(turn[t])) \cup Of("content", s, Parsed(s, p, q))
      BY <2>7, <2>8, <2>9
    <3> QED BY <1>6, <2>2, <3>1
  <2>4. r.shown = Of("reasoning", s, WholeSoFar(r))
    <3>1. Of("reasoning", s, WholeSoFar(r))
            = Of("reasoning", s, WholeSoFar(turn[t])) \cup Of("reasoning", s, Parsed(s, p, q))
      BY <2>7, <2>8, <2>9
    <3> QED BY <1>6, <2>2, <3>1
  <2>5. r.read <= 2 * Len(r.lines) /\ r.ends \subseteq 1 .. r.read /\ r.read \in r.ends
    BY <1>2, <1>4, <1>6, <2>1
  <2>6. r.stage \notin {"asked", "failed"}
    BY <1>6
  <2> QED BY <1>6, <2>3, <2>4, <2>5, <2>6 DEF Sound
<1>8. UNCHANGED <<isGenerating, chatHistory, attached, reading, image>>
  BY DEF ReadChunk
<1>9. isGenerating' \in BOOLEAN /\ (isGenerating' <=> r.stage \in {"asked", "streaming"})
  BY <1>1, <1>6, <1>8 DEF IInv, OneTurnAtATime, Active
<1> HIDE DEF r
<1> QED BY <1>1, <1>3, <1>5, <1>6, <1>7, <1>8, <1>9, TurnStep

\* The record of a turn at its end: what was shown of it gives way to an error.
EndRecord(r, g) == [r EXCEPT !.stage = g, !.shown = IF g = "failed" THEN {} ELSE @]

\* Every way out of a turn leaves such a record; one that failed before it was
\* answered had nothing to show.
LEMMA TurnEnds ==
  ASSUME IInv, NEW t \in Turns, Refused(t) \/ EndStream(t) \/ BreakStream(t)
  PROVE  \E g \in {"failed", "kept"} :
           /\ turn' = [turn EXCEPT ![t] = EndRecord(turn[t], g)]
           /\ chatHistory' = IF g = "kept" THEN Append(chatHistory, t) ELSE chatHistory
           /\ isGenerating' = FALSE
           /\ UNCHANGED <<attached, reading, image>>
<1>1. turn[t] \in TurnRecord /\ Sound(turn[t])
  BY DEF IInv, Turns
<1>2. CASE Refused(t)
  <2>1. WholeSoFar(turn[t]) = {}
    BY <1>1, <1>2 DEF Refused, Sound, WholeSoFar, Uncut
  <2>2. turn[t].shown = {}
    BY <1>1, <1>2, <2>1 DEF Refused, Sound, Of
  <2>3. [turn[t] EXCEPT !.stage = "failed"] = EndRecord(turn[t], "failed")
    BY <1>1, <2>2 DEF TurnRecord, EndRecord
  <2> QED BY <1>2, <2>3 DEF Refused, IInv, Turns
<1>3. CASE EndStream(t)
  <2>1. [turn[t] EXCEPT !.stage = "kept"] = EndRecord(turn[t], "kept")
    BY <1>1 DEF TurnRecord, EndRecord
  <2> QED BY <1>3, <2>1 DEF EndStream, IInv, Turns
<1>4. CASE BreakStream(t)
  <2>1. [turn[t] EXCEPT !.stage = "failed", !.shown = {}] = EndRecord(turn[t], "failed")
    BY <1>1 DEF TurnRecord, EndRecord
  <2>2. turn' = [turn EXCEPT ![t] = [turn[t] EXCEPT !.stage = "failed", !.shown = {}]]
    BY <1>4 DEF BreakStream, IInv, Turns
  <2> QED BY <1>4, <2>1, <2>2 DEF BreakStream
<1> QED BY <1>2, <1>3, <1>4

\* The steps that only change a turn's stage, and the answer's beginning.
LEMMA StageStep ==
  ASSUME IInv, NEW t \in Turns,
         Answered(t) \/ Refused(t) \/ EndStream(t) \/ BreakStream(t)
  PROVE  IInv'
<1>1. turn[t] \in TurnRecord /\ Sound(turn[t]) /\ turn[t].stage \in {"asked", "streaming"}
  BY DEF IInv, Turns, Answered, Refused, EndStream, BreakStream
<1>2. isGenerating
  BY <1>1 DEF IInv, OneTurnAtATime, Active
<1>3. CASE Answered(t)
  <2>1. PICK s \in Streams : turn' = [turn EXCEPT ![t].stage = "streaming", ![t].lines = s]
    BY <1>3 DEF Answered
  <2> DEFINE r == [turn[t] EXCEPT !.stage = "streaming", !.lines = s]
  <2>2. turn' = [turn EXCEPT ![t] = r]
    BY <2>1 DEF IInv, Turns
  <2>3. r \in TurnRecord
    BY <1>1 DEF TurnRecord
  <2>4. /\ r.stage = "streaming" /\ r.lines = s /\ r.read = 0 /\ r.ends = turn[t].ends
        /\ r.text = turn[t].text /\ r.shown = turn[t].shown
        /\ r.image = turn[t].image /\ r.context = turn[t].context
    BY <1>1, <1>3 DEF TurnRecord, Sound, Answered
  <2>5. Sound(r)
    <3>1. turn[t].lines = <<>> /\ turn[t].read = 0
      BY <1>1, <1>3 DEF Sound, Answered
    <3>2. WholeSoFar(turn[t]) = {}
      BY <3>1 DEF WholeSoFar, Uncut
    <3>3. Len(s) \in Nat
      BY StreamsAssumption
    <3>4. WholeSoFar(r) = {}
      BY <2>4, <3>3 DEF WholeSoFar, Uncut
    <3>5. r.text = {} /\ r.shown = {}
      BY <1>1, <1>3, <2>4, <3>2 DEF Sound, Of, Answered
    <3> HIDE DEF r
    <3>6. /\ r.text = Of("content", r.lines, WholeSoFar(r))
          /\ r.shown = Of("reasoning", r.lines, WholeSoFar(r))
      BY <3>4, <3>5 DEF Of
    <3>7. r.read <= 2 * Len(r.lines) /\ r.ends \subseteq 1 .. r.read
      BY <1>1, <2>4, <3>1, <3>3 DEF Sound
    <3> QED BY <2>4, <3>6, <3>7 DEF Sound
  <2>6. UNCHANGED <<isGenerating, chatHistory, attached, reading, image>>
    BY <1>3 DEF Answered
  <2> HIDE DEF r
  <2> QED BY <1>1, <1>2, <2>2, <2>3, <2>4, <2>5, <2>6, TurnStep
<1>4. CASE Refused(t) \/ EndStream(t) \/ BreakStream(t)
  <2>1. PICK g \in {"failed", "kept"} :
          /\ turn' = [turn EXCEPT ![t] = EndRecord(turn[t], g)]
          /\ chatHistory' = IF g = "kept" THEN Append(chatHistory, t) ELSE chatHistory
          /\ isGenerating' = FALSE
          /\ UNCHANGED <<attached, reading, image>>
    BY <1>4, TurnEnds
  <2> DEFINE r == EndRecord(turn[t], g)
  <2>2. turn' = [turn EXCEPT ![t] = r]
    BY <2>1
  <2>3. r \in TurnRecord
    BY <1>1 DEF TurnRecord, EndRecord
  <2>4. /\ r.stage = g /\ r.lines = turn[t].lines /\ r.read = turn[t].read
        /\ r.ends = turn[t].ends /\ r.text = turn[t].text
        /\ r.shown = IF g = "failed" THEN {} ELSE turn[t].shown
        /\ r.image = turn[t].image /\ r.context = turn[t].context
    BY <1>1 DEF TurnRecord, EndRecord
  <2>5. Sound(r)
    <3>1. WholeSoFar(r) = WholeSoFar(turn[t])
      BY <2>4 DEF WholeSoFar, Uncut
    <3> HIDE DEF r
    <3> QED BY <1>1, <2>4, <3>1 DEF Sound
  <2> HIDE DEF r
  <2>6. /\ chatHistory' = IF r.stage = "kept" THEN Append(chatHistory, t) ELSE chatHistory
        /\ UNCHANGED <<attached, reading, image>>
    BY <2>1, <2>4
  <2>7. isGenerating' \in BOOLEAN /\ (isGenerating' <=> r.stage \in {"asked", "streaming"})
    <3>1. r.stage \notin {"asked", "streaming"}
      BY <2>4
    <3>2. isGenerating' = FALSE
      BY <2>1
    <3> QED BY <3>1, <3>2, Zenon
  <2>8. r.image = turn[t].image /\ r.context = turn[t].context
    BY <2>4
  <2> QED BY <1>1, <2>2, <2>3, <2>5, <2>6, <2>7, <2>8, TurnStep
<1> QED BY <1>3, <1>4

LEMMA NextIInv == IInv /\ [Next]_vars => IInv'
<1> SUFFICES ASSUME IInv, [Next]_vars PROVE IInv'
  OBVIOUS
<1>1. CASE AttachImage \/ (\E i \in reading : ImageLoaded(i)) \/ RemoveImage
  BY <1>1, ImageStep
<1>2. ASSUME NEW hasText \in BOOLEAN, sendChatMessage(hasText) PROVE IInv'
  BY <1>2, SendStep
<1>3. ASSUME NEW t \in Turns, ReadChunk(t) PROVE IInv'
  BY <1>3, ReadStep
<1>4. ASSUME NEW t \in Turns, Answered(t) \/ Refused(t) \/ EndStream(t) \/ BreakStream(t)
      PROVE  IInv'
  BY <1>4, StageStep
<1>5. CASE UNCHANGED vars
  BY <1>5 DEF vars, IInv, ImagesOK, OneTurnAtATime, HistoryInOrder, ContextIsComplete,
              ImageSentOnce, Turns, Active, Kept, Entries
<1> QED BY <1>1, <1>2, <1>3, <1>4, <1>5 DEF Next

LEMMA Inductive == Spec => []IInv
BY InitIInv, NextIInv, PTL DEF Spec

\* The type invariant of the chat.
THEOREM TypeCorrect == Spec => []TypeOK
<1>1. IInv => TypeOK
  <2> SUFFICES ASSUME IInv, NEW t \in Turns
      PROVE  turn[t].text \cup turn[t].shown \subseteq Lines(t)
    BY DEF IInv, TypeOK, ImagesOK, Sound
  <2> QED BY DEF IInv, Sound, Of, WholeSoFar, Uncut, Lines
<1> QED BY <1>1, Inductive, PTL

\* One answer is read at a time: the guard of sendChatMessage suffices.
THEOREM NoOverlap == Spec => []OneTurnAtATime
<1>1. IInv => OneTurnAtATime
  BY DEF IInv
<1> QED BY <1>1, Inductive, PTL

\* chatHistory is the conversation: the turns whose response ended without an
\* error, in order.
THEOREM HistoryKept == Spec => []HistoryInOrder
<1>1. IInv => HistoryInOrder
  BY DEF IInv
<1> QED BY <1>1, Inductive, PTL

\* Every request took along all of the conversation that there was ever to be
\* before it.
THEOREM ContextKept == Spec => []ContextIsComplete
<1>1. IInv => ContextIsComplete
  BY DEF IInv
<1> QED BY <1>1, Inductive, PTL

\* Chunk boundaries cost exactly the lines they go through, for every response
\* and every way to cut it.
THEOREM OnlyCutLinesAreLost == Spec => []TextIsWholeLines
<1>1. IInv => TextIsWholeLines
  <2> SUFFICES ASSUME IInv, NEW t \in Turns
      PROVE  /\ turn[t].text = Of("content", turn[t].lines, WholeSoFar(turn[t]))
             /\ t \in Active \cup Kept =>
                  Of("reasoning", turn[t].lines, turn[t].shown)
                    = Of("reasoning", turn[t].lines, WholeSoFar(turn[t]))
    BY DEF TextIsWholeLines, WholeSoFar, Uncut, Lines
  <2> QED BY DEF IInv, Sound, Of, Active, Kept
<1> QED BY <1>1, Inductive, PTL

\* Of an answer the page shows its reasoning at most: no line of its text appears,
\* whatever the response and however it is cut, since the first use of contentEl
\* for it throws and the catch of the loop swallows the error.
THEOREM OnlyReasoningIsShown ==
  Spec => [](\A t \in Turns : \A i \in turn[t].shown : turn[t].lines[i] = "reasoning")
<1>1. IInv => \A t \in Turns : \A i \in turn[t].shown : turn[t].lines[i] = "reasoning"
  BY DEF IInv, Sound, Of
<1> QED BY <1>1, Inductive, PTL

\* No image goes out with two messages.
THEOREM ImagesSentOnce == Spec => []ImageSentOnce
<1>1. IInv => ImageSentOnce
  BY DEF IInv
<1> QED BY <1>1, Inductive, PTL
-----------------------------------------------------------------------------
(* ChatStream implements Conversation.                                      *)

Contexts == [t \in Turns |-> turn[t].context]

LEMMA ContextsAreSequence ==
  ASSUME IInv
  PROVE  Contexts \in Seq(Seq(Nat)) /\ Len(Contexts) = Len(turn) /\ Len(turn) \in Nat
<1>1. Len(turn) \in Nat /\ \A t \in Turns : turn[t] \in TurnRecord
  BY DEF IInv, Turns
<1>2. \A t \in Turns : turn[t].context \in Seq(Nat)
  BY <1>1 DEF TurnRecord
<1> QED BY <1>1, <1>2 DEF Contexts, Turns

\* What keeps the turns, their contexts and their ends is a stutter.
LEMMA ConversationFrame ==
  ASSUME Len(turn') = Len(turn),
         \A t \in Turns : /\ turn'[t].context = turn[t].context
                          /\ turn'[t].stage = "kept" <=> turn[t].stage = "kept",
         UNCHANGED <<isGenerating, chatHistory>>
  PROVE  UNCHANGED Promise!vars
<1>1. Turns' = Turns
  BY DEF Turns
<1>2. Kept' = Kept /\ Contexts' = Contexts
  BY <1>1 DEF Kept, Contexts
<1> QED BY <1>2 DEF Promise!vars, Contexts

LEMMA ConversationSend ==
  ASSUME IInv, NEW hasText \in BOOLEAN, sendChatMessage(hasText)
  PROVE  Promise!Send
<1> DEFINE n == Len(turn) + 1
<1>1. /\ Len(turn) \in Nat
      /\ Len(turn') = n
      /\ Turns' = Turns \cup {n}
      /\ n \notin Turns
      /\ \A t \in Turns : turn'[t] = turn[t]
      /\ turn'[n] = NewTurn
  BY DEF IInv, sendChatMessage, Ask, Turns
<1>2. Kept' = Kept
  BY <1>1 DEF Kept, NewTurn
<1>3. Contexts' = Append(Contexts, chatHistory)
  <2> DEFINE C == Append(Contexts, chatHistory)
  <2>1. chatHistory \in Seq(Nat)
    BY DEF IInv, Turns
  <2>2. /\ C \in Seq(Seq(Nat)) /\ Len(C) = n
        /\ \A t \in Turns : C[t] = Contexts[t]
        /\ C[n] = chatHistory
    BY <2>1, ContextsAreSequence, AppendProperties DEF Turns
  <2>3. /\ Contexts' \in Seq(Seq(Nat)) /\ Len(Contexts') = n
        /\ \A t \in Turns' : Contexts'[t] = turn'[t].context
    <3>1. \A t \in Turns' : turn'[t].context \in Seq(Nat)
      <4>1. \A t \in Turns : turn[t] \in TurnRecord
        BY DEF IInv, Turns
      <4>2. \A t \in Turns : turn[t].context \in Seq(Nat)
        BY <4>1 DEF TurnRecord
      <4>3. turn'[n].context = chatHistory
        BY <1>1 DEF NewTurn
      <4> QED BY <1>1, <2>1, <4>2, <4>3
    <3> QED BY <1>1, <3>1 DEF Contexts, Turns
  <2>4. \A t \in 1 .. n : Contexts'[t] = C[t]
    <3>1. \A t \in Turns : Contexts'[t] = turn[t].context /\ Contexts[t] = turn[t].context
      BY <1>1, <2>3 DEF Contexts
    <3>2. Contexts'[n] = chatHistory
      <4>1. turn'[n].context = chatHistory
        BY <1>1 DEF NewTurn
      <4>2. n \in Turns'
        BY <1>1
      <4> QED BY <2>3, <4>1, <4>2
    <3>3. 1 .. n = Turns \cup {n}
      BY <1>1 DEF Turns
    <3>4. C[n] = Contexts'[n] /\ \A t \in Turns : C[t] = Contexts'[t]
      BY <2>2, <3>1, <3>2
    <3> HIDE DEF C
    <3> QED BY <3>3, <3>4
  <2> HIDE DEF C
  <2>5. Contexts' = C
    BY <1>1, <2>2, <2>3, <2>4, SeqEqual
  <2> QED BY <2>5 DEF C
<1> QED BY <1>2, <1>3 DEF Promise!Send, Contexts, sendChatMessage, Ask

\* The end of the turn under way, which is the last.
LEMMA ConversationEnd ==
  ASSUME IInv, NEW t \in Turns, EndStream(t) \/ Refused(t) \/ BreakStream(t)
  PROVE  Promise!Keep \/ Promise!Drop
<1>1. t \in Active /\ t = Len(turn) /\ isGenerating
  BY DEF IInv, OneTurnAtATime, Active, EndStream, Refused, BreakStream
<1>2. PICK g \in {"failed", "kept"} :
        /\ turn' = [turn EXCEPT ![t] = EndRecord(turn[t], g)]
        /\ chatHistory' = IF g = "kept" THEN Append(chatHistory, t) ELSE chatHistory
        /\ isGenerating' = FALSE
  BY TurnEnds
<1>3. /\ Turns' = Turns
      /\ \A u \in Turns : turn'[u].context = turn[u].context
      /\ \A u \in Turns : turn'[u].stage = IF u = t THEN g ELSE turn[u].stage
  <2>2. turn[t] \in TurnRecord
    BY DEF IInv, Turns
  <2>3. EndRecord(turn[t], g).context = turn[t].context /\ EndRecord(turn[t], g).stage = g
    BY <2>2 DEF TurnRecord, EndRecord
  <2>4. \A v : /\ [turn EXCEPT ![t] = v][t] = v /\ Len([turn EXCEPT ![t] = v]) = Len(turn)
               /\ \A u \in Turns \ {t} : [turn EXCEPT ![t] = v][u] = turn[u]
    BY DEF IInv, Turns
  <2> QED BY <1>2, <2>3, <2>4 DEF Turns
<1>4. Contexts' = Contexts /\ Len(Contexts) = t
  BY <1>1, <1>3, ContextsAreSequence DEF Contexts
<1>5. Kept' = IF g = "kept" THEN Kept \cup {t} ELSE Kept
  BY <1>1, <1>3 DEF Kept, Active
<1>6. CASE g = "kept"
  BY <1>1, <1>2, <1>4, <1>5, <1>6 DEF Promise!Keep, Contexts
<1>7. CASE g = "failed"
  BY <1>1, <1>2, <1>4, <1>5, <1>7 DEF Promise!Drop, Contexts
<1> QED BY <1>6, <1>7

LEMMA ConversationNext == IInv /\ [Next]_vars => [Promise!Next]_(Promise!vars)
<1> SUFFICES ASSUME IInv, [Next]_vars PROVE [Promise!Next]_(Promise!vars)
  OBVIOUS
<1>1. CASE UNCHANGED <<isGenerating, turn, chatHistory>>
  BY <1>1, ConversationFrame
<1>2. ASSUME NEW hasText \in BOOLEAN, sendChatMessage(hasText)
      PROVE  [Promise!Next]_(Promise!vars)
  BY <1>2, ConversationSend DEF Promise!Next
<1>3. ASSUME NEW t \in Turns, Answered(t) \/ ReadChunk(t)
      PROVE  [Promise!Next]_(Promise!vars)
  <2>1. turn[t] \in TurnRecord /\ turn[t].stage \in {"asked", "streaming"}
    <3>1. turn[t].stage \in {"asked", "streaming"}
      BY <1>3 DEF Answered, ReadChunk
    <3> QED BY <3>1 DEF IInv, Turns
  <2>2. UNCHANGED <<isGenerating, chatHistory>>
    BY <1>3 DEF Answered, ReadChunk
  <2>3. ASSUME NEW r, turn' = [turn EXCEPT ![t] = r], r.context = turn[t].context,
               r.stage = "streaming"
        PROVE  UNCHANGED Promise!vars
    <3>1. /\ Len(turn') = Len(turn)
          /\ \A u \in Turns : turn'[u] = IF u = t THEN r ELSE turn[u]
      BY <2>3 DEF IInv, Turns
    <3> QED BY <2>1, <2>2, <2>3, <3>1, ConversationFrame
  <2>4. CASE Answered(t)
    <3>1. PICK s \in Streams :
            turn' = [turn EXCEPT ![t] = [turn[t] EXCEPT !.stage = "streaming", !.lines = s]]
      BY <2>4 DEF Answered, IInv, Turns
    <3> DEFINE r == [turn[t] EXCEPT !.stage = "streaming", !.lines = s]
    <3>2. r.context = turn[t].context /\ r.stage = "streaming"
      BY <2>1 DEF TurnRecord
    <3> HIDE DEF r
    <3> QED BY <2>3, <3>1, <3>2 DEF r
  <2>5. CASE ReadChunk(t)
    <3>1. PICK q, e, a, b :
            turn' = [turn EXCEPT ![t] = [turn[t] EXCEPT !.read = q, !.ends = e,
                                                        !.text = a, !.shown = b]]
      <4>1. PICK q : turn' = [turn EXCEPT
                 ![t].read = q,
                 ![t].ends = @ \cup {q},
                 ![t].text = @ \cup Of("content", turn[t].lines, Parsed(turn[t].lines, turn[t].read, q)),
                 ![t].shown = @ \cup Of("reasoning", turn[t].lines,
                                        Parsed(turn[t].lines, turn[t].read, q))]
        BY <2>5 DEF ReadChunk
      <4>2. turn' = [turn EXCEPT ![t] = [turn[t] EXCEPT
                 !.read = q,
                 !.ends = @ \cup {q},
                 !.text = @ \cup Of("content", turn[t].lines, Parsed(turn[t].lines, turn[t].read, q)),
                 !.shown = @ \cup Of("reasoning", turn[t].lines,
                                     Parsed(turn[t].lines, turn[t].read, q))]]
        BY <4>1 DEF IInv, Turns
      <4> QED BY <4>2
    <3> DEFINE r == [turn[t] EXCEPT !.read = q, !.ends = e, !.text = a, !.shown = b]
    <3>2. r.context = turn[t].context /\ r.stage = "streaming"
      BY <2>1, <2>5 DEF TurnRecord, ReadChunk
    <3> HIDE DEF r
    <3> QED BY <2>3, <3>1, <3>2 DEF r
  <2> QED BY <1>3, <2>4, <2>5
<1>4. ASSUME NEW t \in Turns, EndStream(t) \/ Refused(t) \/ BreakStream(t)
      PROVE  [Promise!Next]_(Promise!vars)
  BY <1>4, ConversationEnd DEF Promise!Next
<1>5. CASE AttachImage \/ (\E i \in reading : ImageLoaded(i)) \/ RemoveImage
  BY <1>1, <1>5 DEF AttachImage, ImageLoaded, RemoveImage
<1>6. CASE UNCHANGED vars
  BY <1>1, <1>6 DEF vars
<1> QED BY <1>2, <1>3, <1>4, <1>5, <1>6 DEF Next

\* A message is asked alone and with the conversation as it stands, and a turn
\* becomes part of the conversation if and only if its response ended without an
\* error, complete or cut short.
THEOREM ImplementsConversation == Spec => ConversationKept
<1>1. Init => Promise!Init
  BY DEF Init, Promise!Init, Kept, Turns
<1> QED BY <1>1, Inductive, ConversationNext, PTL
        DEF Spec, ConversationKept, Promise!Spec
=============================================================================
