------------------------ MODULE PiVoiceClientProofs ------------------------
(***************************************************************************)
(* Proofs about PiVoiceClient, for any number of turns, sessions, deltas   *)
(* and chunks: its safety properties, from one inductive invariant. What   *)
(* is on the wire is part of it: which player each message of the server   *)
(* will meet (Playing, Closing), and how what the client has sent          *)
(* continues what the server has handled (Dictating).                      *)
(***************************************************************************)
EXTENDS PiVoiceClient, SequenceTheorems, WellFoundedInduction, TLAPS

-----------------------------------------------------------------------------
(* The inductive invariant *)

\* What waits to be read: the message whose handler waits, and those behind it.
Pos == 0..Len(outbox)
At(i) == IF i = 0 THEN waiting ELSE outbox[i]

OutKinds == {"none", "turn.started", "interrupted", "cancelled", "assistant.start", "assistant.end",
             "audio.start", "audio.chunk", "audio.end"}
InKinds == OtherKinds \union {"audio"}
OutMessages == [kind : OutKinds, turn : 0..MaxTurns]
InMessages == [kind : InKinds, turn : Nat]

WireTypes ==
  /\ socket \in {"open", "closed"} /\ loop \in {"idle", "gone"}
  /\ inbox \in Seq(InMessages) /\ outbox \in Seq(OutMessages)
TurnTypes ==
  /\ session \in Sessions /\ turns \in 0..MaxTurns
  /\ activeTurn \in 0..turns /\ replyTask \in 0..turns /\ collecting \in 0..turns
  /\ conversation \in [Turns -> Sessions] /\ pcm \in [Turns -> Seq(Nat)]
TaskTypes ==
  /\ reply \in [Turns -> {"none", "created", "starting", "streaming", "sending", "speech",
                          "ending", "failing", "done"}]
  /\ speech \in [Turns -> {"none", "opening", "speaking", "dropped", "cancelled", "failed",
                           "done"}]
  /\ deltas \in [Turns -> 0..MaxDeltas]
  /\ fed \subseteq 1..turns /\ sounded \subseteq 1..turns /\ ttsSocket \in {"none", "open"}
FileTypes ==
  /\ history \in [Sessions -> Seq(Turns)] /\ prior \in [Turns -> Seq(Turns)]
  /\ record \in [Turns -> {"none", "no_input", "reply", "interrupted", "error"}]
  /\ cancelled \subseteq 1..turns
ClientTypes ==
  /\ device \in {"pi", "other", "gone"} /\ waiting \in OutMessages
  /\ heard \in Seq(Levels) /\ Len(heard) <= MaxChunks /\ preroll \in 1..(MaxChunks + 1)
  /\ turnActive \in BOOLEAN /\ userSpeaking \in BOOLEAN /\ speechStarted \in BOOLEAN
  /\ pendingSilence \in Seq(Nat) /\ mic \in {"idle", "stopping"}
  /\ player \in [state : {"none", "open", "ended"}, of : 0..MaxTurns, sounds : SUBSET Turns]
Types == WireTypes /\ TurnTypes /\ TaskTypes /\ FileTypes /\ ClientTypes

\* One reply at a time, and none while a turn is active.
Resting == {"none", "done"}
Turning ==
  /\ \A t \in Turns : reply[t] \notin Resting => replyTask = t
  /\ activeTurn # None => replyTask = None /\ reply[activeTurn] = "none"
  /\ \A t \in Turns : t > turns => reply[t] = "none" /\ pcm[t] = <<>>
  /\ loop = "gone" => ~Open

\* What is recorded of a turn fits how far its tasks are.
Answering == {"streaming", "sending", "speech"}
Recorded(t) ==
  /\ reply[t] = "ending" => speech[t] = "done"
  /\ t \in cancelled => reply[t] = "done" /\ record[t] # "reply"
  /\ record[t] = "reply" => reply[t] \in {"ending", "done"}
  /\ record[t] = "error" => reply[t] \in {"failing", "done"}
  /\ reply[t] = "failing" => record[t] = "error"
  /\ reply[t] \in {"none", "created", "starting"} => speech[t] = "none" /\ deltas[t] = 0
  /\ reply[t] = "sending" => deltas[t] < MaxDeltas
  /\ SpeechRuns(t) => reply[t] \in Answering \/ record[t] = "error" \/ deltas[t] = 0
Recording == \A t \in Turns : Recorded(t)

\* The agent's stream adds to the history as it still is.
Remembering ==
  \A t \in Turns : reply[t] \in {"streaming", "sending"} => prior[t] = history[conversation[t]]

\* The last start of a player before j is that of t.
LastStart(i, j) ==
  /\ i \in 0..(j - 1) /\ At(i).kind = "audio.start"
  /\ \A k \in (i + 1)..(j - 1) : At(k).kind # "audio.start"
NoStart(j) == \A i \in 0..(j - 1) : At(i).kind # "audio.start"
Belongs(j, t) ==
  /\ \A i \in 0..(j - 1) : LastStart(i, j) => At(i).turn = t
  /\ NoStart(j) /\ player.state = "open" => player.of = t

\* Whose audio is on its way belongs to the player it will meet.
Begun(t) == t \in Turns /\ reply[t] \notin {"none", "created"}
Playing ==
  /\ PlayerHearsOneReply
  /\ player.state = "open" => Begun(player.of)
  /\ \A i \in Pos : At(i).kind = "audio.start" => Begun(At(i).turn)
  /\ \A j \in Pos : At(j).kind = "audio.chunk" =>
       /\ At(j).turn \in Turns
       /\ record[At(j).turn] = "error" \/ Belongs(j, At(j).turn)
  /\ Open => \A t \in Turns : reply[t] \in Answering => Belongs(Len(outbox) + 1, t)

\* A player that was opened for a reply that is over will be closed.
Closer(k) == At(k).kind \in {"audio.start", "audio.end", "cancelled", "interrupted"}
Closed(t) ==
  /\ player.state = "open" /\ player.of = t => \E k \in Pos : Closer(k)
  /\ \A i \in Pos : At(i).kind = "audio.start" /\ At(i).turn = t =>
       \E k \in Pos : i < k /\ Closer(k)
Over(t) == speech[t] = "done" \/ (reply[t] = "done" /\ record[t] # "error")
Closing == Open => \A t \in Turns : Over(t) => Closed(t)

\* What a pi sends, message by message.
May(m, n) ==
  /\ m.kind \in {"turn.start", "audio"} =>
       \/ n.kind = "turn.end"
       \/ n.kind = "audio" /\ (m.kind = "audio" => n.turn = m.turn + 1)
  /\ m.kind = "interrupt" => n.kind = "turn.start"
  /\ m.kind \in {"hello", "turn.end"} => n.kind \in {"interrupt", "turn.start"}
Chain(s) ==
  /\ \A i \in 1..Len(s) : s[i].kind # "session.reset"
  /\ \A i \in 1..(Len(s) - 1) : May(s[i], s[i + 1])

\* The first of it is what the server's turn is ready for.
Fresh == activeTurn = None \/ pcm[activeTurn] = <<>>
Expected ==
  inbox # <<>> =>
    /\ inbox[1].kind = "audio" => Fresh \/ inbox[1].turn = Last(pcm[activeTurn]) + 1
    /\ inbox[1].kind \in {"hello", "interrupt", "turn.start"} => activeTurn = None

\* The last of it is where the client's turn is.
LastSent == Len(heard) - Len(pendingSilence)
Told ==
  /\ IF turnActive
     THEN /\ \A i \in 1..Len(pendingSilence) : pendingSilence[i] = LastSent + i
          /\ IF inbox = <<>>
             THEN Fresh \/ (speechStarted /\ Last(pcm[activeTurn]) = LastSent)
             ELSE \/ Last(inbox).kind = "turn.start" /\ ~speechStarted
                  \/ Last(inbox).kind = "audio" /\ speechStarted /\ Last(inbox).turn = LastSent
     ELSE IF inbox = <<>> THEN activeTurn = None
          ELSE Last(inbox).kind \in {"hello", "turn.end"}
  /\ ~speechStarted => pendingSilence = <<>>
Silent ==
  turnActive /\ (\A i \in 1..Len(inbox) : inbox[i].kind # "turn.start") =>
    \A t \in Turns : reply[t] \in Resting
Ordered == Chain(inbox) /\ Expected /\ Told /\ Silent

Dictating ==
  /\ waiting # NoMessage => mic = "stopping"
  /\ mic = "stopping" => ~turnActive /\ device = "pi"
  /\ turnActive => device = "pi"
  /\ device = "gone" => ~Open
  /\ SpeechIsWhole
  /\ device = "pi" /\ Open => Ordered

IInv == Types /\ Turning /\ Recording /\ Remembering /\ Playing /\ Closing /\ Dictating

-----------------------------------------------------------------------------
(* Types *)

\* The bounds are numbers, and turns are numbered from 1.
LEMMA Bounds ==
  /\ MaxTurns \in Nat /\ MaxResets \in Nat /\ MaxDeltas \in Nat
  /\ MaxChunks \in Nat /\ PrerollChunks \in Nat /\ LeadChunks \in Nat
  /\ Turns \subseteq Nat /\ \A t \in Turns : t # None /\ t >= 1 /\ t <= MaxTurns
BY ServerAssumption, ClientAssumption DEF Turns, None

\* What is sent comes behind what was.
LEMMA Sent ==
  ASSUME outbox \in Seq(OutMessages), NEW ms \in Seq(OutMessages), Send(ms)
  PROVE  /\ outbox' \in Seq(OutMessages)
         /\ Len(outbox) \in Nat /\ Len(ms) \in Nat /\ Len(outbox') = Len(outbox) + Len(ms)
         /\ \A i \in 1..Len(outbox) : outbox'[i] = outbox[i]
         /\ \A i \in 1..Len(ms) : outbox'[Len(outbox) + i] = ms[i]
         /\ \A i \in 1..Len(outbox') :
              \/ i \in 1..Len(outbox)
              \/ i - Len(outbox) \in 1..Len(ms) /\ outbox'[i] = ms[i - Len(outbox)]
<1>1. outbox' = outbox \o ms
  BY DEF Send
<1>2. Len(outbox) \in Nat /\ Len(ms) \in Nat
  BY LenProperties
<1>3. /\ outbox' \in Seq(OutMessages) /\ Len(outbox') = Len(outbox) + Len(ms)
      /\ \A i \in 1..(Len(outbox) + Len(ms)) :
           outbox'[i] = IF i <= Len(outbox) THEN outbox[i] ELSE ms[i - Len(outbox)]
  BY <1>1, ConcatProperties
<1>4. \A i \in 1..Len(outbox) : outbox'[i] = outbox[i]
  BY <1>2, <1>3
<1>5. ASSUME NEW i \in 1..Len(ms)
      PROVE  outbox'[Len(outbox) + i] = ms[i]
  <2>1. Len(outbox) + i \in 1..(Len(outbox) + Len(ms)) /\ ~(Len(outbox) + i <= Len(outbox))
        /\ (Len(outbox) + i) - Len(outbox) = i
    BY <1>2
  <2>2. QED
    BY <1>3, <2>1
<1>6. \A i \in 1..Len(outbox') :
        i \in 1..Len(outbox) \/ (i - Len(outbox) \in 1..Len(ms) /\ outbox'[i] = ms[i - Len(outbox)])
  BY <1>2, <1>3
<1>7. QED
  BY <1>2, <1>3, <1>4, <1>5, <1>6

\* A message to the client has its type.
LEMMA MessageTyped ==
  ASSUME NEW kind \in OutKinds, NEW t \in 0..MaxTurns
  PROVE  /\ Message(kind, t) \in OutMessages
         /\ Message(kind, t).kind = kind /\ Message(kind, t).turn = t
BY DEF Message, OutMessages

\* What HeadTailProperties says, in the form the steps need.
LEMMA HeadTail ==
  ASSUME NEW A, NEW s \in Seq(A), s # <<>>
  PROVE  /\ Len(s) \in Nat /\ Len(s) >= 1 /\ Head(s) = s[1] /\ Head(s) \in A
         /\ Tail(s) \in Seq(A) /\ Len(Tail(s)) = Len(s) - 1
         /\ \A i \in 1..(Len(s) - 1) : Tail(s)[i] = s[i + 1]
<1>1. Len(s) \in Nat /\ Len(s) # 0
  BY EmptySeq, LenProperties
<1>2. s[1] \in A
  BY <1>1, ElementOfSeq
<1>3. Head(s) = s[1] /\ Tail(s) \in Seq(A) /\ Len(Tail(s)) = Len(s) - 1
      /\ \A i \in 1..(Len(s) - 1) : Tail(s)[i] = s[i + 1]
  BY <1>1, HeadTailProperties
<1>4. QED
  BY <1>1, <1>2, <1>3

\* A reply that is cut, and what is sent then.
LEMMA CutSends ==
  ASSUME Types, Turning, NEW ms \in Seq(OutMessages), CancelReply(ms),
         \A i \in 1..Len(ms) : ms[i].kind \notin {"audio.start", "audio.chunk"}
  PROVE  \E sent1 \in Seq(OutMessages) :
           /\ Send(sent1)
           /\ \A i \in 1..Len(sent1) :
                /\ sent1[i].kind # "audio.chunk"
                /\ sent1[i].kind = "audio.start" => ReplyRuns /\ sent1[i].turn = replyTask
           /\ ReplyRuns => \E k \in 1..Len(sent1) :
                             /\ sent1[k].kind = "cancelled"
                             /\ \A i \in 1..Len(sent1) : sent1[i].kind = "audio.start" => i < k
<1>1. CASE ~ReplyRuns
  <2>1. Send(ms)
    BY <1>1 DEF CancelReply
  <2>2. QED
    BY <1>1, <2>1
<1>2. CASE ReplyRuns
  <2> DEFINE t == replyTask
             a == Message("audio.start", t)
             c == Message("cancelled", t)
  <2>1. t \in 0..MaxTurns
    BY Bounds DEF Types, TurnTypes
  <2>2. /\ a \in OutMessages /\ a.kind = "audio.start" /\ a.turn = t
        /\ c \in OutMessages /\ c.kind = "cancelled"
    BY <2>1, MessageTyped DEF OutKinds
  <2>3. Len(ms) \in Nat
    BY LenProperties
  <2> HIDE DEF a, c
  <2>4. CASE reply[t] = "starting"
    <3> DEFINE pair == <<a>> \o <<c>>
               all == pair \o ms
    <3>1. Send(all)
      BY <1>2, <2>4 DEF CancelReply, CutMessages, a, c
    <3>2. pair \in Seq(OutMessages) /\ Len(pair) = 2 /\ pair[1] = a /\ pair[2] = c
      <4>1. <<a>> \in Seq(OutMessages) /\ <<c>> \in Seq(OutMessages)
        BY <2>2
      <4>2. QED
        BY <4>1, ConcatProperties
    <3> HIDE DEF pair
    <3>3. /\ all \in Seq(OutMessages) /\ Len(all) = 2 + Len(ms)
          /\ all[1] = a /\ all[2] = c
          /\ \A i \in 1..Len(all) : i = 1 \/ i = 2 \/ (i - 2 \in 1..Len(ms) /\ all[i] = ms[i - 2])
      <4>1. /\ all \in Seq(OutMessages) /\ Len(all) = Len(pair) + Len(ms)
            /\ \A i \in 1..(Len(pair) + Len(ms)) :
                 all[i] = IF i <= Len(pair) THEN pair[i] ELSE ms[i - Len(pair)]
        BY <3>2, ConcatProperties
      <4> HIDE DEF all
      <4>2. all[1] = a /\ all[2] = c
        BY <2>3, <3>2, <4>1
      <4>3. \A i \in 1..Len(all) : i = 1 \/ i = 2 \/ (i - 2 \in 1..Len(ms) /\ all[i] = ms[i - 2])
        BY <2>3, <3>2, <4>1
      <4>4. QED
        BY <3>2, <4>1, <4>2, <4>3
    <3> HIDE DEF all
    <3>4. \A i \in 1..Len(all) : /\ all[i].kind # "audio.chunk"
                                 /\ all[i].kind = "audio.start" => i = 1 /\ all[i].turn = t
      BY <2>2, <3>3
    <3>5. 2 \in 1..Len(all) /\ all[2].kind = "cancelled"
      BY <2>2, <2>3, <3>3
    <3>6. QED
      BY <1>2, <3>1, <3>3, <3>4, <3>5
  <2>5. CASE reply[t] # "starting"
    <3> DEFINE all == <<c>> \o ms
    <3>1. Send(all)
      BY <1>2, <2>2, <2>5 DEF CancelReply, CutMessages, c
    <3>2. <<c>> \in Seq(OutMessages) /\ Len(<<c>>) = 1
      BY <2>2
    <3>3. /\ all \in Seq(OutMessages) /\ Len(all) = 1 + Len(ms)
          /\ all[1] = c
          /\ \A i \in 1..Len(all) : i = 1 \/ (i - 1 \in 1..Len(ms) /\ all[i] = ms[i - 1])
      <4>1. all \in Seq(OutMessages) /\ Len(all) = 1 + Len(ms)
            /\ \A i \in 1..(1 + Len(ms)) : all[i] = IF i <= 1 THEN <<c>>[i] ELSE ms[i - 1]
        BY <3>2, ConcatProperties
      <4>2. QED
        BY <2>3, <4>1
    <3> HIDE DEF all
    <3>4. \A i \in 1..Len(all) : all[i].kind \notin {"audio.chunk", "audio.start"}
      BY <2>2, <3>3
    <3>5. 1 \in 1..Len(all) /\ all[1].kind = "cancelled"
      BY <2>2, <2>3, <3>3
    <3>6. QED
      BY <1>2, <3>1, <3>3, <3>4, <3>5
  <2>6. QED
    BY <2>4, <2>5
<1>3. QED
  BY <1>1, <1>2

\* Variables that the server's tasks leave alone.
LEMMA ServerTypes ==
  ASSUME Types, ServerNext, UNCHANGED client
  PROVE  ClientTypes'
BY DEF Types, ClientTypes, client, detection, reading

\* One more message is sent.
LEMMA SentOne ==
  ASSUME Types, NEW kind \in OutKinds, NEW t \in 0..MaxTurns, Send(<<Message(kind, t)>>)
  PROVE  outbox' \in Seq(OutMessages)
<1>1. <<Message(kind, t)>> \in Seq(OutMessages)
  BY MessageTyped
<1>2. QED
  BY <1>1, Sent DEF Types, WireTypes

\* Two messages in one send.
LEMMA SentTwo ==
  ASSUME NEW kind \in OutKinds, NEW other \in OutKinds, NEW t \in 0..MaxTurns
  PROVE  LET ms == <<Message(kind, t), Message(other, t)>>
         IN  /\ ms \in Seq(OutMessages) /\ Len(ms) = 2
             /\ ms[1] = Message(kind, t) /\ ms[2] = Message(other, t)
<1> DEFINE a == Message(kind, t)
           b == Message(other, t)
<1>1. a \in OutMessages /\ b \in OutMessages
  BY MessageTyped
<1> HIDE DEF a, b
<1>2. <<a, b>> \in Seq(OutMessages) /\ Len(<<a, b>>) = 2 /\ <<a, b>>[1] = a /\ <<a, b>>[2] = b
  BY <1>1
<1>3. QED
  BY <1>2 DEF a, b

\* Sending no message leaves what was sent.
LEMMA SentNothing == Send(<<>>) /\ outbox \in Seq(OutMessages) => outbox' = outbox
BY DEF Send

\* The messages of the loop come off its buffer.
LEMMA Received ==
  ASSUME Types, NEW kind, Receives(kind)
  PROVE  /\ inbox' \in Seq(InMessages) /\ inbox # <<>> /\ Head(inbox) \in InMessages
         /\ Len(inbox) \in Nat /\ Len(inbox') = Len(inbox) - 1 /\ Len(inbox) >= 1
         /\ Head(inbox) = inbox[1]
         /\ \A i \in 1..Len(inbox') : inbox'[i] = inbox[i + 1]
BY HeadTail DEF Types, WireTypes, Receives

\* After _cancel_reply no reply runs, and all it wrote has its type.
LEMMA RestingKeepsTypes ==
  ASSUME Types, Turning, NEW ms \in Seq(OutMessages), CancelReply(ms),
         \A i \in 1..Len(ms) : ms[i].kind \notin {"audio.start", "audio.chunk"}
  PROVE  /\ outbox' \in Seq(OutMessages) /\ replyTask' = None
         /\ reply' \in [Turns -> {"none", "created", "starting", "streaming", "sending", "speech",
                                  "ending", "failing", "done"}]
         /\ speech' \in [Turns -> {"none", "opening", "speaking", "dropped", "cancelled", "failed",
                                   "done"}]
         /\ record' \in [Turns -> {"none", "no_input", "reply", "interrupted", "error"}]
         /\ cancelled' \subseteq 1..turns
         /\ \A t \in Turns : reply'[t] \in Resting
<1>1. outbox' \in Seq(OutMessages) /\ replyTask' = None
  BY CutSends, Sent DEF Types, WireTypes, CancelReply
<1>2. CASE ~ReplyRuns
  BY <1>1, <1>2, Bounds
  DEF CancelReply, Types, TaskTypes, FileTypes, Turning, ReplyRuns, Resting, None
<1>3. CASE ReplyRuns
  <2>1. replyTask \in Turns /\ replyTask \in 1..turns
    BY <1>3, Bounds DEF ReplyRuns, Types, TurnTypes, Turns, None
  <2>2. CutReply(replyTask) /\ speech' = CutSpeech(replyTask)
    BY <1>3 DEF CancelReply
  <2>3. reply' = [reply EXCEPT ![replyTask] = "done"]
    BY <2>2 DEF CutReply
  <2>4. \A t \in Turns : reply'[t] \in Resting
    BY <2>1, <2>3 DEF Types, TaskTypes, Turning, Resting
  <2>5. record' \in [Turns -> {"none", "no_input", "reply", "interrupted", "error"}]
        /\ cancelled' \subseteq 1..turns
    BY <2>1, <2>2 DEF CutReply, CutRecord, Types, FileTypes
  <2>6. speech' \in [Turns -> {"none", "opening", "speaking", "dropped", "cancelled", "failed",
                                   "done"}]
    BY <2>1, <2>2 DEF CutSpeech, SpeechBegins, Types, TaskTypes
  <2>7. reply' \in [Turns -> {"none", "created", "starting", "streaming", "sending", "speech",
                                  "ending", "failing", "done"}]
    BY <2>3 DEF Types, TaskTypes
  <2>8. QED
    BY <1>1, <2>4, <2>5, <2>6, <2>7
<1>4. QED
  BY <1>2, <1>3

\* A list of one message that is not of a player.
LEMMA OneMessage ==
  ASSUME NEW kind \in OutKinds \ {"audio.start", "audio.chunk"}, NEW t \in 0..MaxTurns
  PROVE  /\ <<Message(kind, t)>> \in Seq(OutMessages)
         /\ \A i \in 1..Len(<<Message(kind, t)>>) :
              <<Message(kind, t)>>[i].kind \notin {"audio.start", "audio.chunk"}
<1> DEFINE m == Message(kind, t)
<1>1. m \in OutMessages /\ m.kind = kind
  BY MessageTyped
<1> HIDE DEF m
<1>2. <<m>> \in Seq(OutMessages) /\ \A i \in 1..Len(<<m>>) : <<m>>[i] = m
  BY <1>1
<1>3. QED
  BY <1>1, <1>2 DEF m

\* The empty list is a list of such messages.
LEMMA NoMessages ==
  /\ <<>> \in Seq(OutMessages)
  /\ \A i \in 1..Len(<<>>) : <<>>[i].kind \notin {"audio.start", "audio.chunk"}
  OBVIOUS

\* The handlers cancel with messages that open no player.
LEMMA HandlersCancel ==
  ASSUME Types, HandleInterrupt \/ HandleStart \/ HandleReset
  PROVE  \E ms \in Seq(OutMessages) :
           /\ CancelReply(ms)
           /\ \A i \in 1..Len(ms) : ms[i].kind \notin {"audio.start", "audio.chunk"}
           /\ HandleInterrupt => \E i \in 1..Len(ms) : ms[i].kind = "interrupted"
<1>1. CASE HandleInterrupt
  <2>1. None \in 0..MaxTurns
    BY Bounds DEF None
  <2> DEFINE m == Message("interrupted", None)
  <2>2. CancelReply(<<m>>) /\ m.kind = "interrupted"
    BY <1>1 DEF HandleInterrupt, Message
  <2>3. /\ <<m>> \in Seq(OutMessages)
        /\ \A i \in 1..Len(<<m>>) : <<m>>[i].kind \notin {"audio.start", "audio.chunk"}
    BY <2>1, OneMessage DEF OutKinds
  <2> HIDE DEF m
  <2>4. \E i \in 1..Len(<<m>>) : <<m>>[i].kind = "interrupted"
    <3>1. 1 \in 1..Len(<<m>>) /\ <<m>>[1] = m
      OBVIOUS
    <3>2. QED
      BY <2>2, <3>1
  <2>5. QED
    BY <2>2, <2>3, <2>4
<1>2. CASE HandleReset
  BY <1>2, NoMessages DEF HandleReset, HandleInterrupt, Receives
<1>3. CASE HandleStart
  <2>0. ~HandleInterrupt
    BY <1>3 DEF HandleStart, HandleInterrupt, Receives
  <2>1. CASE turns < MaxTurns /\ turns' = turns + 1 /\ CancelReply(<<Message("turn.started", turns')>>)
    <3>1. turns' \in 0..MaxTurns
      BY <2>1, Bounds DEF Types, TurnTypes
    <3>2. QED
      BY <2>0, <2>1, <3>1, OneMessage DEF OutKinds
  <2>2. CASE CancelReply(<<>>)
    BY <2>0, <2>2, NoMessages
  <2>3. QED
    BY <1>3, <2>1, <2>2 DEF HandleStart
<1>4. QED
  BY <1>1, <1>2, <1>3

\* The handlers that cancel.
LEMMA CancelTypes ==
  ASSUME Types, Turning, HandleInterrupt \/ HandleStart \/ HandleReset
  PROVE  WireTypes' /\ TurnTypes' /\ TaskTypes' /\ FileTypes'
<1>1. PICK ms \in Seq(OutMessages) :
        /\ CancelReply(ms)
        /\ \A i \in 1..Len(ms) : ms[i].kind \notin {"audio.start", "audio.chunk"}
  BY HandlersCancel
<1>2. /\ outbox' \in Seq(OutMessages) /\ replyTask' = None
      /\ reply' \in [Turns -> {"none", "created", "starting", "streaming", "sending", "speech",
                               "ending", "failing", "done"}]
      /\ speech' \in [Turns -> {"none", "opening", "speaking", "dropped", "cancelled", "failed",
                                "done"}]
      /\ record' \in [Turns -> {"none", "no_input", "reply", "interrupted", "error"}]
      /\ cancelled' \subseteq 1..turns
  BY <1>1, RestingKeepsTypes
<1>3. \E kind : Receives(kind)
  BY DEF HandleInterrupt, HandleStart, HandleReset
<1>4. inbox' \in Seq(InMessages)
  BY <1>3, Received
<1>6. UNCHANGED <<socket, loop, deltas, fed, sounded, ttsSocket, history, prior>>
  BY <1>3 DEF Receives, texts, memory
<1>7. TurnTypes' /\ turns <= turns' /\ turns' \in Nat /\ turns \in Nat
  <2>1. CASE HandleInterrupt
    BY <1>2, <2>1, Bounds DEF HandleInterrupt, Types, TurnTypes, None
  <2>2. CASE HandleReset
    <3>1. session' \in Sessions
      BY <2>2, Bounds DEF HandleReset, Types, TurnTypes, Sessions
    <3>2. QED
      BY <1>2, <2>2, <3>1, Bounds DEF HandleReset, Types, TurnTypes, None
  <2>3. CASE HandleStart
    <3>1. CASE /\ turns < MaxTurns /\ turns' = turns + 1
               /\ activeTurn' = turns' /\ collecting' = turns'
               /\ conversation' = [conversation EXCEPT ![turns'] = session]
      <4>1. turns \in Nat /\ turns' \in 0..MaxTurns
        BY <3>1, Bounds DEF Types, TurnTypes
      <4>2. conversation' \in [Turns -> Sessions] /\ UNCHANGED <<session, pcm>>
        BY <2>3, <3>1 DEF HandleStart, Types, TurnTypes
      <4>3. activeTurn' \in 0..turns' /\ replyTask' \in 0..turns' /\ collecting' \in 0..turns'
        BY <1>2, <3>1, <4>1 DEF None
      <4>4. QED
        BY <3>1, <4>1, <4>2, <4>3 DEF Types, TurnTypes
    <3>2. CASE UNCHANGED <<turns, activeTurn, conversation>> /\ collecting' = None
      BY <1>2, <2>3, <3>2, Bounds DEF HandleStart, Types, TurnTypes, None
    <3>3. QED
      BY <2>3, <3>1, <3>2 DEF HandleStart
  <2>4. QED
    BY <2>1, <2>2, <2>3
<1>8. cancelled' \subseteq 1..turns' /\ 1..turns \subseteq 1..turns'
  BY <1>2, <1>7
<1>9. QED
  <2>1. WireTypes'
    BY <1>2, <1>4, <1>6 DEF Types, WireTypes
  <2>2. FileTypes'
    BY <1>2, <1>6, <1>8 DEF Types, FileTypes
  <2>3. TaskTypes'
    BY <1>2, <1>6, <1>8 DEF Types, TaskTypes
  <2>4. QED
    BY <1>7, <2>1, <2>2, <2>3

\* A handler of the loop keeps types.
LEMMA HandleTypes ==
  ASSUME Types, Turning, Handle
  PROVE  WireTypes' /\ TurnTypes' /\ TaskTypes' /\ FileTypes'
<1>1. CASE HandleInterrupt \/ HandleStart \/ HandleReset
  BY <1>1, CancelTypes
<1>2. CASE HandleHello
  <2>1. inbox' \in Seq(InMessages)
    BY <1>2, Received DEF HandleHello
  <2>2. UNCHANGED <<socket, loop, outbox, turns, activeTurn, replyTask, collecting, conversation, pcm,
                    reply, speech, deltas, fed, sounded, ttsSocket, history, prior, record, cancelled>>
        /\ session' = 0
    BY <1>2 DEF HandleHello, Receives, texts, memory, files
  <2>3. 0 \in Sessions
    BY Bounds DEF Sessions
  <2>4. WireTypes' /\ TurnTypes'
    BY <2>1, <2>2, <2>3 DEF Types, WireTypes, TurnTypes
  <2>5. TaskTypes' /\ FileTypes'
    BY <2>2 DEF Types, TaskTypes, FileTypes
  <2>6. QED
    BY <2>4, <2>5
<1>3. CASE HandleAudio
  <2>1. inbox' \in Seq(InMessages) /\ Head(inbox).turn \in Nat
    BY <1>3, Received DEF HandleAudio, InMessages
  <2>2. UNCHANGED <<socket, loop, outbox, session, turns, activeTurn, replyTask, collecting,
                    conversation, reply, speech, deltas, fed, sounded, ttsSocket, history, prior,
                    record, cancelled>>
    BY <1>3 DEF HandleAudio, Receives, texts, memory, files
  <2>3. pcm' \in [Turns -> Seq(Nat)]
    <3>1. CASE activeTurn = None
      BY <1>3, <3>1 DEF HandleAudio, Types, TurnTypes
    <3>2. CASE activeTurn # None
      <4>1. activeTurn \in Turns
        BY <3>2, Bounds DEF Types, TurnTypes, Turns, None
      <4>2. Append(pcm[activeTurn], Head(inbox).turn) \in Seq(Nat)
        BY <2>1, <4>1, AppendProperties DEF Types, TurnTypes
      <4>3. pcm' = [pcm EXCEPT ![activeTurn] = Append(pcm[activeTurn], Head(inbox).turn)]
        BY <1>3, <3>2 DEF HandleAudio
      <4>4. QED
        BY <4>1, <4>2, <4>3 DEF Types, TurnTypes
    <3>3. QED
      BY <3>1, <3>2
  <2>4. WireTypes' /\ TurnTypes'
    BY <2>1, <2>2, <2>3 DEF Types, WireTypes, TurnTypes
  <2>5. TaskTypes' /\ FileTypes'
    BY <2>2 DEF Types, TaskTypes, FileTypes
  <2>6. QED
    BY <2>4, <2>5
<1>4. CASE HandleEnd
  <2>1. inbox' \in Seq(InMessages)
    BY <1>4, Received DEF HandleEnd
  <2>2. UNCHANGED <<socket, loop, outbox, session, turns, conversation, pcm, speech, deltas, fed,
                    sounded, ttsSocket, history, prior, cancelled>>
    BY <1>4 DEF HandleEnd, Receives, texts, memory
  <2>3. /\ activeTurn' \in 0..turns /\ replyTask' \in 0..turns /\ collecting' \in 0..turns
        /\ reply' \in [Turns -> {"none", "created", "starting", "streaming", "sending", "speech",
                               "ending", "failing", "done"}]
        /\ record' \in [Turns -> {"none", "no_input", "reply", "interrupted", "error"}]
    BY <1>4, Bounds DEF HandleEnd, Types, TurnTypes, TaskTypes, FileTypes, None
  <2>4. WireTypes' /\ TurnTypes'
    BY <2>1, <2>2, <2>3 DEF Types, WireTypes, TurnTypes
  <2>5. TaskTypes' /\ FileTypes'
    BY <2>2, <2>3 DEF Types, TaskTypes, FileTypes
  <2>6. QED
    BY <2>4, <2>5
<1>5. QED
  BY <1>1, <1>2, <1>3, <1>4 DEF Handle

\* The end of the connection.
LEMMA EndTypes ==
  ASSUME Types, Turning, LoopEnds \/ RecogniserFails \/ Drop \/ Disconnect
  PROVE  WireTypes' /\ TurnTypes' /\ TaskTypes' /\ FileTypes'
<1>1. \A state : state \in [Turns -> {"none", "opening", "speaking", "dropped", "cancelled", "failed",
                                     "done"}]
        => ContextsEnd(state) \in [Turns -> {"none", "opening", "speaking", "dropped", "cancelled",
                                            "failed", "done"}]
  BY DEF ContextsEnd
<1>2. <<>> \in Seq(InMessages)
  BY EmptySeq
<1>3. CASE RecogniserFails
  BY <1>1, <1>2, <1>3, Bounds
  DEF RecogniserFails, Types, WireTypes, TurnTypes, TaskTypes, FileTypes, texts, memory, files, None
<1>4. CASE Drop
  BY <1>1, <1>4
  DEF Drop, Types, WireTypes, TurnTypes, TaskTypes, FileTypes, wire, connection, texts, memory, files
<1>5. CASE Disconnect
  BY <1>5
  DEF Disconnect, Types, WireTypes, TurnTypes, TaskTypes, FileTypes, connection, texts, memory, files
<1>6. CASE LoopEnds
  <2>1. /\ loop' = "gone" /\ inbox' = <<>> /\ activeTurn' = None /\ replyTask' = None
        /\ collecting' \in {None, collecting} /\ ttsSocket' \in {"none", ttsSocket}
        /\ UNCHANGED <<socket, outbox, session, turns, conversation, pcm, deltas, fed, sounded, history,
                       prior>>
    BY <1>6 DEF LoopEnds, texts, memory
  <2>2. CutSpeech(replyTask) \in [Turns -> {"none", "opening", "speaking", "dropped", "cancelled",
                                           "failed", "done"}]
    BY DEF CutSpeech, SpeechBegins, Types, TaskTypes
  <2>3. speech' \in [Turns -> {"none", "opening", "speaking", "dropped", "cancelled", "failed",
                              "done"}]
    <3> DEFINE left == IF ReplyRuns THEN CutSpeech(replyTask) ELSE speech
    <3>1. left \in [Turns -> {"none", "opening", "speaking", "dropped", "cancelled", "failed", "done"}]
      BY <2>2 DEF Types, TaskTypes
    <3>2. speech' = IF released' THEN ContextsEnd(left) ELSE left
      BY <1>6 DEF LoopEnds
    <3> HIDE DEF left
    <3>3. QED
      BY <1>1, <3>1, <3>2
  <2>4. /\ reply' \in [Turns -> {"none", "created", "starting", "streaming", "sending", "speech",
                                 "ending", "failing", "done"}]
        /\ record' \in [Turns -> {"none", "no_input", "reply", "interrupted", "error"}]
        /\ cancelled' \subseteq 1..turns
    <3>1. CASE ReplyRuns
      <4>1. replyTask \in 1..turns /\ CutReply(replyTask)
        BY <1>6, <3>1, Bounds DEF LoopEnds, ReplyRuns, Types, TurnTypes, None
      <4>2. QED
        BY <4>1 DEF CutReply, CutRecord, Types, TaskTypes, FileTypes
    <3>2. CASE ~ReplyRuns
      BY <1>6, <3>2 DEF LoopEnds, files, Types, TaskTypes, FileTypes
    <3>3. QED
      BY <3>1, <3>2
  <2>5. WireTypes' /\ TurnTypes'
    BY <1>2, <2>1, Bounds DEF Types, WireTypes, TurnTypes, None
  <2>6. TaskTypes' /\ FileTypes'
    BY <2>1, <2>3, <2>4 DEF Types, TaskTypes, FileTypes
  <2>7. QED
    BY <2>5, <2>6
<1>7. QED
  BY <1>3, <1>4, <1>5, <1>6

\* A task of a turn that has one is that of a turn that has begun.
LEMMA TaskOfTurn ==
  ASSUME Types, Turning, NEW t \in Turns
  PROVE  /\ t \in 0..MaxTurns /\ t \in Nat /\ t # None
         /\ reply[t] # "none" => t \in 1..turns
<1>1. t \in Nat /\ t >= 1 /\ t <= MaxTurns /\ turns \in Nat
  BY Bounds DEF Types, TurnTypes, Turns
<1>2. reply[t] # "none" => t \in 1..turns
  BY <1>1 DEF Turning
<1>3. QED
  BY <1>1, <1>2, Bounds DEF None

\* What the tasks send is of its type.
LEMMA TaskSends ==
  ASSUME Types, Turning, NEW t \in Turns, Tasks(t)
  PROVE  \/ outbox' = outbox
         \/ /\ Open /\ reply[t] = "created" /\ RunReply(t)
            /\ reply'[t] = "streaming"
            /\ Send(<<Message("assistant.start", t), Message("audio.start", t)>>)
         \/ \E kind \in {"assistant.start", "audio.start", "assistant.end", "audio.chunk", "audio.end"} :
              /\ Open /\ Send(<<Message(kind, t)>>)
              /\ kind = "audio.start" => reply[t] = "starting" /\ reply'[t] = "streaming"
              /\ kind = "audio.chunk" => Chunk(t)
              /\ kind = "assistant.start" => reply[t] = "created" /\ reply'[t] = "starting"
<1>1. outbox \in Seq(OutMessages) /\ reply \in [Turns -> {"none", "created", "starting", "streaming",
                            "sending", "speech", "ending", "failing", "done"}]
  BY DEF Types, WireTypes, TaskTypes
<1>2. Send(<<>>) => outbox' = outbox
  BY <1>1, SentNothing
<1>3. CASE RunReply(t)
  BY <1>1, <1>3 DEF RunReply, Reply
<1>4. CASE AgentDelta(t)
  BY <1>2, <1>4 DEF AgentDelta, Sends
<1>5. CASE StreamEnds(t)
  BY <1>5 DEF StreamEnds, wire
<1>6. CASE AgentFails(t)
  BY <1>2, <1>6 DEF AgentFails, Fails, Sends
<1>7. CASE SpeechOver(t)
  <2>1. CASE speech[t] = "done" /\ Open /\ Send(<<Message("assistant.end", t)>>)
    BY <2>1
  <2>2. CASE Fails(t, "speech")
    BY <1>2, <2>2 DEF Fails, Sends
  <2>3. QED
    BY <1>7, <2>1, <2>2 DEF SpeechOver, Sends
<1>8. CASE Resume(t)
  BY <1>1, <1>8 DEF Resume, Reply
<1>9. CASE Opens(t) \/ OpenFails(t)
  BY <1>9 DEF Opens, OpenFails
<1>10. CASE Chunk(t)
  BY <1>10 DEF Chunk
<1>11. CASE FinalAudio(t) \/ DropEnds(t)
  BY <1>11 DEF FinalAudio, DropEnds, AudioEnds
<1>12. QED
  BY <1>3, <1>4, <1>5, <1>6, <1>7, <1>8, <1>9, <1>10, <1>11 DEF Tasks

\* A task leaves what the client has sent.
LEMMA TaskWire ==
  ASSUME Types, Turning, NEW t \in Turns, Tasks(t)
  PROVE  /\ WireTypes' /\ UNCHANGED <<socket, loop, inbox, session, turns, activeTurn, collecting,
                                      conversation, pcm, released, cancelled>>
<1>1. t \in 0..MaxTurns
  BY TaskOfTurn
<1>2. outbox' \in Seq(OutMessages)
  <2>1. CASE Send(<<Message("assistant.start", t), Message("audio.start", t)>>)
    BY <1>1, <2>1, SentTwo, Sent DEF OutKinds, Types, WireTypes
  <2>2. CASE \E kind \in {"assistant.start", "audio.start", "assistant.end", "audio.chunk",
                          "audio.end"} :
              Send(<<Message(kind, t)>>)
    BY <1>1, <2>2, SentOne DEF OutKinds
  <2>3. QED
    BY <2>1, <2>2, TaskSends DEF Types, WireTypes
<1>3. UNCHANGED <<socket, loop, inbox, session, turns, activeTurn, collecting, conversation, pcm,
                  released, cancelled>>
  BY DEF Tasks, RunReply, AgentDelta, StreamEnds, AgentFails, SpeechOver, Fails, Resume, Opens,
         OpenFails, Chunk, FinalAudio, DropEnds, AudioEnds, Speech, wire, connection, files
<1>4. QED
  BY <1>2, <1>3 DEF Types, WireTypes

\* What Reply does to the task of a turn.
LEMMA ReplyGoes ==
  ASSUME Types, NEW t \in Turns, NEW from, NEW to, Reply(t, from, to)
  PROVE  reply[t] = from /\ reply'[t] = to /\ \A u \in Turns : u # t => reply'[u] = reply[u]
BY DEF Reply, Types, TaskTypes

\* A step of a task keeps the types of the tasks.
LEMMA TaskTask ==
  ASSUME Types, Turning, NEW t \in Turns, Tasks(t)
  PROVE  /\ replyTask' \in {None, replyTask}
         /\ reply' \in [Turns -> {"none", "created", "starting", "streaming", "sending", "speech",
                                  "ending", "failing", "done"}]
         /\ record' \in [Turns -> {"none", "no_input", "reply", "interrupted", "error"}]
         /\ \A u \in Turns : u # t => reply'[u] = reply[u] /\ record'[u] = record[u]
<1>1. CASE RunReply(t)
  BY <1>1 DEF RunReply, Reply, ReplyDone, ReplyGoesOn, files, Types, TaskTypes, FileTypes
<1>2. CASE AgentDelta(t)
  BY <1>2 DEF AgentDelta, Sends, Reply, connection, files, Types, TaskTypes, FileTypes
<1>3. CASE StreamEnds(t)
  BY <1>3 DEF StreamEnds, Reply, connection, files, Types, TaskTypes, FileTypes
<1>4. ASSUME NEW from, Fails(t, from)
      PROVE  /\ replyTask' \in {None, replyTask}
             /\ reply' \in [Turns -> {"none", "created", "starting", "streaming", "sending", "speech",
                                  "ending", "failing", "done"}]
             /\ record' \in [Turns -> {"none", "no_input", "reply", "interrupted", "error"}]
             /\ \A u \in Turns : u # t => reply'[u] = reply[u] /\ record'[u] = record[u]
  BY <1>4 DEF Fails, Sends, Reply, ReplyDone, ReplyGoesOn, Types, TaskTypes, FileTypes
<1>5. CASE AgentFails(t)
  BY <1>4, <1>5 DEF AgentFails
<1>6. CASE SpeechOver(t)
  <2>1. CASE /\ Sends(t, "speech", <<Message("assistant.end", t)>>, "done", "ending")
             /\ record' = [record EXCEPT ![t] = "reply"]
             /\ IF reply'[t] = "done" THEN ReplyDone ELSE ReplyGoesOn
    BY <2>1 DEF Sends, Reply, ReplyDone, ReplyGoesOn, Types, TaskTypes, FileTypes
  <2>2. CASE Fails(t, "speech")
    BY <1>4, <2>2
  <2>3. QED
    BY <1>6, <2>1, <2>2 DEF SpeechOver
<1>7. CASE Resume(t)
  BY <1>7 DEF Resume, Reply, ReplyDone, ReplyGoesOn, Types, TaskTypes, FileTypes
<1>8. CASE Opens(t) \/ OpenFails(t) \/ Chunk(t) \/ FinalAudio(t) \/ DropEnds(t)
  <2>1. UNCHANGED <<reply, record, replyTask>>
    BY <1>8 DEF Opens, OpenFails, Chunk, FinalAudio, DropEnds, AudioEnds, Speech, connection, files
  <2>2. QED
    BY <2>1 DEF Types, TaskTypes, FileTypes
<1>9. QED
  BY <1>1, <1>2, <1>3, <1>5, <1>6, <1>7, <1>8 DEF Tasks

\* A step of a task keeps the types of its speech.
LEMMA TaskSpeech ==
  ASSUME Types, Turning, NEW t \in Turns, Tasks(t)
  PROVE  /\ speech' \in [Turns -> {"none", "opening", "speaking", "dropped", "cancelled", "failed",
                                   "done"}]
         /\ \A u \in Turns : u # t => speech'[u] = speech[u]
         /\ ttsSocket' \in {"none", "open"}
<1>1. speech \in [Turns -> {"none", "opening", "speaking", "dropped", "cancelled", "failed", "done"}]
      /\ ttsSocket \in {"none", "open"}
  BY DEF Types, TaskTypes
<1>2. CASE RunReply(t)
  BY <1>1, <1>2 DEF RunReply, SpeechBegins
<1>3. CASE AgentDelta(t) \/ StreamEnds(t) \/ AgentFails(t) \/ SpeechOver(t)
  BY <1>1, <1>3 DEF AgentDelta, StreamEnds, AgentFails, SpeechOver
<1>4. CASE Resume(t)
  BY <1>1, <1>4 DEF Resume, SpeechBegins
<1>5. CASE Opens(t) \/ OpenFails(t)
  BY <1>1, <1>5 DEF Opens, OpenFails, Speech
<1>6. CASE Chunk(t)
  BY <1>1, <1>6 DEF Chunk, Speech
<1>7. CASE FinalAudio(t) \/ DropEnds(t)
  BY <1>1, <1>7 DEF FinalAudio, DropEnds, AudioEnds, Speech
<1>8. QED
  BY <1>2, <1>3, <1>4, <1>5, <1>6, <1>7 DEF Tasks

\* A step of a task keeps the types of what is spoken and remembered.
LEMMA TaskTexts ==
  ASSUME Types, Turning, Recording, NEW t \in Turns, Tasks(t)
  PROVE  /\ deltas' \in [Turns -> 0..MaxDeltas] /\ fed' \subseteq 1..turns /\ sounded' \subseteq 1..turns
         /\ \A u \in Turns : u # t => deltas'[u] = deltas[u] /\ prior'[u] = prior[u]
         /\ history' \in [Sessions -> Seq(Turns)] /\ prior' \in [Turns -> Seq(Turns)]
<1>1. /\ deltas \in [Turns -> 0..MaxDeltas] /\ fed \subseteq 1..turns /\ sounded \subseteq 1..turns
      /\ history \in [Sessions -> Seq(Turns)] /\ prior \in [Turns -> Seq(Turns)]
      /\ conversation[t] \in Sessions /\ deltas[t] \in 0..MaxDeltas /\ MaxDeltas \in Nat
      /\ prior[t] \in Seq(Turns) /\ history[conversation[t]] \in Seq(Turns)
  BY Bounds DEF Types, TaskTypes, FileTypes, TurnTypes
<1>2. CASE RunReply(t)
  BY <1>1, <1>2 DEF RunReply, texts, AsksAgent
<1>3. CASE AgentDelta(t)
  <2>1. deltas[t] < MaxDeltas /\ UNCHANGED <<fed, sounded, history, prior>>
        /\ (deltas' = deltas \/ deltas' = [deltas EXCEPT ![t] = deltas[t] + 1])
    BY <1>3 DEF AgentDelta, memory
  <2>2. deltas[t] + 1 \in 0..MaxDeltas
    BY <1>1, <2>1
  <2>3. CASE deltas' = deltas
    BY <1>1, <2>1, <2>3
  <2>4. CASE deltas' = [deltas EXCEPT ![t] = deltas[t] + 1]
    BY <1>1, <2>1, <2>2, <2>4
  <2>5. QED
    BY <2>1, <2>3, <2>4
<1>4. CASE StreamEnds(t)
  <2>1. t \in 1..turns
    BY <1>4, TaskOfTurn DEF StreamEnds, Reply
  <2>2. Append(prior[t], t) \in Seq(Turns)
    BY <1>1, AppendProperties
  <2>3. /\ UNCHANGED <<deltas, sounded, prior>> /\ fed' = fed \union {t}
        /\ history' = [history EXCEPT ![conversation[t]] = Append(prior[t], t)]
    BY <1>4 DEF StreamEnds, EndsText, AnswerStored
  <2>4. QED
    BY <1>1, <2>1, <2>2, <2>3
<1>5. CASE AgentFails(t) \/ SpeechOver(t)
  BY <1>1, <1>5 DEF AgentFails, SpeechOver, texts, memory
<1>6. CASE Resume(t)
  <2>1. CASE deltas' = [deltas EXCEPT ![t] = @ + 1] /\ UNCHANGED <<prior, history, fed, sounded>>
             /\ reply[t] = "sending"
    <3>1. deltas[t] + 1 \in 0..MaxDeltas
      BY <1>1, <2>1 DEF Recording, Recorded
    <3>2. QED
      BY <1>1, <2>1, <3>1
  <2>2. CASE UNCHANGED <<deltas, history, fed, sounded>> /\ AsksAgent(t)
    BY <1>1, <1>6, <2>2 DEF AsksAgent
  <2>3. CASE UNCHANGED <<deltas, history, fed, sounded, prior>>
    BY <1>1, <2>3
  <2>4. QED
    BY <1>6, <2>1, <2>2, <2>3 DEF Resume, Reply
<1>7. CASE Opens(t) \/ OpenFails(t) \/ FinalAudio(t) \/ DropEnds(t)
  BY <1>1, <1>7 DEF Opens, OpenFails, FinalAudio, DropEnds, AudioEnds, Speech, memory
<1>8. CASE Chunk(t)
  <2>1. t \in 1..turns
    BY <1>8, TaskOfTurn, Bounds DEF Chunk, Speech, Recording, Recorded, SpeechRuns, Types, TaskTypes
  <2>2. QED
    BY <1>1, <1>8, <2>1 DEF Chunk, Speech, memory
<1>9. QED
  BY <1>2, <1>3, <1>4, <1>5, <1>6, <1>7, <1>8 DEF Tasks

-----------------------------------------------------------------------------
(* The microphone's chunks *)

\* A set of numbers has a least one (the library's well-founded order of numbers).
LEMMA LeastNumber ==
  ASSUME NEW S \in SUBSET Nat, S # {}
  PROVE  \E m \in S : \A k \in S : m <= k
<1> DEFINE R == OpToRel(<, Nat)
<1>1. IsWellFoundedOn(R, Nat)
  BY NatLessThanWellFounded
<1>2. \A k, m \in Nat : k < m => <<k, m>> \in R
  BY DEF OpToRel
<1> HIDE DEF R
<1>3. PICK m \in S : \A k \in S : ~ (<<k, m>> \in R)
  BY <1>1, WFMin
<1>4. ASSUME NEW k \in S
      PROVE  m <= k
  <2>1. k \in Nat /\ m \in Nat /\ ~ (<<k, m>> \in R)
    BY <1>3
  <2>2. QED
    BY <1>2, <2>1
<1>5. QED
  BY <1>4

\* SequencesExt's Min of a set of numbers is its least.
LEMMA MinOfNumbers ==
  ASSUME NEW S \in SUBSET Nat, S # {}
  PROVE  Min(S) \in S /\ \A k \in S : Min(S) <= k
<1>1. \E m \in S : \A k \in S : m <= k
  BY LeastNumber
<1>2. QED
  BY <1>1 DEF Min

\* SequencesExt's Max of two numbers is one of them, and not below the other.
LEMMA MaxOfTwo ==
  ASSUME NEW a \in Int, NEW b \in Int
  PROVE  Max({a, b}) \in {a, b} /\ Max({a, b}) >= a /\ Max({a, b}) >= b
<1>1. \E x \in {a, b} : \A y \in {a, b} : x >= y
  OBVIOUS
<1>2. QED
  BY <1>1 DEF Max

\* Chunks one after the other, the last of which is n.
ChunksUpTo(ms, n) ==
  /\ ms \in Seq(InMessages)
  /\ \A i \in 1..Len(ms) : ms[i].kind = "audio" /\ ms[i].turn = n - Len(ms) + i

\* No chunks are a run of chunks that ends anywhere.
LEMMA NoChunks == ASSUME NEW n PROVE ChunksUpTo(<<>>, n)
BY DEF ChunksUpTo

\* A message with a chunk has its type.
LEMMA AudioTyped ==
  ASSUME NEW n \in Nat
  PROVE  /\ Message("audio", n) \in InMessages
         /\ Message("audio", n).kind = "audio" /\ Message("audio", n).turn = n
BY DEF Message, InMessages, InKinds

\* Chunks(first, last) numbers its chunks up to last.
LEMMA ChunksAre ==
  ASSUME NEW n \in Nat, NEW first \in 1..(n + 1)
  PROVE  ChunksUpTo(Chunks(first, n), n)
<1> DEFINE s == Chunks(first, n)
           len == n - first + 1
<1>1. len \in Nat /\ first \in Nat
  OBVIOUS
<1>2. \A i \in 1..len : first + i - 1 \in Nat /\ s[i] = Message("audio", first + i - 1)
  BY <1>1 DEF Chunks
<1>3. \A i \in 1..len : s[i] \in InMessages /\ s[i].kind = "audio" /\ s[i].turn = first + i - 1
  BY <1>2, AudioTyped
<1>4. DOMAIN s = 1..len /\ s = [i \in 1..len |-> s[i]]
  BY DEF Chunks
<1> HIDE DEF s
<1>5. s \in [1..len -> InMessages]
  BY <1>3, <1>4
<1>6. s \in Seq(InMessages)
  BY <1>1, <1>5, SeqDef
<1>7. Len(s) = len
  BY <1>1, <1>4, <1>6, LenProperties
<1>8. \A i \in 1..Len(s) : s[i].turn = n - Len(s) + i
  BY <1>1, <1>3, <1>7
<1>9. QED
  BY <1>3, <1>6, <1>7, <1>8 DEF ChunksUpTo, s

\* _slice_preroll.
LEMMA SliceShape ==
  ASSUME Types, NEW n \in Nat
  PROVE  ChunksUpTo(PrerollSlice(n), n)
<1> DEFINE last == n - PrerollChunks + 1
           kept == Max({preroll, last})
           voiced == {i \in kept..n : heard'[i] # "quiet"}
           lead == Min(voiced) - LeadChunks
           first == Max({kept, lead})
<1>1. PrerollSlice(n) = IF voiced = {} THEN <<>> ELSE Chunks(first, n)
  BY DEF PrerollSlice
<1> HIDE DEF first
<1>2. preroll \in Nat /\ preroll >= 1 /\ last \in Int
  BY Bounds DEF Types, ClientTypes
<1> HIDE DEF last
<1>3. kept \in Int /\ kept >= 1
  BY <1>2, MaxOfTwo
<1> HIDE DEF kept
<1>4. voiced \in SUBSET Nat /\ \A i \in voiced : i >= kept /\ i <= n
  BY <1>3
<1> HIDE DEF voiced
<1>5. CASE voiced # {}
  <2>1. Min(voiced) \in Nat /\ Min(voiced) >= kept /\ Min(voiced) <= n
    BY <1>4, <1>5, MinOfNumbers
  <2>2. lead \in Int /\ lead <= n
    BY <2>1, Bounds
  <2>3. first \in Int /\ first >= kept /\ first <= n
    <3> HIDE DEF lead
    <3>1. kept \in Int /\ lead \in Int /\ kept <= n
      BY <1>3, <2>1, <2>2
    <3>2. QED
      BY <3>1, <2>2, MaxOfTwo DEF first
  <2>4. first \in 1..(n + 1)
    BY <1>3, <2>3
  <2>5. QED
    BY <1>1, <1>5, <2>4, ChunksAre
<1>6. CASE voiced = {}
  BY <1>1, <1>6, NoChunks
<1>7. QED
  BY <1>5, <1>6

\* The silence held back, and the chunk with voice.
LEMMA SpokenShape ==
  ASSUME Types, NEW n \in Nat
  PROVE  /\ Spoken(n) \in Seq(InMessages) /\ Len(Spoken(n)) = Len(pendingSilence) + 1
         /\ Len(pendingSilence) \in Nat
         /\ \A i \in 1..Len(Spoken(n)) : Spoken(n)[i].kind = "audio"
         /\ \A i \in 1..Len(pendingSilence) : Spoken(n)[i].turn = pendingSilence[i]
         /\ Spoken(n)[Len(pendingSilence) + 1].turn = n
<1> DEFINE held == [i \in DOMAIN pendingSilence |-> Message("audio", pendingSilence[i])]
           m == Message("audio", n)
           all == held \o <<m>>
           len == Len(pendingSilence)
<1>1. pendingSilence \in Seq(Nat) /\ len \in Nat /\ DOMAIN pendingSilence = 1..len
  BY LenProperties DEF Types, ClientTypes
<1>2. \A i \in 1..len : pendingSilence[i] \in Nat
  BY <1>1, ElementOfSeq
<1>3. \A i \in 1..len : held[i] \in InMessages /\ held[i].kind = "audio"
                        /\ held[i].turn = pendingSilence[i]
  BY <1>1, <1>2, AudioTyped
<1>4. DOMAIN held = 1..len /\ held = [i \in 1..len |-> held[i]]
  BY <1>1
<1>5. m \in InMessages /\ m.kind = "audio" /\ m.turn = n
  BY AudioTyped
<1>6. Spoken(n) = all
  BY DEF Spoken
<1> HIDE DEF held, m
<1>7. held \in Seq(InMessages)
  BY <1>1, <1>3, <1>4, SeqDef
<1>8. Len(held) = len
  BY <1>1, <1>4, <1>7, LenProperties
<1>9. <<m>> \in Seq(InMessages) /\ Len(<<m>>) = 1 /\ <<m>>[1] = m
  BY <1>5
<1>10. /\ all \in Seq(InMessages) /\ Len(all) = len + 1
       /\ \A i \in 1..(len + 1) : all[i] = IF i <= len THEN held[i] ELSE <<m>>[i - len]
  BY <1>7, <1>8, <1>9, ConcatProperties
<1> HIDE DEF all
<1>11. \A i \in 1..len : all[i] = held[i]
  BY <1>1, <1>10
<1>12. all[len + 1] = m
  BY <1>1, <1>9, <1>10
<1>13. \A i \in 1..Len(all) : all[i].kind = "audio"
  BY <1>1, <1>3, <1>5, <1>10, <1>11, <1>12
<1>14. QED
  BY <1>1, <1>3, <1>5, <1>6, <1>10, <1>11, <1>12, <1>13

\* What the client sends comes behind what it sent before.
LEMMA ToServerTyped ==
  ASSUME Types, NEW ms \in Seq(InMessages), ToServer(ms)
  PROVE  inbox' \in Seq(InMessages)
BY ConcatProperties DEF ToServer, Types, WireTypes

\* The three parts of what begins a turn.
LEMMA StartShape ==
  ASSUME Types, NEW n \in Nat, NEW before \in Seq(InMessages), StartTurn(n, before)
  PROVE  \E slice : /\ ChunksUpTo(slice, n) /\ speechStarted' = (slice # <<>>)
                    /\ ToServer(before \o <<Message("turn.start", None)>> \o slice)
                    /\ before \o <<Message("turn.start", None)>> \o slice \in Seq(InMessages)
<1>1. ChunksUpTo(PrerollSlice(n), n)
  BY SliceShape
<1>2. Message("turn.start", None) \in InMessages
  BY DEF Message, InMessages, InKinds, OtherKinds, None
<1> DEFINE start == Message("turn.start", None)
           slice == PrerollSlice(n)
<1>3. slice \in Seq(InMessages)
  BY <1>1 DEF ChunksUpTo
<1>4. ToServer(before \o <<start>> \o slice) /\ speechStarted' = (slice # <<>>)
  BY DEF StartTurn
<1> HIDE DEF start, slice
<1>5. <<start>> \in Seq(InMessages)
  BY <1>2 DEF start
<1>6. before \o <<start>> \in Seq(InMessages)
  BY <1>5, ConcatProperties
<1>7. before \o <<start>> \o slice \in Seq(InMessages)
  BY <1>3, <1>6, ConcatProperties
<1>8. QED
  BY <1>1, <1>4, <1>7 DEF start, slice

-----------------------------------------------------------------------------
(* The types of the client's steps *)

Players == [state : {"none", "open", "ended"}, of : 0..MaxTurns, sounds : SUBSET Turns]

\* NoMessage is a message, and of no kind the player acts upon.
LEMMA NoneTyped ==
  NoMessage \in OutMessages /\ NoPlayer \in Players /\ NoMessage.kind = "none"
BY Bounds DEF NoMessage, NoPlayer, Message, OutMessages, OutKinds, Players, None

\* What Played makes of a player is a player.
LEMMA PlayedTyped ==
  ASSUME player \in Players, NEW m \in OutMessages, m.kind = "audio.chunk" => m.turn \in Turns
  PROVE  Played(m) \in Players
<1>1. m.turn \in 0..MaxTurns /\ player.sounds \subseteq Turns
  BY DEF OutMessages, Players
<1>2. CASE m.kind = "audio.start"
  BY <1>1, <1>2 DEF Played, Players
<1>3. CASE m.kind = "audio.chunk" /\ player.state = "open"
  <2>1. player.sounds \union {m.turn} \in SUBSET Turns
    BY <1>1, <1>3
  <2>2. Played(m) = [player EXCEPT !.sounds = player.sounds \union {m.turn}]
    BY <1>3 DEF Played
  <2>3. QED
    BY <2>1, <2>2 DEF Players
<1>4. CASE m.kind = "audio.end" /\ player.state = "open"
  <2>1. Played(m) = [player EXCEPT !.state = "ended"]
    BY <1>4 DEF Played
  <2>2. QED
    BY <2>1 DEF Players
<1>5. CASE Played(m) = NoPlayer
  BY <1>5, NoneTyped
<1>6. CASE Played(m) = player
  BY <1>6
<1>7. QED
  BY <1>2, <1>3, <1>4, <1>5, <1>6 DEF Played

\* A step of the client leaves the server's variables as they are, the two buffers apart.
ServerRests ==
  UNCHANGED <<socket, connection, reply, speech, texts, ttsSocket, memory, released, files>>

\* A step that leaves the server alone keeps its types.
LEMMA ServerRestsTypes ==
  ASSUME Types, ServerRests
  PROVE  /\ TurnTypes' /\ TaskTypes' /\ FileTypes'
         /\ socket' \in {"open", "closed"} /\ loop' \in {"idle", "gone"}
BY DEF ServerRests, connection, texts, memory, files, Types, WireTypes, TurnTypes, TaskTypes, FileTypes

\* The steps of the client leave all of the server but the wire.
LEMMA ClientRests ==
  ASSUME \/ \E level \in Levels : Hear(level)
         \/ Read \/ StopReturns \/ PlayedOut \/ ConnectionOver \/ SendOther
  PROVE  ServerRests
BY DEF Hear, Read, StopReturns, PlayedOut, ConnectionOver, SendOther, ServerRests, server, wire

\* Where the beginning of a turn leaves the microphone.
LEMMA StartTypes ==
  ASSUME Types, NEW n \in 0..MaxChunks, NEW before \in Seq(InMessages), StartTurn(n, before)
  PROVE  /\ inbox' \in Seq(InMessages) /\ turnActive' = TRUE /\ speechStarted' \in BOOLEAN
         /\ pendingSilence' \in Seq(Nat) /\ preroll' \in 1..(MaxChunks + 1)
<1>1. PICK slice : /\ ChunksUpTo(slice, n) /\ speechStarted' = (slice # <<>>)
                   /\ ToServer(before \o <<Message("turn.start", None)>> \o slice)
                   /\ before \o <<Message("turn.start", None)>> \o slice \in Seq(InMessages)
  BY StartShape
<1> DEFINE ms == before \o <<Message("turn.start", None)>> \o slice
<1>2. ms \in Seq(InMessages) /\ ToServer(ms)
  BY <1>1
<1> HIDE DEF ms
<1>3. inbox' \in Seq(InMessages)
  BY <1>2, ToServerTyped
<1>4. /\ turnActive' = TRUE /\ pendingSilence' = <<>> /\ preroll' = n + 1
  BY DEF StartTurn
<1>5. preroll' \in 1..(MaxChunks + 1)
  BY <1>4, Bounds
<1>6. QED
  BY <1>1, <1>3, <1>4, <1>5, EmptySeq

\* What a chunk of the active turn sends.
LEMMA ContinueShape ==
  ASSUME Types, NEW n \in Nat, NEW speaking, NEW spoken \in BOOLEAN, NEW ends \in BOOLEAN,
         ContinueTurn(n, speaking, spoken, ends)
  PROVE  \E first, last :
           /\ ToServer(first \o last) /\ first \o last \in Seq(InMessages)
           /\ first \in Seq(InMessages) /\ last \in Seq(InMessages)
           /\ first = IF spoken THEN Spoken(n) ELSE <<>>
           /\ last = IF ends THEN <<Message("turn.end", None)>> ELSE <<>>
<1> DEFINE first == IF spoken THEN Spoken(n) ELSE <<>>
           last == IF ends THEN <<Message("turn.end", None)>> ELSE <<>>
<1>1. first \in Seq(InMessages)
  BY SpokenShape, EmptySeq
<1>2. last \in Seq(InMessages)
  <2>1. Message("turn.end", None) \in InMessages
    BY DEF Message, InMessages, InKinds, OtherKinds, None
  <2>2. <<Message("turn.end", None)>> \in Seq(InMessages)
    BY <2>1
  <2>3. QED
    BY <2>2, EmptySeq
<1>3. ToServer(first \o last)
  BY DEF ContinueTurn
<1> HIDE DEF first, last
<1>4. first \o last \in Seq(InMessages)
  BY <1>1, <1>2, ConcatProperties
<1>5. QED
  BY <1>1, <1>2, <1>3, <1>4 DEF first, last

\* A chunk that is heard keeps types.
LEMMA HearTypes ==
  ASSUME Types, NEW level \in Levels, Hear(level)
  PROVE  Types'
<1> DEFINE n == Len(heard) + 1
<1>1. /\ device = "pi" /\ Open /\ mic = "idle" /\ n <= MaxChunks /\ heard' = Append(heard, level)
      /\ UNCHANGED <<outbox, device, waiting>>
  BY DEF Hear
<1>2. n \in Nat /\ n \in 0..MaxChunks
  BY <1>1, LenProperties, Bounds DEF Types, ClientTypes
<1>3. heard' \in Seq(Levels) /\ Len(heard') = n
  BY AppendProperties, <1>1 DEF Types, ClientTypes
<1>4. PICK speaking \in Speaking(level) :
        \/ /\ turnActive
           /\ \E ends \in BOOLEAN :
                ContinueTurn(n, speaking, speaking /\ level # "quiet", ends)
           /\ UNCHANGED <<preroll, mic, player>>
        \/ /\ ~turnActive
           /\ userSpeaking' = speaking
           /\ IF speaking /\ ~userSpeaking
              THEN BeginTurn(n)
              ELSE UNCHANGED <<inbox, preroll, turnActive, speechStarted, pendingSilence,
                               mic, player>>
  BY DEF Hear
<1>5. speaking \in BOOLEAN
  BY DEF Speaking
<1>6. ServerRests
  BY ClientRests
<1> HIDE DEF n
<1>7. /\ inbox' \in Seq(InMessages) /\ preroll' \in 1..(MaxChunks + 1)
      /\ turnActive' \in BOOLEAN /\ userSpeaking' \in BOOLEAN /\ speechStarted' \in BOOLEAN
      /\ pendingSilence' \in Seq(Nat) /\ mic' \in {"idle", "stopping"} /\ player' \in Players
  <2>0. /\ inbox \in Seq(InMessages) /\ preroll \in 1..(MaxChunks + 1)
        /\ turnActive \in BOOLEAN /\ userSpeaking \in BOOLEAN /\ speechStarted \in BOOLEAN
        /\ pendingSilence \in Seq(Nat) /\ mic \in {"idle", "stopping"} /\ player \in Players
    BY DEF Types, WireTypes, ClientTypes, Players
  <2>1. ASSUME NEW ends \in BOOLEAN,
               ContinueTurn(n, speaking, speaking /\ level # "quiet", ends),
               UNCHANGED <<preroll, mic, player>>
        PROVE  /\ inbox' \in Seq(InMessages) /\ preroll' \in 1..(MaxChunks + 1)
               /\ turnActive' \in BOOLEAN /\ userSpeaking' \in BOOLEAN /\ speechStarted' \in BOOLEAN
               /\ pendingSilence' \in Seq(Nat) /\ mic' \in {"idle", "stopping"} /\ player' \in Players
    <3> DEFINE spoken == speaking /\ level # "quiet"
    <3>1. spoken \in BOOLEAN /\ ContinueTurn(n, speaking, spoken, ends)
      BY <2>1
    <3>2. /\ turnActive' = ~ends /\ userSpeaking' = (speaking /\ ~ends)
          /\ speechStarted' = ((speechStarted \/ spoken) /\ ~ends)
          /\ pendingSilence' \in {<<>>, pendingSilence, Append(pendingSilence, n)}
      BY <2>1 DEF ContinueTurn
    <3> HIDE DEF spoken
    <3>3. \E ms \in Seq(InMessages) : ToServer(ms)
      BY <1>2, <3>1, ContinueShape
    <3>4. inbox' \in Seq(InMessages)
      BY <3>3, ToServerTyped
    <3>5. pendingSilence' \in Seq(Nat)
      <4>1. Append(pendingSilence, n) \in Seq(Nat)
        BY <1>2, <2>0, AppendProperties
      <4>2. QED
        BY <2>0, <3>2, <4>1, EmptySeq
    <3>6. QED
      BY <1>5, <2>0, <2>1, <3>2, <3>4, <3>5
  <2>2. CASE ~turnActive /\ userSpeaking' = speaking /\ BeginTurn(n)
    <3>1. CASE Interrupting
      BY <1>5, <2>0, <2>2, <3>1, NoneTyped DEF BeginTurn
    <3>2. CASE ~Interrupting
      <4>1. StartTurn(n, <<>>) /\ UNCHANGED <<mic, player>> /\ <<>> \in Seq(InMessages)
        BY <2>2, <3>2, EmptySeq DEF BeginTurn
      <4>2. QED
        BY <1>2, <1>5, <2>0, <2>2, <4>1, StartTypes
    <3>3. QED
      BY <3>1, <3>2
  <2>3. CASE /\ userSpeaking' = speaking
             /\ UNCHANGED <<inbox, preroll, turnActive, speechStarted, pendingSilence, mic, player>>
    BY <1>5, <2>0, <2>3
  <2>4. QED
    BY <1>4, <2>1, <2>2, <2>3
<1>8. WireTypes'
  BY <1>1, <1>6, <1>7, ServerRestsTypes DEF Types, WireTypes
<1>9. ClientTypes'
  BY <1>1, <1>2, <1>3, <1>7 DEF Types, ClientTypes, Players
<1>10. QED
  BY <1>6, <1>8, <1>9, ServerRestsTypes DEF Types

\* The reader, the player and the other device keep types.
LEMMA ReaderTypes ==
  ASSUME Types, Playing, Read \/ PlayedOut \/ ConnectionOver \/ SendOther
  PROVE  Types'
<1>1. ServerRests
  BY ClientRests
<1>2. /\ inbox \in Seq(InMessages) /\ outbox \in Seq(OutMessages) /\ waiting \in OutMessages
      /\ player \in Players /\ device \in {"pi", "other", "gone"}
  BY DEF Types, WireTypes, ClientTypes, Players
<1>3. CASE Read
  <2>1. outbox' \in Seq(OutMessages) /\ Head(outbox) \in OutMessages /\ Head(outbox) = At(1)
        /\ 1 \in Pos
    BY <1>2, <1>3, HeadTail DEF Read, At, Pos
  <2>2. Played(Head(outbox)) \in Players
    BY <1>2, <2>1, PlayedTyped DEF Playing
  <2>3. waiting' \in OutMessages /\ player' \in Players
    BY <1>2, <1>3, <2>1, <2>2 DEF Read
  <2>4. UNCHANGED <<inbox, device, detection, mic>>
    BY <1>3 DEF Read
  <2>5. WireTypes'
    BY <1>1, <1>2, <2>1, <2>4, ServerRestsTypes DEF WireTypes
  <2>6. ClientTypes'
    BY <2>3, <2>4 DEF Types, ClientTypes, Players, detection
  <2>7. QED
    BY <1>1, <2>5, <2>6, ServerRestsTypes DEF Types
<1>4. CASE PlayedOut
  <2>1. WireTypes' /\ ClientTypes'
    BY <1>4, NoneTyped DEF PlayedOut, server, wire, connection, detection, Types, WireTypes, ClientTypes,
                           Players
  <2>2. QED
    BY <1>1, <2>1, ServerRestsTypes DEF Types
<1>5. CASE ConnectionOver
  <2>1. /\ device' = "gone" /\ outbox' = <<>> /\ waiting' = NoMessage /\ inbox' = inbox
        /\ heard' = heard /\ pendingSilence' = <<>> /\ preroll' = Len(heard) + 1
        /\ turnActive' = FALSE /\ userSpeaking' = FALSE /\ speechStarted' = FALSE /\ mic' = "idle"
        /\ player' \in {NoPlayer, player}
    BY <1>5 DEF ConnectionOver
  <2>2. preroll' \in 1..(MaxChunks + 1)
    BY <2>1, LenProperties, Bounds DEF Types, ClientTypes
  <2>3. WireTypes'
    BY <1>1, <1>2, <2>1, EmptySeq, ServerRestsTypes DEF WireTypes
  <2>4. ClientTypes'
    BY <1>2, <2>1, <2>2, EmptySeq, NoneTyped DEF Types, ClientTypes, Players
  <2>5. QED
    BY <1>1, <2>3, <2>4, ServerRestsTypes DEF Types
<1>6. CASE SendOther
  <2>1. PICK kind \in OtherKinds : ToServer(<<Message(kind, None)>>)
    BY <1>6 DEF SendOther
  <2>2. <<Message(kind, None)>> \in Seq(InMessages)
    BY DEF Message, InMessages, InKinds, None
  <2>3. inbox' \in Seq(InMessages)
    BY <2>1, <2>2, ToServerTyped
  <2>4. UNCHANGED <<outbox, device, detection, mic, reading>>
    BY <1>6 DEF SendOther
  <2>5. WireTypes'
    BY <1>1, <1>2, <2>3, <2>4, ServerRestsTypes DEF WireTypes
  <2>6. ClientTypes'
    BY <2>4 DEF Types, ClientTypes, detection, reading
  <2>7. QED
    BY <1>1, <2>5, <2>6, ServerRestsTypes DEF Types
<1>7. QED
  BY <1>3, <1>4, <1>5, <1>6

\* The end of stop() keeps types.
LEMMA StopTypes ==
  ASSUME Types, Playing, StopReturns
  PROVE  Types'
<1>1. ServerRests
  BY ClientRests
<1> DEFINE n == Len(heard)
           before == <<Message("interrupt", None)>>
<1>2. n \in Nat /\ n \in 0..MaxChunks
  BY LenProperties, Bounds DEF Types, ClientTypes
<1>3. before \in Seq(InMessages)
  BY DEF Message, InMessages, InKinds, OtherKinds, None
<1>4. /\ StartTurn(n, before) /\ mic' = "idle" /\ player' = Played(waiting) /\ waiting' = NoMessage
      /\ UNCHANGED <<outbox, device, userSpeaking>> /\ heard' = heard
  BY DEF StopReturns
<1> HIDE DEF n, before
<1>5. /\ inbox' \in Seq(InMessages) /\ turnActive' = TRUE /\ speechStarted' \in BOOLEAN
      /\ pendingSilence' \in Seq(Nat) /\ preroll' \in 1..(MaxChunks + 1)
  BY <1>2, <1>3, <1>4, StartTypes
<1>6. player' \in Players
  <2>1. 0 \in Pos /\ At(0) = waiting
    BY LenProperties DEF Pos, At, Types, WireTypes
  <2>2. waiting.kind = "audio.chunk" => waiting.turn \in Turns
    BY <2>1 DEF Playing
  <2>3. QED
    BY <1>4, <2>2, PlayedTyped DEF Types, ClientTypes, Players
<1>7. WireTypes'
  BY <1>1, <1>4, <1>5, ServerRestsTypes DEF Types, WireTypes
<1>8. ClientTypes'
  BY <1>4, <1>5, <1>6, NoneTyped DEF Types, ClientTypes, Players
<1>9. QED
  BY <1>1, <1>7, <1>8, ServerRestsTypes DEF Types

\* Every step keeps the types.
LEMMA TypesKept ==
  ASSUME Types, Turning, Recording, Playing, Next
  PROVE  Types'
<1>1. CASE ServerNext /\ UNCHANGED client
  <2>1. ClientTypes'
    BY <1>1, ServerTypes
  <2>2. CASE Handle
    BY <2>1, <2>2, HandleTypes DEF Types
  <2>3. CASE LoopEnds \/ RecogniserFails \/ Drop \/ Disconnect
    BY <2>1, <2>3, EndTypes DEF Types
  <2>4. ASSUME NEW t \in Turns, Tasks(t)
        PROVE  Types'
    <3>1. /\ WireTypes'
          /\ UNCHANGED <<session, turns, activeTurn, collecting, conversation, pcm, cancelled>>
      BY <2>4, TaskWire
    <3>2. TurnTypes'
      BY <2>4, <3>1, TaskTask, Bounds DEF Types, TurnTypes, None
    <3>3. TaskTypes'
      BY <2>4, <3>1, TaskTask, TaskSpeech, TaskTexts DEF TaskTypes
    <3>4. FileTypes'
      BY <2>4, <3>1, TaskTask, TaskTexts DEF Types, FileTypes
    <3>5. QED
      BY <2>1, <3>1, <3>2, <3>3, <3>4 DEF Types
  <2>5. QED
    BY <1>1, <2>2, <2>3, <2>4 DEF ServerNext
<1>2. CASE \E level \in Levels : Hear(level)
  BY <1>2, HearTypes
<1>3. CASE Read \/ PlayedOut \/ ConnectionOver \/ SendOther
  BY <1>3, ReaderTypes
<1>4. CASE StopReturns
  BY <1>4, StopTypes
<1>5. QED
  BY <1>1, <1>2, <1>3, <1>4 DEF Next

-----------------------------------------------------------------------------
(* Who answers, and what is recorded of it *)

Replies == {"none", "created", "starting", "streaming", "sending", "speech", "ending", "failing",
            "done"}

\* A speech that goes on as it was, or whose context was dropped.
Fades(before, after) == after = before \/ (before = "speaking" /\ after = "dropped")

\* Speech that ends for any reason leaves the records fitting.
LEMMA FadingKeepsRecords ==
  ASSUME Types, Recording, UNCHANGED <<reply, record, cancelled, deltas>>,
         \A t \in Turns : Fades(speech[t], speech'[t])
  PROVE  Recording'
BY DEF Recording, Recorded, Fades, SpeechRuns, Answering

\* The record of the reply that is cut, at whatever await it is.
LEMMA CutKeepsRecords ==
  ASSUME Types, Recording, NEW t \in Turns, reply[t] \notin Resting, CutReply(t),
         UNCHANGED deltas, \A u \in Turns : Fades(CutSpeech(t)[u], speech'[u])
  PROVE  Recording'
<1>1. /\ reply' = [reply EXCEPT ![t] = "done"] /\ record' = CutRecord(t)
      /\ cancelled' = cancelled \union {t}
  BY DEF CutReply
<1>2. /\ reply \in [Turns -> Replies]
      /\ record \in [Turns -> {"none", "no_input", "reply", "interrupted", "error"}]
      /\ speech \in [Turns -> {"none", "opening", "speaking", "dropped", "cancelled", "failed", "done"}]
  BY DEF Types, TaskTypes, FileTypes, Replies
<1>3. ASSUME NEW u \in Turns, u # t
      PROVE  Recorded(u)'
  <2>1. reply'[u] = reply[u] /\ (u \in cancelled' <=> u \in cancelled) /\ deltas'[u] = deltas[u]
    BY <1>1, <1>2, <1>3
  <2>2. record'[u] = record[u]
    BY <1>1, <1>2, <1>3 DEF CutRecord
  <2>3. CutSpeech(t)[u] = speech[u]
    BY <1>2, <1>3 DEF CutSpeech
  <2>4. Fades(speech[u], speech'[u]) /\ Recorded(u)
    BY <2>3 DEF Recording
  <2>5. QED
    BY <2>1, <2>2, <2>4 DEF Recorded, Fades, SpeechRuns, Answering
<1>4. Recorded(t)'
  <2>1. reply'[t] = "done" /\ t \in cancelled' /\ deltas'[t] = deltas[t] /\ Recorded(t)
    BY <1>1, <1>2 DEF Recording
  <2>2. record'[t] # "reply"
    <3>1. CASE InTry(t) /\ ~SpeechRuns(t)
      BY <1>1, <1>2, <3>1 DEF CutRecord
    <3>2. CASE ~(InTry(t) /\ ~SpeechRuns(t))
      <4>1. record'[t] = record[t]
        BY <1>1, <3>2 DEF CutRecord
      <4>2. QED
        BY <2>1, <3>2, <4>1 DEF Recorded, InTry, SpeechRuns, Resting
    <3>3. QED
      BY <3>1, <3>2
  <2>3. SpeechRuns(t)' => record'[t] = "error" \/ deltas'[t] = 0
    <3>1. CASE InTry(t) /\ SpeechRuns(t)
      <4>1. CutSpeech(t)[t] = "cancelled"
        BY <1>2, <3>1 DEF CutSpeech, InTry
      <4>2. QED
        BY <4>1 DEF Fades, SpeechRuns
    <3>2. CASE InTry(t) /\ ~SpeechRuns(t)
      <4>1. CutSpeech(t)[t] = speech[t]
        BY <3>2 DEF CutSpeech, InTry
      <4>2. QED
        BY <3>2, <4>1 DEF Fades, SpeechRuns
    <3>3. CASE ~InTry(t)
      <4>1. reply[t] \in {"created", "starting", "failing"}
        BY <1>2, <3>3 DEF InTry, Resting, Replies
      <4>2. CASE reply[t] = "failing"
        <5>1. record[t] = "error" /\ record'[t] = record[t]
          BY <1>1, <2>1, <3>3, <4>2 DEF Recorded, CutRecord
        <5>2. QED
          BY <5>1
      <4>3. CASE reply[t] \in {"created", "starting"}
        BY <2>1, <4>3 DEF Recorded
      <4>4. QED
        BY <4>1, <4>2, <4>3
    <3>4. QED
      BY <3>1, <3>2, <3>3
  <2>4. QED
    BY <2>1, <2>2, <2>3 DEF Recorded, SpeechRuns, Answering
<1>5. QED
  BY <1>3, <1>4 DEF Recording

\* So does a cancellation by a handler.
LEMMA CancelKeepsRecords ==
  ASSUME Types, Turning, Recording, NEW ms, CancelReply(ms), UNCHANGED deltas
  PROVE  Recording'
<1>1. CASE ReplyRuns
  <2>1. replyTask \in Turns /\ CutReply(replyTask) /\ speech' = CutSpeech(replyTask)
    BY <1>1, Bounds DEF CancelReply, ReplyRuns, Types, TurnTypes, Turns, None
  <2>2. \A u \in Turns : Fades(CutSpeech(replyTask)[u], speech'[u])
    BY <2>1 DEF Fades
  <2>3. CASE reply[replyTask] = "none"
    <3>1. /\ \A u \in Turns : reply[u] \in Resting
          /\ record[replyTask] # "reply" /\ record[replyTask] # "error"
          /\ speech[replyTask] = "none" /\ deltas[replyTask] = 0
      BY <2>1, <2>3 DEF Turning, Recording, Recorded, Resting
    <3>2. ~InTry(replyTask) /\ record' = record /\ speech' = speech
      BY <2>1, <2>3 DEF CutReply, CutRecord, CutSpeech, InTry
    <3>3. reply' = [reply EXCEPT ![replyTask] = "done"] /\ cancelled' = cancelled \union {replyTask}
      BY <2>1 DEF CutReply
    <3>4. QED
      BY <2>1, <3>1, <3>2, <3>3
      DEF Recording, Recorded, SpeechRuns, Answering, Types, TaskTypes
  <2>4. CASE reply[replyTask] # "none"
    BY <1>1, <2>1, <2>2, <2>4, CutKeepsRecords DEF ReplyRuns, Resting
  <2>5. QED
    BY <2>3, <2>4
<1>2. CASE ~ReplyRuns
  BY <1>2, FadingKeepsRecords DEF CancelReply, Fades
<1>3. QED
  BY <1>1, <1>2

\* The end of a handler or of the connection.
LEMMA LoopKeepsRecords ==
  ASSUME Types, Turning, Recording, Handle \/ LoopEnds \/ RecogniserFails \/ Drop \/ Disconnect
  PROVE  Recording'
<1>1. CASE HandleInterrupt \/ HandleStart \/ HandleReset
  <2>1. \E ms : CancelReply(ms)
    BY <1>1 DEF HandleInterrupt, HandleStart, HandleReset
  <2>2. UNCHANGED deltas
    BY <1>1 DEF HandleInterrupt, HandleStart, HandleReset, Receives, texts
  <2>3. QED
    BY <2>1, <2>2, CancelKeepsRecords
<1>2. CASE HandleHello \/ HandleAudio
  BY <1>2, FadingKeepsRecords DEF HandleHello, HandleAudio, Receives, texts, files, Fades
<1>3. CASE HandleEnd
  <2>1. UNCHANGED <<speech, cancelled, deltas>>
    BY <1>3 DEF HandleEnd, Receives, texts
  <2>2. CASE activeTurn = None
    BY <1>3, <2>1, <2>2, FadingKeepsRecords DEF HandleEnd, Fades
  <2>3. CASE activeTurn # None
    <3>1. activeTurn \in Turns /\ reply[activeTurn] = "none" /\ Recorded(activeTurn)
      BY <2>3, Bounds DEF Types, TurnTypes, Turns, None, Turning, Recording
    <3>2. CASE record' = [record EXCEPT ![activeTurn] = "no_input"] /\ UNCHANGED reply
      BY <2>1, <3>1, <3>2
      DEF Recording, Recorded, SpeechRuns, Answering, Types, FileTypes
    <3>3. CASE reply' = [reply EXCEPT ![activeTurn] = "created"] /\ UNCHANGED record
      BY <2>1, <3>1, <3>3
      DEF Recording, Recorded, SpeechRuns, Answering, Types, TaskTypes
    <3>4. QED
      BY <1>3, <2>3, <3>2, <3>3 DEF HandleEnd
  <2>4. QED
    BY <2>2, <2>3
<1>4. CASE RecogniserFails \/ Drop \/ Disconnect
  <2>1. UNCHANGED <<reply, record, cancelled, deltas>>
    BY <1>4 DEF RecogniserFails, Drop, Disconnect, files, texts
  <2>2. speech' = speech \/ speech' = ContextsEnd(speech)
    BY <1>4 DEF RecogniserFails, Drop, Disconnect
  <2>3. \A t \in Turns : Fades(speech[t], speech'[t])
    BY <2>2 DEF ContextsEnd, Fades
  <2>4. QED
    BY <2>1, <2>3, FadingKeepsRecords
<1>5. CASE LoopEnds
  <2> DEFINE left == IF ReplyRuns THEN CutSpeech(replyTask) ELSE speech
  <2>1. speech' = left \/ speech' = ContextsEnd(left)
    BY <1>5 DEF LoopEnds
  <2>2. \A t \in Turns : Fades(left[t], speech'[t])
    <3> HIDE DEF left
    <3>1. QED
      BY <2>1 DEF ContextsEnd, Fades
  <2>3. UNCHANGED deltas
    BY <1>5 DEF LoopEnds, texts
  <2>4. CASE ReplyRuns
    <3>1. replyTask \in Turns /\ CutReply(replyTask)
      BY <1>5, <2>4, Bounds DEF LoopEnds, ReplyRuns, Types, TurnTypes, Turns, None
    <3>2. \A u \in Turns : Fades(CutSpeech(replyTask)[u], speech'[u])
      BY <2>2, <2>4
    <3>3. reply[replyTask] # "done"
      BY <2>4 DEF ReplyRuns
    <3>4. CASE reply[replyTask] # "none"
      BY <2>3, <3>1, <3>2, <3>3, <3>4, CutKeepsRecords DEF Resting
    <3>5. CASE reply[replyTask] = "none"
      <4>1. /\ record[replyTask] # "reply" /\ record[replyTask] # "error"
            /\ speech[replyTask] = "none" /\ deltas[replyTask] = 0
        BY <3>1, <3>5 DEF Recording, Recorded
      <4>2. CutSpeech(replyTask) = speech /\ record' = record
        BY <3>1, <3>5 DEF CutReply, CutRecord, CutSpeech, InTry
      <4>3. reply' = [reply EXCEPT ![replyTask] = "done"] /\ cancelled' = cancelled \union {replyTask}
        BY <3>1 DEF CutReply
      <4>4. \A u \in Turns : Fades(speech[u], speech'[u])
        BY <3>2, <4>2
      <4>5. QED
        BY <2>3, <3>1, <4>1, <4>2, <4>3, <4>4
        DEF Recording, Recorded, SpeechRuns, Answering, Types, TaskTypes, Fades
    <3>6. QED
      BY <3>4, <3>5
  <2>5. CASE ~ReplyRuns
    <3>1. UNCHANGED <<reply, record, cancelled>>
      BY <1>5, <2>5 DEF LoopEnds, files
    <3>2. \A t \in Turns : Fades(speech[t], speech'[t])
      BY <2>2, <2>5
    <3>3. QED
      BY <2>3, <3>1, <3>2, FadingKeepsRecords
  <2>6. QED
    BY <2>4, <2>5
<1>6. QED
  BY <1>1, <1>2, <1>3, <1>4, <1>5 DEF Handle

\* The step of a task moves its own reply only, and tells of its end.
LEMMA TaskMoves ==
  ASSUME Types, NEW t \in Turns, Tasks(t)
  PROVE  \/ UNCHANGED <<reply, replyTask>>
         \/ reply[t] \notin Resting /\ replyTask' = replyTask
         \/ reply[t] \notin Resting /\ replyTask' = None /\ reply'[t] = "done"
<1>1. reply \in [Turns -> Replies]
  BY DEF Types, TaskTypes, Replies
<1>2. CASE RunReply(t)
  BY <1>1, <1>2, ReplyGoes DEF RunReply, ReplyDone, ReplyGoesOn, Resting
<1>3. CASE AgentDelta(t)
  BY <1>1, <1>3, ReplyGoes DEF AgentDelta, Sends, connection, Resting
<1>4. CASE StreamEnds(t)
  BY <1>1, <1>4, ReplyGoes DEF StreamEnds, connection, Resting
<1>5. ASSUME NEW from \in {"streaming", "speech"}, Fails(t, from)
      PROVE  /\ reply[t] \notin Resting
             /\ replyTask' = replyTask \/ (replyTask' = None /\ reply'[t] = "done")
  <2>1. reply[t] = from
    BY <1>5 DEF Fails, Sends, Reply
  <2>2. CASE Open
    BY <1>5, <2>1, <2>2 DEF Fails, ReplyDone, ReplyGoesOn, Resting
  <2>3. CASE ~Open
    <3>1. Reply(t, from, "done") /\ replyTask' = None
      BY <1>5, <2>3 DEF Fails, ReplyDone
    <3>2. reply'[t] = "done"
      BY <3>1, ReplyGoes
    <3>3. QED
      BY <2>1, <3>1, <3>2 DEF Resting
  <2>4. QED
    BY <2>2, <2>3
<1>6. CASE AgentFails(t)
  BY <1>5, <1>6 DEF AgentFails
<1>7. CASE SpeechOver(t)
  <2>1. CASE /\ Sends(t, "speech", <<Message("assistant.end", t)>>, "done", "ending")
             /\ IF reply'[t] = "done" THEN ReplyDone ELSE ReplyGoesOn
    BY <2>1 DEF Sends, Reply, ReplyDone, ReplyGoesOn, Resting
  <2>2. QED
    BY <1>5, <1>7, <2>1 DEF SpeechOver
<1>8. CASE Resume(t)
  BY <1>1, <1>8, ReplyGoes DEF Resume, ReplyDone, ReplyGoesOn, Resting
<1>9. CASE Opens(t) \/ OpenFails(t) \/ Chunk(t) \/ FinalAudio(t) \/ DropEnds(t)
  BY <1>9 DEF Opens, OpenFails, Chunk, FinalAudio, DropEnds, AudioEnds, Speech, connection
<1>10. QED
  BY <1>2, <1>3, <1>4, <1>6, <1>7, <1>8, <1>9 DEF Tasks

\* A reply runs only as _reply_task, and never while a turn is active.
LEMMA TurningKept ==
  ASSUME Types, Turning, Next
  PROVE  Turning'
<1>0. reply \in [Turns -> Replies] /\ pcm \in [Turns -> Seq(Nat)] /\ turns \in Nat
      /\ activeTurn \in 0..turns /\ replyTask \in 0..turns /\ MaxTurns \in Nat /\ turns <= MaxTurns
      /\ Turns = 1..MaxTurns /\ None = 0
  BY Bounds DEF Types, TaskTypes, TurnTypes, Replies, Turns, None
<1>1. CASE HandleInterrupt \/ HandleStart \/ HandleReset
  <2>1. PICK ms \in Seq(OutMessages) :
          /\ CancelReply(ms)
          /\ \A i \in 1..Len(ms) : ms[i].kind \notin {"audio.start", "audio.chunk"}
    BY <1>1, HandlersCancel
  <2>2. replyTask' = None /\ \A t \in Turns : reply'[t] \in Resting
    BY <2>1, RestingKeepsTypes
  <2>3. \A t \in Turns : reply'[t] = reply[t] \/ (ReplyRuns /\ t = replyTask)
    BY <1>0, <2>1 DEF CancelReply, CutReply
  <2>4. UNCHANGED <<socket, loop, pcm>>
    BY <1>1 DEF HandleInterrupt, HandleStart, HandleReset, Receives
  <2>5. \A t \in Turns : t > turns => reply'[t] = "none" /\ pcm'[t] = <<>>
    BY <1>0, <2>3, <2>4 DEF Turning
  <2>6. \/ UNCHANGED <<turns, activeTurn>>
        \/ activeTurn' = None /\ UNCHANGED turns
        \/ turns' = turns + 1 /\ activeTurn' = turns' /\ turns < MaxTurns
    BY <1>1 DEF HandleInterrupt, HandleStart, HandleReset
  <2>7. activeTurn' # None => reply'[activeTurn'] = "none"
    <3>1. CASE UNCHANGED <<turns, activeTurn>>
      BY <1>0, <2>3, <3>1 DEF Turning, ReplyRuns
    <3>2. CASE turns' = turns + 1 /\ activeTurn' = turns' /\ turns < MaxTurns
      <4>1. activeTurn' \in Turns /\ activeTurn' > turns
        BY <1>0, <3>2
      <4>2. QED
        BY <2>5, <4>1
    <3>3. QED
      BY <2>6, <3>1, <3>2
  <2>8. \A t \in Turns : t > turns' => t > turns
    BY <1>0, <2>6
  <2>9. QED
    BY <2>2, <2>4, <2>5, <2>7, <2>8 DEF Turning, Open
<1>2. CASE HandleHello \/ RecogniserFails \/ Drop \/ Disconnect
  BY <1>0, <1>2
  DEF HandleHello, RecogniserFails, Drop, Disconnect, Receives, wire, connection, Turning, Open, Resting
<1>3. CASE HandleAudio
  <2>1. UNCHANGED <<socket, loop, turns, activeTurn, reply, replyTask>>
    BY <1>3 DEF HandleAudio, Receives
  <2>2. \A t \in Turns : t > turns => pcm'[t] = pcm[t]
    BY <1>0, <1>3 DEF HandleAudio
  <2>3. QED
    BY <2>1, <2>2 DEF Turning, Open
<1>4. CASE HandleEnd
  <2>1. UNCHANGED <<socket, loop, turns, pcm>> /\ activeTurn' = None
    BY <1>4 DEF HandleEnd, Receives
  <2>2. \/ UNCHANGED <<reply, replyTask>>
        \/ /\ activeTurn # None /\ reply' = [reply EXCEPT ![activeTurn] = "created"]
           /\ replyTask' = activeTurn
    BY <1>4 DEF HandleEnd
  <2>3. QED
    BY <1>0, <2>1, <2>2 DEF Turning, Open, Resting
<1>5. CASE LoopEnds
  <2>1. /\ UNCHANGED <<socket, turns, pcm>> /\ activeTurn' = None /\ replyTask' = None /\ ~Open
    BY <1>5 DEF LoopEnds
  <2>2. \/ ReplyRuns /\ reply' = [reply EXCEPT ![replyTask] = "done"]
        \/ ~ReplyRuns /\ reply' = reply
    BY <1>5 DEF LoopEnds, CutReply
  <2>3. \A t \in Turns : reply'[t] \in Resting /\ (t > turns => reply'[t] = "none")
    BY <1>0, <2>2 DEF Turning, Resting, ReplyRuns
  <2>4. QED
    BY <2>1, <2>3 DEF Turning, Open
<1>6. ASSUME NEW t \in Turns, Tasks(t)
      PROVE  Turning'
  <2>1. UNCHANGED <<socket, loop, turns, activeTurn, pcm>>
    BY <1>6, TaskWire
  <2>2. \A u \in Turns : u # t => reply'[u] = reply[u]
    BY <1>6, TaskTask
  <2>3. \/ UNCHANGED <<reply, replyTask>>
        \/ reply[t] \notin Resting /\ replyTask' = replyTask
        \/ reply[t] \notin Resting /\ replyTask' = None /\ reply'[t] = "done"
    BY <1>6, TaskMoves
  <2>4. reply[t] \notin Resting => replyTask = t /\ t # None /\ activeTurn = None /\ t <= turns
    BY <1>0 DEF Turning, Resting
  <2>5. \A u \in Turns : reply'[u] \notin Resting => replyTask' = u
    BY <2>2, <2>3, <2>4 DEF Turning, Resting
  <2>6. activeTurn' # None => replyTask' = None /\ reply'[activeTurn'] = "none"
    BY <2>1, <2>3, <2>4 DEF Turning
  <2>7. \A u \in Turns : u > turns => reply'[u] = "none"
    BY <1>0, <2>2, <2>3, <2>4 DEF Turning
  <2>8. QED
    BY <2>1, <2>5, <2>6, <2>7 DEF Turning, Open
<1>7. CASE ServerNext
  BY <1>1, <1>2, <1>3, <1>4, <1>5, <1>6, <1>7 DEF ServerNext, Handle
<1>8. CASE ServerRests
  BY <1>8 DEF ServerRests, connection, Turning, Open
<1>9. QED
  BY <1>7, <1>8, ClientRests DEF Next

\* A step of a task writes the record that fits where it goes.
LEMMA TaskKeepsRecords ==
  ASSUME Types, Turning, Recording, NEW t \in Turns, Tasks(t)
  PROVE  Recording'
<1>0. /\ reply \in [Turns -> Replies] /\ Recorded(t) /\ UNCHANGED cancelled
      /\ deltas \in [Turns -> 0..MaxDeltas] /\ MaxDeltas \in Nat
      /\ speech \in [Turns -> {"none", "opening", "speaking", "dropped", "cancelled", "failed", "done"}]
      /\ record \in [Turns -> {"none", "no_input", "reply", "interrupted", "error"}]
  BY TaskWire, Bounds DEF Types, TaskTypes, FileTypes, Replies, Recording
<1>1. ASSUME NEW u \in Turns, u # t
      PROVE  Recorded(u)'
  <2>1. reply'[u] = reply[u] /\ record'[u] = record[u]
    BY <1>1, TaskTask
  <2>2. speech'[u] = speech[u]
    BY <1>1, TaskSpeech
  <2>3. deltas'[u] = deltas[u]
    BY <1>1, TaskTexts
  <2>4. Recorded(u)
    BY DEF Recording
  <2>5. QED
    BY <1>0, <2>1, <2>2, <2>3, <2>4 DEF Recorded, SpeechRuns, Answering
<1> SUFFICES Recorded(t)'
  BY <1>1 DEF Recording
<1>2. CASE RunReply(t)
  <2>1. reply[t] = "created" /\ speech[t] = "none" /\ deltas[t] = 0 /\ t \notin cancelled
        /\ record[t] # "reply" /\ record[t] # "error"
    BY <1>0, <1>2 DEF RunReply, Reply, Recorded
  <2>2. UNCHANGED <<deltas, record>>
    BY <1>2 DEF RunReply, texts, files
  <2>3. \/ reply'[t] = "streaming"
        \/ reply'[t] = "starting" /\ speech' = speech
        \/ reply'[t] = "done" /\ speech'[t] = "failed"
    BY <1>0, <1>2 DEF RunReply, Reply
  <2>4. QED
    BY <1>0, <2>1, <2>2, <2>3 DEF Recorded, SpeechRuns, Answering
<1>3. CASE AgentDelta(t)
  <2>1. reply[t] = "streaming" /\ deltas[t] < MaxDeltas /\ UNCHANGED <<speech, record>>
    BY <1>3 DEF AgentDelta, Sends, Reply, files
  <2>2. reply'[t] \in {"streaming", "sending"}
    BY <1>0, <1>3, ReplyGoes DEF AgentDelta, Sends
  <2>3. reply'[t] = "sending" => deltas'[t] < MaxDeltas
    BY <1>0, <1>3, <2>1 DEF AgentDelta
  <2>4. QED
    BY <1>0, <2>1, <2>2, <2>3 DEF Recorded, SpeechRuns, Answering
<1>4. CASE StreamEnds(t)
  <2>1. reply[t] = "streaming" /\ reply'[t] = "speech" /\ UNCHANGED <<speech, record, deltas>>
    BY <1>0, <1>4, ReplyGoes DEF StreamEnds, files
  <2>2. QED
    BY <1>0, <2>1 DEF Recorded, SpeechRuns, Answering
<1>5. ASSUME NEW from \in {"streaming", "speech"}, Fails(t, from), UNCHANGED <<speech, deltas>>
      PROVE  Recorded(t)'
  <2>1. reply[t] = from
    BY <1>5 DEF Fails, Sends, Reply
  <2>2. record'[t] = "error"
    BY <1>0, <1>5 DEF Fails
  <2>3. reply'[t] \in {"done", "failing"}
    BY <1>0, <1>5, ReplyGoes DEF Fails, Sends
  <2>4. QED
    BY <1>0, <1>5, <2>1, <2>2, <2>3 DEF Recorded, SpeechRuns, Answering
<1>6. CASE AgentFails(t)
  BY <1>5, <1>6 DEF AgentFails, texts
<1>7. CASE SpeechOver(t)
  <2>1. CASE /\ speech[t] = "done"
             /\ Sends(t, "speech", <<Message("assistant.end", t)>>, "done", "ending")
             /\ record' = [record EXCEPT ![t] = "reply"]
    <3>1. reply[t] = "speech" /\ record'[t] = "reply" /\ reply'[t] \in {"done", "ending"}
      BY <1>0, <2>1, ReplyGoes DEF Sends, Reply
    <3>2. UNCHANGED <<speech, deltas>>
      BY <1>7 DEF SpeechOver, texts
    <3>3. QED
      BY <1>0, <2>1, <3>1, <3>2 DEF Recorded, SpeechRuns, Answering
  <2>2. CASE Fails(t, "speech")
    BY <1>5, <1>7, <2>2 DEF SpeechOver, texts
  <2>3. QED
    BY <1>7, <2>1, <2>2 DEF SpeechOver
<1>8. CASE Resume(t)
  <2>1. CASE reply[t] = "starting" /\ reply'[t] = "streaming" /\ UNCHANGED <<deltas, record>>
    BY <1>0, <2>1 DEF Recorded, SpeechRuns, Answering
  <2>2. CASE reply[t] = "sending" /\ reply'[t] = "streaming" /\ UNCHANGED <<speech, record>>
    BY <1>0, <2>2 DEF Recorded, SpeechRuns, Answering
  <2>3. CASE /\ reply[t] \in {"ending", "failing"} /\ reply'[t] = "done"
             /\ UNCHANGED <<speech, deltas, record>>
    BY <1>0, <2>3 DEF Recorded, SpeechRuns, Answering
  <2>4. CASE /\ reply[t] = "starting" /\ reply'[t] = "done" /\ speech'[t] = "failed"
             /\ UNCHANGED <<deltas, record>>
    BY <1>0, <2>4 DEF Recorded, SpeechRuns, Answering
  <2>5. CASE /\ reply[t] \in {"sending", "ending"} /\ reply'[t] = "done" /\ record'[t] = "error"
             /\ UNCHANGED <<speech, deltas>>
    BY <1>0, <2>5 DEF Recorded, SpeechRuns, Answering
  <2>6. QED
    BY <1>0, <1>8, <2>1, <2>2, <2>3, <2>4, <2>5, ReplyGoes DEF Resume
<1>9. CASE Opens(t) \/ OpenFails(t) \/ Chunk(t) \/ FinalAudio(t) \/ DropEnds(t)
  <2>1. UNCHANGED <<reply, deltas, record>> /\ SpeechRuns(t)
    BY <1>9 DEF Opens, OpenFails, Chunk, FinalAudio, DropEnds, AudioEnds, Speech, files, SpeechRuns
  <2>2. reply[t] # "ending"
    BY <1>0, <2>1 DEF Recorded, SpeechRuns
  <2>3. QED
    BY <1>0, <2>1, <2>2 DEF Recorded, SpeechRuns, Answering
<1>10. QED
  BY <1>2, <1>3, <1>4, <1>6, <1>7, <1>8, <1>9 DEF Tasks

\* No step writes a record that does not fit the tasks of its turn.
LEMMA RecordingKept ==
  ASSUME Types, Turning, Recording, Next
  PROVE  Recording'
<1>1. CASE ServerNext
  BY <1>1, LoopKeepsRecords, TaskKeepsRecords DEF ServerNext
<1>2. CASE ServerRests
  BY <1>2 DEF ServerRests, connection, files, texts, Recording, Recorded, SpeechRuns, Answering
<1>3. QED
  BY <1>1, <1>2, ClientRests DEF Next

-----------------------------------------------------------------------------
(* The agent's memory *)

\* Steps that touch what the agent knows: the question to it, and its answer.
LEMMA MemorySteps ==
  ASSUME Types, Next
  PROVE  \/ UNCHANGED memory
         \/ \E t \in Turns : AsksAgent(t) /\ Tasks(t)
         \/ \E t \in Turns : StreamEnds(t)
<1>1. CASE Handle \/ LoopEnds \/ RecogniserFails \/ Drop \/ Disconnect
  BY <1>1 DEF Handle, HandleHello, HandleInterrupt, HandleStart, HandleAudio, HandleEnd, HandleReset,
              Receives, LoopEnds, RecogniserFails, Drop, Disconnect
<1>2. ASSUME NEW t \in Turns, Tasks(t)
      PROVE  UNCHANGED memory \/ AsksAgent(t) \/ StreamEnds(t)
  BY <1>2 DEF Tasks, RunReply, AgentDelta, AgentFails, SpeechOver, Resume, Opens, OpenFails, Chunk,
              FinalAudio, DropEnds, AudioEnds, Speech, memory
<1>3. CASE ServerRests
  BY <1>3 DEF ServerRests
<1>4. QED
  BY <1>1, <1>2, <1>3, ClientRests DEF Next, ServerNext

\* The session of a turn is chosen when it begins.
LEMMA ConversationSteps ==
  ASSUME Types, Turning, Next
  PROVE  UNCHANGED conversation \/ \A t \in Turns : reply'[t] \in Resting
<1>1. CASE HandleInterrupt \/ HandleStart \/ HandleReset
  BY <1>1, HandlersCancel, RestingKeepsTypes
<1>2. CASE HandleHello \/ HandleAudio \/ HandleEnd \/ LoopEnds \/ RecogniserFails \/ Drop \/ Disconnect
  BY <1>2 DEF HandleHello, HandleAudio, HandleEnd, LoopEnds, RecogniserFails, Drop, Disconnect,
              connection
<1>3. ASSUME NEW t \in Turns, Tasks(t)
      PROVE  UNCHANGED conversation
  BY <1>3, TaskWire
<1>4. CASE ServerRests
  BY <1>4 DEF ServerRests, connection
<1>5. QED
  BY <1>1, <1>2, <1>3, <1>4, ClientRests DEF Next, ServerNext, Handle

\* A reply that streams after a step streamed before it, or has just asked the agent.
LEMMA StreamingSteps ==
  ASSUME Types, Turning, Next, NEW t \in Turns, reply'[t] \in {"streaming", "sending"}
  PROVE  \/ reply[t] \in {"streaming", "sending"} /\ ~StreamEnds(t)
         \/ AsksAgent(t)
<1>0. reply \in [Turns -> Replies]
  BY DEF Types, TaskTypes, Replies
<1>1. CASE HandleInterrupt \/ HandleStart \/ HandleReset
  BY <1>1, HandlersCancel, RestingKeepsTypes DEF Resting
<1>2. CASE HandleHello \/ HandleAudio \/ HandleEnd \/ LoopEnds \/ RecogniserFails \/ Drop \/ Disconnect
  <2>1. \/ reply' = reply
        \/ reply' = [reply EXCEPT ![activeTurn] = "created"]
        \/ reply' = [reply EXCEPT ![replyTask] = "done"]
    BY <1>2
    DEF HandleHello, HandleAudio, HandleEnd, LoopEnds, CutReply, RecogniserFails, Drop, Disconnect
  <2>2. reply[t] \in {"streaming", "sending"}
    BY <1>0, <2>1
  <2>3. StreamEnds(t) => reply'[t] = "speech"
    BY ReplyGoes DEF StreamEnds
  <2>4. QED
    BY <2>2, <2>3
<1>3. ASSUME NEW u \in Turns, Tasks(u)
      PROVE  reply[t] \in {"streaming", "sending"} \/ AsksAgent(t)
  <2>1. CASE u # t
    BY <1>3, <2>1, TaskTask
  <2>2. CASE u = t
    <3>1. CASE RunReply(t) \/ Resume(t)
      BY <1>0, <3>1 DEF RunReply, Resume, Reply
    <3>2. CASE AgentDelta(t)
      BY <3>2 DEF AgentDelta, Sends, Reply
    <3>3. CASE StreamEnds(t) \/ AgentFails(t)
      BY <1>0, <3>3 DEF StreamEnds, AgentFails, Fails, Sends, Reply
    <3>4. CASE SpeechOver(t)
      BY <1>0, <3>4 DEF SpeechOver, Fails, Sends, Reply
    <3>5. CASE Opens(t) \/ OpenFails(t) \/ Chunk(t) \/ FinalAudio(t) \/ DropEnds(t)
      BY <3>5 DEF Opens, OpenFails, Chunk, FinalAudio, DropEnds, AudioEnds, Speech
    <3>6. QED
      BY <1>3, <2>2, <3>1, <3>2, <3>3, <3>4, <3>5 DEF Tasks
  <2>3. QED
    BY <2>1, <2>2
<1>4. ~StreamEnds(t)
  <2>1. StreamEnds(t) => reply'[t] = "speech"
    BY ReplyGoes DEF StreamEnds
  <2>2. QED
    BY <2>1
<1>5. CASE ServerRests
  BY <1>4, <1>5 DEF ServerRests
<1>6. QED
  BY <1>1, <1>2, <1>3, <1>4, <1>5, ClientRests DEF Next, ServerNext, Handle

\* Nobody else adds to a history between its read and its write.
LEMMA RememberingKept ==
  ASSUME Types, Turning, Remembering, Next
  PROVE  Remembering'
<1> SUFFICES ASSUME NEW t \in Turns, reply'[t] \in {"streaming", "sending"}
             PROVE  prior'[t] = history'[conversation'[t]]
  BY DEF Remembering
<1>1. UNCHANGED conversation
  BY ConversationSteps DEF Resting
<1>2. /\ prior \in [Turns -> Seq(Turns)] /\ history \in [Sessions -> Seq(Turns)]
      /\ conversation \in [Turns -> Sessions]
  BY DEF Types, FileTypes, TurnTypes
<1>3. CASE AsksAgent(t)
  BY <1>1, <1>2, <1>3 DEF AsksAgent
<1>4. CASE ~AsksAgent(t)
  <2>1. reply[t] \in {"streaming", "sending"} /\ ~StreamEnds(t)
    BY <1>4, StreamingSteps
  <2>2. prior[t] = history[conversation[t]] /\ replyTask = t
    BY <2>1 DEF Remembering, Turning, Resting
  <2>3. CASE UNCHANGED memory
    BY <1>1, <2>2, <2>3 DEF memory
  <2>4. ASSUME NEW u \in Turns, AsksAgent(u)
        PROVE  prior'[t] = history'[conversation'[t]]
    BY <1>1, <1>2, <1>4, <2>2, <2>4 DEF AsksAgent
  <2>5. ASSUME NEW u \in Turns, StreamEnds(u)
        PROVE  FALSE
    BY <2>1, <2>2, <2>5 DEF StreamEnds, Reply, Turning, Resting
  <2>6. QED
    BY <2>3, <2>4, <2>5, MemorySteps
<1>5. QED
  BY <1>3, <1>4

\* The answer is added behind what the agent knew, which is still what it knows.
LEMMA HistoryGrows ==
  ASSUME Types, Turning, Remembering, Next, NEW s \in Sessions
  PROVE  IsPrefix(history[s], history'[s])
<1>1. history \in [Sessions -> Seq(Turns)] /\ conversation \in [Turns -> Sessions]
  BY DEF Types, FileTypes, TurnTypes
<1>2. Len(history[s]) \in Nat
  BY <1>1, LenProperties
<1>3. CASE UNCHANGED history
  BY <1>2, <1>3 DEF IsPrefix
<1>4. ASSUME NEW t \in Turns, StreamEnds(t)
      PROVE  IsPrefix(history[s], history'[s])
  <2>1. prior[t] = history[conversation[t]]
    BY <1>4 DEF StreamEnds, Reply, Remembering
  <2>2. history' = [history EXCEPT ![conversation[t]] = Append(history[conversation[t]], t)]
    BY <1>4, <2>1 DEF StreamEnds, AnswerStored
  <2>3. CASE s # conversation[t]
    BY <1>1, <1>2, <2>2, <2>3 DEF IsPrefix
  <2>4. CASE s = conversation[t]
    <3> DEFINE old == history[s]
               new == Append(old, t)
    <3>1. history'[s] = new /\ old \in Seq(Turns)
      BY <1>1, <2>2, <2>4
    <3> HIDE DEF old
    <3>2. /\ new \in Seq(Turns) /\ Len(new) = Len(old) + 1
          /\ \A i \in 1..Len(old) : new[i] = old[i]
      BY <3>1, AppendProperties
    <3> HIDE DEF new
    <3>3. Len(old) \in Nat
      BY <3>1, LenProperties
    <3>4. SubSeq(old, 1, Len(old)) = SubSeq(new, 1, Len(old))
      <4>1. \A i \in 1..Len(old) : old[i] \in Turns /\ new[i] \in Turns
        BY <3>1, <3>2, ElementOfSeq
      <4> DEFINE a == SubSeq(old, 1, Len(old))
                 b == SubSeq(new, 1, Len(old))
      <4>2. /\ a \in Seq(Turns) /\ Len(a) = Len(old)
            /\ \A i \in 1..Len(old) : a[i] = old[i]
        BY <3>1, <3>3, SubSeqFull
      <4>3. /\ b \in Seq(Turns)
            /\ Len(b) = (IF 1 <= Len(old) THEN Len(old) - 1 + 1 ELSE 0)
            /\ \A i \in 1..(Len(old) - 1 + 1) : b[i] = new[1 + i - 1]
        BY <3>3, <4>1, SubSeqProperties
      <4> HIDE DEF a, b
      <4>4. Len(b) = Len(a) /\ \A i \in 1..Len(a) : a[i] = b[i]
        BY <3>2, <3>3, <4>2, <4>3
      <4>5. a = b
        BY <4>2, <4>3, <4>4, SeqEqual
      <4>6. QED
        BY <4>5 DEF a, b
    <3>5. QED
      BY <3>1, <3>2, <3>3, <3>4 DEF IsPrefix, old
  <2>5. QED
    BY <2>3, <2>4
<1>5. QED
  BY <1>3, <1>4, MemorySteps DEF memory, AsksAgent

-----------------------------------------------------------------------------
(* The player and the messages on their way to it *)

\* A record of an error is final, and a reply that has begun has begun.
LEMMA RecordsStay ==
  ASSUME Types, Turning, Recording, Next, NEW t \in Turns
  PROVE  /\ record[t] = "error" => record'[t] = "error"
         /\ Begun(t) => Begun(t)'
<1>0. /\ reply \in [Turns -> Replies] /\ Recorded(t)
      /\ record \in [Turns -> {"none", "no_input", "reply", "interrupted", "error"}]
  BY DEF Types, TaskTypes, FileTypes, Replies, Recording
<1>1. CASE HandleInterrupt \/ HandleStart \/ HandleReset
  <2>1. \E ms : CancelReply(ms)
    BY <1>1 DEF HandleInterrupt, HandleStart, HandleReset
  <2>2. \/ UNCHANGED <<reply, record>>
        \/ reply' = [reply EXCEPT ![replyTask] = "done"] /\ record' = CutRecord(replyTask)
    BY <2>1 DEF CancelReply, CutReply
  <2>3. QED
    BY <1>0, <2>2 DEF Recorded, CutRecord, InTry, Begun
<1>2. CASE HandleHello \/ HandleAudio \/ RecogniserFails \/ Drop \/ Disconnect
  BY <1>2 DEF HandleHello, HandleAudio, RecogniserFails, Drop, Disconnect, files, Begun
<1>3. CASE HandleEnd
  <2>1. \/ UNCHANGED <<reply, record>>
        \/ /\ activeTurn # None /\ UNCHANGED reply
           /\ record' = [record EXCEPT ![activeTurn] = "no_input"]
        \/ /\ activeTurn # None /\ UNCHANGED record
           /\ reply' = [reply EXCEPT ![activeTurn] = "created"]
    BY <1>3 DEF HandleEnd
  <2>2. activeTurn # None => reply[activeTurn] = "none"
    BY DEF Turning
  <2>3. QED
    BY <1>0, <2>1, <2>2 DEF Recorded, Begun
<1>4. CASE LoopEnds
  <2>1. \/ UNCHANGED <<reply, record>>
        \/ reply' = [reply EXCEPT ![replyTask] = "done"] /\ record' = CutRecord(replyTask)
    BY <1>4 DEF LoopEnds, CutReply, files
  <2>2. QED
    BY <1>0, <2>1 DEF Recorded, CutRecord, InTry, Begun
<1>5. ASSUME NEW u \in Turns, Tasks(u)
      PROVE  /\ record[t] = "error" => record'[t] = "error"
             /\ Begun(t) => Begun(t)'
  <2>1. CASE u # t
    BY <1>5, <2>1, TaskTask DEF Begun
  <2>2. CASE u = t
    <3>1. CASE RunReply(t) \/ AgentDelta(t) \/ StreamEnds(t) \/ AgentFails(t)
      BY <1>0, <3>1
      DEF RunReply, AgentDelta, StreamEnds, AgentFails, Fails, Sends, Reply, files, Recorded, Begun
    <3>2. CASE SpeechOver(t)
      BY <1>0, <3>2 DEF SpeechOver, Fails, Sends, Reply, Recorded, Begun
    <3>3. CASE Resume(t)
      BY <1>0, <3>3 DEF Resume, Reply, Recorded, Begun
    <3>4. CASE Opens(t) \/ OpenFails(t) \/ Chunk(t) \/ FinalAudio(t) \/ DropEnds(t)
      BY <3>4 DEF Opens, OpenFails, Chunk, FinalAudio, DropEnds, AudioEnds, Speech, files, Begun
    <3>5. QED
      BY <1>5, <2>2, <3>1, <3>2, <3>3, <3>4 DEF Tasks
  <2>3. QED
    BY <2>1, <2>2
<1>6. CASE ServerRests
  BY <1>6 DEF ServerRests, files, Begun
<1>7. QED
  BY <1>1, <1>2, <1>3, <1>4, <1>5, <1>6, ClientRests DEF Next, ServerNext, Handle

\* What waits keeps its place when more is sent.
LEMMA PlacesStay ==
  ASSUME Types, NEW ms \in Seq(OutMessages), Send(ms), waiting' = waiting
  PROVE  /\ Len(outbox) \in Nat /\ Len(ms) \in Nat /\ Len(outbox)' = Len(outbox) + Len(ms)
         /\ Pos = 0..Len(outbox) /\ Pos' = 0..Len(outbox)'
         /\ \A i \in Pos : i \in Pos' /\ At(i)' = At(i)
         /\ \A i \in 1..Len(ms), j \in Nat : j = Len(outbox) + i => j \in Pos' /\ At(j)' = ms[i]
         /\ \A i \in Pos' : i \in Pos \/ (i - Len(outbox) \in 1..Len(ms) /\ At(i)' = ms[i - Len(outbox)])
<1>1. /\ Len(outbox) \in Nat /\ Len(ms) \in Nat /\ Len(outbox') = Len(outbox) + Len(ms)
      /\ \A i \in 1..Len(outbox) : outbox'[i] = outbox[i]
      /\ \A i \in 1..Len(ms) : outbox'[Len(outbox) + i] = ms[i]
      /\ \A i \in 1..Len(outbox') :
           i \in 1..Len(outbox) \/ (i - Len(outbox) \in 1..Len(ms) /\ outbox'[i] = ms[i - Len(outbox)])
  BY Sent DEF Types, WireTypes
<1>2. Pos = 0..Len(outbox) /\ Pos' = 0..Len(outbox')
  BY DEF Pos
<1>3. ASSUME NEW i \in Pos
      PROVE  i \in Pos' /\ At(i)' = At(i)
  BY <1>1, <1>2 DEF At
<1>4. ASSUME NEW i \in 1..Len(ms), NEW j \in Nat, j = Len(outbox) + i
      PROVE  j \in Pos' /\ At(j)' = ms[i]
  BY <1>1, <1>2, <1>4 DEF At
<1>5. ASSUME NEW i \in Pos', i \notin Pos
      PROVE  i - Len(outbox) \in 1..Len(ms) /\ At(i)' = ms[i - Len(outbox)]
  BY <1>1, <1>2, <1>5 DEF At
<1>6. QED
  BY <1>1, <1>2, <1>3, <1>4, <1>5

\* Sending starts of the one reply that goes on, and its chunks.
LEMMA SendingKeepsPlaying ==
  ASSUME Types, Playing, NEW ms \in Seq(OutMessages), Send(ms), UNCHANGED <<waiting, player>>,
         \A t \in Turns : /\ record[t] = "error" => record'[t] = "error"
                          /\ Begun(t) => Begun(t)',
         \A i \in 1..Len(ms) :
           /\ ms[i].kind = "audio.start" => Begun(ms[i].turn)'
           /\ ms[i].kind = "audio.chunk" =>
                /\ Len(ms) = 1 /\ Open /\ ms[i].turn \in Turns
                /\ record[ms[i].turn] = "error" \/ reply[ms[i].turn] \in Answering,
         \A t \in Turns : Open' /\ reply'[t] \in Answering =>
           /\ Open
           /\ \A i \in 1..Len(ms) : ms[i].kind = "audio.start" => ms[i].turn = t
           /\ reply[t] \in Answering \/ \E i \in 1..Len(ms) : ms[i].kind = "audio.start"
  PROVE  Playing'
<1> DEFINE end == Len(outbox) + 1
<1>0. /\ Len(outbox) \in Nat /\ Len(ms) \in Nat /\ Len(outbox)' = Len(outbox) + Len(ms)
      /\ Pos = 0..Len(outbox) /\ Pos' = 0..Len(outbox)'
      /\ \A i \in Pos : i \in Pos' /\ At(i)' = At(i)
      /\ \A i \in 1..Len(ms), j \in Nat : j = Len(outbox) + i => j \in Pos' /\ At(j)' = ms[i]
      /\ \A i \in Pos' : i \in Pos \/ (i - Len(outbox) \in 1..Len(ms) /\ At(i)' = ms[i - Len(outbox)])
  BY PlacesStay
<1>1. ASSUME NEW j \in 0..end, NEW t, Belongs(j, t)
      PROVE  Belongs(j, t)'
  <2>1. \A i \in 0..(j - 1) : i \in Pos /\ At(i)' = At(i)
    BY <1>0
  <2>2. ASSUME NEW i \in 0..(j - 1), LastStart(i, j)'
        PROVE  At(i)'.turn = t
    <3>1. LastStart(i, j)
      BY <2>1, <2>2 DEF LastStart
    <3>2. QED
      BY <1>1, <2>1, <3>1 DEF Belongs
  <2>3. NoStart(j)' /\ player'.state = "open" => player'.of = t
    BY <1>1, <2>1 DEF NoStart, Belongs
  <2>4. QED
    BY <2>2, <2>3 DEF Belongs
<1>2. PlayerHearsOneReply'
  BY DEF Playing, PlayerHearsOneReply, Types, ClientTypes
<1>3. (player.state = "open" => Begun(player.of))'
  BY DEF Playing, Begun
<1>4. ASSUME NEW i \in Pos', At(i)'.kind = "audio.start"
      PROVE  Begun(At(i).turn)'
  <2>1. CASE i \in Pos
    BY <1>0, <1>4, <2>1 DEF Playing, Begun
  <2>2. CASE i \notin Pos
    BY <1>0, <1>4, <2>2 DEF Begun
  <2>3. QED
    BY <2>1, <2>2
<1>5. ASSUME NEW j \in Pos', At(j)'.kind = "audio.chunk"
      PROVE  /\ At(j)'.turn \in Turns
             /\ record'[At(j)'.turn] = "error" \/ Belongs(j, At(j).turn)'
  <2>1. CASE j \in Pos
    <3>1. At(j)' = At(j) /\ j \in 0..end
      BY <1>0, <2>1
    <3>2. /\ At(j).turn \in Turns
          /\ record[At(j).turn] = "error" \/ Belongs(j, At(j).turn)
      BY <1>5, <2>1, <3>1 DEF Playing
    <3>3. Belongs(j, At(j).turn) => Belongs(j, At(j).turn)'
      <4>1. ASSUME NEW t, t = At(j).turn, Belongs(j, t)
            PROVE  Belongs(j, t)'
        BY <1>1, <3>1, <4>1
      <4>2. QED
        BY <3>1, <4>1 DEF Belongs
    <3>4. QED
      BY <3>1, <3>2, <3>3
  <2>2. CASE j \notin Pos
    <3>1. j - Len(outbox) \in 1..Len(ms) /\ At(j)' = ms[j - Len(outbox)]
      BY <1>0, <2>2
    <3> DEFINE m == ms[j - Len(outbox)]
    <3>2. /\ Len(ms) = 1 /\ Open /\ m.turn \in Turns
          /\ record[m.turn] = "error" \/ reply[m.turn] \in Answering
      BY <1>5, <3>1
    <3>3. j = end
      BY <1>0, <3>1, <3>2
    <3>4. reply[m.turn] \in Answering => Belongs(end, m.turn)
      BY <3>2 DEF Playing
    <3>5. ASSUME NEW t, t = m.turn, Belongs(end, t)
          PROVE  Belongs(j, At(j).turn)'
      <4>1. j \in 0..end /\ Belongs(j, t)
        BY <1>0, <3>3, <3>5
      <4>2. Belongs(j, t)'
        BY <1>1, <4>1
      <4>3. At(j)'.turn = t
        BY <3>1, <3>5
      <4>4. QED
        BY <4>2, <4>3 DEF Belongs
    <3>6. QED
      BY <3>1, <3>2, <3>4, <3>5
  <2>3. QED
    BY <2>1, <2>2
<1>6. ASSUME Open', NEW t \in Turns, reply'[t] \in Answering, NEW last, last = Len(outbox)' + 1
      PROVE  Belongs(last, t)'
  <2>1. /\ Open
        /\ \A i \in 1..Len(ms) : ms[i].kind = "audio.start" => ms[i].turn = t
        /\ reply[t] \in Answering \/ \E i \in 1..Len(ms) : ms[i].kind = "audio.start"
    BY <1>6
  <2>2. reply[t] \in Answering => Belongs(end, t)
    BY <2>1 DEF Playing
  <2>3. \A i \in 0..(last - 1) : i \in Pos' /\ (i \in Pos \/ i > Len(outbox))
    BY <1>0, <1>6
  <2>4. ASSUME NEW i \in 0..(last - 1), LastStart(i, last)'
        PROVE  At(i)'.turn = t
    <3>1. At(i)'.kind = "audio.start" /\ \A k \in (i + 1)..(last - 1) : At(k)'.kind # "audio.start"
      BY <2>4 DEF LastStart
    <3>2. CASE i \notin Pos
      BY <1>0, <2>1, <2>3, <3>1, <3>2
    <3>3. CASE i \in Pos
      <4>1. ASSUME NEW k \in 1..Len(ms)
            PROVE  ms[k].kind # "audio.start"
        <5>1. PICK j \in Nat : j = Len(outbox) + k
          BY <1>0
        <5>2. j \in (i + 1)..(last - 1) /\ At(j)' = ms[k]
          BY <1>0, <1>6, <3>3, <5>1
        <5>3. QED
          BY <3>1, <5>2
      <4>2. Belongs(end, t)
        BY <2>1, <2>2, <4>1
      <4>3. i \in 0..(end - 1) /\ \A k \in (i + 1)..(end - 1) : k \in Pos /\ k \in (i + 1)..(last - 1)
        BY <1>0, <1>6, <3>3
      <4>4. LastStart(i, end)
        BY <1>0, <3>1, <3>3, <4>3 DEF LastStart
      <4>5. QED
        BY <1>0, <3>3, <4>2, <4>3, <4>4 DEF Belongs
    <3>4. QED
      BY <3>2, <3>3
  <2>5. NoStart(last)' /\ player'.state = "open" => player'.of = t
    <3>1. HAVE NoStart(last)' /\ player'.state = "open"
    <3>2. \A i \in 0..(last - 1) : At(i)'.kind # "audio.start"
      BY <3>1 DEF NoStart
    <3>3. ASSUME NEW k \in 1..Len(ms)
          PROVE  ms[k].kind # "audio.start"
      <4>1. PICK j \in Nat : j = Len(outbox) + k
        BY <1>0
      <4>2. j \in 0..(last - 1) /\ At(j)' = ms[k]
        BY <1>0, <1>6, <4>1
      <4>3. QED
        BY <3>2, <4>2
    <3>5. Belongs(end, t)
      BY <2>1, <2>2, <3>3
    <3>6. NoStart(end)
      <4>1. \A i \in 0..(end - 1) : i \in Pos /\ i \in 0..(last - 1)
        BY <1>0, <1>6
      <4>2. QED
        BY <1>0, <3>2, <4>1 DEF NoStart
    <3>7. QED
      BY <3>1, <3>5, <3>6 DEF Belongs
  <2>6. QED
    BY <2>4, <2>5 DEF Belongs
<1>7. (Open => \A t \in Turns : reply[t] \in Answering => Belongs(Len(outbox) + 1, t))'
  BY <1>6 DEF Open, Belongs
<1>8. QED
  BY <1>2, <1>3, <1>4, <1>5, <1>7 DEF Playing

\* A step that sends nothing keeps whose audio is on its way.
LEMMA NothingSentKeepsPlaying ==
  ASSUME Types, Playing, outbox' = outbox, UNCHANGED <<waiting, player>>,
         \A t \in Turns : /\ record[t] = "error" => record'[t] = "error"
                          /\ Begun(t) => Begun(t)',
         \A t \in Turns : Open' /\ reply'[t] \in Answering => Open /\ reply[t] \in Answering
  PROVE  Playing'
<1>1. Send(<<>>) /\ <<>> \in Seq(OutMessages) /\ 1..Len(<<>>) = {}
  BY EmptySeq DEF Send, Types, WireTypes
<1> DEFINE ms == <<>>
<1>2. ms \in Seq(OutMessages) /\ Send(ms) /\ \A i \in 1..Len(ms) : FALSE
  BY <1>1
<1> HIDE DEF ms
<1>3. QED
  BY <1>2, SendingKeepsPlaying

\* A task that comes to answer says so to the client.
LEMMA TaskAnswers ==
  ASSUME Types, NEW t \in Turns, Tasks(t), reply'[t] \in Answering
  PROVE  \/ reply[t] \in Answering
         \/ /\ Open /\ reply[t] \in {"created", "starting"} /\ reply'[t] = "streaming"
            /\ \/ Send(<<Message("assistant.start", t), Message("audio.start", t)>>)
               \/ Send(<<Message("audio.start", t)>>)
<1>0. reply \in [Turns -> Replies]
  BY DEF Types, TaskTypes, Replies
<1>1. CASE RunReply(t)
  BY <1>0, <1>1 DEF RunReply, Reply, Answering
<1>2. CASE AgentDelta(t) \/ StreamEnds(t)
  BY <1>0, <1>2 DEF AgentDelta, StreamEnds, Sends, Reply, Answering
<1>3. CASE AgentFails(t) \/ SpeechOver(t)
  BY <1>0, <1>3 DEF AgentFails, SpeechOver, Fails, Sends, Reply, Answering
<1>4. CASE Resume(t)
  BY <1>0, <1>4 DEF Resume, Reply, Answering
<1>5. CASE Opens(t) \/ OpenFails(t) \/ Chunk(t) \/ FinalAudio(t) \/ DropEnds(t)
  BY <1>5 DEF Opens, OpenFails, Chunk, FinalAudio, DropEnds, AudioEnds, Speech
<1>6. QED
  BY <1>1, <1>2, <1>3, <1>4, <1>5 DEF Tasks

\* A message, or two of them, that are a reply's.
LEMMA OneSent ==
  ASSUME NEW kind \in OutKinds, NEW t \in 0..MaxTurns
  PROVE  /\ <<Message(kind, t)>> \in Seq(OutMessages) /\ Len(<<Message(kind, t)>>) = 1
         /\ \A i \in 1..1 : /\ <<Message(kind, t)>>[i].kind = kind
                            /\ <<Message(kind, t)>>[i].turn = t
<1> DEFINE m == Message(kind, t)
<1>1. m \in OutMessages /\ m.kind = kind /\ m.turn = t
  BY MessageTyped
<1> HIDE DEF m
<1>2. <<m>> \in Seq(OutMessages) /\ Len(<<m>>) = 1 /\ <<m>>[1] = m
  BY <1>1
<1>3. QED
  BY <1>1, <1>2 DEF m

\* The first step of a reply sends its two starts in order.
LEMMA BothSent ==
  ASSUME NEW t \in 0..MaxTurns
  PROVE  LET ms == <<Message("assistant.start", t), Message("audio.start", t)>>
         IN  /\ ms \in Seq(OutMessages) /\ Len(ms) = 2
             /\ ms[1].kind = "assistant.start" /\ ms[2].kind = "audio.start"
             /\ ms[1].turn = t /\ ms[2].turn = t
<1> DEFINE a == Message("assistant.start", t)
           b == Message("audio.start", t)
<1>1. /\ a \in OutMessages /\ a.kind = "assistant.start" /\ a.turn = t
      /\ b \in OutMessages /\ b.kind = "audio.start" /\ b.turn = t
  BY MessageTyped DEF OutKinds
<1> HIDE DEF a, b
<1>2. <<a, b>> \in Seq(OutMessages) /\ Len(<<a, b>>) = 2 /\ <<a, b>>[1] = a /\ <<a, b>>[2] = b
  BY <1>1
<1>3. QED
  BY <1>1, <1>2 DEF a, b

\* Audio of a reply is sent behind the start of its player.
LEMMA TasksKeepPlaying ==
  ASSUME Types, Turning, Recording, Playing, NEW t \in Turns, Tasks(t), UNCHANGED client
  PROVE  Playing'
<1>0. /\ UNCHANGED <<waiting, player>> /\ Open' = Open /\ t \in 0..MaxTurns
      /\ ServerNext /\ Next
  BY TaskWire, TaskOfTurn DEF client, reading, Open, Next, ServerNext
<1>1. \A u \in Turns : /\ record[u] = "error" => record'[u] = "error"
                       /\ Begun(u) => Begun(u)'
  BY <1>0, RecordsStay
<1>2. Turning'
  BY <1>0, TurningKept
<1>3. \A u \in Turns : reply'[u] \in Answering => replyTask' = u
  BY <1>2 DEF Turning, Resting, Answering
<1>4. \A u \in Turns : u # t => reply'[u] = reply[u]
  BY TaskTask
<1>5. CASE /\ Open /\ reply'[t] = "streaming"
           /\ \/ Send(<<Message("assistant.start", t), Message("audio.start", t)>>)
              \/ Send(<<Message("audio.start", t)>>)
  <2>1. \A u \in Turns : reply'[u] \in Answering => u = t
    BY <1>3, <1>5 DEF Answering
  <2>2. Begun(t)'
    BY <1>5 DEF Begun
  <2>3. PICK ms \in Seq(OutMessages) :
          /\ Send(ms)
          /\ \A i \in 1..Len(ms) : ms[i].kind # "audio.chunk" /\ ms[i].turn = t
          /\ \E i \in 1..Len(ms) : ms[i].kind = "audio.start"
    <3>1. CASE Send(<<Message("assistant.start", t), Message("audio.start", t)>>)
      <4> DEFINE ms == <<Message("assistant.start", t), Message("audio.start", t)>>
      <4>1. /\ Send(ms) /\ ms \in Seq(OutMessages) /\ Len(ms) = 2
            /\ ms[1].kind = "assistant.start" /\ ms[2].kind = "audio.start"
            /\ ms[1].turn = t /\ ms[2].turn = t
        BY <1>0, <3>1, BothSent
      <4> HIDE DEF ms
      <4>2. 1..Len(ms) = {1, 2}
        BY <4>1
      <4>3. QED
        BY <4>1, <4>2
    <3>2. CASE Send(<<Message("audio.start", t)>>)
      <4> DEFINE ms == <<Message("audio.start", t)>>
      <4>1. /\ Send(ms) /\ ms \in Seq(OutMessages) /\ Len(ms) = 1
            /\ \A i \in 1..1 : ms[i].kind = "audio.start" /\ ms[i].turn = t
        BY <1>0, <3>2, OneSent DEF OutKinds
      <4> HIDE DEF ms
      <4>2. QED
        BY <4>1
    <3>3. QED
      BY <1>5, <3>1, <3>2
  <2>4. \A i \in 1..Len(ms) :
           /\ ms[i].kind = "audio.start" => Begun(ms[i].turn)'
           /\ ms[i].kind = "audio.chunk" =>
                /\ Len(ms) = 1 /\ Open /\ ms[i].turn \in Turns
                /\ record[ms[i].turn] = "error" \/ reply[ms[i].turn] \in Answering
    BY <2>2, <2>3 DEF Begun
  <2>5. \A u \in Turns : Open' /\ reply'[u] \in Answering =>
           /\ Open
           /\ \A i \in 1..Len(ms) : ms[i].kind = "audio.start" => ms[i].turn = u
           /\ reply[u] \in Answering \/ \E i \in 1..Len(ms) : ms[i].kind = "audio.start"
    BY <1>5, <2>1, <2>3
  <2>6. QED
    BY <1>0, <1>1, <2>3, <2>4, <2>5, SendingKeepsPlaying
<1>6. CASE \A u \in Turns : reply'[u] \in Answering => reply[u] \in Answering
  <2>1. CASE outbox' = outbox
    BY <1>0, <1>1, <1>6, <2>1, NothingSentKeepsPlaying
  <2>2. ASSUME NEW kind \in {"assistant.start", "assistant.end", "audio.chunk", "audio.end"},
               Open, Send(<<Message(kind, t)>>), kind = "audio.chunk" => Chunk(t)
        PROVE  Playing'
    <3> DEFINE ms == <<Message(kind, t)>>
    <3>1. /\ Send(ms) /\ ms \in Seq(OutMessages) /\ Len(ms) = 1
          /\ \A i \in 1..1 : ms[i].kind = kind /\ ms[i].turn = t
      BY <1>0, <2>2, OneSent DEF OutKinds
    <3> HIDE DEF ms
    <3>2. kind = "audio.chunk" => record[t] = "error" \/ reply[t] \in Answering
      <4>1. Chunk(t) => deltas[t] > 0 /\ speech[t] = "speaking"
        BY DEF Chunk, Speech
      <4>2. SpeechRuns(t) => reply[t] \in Answering \/ record[t] = "error" \/ deltas[t] = 0
        BY DEF Recording, Recorded
      <4>3. deltas[t] \in Nat
        BY Bounds DEF Types, TaskTypes
      <4>4. QED
        BY <2>2, <4>1, <4>2, <4>3 DEF SpeechRuns
    <3>3. \A i \in 1..Len(ms) :
           /\ ms[i].kind = "audio.start" => Begun(ms[i].turn)'
           /\ ms[i].kind = "audio.chunk" =>
                /\ Len(ms) = 1 /\ Open /\ ms[i].turn \in Turns
                /\ record[ms[i].turn] = "error" \/ reply[ms[i].turn] \in Answering
      BY <2>2, <3>1, <3>2
    <3>4. \A u \in Turns : Open' /\ reply'[u] \in Answering =>
           /\ Open
           /\ \A i \in 1..Len(ms) : ms[i].kind = "audio.start" => ms[i].turn = u
           /\ reply[u] \in Answering \/ \E i \in 1..Len(ms) : ms[i].kind = "audio.start"
      BY <1>6, <2>2, <3>1
    <3>5. QED
      BY <1>0, <1>1, <3>1, <3>3, <3>4, SendingKeepsPlaying
  <2>3. CASE \/ /\ Send(<<Message("assistant.start", t), Message("audio.start", t)>>)
                /\ Open /\ reply'[t] = "streaming"
             \/ Send(<<Message("audio.start", t)>>) /\ Open /\ reply'[t] = "streaming"
    BY <1>5, <2>3
  <2>4. QED
    BY <2>1, <2>2, <2>3, TaskSends
<1>7. QED
  <2>1. reply'[t] \in Answering => \/ reply[t] \in Answering
         \/ /\ Open /\ reply'[t] = "streaming"
            /\ \/ Send(<<Message("assistant.start", t), Message("audio.start", t)>>)
               \/ Send(<<Message("audio.start", t)>>)
    BY TaskAnswers
  <2>2. QED
    BY <1>4, <1>5, <1>6, <2>1

\* The loop starts a player only for the reply it cuts.
LEMMA LoopKeepsPlaying ==
  ASSUME Types, Turning, Recording, Playing,
         Handle \/ LoopEnds \/ RecogniserFails \/ Drop \/ Disconnect, UNCHANGED client
  PROVE  Playing'
<1>0. UNCHANGED <<waiting, player>> /\ Next
  BY DEF client, reading, Next, ServerNext
<1>1. \A u \in Turns : /\ record[u] = "error" => record'[u] = "error"
                       /\ Begun(u) => Begun(u)'
  BY <1>0, RecordsStay
<1>2. CASE HandleInterrupt \/ HandleStart \/ HandleReset
  <2>1. PICK ms \in Seq(OutMessages) :
          /\ CancelReply(ms)
          /\ \A i \in 1..Len(ms) : ms[i].kind \notin {"audio.start", "audio.chunk"}
    BY <1>2, HandlersCancel
  <2>2. \A u \in Turns : reply'[u] \in Resting
    BY <2>1, RestingKeepsTypes
  <2>3. PICK all \in Seq(OutMessages) :
           /\ Send(all)
           /\ \A i \in 1..Len(all) :
                /\ all[i].kind # "audio.chunk"
                /\ all[i].kind = "audio.start" => ReplyRuns /\ all[i].turn = replyTask
    BY <2>1, CutSends
  <2>4. ASSUME NEW u, u = replyTask, ReplyRuns
        PROVE  Begun(u)'
    <3>1. u \in Turns /\ reply' = [reply EXCEPT ![u] = "done"]
      BY <2>1, <2>4, Bounds DEF CancelReply, CutReply, ReplyRuns, Types, TurnTypes, Turns, None
    <3>2. reply'[u] = "done"
      BY <3>1 DEF Types, TaskTypes
    <3>3. QED
      BY <3>1, <3>2 DEF Begun
  <2>5. \A i \in 1..Len(all) :
           /\ all[i].kind = "audio.start" => Begun(all[i].turn)'
           /\ all[i].kind # "audio.chunk"
    BY <2>3, <2>4
  <2>6. \A u \in Turns : reply'[u] \notin Answering
    BY <2>2 DEF Answering, Resting
  <2>7. QED
    BY <1>0, <1>1, <2>3, <2>5, <2>6, SendingKeepsPlaying
<1>3. CASE HandleHello \/ HandleAudio \/ HandleEnd \/ LoopEnds \/ RecogniserFails \/ Drop \/ Disconnect
  <2>1. outbox' = outbox
    BY <1>3
    DEF HandleHello, HandleAudio, HandleEnd, LoopEnds, RecogniserFails, Drop, Disconnect, wire
  <2>2. \/ reply' = reply
        \/ reply' = [reply EXCEPT ![activeTurn] = "created"]
        \/ reply' = [reply EXCEPT ![replyTask] = "done"]
    BY <1>3
    DEF HandleHello, HandleAudio, HandleEnd, LoopEnds, CutReply, RecogniserFails, Drop, Disconnect
  <2>3. Open' => Open
    BY <1>3
    DEF HandleHello, HandleAudio, HandleEnd, LoopEnds, RecogniserFails, Drop, Disconnect, wire, Open,
        Receives
  <2>4. \A u \in Turns : Open' /\ reply'[u] \in Answering => Open /\ reply[u] \in Answering
    BY <2>2, <2>3 DEF Types, TaskTypes, Answering
  <2>5. QED
    BY <1>0, <1>1, <2>1, <2>4, NothingSentKeepsPlaying
<1>4. QED
  BY <1>2, <1>3 DEF Handle

-----------------------------------------------------------------------------
(* The client reads *)

\* The reader takes message k of those that wait, which is the first.
Takes(k) ==
  /\ k \in Pos /\ (k = 0 \/ (k = 1 /\ waiting.kind = "none"))
  /\ waiting'.kind = "none" /\ Len(outbox') = Len(outbox) - k
  /\ \A i \in 1..Len(outbox') : outbox'[i] = outbox[i + k]
  /\ player' = Played(At(k))

\* It takes the lock first, and waits.
Waits ==
  /\ outbox # <<>> /\ waiting.kind = "none" /\ waiting' = outbox[1]
  /\ Len(outbox') = Len(outbox) - 1
  /\ \A i \in 1..Len(outbox') : outbox'[i] = outbox[i + 1]
  /\ player' = player

\* Nothing was read.
Idles ==
  /\ UNCHANGED <<outbox, waiting>>
  /\ player' \in {player, NoPlayer}

\* The client takes a message, lets it wait for the lock, or neither.
LEMMA ReaderSteps ==
  ASSUME Types,
         (\E level \in Levels : Hear(level)) \/ Read \/ StopReturns \/ PlayedOut \/ SendOther
  PROVE  (\E k \in {0, 1} : Takes(k)) \/ Waits \/ Idles
<1>0. outbox \in Seq(OutMessages) /\ Len(outbox) \in Nat
  BY LenProperties DEF Types, WireTypes
<1>1. CASE Read
  <2>1. /\ outbox # <<>> /\ waiting = NoMessage /\ outbox' = Tail(outbox)
        /\ IF NeedsPlayer(Head(outbox)) /\ mic = "stopping"
           THEN waiting' = Head(outbox) /\ UNCHANGED player
           ELSE player' = Played(Head(outbox)) /\ UNCHANGED waiting
    BY <1>1 DEF Read
  <2>2. /\ Len(outbox) >= 1 /\ Head(outbox) = outbox[1] /\ Len(outbox') = Len(outbox) - 1
        /\ \A i \in 1..Len(outbox') : outbox'[i] = outbox[i + 1]
    BY <1>0, <2>1, HeadTail
  <2>3. CASE NeedsPlayer(Head(outbox)) /\ mic = "stopping"
    BY <2>1, <2>2, <2>3, NoneTyped DEF Waits
  <2>4. CASE ~(NeedsPlayer(Head(outbox)) /\ mic = "stopping")
    <3>1. 1 \in Pos /\ At(1) = outbox[1]
      BY <1>0, <2>2 DEF Pos, At
    <3>2. Takes(1)
      BY <2>1, <2>2, <2>4, <3>1, NoneTyped DEF Takes
    <3>3. QED
      BY <3>2
  <2>5. QED
    BY <2>3, <2>4
<1>2. CASE StopReturns
  <2>1. outbox' = outbox /\ player' = Played(waiting) /\ waiting' = NoMessage
    BY <1>2 DEF StopReturns
  <2>2. 0 \in Pos /\ At(0) = waiting
    BY <1>0 DEF Pos, At
  <2>3. Takes(0)
    BY <1>0, <2>1, <2>2, NoneTyped DEF Takes
  <2>4. QED
    BY <2>3
<1>3. CASE PlayedOut \/ SendOther
  BY <1>3 DEF PlayedOut, SendOther, server, wire, reading, Idles
<1>4. ASSUME NEW level \in Levels, Hear(level)
      PROVE  Idles
  BY <1>4 DEF Hear, BeginTurn, StartTurn, Idles
<1>5. QED
  BY <1>1, <1>2, <1>3, <1>4

\* After the reader took message k, what waits at i waited at i + k before.
LEMMA TakenPlaces ==
  ASSUME Types, NEW k \in {0, 1}, Takes(k)
  PROVE  /\ Len(outbox) \in Nat /\ Len(outbox)' \in Nat /\ Len(outbox)' = Len(outbox) - k
         /\ Pos = 0..Len(outbox) /\ Pos' = 0..Len(outbox)'
         /\ At(0)'.kind = "none" /\ (k = 1 => At(0).kind = "none")
         /\ \A i \in Pos' : i # 0 => i + k \in Pos /\ At(i)' = At(i + k)
<1>1. Len(outbox) \in Nat /\ Pos = 0..Len(outbox) /\ Pos' = 0..Len(outbox')
      /\ Len(outbox') = Len(outbox) - k /\ k \in Pos
  BY LenProperties DEF Types, WireTypes, Pos, Takes
<1>2. At(0)'.kind = "none" /\ (k = 1 => At(0).kind = "none")
  BY DEF Takes, At
<1>3. \A i \in Pos' : i # 0 => i + k \in Pos /\ At(i)' = At(i + k)
  BY <1>1 DEF Takes, At
<1>4. QED
  BY <1>1, <1>2, <1>3

\* A message that waits is still the first.
LEMMA WaitingPlaces ==
  ASSUME Types, Waits
  PROVE  /\ Len(outbox) \in Nat /\ Len(outbox)' \in Nat /\ Len(outbox)' = Len(outbox) - 1
         /\ Pos = 0..Len(outbox) /\ Pos' = 0..Len(outbox)' /\ At(0).kind = "none"
         /\ \A i \in Pos' : i + 1 \in Pos /\ At(i)' = At(i + 1)
<1>1. outbox \in Seq(OutMessages) /\ outbox # <<>>
  BY DEF Types, WireTypes, Waits
<1>2. /\ Len(outbox) \in Nat /\ Len(outbox) >= 1 /\ Pos = 0..Len(outbox) /\ Pos' = 0..Len(outbox')
      /\ Len(outbox') = Len(outbox) - 1
  BY <1>1, HeadTail DEF Pos, Waits
<1>3. At(0).kind = "none" /\ \A i \in Pos' : i + 1 \in Pos /\ At(i)' = At(i + 1)
  BY <1>2 DEF Waits, At
<1>4. QED
  BY <1>2, <1>3

\* What a message makes of the player.
LEMMA PlayedOpen ==
  ASSUME player \in Players, NEW m \in OutMessages, Played(m).state = "open"
  PROVE  \/ m.kind = "audio.start" /\ Played(m).of = m.turn /\ Played(m).sounds = {}
         \/ /\ player.state = "open" /\ Played(m).of = player.of
            /\ m.kind \notin {"audio.start", "audio.end", "cancelled", "interrupted"}
            /\ Played(m).sounds = IF m.kind = "audio.chunk" THEN player.sounds \union {m.turn}
                                  ELSE player.sounds
BY DEF Played, Players, NoPlayer

\* Only a chunk adds to what a player sounds.
LEMMA PlayedSounds ==
  ASSUME player \in Players, NEW m \in OutMessages, NEW t \in Played(m).sounds
  PROVE  \/ t \in player.sounds /\ Played(m).of = player.of
         \/ m.kind = "audio.chunk" /\ player.state = "open" /\ t = m.turn /\ Played(m).of = player.of
BY DEF Played, Players, NoPlayer

\* A message that is taken meets the player it belongs to.
LEMMA TakingKeepsPlaying ==
  ASSUME Types, Playing, ServerRests, NEW k \in {0, 1}, Takes(k)
  PROVE  Playing'
<1>0. /\ Len(outbox) \in Nat /\ Len(outbox)' \in Nat /\ Len(outbox)' = Len(outbox) - k
      /\ Pos = 0..Len(outbox) /\ Pos' = 0..Len(outbox)'
      /\ At(0)'.kind = "none" /\ (k = 1 => At(0).kind = "none")
      /\ \A i \in Pos' : i # 0 => i + k \in Pos /\ At(i)' = At(i + k)
  BY TakenPlaces
<1>1. UNCHANGED <<reply, record, socket>>
  BY DEF ServerRests, files
<1> DEFINE m == At(k)
<1>2. k \in Pos /\ m \in OutMessages /\ player \in Players /\ player' = Played(m)
  <2>1. k \in Pos /\ player' = Played(m)
    BY DEF Takes
  <2>2. waiting \in OutMessages /\ \A i \in 1..Len(outbox) : outbox[i] \in OutMessages
    BY ElementOfSeq DEF Types, WireTypes, ClientTypes
  <2>3. m \in OutMessages
    BY <1>0, <2>1, <2>2 DEF At
  <2>4. QED
    BY <2>1, <2>3 DEF Types, ClientTypes, Players
<1>3. \A i \in 0..(k - 1) : At(i).kind = "none"
  BY <1>0
<1>4. ASSUME NEW j \in 1..(Len(outbox)' + 1), NEW t, NEW old, old = j + k, Belongs(old, t)
      PROVE  Belongs(j, t)'
  <2>1. ASSUME NEW i \in 0..(j - 1), LastStart(i, j)'
        PROVE  At(i)'.turn = t
    <3>1. At(i)'.kind = "audio.start" /\ \A n \in (i + 1)..(j - 1) : At(n)'.kind # "audio.start"
      BY <2>1 DEF LastStart
    <3>2. i # 0 /\ i \in Pos' /\ i \in Nat
      BY <1>0, <3>1
    <3>3. At(i)' = At(i + k) /\ i + k \in 0..(old - 1)
      BY <1>0, <1>4, <3>2
    <3>4. ASSUME NEW n \in (i + k + 1)..(old - 1)
          PROVE  At(n).kind # "audio.start"
      <4>1. n - k \in (i + 1)..(j - 1) /\ n - k \in Pos' /\ n - k # 0 /\ (n - k) + k = n
        BY <1>0, <1>4, <3>2, <3>4
      <4>2. PICK o : o = n - k
        OBVIOUS
      <4>3. At(o)' = At(n) /\ At(o)'.kind # "audio.start"
        BY <1>0, <3>1, <4>1, <4>2
      <4>4. QED
        BY <4>3
    <3>5. LastStart(i + k, old)
      BY <3>1, <3>3, <3>4 DEF LastStart
    <3>6. QED
      BY <1>4, <3>3, <3>5 DEF Belongs
  <2>2. NoStart(j)' /\ player'.state = "open" => player'.of = t
    <3>1. HAVE NoStart(j)' /\ player'.state = "open"
    <3>2. \A i \in 0..(j - 1) : At(i)'.kind # "audio.start"
      BY <3>1 DEF NoStart
    <3>3. ASSUME NEW n \in (k + 1)..(old - 1)
          PROVE  At(n).kind # "audio.start"
      <4>1. n - k \in 0..(j - 1) /\ n - k \in Pos' /\ n - k # 0 /\ (n - k) + k = n
        BY <1>0, <1>4, <3>3
      <4>2. PICK o : o = n - k
        OBVIOUS
      <4>3. At(o)' = At(n) /\ At(o)'.kind # "audio.start"
        BY <1>0, <3>2, <4>1, <4>2
      <4>4. QED
        BY <4>3
    <3>4. CASE m.kind = "audio.start" /\ player'.of = m.turn
      <4>1. k \in 0..(old - 1)
        BY <1>0, <1>4
      <4>2. LastStart(k, old)
        BY <3>3, <3>4, <4>1 DEF LastStart
      <4>3. QED
        BY <1>4, <3>4, <4>1, <4>2 DEF Belongs
    <3>5. CASE m.kind # "audio.start" /\ player.state = "open" /\ player'.of = player.of
      <4>1. \A i \in 0..(old - 1) : i \in 0..(k - 1) \/ i = k \/ i \in (k + 1)..(old - 1)
        BY <1>0, <1>4
      <4>2. NoStart(old)
        BY <1>3, <3>3, <3>5, <4>1 DEF NoStart
      <4>3. QED
        BY <1>4, <3>5, <4>2 DEF Belongs
    <3>6. QED
      BY <1>2, <3>1, <3>4, <3>5, PlayedOpen
  <2>3. QED
    BY <2>1, <2>2 DEF Belongs
<1>5. PlayerHearsOneReply'
  <2> SUFFICES ASSUME NEW t \in player'.sounds
               PROVE  t = player'.of \/ record'[t] = "error"
    BY DEF PlayerHearsOneReply
  <2>1. CASE t \in player.sounds /\ player'.of = player.of
    BY <1>1, <2>1 DEF Playing, PlayerHearsOneReply
  <2>2. CASE m.kind = "audio.chunk" /\ player.state = "open" /\ t = m.turn /\ player'.of = player.of
    <3>1. record[t] = "error" \/ Belongs(k, t)
      BY <1>2, <2>2 DEF Playing
    <3>2. NoStart(k)
      BY <1>3 DEF NoStart
    <3>3. QED
      BY <1>1, <2>2, <3>1, <3>2 DEF Belongs
  <2>3. QED
    BY <1>2, <2>1, <2>2, PlayedSounds
<1>6. player'.state = "open" => /\ player'.of \in Turns
                                /\ reply'[player'.of] \notin {"none", "created"}
  <2>1. HAVE player'.state = "open"
  <2>2. CASE m.kind = "audio.start" /\ player'.of = m.turn
    BY <1>1, <1>2, <2>2 DEF Playing, Begun
  <2>3. CASE player.state = "open" /\ player'.of = player.of
    BY <1>1, <2>3 DEF Playing, Begun
  <2>4. QED
    BY <1>2, <2>1, <2>2, <2>3, PlayedOpen
<1>7. ASSUME NEW i \in Pos', At(i)'.kind = "audio.start"
      PROVE  Begun(At(i).turn)'
  <2>1. i # 0 /\ i + k \in Pos /\ At(i)' = At(i + k)
    BY <1>0, <1>7
  <2>2. QED
    BY <1>1, <1>7, <2>1 DEF Playing, Begun
<1>8. ASSUME NEW j \in Pos', At(j)'.kind = "audio.chunk"
      PROVE  /\ At(j)'.turn \in Turns
             /\ record'[At(j)'.turn] = "error" \/ Belongs(j, At(j).turn)'
  <2>1. j # 0 /\ j + k \in Pos /\ At(j)' = At(j + k) /\ j \in 1..(Len(outbox)' + 1)
    BY <1>0, <1>8
  <2>2. PICK t : t = At(j)'.turn
    OBVIOUS
  <2>3. t \in Turns /\ (record[t] = "error" \/ Belongs(j + k, t))
    BY <1>8, <2>1, <2>2 DEF Playing
  <2>4. Belongs(j + k, t) => Belongs(j, t)'
    BY <1>4, <2>1
  <2>5. QED
    BY <1>1, <2>2, <2>3, <2>4 DEF Belongs
<1>9. ASSUME Open', NEW t \in Turns, reply'[t] \in Answering, NEW last, last = Len(outbox)' + 1
      PROVE  Belongs(last, t)'
  <2>1. Open /\ reply[t] \in Answering
    BY <1>1, <1>9 DEF Open
  <2>2. Belongs(Len(outbox) + 1, t) /\ Len(outbox) + 1 = last + k /\ last \in 1..(Len(outbox)' + 1)
    BY <1>0, <1>9, <2>1 DEF Playing
  <2>3. QED
    BY <1>4, <2>2
<1>10. (Open => \A t \in Turns : reply[t] \in Answering => Belongs(Len(outbox) + 1, t))'
  BY <1>9 DEF Open, Belongs
<1>11. (player.state = "open" => Begun(player.of))'
  BY <1>6 DEF Begun
<1>12. QED
  BY <1>5, <1>7, <1>8, <1>10, <1>11 DEF Playing

\* A message that waits for the lock stays before the others.
LEMMA WaitingKeepsPlaying ==
  ASSUME Types, Playing, ServerRests, Waits
  PROVE  Playing'
<1>0. /\ Len(outbox) \in Nat /\ Len(outbox)' \in Nat /\ Len(outbox)' = Len(outbox) - 1
      /\ Pos = 0..Len(outbox) /\ Pos' = 0..Len(outbox)' /\ At(0).kind = "none"
      /\ \A i \in Pos' : i + 1 \in Pos /\ At(i)' = At(i + 1)
  BY WaitingPlaces
<1>1. UNCHANGED <<reply, record, socket>> /\ player' = player
  BY DEF ServerRests, files, Waits
<1>2. ASSUME NEW j \in 0..(Len(outbox)' + 1), NEW t, NEW old, old = j + 1, Belongs(old, t)
      PROVE  Belongs(j, t)'
  <2>1. \A i \in 0..(j - 1) : i \in Pos' /\ i + 1 \in 0..(old - 1)
    BY <1>0, <1>2
  <2>2. ASSUME NEW n \in 1..(old - 1)
        PROVE  \E i \in 0..(j - 1) : i = n - 1 /\ At(i)' = At(n)
    <3>1. n - 1 \in 0..(j - 1) /\ n - 1 \in Pos' /\ (n - 1) + 1 = n
      BY <1>0, <1>2, <2>2
    <3>2. PICK i : i = n - 1
      OBVIOUS
    <3>3. QED
      BY <1>0, <3>1, <3>2
  <2>3. ASSUME NEW i \in 0..(j - 1), LastStart(i, j)'
        PROVE  At(i)'.turn = t
    <3>1. At(i)'.kind = "audio.start" /\ \A n \in (i + 1)..(j - 1) : At(n)'.kind # "audio.start"
      BY <2>3 DEF LastStart
    <3>2. ASSUME NEW n \in ((i + 1) + 1)..(old - 1)
          PROVE  At(n).kind # "audio.start"
      <4>1. n \in 1..(old - 1)
        BY <1>0, <1>2, <3>2
      <4>2. PICK o \in 0..(j - 1) : o = n - 1 /\ At(o)' = At(n)
        BY <2>2, <4>1
      <4>3. o \in (i + 1)..(j - 1)
        BY <1>2, <3>2, <4>2
      <4>4. QED
        BY <3>1, <4>2, <4>3
    <3>3. LastStart(i + 1, old)
      BY <1>0, <2>1, <3>1, <3>2 DEF LastStart
    <3>4. QED
      BY <1>0, <1>2, <2>1, <3>3 DEF Belongs
  <2>4. NoStart(j)' /\ player'.state = "open" => player'.of = t
    <3>1. HAVE NoStart(j)' /\ player'.state = "open"
    <3>2. \A i \in 0..(j - 1) : At(i)'.kind # "audio.start"
      BY <3>1 DEF NoStart
    <3>3. NoStart(old)
      <4>1. \A n \in 0..(old - 1) : n = 0 \/ n \in 1..(old - 1)
        BY <1>2
      <4>2. QED
        BY <1>0, <2>2, <3>2, <4>1 DEF NoStart
    <3>4. QED
      BY <1>1, <1>2, <3>1, <3>3 DEF Belongs
  <2>5. QED
    BY <2>3, <2>4 DEF Belongs
<1>3. PlayerHearsOneReply'
  BY <1>1 DEF Playing, PlayerHearsOneReply
<1>4. (player.state = "open" => Begun(player.of))'
  BY <1>1 DEF Playing, Begun
<1>5. ASSUME NEW i \in Pos', At(i)'.kind = "audio.start"
      PROVE  Begun(At(i).turn)'
  BY <1>0, <1>1, <1>5 DEF Playing, Begun
<1>6. ASSUME NEW j \in Pos', At(j)'.kind = "audio.chunk"
      PROVE  /\ At(j)'.turn \in Turns
             /\ record'[At(j)'.turn] = "error" \/ Belongs(j, At(j).turn)'
  <2>1. j + 1 \in Pos /\ At(j)' = At(j + 1) /\ j \in 0..(Len(outbox)' + 1)
    BY <1>0
  <2>2. PICK t : t = At(j)'.turn
    OBVIOUS
  <2>3. t \in Turns /\ (record[t] = "error" \/ Belongs(j + 1, t))
    BY <1>6, <2>1, <2>2 DEF Playing
  <2>4. Belongs(j + 1, t) => Belongs(j, t)'
    BY <1>2, <2>1
  <2>5. QED
    BY <1>1, <2>2, <2>3, <2>4 DEF Belongs
<1>7. ASSUME Open', NEW t \in Turns, reply'[t] \in Answering, NEW last, last = Len(outbox)' + 1
      PROVE  Belongs(last, t)'
  <2>1. Open /\ reply[t] \in Answering
    BY <1>1, <1>7 DEF Open
  <2>2. Belongs(Len(outbox) + 1, t) /\ Len(outbox) + 1 = last + 1 /\ last \in 0..(Len(outbox)' + 1)
    BY <1>0, <1>7, <2>1 DEF Playing
  <2>3. QED
    BY <1>2, <2>2
<1>8. (Open => \A t \in Turns : reply[t] \in Answering => Belongs(Len(outbox) + 1, t))'
  BY <1>7 DEF Open, Belongs
<1>9. QED
  BY <1>3, <1>4, <1>5, <1>6, <1>8 DEF Playing

\* A player that is killed has nothing of another reply.
LEMMA IdlingKeepsPlaying ==
  ASSUME Types, Playing, ServerRests, Idles
  PROVE  Playing'
<1>1. UNCHANGED <<reply, record, socket, outbox, waiting>> /\ player' \in {player, NoPlayer}
  BY DEF ServerRests, files, Idles
<1>2. /\ player'.state = "open" => player' = player
      /\ player'.sounds = {} \/ player' = player
  BY <1>1 DEF NoPlayer
<1>3. Pos' = Pos /\ \A i : At(i)' = At(i)
  BY <1>1 DEF Pos, At
<1>4. ASSUME NEW j, NEW t, Belongs(j, t)
      PROVE  Belongs(j, t)'
  BY <1>1, <1>2, <1>3, <1>4 DEF Belongs, LastStart, NoStart
<1>5. PlayerHearsOneReply'
  BY <1>1, <1>2 DEF Playing, PlayerHearsOneReply
<1>6. (player.state = "open" => Begun(player.of))'
  BY <1>1, <1>2 DEF Playing, Begun
<1>7. ASSUME NEW i \in Pos', At(i)'.kind = "audio.start"
      PROVE  Begun(At(i).turn)'
  BY <1>1, <1>3, <1>7 DEF Playing, Begun
<1>8. ASSUME NEW j \in Pos', At(j)'.kind = "audio.chunk"
      PROVE  /\ At(j)'.turn \in Turns
             /\ record'[At(j)'.turn] = "error" \/ Belongs(j, At(j).turn)'
  <2>1. PICK t : t = At(j)'.turn
    OBVIOUS
  <2>2. t \in Turns /\ (record[t] = "error" \/ Belongs(j, t))
    BY <1>3, <1>8, <2>1 DEF Playing
  <2>3. QED
    BY <1>1, <1>4, <2>1, <2>2 DEF Belongs
<1>9. ASSUME Open', NEW t \in Turns, reply'[t] \in Answering, NEW last, last = Len(outbox)' + 1
      PROVE  Belongs(last, t)'
  <2>1. Belongs(last, t)
    BY <1>1, <1>9 DEF Playing, Open
  <2>2. QED
    BY <1>4, <2>1
<1>10. (Open => \A t \in Turns : reply[t] \in Answering => Belongs(Len(outbox) + 1, t))'
  BY <1>9 DEF Open, Belongs
<1>11. QED
  BY <1>5, <1>6, <1>7, <1>8, <1>10 DEF Playing

\* After the connection nothing is read.
LEMMA NoConnectionKeepsPlaying ==
  ASSUME Types, Playing, ConnectionOver
  PROVE  Playing'
<1>1. /\ UNCHANGED <<reply, record, socket>> /\ ~Open /\ outbox' = <<>> /\ waiting' = NoMessage
      /\ player' \in {NoPlayer, player}
  BY DEF ConnectionOver, files
<1>2. Pos' = {0} /\ At(0)'.kind = "none" /\ ~Open'
  BY <1>1, NoneTyped DEF Pos, At, Open
<1>3. PlayerHearsOneReply'
  BY <1>1 DEF Playing, PlayerHearsOneReply, NoPlayer
<1>4. (player.state = "open" => Begun(player.of))'
  BY <1>1 DEF Playing, Begun, NoPlayer
<1>5. \A i \in Pos' : At(i)'.kind = "none"
  BY <1>2
<1>6. QED
  BY <1>2, <1>3, <1>4, <1>5 DEF Playing

\* No step brings audio to the player of another reply.
LEMMA PlayingKept ==
  ASSUME Types, Turning, Recording, Playing, Next
  PROVE  Playing'
<1>1. CASE ServerNext /\ UNCHANGED client
  BY <1>1, TasksKeepPlaying, LoopKeepsPlaying DEF ServerNext
<1>2. CASE (\E level \in Levels : Hear(level)) \/ Read \/ StopReturns \/ PlayedOut \/ SendOther
  BY <1>2, ReaderSteps, ClientRests, TakingKeepsPlaying, WaitingKeepsPlaying, IdlingKeepsPlaying
<1>3. CASE ConnectionOver
  BY <1>3, NoConnectionKeepsPlaying
<1>4. QED
  BY <1>1, <1>2, <1>3 DEF Next

-----------------------------------------------------------------------------
(* A player whose reply is over will be closed *)

\* More is sent: what is over now was over before and nothing of it begins, or a message
\* that closes players comes behind all its starts.
LEMMA SendingKeepsClosing ==
  ASSUME Types, Closing, NEW ms \in Seq(OutMessages), Send(ms), UNCHANGED <<waiting, player>>,
         Open' => Open,
         \A t \in Turns : Open' /\ Over(t)' =>
           \/ /\ Over(t)
              /\ \A i \in 1..Len(ms) : ms[i].kind = "audio.start" => ms[i].turn # t
           \/ \E k \in 1..Len(ms) :
                /\ ms[k].kind \in {"audio.end", "cancelled", "interrupted"}
                /\ \A i \in 1..Len(ms) : ms[i].kind = "audio.start" /\ ms[i].turn = t => i < k
  PROVE  Closing'
<1>0. /\ Len(outbox) \in Nat /\ Len(ms) \in Nat /\ Len(outbox)' = Len(outbox) + Len(ms)
      /\ Pos = 0..Len(outbox) /\ Pos' = 0..Len(outbox)'
      /\ \A i \in Pos : i \in Pos' /\ At(i)' = At(i)
      /\ \A i \in 1..Len(ms), j \in Nat : j = Len(outbox) + i => j \in Pos' /\ At(j)' = ms[i]
      /\ \A i \in Pos' : i \in Pos \/ (i - Len(outbox) \in 1..Len(ms) /\ At(i)' = ms[i - Len(outbox)])
  BY PlacesStay
<1> SUFFICES ASSUME Open', NEW t \in Turns, Over(t)'
             PROVE  Closed(t)'
  BY DEF Closing, Open
<1>1. \A k \in Pos : Closer(k) => k \in Pos' /\ Closer(k)'
  BY <1>0 DEF Closer
<1>2. CASE /\ Over(t)
           /\ \A i \in 1..Len(ms) : ms[i].kind = "audio.start" => ms[i].turn # t
  <2>1. Closed(t)
    BY <1>2 DEF Closing
  <2>2. player'.state = "open" /\ player'.of = t => \E k \in Pos' : Closer(k)'
    BY <1>1, <2>1 DEF Closed
  <2>3. ASSUME NEW i \in Pos', At(i)'.kind = "audio.start", At(i)'.turn = t
        PROVE  \E k \in Pos' : i < k /\ Closer(k)'
    <3>1. i \in Pos /\ At(i)' = At(i)
      BY <1>0, <1>2, <2>3
    <3>2. QED
      BY <1>1, <2>1, <2>3, <3>1 DEF Closed
  <2>4. QED
    BY <2>2, <2>3 DEF Closed
<1>3. CASE \E k \in 1..Len(ms) :
             /\ ms[k].kind \in {"audio.end", "cancelled", "interrupted"}
             /\ \A i \in 1..Len(ms) : ms[i].kind = "audio.start" /\ ms[i].turn = t => i < k
  <2>1. PICK k \in 1..Len(ms) :
             /\ ms[k].kind \in {"audio.end", "cancelled", "interrupted"}
             /\ \A i \in 1..Len(ms) : ms[i].kind = "audio.start" /\ ms[i].turn = t => i < k
    BY <1>3
  <2>2. PICK j \in Nat : j = Len(outbox) + k
    BY <1>0
  <2>3. j \in Pos' /\ Closer(j)'
    BY <1>0, <2>1, <2>2 DEF Closer
  <2>4. ASSUME NEW i \in Pos', At(i)'.kind = "audio.start", At(i)'.turn = t
        PROVE  i < j
    <3>1. CASE i \in Pos
      BY <1>0, <2>2, <3>1
    <3>2. CASE i - Len(outbox) \in 1..Len(ms) /\ At(i)' = ms[i - Len(outbox)]
      <4>1. PICK n \in 1..Len(ms) : n = i - Len(outbox)
        BY <3>2
      <4>2. n < k
        BY <2>1, <2>4, <3>2, <4>1
      <4>3. i \in Int
        BY <1>0
      <4>4. QED
        BY <1>0, <2>2, <4>1, <4>2, <4>3
    <3>3. QED
      BY <1>0, <3>1, <3>2
  <2>5. QED
    BY <2>3, <2>4 DEF Closed
<1>4. QED
  BY <1>2, <1>3

\* A step that sends nothing and ends no speech leaves players to be closed.
LEMMA NothingSentKeepsClosing ==
  ASSUME Types, Closing, outbox' = outbox, UNCHANGED <<waiting, player>>, Open' => Open,
         \A t \in Turns : Open' /\ Over(t)' => Over(t)
  PROVE  Closing'
<1> DEFINE ms == <<>>
<1>1. ms \in Seq(OutMessages) /\ Send(ms) /\ \A i \in 1..Len(ms) : FALSE
  BY EmptySeq DEF Send, Types, WireTypes
<1> HIDE DEF ms
<1>2. QED
  BY <1>1, SendingKeepsClosing

\* The steps of a task that has not begun to answer leave nothing over; those of one that
\* has end its audio first.
LEMMA TaskOver ==
  ASSUME Types, Turning, Recording, NEW t \in Turns, Tasks(t), Open, Over(t)'
  PROVE  Over(t) \/ Send(<<Message("audio.end", t)>>)
<1>0. /\ reply \in [Turns -> Replies] /\ Recorded(t)
      /\ speech \in [Turns -> {"none", "opening", "speaking", "dropped", "cancelled", "failed", "done"}]
      /\ record \in [Turns -> {"none", "no_input", "reply", "interrupted", "error"}]
  BY DEF Types, TaskTypes, FileTypes, Replies, Recording
<1>1. CASE RunReply(t)
  BY <1>0, <1>1 DEF RunReply, Reply, Over, SpeechBegins, Recorded
<1>2. CASE AgentDelta(t) \/ StreamEnds(t)
  BY <1>0, <1>2 DEF AgentDelta, StreamEnds, Sends, Reply, Over
<1>3. CASE AgentFails(t)
  BY <1>0, <1>3 DEF AgentFails, Fails, Sends, Reply, Over
<1>4. CASE SpeechOver(t)
  BY <1>0, <1>4 DEF SpeechOver, Fails, Sends, Reply, Over
<1>5. CASE Resume(t)
  BY <1>0, <1>5 DEF Resume, Reply, Over, SpeechBegins, Recorded
<1>6. CASE Opens(t) \/ OpenFails(t)
  BY <1>0, <1>6 DEF Opens, OpenFails, Speech, Over, files
<1>7. CASE Chunk(t)
  BY <1>0, <1>7 DEF Chunk, Speech, Over, files
<1>8. CASE FinalAudio(t) \/ DropEnds(t)
  BY <1>8 DEF FinalAudio, DropEnds, AudioEnds
<1>9. QED
  BY <1>1, <1>2, <1>3, <1>4, <1>5, <1>6, <1>7, <1>8 DEF Tasks

\* Speech ends with audio.end behind the start of its player.
LEMMA TasksKeepClosing ==
  ASSUME Types, Turning, Recording, Closing, NEW t \in Turns, Tasks(t), UNCHANGED client
  PROVE  Closing'
<1>0. UNCHANGED <<waiting, player>> /\ Open' = Open /\ t \in 0..MaxTurns
  BY TaskWire, TaskOfTurn DEF client, reading, Open
<1>1. \A u \in Turns : u # t => (Over(u)' <=> Over(u))
  BY TaskTask, TaskSpeech DEF Over
<1>2. CASE Over(t)' => Over(t)
  <2>0. \A u \in Turns : Over(u)' => Over(u)
    BY <1>1, <1>2
  <2>1. CASE outbox' = outbox
    BY <1>0, <2>0, <2>1, NothingSentKeepsClosing
  <2>2. ASSUME NEW kind \in {"assistant.start", "assistant.end", "audio.chunk", "audio.end"},
               Send(<<Message(kind, t)>>)
        PROVE  Closing'
    <3> DEFINE ms == <<Message(kind, t)>>
    <3>1. /\ Send(ms) /\ ms \in Seq(OutMessages) /\ Len(ms) = 1
          /\ \A i \in 1..1 : ms[i].kind = kind /\ ms[i].turn = t
      BY <1>0, <2>2, OneSent DEF OutKinds
    <3> HIDE DEF ms
    <3>2. \A i \in 1..Len(ms) : ms[i].kind # "audio.start"
      BY <3>1
    <3>3. QED
      BY <1>0, <2>0, <3>1, <3>2, SendingKeepsClosing
  <2>3. CASE /\ Open /\ reply[t] \in {"created", "starting"} /\ reply'[t] = "streaming"
             /\ \/ Send(<<Message("assistant.start", t), Message("audio.start", t)>>)
                \/ Send(<<Message("audio.start", t)>>)
    <3>1. ~Over(t)
      <4>1. reply[t] \in {"created", "starting"} /\ speech[t] = "none"
        BY <2>3 DEF Recording, Recorded
      <4>2. QED
        BY <4>1 DEF Over
    <3>2. PICK ms \in Seq(OutMessages) : Send(ms) /\ \A i \in 1..Len(ms) : ms[i].turn = t
      <4>1. CASE Send(<<Message("assistant.start", t), Message("audio.start", t)>>)
        <5> DEFINE ms == <<Message("assistant.start", t), Message("audio.start", t)>>
        <5>1. /\ Send(ms) /\ ms \in Seq(OutMessages) /\ Len(ms) = 2
              /\ ms[1].turn = t /\ ms[2].turn = t
          BY <1>0, <4>1, BothSent
        <5> HIDE DEF ms
        <5>2. 1..Len(ms) = {1, 2}
          BY <5>1
        <5>3. QED
          BY <5>1, <5>2
      <4>2. CASE Send(<<Message("audio.start", t)>>)
        <5> DEFINE ms == <<Message("audio.start", t)>>
        <5>1. /\ Send(ms) /\ ms \in Seq(OutMessages) /\ Len(ms) = 1
              /\ \A i \in 1..1 : ms[i].turn = t
          BY <1>0, <4>2, OneSent DEF OutKinds
        <5> HIDE DEF ms
        <5>2. QED
          BY <5>1
      <4>3. QED
        BY <2>3, <4>1, <4>2
    <3>3. \A u \in Turns : Open' /\ Over(u)' =>
            Over(u) /\ \A i \in 1..Len(ms) : ms[i].kind = "audio.start" => ms[i].turn # u
      BY <1>2, <2>0, <3>1, <3>2
    <3>4. QED
      BY <1>0, <3>2, <3>3, SendingKeepsClosing
  <2>4. QED
    BY <2>1, <2>2, <2>3, TaskSends
<1>3. CASE Open /\ Send(<<Message("audio.end", t)>>)
  <2> DEFINE ms == <<Message("audio.end", t)>>
  <2>1. /\ Send(ms) /\ ms \in Seq(OutMessages) /\ Len(ms) = 1
        /\ \A i \in 1..1 : ms[i].kind = "audio.end" /\ ms[i].turn = t
    BY <1>0, <1>3, OneSent DEF OutKinds
  <2> HIDE DEF ms
  <2>2. 1 \in 1..Len(ms) /\ ms[1].kind = "audio.end" /\ \A i \in 1..Len(ms) : ms[i].kind # "audio.start"
    BY <2>1
  <2>3. \A u \in Turns : \E k \in 1..Len(ms) :
                /\ ms[k].kind \in {"audio.end", "cancelled", "interrupted"}
                /\ \A i \in 1..Len(ms) : ms[i].kind = "audio.start" /\ ms[i].turn = u => i < k
    BY <2>2
  <2>4. QED
    BY <1>0, <2>1, <2>3, SendingKeepsClosing
<1>4. CASE ~Open
  BY <1>0, <1>4 DEF Closing
<1>5. QED
  BY <1>2, <1>3, <1>4, TaskOver

\* A cancellation is told behind the start of the player it ends.
LEMMA LoopKeepsClosing ==
  ASSUME Types, Turning, Recording, Closing,
         Handle \/ LoopEnds \/ RecogniserFails \/ Drop \/ Disconnect, UNCHANGED client
  PROVE  Closing'
<1>0. UNCHANGED <<waiting, player>>
  BY DEF client, reading
<1>1. CASE HandleInterrupt \/ HandleStart \/ HandleReset
  <2>1. PICK ms \in Seq(OutMessages) :
          /\ CancelReply(ms)
          /\ \A i \in 1..Len(ms) : ms[i].kind \notin {"audio.start", "audio.chunk"}
    BY <1>1, HandlersCancel
  <2>2. PICK all \in Seq(OutMessages) :
           /\ Send(all)
           /\ \A i \in 1..Len(all) :
                all[i].kind = "audio.start" => ReplyRuns /\ all[i].turn = replyTask
           /\ ReplyRuns => \E k \in 1..Len(all) :
                             /\ all[k].kind = "cancelled"
                             /\ \A i \in 1..Len(all) : all[i].kind = "audio.start" => i < k
    BY <2>1, CutSends
  <2>3. Open' => Open
    BY <1>1 DEF HandleInterrupt, HandleStart, HandleReset, Receives
  <2>4. CASE ReplyRuns
    BY <1>0, <2>2, <2>3, <2>4, SendingKeepsClosing
  <2>5. CASE ~ReplyRuns
    <3>1. UNCHANGED <<reply, speech, record>>
      BY <2>1, <2>5 DEF CancelReply
    <3>2. \A t \in Turns : Over(t)' => Over(t)
      BY <3>1 DEF Over
    <3>3. QED
      BY <1>0, <2>2, <2>3, <2>5, <3>2, SendingKeepsClosing
  <2>6. QED
    BY <2>4, <2>5
<1>2. CASE HandleHello \/ HandleAudio \/ HandleEnd \/ Drop
  <2>1. outbox' = outbox /\ (Open' => Open)
    BY <1>2 DEF HandleHello, HandleAudio, HandleEnd, Drop, wire, Open, Receives
  <2>2. \A t \in Turns : speech'[t] = "done" => speech[t] = "done"
    BY <1>2 DEF HandleHello, HandleAudio, HandleEnd, Drop, ContextsEnd
  <2>3. \A t \in Turns : reply'[t] = "done" => reply[t] = "done"
    BY <1>2 DEF HandleHello, HandleAudio, HandleEnd, Drop, Types, TaskTypes
  <2>4. ServerNext /\ Next
    BY <1>2 DEF ServerNext, Handle, Next
  <2>5. \A t \in Turns : Over(t)' => Over(t)
    BY <2>2, <2>3, <2>4, RecordsStay DEF Over
  <2>6. QED
    BY <1>0, <2>1, <2>5, NothingSentKeepsClosing
<1>3. CASE LoopEnds \/ RecogniserFails \/ Disconnect
  BY <1>3 DEF LoopEnds, RecogniserFails, Disconnect, Open, Closing
<1>4. QED
  BY <1>1, <1>2, <1>3 DEF Handle

\* A message that closes the player is taken, or still waits.
LEMMA TakingKeepsClosing ==
  ASSUME Types, Closing, ServerRests, NEW k \in {0, 1}, Takes(k)
  PROVE  Closing'
<1>0. /\ Len(outbox) \in Nat /\ Len(outbox)' \in Nat /\ Len(outbox)' = Len(outbox) - k
      /\ Pos = 0..Len(outbox) /\ Pos' = 0..Len(outbox)'
      /\ At(0)'.kind = "none" /\ (k = 1 => At(0).kind = "none")
      /\ \A i \in Pos' : i # 0 => i + k \in Pos /\ At(i)' = At(i + k)
  BY TakenPlaces
<1>1. UNCHANGED <<reply, record, socket, speech>>
  BY DEF ServerRests, files
<1> DEFINE m == At(k)
<1>2. k \in Pos /\ m \in OutMessages /\ player \in Players /\ player' = Played(m)
  <2>1. k \in Pos /\ player' = Played(m)
    BY DEF Takes
  <2>2. waiting \in OutMessages /\ \A i \in 1..Len(outbox) : outbox[i] \in OutMessages
    BY ElementOfSeq DEF Types, WireTypes, ClientTypes
  <2>3. m \in OutMessages
    BY <1>0, <2>1, <2>2 DEF At
  <2>4. QED
    BY <2>1, <2>3 DEF Types, ClientTypes, Players
<1> SUFFICES ASSUME Open', NEW t \in Turns, Over(t)'
             PROVE  Closed(t)'
  BY DEF Closing, Open
<1>3. Closed(t)
  BY <1>1 DEF Closing, Over, Open
<1>4. ASSUME NEW n \in Pos, n > k, Closer(n)
      PROVE  \E i \in Pos' : i = n - k /\ Closer(i)'
  <2>1. n - k \in Pos' /\ n - k # 0 /\ (n - k) + k = n
    BY <1>0, <1>4
  <2>2. PICK i : i = n - k
    OBVIOUS
  <2>3. At(i)' = At(n)
    BY <1>0, <2>1, <2>2
  <2>4. QED
    BY <1>4, <2>1, <2>2, <2>3 DEF Closer
<1>5. player'.state = "open" /\ player'.of = t => \E i \in Pos' : Closer(i)'
  <2>1. HAVE player'.state = "open" /\ player'.of = t
  <2>2. CASE m.kind = "audio.start" /\ player'.of = m.turn
    <3>1. \E n \in Pos : k < n /\ Closer(n)
      BY <1>2, <1>3, <2>1, <2>2 DEF Closed
    <3>2. QED
      BY <1>0, <1>4, <3>1
  <2>3. CASE /\ player.state = "open" /\ player'.of = player.of
             /\ m.kind \notin {"audio.start", "audio.end", "cancelled", "interrupted"}
    <3>1. PICK n \in Pos : Closer(n)
      BY <1>3, <2>1, <2>3 DEF Closed
    <3>2. n # k
      BY <2>3, <3>1 DEF Closer
    <3>3. k = 1 => n # 0
      BY <1>0, <3>1 DEF Closer
    <3>4. n > k
      BY <1>0, <3>2, <3>3
    <3>5. QED
      BY <1>4, <3>1, <3>4
  <2>4. QED
    BY <1>2, <2>1, <2>2, <2>3, PlayedOpen
<1>6. ASSUME NEW i \in Pos', At(i)'.kind = "audio.start", At(i)'.turn = t
      PROVE  \E n \in Pos' : i < n /\ Closer(n)'
  <2>1. i # 0 /\ i + k \in Pos /\ At(i)' = At(i + k)
    BY <1>0, <1>6
  <2>2. PICK n \in Pos : i + k < n /\ Closer(n)
    BY <1>3, <1>6, <2>1 DEF Closed
  <2>3. n > k
    BY <1>0, <2>2
  <2>4. PICK o \in Pos' : o = n - k /\ Closer(o)'
    BY <1>4, <2>2, <2>3
  <2>5. i < o
    BY <1>0, <2>2, <2>4
  <2>6. QED
    BY <2>4, <2>5
<1>7. QED
  BY <1>5, <1>6 DEF Closed

\* A message that waits for the lock still closes.
LEMMA WaitingKeepsClosing ==
  ASSUME Types, Closing, ServerRests, Waits
  PROVE  Closing'
<1>0. /\ Len(outbox) \in Nat /\ Len(outbox)' \in Nat /\ Len(outbox)' = Len(outbox) - 1
      /\ Pos = 0..Len(outbox) /\ Pos' = 0..Len(outbox)' /\ At(0).kind = "none"
      /\ \A i \in Pos' : i + 1 \in Pos /\ At(i)' = At(i + 1)
  BY WaitingPlaces
<1>1. UNCHANGED <<reply, record, socket, speech>> /\ player' = player
  BY DEF ServerRests, files, Waits
<1> SUFFICES ASSUME Open', NEW t \in Turns, Over(t)'
             PROVE  Closed(t)'
  BY DEF Closing, Open
<1>2. Closed(t)
  BY <1>1 DEF Closing, Over, Open
<1>3. ASSUME NEW n \in Pos, Closer(n)
      PROVE  \E i \in Pos' : i = n - 1 /\ Closer(i)'
  <2>1. n # 0
    BY <1>0, <1>3 DEF Closer
  <2>2. n - 1 \in Pos' /\ (n - 1) + 1 = n
    BY <1>0, <2>1
  <2>3. PICK i : i = n - 1
    OBVIOUS
  <2>4. At(i)' = At(n)
    BY <1>0, <2>2, <2>3
  <2>5. QED
    BY <1>3, <2>2, <2>3, <2>4 DEF Closer
<1>4. player'.state = "open" /\ player'.of = t => \E i \in Pos' : Closer(i)'
  BY <1>1, <1>2, <1>3 DEF Closed
<1>5. ASSUME NEW i \in Pos', At(i)'.kind = "audio.start", At(i)'.turn = t
      PROVE  \E n \in Pos' : i < n /\ Closer(n)'
  <2>1. i + 1 \in Pos /\ At(i)' = At(i + 1)
    BY <1>0
  <2>2. PICK n \in Pos : i + 1 < n /\ Closer(n)
    BY <1>2, <1>5, <2>1 DEF Closed
  <2>3. PICK o \in Pos' : o = n - 1 /\ Closer(o)'
    BY <1>3, <2>2
  <2>4. i < o
    BY <1>0, <2>2, <2>3
  <2>5. QED
    BY <2>3, <2>4
<1>6. QED
  BY <1>4, <1>5 DEF Closed

\* No step leaves a player open for a reply that is over.
LEMMA ClosingKept ==
  ASSUME Types, Turning, Recording, Closing, Next
  PROVE  Closing'
<1>1. CASE ServerNext /\ UNCHANGED client
  BY <1>1, TasksKeepClosing, LoopKeepsClosing DEF ServerNext
<1>2. ASSUME ServerRests, Idles
      PROVE  Closing'
  BY <1>2 DEF ServerRests, Idles, files, Closing, Open, Over, Closed, Closer, Pos, At, NoPlayer
<1>3. CASE (\E level \in Levels : Hear(level)) \/ Read \/ StopReturns \/ PlayedOut \/ SendOther
  BY <1>2, <1>3, ReaderSteps, ClientRests, TakingKeepsClosing, WaitingKeepsClosing
<1>4. CASE ConnectionOver
  BY <1>4 DEF ConnectionOver, Closing, Open
<1>5. QED
  BY <1>1, <1>3, <1>4 DEF Next

-----------------------------------------------------------------------------
(* What a pi says *)

\* Two pieces that fit make one.
LEMMA ChainJoins ==
  ASSUME NEW s \in Seq(InMessages), NEW t \in Seq(InMessages), Chain(s), Chain(t), t # <<>>,
         s # <<>> => May(Last(s), t[1])
  PROVE  /\ s \o t \in Seq(InMessages) /\ Chain(s \o t) /\ s \o t # <<>> /\ Last(s \o t) = Last(t)
         /\ (s \o t)[1] = IF s = <<>> THEN t[1] ELSE s[1]
         /\ \A kind : (\E i \in 1..Len(t) : t[i].kind = kind)
              => \E i \in 1..Len(s \o t) : (s \o t)[i].kind = kind
         /\ \A kind : (\E i \in 1..Len(s) : s[i].kind = kind)
              => \E i \in 1..Len(s \o t) : (s \o t)[i].kind = kind
<1> DEFINE u == s \o t
           a == Len(s)
           b == Len(t)
<1>1. /\ a \in Nat /\ b \in Nat /\ b # 0 /\ (s # <<>> => a # 0) /\ (s = <<>> => a = 0)
  BY EmptySeq, LenProperties
<1>2. /\ u \in Seq(InMessages) /\ Len(u) = a + b
      /\ \A i \in 1..(a + b) : u[i] = IF i <= a THEN s[i] ELSE t[i - a]
  BY ConcatProperties
<1> HIDE DEF u
<1>3. \A i \in 1..a : i \in 1..(a + b) /\ u[i] = s[i]
  BY <1>1, <1>2
<1>4. \A i \in 1..b : a + i \in 1..(a + b) /\ u[a + i] = t[i]
  <2> SUFFICES ASSUME NEW i \in 1..b PROVE a + i \in 1..(a + b) /\ u[a + i] = t[i]
    OBVIOUS
  <2>1. a + i \in 1..(a + b) /\ ~(a + i <= a) /\ (a + i) - a = i
    BY <1>1
  <2>2. QED
    BY <1>2, <2>1
<1>5. \A i \in 1..(a + b) : i \in 1..a \/ \E j \in 1..b : i = a + j
  <2> SUFFICES ASSUME NEW i \in 1..(a + b), i \notin 1..a PROVE \E j \in 1..b : i = a + j
    OBVIOUS
  <2>1. i - a \in 1..b /\ i = a + (i - a)
    BY <1>1
  <2>2. QED
    BY <2>1
<1>6. ASSUME NEW i \in 1..Len(u)
      PROVE  u[i].kind # "session.reset"
  <2>1. CASE i \in 1..a
    BY <1>3, <2>1 DEF Chain
  <2>2. CASE i \notin 1..a
    <3>1. PICK j \in 1..b : i = a + j
      BY <1>2, <1>5, <2>2
    <3>2. QED
      BY <1>4, <3>1 DEF Chain
  <2>3. QED
    BY <2>1, <2>2
<1>7. ASSUME NEW i \in 1..(Len(u) - 1)
      PROVE  May(u[i], u[i + 1])
  <2>1. CASE i \in 1..(a - 1)
    <3>1. i \in 1..a /\ i + 1 \in 1..a
      BY <1>1, <2>1
    <3>2. QED
      BY <1>3, <2>1, <3>1 DEF Chain
  <2>2. CASE i = a
    <3>1. s # <<>> /\ a \in 1..a /\ 1 \in 1..b
      BY <1>1, <2>2
    <3>2. u[i] = Last(s) /\ u[i + 1] = t[1]
      BY <1>3, <1>4, <2>2, <3>1 DEF Last
    <3>3. QED
      BY <3>1, <3>2
  <2>3. CASE i > a
    <3>1. i \in 1..(a + b) /\ i \notin 1..a /\ i <= a + b - 1
      BY <1>1, <1>2, <2>3
    <3>2. PICK j \in 1..b : i = a + j
      BY <1>5, <3>1
    <3>3. j \in 1..(b - 1) /\ j + 1 \in 1..b /\ i + 1 = a + (j + 1)
      BY <1>1, <3>1, <3>2
    <3>4. u[i] = t[j] /\ u[i + 1] = t[j + 1]
      BY <1>4, <3>2, <3>3
    <3>5. QED
      BY <3>3, <3>4 DEF Chain
  <2>4. QED
    BY <1>1, <1>2, <2>1, <2>2, <2>3
<1>8. u # <<>> /\ Last(u) = Last(t)
  <2>1. b \in 1..b /\ u[a + b] = t[b]
    BY <1>1, <1>4
  <2>2. QED
    BY <1>1, <1>2, <2>1, EmptySeq DEF Last
<1>9. u[1] = IF s = <<>> THEN t[1] ELSE s[1]
  <2>1. CASE s = <<>>
    <3>1. a = 0 /\ 1 \in 1..b /\ a + 1 = 1
      BY <1>1, <2>1
    <3>2. QED
      BY <1>4, <2>1, <3>1
  <2>2. CASE s # <<>>
    <3>1. 1 \in 1..a
      BY <1>1, <2>2
    <3>2. QED
      BY <1>3, <2>2, <3>1
  <2>3. QED
    BY <2>1, <2>2
<1>10. \A kind : (\E i \in 1..b : t[i].kind = kind) => \E i \in 1..Len(u) : u[i].kind = kind
  BY <1>2, <1>4
<1>11. \A kind : (\E i \in 1..a : s[i].kind = kind) => \E i \in 1..Len(u) : u[i].kind = kind
  BY <1>2, <1>3
<1>12. QED
  BY <1>2, <1>6, <1>7, <1>8, <1>9, <1>10, <1>11 DEF Chain, u

\* The rest of what was in order is.
LEMMA ChainTail ==
  ASSUME NEW s \in Seq(InMessages), s # <<>>, Chain(s)
  PROVE  /\ Tail(s) \in Seq(InMessages) /\ Chain(Tail(s)) /\ s[1] \in InMessages
         /\ s[1].kind # "session.reset"
         /\ Tail(s) = <<>> => Last(s) = s[1]
         /\ Tail(s) # <<>> => May(s[1], Tail(s)[1]) /\ Last(Tail(s)) = Last(s)
         /\ \A kind : (\E i \in 1..Len(s) : s[i].kind = kind)
              => s[1].kind = kind \/ \E i \in 1..Len(Tail(s)) : Tail(s)[i].kind = kind
<1> DEFINE r == Tail(s)
           a == Len(s)
<1>1. /\ a \in Nat /\ a >= 1 /\ Head(s) = s[1] /\ Head(s) \in InMessages
      /\ r \in Seq(InMessages) /\ Len(r) = a - 1
      /\ \A i \in 1..(a - 1) : r[i] = s[i + 1]
  BY HeadTail
<1> HIDE DEF r
<1>2. \A i \in 1..(a - 1) : i + 1 \in 1..a /\ i \in 1..a
  BY <1>1
<1>3. \A i \in 1..Len(r) : r[i].kind # "session.reset"
  BY <1>1, <1>2 DEF Chain
<1>4. ASSUME NEW i \in 1..(Len(r) - 1)
      PROVE  May(r[i], r[i + 1])
  <2>1. i \in 1..(a - 1) /\ i + 1 \in 1..(a - 1)
    BY <1>1
  <2>2. r[i] = s[i + 1] /\ r[i + 1] = s[(i + 1) + 1]
    BY <1>1, <2>1
  <2>3. QED
    BY <2>1, <2>2 DEF Chain
<1>5. r = <<>> => Last(s) = s[1]
  <2>1. r = <<>> => Len(r) = 0
    BY EmptySeq
  <2>2. r = <<>> => a = 1
    BY <1>1, <2>1
  <2>3. QED
    BY <2>2 DEF Last
<1>6. r # <<>> => May(s[1], r[1]) /\ Last(r) = Last(s)
  <2>1. HAVE r # <<>>
  <2>2. Len(r) # 0
    BY <1>1, <2>1, EmptySeq
  <2>3. 1 \in 1..(a - 1) /\ a - 1 \in 1..(a - 1) /\ (a - 1) + 1 = a /\ 1 + 1 = 2
    BY <1>1, <2>2
  <2>4. r[1] = s[1 + 1] /\ r[a - 1] = s[a]
    BY <1>1, <2>3
  <2>5. May(s[1], s[1 + 1])
    BY <2>3 DEF Chain
  <2>6. QED
    BY <1>1, <2>4, <2>5 DEF Last
<1>7. ASSUME NEW kind, NEW i \in 1..a, s[i].kind = kind
      PROVE  s[1].kind = kind \/ \E j \in 1..Len(r) : r[j].kind = kind
  <2>1. CASE i = 1
    BY <1>7, <2>1
  <2>2. CASE i # 1
    <3>1. i - 1 \in 1..(a - 1) /\ (i - 1) + 1 = i
      BY <1>1, <2>2
    <3>2. PICK j \in 1..(a - 1) : j + 1 = i
      BY <3>1
    <3>3. r[j] = s[i]
      BY <1>1, <3>2
    <3>4. QED
      BY <1>1, <1>7, <3>2, <3>3
  <2>3. QED
    BY <2>1, <2>2
<1>8. s[1].kind # "session.reset"
  BY <1>1 DEF Chain
<1>9. QED
  BY <1>1, <1>3, <1>4, <1>5, <1>6, <1>7, <1>8 DEF Chain, r

\* One message alone, and chunks, are in order.
LEMMA OneIsChain ==
  ASSUME NEW kind \in InKinds \ {"session.reset"}, NEW t \in Nat
  PROVE  LET s == <<Message(kind, t)>>
         IN  /\ s \in Seq(InMessages) /\ Chain(s) /\ s # <<>> /\ Len(s) = 1
             /\ s[1].kind = kind /\ s[1].turn = t /\ Last(s).kind = kind /\ Last(s).turn = t
<1> DEFINE m == Message(kind, t)
           s == <<m>>
<1>1. m \in InMessages /\ m.kind = kind /\ m.turn = t
  BY DEF Message, InMessages
<1> HIDE DEF m
<1>2. s \in Seq(InMessages) /\ Len(s) = 1 /\ s[1] = m /\ s # <<>>
  BY <1>1
<1> HIDE DEF s
<1>3. Last(s) = m
  BY <1>2 DEF Last
<1>4. Chain(s)
  BY <1>1, <1>2 DEF Chain
<1>5. QED
  BY <1>1, <1>2, <1>3, <1>4 DEF s, m

\* A run of chunks is in order.
LEMMA ChunksAreChain ==
  ASSUME NEW s, NEW n \in Nat, ChunksUpTo(s, n)
  PROVE  /\ s \in Seq(InMessages) /\ Chain(s)
         /\ s # <<>> => /\ Last(s).kind = "audio" /\ Last(s).turn = n
                        /\ s[1].kind = "audio" /\ s[1].turn = n - Len(s) + 1
<1>1. /\ s \in Seq(InMessages) /\ Len(s) \in Nat
      /\ \A i \in 1..Len(s) : s[i].kind = "audio" /\ s[i].turn = n - Len(s) + i
  BY LenProperties DEF ChunksUpTo
<1>2. ASSUME NEW i \in 1..(Len(s) - 1)
      PROVE  May(s[i], s[i + 1])
  <2>1. i \in 1..Len(s) /\ i + 1 \in 1..Len(s)
    BY <1>1
  <2>2. s[i].kind = "audio" /\ s[i + 1].kind = "audio" /\ s[i + 1].turn = s[i].turn + 1
    BY <1>1, <2>1
  <2>3. QED
    BY <2>2 DEF May
<1>3. Chain(s)
  BY <1>1, <1>2 DEF Chain
<1>4. s # <<>> => Len(s) \in 1..Len(s) /\ 1 \in 1..Len(s)
  BY <1>1, EmptySeq
<1>5. s # <<>> => Last(s).turn = n
  BY <1>1, <1>4 DEF Last
<1>6. QED
  BY <1>1, <1>3, <1>4, <1>5 DEF Last

\* What begins a turn.
Beginnings == {<<>>, <<Message("interrupt", None)>>}
\* The messages of a beginning are in order, and the last is the last chunk sent.
LEMMA StartIsChain ==
  ASSUME NEW before \in Beginnings, NEW slice, NEW n \in Nat, ChunksUpTo(slice, n)
  PROVE  LET s == before \o <<Message("turn.start", None)>> \o slice
         IN  /\ s \in Seq(InMessages) /\ Chain(s) /\ s # <<>>
             /\ s[1].kind \in {"interrupt", "turn.start"}
             /\ \E i \in 1..Len(s) : s[i].kind = "turn.start"
             /\ slice = <<>> => Last(s).kind = "turn.start"
             /\ slice # <<>> => Last(s).kind = "audio" /\ Last(s).turn = n
<1> DEFINE start == <<Message("turn.start", None)>>
           opening == before \o start
           s == opening \o slice
<1>0. None \in Nat /\ {"turn.start", "interrupt"} \subseteq InKinds \ {"session.reset"}
  BY DEF None, InKinds, OtherKinds
<1>1. /\ start \in Seq(InMessages) /\ Chain(start) /\ start # <<>> /\ start[1].kind = "turn.start"
      /\ Last(start).kind = "turn.start" /\ Len(start) = 1
  BY <1>0, OneIsChain
<1>2. /\ before \in Seq(InMessages) /\ Chain(before)
      /\ before # <<>> => before[1].kind = "interrupt" /\ Last(before).kind = "interrupt"
  <2>1. CASE before = <<>>
    <3>1. Len(before) = 0 /\ before \in Seq(InMessages)
      BY <2>1, EmptySeq
    <3>2. QED
      BY <2>1, <3>1 DEF Chain
  <2>2. CASE before = <<Message("interrupt", None)>>
    BY <1>0, <2>2, OneIsChain
  <2>3. QED
    BY <2>1, <2>2 DEF Beginnings
<1> HIDE DEF start
<1>3. before # <<>> => May(Last(before), start[1])
  BY <1>1, <1>2 DEF May
<1>4. \E i \in 1..Len(start) : start[i].kind = "turn.start"
  BY <1>1
<1>5. /\ opening \in Seq(InMessages) /\ Chain(opening) /\ opening # <<>> /\ Last(opening) = Last(start)
      /\ opening[1] = IF before = <<>> THEN start[1] ELSE before[1]
      /\ \E i \in 1..Len(opening) : opening[i].kind = "turn.start"
  <2>1. /\ before \o start \in Seq(InMessages) /\ Chain(before \o start) /\ before \o start # <<>>
        /\ Last(before \o start) = Last(start)
        /\ (before \o start)[1] = IF before = <<>> THEN start[1] ELSE before[1]
        /\ \A kind : (\E i \in 1..Len(start) : start[i].kind = kind)
             => \E i \in 1..Len(before \o start) : (before \o start)[i].kind = kind
    BY <1>1, <1>2, <1>3, ChainJoins
  <2>2. QED
    BY <1>4, <2>1
<1> HIDE DEF opening
<1>6. opening[1].kind \in {"interrupt", "turn.start"} /\ Last(opening).kind = "turn.start"
  BY <1>1, <1>2, <1>5
<1>7. CASE slice = <<>>
  <2>1. s = opening
    BY <1>5, <1>7, ConcatEmptySeq
  <2>2. QED
    BY <1>5, <1>6, <1>7, <2>1 DEF opening, start
<1>8. CASE slice # <<>>
  <2>1. /\ slice \in Seq(InMessages) /\ Chain(slice)
        /\ Last(slice).kind = "audio" /\ Last(slice).turn = n
        /\ slice[1].kind = "audio"
    BY <1>8, ChunksAreChain
  <2>2. May(Last(opening), slice[1])
    BY <1>6, <2>1 DEF May
  <2>3. /\ s \in Seq(InMessages) /\ Chain(s) /\ s # <<>> /\ Last(s) = Last(slice)
        /\ s[1] = opening[1] /\ \E i \in 1..Len(s) : s[i].kind = "turn.start"
    BY <1>5, <1>8, <2>1, <2>2, ChainJoins
  <2> HIDE DEF s
  <2>4. QED
    BY <1>6, <1>8, <2>1, <2>3 DEF s, opening, start
<1>9. QED
  BY <1>7, <1>8

\* The next message is handled.
LEMMA HandlingKeepsOrder ==
  ASSUME Types, Turning, device = "pi", Open, Ordered, SpeechIsWhole, Handle, UNCHANGED client
  PROVE  Ordered' /\ SpeechIsWhole'
<1> DEFINE m == inbox[1]
<1>1. /\ inbox \in Seq(InMessages) /\ inbox # <<>> /\ inbox' = Tail(inbox) /\ Head(inbox) = m
      /\ Head(inbox).kind = m.kind
  <2>1. \E kind : Receives(kind)
    BY DEF Handle, HandleHello, HandleInterrupt, HandleStart, HandleAudio, HandleEnd, HandleReset
  <2>2. QED
    BY <2>1, Received DEF Receives, Types, WireTypes
<1>2. /\ inbox' \in Seq(InMessages) /\ Chain(inbox') /\ m.kind # "session.reset" /\ m \in InMessages
      /\ inbox' = <<>> => Last(inbox) = m
      /\ inbox' # <<>> => May(m, inbox'[1]) /\ Last(inbox') = Last(inbox)
      /\ \A kind : (\E i \in 1..Len(inbox) : inbox[i].kind = kind)
              => m.kind = kind \/ \E i \in 1..Len(inbox') : inbox'[i].kind = kind
  BY <1>1, ChainTail DEF Ordered
<1>3. UNCHANGED <<device, heard, turnActive, speechStarted, pendingSilence>>
  BY DEF client, detection
<1>4. reply \in [Turns -> Replies] /\ pcm \in [Turns -> Seq(Nat)] /\ turns \in Nat
      /\ activeTurn \in 0..turns /\ MaxTurns \in Nat /\ turns <= MaxTurns
      /\ Turns = 1..MaxTurns /\ None = 0
  BY Bounds DEF Types, TaskTypes, TurnTypes, Replies, Turns, None
<1>5. (~speechStarted => pendingSilence = <<>>)'
  BY <1>3 DEF Ordered, Told
<1>6. CASE HandleAudio
  <2>1. m.kind = "audio" /\ m.turn \in Nat
    BY <1>1, <1>2, <1>6 DEF HandleAudio, Receives, InMessages
  <2>2. /\ UNCHANGED <<activeTurn, reply>>
        /\ pcm' = IF activeTurn = None THEN pcm
                  ELSE [pcm EXCEPT ![activeTurn] = Append(pcm[activeTurn], m.turn)]
    BY <1>1, <1>6 DEF HandleAudio
  <2>3. inbox' # <<>> => inbox'[1].kind = "turn.end"
                           \/ (inbox'[1].kind = "audio" /\ inbox'[1].turn = m.turn + 1)
    BY <1>2, <2>1 DEF May
  <2>4. activeTurn # None =>
          /\ activeTurn \in Turns /\ pcm'[activeTurn] = Append(pcm[activeTurn], m.turn)
          /\ Last(pcm'[activeTurn]) = m.turn
    <3>1. HAVE activeTurn # None
    <3>2. activeTurn \in Turns
      BY <1>4, <3>1
    <3>3. pcm'[activeTurn] = Append(pcm[activeTurn], m.turn) /\ pcm[activeTurn] \in Seq(Nat)
      BY <1>4, <2>2, <3>1, <3>2
    <3>4. Last(Append(pcm[activeTurn], m.turn)) = m.turn
      BY <2>1, <3>3, AppendProperties DEF Last
    <3>5. QED
      BY <3>2, <3>3, <3>4
  <2>5. Expected'
    BY <2>2, <2>3, <2>4 DEF Expected, Fresh
  <2>6. Told'
    BY <1>2, <1>3, <1>5, <2>1, <2>2, <2>4, <1>1 DEF Told, Fresh, LastSent, Ordered
  <2>7. Silent'
    BY <1>2, <1>3, <2>1, <2>2 DEF Silent, Ordered
  <2>8. SpeechIsWhole'
    <3> SUFFICES ASSUME NEW t \in Turns, NEW i \in 1..(Len(pcm'[t]) - 1)
                 PROVE  pcm'[t][i + 1] = pcm'[t][i] + 1
      BY DEF SpeechIsWhole
    <3>1. CASE pcm'[t] = pcm[t]
      BY <3>1 DEF SpeechIsWhole
    <3>2. CASE activeTurn # None /\ t = activeTurn
      <4> DEFINE old == pcm[t]
                 new == Append(old, m.turn)
      <4>1. pcm'[t] = new /\ old \in Seq(Nat)
        BY <1>4, <2>4, <3>2
      <4>2. old = <<>> \/ m.turn = Last(old) + 1
        BY <1>1, <2>1, <3>2 DEF Ordered, Expected, Fresh
      <4>3. \A j \in 1..(Len(old) - 1) : old[j + 1] = old[j] + 1
        BY DEF SpeechIsWhole
      <4> HIDE DEF old
      <4>4. /\ Len(new) = Len(old) + 1 /\ Len(old) \in Nat
            /\ \A j \in 1..Len(old) : new[j] = old[j]
            /\ new[Len(old) + 1] = m.turn
        BY <2>1, <4>1, AppendProperties, LenProperties
      <4> HIDE DEF new
      <4>5. i \in 1..Len(old)
        BY <4>1, <4>4
      <4>6. CASE i = Len(old)
        <5>1. old # <<>> /\ new[i] = Last(old) /\ new[i + 1] = m.turn
          BY <4>1, <4>4, <4>5, <4>6, EmptySeq DEF Last
        <5>2. QED
          BY <4>1, <4>2, <5>1
      <4>7. CASE i # Len(old)
        <5>1. i \in 1..(Len(old) - 1) /\ i + 1 \in 1..Len(old)
          BY <4>4, <4>5, <4>7
        <5>2. QED
          BY <4>1, <4>3, <4>4, <4>5, <5>1
      <4>8. QED
        BY <4>6, <4>7
    <3>3. QED
      BY <1>4, <2>2, <3>1, <3>2
  <2>9. QED
    BY <1>2, <2>5, <2>6, <2>7, <2>8 DEF Ordered
<1>7. ASSUME ~HandleAudio
      PROVE  /\ pcm' = pcm /\ m.kind \in {"hello", "interrupt", "turn.start", "turn.end"}
             /\ m.kind # "turn.start" => activeTurn' = None
             /\ Fresh'
  <2>1. CASE HandleHello
    BY <1>1, <2>1 DEF HandleHello, Receives, Ordered, Expected, Fresh
  <2>2. CASE HandleInterrupt
    BY <1>1, <2>2 DEF HandleInterrupt, Receives, Ordered, Expected, Fresh
  <2>3. CASE HandleEnd
    BY <1>1, <2>3 DEF HandleEnd, Receives, Fresh
  <2>4. CASE HandleStart
    <3>1. m.kind = "turn.start" /\ activeTurn = None /\ pcm' = pcm
      BY <1>1, <2>4 DEF HandleStart, Receives, Ordered, Expected
    <3>2. activeTurn' = None \/ (activeTurn' = turns + 1 /\ turns < MaxTurns)
      BY <2>4, <3>1 DEF HandleStart
    <3>3. Fresh'
      <4>1. CASE activeTurn' = turns + 1 /\ turns < MaxTurns
        <5>1. activeTurn' \in Turns /\ activeTurn' > turns
          BY <1>4, <4>1
        <5>2. QED
          BY <3>1, <5>1 DEF Turning, Fresh
      <4>2. QED
        BY <3>2, <4>1 DEF Fresh
    <3>4. QED
      BY <3>1, <3>3
  <2>5. ~HandleReset
    BY <1>1, <1>2 DEF HandleReset, Receives
  <2>6. QED
    BY <1>7, <2>1, <2>2, <2>3, <2>4, <2>5 DEF Handle
<1>8. CASE ~HandleAudio
  <2>1. /\ pcm' = pcm /\ m.kind \in {"hello", "interrupt", "turn.start", "turn.end"}
        /\ m.kind # "turn.start" => activeTurn' = None
        /\ Fresh'
    BY <1>7, <1>8
  <2>2. Expected'
    BY <1>2, <2>1 DEF Expected, May
  <2>3. Told'
    BY <1>1, <1>2, <1>3, <1>5, <2>1 DEF Told, LastSent, Ordered
  <2>4. Silent'
    <3> SUFFICES ASSUME turnActive, \A i \in 1..Len(inbox') : inbox'[i].kind # "turn.start"
                 PROVE  \A t \in Turns : reply'[t] \in Resting
      BY <1>3 DEF Silent
    <3>1. CASE HandleInterrupt \/ HandleStart \/ HandleReset
      BY <3>1, HandlersCancel, RestingKeepsTypes
    <3>2. CASE HandleHello
      <4>1. reply' = reply /\ m.kind # "turn.start"
        BY <1>1, <3>2 DEF HandleHello, Receives
      <4>2. \A i \in 1..Len(inbox) : inbox[i].kind # "turn.start"
        BY <1>2, <4>1
      <4>3. QED
        BY <4>1, <4>2 DEF Silent, Ordered
    <3>3. CASE HandleEnd
      <4>1. m.kind = "turn.end"
        BY <1>1, <3>3 DEF HandleEnd, Receives
      <4>2. inbox' # <<>> /\ Last(inbox').kind \in {"turn.start", "audio"}
        BY <1>1, <1>2, <4>1 DEF Told, Ordered
      <4>3. inbox'[1].kind \in {"interrupt", "turn.start"}
        BY <1>2, <4>1, <4>2 DEF May
      <4>4. 1 \in 1..Len(inbox')
        BY <1>2, <4>2, EmptySeq
      <4>5. inbox'[1].kind = "interrupt"
        BY <4>3, <4>4
      <4> DEFINE rest == Tail(inbox')
      <4>6. /\ rest \in Seq(InMessages)
            /\ rest = <<>> => Last(inbox') = inbox'[1]
            /\ rest # <<>> => May(inbox'[1], rest[1])
        BY <1>2, <4>2, ChainTail
      <4>7. Len(rest) = Len(inbox') - 1 /\ \A i \in 1..(Len(inbox') - 1) : rest[i] = inbox'[i + 1]
            /\ Len(inbox') \in Nat
        BY <1>2, <4>2, HeadTail
      <4> HIDE DEF rest
      <4>8. rest # <<>> /\ rest[1].kind = "turn.start"
        BY <4>2, <4>5, <4>6 DEF May
      <4>9. Len(rest) # 0 /\ Len(rest) \in Nat
        BY <4>6, <4>8, EmptySeq
      <4>10. 1 \in 1..(Len(inbox') - 1) /\ 1 + 1 \in 1..Len(inbox')
        BY <4>7, <4>9
      <4>11. inbox'[1 + 1].kind = "turn.start"
        BY <4>7, <4>8, <4>10
      <4>12. QED
        BY <4>10, <4>11
    <3>4. QED
      BY <1>8, <3>1, <3>2, <3>3 DEF Handle
  <2>5. SpeechIsWhole'
    BY <1>3, <2>1 DEF SpeechIsWhole
  <2>6. QED
    BY <1>2, <2>2, <2>3, <2>4, <2>5 DEF Ordered
<1>9. QED
  BY <1>6, <1>8

\* A turn begins behind the end of the last one.
LEMMA BeginningKeepsOrder ==
  ASSUME Types, Ordered, ServerRests, ~turnActive, NEW before \in Beginnings, NEW n \in Nat,
         n = Len(heard'), StartTurn(n, before)
  PROVE  Ordered'
<1>1. PICK slice : /\ ChunksUpTo(slice, n) /\ speechStarted' = (slice # <<>>)
                   /\ ToServer(before \o <<Message("turn.start", None)>> \o slice)
  <2>1. before \in Seq(InMessages)
    <3>1. "interrupt" \in InKinds \ {"session.reset"} /\ None \in Nat
      BY DEF InKinds, OtherKinds, None
    <3>2. CASE before = <<>>
      BY <3>2
    <3>3. CASE before = <<Message("interrupt", None)>>
      BY <3>1, <3>3, OneIsChain
    <3>4. QED
      BY <3>2, <3>3 DEF Beginnings
  <2>2. QED
    BY <2>1, StartShape
<1> DEFINE s == before \o <<Message("turn.start", None)>> \o slice
<1>2. /\ s \in Seq(InMessages) /\ Chain(s) /\ s # <<>> /\ s[1].kind \in {"interrupt", "turn.start"}
      /\ \E i \in 1..Len(s) : s[i].kind = "turn.start"
      /\ slice = <<>> => Last(s).kind = "turn.start"
      /\ slice # <<>> => Last(s).kind = "audio" /\ Last(s).turn = n
  BY <1>1, StartIsChain
<1>3. inbox' = inbox \o s
  BY <1>1 DEF ToServer
<1>4. /\ turnActive' = TRUE /\ pendingSilence' = <<>> /\ UNCHANGED <<activeTurn, pcm, reply>>
  BY DEF StartTurn, ServerRests, connection
<1> HIDE DEF s
<1>5. inbox \in Seq(InMessages) /\ Chain(inbox)
  BY DEF Types, WireTypes, Ordered
<1>6. inbox # <<>> => May(Last(inbox), s[1])
  <2>1. inbox # <<>> => Last(inbox).kind \in {"hello", "turn.end"}
    BY DEF Ordered, Told
  <2>2. QED
    BY <1>2, <2>1 DEF May
<1>7. /\ Chain(inbox') /\ inbox' # <<>> /\ Last(inbox') = Last(s)
      /\ inbox'[1] = IF inbox = <<>> THEN s[1] ELSE inbox[1]
      /\ \E i \in 1..Len(inbox') : inbox'[i].kind = "turn.start"
  <2>1. /\ Chain(inbox \o s) /\ inbox \o s # <<>> /\ Last(inbox \o s) = Last(s)
        /\ (inbox \o s)[1] = IF inbox = <<>> THEN s[1] ELSE inbox[1]
        /\ \A kind : (\E i \in 1..Len(s) : s[i].kind = kind)
             => \E i \in 1..Len(inbox \o s) : (inbox \o s)[i].kind = kind
    BY <1>2, <1>5, <1>6, ChainJoins
  <2>2. \E i \in 1..Len(inbox \o s) : (inbox \o s)[i].kind = "turn.start"
    BY <1>2, <2>1
  <2>3. QED
    BY <1>3, <2>1, <2>2
<1>8. Expected'
  BY <1>2, <1>4, <1>7 DEF Ordered, Expected, Told, Fresh
<1>9. Told'
  <2>1. Len(pendingSilence') = 0 /\ LastSent' = n
    BY <1>4, EmptySeq DEF LastSent
  <2>2. \A i \in 1..Len(pendingSilence') : pendingSilence'[i] = LastSent' + i
    BY <2>1
  <2>3. \/ Last(inbox').kind = "turn.start" /\ ~speechStarted'
        \/ Last(inbox').kind = "audio" /\ speechStarted' /\ Last(inbox').turn = LastSent'
    <3>1. CASE slice = <<>>
      BY <1>1, <1>2, <1>7, <3>1
    <3>2. CASE slice # <<>>
      BY <1>1, <1>2, <1>7, <2>1, <3>2
    <3>3. QED
      BY <3>1, <3>2
  <2>4. QED
    BY <1>4, <1>7, <2>2, <2>3 DEF Told
<1>10. Silent'
  BY <1>7 DEF Silent
<1>11. QED
  BY <1>7, <1>8, <1>9, <1>10 DEF Ordered

\* Concatenation is associative.
LEMMA Regrouped ==
  \A s, t, u \in Seq(InMessages) : (s \o t) \o u = s \o (t \o u)
<1> SUFFICES ASSUME NEW s \in Seq(InMessages), NEW t \in Seq(InMessages), NEW u \in Seq(InMessages)
             PROVE  (s \o t) \o u = s \o (t \o u)
  OBVIOUS
<1>1. QED
  BY ConcatAssociative

\* A turn goes on behind what it has sent.
LEMMA ContinuingKeepsOrder ==
  ASSUME Types, Ordered, ServerRests, turnActive, NEW n, n = Len(heard) + 1, Len(heard') = n,
         NEW speaking, NEW spoken \in BOOLEAN, NEW ends \in BOOLEAN,
         ContinueTurn(n, speaking, spoken, ends)
  PROVE  Ordered'
<1>0. n \in Nat /\ Len(heard) \in Nat /\ Len(pendingSilence) \in Nat /\ pendingSilence \in Seq(Nat)
  BY LenProperties DEF Types, ClientTypes
<1>1. /\ turnActive' = ~ends /\ speechStarted' = ((speechStarted \/ spoken) /\ ~ends)
      /\ pendingSilence' = IF spoken \/ ends THEN <<>>
                           ELSE IF speechStarted THEN Append(pendingSilence, n)
                           ELSE pendingSilence
      /\ UNCHANGED <<activeTurn, pcm, reply>>
  BY DEF ContinueTurn, ServerRests, connection
<1>2. PICK first, last :
         /\ ToServer(first \o last) /\ first \o last \in Seq(InMessages)
         /\ first \in Seq(InMessages) /\ last \in Seq(InMessages)
         /\ first = IF spoken THEN Spoken(n) ELSE <<>>
         /\ last = IF ends THEN <<Message("turn.end", None)>> ELSE <<>>
  BY <1>0, ContinueShape
<1>3. inbox' = inbox \o (first \o last) /\ inbox \in Seq(InMessages) /\ Chain(inbox)
  BY <1>2 DEF ToServer, Types, WireTypes, Ordered
<1>4. ends => /\ last \in Seq(InMessages) /\ Chain(last) /\ last # <<>> /\ last[1].kind = "turn.end"
              /\ Last(last).kind = "turn.end"
  <2>1. "turn.end" \in InKinds \ {"session.reset"} /\ None \in Nat
    BY DEF InKinds, OtherKinds, None
  <2>2. QED
    BY <1>2, <2>1, OneIsChain
<1>5. spoken => /\ first \in Seq(InMessages) /\ Chain(first) /\ first # <<>>
                /\ first[1].kind = "audio" /\ first[1].turn = LastSent + 1
                /\ Last(first).kind = "audio" /\ Last(first).turn = n
  <2>1. HAVE spoken
  <2>2. first = Spoken(n)
    BY <1>2, <2>1
  <2>3. /\ first \in Seq(InMessages) /\ Len(first) = Len(pendingSilence) + 1
        /\ \A i \in 1..Len(first) : first[i].kind = "audio"
        /\ \A i \in 1..Len(pendingSilence) : first[i].turn = pendingSilence[i]
        /\ first[Len(pendingSilence) + 1].turn = n
    BY <1>0, <2>2, SpokenShape
  <2>4. \A i \in 1..Len(pendingSilence) : pendingSilence[i] = LastSent + i
    BY DEF Ordered, Told
  <2>5. \A i \in 1..Len(first) : first[i].turn = n - Len(first) + i
    <3> SUFFICES ASSUME NEW i \in 1..Len(first) PROVE first[i].turn = n - Len(first) + i
      OBVIOUS
    <3>1. CASE i = Len(pendingSilence) + 1
      BY <1>0, <2>3, <3>1
    <3>2. CASE i # Len(pendingSilence) + 1
      <4>1. i \in 1..Len(pendingSilence) /\ i \in Nat
        BY <1>0, <2>3, <3>2
      <4>2. first[i].turn = LastSent + i
        BY <2>3, <2>4, <4>1
      <4>3. LastSent = n - Len(first) /\ LastSent + i = n - Len(first) + i
        BY <1>0, <2>3, <4>1 DEF LastSent
      <4>4. QED
        BY <4>2, <4>3
    <3>3. QED
      BY <3>1, <3>2
  <2>6. ChunksUpTo(first, n)
    BY <2>3, <2>5 DEF ChunksUpTo
  <2>7. first # <<>>
    BY <1>0, <2>3, EmptySeq
  <2>8. QED
    BY <1>0, <2>3, <2>6, <2>7, ChunksAreChain DEF LastSent
<1>6. /\ inbox = <<>> => Fresh \/ (speechStarted /\ Last(pcm[activeTurn]) = LastSent)
      /\ inbox # <<>> => \/ Last(inbox).kind = "turn.start" /\ ~speechStarted
                         \/ Last(inbox).kind = "audio" /\ speechStarted /\ Last(inbox).turn = LastSent
  BY DEF Ordered, Told
<1>7. (~speechStarted => pendingSilence = <<>>)'
  BY <1>1 DEF Ordered, Told
<1>8. CASE ~spoken /\ ~ends
  <2>1. inbox' = inbox
    BY <1>2, <1>3, <1>8, ConcatEmptySeq, EmptySeq
  <2>2. Expected' /\ Silent' /\ Chain(inbox')
    BY <1>1, <1>8, <2>1 DEF Ordered, Expected, Silent, Fresh
  <2>3. CASE speechStarted
    <3>1. /\ pendingSilence' = Append(pendingSilence, n) /\ speechStarted' = TRUE /\ turnActive' = TRUE
      BY <1>1, <1>8, <2>3
    <3>2. /\ Len(pendingSilence') = Len(pendingSilence) + 1
          /\ \A i \in 1..Len(pendingSilence) : pendingSilence'[i] = pendingSilence[i]
          /\ pendingSilence'[Len(pendingSilence) + 1] = n
      BY <1>0, <3>1, AppendProperties
    <3>3. LastSent' = LastSent /\ LastSent + (Len(pendingSilence) + 1) = n
      BY <1>0, <3>2 DEF LastSent
    <3>4. \A i \in 1..Len(pendingSilence) : pendingSilence[i] = LastSent + i
      BY DEF Ordered, Told
    <3>5. \A i \in 1..Len(pendingSilence') : pendingSilence'[i] = LastSent' + i
      BY <1>0, <3>2, <3>3, <3>4
    <3>6. Told'
      BY <1>1, <1>6, <1>7, <2>1, <3>1, <3>3, <3>5 DEF Told, Fresh
    <3>7. QED
      BY <2>2, <3>6 DEF Ordered
  <2>4. CASE ~speechStarted
    <3>1. pendingSilence' = pendingSilence /\ speechStarted' = FALSE /\ turnActive' = TRUE
      BY <1>1, <1>8, <2>4 DEF Types, ClientTypes
    <3>2. pendingSilence' = <<>> /\ Len(pendingSilence') = 0
      BY <1>7, <3>1, EmptySeq
    <3>3. Told'
      BY <1>1, <1>6, <2>1, <2>4, <3>1, <3>2 DEF Told, Fresh
    <3>4. QED
      BY <2>2, <3>3 DEF Ordered
  <2>5. QED
    BY <2>3, <2>4
<1>9. CASE spoken
  <2>1. inbox # <<>> => May(Last(inbox), first[1])
    BY <1>5, <1>6, <1>9 DEF May
  <2> DEFINE mid == inbox \o first
  <2>2. /\ mid \in Seq(InMessages) /\ Chain(mid) /\ mid # <<>> /\ Last(mid) = Last(first)
        /\ mid[1] = IF inbox = <<>> THEN first[1] ELSE inbox[1]
        /\ \A kind : (\E i \in 1..Len(inbox) : inbox[i].kind = kind)
              => \E i \in 1..Len(mid) : mid[i].kind = kind
    BY <1>3, <1>5, <1>9, <2>1, ChainJoins
  <2>3. inbox' = mid \o last
    <3>1. (inbox \o first) \o last = inbox \o (first \o last)
      <4>1. inbox \in Seq(InMessages) /\ first \in Seq(InMessages) /\ last \in Seq(InMessages)
        BY <1>2, <1>3
      <4>2. QED
        BY <4>1, Regrouped
    <3>2. QED
      BY <1>3, <3>1
  <2> HIDE DEF mid
  <2>4. CASE ends
    <3>1. May(Last(mid), last[1])
      BY <1>4, <1>5, <1>9, <2>2, <2>4 DEF May
    <3>2. /\ Chain(inbox') /\ inbox' # <<>> /\ Last(inbox') = Last(last) /\ inbox'[1] = mid[1]
      BY <1>4, <2>2, <2>3, <2>4, <3>1, ChainJoins
    <3>3. Expected'
      BY <1>1, <1>5, <1>6, <1>9, <2>2, <3>2 DEF Ordered, Expected, Fresh
    <3>4. Told'
      BY <1>1, <1>4, <1>7, <2>4, <3>2 DEF Told
    <3>5. Silent'
      BY <1>1, <2>4 DEF Silent
    <3>6. QED
      BY <3>2, <3>3, <3>4, <3>5 DEF Ordered
  <2>5. CASE ~ends
    <3>1. inbox' = mid
      BY <1>2, <2>2, <2>3, <2>5, ConcatEmptySeq
    <3>2. Expected'
      BY <1>1, <1>5, <1>6, <1>9, <2>2, <3>1 DEF Ordered, Expected, Fresh
    <3>3. Told'
      <4>1. pendingSilence' = <<>> /\ Len(pendingSilence') = 0 /\ LastSent' = n
        BY <1>0, <1>1, <1>9, EmptySeq DEF LastSent
      <4>2. \A i \in 1..Len(pendingSilence') : pendingSilence'[i] = LastSent' + i
        BY <4>1
      <4>3. turnActive' = TRUE /\ speechStarted' = TRUE
        BY <1>1, <1>9, <2>5
      <4>4. inbox' # <<>> /\ Last(inbox').kind = "audio" /\ Last(inbox').turn = LastSent'
        BY <1>5, <1>9, <2>2, <3>1, <4>1
      <4>5. QED
        BY <4>2, <4>3, <4>4 DEF Told
    <3>4. Silent'
      BY <1>1, <2>2, <2>5, <3>1 DEF Silent, Ordered
    <3>5. QED
      BY <2>2, <3>1, <3>2, <3>3, <3>4 DEF Ordered
  <2>6. QED
    BY <2>4, <2>5
<1>10. CASE ~spoken /\ ends
  <2>1. inbox' = inbox \o last
    BY <1>2, <1>3, <1>10, ConcatEmptySeq
  <2>2. inbox # <<>> => May(Last(inbox), last[1])
    BY <1>4, <1>6, <1>10 DEF May
  <2>3. /\ Chain(inbox') /\ inbox' # <<>> /\ Last(inbox') = Last(last)
        /\ inbox'[1] = IF inbox = <<>> THEN last[1] ELSE inbox[1]
    BY <1>3, <1>4, <1>10, <2>1, <2>2, ChainJoins
  <2>4. Expected'
    BY <1>1, <1>4, <1>10, <2>3 DEF Ordered, Expected, Fresh
  <2>5. Told' /\ Silent'
    BY <1>1, <1>4, <1>7, <1>10, <2>3 DEF Told, Silent
  <2>6. QED
    BY <2>3, <2>4, <2>5 DEF Ordered
<1>11. QED
  BY <1>8, <1>9, <1>10

-----------------------------------------------------------------------------
(* Who sends, and when *)

\* The server's tasks leave what the client has sent, and begin no reply.
LEMMA TasksKeepOrder ==
  ASSUME Types, Ordered, NEW t \in Turns, Tasks(t), UNCHANGED client
  PROVE  Ordered' /\ UNCHANGED <<inbox, activeTurn, pcm, socket>>
<1>1. UNCHANGED <<inbox, activeTurn, pcm, socket>>
  BY DEF Tasks, RunReply, AgentDelta, StreamEnds, AgentFails, Fails, SpeechOver, Resume, Opens,
         OpenFails, Chunk, FinalAudio, DropEnds, AudioEnds, Speech, wire, connection
<1>2. UNCHANGED <<heard, turnActive, speechStarted, pendingSilence>>
  BY DEF client, detection
<1>3. (\A u \in Turns : reply[u] \in Resting) => reply' = reply
  BY TaskMoves
<1>4. QED
  BY <1>1, <1>2, <1>3 DEF Ordered, Expected, Told, Silent, Fresh, LastSent

\* Messages of the client that the order is not about.
LEMMA IdlingKeepsOrder ==
  ASSUME Ordered, UNCHANGED <<inbox, activeTurn, pcm, reply, heard, turnActive, speechStarted,
                              pendingSilence>>
  PROVE  Ordered'
BY DEF Ordered, Expected, Told, Silent, Fresh, LastSent

\* A chunk heard outside of a turn.
LEMMA QuietKeepsOrder ==
  ASSUME Types, Ordered, ServerRests, ~turnActive,
         UNCHANGED <<inbox, turnActive, speechStarted, pendingSilence>>
  PROVE  Ordered'
<1>1. UNCHANGED <<activeTurn, pcm, reply>>
  BY DEF ServerRests, connection
<1>2. QED
  BY <1>1 DEF Ordered, Expected, Told, Silent, Fresh

\* One chunk at a time reaches the detection.
LEMMA HearingKeepsOrder ==
  ASSUME Types, Dictating, NEW level \in Levels, Hear(level)
  PROVE  Dictating'
<1> DEFINE n == Len(heard) + 1
<1>0. ServerRests /\ UNCHANGED <<socket, device, waiting>>
  <2>1. ServerRests
    BY ClientRests
  <2>2. QED
    BY <2>1 DEF Hear
<1>1. /\ device = "pi" /\ Open /\ mic = "idle" /\ heard' = Append(heard, level)
  BY DEF Hear
<1>2. Ordered /\ SpeechIsWhole /\ waiting = NoMessage
  BY <1>1 DEF Dictating
<1>3. Len(heard) \in Nat /\ n \in Nat /\ Len(heard') = n
  BY <1>1, LenProperties, AppendProperties DEF Types, ClientTypes
<1>4. SpeechIsWhole'
  BY <1>0, <1>2 DEF SpeechIsWhole, ServerRests, connection
<1>5. PICK speaking \in Speaking(level) :
        \/ /\ turnActive
           /\ \E ends \in BOOLEAN :
                ContinueTurn(n, speaking, speaking /\ level # "quiet", ends)
           /\ UNCHANGED <<preroll, mic, player>>
        \/ /\ ~turnActive
           /\ userSpeaking' = speaking
           /\ IF speaking /\ ~userSpeaking
              THEN BeginTurn(n)
              ELSE UNCHANGED <<inbox, preroll, turnActive, speechStarted, pendingSilence,
                               mic, player>>
  BY DEF Hear
<1>6. Ordered' /\ (mic' = "stopping" => ~turnActive')
  <2>1. CASE turnActive
    <3>1. PICK ends \in BOOLEAN : ContinueTurn(n, speaking, speaking /\ level # "quiet", ends)
      BY <1>5, <2>1
    <3>2. mic' = "idle"
      BY <1>1, <1>5, <2>1
    <3>3. PICK k : k = n
      OBVIOUS
    <3>4. PICK spoken \in BOOLEAN : spoken = (speaking /\ level # "quiet")
      OBVIOUS
    <3>5. ContinueTurn(k, speaking, spoken, ends) /\ k = Len(heard) + 1 /\ Len(heard') = k
      BY <1>3, <3>1, <3>3, <3>4
    <3>6. Ordered'
      BY <1>0, <1>2, <2>1, <3>5, ContinuingKeepsOrder
    <3>7. QED
      BY <3>2, <3>6
  <2>2. CASE ~turnActive /\ ~(speaking /\ ~userSpeaking)
    BY <1>0, <1>1, <1>2, <1>5, <2>2, QuietKeepsOrder
  <2>3. CASE ~turnActive /\ speaking /\ ~userSpeaking /\ Interrupting
    <3>1. BeginTurn(n)
      BY <1>5, <2>3
    <3>2. UNCHANGED <<inbox, turnActive, speechStarted, pendingSilence>>
      BY <2>3, <3>1 DEF BeginTurn
    <3>3. QED
      BY <1>0, <1>2, <2>3, <3>2, QuietKeepsOrder
  <2>4. CASE ~turnActive /\ speaking /\ ~userSpeaking /\ ~Interrupting
    <3>1. StartTurn(n, <<>>) /\ mic' = mic
      BY <1>5, <2>4 DEF BeginTurn
    <3>2. PICK k : k = n
      OBVIOUS
    <3>3. PICK before : before = <<>>
      OBVIOUS
    <3>4. StartTurn(k, before) /\ k \in Nat /\ k = Len(heard') /\ before \in Beginnings
      BY <1>3, <3>1, <3>2, <3>3 DEF Beginnings
    <3>5. Ordered'
      BY <1>0, <1>2, <2>4, <3>4, BeginningKeepsOrder
    <3>6. QED
      BY <1>1, <3>1, <3>5
  <2>5. QED
    BY <2>1, <2>2, <2>3, <2>4
<1>7. QED
  BY <1>0, <1>1, <1>2, <1>4, <1>6 DEF Dictating

\* No step breaks the order in which a pi speaks.
LEMMA DictatingKept ==
  ASSUME Types, Turning, Dictating, Next
  PROVE  Dictating'
<1>1. CASE ServerNext /\ UNCHANGED client
  <2>1. UNCHANGED <<device, mic, turnActive, waiting>>
    BY <1>1 DEF client, detection, reading
  <2>2. /\ (waiting # NoMessage => mic = "stopping")'
        /\ (mic = "stopping" => ~turnActive /\ device = "pi")'
        /\ (turnActive => device = "pi")'
    BY <2>1 DEF Dictating, NoMessage
  <2>3. SUFFICES (device = "gone" => ~Open)' /\ SpeechIsWhole' /\ (device = "pi" /\ Open => Ordered)'
    BY <2>2 DEF Dictating
  <2>4. CASE Handle
    <3>1. Open /\ socket' = socket
      BY <2>4 DEF Handle, HandleHello, HandleInterrupt, HandleStart, HandleAudio, HandleEnd,
                  HandleReset, Receives
    <3>2. CASE device = "pi"
      <4>1. Ordered' /\ SpeechIsWhole'
        BY <1>1, <2>4, <3>1, <3>2, HandlingKeepsOrder DEF Dictating
      <4>2. QED
        BY <2>1, <3>2, <4>1
    <3>3. CASE device # "pi"
      BY <2>1, <3>1, <3>3 DEF Dictating, Open, SpeechIsWhole
    <3>4. QED
      BY <3>2, <3>3
  <2>5. CASE LoopEnds \/ RecogniserFails \/ Disconnect
    <3>1. ~Open' /\ pcm' = pcm
      BY <2>5 DEF LoopEnds, RecogniserFails, Disconnect, Open, connection
    <3>2. QED
      BY <2>1, <3>1 DEF Dictating, SpeechIsWhole
  <2>6. CASE Drop
    <3>1. UNCHANGED <<inbox, socket, activeTurn, pcm, reply>>
      BY <2>6 DEF Drop, wire, connection
    <3>2. Ordered => Ordered'
      BY <1>1, <3>1, IdlingKeepsOrder DEF client, detection
    <3>3. QED
      BY <2>1, <3>1, <3>2 DEF Dictating, Open, SpeechIsWhole
  <2>7. ASSUME NEW t \in Turns, Tasks(t)
        PROVE  (device = "gone" => ~Open)' /\ SpeechIsWhole' /\ (device = "pi" /\ Open => Ordered)'
    <3>1. UNCHANGED <<inbox, activeTurn, pcm, socket>>
      BY <2>7 DEF Tasks, RunReply, AgentDelta, StreamEnds, AgentFails, Fails, SpeechOver, Resume, Opens,
                  OpenFails, Chunk, FinalAudio, DropEnds, AudioEnds, Speech, wire, connection
    <3>2. Ordered => Ordered'
      BY <1>1, <2>7, TasksKeepOrder
    <3>3. QED
      BY <2>1, <3>1, <3>2 DEF Dictating, Open, SpeechIsWhole
  <2>8. QED
    BY <1>1, <2>4, <2>5, <2>6, <2>7 DEF ServerNext
<1>2. CASE \E level \in Levels : Hear(level)
  BY <1>2, HearingKeepsOrder
<1>3. ASSUME Read \/ StopReturns \/ PlayedOut \/ ConnectionOver \/ SendOther
      PROVE  UNCHANGED <<socket, activeTurn, pcm, reply>>
  <2>1. ServerRests
    BY <1>3, ClientRests
  <2>2. QED
    BY <1>3, <2>1 DEF ServerRests, connection, Read, StopReturns, PlayedOut, ConnectionOver, SendOther,
                      server, wire
<1>4. CASE Read
  <2>1. UNCHANGED <<device, mic, turnActive, inbox, heard, speechStarted, pendingSilence>>
    BY <1>4 DEF Read, detection
  <2>2. waiting' # NoMessage => mic = "stopping"
    BY <1>4 DEF Read
  <2>3. Ordered => Ordered'
    BY <1>3, <1>4, <2>1, IdlingKeepsOrder
  <2>4. QED
    BY <1>3, <1>4, <2>1, <2>2, <2>3 DEF Dictating, Open, SpeechIsWhole, NoMessage
<1>5. CASE StopReturns
  <2>1. /\ mic = "stopping" /\ Open /\ mic' = "idle" /\ heard' = heard /\ waiting' = NoMessage
        /\ device' = device /\ StartTurn(Len(heard), <<Message("interrupt", None)>>)
    BY <1>5 DEF StopReturns
  <2>2. device = "pi" /\ ~turnActive /\ Ordered /\ SpeechIsWhole
    BY <2>1 DEF Dictating
  <2>3. Len(heard) \in Nat
    BY LenProperties DEF Types, ClientTypes
  <2>4. PICK n : n = Len(heard)
    OBVIOUS
  <2>5. PICK before : before = <<Message("interrupt", None)>>
    OBVIOUS
  <2>6. n \in Nat /\ n = Len(heard') /\ before \in Beginnings /\ StartTurn(n, before)
    BY <2>1, <2>3, <2>4, <2>5 DEF Beginnings
  <2>7. ServerRests
    BY <1>5, ClientRests
  <2>8. Ordered'
    BY <2>2, <2>6, <2>7, BeginningKeepsOrder
  <2>9. QED
    BY <1>3, <1>5, <2>1, <2>2, <2>8 DEF Dictating, Open, SpeechIsWhole, NoMessage
<1>6. CASE PlayedOut
  <2>1. UNCHANGED <<device, mic, turnActive, waiting, inbox, heard, speechStarted, pendingSilence>>
    BY <1>6 DEF PlayedOut, server, wire, detection
  <2>2. Ordered => Ordered'
    BY <1>3, <1>6, <2>1, IdlingKeepsOrder
  <2>3. QED
    BY <1>3, <1>6, <2>1, <2>2 DEF Dictating, Open, SpeechIsWhole, NoMessage
<1>7. CASE ConnectionOver
  <2>1. ~Open /\ device' = "gone" /\ turnActive' = FALSE /\ mic' = "idle" /\ waiting' = NoMessage
    BY <1>7 DEF ConnectionOver
  <2>2. QED
    BY <1>3, <1>7, <2>1 DEF Dictating, Open, SpeechIsWhole, NoMessage
<1>8. CASE SendOther
  <2>1. device = "other" /\ Open /\ UNCHANGED <<device, mic, turnActive, waiting>>
    BY <1>8 DEF SendOther, detection, reading
  <2>2. QED
    BY <1>3, <1>8, <2>1 DEF Dictating, Open, SpeechIsWhole, NoMessage
<1>9. QED
  BY <1>1, <1>2, <1>4, <1>5, <1>6, <1>7, <1>8 DEF Next

-----------------------------------------------------------------------------
(* The theorems *)

\* The invariant holds at first.
LEMMA InitInv == Init => IInv
<1> SUFFICES ASSUME Init PROVE IInv
  OBVIOUS
<1>0. /\ MaxTurns \in Nat /\ MaxResets \in Nat /\ MaxDeltas \in Nat /\ MaxChunks \in Nat
      /\ Turns = 1..MaxTurns /\ None = 0 /\ 0 \in 0..MaxTurns /\ 1 \in 1..(MaxChunks + 1)
      /\ 0 \in Sessions /\ NoMessage \in OutMessages /\ NoMessage.kind = "none"
  BY Bounds, MessageTyped DEF Turns, None, Sessions, NoMessage, OutKinds
<1>1. /\ socket = "open" /\ outbox = <<>> /\ loop = "idle" /\ session = 0 /\ activeTurn = 0
      /\ replyTask = 0 /\ turns = 0 /\ conversation = [t \in Turns |-> 0] /\ collecting = 0
      /\ pcm = [t \in Turns |-> <<>>] /\ reply = [t \in Turns |-> "none"]
      /\ speech = [t \in Turns |-> "none"] /\ deltas = [t \in Turns |-> 0] /\ fed = {} /\ sounded = {}
      /\ ttsSocket = "none" /\ history = [s \in Sessions |-> <<>>] /\ prior = [t \in Turns |-> <<>>]
      /\ record = [t \in Turns |-> "none"] /\ cancelled = {}
  BY <1>0 DEF Init, ServerInit
<1>2. /\ device \in {"pi", "other"} /\ heard = <<>> /\ preroll = 1 /\ pendingSilence = <<>>
      /\ turnActive = FALSE /\ userSpeaking = FALSE /\ speechStarted = FALSE /\ mic = "idle"
      /\ waiting = NoMessage
      /\ player = [state |-> "none", of |-> 0, sounds |-> {}]
      /\ inbox = IF device = "pi" THEN <<Message("hello", None)>> ELSE <<>>
  BY <1>0, ClientAssumption DEF Init, NoPlayer
<1>3. /\ inbox \in Seq(InMessages) /\ Chain(inbox)
      /\ device = "pi" => inbox # <<>> /\ inbox[1].kind = "hello" /\ Last(inbox).kind = "hello"
  <2>1. CASE device = "pi"
    <3>1. "hello" \in InKinds \ {"session.reset"} /\ None \in Nat
      BY <1>0 DEF InKinds, OtherKinds
    <3>2. QED
      BY <1>2, <2>1, <3>1, OneIsChain
  <2>2. CASE device # "pi"
    <3>1. inbox = <<>> /\ Len(inbox) = 0
      BY <1>2, <2>2, EmptySeq
    <3>2. QED
      BY <2>2, <3>1 DEF Chain
  <2>3. QED
    BY <2>1, <2>2
<1>4. Len(outbox) = 0 /\ Len(heard) = 0 /\ Len(pendingSilence) = 0
  BY <1>1, <1>2, EmptySeq
<1>5. Types
  <2>1. WireTypes
    BY <1>1, <1>3 DEF WireTypes
  <2>2. TurnTypes
    BY <1>0, <1>1 DEF TurnTypes
  <2>3. TaskTypes
    BY <1>0, <1>1 DEF TaskTypes
  <2>4. FileTypes
    BY <1>0, <1>1 DEF FileTypes
  <2>5. ClientTypes
    <3>1. heard \in Seq(Levels) /\ Len(heard) <= MaxChunks
      BY <1>0, <1>2, <1>4
    <3>2. player \in [state : {"none", "open", "ended"}, of : 0..MaxTurns, sounds : SUBSET Turns]
      BY <1>0, <1>2
    <3>3. pendingSilence \in Seq(Nat)
      BY <1>2
    <3>4. /\ device \in {"pi", "other", "gone"} /\ waiting \in OutMessages
          /\ mic \in {"idle", "stopping"}
          /\ preroll \in 1..(MaxChunks + 1)
          /\ turnActive \in BOOLEAN /\ userSpeaking \in BOOLEAN /\ speechStarted \in BOOLEAN
      BY <1>0, <1>2
    <3>5. QED
      BY <3>1, <3>2, <3>3, <3>4 DEF ClientTypes
  <2>6. QED
    BY <2>1, <2>2, <2>3, <2>4, <2>5 DEF Types
<1>6. Turning /\ Recording /\ Remembering
  BY <1>0, <1>1 DEF Turning, Recording, Recorded, Remembering, Resting, Open, SpeechRuns
<1>7. Pos = {0} /\ At(0) = waiting
  BY <1>4 DEF Pos, At
<1>8. Playing
  BY <1>0, <1>1, <1>2, <1>7 DEF Playing, PlayerHearsOneReply, Begun, Answering
<1>9. Closing
  BY <1>0, <1>1 DEF Closing, Over
<1>10. Ordered
  <2>1. Expected /\ Silent
    BY <1>1, <1>2, <1>3, <1>0 DEF Expected, Silent, Fresh, Resting
  <2>2. device = "pi" => Told
    BY <1>2, <1>3 DEF Told
  <2>3. device # "pi" => Told
    BY <1>0, <1>1, <1>2 DEF Told
  <2>4. QED
    BY <1>3, <2>1, <2>2, <2>3 DEF Ordered
<1>11. SpeechIsWhole
  <2> SUFFICES ASSUME NEW t \in Turns, NEW i \in 1..(Len(pcm[t]) - 1) PROVE FALSE
    BY DEF SpeechIsWhole
  <2>1. pcm[t] = <<>> /\ Len(pcm[t]) = 0
    BY <1>1, EmptySeq
  <2>2. QED
    BY <2>1
<1>12. Dictating
  BY <1>2, <1>10, <1>11 DEF Dictating
<1>13. QED
  BY <1>5, <1>6, <1>8, <1>9, <1>12 DEF IInv

\* A stutter changes nothing of it.
LEMMA StutterKeeps == IInv /\ UNCHANGED vars => IInv'
<1> SUFFICES ASSUME IInv, UNCHANGED vars PROVE IInv'
  OBVIOUS
<1>1. UNCHANGED <<socket, inbox, outbox, loop, session, activeTurn, replyTask, turns, conversation,
                  collecting, pcm, reply, speech, deltas, fed, sounded, ttsSocket, history, prior,
                  record, cancelled, device, heard, preroll, turnActive, userSpeaking, speechStarted,
                  pendingSilence, mic, waiting, player>>
  BY DEF vars, server, client, wire, connection, texts, memory, files, detection, reading
<1>2. Types' /\ Turning' /\ Recording' /\ Remembering'
  BY <1>1 DEF IInv, Types, WireTypes, TurnTypes, TaskTypes, FileTypes, ClientTypes, Turning, Recording,
              Recorded, Remembering, SpeechRuns, Open
<1>3. Playing' /\ Closing'
  <2>1. Types /\ Playing /\ Closing
    BY DEF IInv
  <2>2. /\ \A t \in Turns : Begun(t) => Begun(t)'
        /\ \A t \in Turns : Open' /\ Over(t)' => Over(t)
        /\ Open' => Open
    BY <1>1 DEF Begun, Over, Open
  <2>3. Playing'
    BY <1>1, <2>1, <2>2, NothingSentKeepsPlaying
  <2>4. Closing'
    BY <1>1, <2>1, <2>2, NothingSentKeepsClosing
  <2>5. QED
    BY <2>3, <2>4
<1>4. Dictating'
  BY <1>1, IdlingKeepsOrder DEF IInv, Dictating, SpeechIsWhole, Open
<1>5. QED
  BY <1>2, <1>3, <1>4 DEF IInv

\* Every step keeps it.
LEMMA NextKeeps == IInv /\ [Next]_vars => IInv'
<1>1. ASSUME IInv, Next
      PROVE  IInv'
  <2>1. Types' /\ Turning' /\ Recording'
    BY <1>1, TypesKept, TurningKept, RecordingKept DEF IInv
  <2>2. Remembering' /\ Playing' /\ Closing' /\ Dictating'
    BY <1>1, RememberingKept, PlayingKept, ClosingKept, DictatingKept DEF IInv
  <2>3. QED
    BY <2>1, <2>2 DEF IInv
<1>2. QED
  BY <1>1, StutterKeeps

\* So it always holds.
LEMMA Invariance == Spec => []IInv
<1>1. Init => IInv
  BY InitInv
<1>2. IInv /\ [Next]_vars => IInv'
  BY NextKeeps
<1>3. QED
  BY <1>1, <1>2, PTL DEF Spec

\* Every variable of the connection and of the client keeps its type.
THEOREM VoiceTypes == Spec => []TypeOK
<1>1. IInv => TypeOK
  BY DEF IInv, Types, WireTypes, TurnTypes, TaskTypes, FileTypes, ClientTypes, TypeOK
<1>2. QED
  BY <1>1, Invariance, PTL

\* _run_reply cut at any of its awaits never leaves a reply.json that claims an
\* answer: Recording.
THEOREM CancelledAreNotAnswered == Spec => []CancelledIsNotAnswered
<1>1. IInv => CancelledIsNotAnswered
  <2> SUFFICES ASSUME IInv, NEW t \in cancelled PROVE record[t] # "reply"
    BY DEF CancelledIsNotAnswered
  <2>1. t \in Turns
    BY Bounds DEF IInv, Types, FileTypes, TurnTypes, Turns
  <2>2. QED
    BY <2>1 DEF IInv, Recording, Recorded
<1>2. QED
  BY <1>1, Invariance, PTL

\* No two replies sound from one player of the client, except that the speech of a
\* reply whose agent failed may: Playing.
THEOREM PlayersHearOneReply == Spec => []PlayerHearsOneReply
<1>1. IInv => PlayerHearsOneReply
  BY DEF IInv, Playing
<1>2. QED
  BY <1>1, Invariance, PTL

\* When the interrupt and the turn.start of the user have been handled and the
\* client has read the answers, no player is being fed, except by a reply whose agent
\* failed: Turning, Closing and Dictating together.
THEOREM NobodyTalksOver == Spec => []UserIsNotTalkedOver
<1>1. IInv => UserIsNotTalkedOver
  <2> SUFFICES ASSUME IInv, Open, turnActive, outbox = <<>>,
                      \A i \in DOMAIN inbox : inbox[i].kind \notin {"interrupt", "turn.start"},
                      player.state = "open"
               PROVE  record[player.of] = "error"
    BY DEF UserIsNotTalkedOver
  <2>1. device = "pi" /\ waiting = NoMessage /\ Silent
    BY DEF IInv, Dictating, Ordered
  <2>2. DOMAIN inbox = 1..Len(inbox)
    BY LenProperties DEF IInv, Types, WireTypes
  <2>3. \A t \in Turns : reply[t] \in Resting
    BY <2>1, <2>2 DEF Silent
  <2>4. player.of \in Turns /\ reply[player.of] = "done"
    BY <2>3 DEF IInv, Playing, Begun, Resting
  <2>5. Pos = {0} /\ At(0) = waiting
    <3>1. Len(outbox) = 0
      BY EmptySeq
    <3>2. QED
      BY <3>1 DEF Pos, At
  <2>6. ~Closed(player.of)
    <3>1. waiting.kind = "none"
      BY <2>1 DEF NoMessage, Message
    <3>2. QED
      BY <2>5, <3>1 DEF Closed, Closer
  <2>7. QED
    BY <2>4, <2>6 DEF IInv, Closing, Over
<1>2. QED
  BY <1>1, Invariance, PTL

\* The audio a pi sends for a turn reaches the recogniser without hole or
\* repetition, preroll and held back pauses included: Dictating.
THEOREM SpeechStaysWhole == Spec => []SpeechIsWhole
<1>1. IInv => SpeechIsWhole
  BY DEF IInv, Dictating
<1>2. QED
  BY <1>1, Invariance, PTL

\* psfn_streaming.py writes back a list it has read before the stream, and loses no
\* exchange by it: Remembering.
THEOREM HistoriesGrow == Spec => HistoryKeepsExchanges
<1>1. IInv /\ [Next]_vars => [\A s \in Sessions : IsPrefix(history[s], history'[s])]_vars
  <2> SUFFICES ASSUME IInv, Next, NEW s \in Sessions PROVE IsPrefix(history[s], history'[s])
    OBVIOUS
  <2>1. QED
    BY HistoryGrows DEF IInv
<1>2. QED
  BY <1>1, Invariance, PTL DEF Spec, HistoryKeepsExchanges
=============================================================================
