---------------------- MODULE RealtimeConnectionProofs ----------------------
(***************************************************************************)
(* Proofs about RealtimeConnection, for any frames, sessions and bounds.   *)
(***************************************************************************)
EXTENDS RealtimeConnection, SequenceTheorems, TLAPS

USE ConnectionAssumption DEF Links, None

-----------------------------------------------------------------------------
(* Type correctness *)

EventRecords == FrameRecords \union {SttRecord(k) : k \in SttKinds}

\* The locals a reply begins with, and what is kept of them, are well typed.
LEMMA LocalsType ==
  ASSUME NEW id \in Nat, NEW turn \in {None} \union Links,
         NEW agent \in {"off", "streaming", "ended", "failed"},
         NEW audio \in {"off", "waiting", "connecting", "speaking", "done", "failed"}
  PROVE  Locals(id, turn, agent, audio) \in Replies
<1>1. <<>> \in Seq(BOOLEAN) /\ 0 \in 0..MaxDeltas
  BY EmptySeq
<1>2. QED
  BY <1>1 DEF Locals, Replies

\* So are the locals of a handler that has not started.
LEMMA NoReplyType == NoReply \in Replies
  BY LocalsType DEF NoReply

\* Nothing has happened on a fresh connection.
LEMMA InitType == Init => TypeOK
<1> SUFFICES ASSUME Init
             PROVE  TypeOK
  OBVIOUS
<1>1. /\ <<>> \in Seq(Awaiting)
      /\ <<>> \in Seq(Greetings)
      /\ <<>> \in Seq(FrameRecords \union {SttRecord(k) : k \in SttKinds})
      /\ <<>> \in Seq(Entries)
  BY EmptySeq
<1>2. history \in [Sessions -> Seq(Entries)]
  BY <1>1 DEF Init, Fresh
<1>3. reply \in [Links -> Replies]
  BY NoReplyType DEF Init, Fresh
<1>4. stage \in [Links -> Stages] /\ outcome \in [Links -> Outcomes]
  BY DEF Init, Fresh, Stages, Outcomes
<1>5. /\ awaiting \in Seq(Awaiting)
      /\ welcome \in Seq(Greetings)
      /\ messageChain \in Seq(FrameRecords \union {SttRecord(k) : k \in SttKinds})
  BY <1>1 DEF Init, Fresh
<1>6. QED
  BY <1>2, <1>3, <1>4, <1>5 DEF Init, Fresh, TypeOK

\* The greeting's announcement, sent or dropped, keeps the greeting well typed.
LEMMA AwaitIdentityType ==
  ASSUME TypeOK, NEW g \in Awaiting, AwaitIdentity(g)
  PROVE  /\ identityTask' \in {"null", "loading", "known"}
         /\ awaiting' \in Seq(Awaiting)
         /\ welcome' \in Seq(Greetings)
<1>0. awaiting \in Seq(Awaiting) /\ welcome \in Seq(Greetings)
  BY DEF TypeOK
<1>1. Announcement(g) \in Greetings
  BY DEF Announcement, Greetings, Awaiting
<1>2. welcome \o <<Announcement(g)>> \in Seq(Greetings)
  BY <1>0, <1>1
<1>3. CASE identityTask = "known"
  <2>1. welcome' \in Seq(Greetings)
    BY <1>0, <1>2, <1>3 DEF AwaitIdentity, Greet
  <2>2. QED
    BY <1>0, <1>3, <2>1 DEF AwaitIdentity
<1>4. CASE identityTask # "known"
  <2>1. awaiting' \in Seq(Awaiting)
    BY <1>0, <1>4 DEF AwaitIdentity
  <2>2. QED
    BY <1>0, <1>4, <2>1 DEF AwaitIdentity
<1>5. QED
  BY <1>3, <1>4

\* Of a sequence with one more entry, the newest ones remain: at least one.
LEMMA NewestAppended ==
  ASSUME NEW h \in Seq(Entries), NEW e \in Entries
  PROVE  LET k == Newest(Append(h, e))
         IN  /\ k \in Seq(Entries)
             /\ Len(k) \in 1..(Len(h) + 1)
             /\ k[Len(k)] = e
             /\ \A i \in 1..(Len(k) - 1) : k[i] = h[i + (Len(h) + 1 - Len(k))]
<1> DEFINE a == Append(h, e)
           first == IF Len(a) > MaxMessages THEN Len(a) - MaxMessages + 1 ELSE 1
           k == SubSeq(a, first, Len(a))
<1>1. /\ a \in Seq(Entries) /\ Len(a) = Len(h) + 1 /\ Len(h) \in Nat
      /\ a[Len(a)] = e
      /\ \A i \in 1..Len(h) : a[i] = h[i]
  BY AppendProperties
<1>2. MaxMessages \in Nat \ {0}
  BY ConnectionAssumption
<1> HIDE DEF a
<1>3. first \in 1..Len(a)
  BY <1>1, <1>2
<1>4. Newest(a) = k
  BY DEF Newest
<1> HIDE DEF first
<1>5. /\ k \in Seq(Entries)
      /\ Len(k) = Len(a) - first + 1
      /\ \A i \in 1..(Len(a) - first + 1) : k[i] = a[first + i - 1]
  BY <1>1, <1>3, SubSeqProperties
<1> HIDE DEF k
<1>6. Len(k) \in 1..(Len(h) + 1)
  BY <1>1, <1>3, <1>5
<1>7. k[Len(k)] = e
  BY <1>1, <1>3, <1>5
<1>8. \A i \in 1..(Len(k) - 1) : k[i] = h[i + (Len(h) + 1 - Len(k))]
  <2>1. ASSUME NEW i \in 1..(Len(k) - 1)
        PROVE  k[i] = h[i + (Len(h) + 1 - Len(k))]
    <3>1. k[i] = a[first + i - 1]
      BY <1>1, <1>3, <1>5
    <3>2. first + i - 1 = i + (Len(h) + 1 - Len(k)) /\ first + i - 1 \in 1..Len(h)
      BY <1>1, <1>3, <1>5
    <3>3. QED
      BY <1>1, <3>1, <3>2
  <2>2. QED
    BY <2>1
<1>9. QED
  BY <1>4, <1>5, <1>6, <1>7, <1>8 DEF a

\* Entering one message keeps the history well typed.
LEMMA AppendType ==
  ASSUME TypeOK, NEW n \in Links, NEW role \in {"user", "assistant"},
         append(role, n)
  PROVE  history' \in [Sessions -> Seq(Entries)]
<1>1. /\ Recorded(role, n) \in Entries
      /\ session \in Sessions
      /\ history \in [Sessions -> Seq(Entries)]
  BY DEF Recorded, Entries, TypeOK
<1>2. Newest(Append(history[session], Recorded(role, n))) \in Seq(Entries)
  BY <1>1, NewestAppended
<1>3. QED
  BY <1>1, <1>2 DEF append

\* runReply starts with well typed locals.
LEMMA BeginReplyType ==
  ASSUME TypeOK, NEW n \in Links, NEW turn \in Links, NEW bumps \in Nat,
         BeginReply(n, turn, bumps)
  PROVE  /\ history' \in [Sessions -> Seq(Entries)]
         /\ replySequence' \in Nat /\ replyAbort' \in BOOLEAN
         /\ replyTask' \in {None} \union Links
         /\ reply' \in [Links -> Replies]
         /\ stage' \in [Links -> Stages]
<1>1. /\ replySequence \in Nat
      /\ reply \in [Links -> Replies]
      /\ stage \in [Links -> Stages]
  BY DEF TypeOK
<1>2. history' \in [Sessions -> Seq(Entries)]
  <2>1. append("user", n)
    BY DEF BeginReply
  <2>2. QED
    BY <2>1, AppendType
<1>3. Locals(replySequence + bumps, turn, "streaming",
             IF audioOut THEN "waiting" ELSE "off") \in Replies
  BY <1>1, LocalsType
<1>4. reply' \in [Links -> Replies]
  BY <1>1, <1>3 DEF BeginReply
<1>5. stage' \in [Links -> Stages]
  BY <1>1 DEF BeginReply, Stages
<1>6. /\ replySequence' = replySequence + bumps
      /\ replyAbort' = FALSE
      /\ replyTask' = n
  BY DEF BeginReply
<1>7. replySequence' \in Nat
  BY <1>1, <1>6
<1>8. QED
  BY <1>2, <1>4, <1>5, <1>6, <1>7

\* A handler that ends is well typed.
LEMMA DoneType ==
  ASSUME TypeOK, NEW n \in Links, Done(n)
  PROVE  stage' \in [Links -> Stages]
<1>1. stage \in [Links -> Stages]
  BY DEF TypeOK
<1>2. QED
  BY <1>1 DEF Done, Stages

\* Arrivals only extend the chain.
LEMMA ArrivalType ==
  ASSUME TypeOK,
         \/ \E f \in Frames : ReceiveFrame(f)
         \/ \E k \in SttEvents : SttCallback(k)
  PROVE  TypeOK'
<1>1. PICK e \in EventRecords : Arrive(e) /\ interrupted' \subseteq Links
  <2>1. CASE \E f \in Frames : ReceiveFrame(f)
    <3>1. PICK f \in Frames : ReceiveFrame(f)
      BY <2>1
    <3>2. f \in EventRecords
      BY DEF EventRecords
    <3>3. interrupted' \subseteq Links
      BY <3>1 DEF ReceiveFrame, Replying, TypeOK
    <3>4. QED
      BY <3>1, <3>2, <3>3 DEF ReceiveFrame
  <2>2. CASE \E k \in SttEvents : SttCallback(k)
    <3>1. PICK k \in SttEvents : SttCallback(k)
      BY <2>2
    <3>2. SttRecord(k) \in EventRecords
      BY DEF EventRecords
    <3>3. interrupted' \subseteq Links
      BY <3>1 DEF SttCallback, TypeOK
    <3>4. QED
      BY <3>1, <3>2, <3>3 DEF SttCallback
  <2>3. QED
    BY <2>1, <2>2
<1>2. messageChain \in Seq(EventRecords)
  BY DEF TypeOK, EventRecords
<1>3. messageChain' \in Seq(EventRecords)
  BY <1>1, <1>2 DEF Arrive
<1>4. messageChain' \in Seq(FrameRecords \union {SttRecord(k) : k \in SttKinds})
  BY <1>3 DEF EventRecords
<1>5. QED
  BY <1>1, <1>4 DEF TypeOK, Arrive, world, greeting, records, flags

LEMMA OwnIsSession == OwnSession \in Sessions
  BY ConnectionAssumption

\* A link of the chain holds a frame or an STT record.
LEMMA LinkType ==
  ASSUME TypeOK, NEW n \in Links, n <= Len(messageChain)
  PROVE  messageChain[n].session \in Sessions /\ messageChain[n].audio \in BOOLEAN
<1>1. messageChain \in Seq(EventRecords)
  BY DEF TypeOK, EventRecords
<1>2. messageChain[n] \in EventRecords
  BY <1>1
<1>3. \A e \in EventRecords : e.session \in Sessions /\ e.audio \in BOOLEAN
  <2>1. \A e \in FrameRecords : e.session \in Sessions /\ e.audio \in BOOLEAN
    BY DEF FrameRecords
  <2>2. ASSUME NEW k \in SttKinds
        PROVE  SttRecord(k).session \in Sessions /\ SttRecord(k).audio \in BOOLEAN
    BY OwnIsSession DEF SttRecord
  <2>3. QED
    BY <2>1, <2>2 DEF EventRecords
<1>4. QED
  BY <1>2, <1>3

\* Every handler keeps the state well typed.
LEMMA HandleType ==
  ASSUME TypeOK, NEW n \in Links, Handle(n)
  PROVE  TypeOK'
<1> USE DEF Starts
<1>1. CASE HandleHello(n)
  <2>1. session' \in Sessions /\ audioOut' \in BOOLEAN
    BY <1>1, LinkType DEF HandleHello, CanStart
  <2>2. [kind |-> "hello.ack", session |-> session', link |-> n] \in Awaiting
    BY <2>1 DEF Awaiting
  <2>3. /\ identityTask' \in {"null", "loading", "known"}
        /\ awaiting' \in Seq(Awaiting)
        /\ welcome' \in Seq(Greetings)
    BY <1>1, <2>2, AwaitIdentityType DEF HandleHello
  <2>4. stage' \in [Links -> Stages]
    <3>1. stage \in [Links -> Stages]
      BY DEF TypeOK
    <3>2. QED
      BY <1>1, <3>1 DEF HandleHello, Stages
  <2>5. QED
    BY <1>1, <2>1, <2>3, <2>4
    DEF HandleHello, TypeOK, world, records, flags, ghosts
<1>2. CASE HandleStateless(n)
  <2>1. stage' \in [Links -> Stages]
    BY <1>2, DoneType DEF HandleStateless
  <2>2. QED
    BY <1>2, <2>1
    DEF HandleStateless, TypeOK, world, greeting, records, flags, ghosts
<1>3. CASE HandleInterrupt(n)
  <2>1. stage' \in [Links -> Stages]
    BY <1>3, DoneType DEF HandleInterrupt
  <2>2. replySequence' \in Nat /\ replyAbort' \in BOOLEAN
    BY <1>3 DEF HandleInterrupt, cancelReply, TypeOK
  <2>3. QED
    BY <1>3, <2>1, <2>2
    DEF HandleInterrupt, TypeOK, world, greeting, records, ghosts
<1>4. CASE HandleUserText(n)
  <2> DEFINE polite == messageChain[n].kind = "politeText"
  <2>1. CASE polite /\ ReplyInProgress
    <3>1. /\ Done(n)
          /\ UNCHANGED <<activeTurn, history, flags, replyTask, reply>>
      BY <1>4, <2>1 DEF HandleUserText
    <3>2. stage' \in [Links -> Stages]
      BY <3>1, DoneType
    <3>3. QED
      BY <1>4, <3>1, <3>2
      DEF HandleUserText, TypeOK, world, greeting, flags, ghosts
  <2>2. CASE ~(polite /\ ReplyInProgress)
    <3>1. DropActiveTurn /\ BeginReply(n, n, IF polite THEN 1 ELSE 2)
      BY <1>4, <2>2 DEF HandleUserText
    <3>2. (IF polite THEN 1 ELSE 2) \in Nat
      OBVIOUS
    <3>3. /\ history' \in [Sessions -> Seq(Entries)]
          /\ replySequence' \in Nat /\ replyAbort' \in BOOLEAN
          /\ replyTask' \in {None} \union Links
          /\ reply' \in [Links -> Replies]
          /\ stage' \in [Links -> Stages]
      BY <3>1, <3>2, BeginReplyType
    <3>4. QED
      BY <1>4, <3>1, <3>3
      DEF HandleUserText, DropActiveTurn, TypeOK, world, greeting, ghosts
  <2>3. QED
    BY <2>1, <2>2
<1>5. CASE HandleAudio(n)
  <2>1. stage' \in [Links -> Stages]
    BY <1>5, DoneType DEF HandleAudio
  <2>2. activeTurn' \in {None} \union Links
    BY <1>5 DEF HandleAudio, ensureActiveTurn, TypeOK
  <2>3. QED
    BY <1>5, <2>1, <2>2
    DEF HandleAudio, TypeOK, world, greeting, records, flags, ghosts
<1>6. CASE HandleInterim(n)
  <2>1. stage' \in [Links -> Stages]
    BY <1>6, DoneType DEF HandleInterim
  <2>2. activeTurn' \in {None} \union Links
    BY <1>6 DEF HandleInterim, ensureActiveTurn, TypeOK
  <2>3. QED
    BY <1>6, <2>1, <2>2
    DEF HandleInterim, TypeOK, world, greeting, records, flags, ghosts
<1>7. CASE HandleUtterance(n)
  <2> DEFINE turn == IF activeTurn = None THEN n ELSE activeTurn
  <2>1. turn \in Links
    BY DEF TypeOK
  <2>2. CASE ReplyInProgress
    <3>1. /\ outcome' = [outcome EXCEPT ![turn] = "ignored"]
          /\ Done(n)
          /\ UNCHANGED <<history, flags, replyTask, reply>>
      BY <1>7, <2>2 DEF HandleUtterance
    <3>2. stage' \in [Links -> Stages]
      BY <3>1, DoneType
    <3>3. outcome' \in [Links -> Outcomes]
      <4>1. outcome \in [Links -> Outcomes]
        BY DEF TypeOK
      <4>2. QED
        BY <3>1, <4>1 DEF Outcomes
    <3>4. QED
      BY <1>7, <3>1, <3>2, <3>3
      DEF HandleUtterance, DropActiveTurn, TypeOK, world, greeting, flags, ghosts
  <2>3. CASE ~ReplyInProgress
    <3>1. BeginReply(n, turn, 1) /\ UNCHANGED outcome
      BY <1>7, <2>3 DEF HandleUtterance
    <3>2. /\ history' \in [Sessions -> Seq(Entries)]
          /\ replySequence' \in Nat /\ replyAbort' \in BOOLEAN
          /\ replyTask' \in {None} \union Links
          /\ reply' \in [Links -> Replies]
          /\ stage' \in [Links -> Stages]
      BY <2>1, <3>1, BeginReplyType
    <3>3. QED
      BY <1>7, <3>1, <3>2
      DEF HandleUtterance, DropActiveTurn, TypeOK, world, greeting, ghosts
  <2>4. QED
    BY <2>2, <2>3
<1>8. CASE HandleRelay(n)
  <2>1. stage' \in [Links -> Stages]
    <3>1. stage \in [Links -> Stages]
      BY DEF TypeOK
    <3>2. QED
      BY <1>8, <3>1 DEF HandleRelay, Stages
  <2>2. QED
    BY <1>8, <2>1
    DEF HandleRelay, TypeOK, world, greeting, records, flags, ghosts
<1>9. QED
  BY <1>1, <1>2, <1>3, <1>4, <1>5, <1>6, <1>7, <1>8 DEF Handle

\* Leaving the delta loop, with or without a last segment, is well typed.
LEMMA LeaveDeltaLoopType ==
  ASSUME TypeOK, NEW n \in Links, LeaveDeltaLoop(n)
  PROVE  reply' \in [Links -> Replies]
<1>1. reply \in [Links -> Replies] /\ reply[n] \in Replies
  BY DEF TypeOK
<1>2. PICK speakable \in BOOLEAN :
        reply' = [reply EXCEPT
          ![n].agent = "ended",
          ![n].segments = IF reply[n].pending THEN Append(@, speakable) ELSE @,
          ![n].pending = FALSE]
  BY DEF LeaveDeltaLoop
<1>3. reply[n].segments \in Seq(BOOLEAN)
  BY <1>1 DEF Replies
<1>4. Append(reply[n].segments, speakable) \in Seq(BOOLEAN)
  BY <1>3
<1> DEFINE left == IF reply[n].pending THEN Append(reply[n].segments, speakable)
                   ELSE reply[n].segments
<1>5. left \in Seq(BOOLEAN)
  BY <1>3, <1>4
<1>6. reply' = [reply EXCEPT ![n] =
        [reply[n] EXCEPT !.agent = "ended", !.segments = left, !.pending = FALSE]]
  BY <1>1, <1>2 DEF Replies
<1> HIDE DEF left
<1>7. [reply[n] EXCEPT !.agent = "ended", !.segments = left, !.pending = FALSE]
        \in Replies
  BY <1>1, <1>5 DEF Replies
<1>8. QED
  BY <1>1, <1>6, <1>7

\* So is setting the state of the audio loop.
LEMMA SetAudioType ==
  ASSUME TypeOK, NEW n \in Links,
         NEW a \in {"off", "waiting", "connecting", "speaking", "done", "failed"},
         SetAudio(n, a)
  PROVE  reply' \in [Links -> Replies]
<1>1. reply \in [Links -> Replies]
  BY DEF TypeOK
<1>2. QED
  BY <1>1 DEF SetAudio, Replies

\* Every step of a running reply keeps the state well typed.
LEMMA ReplyType ==
  ASSUME TypeOK, NEW n \in Links, ReplyProgress(n)
  PROVE  TypeOK'
<1> DEFINE frame == /\ hub' \in {"up", "crashed"}
                    /\ stage' \in [Links -> Stages]
                    /\ outcome' \in [Links -> Outcomes]
                    /\ history' \in [Sessions -> Seq(Entries)]
                    /\ replyTask' \in {None} \union Links
                    /\ reply' \in [Links -> Replies]
<1>0. reply \in [Links -> Replies] /\ reply[n] \in Replies
  BY DEF TypeOK
<1>a. ASSUME frame, ReplyStep(n)
      PROVE  TypeOK'
  BY <1>a DEF ReplyStep, TypeOK, greeting, flags
<1>1. CASE AgentDelta(n)
  <2>1. reply' \in [Links -> Replies]
    <3>1. CASE Cancelled(n)
      BY <1>1, <3>1, LeaveDeltaLoopType DEF AgentDelta
    <3>2. CASE ~Cancelled(n)
      <4>1. PICK flushed \in Flushes, rest \in BOOLEAN :
              reply' = [reply EXCEPT
                ![n].deltas = @ + 1,
                ![n].segments = IF reply[n].audio = "off" THEN @ ELSE @ \o flushed,
                ![n].pending = reply[n].audio # "off" /\ rest]
        BY <1>1, <3>2 DEF AgentDelta
      <4>2. flushed \in Seq(BOOLEAN)
        <5>1. PICK k \in 0..MaxFlush : flushed \in [1..k -> BOOLEAN]
          BY <4>1 DEF Flushes
        <5>2. QED
          BY <5>1, SeqDef
      <4>3. reply[n].segments \in Seq(BOOLEAN)
        BY <1>0 DEF Replies
      <4> DEFINE grown == IF reply[n].audio = "off" THEN reply[n].segments
                          ELSE reply[n].segments \o flushed
                 more == reply[n].audio # "off" /\ rest
      <4>4. grown \in Seq(BOOLEAN)
        BY <4>2, <4>3, ConcatProperties
      <4>5. reply[n].deltas + 1 \in 0..MaxDeltas
        <5>1. reply[n].deltas \in 0..MaxDeltas
          BY <1>0 DEF Replies
        <5>2. reply[n].deltas < MaxDeltas
          BY <1>1 DEF AgentDelta
        <5>3. MaxDeltas \in Nat
          BY ConnectionAssumption
        <5>4. QED
          BY <5>1, <5>2, <5>3
      <4>6. more \in BOOLEAN
        BY <4>1
      <4>7. reply' = [reply EXCEPT ![n] =
              [reply[n] EXCEPT !.deltas = reply[n].deltas + 1,
                               !.segments = grown, !.pending = more]]
        BY <1>0, <4>1 DEF Replies
      <4> HIDE DEF grown, more
      <4>8. [reply[n] EXCEPT !.deltas = reply[n].deltas + 1,
                             !.segments = grown, !.pending = more] \in Replies
        BY <1>0, <4>4, <4>5, <4>6 DEF Replies
      <4>9. QED
        BY <1>0, <4>7, <4>8
    <3>3. QED
      BY <3>1, <3>2
  <2>2. QED
    BY <1>1, <1>a, <2>1 DEF AgentDelta, TypeOK, records
<1>2. CASE AgentEnd(n)
  <2>1. reply' \in [Links -> Replies]
    BY <1>2, LeaveDeltaLoopType DEF AgentEnd
  <2>2. QED
    BY <1>2, <1>a, <2>1 DEF AgentEnd, TypeOK, records
<1>3. CASE AgentFail(n)
  <2>1. reply' \in [Links -> Replies]
    BY <1>0, <1>3 DEF AgentFail, Replies
  <2>2. QED
    BY <1>3, <1>a, <2>1 DEF AgentFail, TypeOK, records
<1>4. CASE TakeSegment(n)
  <2>1. reply[n].segments \in Seq(BOOLEAN) /\ reply[n].segments # <<>>
    BY <1>0, <1>4 DEF TakeSegment, Replies
  <2>2. Tail(reply[n].segments) \in Seq(BOOLEAN)
    BY <2>1, HeadTailProperties
  <2>3. PICK a \in {"waiting", "connecting", "done"} :
          reply' = [reply EXCEPT ![n].segments = Tail(@), ![n].audio = a]
    BY <1>4 DEF TakeSegment
  <2>4. reply' = [reply EXCEPT ![n] =
          [reply[n] EXCEPT !.segments = Tail(reply[n].segments), !.audio = a]]
    BY <1>0, <2>3 DEF Replies
  <2>5. [reply[n] EXCEPT !.segments = Tail(reply[n].segments), !.audio = a]
          \in Replies
    BY <1>0, <2>2 DEF Replies
  <2>6. reply' \in [Links -> Replies]
    BY <1>0, <2>4, <2>5
  <2>7. QED
    BY <1>4, <1>a, <2>6 DEF TakeSegment, TypeOK, records
<1>5. CASE SegmentsEnd(n)
  <2>1. reply' \in [Links -> Replies]
    BY <1>5, SetAudioType DEF SegmentsEnd
  <2>2. QED
    BY <1>5, <1>a, <2>1 DEF SegmentsEnd, TypeOK, records
<1>6. CASE TtsChunk(n)
  <2>1. reply' \in [Links -> Replies]
    BY <1>6, SetAudioType DEF TtsChunk
  <2>2. QED
    BY <1>6, <1>a, <2>1 DEF TtsChunk, TypeOK, records
<1>7. CASE TtsEnd(n)
  <2>1. reply' \in [Links -> Replies]
    BY <1>7, SetAudioType DEF TtsEnd
  <2>2. QED
    BY <1>7, <1>a, <2>1 DEF TtsEnd, TypeOK, records
<1>8. CASE TtsFail(n)
  <2>1. reply' \in [Links -> Replies]
    BY <1>8, SetAudioType DEF TtsFail
  <2>2. hub' \in {"up", "crashed"}
    BY <1>8 DEF TtsFail
  <2>3. QED
    BY <1>8, <1>a, <2>1, <2>2 DEF TtsFail, TypeOK, records
<1>9. CASE FinishReply(n)
  <2>1. outcome' \in [Links -> Outcomes]
    <3>1. outcome \in [Links -> Outcomes]
      BY DEF TypeOK
    <3>2. PICK t, o : outcome' = [outcome EXCEPT ![t] = o]
                      /\ (t \in Links => o \in Outcomes)
      <4>1. outcome' = [outcome EXCEPT ![reply[n].turn] =
              IF AnswerStands(n) THEN "reply" ELSE IF Failed(n) THEN "error"
              ELSE outcome[reply[n].turn]]
        BY <1>9 DEF FinishReply
      <4>2. QED
        BY <3>1, <4>1 DEF Outcomes
    <3>3. QED
      BY <3>1, <3>2
  <2>2. history' \in [Sessions -> Seq(Entries)]
    <3>1. CASE AnswerStands(n)
      BY <1>9, <3>1, AppendType DEF FinishReply
    <3>2. CASE ~AnswerStands(n)
      BY <1>9, <3>2 DEF FinishReply, TypeOK
    <3>3. QED
      BY <3>1, <3>2
  <2>3. stage' \in [Links -> Stages]
    BY <1>9, DoneType DEF FinishReply
  <2>4. replyTask' \in {None} \union Links
    BY <1>9 DEF FinishReply, TypeOK
  <2>5. reply' \in [Links -> Replies]
    <3>1. reply[n].turn \in {None} \union Links
      BY <1>0 DEF Replies
    <3>2. Locals(0, reply[n].turn, "off", "off") \in Replies
      BY <3>1, LocalsType
    <3>3. QED
      BY <1>0, <1>9, <3>2 DEF FinishReply
  <2>6. QED
    BY <1>9, <1>a, <2>1, <2>2, <2>3, <2>4, <2>5 DEF FinishReply, TypeOK
<1>10. QED
  BY <1>1, <1>2, <1>3, <1>4, <1>5, <1>6, <1>7, <1>8, <1>9 DEF ReplyProgress

\* The greeting's own steps keep the state well typed.
LEMMA GreetingType ==
  ASSUME TypeOK, SttOpened \/ SttFailed \/ IdentityLoaded
  PROVE  TypeOK'
<1>1. CASE SttOpened
  <2>1. [kind |-> "session.ready", session |-> session, link |-> None] \in Awaiting
    BY DEF Awaiting, TypeOK
  <2>2. /\ identityTask' \in {"null", "loading", "known"}
        /\ awaiting' \in Seq(Awaiting)
        /\ welcome' \in Seq(Greetings)
    BY <1>1, <2>1, AwaitIdentityType DEF SttOpened
  <2>3. stt' = "open"
    BY <1>1 DEF SttOpened
  <2>4. QED
    BY <1>1, <2>2, <2>3 DEF SttOpened, TypeOK, records, flags, ghosts
<1>2. CASE SttFailed
  BY <1>2 DEF SttFailed, TypeOK, greeting, records, flags, ghosts
<1>3. CASE IdentityLoaded
  <2>1. awaiting \in Seq(Awaiting) /\ welcome \in Seq(Greetings)
    BY DEF TypeOK
  <2> DEFINE sent == [i \in 1..Len(awaiting) |-> Announcement(awaiting[i])]
  <2>2. sent \in Seq(Greetings)
    <3>1. ASSUME NEW i \in 1..Len(awaiting)
          PROVE  Announcement(awaiting[i]) \in Greetings
      <4>1. awaiting[i] \in Awaiting
        BY <2>1
      <4>2. QED
        BY <4>1 DEF Announcement, Awaiting, Greetings
    <3>2. Len(awaiting) \in Nat
      BY <2>1
    <3>3. QED
      BY <3>1, <3>2, SeqDef
  <2>3. welcome \o sent \in Seq(Greetings)
    BY <2>1, <2>2, ConcatProperties
  <2> HIDE DEF sent
  <2>4. welcome' \in Seq(Greetings)
    BY <1>3, <2>1, <2>3 DEF IdentityLoaded, Greet, sent
  <2>5. awaiting' \in Seq(Awaiting)
    <3>1. <<>> \in Seq(Awaiting)
      BY EmptySeq
    <3>2. QED
      BY <1>3, <3>1 DEF IdentityLoaded
  <2>6. stage' \in [Links -> Stages]
    <3>1. stage \in [Links -> Stages]
      BY DEF TypeOK
    <3>2. QED
      BY <1>3, <3>1 DEF IdentityLoaded, Stages
  <2>7. identityTask' = "known"
    BY <1>3 DEF IdentityLoaded
  <2>8. QED
    BY <1>3, <2>4, <2>5, <2>6, <2>7
    DEF IdentityLoaded, TypeOK, world, records, flags, ghosts
<1>4. QED
  BY <1>1, <1>2, <1>3

\* So do the end of a relay request and the close handler.
LEMMA CloseType ==
  ASSUME TypeOK,
         \/ \E n \in Links : RelayAnswered(n)
         \/ SocketClose \/ CleanupTurn \/ CleanupStt
  PROVE  TypeOK'
<1>1. CASE \E n \in Links : RelayAnswered(n)
  <2>1. PICK n \in Links : RelayAnswered(n)
    BY <1>1
  <2>2. stage' \in [Links -> Stages]
    BY <2>1, DoneType DEF RelayAnswered
  <2>3. QED
    BY <2>1, <2>2
    DEF RelayAnswered, TypeOK, world, greeting, records, flags, ghosts
<1>2. CASE SocketClose
  <2>1. replySequence' \in Nat /\ replyAbort' \in BOOLEAN /\ cut' \subseteq Links
    BY <1>2 DEF SocketClose, cancelReply, Replying, TypeOK
  <2>2. QED
    BY <1>2, <2>1 DEF SocketClose, TypeOK, greeting, records
<1>3. CASE CleanupTurn
  BY <1>3 DEF CleanupTurn, DropActiveTurn, TypeOK, greeting, records, flags, ghosts
<1>4. CASE CleanupStt
  BY <1>4 DEF CleanupStt, TypeOK, greeting, records, flags, ghosts
<1>5. QED
  BY <1>1, <1>2, <1>3, <1>4

\* So does the end of a session's history.
LEMMA ExpireType ==
  ASSUME TypeOK, NEW s \in Sessions, SessionExpires(s)
  PROVE  TypeOK'
<1>1. <<>> \in Seq(Entries) /\ history \in [Sessions -> Seq(Entries)]
  BY EmptySeq DEF TypeOK
<1>2. history' \in [Sessions -> Seq(Entries)]
  BY <1>1 DEF SessionExpires
<1>3. QED
  BY <1>2 DEF SessionExpires, TypeOK, world, greeting, flags, ghosts

\* No step leaves the types: the chain, the greeting and the replies of a
\* connection stay well formed whatever arrives and fails.
LEMMA StepType == TypeOK /\ [Next]_vars => TypeOK'
<1> SUFFICES ASSUME TypeOK, [Next]_vars
             PROVE  TypeOK'
  OBVIOUS
<1>1. ASSUME NEW n \in Links, Handle(n) \/ RelayAnswered(n) \/ ReplyProgress(n)
      PROVE  TypeOK'
  BY <1>1, HandleType, CloseType, ReplyType
<1>2. CASE UNCHANGED vars
  BY <1>2 DEF TypeOK, vars, world, greeting, records, flags, ghosts
<1>3. QED
  BY <1>1, <1>2, ArrivalType, GreetingType, CloseType, ExpireType DEF Next

\* Every reachable state of a connection is well typed.
THEOREM TypeCorrect == Spec => []TypeOK
<1>1. Init => TypeOK
  BY InitType
<1>2. TypeOK /\ [Next]_vars => TypeOK'
  BY StepType
<1>3. QED
  BY <1>1, <1>2, PTL DEF Spec

-----------------------------------------------------------------------------
(***************************************************************************)
(* What a step means to the chain and to the replies. The safety proofs    *)
(* below look at these seven kinds of steps only.                            *)
(***************************************************************************)

Others == <<history, cut, socket>>

SameIds == \A m \in Links : reply'[m].id = reply[m].id
Later == replySequence' \in Nat /\ replySequence <= replySequence'

\* Nothing that matters here: arrivals, greeting, loops of a reply, cleanup.
Quiet == UNCHANGED <<Others, stage, replyTask, session>> /\ SameIds /\ Later

\* Handlers that waited for something other than a reply end.
Settles ==
  /\ stage' = [m \in Links |-> IF stage[m] = "identity" THEN "done" ELSE stage[m]]
     \/ \E n \in Links : stage[n] = "relay" /\ stage' = [stage EXCEPT ![n] = "done"]
  /\ UNCHANGED <<Others, replyTask, session, reply, replySequence>>

\* The next link is taken up, and no reply begins.
Takes(n) ==
  /\ CanStart(n)
  /\ \E s \in {"done", "identity", "relay"} : stage' = [stage EXCEPT ![n] = s]
  /\ session' \in Sessions
  /\ UNCHANGED <<Others, replyTask, reply>>
  /\ Later

\* The next link is taken up, and its reply begins.
Begins(n) ==
  /\ CanStart(n)
  /\ append("user", n)
  /\ stage' = [stage EXCEPT ![n] = "replying"]
  /\ replyTask' = n
  /\ reply'[n].id = replySequence'
  /\ \A m \in Links \ {n} : reply'[m].id = reply[m].id
  /\ UNCHANGED <<cut, socket, session>>
  /\ Later

\* A reply ends, with or without an answer.
Finishes(n) ==
  /\ stage[n] = "replying"
  /\ stage' = [stage EXCEPT ![n] = "done"]
  /\ replyTask' = IF replyTask = n THEN None ELSE replyTask
  /\ IF AnswerStands(n) THEN append("assistant", n) ELSE UNCHANGED history
  /\ \A m \in Links \ {n} : reply'[m].id = reply[m].id
  /\ UNCHANGED <<cut, socket, session, replySequence>>

\* The socket closes.
Closes ==
  /\ socket = "open" /\ socket' = "closed"
  /\ cut' = Replying
  /\ replySequence' = replySequence + 1
  /\ UNCHANGED <<history, stage, replyTask, session, reply>>

\* A session's history expires.
Expires ==
  /\ \E s \in Sessions : history' = [history EXCEPT ![s] = <<>>]
  /\ UNCHANGED <<stage, replyTask, session, reply, replySequence, cut, socket>>

\* Starting a reply is a Begins step.
LEMMA BeginReplyBegins ==
  ASSUME TypeOK, NEW n \in Links, NEW turn \in Links, NEW bumps \in Nat,
         CanStart(n), BeginReply(n, turn, bumps), UNCHANGED <<cut, socket, session>>
  PROVE  Begins(n)
<1>1. reply \in [Links -> Replies] /\ replySequence \in Nat
  BY DEF TypeOK
<1>2. /\ append("user", n)
      /\ stage' = [stage EXCEPT ![n] = "replying"]
      /\ replyTask' = n
      /\ replySequence' = replySequence + bumps
  BY DEF BeginReply
<1>3. Later
  BY <1>1, <1>2 DEF Later
<1>4. reply'[n] = Locals(replySequence + bumps, turn, "streaming",
                         IF audioOut THEN "waiting" ELSE "off")
  BY <1>1 DEF BeginReply
<1>5. reply'[n].id = replySequence'
  BY <1>2, <1>4 DEF Locals
<1>6. \A m \in Links \ {n} : reply'[m].id = reply[m].id
  BY <1>1 DEF BeginReply
<1>7. QED
  BY <1>2, <1>3, <1>5, <1>6 DEF Begins

\* Every handler takes up its link, or begins a reply.
LEMMA HandleMoves ==
  ASSUME TypeOK, NEW n \in Links, Handle(n)
  PROVE  Takes(n) \/ Begins(n)
<1> USE DEF Starts
<1>0. /\ session \in Sessions
      /\ replySequence \in Nat
      /\ CanStart(n)
  BY DEF TypeOK, Handle, HandleHello, HandleStateless, HandleInterrupt,
         HandleUserText, HandleAudio, HandleInterim, HandleUtterance, HandleRelay
<1>1. CASE HandleHello(n)
  <2>1. session' \in Sessions
    BY <1>1, LinkType DEF HandleHello, CanStart
  <2>2. \E s \in {"done", "identity", "relay"} : stage' = [stage EXCEPT ![n] = s]
    <3>1. stage' = [stage EXCEPT ![n] =
                      IF identityTask = "known" THEN "done" ELSE "identity"]
      BY <1>1 DEF HandleHello
    <3>2. CASE identityTask = "known"
      BY <3>1, <3>2
    <3>3. CASE identityTask # "known"
      BY <3>1, <3>3
    <3>4. QED
      BY <3>2, <3>3
  <2>3. UNCHANGED <<Others, replyTask, reply>> /\ Later
    BY <1>0, <1>1 DEF HandleHello, Others, Later, records, flags, ghosts, world
  <2>4. QED
    BY <1>0, <2>1, <2>2, <2>3 DEF Takes
<1>2. CASE HandleStateless(n)
  BY <1>0, <1>2 DEF HandleStateless, Done, Takes, Others, Later, records, flags,
                    ghosts, world, greeting
<1>3. CASE HandleInterrupt(n)
  BY <1>0, <1>3 DEF HandleInterrupt, cancelReply, Done, Takes, Others, Later,
                    records, ghosts, world, greeting
<1>4. CASE HandleUserText(n)
  <2> DEFINE polite == messageChain[n].kind = "politeText"
  <2>1. CASE polite /\ ReplyInProgress
    <3>1. Done(n) /\ UNCHANGED <<activeTurn, history, flags, replyTask, reply>>
      BY <1>4, <2>1 DEF HandleUserText
    <3>2. QED
      BY <1>0, <1>4, <3>1 DEF HandleUserText, Done, Takes, Others, Later, flags,
                              ghosts, world, greeting
  <2>2. CASE ~(polite /\ ReplyInProgress)
    <3>1. BeginReply(n, n, IF polite THEN 1 ELSE 2)
      BY <1>4, <2>2 DEF HandleUserText
    <3>2. UNCHANGED <<cut, socket, session>>
      BY <1>4 DEF HandleUserText, ghosts, world, greeting
    <3>3. (IF polite THEN 1 ELSE 2) \in Nat
      OBVIOUS
    <3>4. QED
      BY <1>0, <3>1, <3>2, <3>3, BeginReplyBegins
  <2>3. QED
    BY <2>1, <2>2
<1>5. CASE HandleAudio(n)
  BY <1>0, <1>5 DEF HandleAudio, Done, Takes, Others, Later, records, flags,
                    ghosts, world, greeting
<1>6. CASE HandleInterim(n)
  BY <1>0, <1>6 DEF HandleInterim, Done, Takes, Others, Later, records, flags,
                    ghosts, world, greeting
<1>7. CASE HandleUtterance(n)
  <2> DEFINE turn == IF activeTurn = None THEN n ELSE activeTurn
  <2>1. turn \in Links
    BY DEF TypeOK
  <2>2. CASE ReplyInProgress
    <3>1. Done(n) /\ UNCHANGED <<history, flags, replyTask, reply>>
      BY <1>7, <2>2 DEF HandleUtterance
    <3>2. QED
      BY <1>0, <1>7, <3>1 DEF HandleUtterance, Done, Takes, Others, Later, flags,
                              ghosts, world, greeting
  <2>3. CASE ~ReplyInProgress
    <3>1. BeginReply(n, turn, 1)
      BY <1>7, <2>3 DEF HandleUtterance
    <3>2. UNCHANGED <<cut, socket, session>>
      BY <1>7 DEF HandleUtterance, ghosts, world, greeting
    <3>3. QED
      BY <1>0, <2>1, <3>1, <3>2, BeginReplyBegins
  <2>4. QED
    BY <2>2, <2>3
<1>8. CASE HandleRelay(n)
  BY <1>0, <1>8 DEF HandleRelay, Takes, Others, Later, records, flags,
                    ghosts, world, greeting
<1>9. QED
  BY <1>1, <1>2, <1>3, <1>4, <1>5, <1>6, <1>7, <1>8 DEF Handle

\* A running reply only ends; its loops leave what it began with.
LEMMA ReplyMoves ==
  ASSUME TypeOK, NEW n \in Links, ReplyProgress(n)
  PROVE  Quiet \/ Finishes(n)
<1>0. /\ reply \in [Links -> Replies] /\ reply[n] \in Replies
      /\ replySequence \in Nat
  BY DEF TypeOK
<1>1. CASE FinishReply(n)
  <2>1. UNCHANGED <<cut, socket, session, replySequence>>
    BY <1>1 DEF FinishReply, ReplyStep, greeting, flags
  <2>2. \A m \in Links \ {n} : reply'[m].id = reply[m].id
    BY <1>0, <1>1 DEF FinishReply
  <2>3. QED
    BY <1>1, <2>1, <2>2 DEF FinishReply, Finishes, Runs, Done
<1>2. CASE ReplyProgress(n) /\ ~FinishReply(n)
  <2>1. UNCHANGED <<Others, stage, replyTask, session, replySequence>>
    BY <1>2 DEF ReplyProgress, AgentDelta, AgentEnd, AgentFail, TakeSegment,
                SegmentsEnd, TtsChunk, TtsEnd, TtsFail, ReplyStep, Others,
                greeting, flags, records
  <2>2. SameIds
    <3>1. ASSUME NEW a, SetAudio(n, a)
          PROVE  SameIds
      BY <1>0, <3>1 DEF SetAudio, SameIds, Replies
    <3>2. ASSUME LeaveDeltaLoop(n)
          PROVE  SameIds
      BY <1>0, <3>2 DEF LeaveDeltaLoop, SameIds, Replies
    <3>3. CASE AgentDelta(n)
      <4>1. CASE Cancelled(n)
        BY <3>2, <3>3, <4>1 DEF AgentDelta
      <4>2. CASE ~Cancelled(n)
        <5>1. PICK flushed \in Flushes, rest \in BOOLEAN :
                reply' = [reply EXCEPT
                  ![n].deltas = @ + 1,
                  ![n].segments = IF reply[n].audio = "off" THEN @ ELSE @ \o flushed,
                  ![n].pending = reply[n].audio # "off" /\ rest]
          BY <3>3, <4>2 DEF AgentDelta
        <5> DEFINE grown == IF reply[n].audio = "off" THEN reply[n].segments
                            ELSE reply[n].segments \o flushed
                   more == reply[n].audio # "off" /\ rest
        <5>2. reply' = [reply EXCEPT ![n] =
                [reply[n] EXCEPT !.deltas = reply[n].deltas + 1,
                                 !.segments = grown, !.pending = more]]
          BY <1>0, <5>1 DEF Replies
        <5> HIDE DEF grown, more
        <5>3. QED
          BY <1>0, <5>2 DEF SameIds, Replies
      <4>3. QED
        BY <4>1, <4>2
    <3>4. CASE AgentEnd(n)
      BY <3>2, <3>4 DEF AgentEnd
    <3>5. CASE AgentFail(n)
      BY <1>0, <3>5 DEF AgentFail, SameIds, Replies
    <3>6. CASE TakeSegment(n)
      BY <1>0, <3>6 DEF TakeSegment, SameIds, Replies
    <3>7. CASE SegmentsEnd(n) \/ TtsChunk(n) \/ TtsEnd(n) \/ TtsFail(n)
      BY <3>1, <3>7 DEF SegmentsEnd, TtsChunk, TtsEnd, TtsFail
    <3>8. QED
      BY <1>2, <3>3, <3>4, <3>5, <3>6, <3>7 DEF ReplyProgress
  <2>3. QED
    BY <1>0, <2>1, <2>2 DEF Quiet, Later
<1>3. QED
  BY <1>1, <1>2

Moves ==
  \/ Quiet \/ Settles \/ Closes \/ Expires
  \/ \E n \in Links : Takes(n) \/ Begins(n) \/ Finishes(n)

\* Every step of a connection is of one of the seven kinds.
LEMMA StepMoves == TypeOK /\ [Next]_vars => Moves
<1> SUFFICES ASSUME TypeOK, [Next]_vars
             PROVE  Moves
  OBVIOUS
<1>0. replySequence \in Nat /\ stage \in [Links -> Stages]
  BY DEF TypeOK
<1>1. ASSUME NEW f \in Frames, ReceiveFrame(f)
      PROVE  Quiet
  BY <1>0, <1>1 DEF ReceiveFrame, Arrive, Quiet, SameIds, Later, Others, world,
                    greeting, records, flags
<1>2. ASSUME NEW k \in SttEvents, SttCallback(k)
      PROVE  Quiet
  BY <1>0, <1>2 DEF SttCallback, Arrive, Quiet, SameIds, Later, Others, world,
                    greeting, records, flags
<1>3. ASSUME NEW n \in Links, Handle(n)
      PROVE  Moves
  BY <1>3, HandleMoves DEF Moves
<1>4. ASSUME NEW n \in Links, RelayAnswered(n)
      PROVE  Settles
  BY <1>4 DEF RelayAnswered, Done, Settles, Others, world, greeting, records,
              flags, ghosts
<1>5. ASSUME NEW n \in Links, ReplyProgress(n)
      PROVE  Moves
  BY <1>5, ReplyMoves DEF Moves
<1>6. CASE SttOpened
  BY <1>0, <1>6 DEF SttOpened, Moves, Quiet, SameIds, Later, Others, records,
                    flags, ghosts
<1>7. CASE SttFailed
  BY <1>0, <1>7
     DEF SttFailed, Moves, Quiet, SameIds, Later, Others, greeting, records,
                    flags, ghosts
<1>8. CASE IdentityLoaded
  BY <1>8 DEF IdentityLoaded, Moves, Settles, Others, world, records, flags, ghosts
<1>9. CASE SocketClose
  BY <1>9 DEF SocketClose, cancelReply, Moves, Closes, greeting, records
<1>10. CASE CleanupTurn
  BY <1>0, <1>10 DEF CleanupTurn, Moves, Quiet, SameIds, Later, Others, greeting,
                     records, flags, ghosts
<1>11. CASE CleanupStt
  BY <1>0, <1>11 DEF CleanupStt, Moves, Quiet, SameIds, Later, Others, greeting,
                     records, flags, ghosts
<1>12. CASE UNCHANGED vars
  BY <1>0, <1>12 DEF vars, Moves, Quiet, SameIds, Later, Others, world, greeting,
                     records, flags, ghosts
<1>13. ASSUME NEW s \in Sessions, SessionExpires(s)
       PROVE  Expires
  BY <1>13 DEF SessionExpires, Expires, world, greeting, flags, ghosts
<1>14. QED
  BY <1>1, <1>2, <1>3, <1>4, <1>5, <1>6, <1>7, <1>8, <1>9, <1>10, <1>11, <1>12, <1>13
  DEF Next, Moves

-----------------------------------------------------------------------------
(* The chain serialises the handlers *)

\* A link is taken up only when every earlier handler has settled.
HandledInOrder ==
  \A m, n \in Links : m < n /\ stage[n] # "queued" => stage[m] = "done"

ChainInv == TypeOK /\ HandledInOrder /\ OneReplyAtATime

\* Among the links that are neither queued nor done there is at most one.
LEMMA OneAtWork ==
  ASSUME TypeOK, HandledInOrder, NEW m \in Links, NEW n \in Links,
         stage[m] \notin {"queued", "done"}, stage[n] \notin {"queued", "done"}
  PROVE  m = n
BY DEF HandledInOrder

\* When a handler can start, no handler is at work.
LEMMA NoneAtWork ==
  ASSUME TypeOK, HandledInOrder, NEW n \in Links, CanStart(n), NEW m \in Links
  PROVE  /\ m < n => stage[m] = "done"
         /\ n <= m => stage[m] = "queued"
<1>1. m < n => stage[m] = "done"
  BY DEF CanStart
<1>2. ASSUME n < m
      PROVE  stage[m] = "queued"
  BY <1>2 DEF HandledInOrder, CanStart
<1>3. stage[n] = "queued"
  BY DEF CanStart
<1>4. QED
  BY <1>1, <1>2, <1>3

\* The order of handlers and the meaning of replyTask survive every step.
LEMMA ChainStep == ChainInv /\ [Next]_vars => ChainInv'
<1> SUFFICES ASSUME ChainInv, [Next]_vars
             PROVE  ChainInv'
  OBVIOUS
<1>0. /\ TypeOK /\ TypeOK' /\ HandledInOrder /\ OneReplyAtATime /\ Moves
      /\ stage \in [Links -> Stages]
  BY StepType, StepMoves DEF ChainInv, TypeOK
<1>1. CASE Quiet \/ Closes \/ Expires
  <2>1. UNCHANGED <<stage, replyTask>>
    BY <1>1 DEF Quiet, Closes, Expires
  <2>2. QED
    BY <1>0, <2>1 DEF ChainInv, HandledInOrder, OneReplyAtATime
<1>2. CASE Settles
  <2>1. \A m \in Links : /\ stage[m] = "queued" <=> stage'[m] = "queued"
                         /\ stage[m] = "done" => stage'[m] = "done"
                         /\ stage[m] = "replying" <=> stage'[m] = "replying"
    BY <1>0, <1>2 DEF Settles
  <2>2. UNCHANGED replyTask
    BY <1>2 DEF Settles
  <2>3. QED
    BY <1>0, <2>1, <2>2 DEF ChainInv, HandledInOrder, OneReplyAtATime
<1>3. ASSUME NEW n \in Links, Takes(n)
      PROVE  ChainInv'
  <2>1. PICK s \in {"done", "identity", "relay"} : stage' = [stage EXCEPT ![n] = s]
    BY <1>3 DEF Takes
  <2>2. CanStart(n) /\ UNCHANGED replyTask
    BY <1>3 DEF Takes
  <2>3. \A m \in Links : /\ m < n => stage[m] = "done"
                         /\ n <= m => stage[m] = "queued"
    BY <1>0, <2>2, NoneAtWork
  <2>4. \A m \in Links : stage'[m] = IF m = n THEN s ELSE stage[m]
    BY <1>0, <2>1
  <2>5. HandledInOrder'
    BY <2>3, <2>4 DEF HandledInOrder
  <2>6. OneReplyAtATime'
    BY <1>0, <2>2, <2>3, <2>4 DEF OneReplyAtATime
  <2>7. QED
    BY <1>0, <2>5, <2>6 DEF ChainInv
<1>4. ASSUME NEW n \in Links, Begins(n)
      PROVE  ChainInv'
  <2>1. /\ CanStart(n) /\ replyTask' = n
        /\ stage' = [stage EXCEPT ![n] = "replying"]
    BY <1>4 DEF Begins
  <2>2. \A m \in Links : /\ m < n => stage[m] = "done"
                         /\ n <= m => stage[m] = "queued"
    BY <1>0, <2>1, NoneAtWork
  <2>3. \A m \in Links : stage'[m] = IF m = n THEN "replying" ELSE stage[m]
    BY <1>0, <2>1
  <2>4. HandledInOrder'
    BY <2>2, <2>3 DEF HandledInOrder
  <2>5. OneReplyAtATime'
    BY <2>1, <2>2, <2>3 DEF OneReplyAtATime
  <2>6. QED
    BY <1>0, <2>4, <2>5 DEF ChainInv
<1>5. ASSUME NEW n \in Links, Finishes(n)
      PROVE  ChainInv'
  <2>1. /\ stage[n] = "replying"
        /\ stage' = [stage EXCEPT ![n] = "done"]
        /\ replyTask' = IF replyTask = n THEN None ELSE replyTask
    BY <1>5 DEF Finishes
  <2>2. \A m \in Links : stage'[m] = IF m = n THEN "done" ELSE stage[m]
    BY <1>0, <2>1
  <2>3. HandledInOrder'
    BY <1>0, <2>1, <2>2 DEF HandledInOrder
  <2>4. OneReplyAtATime'
    <3>1. replyTask = n
      BY <1>0, <2>1 DEF OneReplyAtATime
    <3>2. \A m \in Links : stage'[m] # "replying"
      BY <1>0, <2>2, <3>1 DEF OneReplyAtATime
    <3>3. replyTask' = None
      BY <2>1, <3>1
    <3>4. QED
      BY <3>2, <3>3 DEF OneReplyAtATime
  <2>5. QED
    BY <1>0, <2>3, <2>4 DEF ChainInv
<1>6. QED
  BY <1>0, <1>1, <1>2, <1>3, <1>4, <1>5 DEF Moves

LEMMA ChainInit == Init => ChainInv
<1>1. Init => TypeOK
  BY InitType
<1>2. Init => \A n \in Links : stage[n] = "queued"
  BY DEF Init, Fresh
<1>3. Init => replyTask = 0
  BY DEF Init, Fresh
<1>4. QED
  BY <1>1, <1>2, <1>3 DEF ChainInv, HandledInOrder, OneReplyAtATime

\* The chain holds in every reachable state.
LEMMA ChainHolds == Spec => []ChainInv
<1>1. QED
  BY ChainInit, ChainStep, PTL DEF Spec

\* At most one reply runs on a connection, and replyTask names exactly it.
THEOREM RepliesAreSerial == Spec => []OneReplyAtATime
<1>1. ChainInv => OneReplyAtATime
  BY DEF ChainInv
<1>2. QED
  BY <1>1, ChainHolds, PTL

-----------------------------------------------------------------------------
(* Question and answer stay together *)

\* While a reply runs, its question is the last message of the session, if
\* any is left.
QuestionIsLast ==
  \A n \in Links :
    stage[n] = "replying" /\ Len(history[session]) > 0 =>
      history[session][Len(history[session])] = Recorded("user", n)

PairInv == ChainInv /\ QuestionIsLast /\ AnswersFollow

\* What entering a message changes: one session has one entry more, and
\* perhaps lost its oldest ones.
LEMMA AppendedHistory ==
  ASSUME TypeOK, NEW n \in Links, NEW role \in {"user", "assistant"},
         append(role, n)
  PROVE  LET h == history[session]
             k == history'[session]
         IN  /\ Len(h) \in Nat
             /\ Len(k) \in 1..(Len(h) + 1)
             /\ k[Len(k)] = Recorded(role, n)
             /\ \A i \in 1..(Len(k) - 1) : k[i] = h[i + (Len(h) + 1 - Len(k))]
             /\ \A s \in Sessions \ {session} : history'[s] = history[s]
<1>1. /\ Recorded(role, n) \in Entries
      /\ session \in Sessions
      /\ history \in [Sessions -> Seq(Entries)]
      /\ history[session] \in Seq(Entries)
  BY DEF Recorded, Entries, TypeOK
<1>2. history'[session] = Newest(Append(history[session], Recorded(role, n)))
  BY <1>1 DEF append
<1>3. \A s \in Sessions \ {session} : history'[s] = history[s]
  BY <1>1 DEF append
<1>4. Len(history[session]) \in Nat
  BY <1>1
<1>5. QED
  BY <1>1, <1>2, <1>3, <1>4, NewestAppended

\* Places in a sequence of old + 1 entries of which the newest new are kept.
LEMMA Places ==
  ASSUME NEW old \in Nat, NEW new \in 1..(old + 1), NEW i \in 1..new
  PROVE  /\ old + 1 - new \in Nat
         /\ i # new => /\ i \in 1..(new - 1)
                       /\ i + (old + 1 - new) \in 1..old
         /\ i = new /\ i > 1 => /\ old > 0 /\ i - 1 \in 1..(new - 1)
                                /\ i - 1 + (old + 1 - new) = old
OBVIOUS

\* An old entry of the grown session was there before, at a known place.
LEMMA OldEntry ==
  ASSUME TypeOK, NEW n \in Links, NEW role \in {"user", "assistant"},
         append(role, n),
         NEW s \in Sessions, NEW i \in 1..Len(history'[s]),
         ~(s = session /\ i = Len(history'[s]))
  PROVE  \E d \in Nat : /\ i + d \in 1..Len(history[s])
                        /\ \A j \in 1..i : history'[s][j] = history[s][j + d]
<1>1. LET h == history[session]
          k == history'[session]
      IN  /\ Len(h) \in Nat
          /\ Len(k) \in 1..(Len(h) + 1)
          /\ \A j \in 1..(Len(k) - 1) : k[j] = h[j + (Len(h) + 1 - Len(k))]
          /\ \A r \in Sessions \ {session} : history'[r] = history[r]
  BY AppendedHistory
<1>2. CASE s # session
  <2>1. history'[s] = history[s]
    BY <1>1, <1>2
  <2>2. i + 0 = i /\ \A j \in 1..i : j + 0 = j
    OBVIOUS
  <2>3. i + 0 \in 1..Len(history[s])
    BY <2>1, <2>2
  <2>4. \A j \in 1..i : history'[s][j] = history[s][j + 0]
    BY <2>1, <2>2
  <2>5. QED
    BY <2>3, <2>4
<1>3. CASE s = session
  <2> DEFINE d == Len(history[s]) + 1 - Len(history'[s])
  <2>0. /\ Len(history[s]) \in Nat
        /\ Len(history'[s]) \in 1..(Len(history[s]) + 1)
    BY <1>1, <1>3
  <2>1. /\ d \in Nat /\ i \in 1..(Len(history'[s]) - 1)
        /\ i + d \in 1..Len(history[s])
    BY <1>3, <2>0, Places
  <2>2. i + d \in 1..Len(history[s])
    BY <2>1
  <2>3. \A j \in 1..i : j \in 1..(Len(history'[s]) - 1)
    BY <1>1, <1>3, <2>1
  <2>4. \A j \in 1..i : history'[s][j] = history[s][j + d]
    BY <1>1, <1>3, <2>3
  <2>5. QED
    BY <2>1, <2>2, <2>4
<1>4. QED
  BY <1>2, <1>3

\* An old answer of the grown session still stands behind its question.
LEMMA OldPair ==
  ASSUME TypeOK, AnswersFollow, NEW n \in Links, NEW role \in {"user", "assistant"},
         append(role, n),
         NEW s \in Sessions, NEW i \in 2..Len(history'[s]),
         history'[s][i].role = "assistant",
         ~(s = session /\ i = Len(history'[s]))
  PROVE  history'[s][i - 1] = Recorded("user", history'[s][i].by)
<1>0. i \in 1..Len(history'[s]) /\ i - 1 \in 1..i /\ i \in 1..i
  OBVIOUS
<1>1. PICK d \in Nat : /\ i + d \in 1..Len(history[s])
                      /\ \A j \in 1..i : history'[s][j] = history[s][j + d]
  BY <1>0, OldEntry
<1>2. history'[s][i] = history[s][i + d] /\ history'[s][i - 1] = history[s][i - 1 + d]
  BY <1>0, <1>1
<1>3. i + d \in 2..Len(history[s]) /\ i + d - 1 = i - 1 + d
  BY <1>1
<1>4. history[s][i + d - 1] = Recorded("user", history[s][i + d].by)
  BY <1>2, <1>3 DEF AnswersFollow
<1>5. QED
  BY <1>2, <1>3, <1>4

\* A step keeps the pairs: only a new question or its own answer is entered.
LEMMA PairStep == PairInv /\ [Next]_vars => PairInv'
<1> SUFFICES ASSUME PairInv, [Next]_vars
             PROVE  PairInv'
  OBVIOUS
<1>0. /\ ChainInv /\ TypeOK /\ HandledInOrder /\ Moves /\ ChainInv'
      /\ QuestionIsLast /\ AnswersFollow
      /\ stage \in [Links -> Stages] /\ session \in Sessions
  BY StepMoves, ChainStep DEF PairInv, ChainInv, TypeOK
<1>1. CASE Quiet \/ Closes
  <2>1. UNCHANGED <<stage, history, session>>
    BY <1>1 DEF Quiet, Closes, Others
  <2>2. QED
    BY <1>0, <2>1 DEF PairInv, QuestionIsLast, AnswersFollow
<1>2. CASE Settles
  <2>1. UNCHANGED <<history, session>>
    BY <1>2 DEF Settles, Others
  <2>2. \A m \in Links : stage'[m] = "replying" => stage[m] = "replying"
    BY <1>0, <1>2 DEF Settles
  <2>3. QED
    BY <1>0, <2>1, <2>2 DEF PairInv, QuestionIsLast, AnswersFollow
<1>3. ASSUME NEW n \in Links, Takes(n)
      PROVE  PairInv'
  <2>1. PICK s \in {"done", "identity", "relay"} : stage' = [stage EXCEPT ![n] = s]
    BY <1>3 DEF Takes
  <2>2. CanStart(n) /\ UNCHANGED history
    BY <1>3 DEF Takes, Others
  <2>3. \A m \in Links : stage[m] # "replying"
    <3>1. \A m \in Links : m < n \/ n <= m
      OBVIOUS
    <3>2. QED
      BY <1>0, <2>2, <3>1, NoneAtWork
  <2>4. \A m \in Links : stage'[m] # "replying"
    BY <1>0, <2>1, <2>3
  <2>5. QED
    BY <1>0, <2>2, <2>4 DEF PairInv, QuestionIsLast, AnswersFollow
<1>4. ASSUME NEW n \in Links, Begins(n)
      PROVE  PairInv'
  <2>1. /\ CanStart(n) /\ append("user", n) /\ UNCHANGED session
        /\ stage' = [stage EXCEPT ![n] = "replying"]
    BY <1>4 DEF Begins
  <2>2. history'[session][Len(history'[session])] = Recorded("user", n)
    BY <1>0, <2>1, AppendedHistory
  <2>3. QuestionIsLast'
    <3>1. \A m \in Links : m < n \/ n <= m
      OBVIOUS
    <3>2. \A m \in Links : stage[m] # "replying"
      BY <1>0, <2>1, <3>1, NoneAtWork
    <3>3. \A m \in Links : stage'[m] = "replying" => m = n
      BY <1>0, <2>1, <3>2
    <3>4. QED
      BY <2>1, <2>2, <3>3 DEF QuestionIsLast
  <2>4. ASSUME NEW s \in Sessions, NEW i \in 2..Len(history'[s]),
               history'[s][i].role = "assistant"
        PROVE  history'[s][i - 1] = Recorded("user", history'[s][i].by)
    <3>1. ~(s = session /\ i = Len(history'[s]))
      BY <2>2, <2>4 DEF Recorded
    <3>2. QED
      BY <1>0, <2>1, <2>4, <3>1, OldPair
  <2>5. AnswersFollow'
    BY <2>4 DEF AnswersFollow
  <2>6. QED
    BY <1>0, <2>3, <2>5 DEF PairInv
<1>5. ASSUME NEW n \in Links, Finishes(n)
      PROVE  PairInv'
  <2>1. stage[n] = "replying" /\ stage' = [stage EXCEPT ![n] = "done"]
    BY <1>5 DEF Finishes
  <2>2. \A m \in Links : stage'[m] # "replying"
    BY <1>0, <2>1, OneAtWork
  <2>3. QuestionIsLast'
    BY <2>2 DEF QuestionIsLast
  <2>4. AnswersFollow'
    <3>1. CASE ~AnswerStands(n)
      BY <1>0, <1>5, <3>1 DEF Finishes, AnswersFollow
    <3>2. CASE AnswerStands(n)
      <4> DEFINE h == history[session]
                 k == history'[session]
      <4>1. append("assistant", n)
        BY <1>5, <3>2 DEF Finishes
      <4>2. /\ Len(h) \in Nat
            /\ Len(k) \in 1..(Len(h) + 1)
            /\ k[Len(k)] = Recorded("assistant", n)
            /\ \A i \in 1..(Len(k) - 1) : k[i] = h[i + (Len(h) + 1 - Len(k))]
        BY <1>0, <4>1, AppendedHistory
      <4>3. Len(h) > 0 => h[Len(h)] = Recorded("user", n)
        BY <1>0, <2>1 DEF QuestionIsLast
      <4>4. ASSUME NEW s \in Sessions, NEW i \in 2..Len(history'[s]),
                   history'[s][i].role = "assistant"
            PROVE  history'[s][i - 1] = Recorded("user", history'[s][i].by)
        <5>1. CASE ~(s = session /\ i = Len(history'[s]))
          BY <1>0, <4>1, <4>4, <5>1, OldPair
        <5>2. CASE s = session /\ i = Len(history'[s])
          <6>1. k[i].by = n
            BY <4>2, <5>2 DEF Recorded
          <6>a. i = Len(k) /\ i > 1 /\ i \in 1..Len(k)
            BY <4>2, <4>4, <5>2
          <6>2. i - 1 \in 1..(Len(k) - 1) /\ Len(h) > 0
                /\ i - 1 + (Len(h) + 1 - Len(k)) = Len(h)
            BY <4>2, <4>4, <6>a, Places
          <6>3. k[i - 1] = h[Len(h)]
            BY <4>2, <6>2
          <6>4. QED
            BY <4>3, <5>2, <6>1, <6>2, <6>3
        <5>3. QED
          BY <5>1, <5>2
      <4>5. QED
        BY <4>4 DEF AnswersFollow
    <3>3. QED
      BY <3>1, <3>2
  <2>5. QED
    BY <1>0, <2>3, <2>4 DEF PairInv
<1>6. CASE Expires
  <2>1. PICK s \in Sessions : history' = [history EXCEPT ![s] = <<>>]
    BY <1>6 DEF Expires
  <2>2. UNCHANGED <<stage, session>>
    BY <1>6 DEF Expires
  <2>3. \A r \in Sessions : history'[r] = IF r = s THEN <<>> ELSE history[r]
    BY <1>0, <2>1 DEF TypeOK
  <2>4. Len(<<>>) = 0
    BY EmptySeq
  <2>5. QuestionIsLast' /\ AnswersFollow'
    BY <1>0, <2>2, <2>3, <2>4 DEF QuestionIsLast, AnswersFollow
  <2>6. QED
    BY <1>0, <2>5 DEF PairInv
<1>7. QED
  BY <1>0, <1>1, <1>2, <1>3, <1>4, <1>5, <1>6 DEF Moves

LEMMA PairInit == Init => PairInv
<1>1. Init => ChainInv
  BY ChainInit
<1>2. Init => QuestionIsLast
  BY DEF Init, Fresh, QuestionIsLast
<1>3. Init => AnswersFollow
  BY DEF Init, Fresh, AnswersFollow
<1>4. QED
  BY <1>1, <1>2, <1>3 DEF PairInv

-----------------------------------------------------------------------------
(* Question and answer stay in one session *)

\* What a handler enters while its reply runs is in the session of the
\* connection, and links that have not begun have entered nothing.
EntriesArePlaced ==
  \A s \in Sessions : \A i \in 1..Len(history[s]) :
    /\ stage[history[s][i].by] \in {"replying", "done"}
    /\ stage[history[s][i].by] = "replying" => s = session

PlaceInv == ChainInv /\ EntriesArePlaced /\ OneSessionEach

\* An old entry of the grown session was by the same link in the same session.
LEMMA OldAuthor ==
  ASSUME TypeOK, NEW n \in Links, NEW role \in {"user", "assistant"},
         append(role, n),
         NEW s \in Sessions, NEW i \in 1..Len(history'[s]),
         ~(s = session /\ i = Len(history'[s]))
  PROVE  \E k \in 1..Len(history[s]) :
           /\ history'[s][i].by = history[s][k].by
           /\ history[s][k].by \in Links
<1>1. PICK d \in Nat : /\ i + d \in 1..Len(history[s])
                      /\ \A j \in 1..i : history'[s][j] = history[s][j + d]
  BY OldEntry
<1>2. history'[s][i] = history[s][i + d]
  BY <1>1
<1>3. history[s][i + d] \in Entries
  <2>1. history[s] \in Seq(Entries)
    BY DEF TypeOK
  <2>2. QED
    BY <1>1, <2>1
<1>4. QED
  BY <1>1, <1>2, <1>3 DEF Entries

\* Entering a message of a link that has entered nothing in other sessions.
LEMMA AppendPlaces ==
  ASSUME TypeOK, EntriesArePlaced, OneSessionEach,
         NEW n \in Links, NEW role \in {"user", "assistant"}, append(role, n),
         UNCHANGED session,
         stage' \in [Links -> Stages], stage'[n] \in {"replying", "done"},
         \A m \in Links \ {n} : stage'[m] = stage[m],
         \A s \in Sessions : \A i \in 1..Len(history[s]) :
           history[s][i].by = n => s = session
  PROVE  EntriesArePlaced' /\ OneSessionEach'
<1>1. history'[session][Len(history'[session])].by = n
  <2>1. history'[session][Len(history'[session])] = Recorded(role, n)
    BY AppendedHistory
  <2>2. Recorded(role, n).by = n
    BY DEF Recorded
  <2>3. QED
    BY <2>1, <2>2
<1>2. ASSUME NEW s \in Sessions, NEW i \in 1..Len(history'[s])
      PROVE  /\ stage'[history'[s][i].by] \in {"replying", "done"}
             /\ stage'[history'[s][i].by] = "replying" => s = session
  <2>1. CASE s = session /\ i = Len(history'[s])
    BY <1>1, <2>1
  <2>2. CASE ~(s = session /\ i = Len(history'[s]))
    <3>1. PICK k \in 1..Len(history[s]) :
            /\ history'[s][i].by = history[s][k].by
            /\ history[s][k].by \in Links
      BY <2>2, OldAuthor
    <3>2. /\ stage[history[s][k].by] \in {"replying", "done"}
          /\ stage[history[s][k].by] = "replying" => s = session
      BY <3>1 DEF EntriesArePlaced
    <3>3. CASE history[s][k].by = n
      BY <3>1, <3>3
    <3>4. CASE history[s][k].by # n
      BY <3>1, <3>2, <3>4
    <3>5. QED
      BY <3>3, <3>4
  <2>3. QED
    BY <2>1, <2>2
<1>3. ASSUME NEW s \in Sessions, NEW i \in 1..Len(history'[s])
      PROVE  \/ s = session /\ history'[s][i].by = n
             \/ \E k \in 1..Len(history[s]) : history'[s][i].by = history[s][k].by
  <2>1. CASE s = session /\ i = Len(history'[s])
    BY <1>1, <2>1
  <2>2. CASE ~(s = session /\ i = Len(history'[s]))
    BY <2>2, OldAuthor
  <2>3. QED
    BY <2>1, <2>2
<1>4. ASSUME NEW s \in Sessions, NEW t \in Sessions,
             NEW i \in 1..Len(history'[s]), NEW j \in 1..Len(history'[t]),
             history'[s][i].by = history'[t][j].by
      PROVE  s = t
  <2>0. \A r \in Sessions : \A k \in 1..Len(history[r]) :
          history[r][k].by = n => r = session
    OBVIOUS
  <2>s. \/ s = session /\ history'[s][i].by = n
        \/ \E k \in 1..Len(history[s]) : history'[s][i].by = history[s][k].by
    BY <1>3
  <2>t. \/ t = session /\ history'[t][j].by = n
        \/ \E l \in 1..Len(history[t]) : history'[t][j].by = history[t][l].by
    BY <1>3
  <2>1. CASE s = session /\ history'[s][i].by = n
    BY <1>4, <2>0, <2>t, <2>1
  <2>2. CASE t = session /\ history'[t][j].by = n
    BY <1>4, <2>0, <2>s, <2>2
  <2>3. CASE /\ \E k \in 1..Len(history[s]) : history'[s][i].by = history[s][k].by
             /\ \E l \in 1..Len(history[t]) : history'[t][j].by = history[t][l].by
    <3>1. PICK k \in 1..Len(history[s]) : history'[s][i].by = history[s][k].by
      BY <2>3
    <3>2. PICK l \in 1..Len(history[t]) : history'[t][j].by = history[t][l].by
      BY <2>3
    <3>3. history[s][k].by = history[t][l].by
      BY <1>4, <3>1, <3>2
    <3>4. QED
      BY <3>3 DEF OneSessionEach
  <2>4. QED
    BY <2>s, <2>t, <2>1, <2>2, <2>3
<1>5. EntriesArePlaced'
  BY <1>2 DEF EntriesArePlaced
<1>6. OneSessionEach'
  BY <1>4 DEF OneSessionEach
<1>7. QED
  BY <1>5, <1>6

\* A step keeps the entries of a link in one session.
LEMMA PlaceStep == PlaceInv /\ [Next]_vars => PlaceInv'
<1> SUFFICES ASSUME PlaceInv, [Next]_vars
             PROVE  PlaceInv'
  OBVIOUS
<1>0. /\ ChainInv /\ ChainInv' /\ TypeOK /\ HandledInOrder /\ Moves
      /\ EntriesArePlaced /\ OneSessionEach
      /\ stage \in [Links -> Stages]
  BY StepMoves, ChainStep DEF PlaceInv, ChainInv, TypeOK
<1>a. ASSUME NEW s \in Sessions, NEW i \in 1..Len(history[s])
      PROVE  history[s][i].by \in Links
  <2>1. history[s] \in Seq(Entries)
    BY <1>0 DEF TypeOK
  <2>2. history[s][i] \in Entries
    BY <2>1
  <2>3. QED
    BY <2>2 DEF Entries
<1>1. CASE Quiet \/ Closes
  <2>1. UNCHANGED <<stage, history, session>>
    BY <1>1 DEF Quiet, Closes, Others
  <2>2. QED
    BY <1>0, <2>1 DEF PlaceInv, EntriesArePlaced, OneSessionEach
<1>2. CASE Settles
  <2>1. UNCHANGED <<history, session>>
    BY <1>2 DEF Settles, Others
  <2>2. \A m \in Links :
          stage[m] \in {"replying", "done"} => stage'[m] = stage[m]
    BY <1>0, <1>2 DEF Settles
  <2>3. EntriesArePlaced'
    BY <1>0, <1>a, <2>1, <2>2 DEF EntriesArePlaced
  <2>4. QED
    BY <1>0, <2>1, <2>3 DEF PlaceInv, OneSessionEach
<1>3. ASSUME NEW n \in Links, Takes(n)
      PROVE  PlaceInv'
  <2>1. PICK s \in {"done", "identity", "relay"} : stage' = [stage EXCEPT ![n] = s]
    BY <1>3 DEF Takes
  <2>2. CanStart(n) /\ stage[n] = "queued" /\ UNCHANGED history
    BY <1>3 DEF Takes, Others, CanStart
  <2>3. \A m \in Links : stage[m] # "replying"
    <3>1. \A m \in Links : m < n \/ n <= m
      OBVIOUS
    <3>2. QED
      BY <1>0, <2>2, <3>1, NoneAtWork
  <2>4. \A m \in Links : stage[m] = "done" => stage'[m] = "done"
    BY <1>0, <2>1, <2>2
  <2>5. EntriesArePlaced'
    BY <1>0, <1>a, <2>2, <2>3, <2>4 DEF EntriesArePlaced
  <2>6. QED
    BY <1>0, <2>2, <2>5 DEF PlaceInv, OneSessionEach
<1>4. ASSUME NEW n \in Links, Begins(n)
      PROVE  PlaceInv'
  <2>1. /\ stage[n] = "queued" /\ append("user", n) /\ UNCHANGED session
        /\ stage' = [stage EXCEPT ![n] = "replying"]
    BY <1>4 DEF Begins, CanStart
  <2>2. \A s \in Sessions : \A i \in 1..Len(history[s]) : history[s][i].by # n
    BY <1>0, <2>1 DEF EntriesArePlaced
  <2>3. /\ stage' \in [Links -> Stages] /\ stage'[n] \in {"replying", "done"}
        /\ \A m \in Links \ {n} : stage'[m] = stage[m]
    BY <1>0, <2>1 DEF Stages
  <2>4. EntriesArePlaced' /\ OneSessionEach'
    BY <1>0, <2>1, <2>2, <2>3, AppendPlaces
  <2>5. QED
    BY <1>0, <2>4 DEF PlaceInv
<1>5. ASSUME NEW n \in Links, Finishes(n)
      PROVE  PlaceInv'
  <2>1. /\ stage[n] = "replying" /\ stage' = [stage EXCEPT ![n] = "done"]
        /\ UNCHANGED session
    BY <1>5 DEF Finishes
  <2>2. /\ stage' \in [Links -> Stages] /\ stage'[n] \in {"replying", "done"}
        /\ \A m \in Links \ {n} : stage'[m] = stage[m]
    BY <1>0, <2>1 DEF Stages
  <2>3. CASE AnswerStands(n)
    <3>1. append("assistant", n)
      BY <1>5, <2>3 DEF Finishes
    <3>2. \A s \in Sessions : \A i \in 1..Len(history[s]) :
            history[s][i].by = n => s = session
      BY <1>0, <2>1 DEF EntriesArePlaced
    <3>3. EntriesArePlaced' /\ OneSessionEach'
      BY <1>0, <2>1, <2>2, <3>1, <3>2, AppendPlaces
    <3>4. QED
      BY <1>0, <3>3 DEF PlaceInv
  <2>4. CASE ~AnswerStands(n)
    <3>1. UNCHANGED history
      BY <1>5, <2>4 DEF Finishes
    <3>2. \A m \in Links : stage'[m] = IF m = n THEN "done" ELSE stage[m]
      BY <1>0, <2>1
    <3>3. EntriesArePlaced'
      BY <1>0, <1>a, <2>1, <3>1, <3>2 DEF EntriesArePlaced
    <3>4. QED
      BY <1>0, <3>1, <3>3 DEF PlaceInv, OneSessionEach
  <2>5. QED
    BY <2>3, <2>4
<1>6. CASE Expires
  <2>1. PICK s \in Sessions : history' = [history EXCEPT ![s] = <<>>]
    BY <1>6 DEF Expires
  <2>2. UNCHANGED <<stage, session>>
    BY <1>6 DEF Expires
  <2>3. \A r \in Sessions : history'[r] = IF r = s THEN <<>> ELSE history[r]
    BY <1>0, <2>1 DEF TypeOK
  <2>4. Len(<<>>) = 0
    BY EmptySeq
  <2>5. EntriesArePlaced' /\ OneSessionEach'
    BY <1>0, <2>2, <2>3, <2>4 DEF EntriesArePlaced, OneSessionEach
  <2>6. QED
    BY <1>0, <2>5 DEF PlaceInv
<1>7. QED
  BY <1>0, <1>1, <1>2, <1>3, <1>4, <1>5, <1>6 DEF Moves

LEMMA PlaceInit == Init => PlaceInv
<1>1. Init => ChainInv
  BY ChainInit
<1>2. Init => EntriesArePlaced
  BY DEF Init, Fresh, EntriesArePlaced
<1>3. Init => OneSessionEach
  BY DEF Init, Fresh, OneSessionEach
<1>4. QED
  BY <1>1, <1>2, <1>3 DEF PlaceInv

\* Every answer stands behind the question it answers, and in no other session
\* than that question.
THEOREM HistoryIsPaired == Spec => []HistoryPairsUp
<1>1. PairInv /\ PlaceInv => HistoryPairsUp
  BY DEF PairInv, PlaceInv, HistoryPairsUp
<1>2. Spec => []PairInv
  BY PairInit, PairStep, PTL DEF Spec
<1>3. Spec => []PlaceInv
  BY PlaceInit, PlaceStep, PTL DEF Spec
<1>4. QED
  BY <1>1, <1>2, <1>3, PTL

-----------------------------------------------------------------------------
(* A reply cut by the socket's close never becomes an answer *)

\* Sequence numbers of running replies were handed out already, and the cut
\* ones are superseded; only handlers that have ended have entered an answer.
CutIsSuperseded ==
  /\ socket = "open" => cut = {}
  /\ \A n \in Links : stage[n] = "replying" => reply[n].id <= replySequence
  /\ \A n \in cut :
       \/ stage[n] = "done"
       \/ stage[n] = "replying" /\ reply[n].id < replySequence
  /\ \A s \in Sessions : \A i \in 1..Len(history[s]) :
       history[s][i].role = "assistant" => stage[history[s][i].by] = "done"

CutInv == ChainInv /\ CutIsSuperseded /\ CutReplyIsNotRecorded

\* If the history stays, and what is done stays done, so do the facts on it.
LEMMA SameHistory ==
  ASSUME TypeOK, CutIsSuperseded, CutReplyIsNotRecorded, UNCHANGED <<history, cut>>,
         \A m \in Links : stage[m] = "done" => stage'[m] = "done"
  PROVE  /\ CutReplyIsNotRecorded'
         /\ \A s \in Sessions : \A i \in 1..Len(history'[s]) :
              history'[s][i].role = "assistant" => stage'[history'[s][i].by] = "done"
<1>1. ASSUME NEW s \in Sessions, NEW i \in 1..Len(history[s])
      PROVE  history[s][i].by \in Links
  <2>1. history[s] \in Seq(Entries)
    BY DEF TypeOK
  <2>2. history[s][i] \in Entries
    BY <2>1
  <2>3. QED
    BY <2>2 DEF Entries
<1>2. QED
  BY <1>1 DEF CutIsSuperseded, CutReplyIsNotRecorded

\* An answer that was entered before is by a handler that has ended, uncut.
LEMMA OldAnswer ==
  ASSUME TypeOK, CutIsSuperseded, CutReplyIsNotRecorded,
         NEW n \in Links, NEW role \in {"user", "assistant"}, append(role, n),
         NEW s \in Sessions, NEW i \in 1..Len(history'[s]),
         history'[s][i].role = "assistant",
         ~(s = session /\ i = Len(history'[s]))
  PROVE  /\ stage[history'[s][i].by] = "done"
         /\ history'[s][i].by \notin cut
         /\ history'[s][i].by \in Links
<1>1. PICK d \in Nat : /\ i + d \in 1..Len(history[s])
                      /\ \A j \in 1..i : history'[s][j] = history[s][j + d]
  BY OldEntry
<1>2. history'[s][i] = history[s][i + d]
  BY <1>1
<1>3. stage[history[s][i + d].by] = "done" /\ history[s][i + d].by \notin cut
  BY <1>1, <1>2 DEF CutIsSuperseded, CutReplyIsNotRecorded
<1>4. history[s][i + d].by \in Links
  <2>1. history[s] \in Seq(Entries)
    BY DEF TypeOK
  <2>2. history[s][i + d] \in Entries
    BY <1>1, <2>1
  <2>3. QED
    BY <2>2 DEF Entries
<1>5. QED
  BY <1>2, <1>3, <1>4

\* A step never enters an answer of a cut reply.
LEMMA CutStep == CutInv /\ [Next]_vars => CutInv'
<1> SUFFICES ASSUME CutInv, [Next]_vars
             PROVE  CutInv'
  OBVIOUS
<1>0. /\ ChainInv /\ ChainInv' /\ TypeOK /\ TypeOK' /\ HandledInOrder /\ Moves
      /\ CutIsSuperseded /\ CutReplyIsNotRecorded
  BY StepMoves, StepType, ChainStep DEF CutInv, ChainInv
<1>t. /\ stage \in [Links -> Stages] /\ replySequence \in Nat
      /\ cut \subseteq Links /\ session \in Sessions
      /\ \A m \in Links : reply[m].id \in Nat
  BY <1>0 DEF TypeOK, Replies
<1>1. CASE Quiet
  <2>1. UNCHANGED <<stage, history, cut, socket>> /\ Later /\ SameIds
    BY <1>1 DEF Quiet, Others
  <2>2. CutIsSuperseded'
    <3>1. replySequence' \in Nat /\ replySequence <= replySequence'
      BY <2>1 DEF Later
    <3>2. \A m \in Links : reply'[m].id = reply[m].id
      BY <2>1 DEF SameIds
    <3>3. \A m \in Links : stage'[m] = "replying" => reply'[m].id <= replySequence'
      BY <1>0, <1>t, <2>1, <3>1, <3>2 DEF CutIsSuperseded
    <3>4. \A m \in cut' :
            \/ stage'[m] = "done"
            \/ stage'[m] = "replying" /\ reply'[m].id < replySequence'
      BY <1>0, <1>t, <2>1, <3>1, <3>2 DEF CutIsSuperseded
    <3>5. QED
      BY <1>0, <2>1, <3>3, <3>4 DEF CutIsSuperseded
  <2>3. CutReplyIsNotRecorded'
    BY <1>0, <2>1, SameHistory
  <2>4. QED
    BY <1>0, <2>2, <2>3 DEF CutInv
<1>2. CASE Settles
  <2>1. UNCHANGED <<history, cut, socket, reply, replySequence>>
    BY <1>2 DEF Settles, Others
  <2>2. \A m \in Links : /\ stage[m] = "done" => stage'[m] = "done"
                         /\ stage[m] = "replying" <=> stage'[m] = "replying"
    BY <1>t, <1>2 DEF Settles
  <2>3. /\ CutReplyIsNotRecorded'
        /\ \A s \in Sessions : \A i \in 1..Len(history'[s]) :
             history'[s][i].role = "assistant" => stage'[history'[s][i].by] = "done"
    BY <1>0, <2>1, <2>2, SameHistory
  <2>4. CutIsSuperseded'
    BY <1>0, <1>t, <2>1, <2>2, <2>3 DEF CutIsSuperseded
  <2>5. QED
    BY <1>0, <2>3, <2>4 DEF CutInv
<1>3. CASE Closes
  <2>1. /\ socket = "open" /\ socket' = "closed" /\ cut = {} /\ cut' = Replying
        /\ replySequence' = replySequence + 1
        /\ UNCHANGED <<history, stage, reply>>
    BY <1>0, <1>3 DEF Closes, CutIsSuperseded
  <2>2. \A m \in cut' : stage'[m] = "replying" /\ reply'[m].id < replySequence'
    BY <1>0, <1>t, <2>1 DEF Replying, CutIsSuperseded
  <2>3. \A m \in Links : stage'[m] = "replying" => reply'[m].id <= replySequence'
    BY <1>0, <1>t, <2>1 DEF CutIsSuperseded
  <2>4. CutIsSuperseded'
    BY <1>0, <2>1, <2>2, <2>3 DEF CutIsSuperseded
  <2>5. CutReplyIsNotRecorded'
    BY <1>0, <2>1 DEF CutIsSuperseded, CutReplyIsNotRecorded, Replying
  <2>6. QED
    BY <1>0, <2>4, <2>5 DEF CutInv
<1>4. ASSUME NEW n \in Links, Takes(n)
      PROVE  CutInv'
  <2>1. PICK s \in {"done", "identity", "relay"} : stage' = [stage EXCEPT ![n] = s]
    BY <1>4 DEF Takes
  <2>2. UNCHANGED <<history, cut, socket, reply>> /\ Later /\ stage[n] = "queued"
    BY <1>4 DEF Takes, Others, CanStart
  <2>3. \A m \in Links : /\ stage[m] = "done" => stage'[m] = "done"
                         /\ stage'[m] = "replying" => stage[m] = "replying"
                         /\ stage[m] = "replying" => stage'[m] = "replying"
    BY <1>t, <2>1, <2>2
  <2>4. /\ CutReplyIsNotRecorded'
        /\ \A k \in Sessions : \A i \in 1..Len(history'[k]) :
             history'[k][i].role = "assistant" => stage'[history'[k][i].by] = "done"
    BY <1>0, <2>2, <2>3, SameHistory
  <2>5. replySequence' \in Nat /\ replySequence <= replySequence'
    BY <2>2 DEF Later
  <2>6. CutIsSuperseded'
    BY <1>0, <1>t, <2>2, <2>3, <2>4, <2>5 DEF CutIsSuperseded
  <2>7. QED
    BY <1>0, <2>4, <2>6 DEF CutInv
<1>5. ASSUME NEW n \in Links, Begins(n)
      PROVE  CutInv'
  <2>1. /\ stage[n] = "queued" /\ append("user", n)
        /\ stage' = [stage EXCEPT ![n] = "replying"]
        /\ reply'[n].id = replySequence'
        /\ \A m \in Links \ {n} : reply'[m].id = reply[m].id
        /\ UNCHANGED <<cut, socket>>
        /\ replySequence' \in Nat /\ replySequence <= replySequence'
    BY <1>5 DEF Begins, CanStart, Later
  <2>2. n \notin cut
    BY <1>0, <2>1 DEF CutIsSuperseded
  <2>3. \A m \in Links : stage'[m] = IF m = n THEN "replying" ELSE stage[m]
    BY <1>t, <2>1
  <2>4. history'[session][Len(history'[session])] = Recorded("user", n)
    BY <1>0, <2>1, AppendedHistory
  <2>5. ASSUME NEW s \in Sessions, NEW i \in 1..Len(history'[s]),
               history'[s][i].role = "assistant"
        PROVE  ~(s = session /\ i = Len(history'[s]))
    BY <2>4, <2>5 DEF Recorded
  <2>6. ASSUME NEW s \in Sessions, NEW i \in 1..Len(history'[s]),
               history'[s][i].role = "assistant"
        PROVE  /\ stage'[history'[s][i].by] = "done"
               /\ history'[s][i].by \notin cut
    <3>1. /\ stage[history'[s][i].by] = "done" /\ history'[s][i].by \notin cut
          /\ history'[s][i].by \in Links
      BY <1>0, <2>1, <2>5, <2>6, OldAnswer
    <3>2. QED
      BY <2>1, <2>3, <3>1
  <2>7. \A m \in Links : stage'[m] = "replying" => reply'[m].id <= replySequence'
    BY <1>0, <1>t, <2>1, <2>3 DEF CutIsSuperseded
  <2>8. \A m \in cut' :
          \/ stage'[m] = "done"
          \/ stage'[m] = "replying" /\ reply'[m].id < replySequence'
    BY <1>0, <1>t, <2>1, <2>2, <2>3 DEF CutIsSuperseded
  <2>9. CutIsSuperseded' /\ CutReplyIsNotRecorded'
    BY <1>0, <2>1, <2>6, <2>7, <2>8 DEF CutIsSuperseded, CutReplyIsNotRecorded
  <2>10. QED
    BY <1>0, <2>9 DEF CutInv
<1>6. ASSUME NEW n \in Links, Finishes(n)
      PROVE  CutInv'
  <2>1. /\ stage[n] = "replying" /\ stage' = [stage EXCEPT ![n] = "done"]
        /\ \A m \in Links \ {n} : reply'[m].id = reply[m].id
        /\ UNCHANGED <<cut, socket, session, replySequence>>
    BY <1>6 DEF Finishes
  <2>2. \A m \in Links : stage'[m] = IF m = n THEN "done" ELSE stage[m]
    BY <1>t, <2>1
  <2>3. \A m \in Links : stage'[m] = "replying" => reply'[m].id <= replySequence'
    BY <1>0, <2>1, <2>2 DEF CutIsSuperseded
  <2>4. \A m \in cut' :
          \/ stage'[m] = "done"
          \/ stage'[m] = "replying" /\ reply'[m].id < replySequence'
    BY <1>0, <1>t, <2>1, <2>2 DEF CutIsSuperseded
  <2>5. CASE ~AnswerStands(n)
    <3>1. UNCHANGED <<history, cut>>
      BY <1>6, <2>1, <2>5 DEF Finishes
    <3>2. \A m \in Links : stage[m] = "done" => stage'[m] = "done"
      BY <2>2
    <3>3. /\ CutReplyIsNotRecorded'
          /\ \A s \in Sessions : \A i \in 1..Len(history'[s]) :
               history'[s][i].role = "assistant" => stage'[history'[s][i].by] = "done"
      BY <1>0, <3>1, <3>2, SameHistory
    <3>4. QED
      BY <1>0, <2>1, <2>3, <2>4, <3>3 DEF CutInv, CutIsSuperseded
  <2>6. CASE AnswerStands(n)
    <3>1. append("assistant", n)
      BY <1>6, <2>6 DEF Finishes
    <3>2. n \notin cut
      BY <1>0, <1>t, <2>1, <2>6 DEF AnswerStands, Cancelled, CutIsSuperseded
    <3>3. history'[session][Len(history'[session])] = Recorded("assistant", n)
      BY <1>0, <3>1, AppendedHistory
    <3>4. ASSUME NEW s \in Sessions, NEW i \in 1..Len(history'[s]),
                 history'[s][i].role = "assistant"
          PROVE  /\ stage'[history'[s][i].by] = "done"
                 /\ history'[s][i].by \notin cut
      <4>1. CASE s = session /\ i = Len(history'[s])
        <5>1. history'[s][i].by = n
          BY <3>3, <4>1 DEF Recorded
        <5>2. QED
          BY <2>2, <3>2, <5>1
      <4>2. CASE ~(s = session /\ i = Len(history'[s]))
        <5>1. /\ stage[history'[s][i].by] = "done" /\ history'[s][i].by \notin cut
              /\ history'[s][i].by \in Links
          BY <1>0, <3>1, <3>4, <4>2, OldAnswer
        <5>2. QED
          BY <2>2, <5>1
      <4>3. QED
        BY <4>1, <4>2
    <3>5. CutIsSuperseded' /\ CutReplyIsNotRecorded'
      BY <1>0, <2>1, <2>3, <2>4, <3>4 DEF CutIsSuperseded, CutReplyIsNotRecorded
    <3>6. QED
      BY <1>0, <3>5 DEF CutInv
  <2>7. QED
    BY <2>5, <2>6
<1>7. CASE Expires
  <2>1. PICK s \in Sessions : history' = [history EXCEPT ![s] = <<>>]
    BY <1>7 DEF Expires
  <2>2. UNCHANGED <<stage, reply, replySequence, cut, socket>>
    BY <1>7 DEF Expires
  <2>3. \A r \in Sessions : history'[r] = IF r = s THEN <<>> ELSE history[r]
    BY <1>0, <2>1 DEF TypeOK
  <2>4. Len(<<>>) = 0
    BY EmptySeq
  <2>5. CutIsSuperseded' /\ CutReplyIsNotRecorded'
    BY <1>0, <2>2, <2>3, <2>4 DEF CutIsSuperseded, CutReplyIsNotRecorded
  <2>6. QED
    BY <1>0, <2>5 DEF CutInv
<1>8. QED
  BY <1>0, <1>1, <1>2, <1>3, <1>4, <1>5, <1>6, <1>7 DEF Moves

LEMMA CutInit == Init => CutInv
<1>1. Init => ChainInv
  BY ChainInit
<1>2. Init => CutIsSuperseded
  BY DEF Init, Fresh, CutIsSuperseded
<1>3. Init => CutReplyIsNotRecorded
  BY DEF Init, Fresh, CutReplyIsNotRecorded
<1>4. QED
  BY <1>1, <1>2, <1>3 DEF CutInv

\* A reply that was running when its socket closed is never recorded.
THEOREM CutRepliesAreDropped == Spec => []CutReplyIsNotRecorded
<1>1. CutInv => CutReplyIsNotRecorded
  BY DEF CutInv
<1>2. QED
  BY <1>1, CutInit, CutStep, PTL DEF Spec


-----------------------------------------------------------------------------
(* What the client was told                                                 *)

\* The last announcement that was sent, or is still to be sent, carries the
\* session of the connection.
LastToldIsSession ==
  /\ identityTask = "known" => awaiting = <<>>
  /\ socket = "open" /\ awaiting # <<>> => awaiting[Len(awaiting)].session = session
  /\ socket = "open" /\ awaiting = <<>> /\ welcome # <<>> =>
       welcome[Len(welcome)].session = session

ToldInv == TypeOK /\ LastToldIsSession

\* Only these steps touch the greeting.
LEMMA GreetingMoves ==
  ASSUME Next
  PROVE  \/ UNCHANGED <<session, identityTask, awaiting, welcome>> /\ socket' \in {socket, "closed"}
         \/ \E n \in Links : HandleHello(n)
         \/ SttOpened \/ IdentityLoaded
<1>1. ASSUME NEW n \in Links, Handle(n)
      PROVE  \/ UNCHANGED <<session, identityTask, awaiting, welcome>> /\ socket' = socket
             \/ HandleHello(n)
  BY <1>1 DEF Handle, HandleStateless, HandleInterrupt, HandleUserText, HandleAudio,
              HandleInterim, HandleUtterance, HandleRelay, world, greeting
<1>2. ASSUME NEW n \in Links, RelayAnswered(n) \/ ReplyProgress(n)
      PROVE  UNCHANGED <<session, identityTask, awaiting, welcome>> /\ socket' = socket
  BY <1>2
     DEF RelayAnswered, ReplyProgress, AgentDelta, AgentEnd, AgentFail,
         TakeSegment,
              SegmentsEnd, TtsChunk, TtsEnd, TtsFail, FinishReply, ReplyStep, world, greeting
<1>3. QED
  BY <1>1, <1>2 DEF Next, ReceiveFrame, SttCallback, Arrive, SttFailed, SocketClose,
                    CleanupTurn, CleanupStt, SessionExpires, world, greeting

\* An announcement for the present session is the last one, told at once or
\* behind the others that wait.
LEMMA AnnouncedLast ==
  ASSUME TypeOK, LastToldIsSession, NEW g \in Awaiting, AwaitIdentity(g),
         g.session = session', socket' = socket
  PROVE  LastToldIsSession'
<1>1. awaiting \in Seq(Awaiting) /\ welcome \in Seq(Greetings)
  BY DEF TypeOK
<1>2. CASE identityTask = "known"
  <2>1. /\ identityTask' = identityTask /\ awaiting' = awaiting /\ awaiting = <<>>
        /\ welcome' = IF socket = "open" THEN welcome \o <<Announcement(g)>> ELSE welcome
    BY <1>2 DEF AwaitIdentity, Greet, LastToldIsSession
  <2>2. Announcement(g).session = session'
    BY DEF Announcement
  <2>3. ASSUME socket = "open"
        PROVE  welcome'[Len(welcome')] = Announcement(g)
    <3>1. Announcement(g) \in Greetings
      BY DEF Announcement, Greetings, Awaiting
    <3>2. welcome' = Append(welcome, Announcement(g))
      BY <1>1, <2>1, <2>3, <3>1
    <3>3. QED
      BY <1>1, <3>1, <3>2
  <2>4. QED
    BY <2>1, <2>2, <2>3 DEF LastToldIsSession
<1>3. CASE identityTask # "known"
  <2>1. /\ identityTask' = "loading" /\ awaiting' = Append(awaiting, g)
    BY <1>3 DEF AwaitIdentity
  <2>2. awaiting' # <<>> /\ awaiting'[Len(awaiting')] = g
    BY <1>1, <2>1
  <2>3. QED
    BY <2>1, <2>2 DEF LastToldIsSession
<1>4. QED
  BY <1>2, <1>3

LEMMA ToldStep == ToldInv /\ [Next]_vars => LastToldIsSession'
<1> SUFFICES ASSUME ToldInv, [Next]_vars
             PROVE  LastToldIsSession'
  OBVIOUS
<1>0. /\ TypeOK /\ LastToldIsSession /\ session \in Sessions
      /\ awaiting \in Seq(Awaiting) /\ welcome \in Seq(Greetings)
  BY DEF ToldInv, TypeOK
<1>1. CASE UNCHANGED <<session, identityTask, awaiting, welcome>> /\ socket' \in {socket, "closed"}
  BY <1>0, <1>1 DEF LastToldIsSession
<1>2. ASSUME NEW n \in Links, HandleHello(n)
      PROVE  LastToldIsSession'
  <2> DEFINE g == [kind |-> "hello.ack", session |-> session', link |-> n]
  <2>1. AwaitIdentity(g) /\ socket' = socket
    BY <1>2 DEF HandleHello, world
  <2>2. session' \in Sessions
    BY <1>0, <1>2, StepType DEF TypeOK
  <2>3. g \in Awaiting /\ g.session = session'
    BY <2>2 DEF Awaiting
  <2> HIDE DEF g
  <2>4. QED
    BY <1>0, <2>1, <2>3, AnnouncedLast
<1>3. CASE SttOpened
  <2> DEFINE g == [kind |-> "session.ready", session |-> session, link |-> None]
  <2>1. AwaitIdentity(g) /\ socket' = socket /\ session' = session
    BY <1>3 DEF SttOpened
  <2>2. g \in Awaiting /\ g.session = session'
    BY <1>0, <2>1 DEF Awaiting
  <2> HIDE DEF g
  <2>3. QED
    BY <1>0, <2>1, <2>2, AnnouncedLast
<1>4. CASE IdentityLoaded
  <2> DEFINE told == [i \in 1..Len(awaiting) |-> Announcement(awaiting[i])]
  <2>1. /\ awaiting' = <<>> /\ session' = session /\ socket' = socket
        /\ welcome' = IF socket = "open" THEN welcome \o told ELSE welcome
    BY <1>4 DEF IdentityLoaded, Greet, world
  <2>2. told \in Seq(Greetings) /\ Len(told) = Len(awaiting) /\ Len(awaiting) \in Nat
    <3>1. \A i \in 1..Len(awaiting) : awaiting[i] \in Awaiting
      BY <1>0
    <3>2. \A i \in 1..Len(awaiting) : Announcement(awaiting[i]) \in Greetings
      BY <3>1 DEF Announcement, Awaiting, Greetings
    <3>3. QED
      BY <1>0, <3>2
  <2>3. CASE awaiting = <<>>
    <3>1. told = <<>>
      BY <2>3
    <3>2. welcome \o <<>> = welcome
      BY <1>0, ConcatEmptySeq
    <3> HIDE DEF told
    <3>3. welcome' = welcome
      BY <2>1, <3>1, <3>2
    <3>4. QED
      BY <1>0, <2>1, <2>3, <3>3 DEF LastToldIsSession
  <2>4. CASE awaiting # <<>> /\ socket = "open"
    <3>1. Len(awaiting) \in 1..Len(awaiting)
      BY <1>0, <2>4
    <3>2. told[Len(awaiting)].session = session
      BY <1>0, <2>4, <3>1 DEF LastToldIsSession, Announcement
    <3> HIDE DEF told
    <3>3. welcome' = welcome \o told
      BY <2>1, <2>4
    <3>4. welcome'[Len(welcome')] = told[Len(awaiting)]
      BY <1>0, <2>2, <3>1, <3>3
    <3>5. QED
      BY <2>1, <3>2, <3>4 DEF LastToldIsSession
  <2>5. CASE socket # "open"
    BY <2>1, <2>5 DEF LastToldIsSession
  <2>6. QED
    BY <2>3, <2>4, <2>5
<1>5. CASE UNCHANGED vars
  BY <1>0, <1>5 DEF vars, world, greeting, LastToldIsSession
<1>6. QED
  BY <1>1, <1>2, <1>3, <1>4, <1>5, GreetingMoves

\* Once no hello is being answered, the session the client was last told is the
\* one the connection uses, in whichever order STT, identity and hello complete.
THEOREM ClientIsToldItsSession == Spec => []ClientKnowsSession
<1>1. Init => ToldInv
  BY InitType DEF Init, Fresh, ToldInv, LastToldIsSession
<1>2. ToldInv /\ [Next]_vars => ToldInv'
  BY StepType, ToldStep DEF ToldInv
<1>3. ToldInv => ClientKnowsSession
  BY DEF ToldInv, LastToldIsSession, ClientKnowsSession
<1>4. QED
  BY <1>1, <1>2, <1>3, PTL DEF Spec


-----------------------------------------------------------------------------
(* What the loops of a reply do to its locals.                              *)

\* The loops never change which turn a reply answers or its number; what has
\* nothing to speak stays silent, and a finished audio task stays finished.
Loops(n) ==
  LET old == reply[n]  new == reply'[n]
  IN  /\ \A m \in Links \ {n} : reply'[m] = reply[m]
      /\ new.id = old.id /\ new.turn = old.turn
      /\ old.audio = "off" /\ ~old.pending /\ old.segments = <<>> =>
           ~new.pending /\ new.segments = <<>>
      /\ new.audio = "off" => old.audio = "off"
      /\ new.audio = "done" =>
           \/ Cancelled(n)
           \/ new.agent # "streaming" /\ new.segments = <<>>
           \/ /\ old.audio = "done"
              /\ old.agent # "streaming" =>
                   new.agent # "streaming" /\ new.segments = old.segments

\* The locals of one reply after a change of some of its fields.
LEMMA LocalsChange ==
  ASSUME TypeOK, NEW n \in Links, NEW r, reply' = [reply EXCEPT ![n] = r]
  PROVE  reply'[n] = r /\ \A m \in Links \ {n} : reply'[m] = reply[m]
  BY DEF TypeOK

LEMMA AudioLoops ==
  ASSUME TypeOK, NEW n \in Links, NEW a, SetAudio(n, a), a # "off",
         a = "done" => reply[n].agent # "streaming" /\ reply[n].segments = <<>>,
         reply[n].audio # "off"
  PROVE  Loops(n)
<1>1. reply[n] \in Replies
  BY DEF TypeOK
<1>2. reply' = [reply EXCEPT ![n] = [reply[n] EXCEPT !.audio = a]]
  BY DEF SetAudio
<1>3. /\ reply'[n] = [reply[n] EXCEPT !.audio = a]
      /\ \A m \in Links \ {n} : reply'[m] = reply[m]
  BY <1>2, LocalsChange
<1>4. /\ reply'[n].id = reply[n].id /\ reply'[n].turn = reply[n].turn
      /\ reply'[n].audio = a /\ reply'[n].agent = reply[n].agent
      /\ reply'[n].segments = reply[n].segments
  BY <1>1, <1>3 DEF Replies
<1>5. QED
  BY <1>3, <1>4 DEF Loops

LEMMA DeltasLeave ==
  ASSUME TypeOK, NEW n \in Links, LeaveDeltaLoop(n), reply[n].agent = "streaming",
         reply[n].audio = "done" => Cancelled(n)
  PROVE  Loops(n)
<1>1. reply[n] \in Replies
  BY DEF TypeOK
<1>2. PICK speakable \in BOOLEAN :
        reply' = [reply EXCEPT
          ![n].agent = "ended",
          ![n].segments = IF reply[n].pending THEN Append(@, speakable) ELSE @,
          ![n].pending = FALSE]
  BY DEF LeaveDeltaLoop
<1> DEFINE last == IF reply[n].pending THEN Append(reply[n].segments, speakable)
                   ELSE reply[n].segments
           r == [reply[n] EXCEPT !.agent = "ended", !.segments = last, !.pending = FALSE]
<1>3. reply' = [reply EXCEPT ![n] = r]
  BY <1>1, <1>2 DEF Replies
<1>4. reply'[n] = r /\ \A m \in Links \ {n} : reply'[m] = reply[m]
  BY <1>3, LocalsChange
<1>5. /\ r.id = reply[n].id /\ r.turn = reply[n].turn /\ r.audio = reply[n].audio
      /\ r.pending = FALSE /\ r.segments = last /\ r.agent = "ended"
  BY <1>1 DEF Replies
<1>6. ~reply[n].pending => last = reply[n].segments
  OBVIOUS
<1> HIDE DEF last, r
<1>7. QED
  BY <1>4, <1>5, <1>6 DEF Loops

\* A silent reply has nothing to speak; an audio task that is done has spoken
\* everything, unless the reply is superseded; and a reply that was cancelled is
\* superseded for good: its number is never the current one again.
SpokenInv ==
  /\ \A n \in Links :
       reply[n].audio = "off" => ~reply[n].pending /\ reply[n].segments = <<>>
  /\ \A n \in Links :
       stage[n] = "replying" =>
         /\ reply[n].id <= replySequence
         /\ replyAbort => reply[n].id < replySequence
         /\ reply[n].audio = "done" =>
              \/ reply[n].id < replySequence
              \/ reply[n].agent # "streaming" /\ reply[n].segments = <<>>

LEMMA LoopStep ==
  ASSUME TypeOK, SpokenInv, NEW n \in Links, ReplyProgress(n), ~FinishReply(n)
  PROVE  Loops(n)
<1>1. /\ reply[n] \in Replies /\ reply \in [Links -> Replies]
      /\ reply[n].id \in Nat /\ replySequence \in Nat
      /\ reply[n].segments \in Seq(BOOLEAN)
  BY DEF TypeOK, Replies
<1>2. stage[n] = "replying"
  BY DEF ReplyProgress, AgentDelta, AgentEnd, AgentFail, TakeSegment, SegmentsEnd, TtsChunk,
         TtsEnd, TtsFail, Runs
<1>3. reply[n].audio = "done" /\ reply[n].agent = "streaming" => Cancelled(n)
  BY <1>1, <1>2 DEF SpokenInv, Cancelled
<1>4. CASE AgentDelta(n)
  <2>1. CASE Cancelled(n)
    BY <1>4, <2>1, DeltasLeave DEF AgentDelta
  <2>2. CASE ~Cancelled(n)
    <3>1. PICK flushed \in Flushes, rest \in BOOLEAN :
            reply' = [reply EXCEPT
              ![n].deltas = @ + 1,
              ![n].segments = IF reply[n].audio = "off" THEN @ ELSE @ \o flushed,
              ![n].pending = reply[n].audio # "off" /\ rest]
      BY <1>4, <2>2 DEF AgentDelta
    <3> DEFINE grown == IF reply[n].audio = "off" THEN reply[n].segments
                        ELSE reply[n].segments \o flushed
               more == reply[n].audio # "off" /\ rest
               r == [reply[n] EXCEPT !.deltas = reply[n].deltas + 1,
                                     !.segments = grown, !.pending = more]
    <3>2. reply' = [reply EXCEPT ![n] = r]
      BY <1>1, <3>1 DEF Replies
    <3>3. reply'[n] = r /\ \A m \in Links \ {n} : reply'[m] = reply[m]
      BY <3>2, LocalsChange
    <3>4. /\ r.id = reply[n].id
          /\ r.turn = reply[n].turn
          /\ r.audio = reply[n].audio
          /\ r.pending = more /\ r.segments = grown
      BY <1>1 DEF Replies
    <3>5. reply[n].audio = "off" => grown = reply[n].segments /\ more = FALSE
      OBVIOUS
    <3>6. reply[n].audio # "done"
      BY <1>3, <1>4, <2>2 DEF AgentDelta
    <3> HIDE DEF grown, more, r
    <3>7. QED
      BY <3>3, <3>4, <3>5, <3>6 DEF Loops
  <2>3. QED
    BY <2>1, <2>2
<1>5. CASE AgentEnd(n)
  BY <1>3, <1>5, DeltasLeave DEF AgentEnd
<1>6. CASE AgentFail(n)
  <2> DEFINE r == [reply[n] EXCEPT !.agent = "failed"]
  <2>1. reply' = [reply EXCEPT ![n] = r] /\ reply[n].agent = "streaming"
    BY <1>6 DEF AgentFail
  <2>2. reply'[n] = r /\ \A m \in Links \ {n} : reply'[m] = reply[m]
    BY <2>1, LocalsChange
  <2>3. /\ r.id = reply[n].id /\ r.turn = reply[n].turn /\ r.audio = reply[n].audio
        /\ r.pending = reply[n].pending /\ r.segments = reply[n].segments
    BY <1>1 DEF Replies
  <2> HIDE DEF r
  <2>4. QED
    BY <1>3, <2>1, <2>2, <2>3 DEF Loops
<1>7. CASE TakeSegment(n)
  <2> DEFINE a == IF Cancelled(n) THEN "done"
                  ELSE IF Head(reply[n].segments) THEN "connecting" ELSE "waiting"
             r == [reply[n] EXCEPT !.segments = Tail(reply[n].segments), !.audio = a]
  <2>1. /\ reply' = [reply EXCEPT ![n].segments = Tail(@), ![n].audio = a]
        /\ reply[n].audio = "waiting"
    BY <1>7 DEF TakeSegment
  <2>2. a # "off" /\ (a = "done" => Cancelled(n))
    OBVIOUS
  <2> HIDE DEF a
  <2>3. reply' = [reply EXCEPT ![n] = r]
    BY <1>1, <2>1 DEF Replies
  <2>4. reply'[n] = r /\ \A m \in Links \ {n} : reply'[m] = reply[m]
    BY <2>3, LocalsChange
  <2>5. r.id = reply[n].id /\ r.turn = reply[n].turn /\ r.audio = a
    BY <1>1 DEF Replies
  <2> HIDE DEF r
  <2>6. QED
    BY <2>1, <2>2, <2>4, <2>5 DEF Loops
<1>8. CASE SegmentsEnd(n)
  BY <1>8, AudioLoops DEF SegmentsEnd, QueueClosed
<1>9. CASE TtsChunk(n) \/ TtsEnd(n) \/ TtsFail(n)
  <2>1. PICK a : SetAudio(n, a) /\ a \in {"waiting", "speaking", "failed"}
    BY <1>9 DEF TtsChunk, TtsEnd, TtsFail
  <2>2. reply[n].audio \in {"connecting", "speaking"}
    BY <1>9 DEF TtsChunk, TtsEnd, TtsFail, Synthesising
  <2>3. QED
    BY <2>1, <2>2, AudioLoops
<1>10. QED
  BY <1>4, <1>5, <1>6, <1>7, <1>8, <1>9 DEF ReplyProgress

\* What a step does to the replies: nothing, cancel what runs, begin the next one,
\* go on with one, or end one.
LEMMA ReplyKinds ==
  ASSUME TypeOK, Next
  PROVE  \/ UNCHANGED <<reply, replyAbort, replySequence>>
            /\ \A n \in Links : stage'[n] = "replying" => stage[n] = "replying"
         \/ /\ UNCHANGED reply /\ replyAbort' = TRUE /\ replySequence' = replySequence + 1
            /\ \A n \in Links : stage'[n] = "replying" => stage[n] = "replying"
         \/ \E n, turn \in Links, bumps \in {1, 2} :
              BeginReply(n, turn, bumps) /\ (turn = n \/ turn = activeTurn)
         \/ \E n \in Links :
              ReplyProgress(n) /\ ~FinishReply(n) /\ UNCHANGED <<stage, replyAbort, replySequence>>
         \/ \E n \in Links : FinishReply(n)
<1>0. stage \in [Links -> Stages] /\ activeTurn \in {None} \union Links
  BY DEF TypeOK
<1>1. ASSUME NEW n \in Links, Handle(n), ~HandleUserText(n), ~HandleUtterance(n)
      PROVE  /\ \/ UNCHANGED <<reply, replyAbort, replySequence>>
                \/ UNCHANGED reply /\ replyAbort' = TRUE /\ replySequence' = replySequence + 1
             /\ \E v \in {"done", "identity", "relay"} : stage' = [stage EXCEPT ![n] = v]
  <2>1. CASE HandleHello(n)
    BY <2>1 DEF HandleHello, flags
  <2>2. CASE HandleInterrupt(n)
    BY <2>2 DEF HandleInterrupt, Done, cancelReply
  <2>3. CASE HandleStateless(n) \/ HandleAudio(n) \/ HandleInterim(n) \/ HandleRelay(n)
    BY <2>3
       DEF HandleStateless, HandleAudio, HandleInterim, HandleRelay, Done, flags
  <2>4. QED
    BY <1>1, <2>1, <2>2, <2>3 DEF Handle
<1>2. ASSUME NEW n \in Links, HandleUserText(n) \/ HandleUtterance(n)
      PROVE  \/ UNCHANGED <<reply, replyAbort, replySequence>> /\ stage' = [stage EXCEPT ![n] = "done"]
             \/ \E turn \in Links, bumps \in {1, 2} :
                  BeginReply(n, turn, bumps) /\ (turn = n \/ turn = activeTurn)
  BY <1>0, <1>2 DEF HandleUserText, HandleUtterance, Done, flags
<1>3. ASSUME NEW n \in Links, NEW v \in {"done", "identity", "relay"},
             stage' = [stage EXCEPT ![n] = v]
      PROVE  \A m \in Links : stage'[m] = "replying" => stage[m] = "replying"
  BY <1>0, <1>3
<1>4. ASSUME NEW n \in Links, ReplyProgress(n), ~FinishReply(n)
      PROVE  UNCHANGED <<stage, replyAbort, replySequence>>
  BY <1>4
     DEF ReplyProgress, AgentDelta, AgentEnd, AgentFail, TakeSegment, SegmentsEnd,
         TtsChunk,
              TtsEnd, TtsFail, ReplyStep, flags
<1>5. ASSUME NEW n \in Links, RelayAnswered(n)
      PROVE  UNCHANGED <<reply, replyAbort, replySequence>> /\ stage' = [stage EXCEPT ![n] = "done"]
  BY <1>5 DEF RelayAnswered, Done, flags
<1>6. ASSUME IdentityLoaded
      PROVE  /\ UNCHANGED <<reply, replyAbort, replySequence>>
             /\ \A n \in Links : stage'[n] = "replying" => stage[n] = "replying"
  BY <1>6 DEF IdentityLoaded, flags
<1>7. ASSUME \/ \E f \in Frames : ReceiveFrame(f)
             \/ \E k \in SttEvents : SttCallback(k)
             \/ SttOpened \/ SttFailed \/ CleanupTurn \/ CleanupStt
             \/ \E s \in Sessions : SessionExpires(s)
      PROVE  UNCHANGED <<reply, replyAbort, replySequence, stage>>
  BY <1>7
     DEF ReceiveFrame, SttCallback, Arrive, SttOpened, SttFailed, CleanupTurn,
         CleanupStt,
              SessionExpires, flags
<1>8. ASSUME SocketClose
      PROVE  UNCHANGED <<reply, stage>> /\ replyAbort' = TRUE /\ replySequence' = replySequence + 1
  BY <1>8 DEF SocketClose, cancelReply
<1>9. ASSUME NEW n \in Links, Handle(n)
      PROVE  \/ UNCHANGED <<reply, replyAbort, replySequence>>
                /\ \A m \in Links : stage'[m] = "replying" => stage[m] = "replying"
             \/ /\ UNCHANGED reply /\ replyAbort' = TRUE /\ replySequence' = replySequence + 1
                /\ \A m \in Links : stage'[m] = "replying" => stage[m] = "replying"
             \/ \E turn \in Links, bumps \in {1, 2} :
                  BeginReply(n, turn, bumps) /\ (turn = n \/ turn = activeTurn)
  BY <1>1, <1>2, <1>3, <1>9
<1>10. QED
  BY <1>3, <1>4, <1>5, <1>6, <1>7, <1>8, <1>9 DEF Next

LEMMA SpokenStep == TypeOK /\ SpokenInv /\ [Next]_vars => SpokenInv'
<1> SUFFICES ASSUME TypeOK, SpokenInv, [Next]_vars
             PROVE  SpokenInv'
  OBVIOUS
<1>0. /\ reply \in [Links -> Replies] /\ replySequence \in Nat
      /\ stage \in [Links -> Stages]
      /\ \A n \in Links : reply[n].id \in Nat
  BY DEF TypeOK, Replies
<1>1. CASE /\ UNCHANGED <<reply, replyAbort, replySequence>>
           /\ \A n \in Links : stage'[n] = "replying" => stage[n] = "replying"
  BY <1>1 DEF SpokenInv
<1>2. CASE /\ UNCHANGED reply /\ replyAbort' = TRUE /\ replySequence' = replySequence + 1
           /\ \A n \in Links : stage'[n] = "replying" => stage[n] = "replying"
  BY <1>0, <1>2 DEF SpokenInv
<1>3. ASSUME NEW n \in Links, NEW turn \in Links, NEW bumps \in {1, 2},
             BeginReply(n, turn, bumps)
      PROVE  SpokenInv'
  <2> DEFINE a == IF audioOut THEN "waiting" ELSE "off"
             r == Locals(replySequence + bumps, turn, "streaming", a)
  <2>1. /\ reply' = [reply EXCEPT ![n] = r] /\ replyAbort' = FALSE
        /\ replySequence' = replySequence + bumps
        /\ stage' = [stage EXCEPT ![n] = "replying"]
    BY <1>3 DEF BeginReply
  <2>3. /\ r.id = replySequence + bumps /\ r.audio = a /\ a # "done"
        /\ r.segments = <<>> /\ r.pending = FALSE
    BY DEF Locals
  <2> HIDE DEF r, a
  <2>2. reply'[n] = r /\ \A m \in Links \ {n} : reply'[m] = reply[m]
    BY <2>1, LocalsChange
  <2>4. \A m \in Links \ {n} : stage'[m] = stage[m]
    BY <1>0, <2>1
  <2>5. replySequence' \in Nat /\ replySequence < replySequence'
    BY <1>0, <2>1
  <2>6. \A m \in Links :
          reply'[m].audio = "off" => ~reply'[m].pending /\ reply'[m].segments = <<>>
    BY <2>2, <2>3 DEF SpokenInv
  <2>7. reply'[n].id <= replySequence' /\ reply'[n].audio # "done"
    BY <1>0, <2>1, <2>2, <2>3
  <2>8. \A m \in Links \ {n} : stage'[m] = "replying" => reply'[m].id < replySequence'
    BY <1>0, <2>2, <2>4, <2>5 DEF SpokenInv
  <2>9. \A m \in Links \ {n} : reply'[m].id \in Nat
    BY <1>0, <2>2
  <2>10. \A m \in Links : stage'[m] = "replying" =>
           /\ reply'[m].id <= replySequence'
           /\ replyAbort' => reply'[m].id < replySequence'
           /\ reply'[m].audio = "done" =>
                \/ reply'[m].id < replySequence'
                \/ reply'[m].agent # "streaming" /\ reply'[m].segments = <<>>
    BY <2>1, <2>5, <2>7, <2>8, <2>9
  <2>11. QED
    BY <2>6, <2>10 DEF SpokenInv
<1>4. ASSUME NEW n \in Links, ReplyProgress(n), ~FinishReply(n),
             UNCHANGED <<stage, replyAbort, replySequence>>
      PROVE  SpokenInv'
  <2>1. Loops(n)
    BY <1>4, LoopStep
  <2>2. \A m \in Links \ {n} : reply'[m] = reply[m]
    BY <2>1 DEF Loops
  <2>3. stage[n] = "replying"
    BY <1>4
       DEF ReplyProgress, AgentDelta, AgentEnd, AgentFail, TakeSegment,
           SegmentsEnd,
                TtsChunk, TtsEnd, TtsFail, Runs
  <2>4. Cancelled(n) => reply[n].id < replySequence
    BY <1>0, <2>3 DEF SpokenInv, Cancelled
  <2>5. reply'[n].audio = "off" => ~reply'[n].pending /\ reply'[n].segments = <<>>
    BY <2>1 DEF SpokenInv, Loops
  <2>6. reply'[n].audio = "done" =>
          \/ reply'[n].id < replySequence
          \/ reply'[n].agent # "streaming" /\ reply'[n].segments = <<>>
    BY <2>1, <2>3, <2>4 DEF SpokenInv, Loops
  <2>7. reply'[n].id = reply[n].id
    BY <2>1 DEF Loops
  <2>8. QED
    BY <1>4, <2>2, <2>5, <2>6, <2>7 DEF SpokenInv
<1>5. ASSUME NEW n \in Links, FinishReply(n)
      PROVE  SpokenInv'
  <2> DEFINE r == Locals(0, reply[n].turn, "off", "off")
  <2>1. /\ reply' = [reply EXCEPT ![n] = r]
        /\ UNCHANGED <<replyAbort, replySequence>>
        /\ stage' = [stage EXCEPT ![n] = "done"]
    BY <1>5 DEF FinishReply, Done, ReplyStep, flags
  <2>2. reply'[n] = r /\ \A m \in Links \ {n} : reply'[m] = reply[m]
    BY <2>1, LocalsChange
  <2>3. r.segments = <<>> /\ r.pending = FALSE
    BY DEF Locals
  <2>4. stage'[n] = "done" /\ \A m \in Links \ {n} : stage'[m] = stage[m]
    BY <1>0, <2>1
  <2> HIDE DEF r
  <2>5. QED
    BY <2>1, <2>2, <2>3, <2>4 DEF SpokenInv
<1>6. CASE UNCHANGED vars
  BY <1>6 DEF vars, flags, SpokenInv
<1>7. QED
  BY <1>1, <1>2, <1>3, <1>4, <1>5, <1>6, ReplyKinds

\* A history grows by an answer only where a reply finishes.
LEMMA AnswersFinish ==
  ASSUME TypeOK, Next, NEW n \in Links, Answers(n)
  PROVE  FinishReply(n) /\ AnswerStands(n)
<1>0. history \in [Sessions -> Seq(Entries)] /\ session \in Sessions
  BY DEF TypeOK
<1>1. PICK s \in Sessions :
        /\ history'[s] \notin {history[s], <<>>}
        /\ history'[s][Len(history'[s])] = Recorded("assistant", n)
  BY DEF Answers
<1>2. ASSUME NEW m \in Links, NEW role \in {"user", "assistant"}, append(role, m)
      PROVE  role = "assistant" /\ m = n
  <2>1. Recorded(role, m) \in Entries
    BY DEF Recorded, Entries
  <2>2. \A q \in Sessions \ {session} : history'[q] = history[q]
    BY <1>0, <1>2 DEF append
  <2>3. s = session
    BY <1>1, <2>2
  <2>4. history'[s] = Newest(Append(history[s], Recorded(role, m)))
    BY <1>0, <1>2, <2>3 DEF append
  <2>5. history'[s][Len(history'[s])] = Recorded(role, m)
    BY <1>0, <2>1, <2>4, NewestAppended
  <2>6. QED
    BY <1>1, <2>5 DEF Recorded
<1>3. CASE UNCHANGED history
  BY <1>1, <1>3
<1>4. ASSUME NEW q \in Sessions, SessionExpires(q)
      PROVE  FALSE
  BY <1>0, <1>1, <1>4 DEF SessionExpires
<1>5. ASSUME NEW m \in Links, NEW turn, NEW bumps, BeginReply(m, turn, bumps)
      PROVE  FALSE
  BY <1>2, <1>5 DEF BeginReply
<1>6. ASSUME NEW m \in Links, FinishReply(m)
      PROVE  FinishReply(n) /\ AnswerStands(n)
  BY <1>1, <1>2, <1>6 DEF FinishReply
<1>7. ASSUME NEW m \in Links, Handle(m)
      PROVE  UNCHANGED history \/ \E turn, bumps : BeginReply(m, turn, bumps)
  BY <1>7
     DEF Handle, HandleHello, HandleStateless, HandleInterrupt, HandleUserText,
         HandleAudio,
              HandleInterim, HandleUtterance, HandleRelay, records
<1>8. ASSUME NEW m \in Links, RelayAnswered(m) \/ (ReplyProgress(m) /\ ~FinishReply(m))
      PROVE  UNCHANGED history
  BY <1>8
     DEF RelayAnswered, ReplyProgress, AgentDelta, AgentEnd, AgentFail,
         TakeSegment,
              SegmentsEnd, TtsChunk, TtsEnd, TtsFail, records
<1>9. ASSUME \/ \E f \in Frames : ReceiveFrame(f)
             \/ \E k \in SttEvents : SttCallback(k)
             \/ SttOpened \/ SttFailed \/ IdentityLoaded
             \/ SocketClose \/ CleanupTurn \/ CleanupStt
      PROVE  UNCHANGED history
  BY <1>9
     DEF ReceiveFrame, SttCallback, Arrive, SttOpened, SttFailed, IdentityLoaded,
              SocketClose, CleanupTurn, CleanupStt, records
<1>10. QED
  BY <1>3, <1>4, <1>5, <1>6, <1>7, <1>8, <1>9 DEF Next

\* An answer counts as given only after both loops are through, so that every
\* segment was spoken or had nothing to speak, whatever cancels and fails.
THEOREM AnswersAreSpoken == Spec => AnswerOnlyAfterSpeech
<1> DEFINE Spoken == \A n \in Links :
             Answers(n) => reply[n].audio \in {"off", "done"} /\ reply[n].segments = <<>>
<1>1. Init => TypeOK /\ SpokenInv
  <2>1. Init => SpokenInv
    BY DEF Init, Fresh, NoReply, Locals, SpokenInv
  <2>2. QED
    BY <2>1, InitType
<1>2. TypeOK /\ SpokenInv /\ [Next]_vars => TypeOK' /\ SpokenInv'
  BY StepType, SpokenStep
<1>3. TypeOK /\ SpokenInv /\ [Next]_vars => [Spoken]_vars
  <2> SUFFICES ASSUME TypeOK, SpokenInv, Next, NEW n \in Links, Answers(n)
               PROVE  reply[n].audio \in {"off", "done"} /\ reply[n].segments = <<>>
    OBVIOUS
  <2>1. FinishReply(n) /\ ~Failed(n) /\ ~Cancelled(n)
    BY AnswersFinish DEF AnswerStands
  <2>2. reply[n].audio \in {"off", "done"} /\ stage[n] = "replying"
    BY <2>1 DEF FinishReply, AudioSettled, Failed, Runs
  <2>3. reply[n].id = replySequence /\ replySequence \in Nat
    BY <2>1 DEF Cancelled, TypeOK
  <2>4. QED
    BY <2>2, <2>3 DEF SpokenInv
<1>4. QED
  BY <1>1, <1>2, <1>3, PTL DEF Spec, AnswerOnlyAfterSpeech

=============================================================================
