------------------------- MODULE RealtimeConnection -------------------------
(***************************************************************************)
(* One websocket connection of the TypeScript hub, class                   *)
(* RealtimeConnection of src/ts/hub/server.ts: the promise chain that      *)
(* serialises client frames and STT callbacks, the reply with its two      *)
(* concurrent loops (agent deltas, spoken segments), the abort flag and    *)
(* sequence number, the greeting, and the cleanup that runs outside the    *)
(* chain when the socket closes.                                           *)
(*                                                                         *)
(* A step is one uninterrupted run of JavaScript between two awaits on     *)
(* something external (a socket, the agent, TTS, STT, the identity         *)
(* request). Texts are left out: a delta is how many segments it completes *)
(* and whether each has anything left to speak after sanitising. Operators *)
(* marked "mutant" are slips of the definition that follows them; the      *)
(* specification does not use them.                                        *)
(***************************************************************************)
EXTENDS Naturals, Sequences

CONSTANTS
  Sessions,    (* session ids a hello may name                             *)
  OwnSession,  (* the random default session of a fresh connection         *)
  Frames,      (* the frames a client of this instance may send            *)
  SttEvents,   (* which STT callbacks occur: interim, utterance            *)
  MaxMessages, (* messages SessionStore keeps of a session, 12 in the code *)
  MaxEvents,   (* bound: links of the message chain                        *)
  MaxDeltas,   (* bound: deltas of one reply                               *)
  MaxFlush     (* bound: segments one delta may complete                   *)

FrameKinds ==
  {"hello", "ping", "interrupt", "interruptSignal", "userText",
   "politeText", "emptyText", "audio", "relay"}

FrameRecords == [kind : FrameKinds, session : Sessions, audio : BOOLEAN]
SttKinds == {"interim", "utterance"}
SttRecord(k) == [kind |-> k, session |-> OwnSession, audio |-> FALSE]

ASSUME ConnectionAssumption ==
  /\ OwnSession \in Sessions
  /\ Frames \subseteq FrameRecords
  /\ SttEvents \subseteq SttKinds
  /\ MaxMessages \in Nat \ {0}
  /\ MaxEvents \in Nat
  /\ MaxDeltas \in Nat
  /\ MaxFlush \in Nat

None == 0          \* no turn, no reply: the code's null
Links == 1..MaxEvents

VARIABLES
  (* the connection and what it runs on *)
  hub,             (* up, or crashed by an unhandled promise rejection     *)
  socket,          (* open or closed                                       *)
  stt,             (* sttSession: connecting, open, failed, closing, null  *)
  cleanup,         (* how far the close handler has come                   *)
  (* the greeting *)
  session,         (* sessionId                                            *)
  audioOut,        (* capabilities.output includes streamed_audio          *)
  identityTask,    (* null, loading, known                                 *)
  awaiting,        (* greetings waiting for the identity, in order         *)
  welcome,         (* history: session.ready and hello.ack as sent         *)
  (* the chain *)
  messageChain,    (* what arrived, in order                               *)
  stage,           (* how far the handler of each link has come            *)
  (* turns and replies *)
  activeTurn,      (* the turn that collects audio, named by its first link *)
  outcome,         (* status written to the reply.json of a turn           *)
  history,         (* SessionStore: messages of each session               *)
  replyAbort, replySequence,
  replyTask,       (* link whose handler awaits a reply, or None           *)
  reply,           (* locals of runReply in the handler of each link; of a *)
                   (* finished one only the turn is kept                   *)
  (* history variables *)
  cut,             (* replies in flight when the socket closed             *)
  interrupted      (* replies in flight when an interrupt arrived          *)

world == <<hub, socket, stt, cleanup>>
greeting == <<session, audioOut, identityTask, awaiting, welcome>>
flags == <<replyAbort, replySequence>>
records == <<outcome, history>>
ghosts == <<cut, interrupted>>
vars == <<world, greeting, messageChain, stage, activeTurn, records, flags,
          replyTask, reply, ghosts>>

Locals(id, turn, agent, audio) ==
  [id |-> id, turn |-> turn, agent |-> agent, audio |-> audio,
   segments |-> <<>>, pending |-> FALSE, deltas |-> 0]
NoReply == Locals(0, None, "off", "off")

\* A connection with nothing in its chain, at some point of its greeting.
Fresh(sttState, identity, greetings) ==
  /\ hub = "up" /\ socket = "open" /\ stt = sttState /\ cleanup = "none"
  /\ session = OwnSession
  /\ audioOut = TRUE
  /\ identityTask = identity /\ awaiting = <<>> /\ welcome = greetings
  /\ messageChain = <<>>
  /\ stage = [n \in Links |-> "queued"]
  /\ activeTurn = None
  /\ outcome = [n \in Links |-> "none"]
  /\ history = [s \in Sessions |-> <<>>]
  /\ replyAbort = FALSE /\ replySequence = 0 /\ replyTask = None
  /\ reply = [n \in Links |-> NoReply]
  /\ cut = {} /\ interrupted = {}

Init == Fresh("connecting", "null", <<>>)

-----------------------------------------------------------------------------
(* Operators shared by the handlers *)

Replying == {n \in Links : stage[n] = "replying"}

\* A reply already runs and was not cancelled: audio and polite texts yield.
ReplyInProgress == replyTask # None /\ ~replyAbort

\* The check made after every await of runReply.
Cancelled(n) == replyAbort \/ reply[n].id # replySequence

\* The audio loop's queue is closed on the normal and on the error path.
QueueOpenAfterError(n) == reply[n].agent = "ended"                  \* mutant
QueueClosed(n) == reply[n].agent \in {"ended", "failed"}

cancelReply ==
  /\ replyAbort' = TRUE
  /\ replySequence' = replySequence + 1

\* activeTurn = null
DropActiveTurn == activeTurn' = None

ensureActiveTurn(n) ==
  activeTurn' = IF activeTurn = None THEN n ELSE activeTurn

Recorded(role, n) == [role |-> role, by |-> n]
Newest(messages) ==
  SubSeq(messages,
         IF Len(messages) > MaxMessages THEN Len(messages) - MaxMessages + 1 ELSE 1,
         Len(messages))
append(role, n) ==
  history' = [history EXCEPT ![session] = Newest(Append(@, Recorded(role, n)))]

\* send drops everything once the socket is not open.
Greet(greetings) ==
  welcome' = IF socket = "open" THEN welcome \o greetings ELSE welcome
Announcement(g) == [kind |-> g.kind, session |-> g.session]

\* resolveRuntimeIdentity is memoised: the first caller starts the request,
\* and everybody who asked before the answer is resumed in order.
AwaitIdentityInReverse(g) ==                                        \* mutant
  IF identityTask = "known"
  THEN Greet(<<Announcement(g)>>) /\ UNCHANGED <<identityTask, awaiting>>
  ELSE identityTask' = "loading" /\ awaiting' = <<g>> \o awaiting /\ UNCHANGED welcome

AwaitIdentity(g) ==
  IF identityTask = "known"
  THEN /\ Greet(<<Announcement(g)>>)
       /\ UNCHANGED <<identityTask, awaiting>>
  ELSE /\ identityTask' = "loading"
       /\ awaiting' = Append(awaiting, g)
       /\ UNCHANGED welcome

\* The synchronous beginning of runReply, called in the handler of link n.
BeginReply(n, turn, bumps) ==
  /\ append("user", n)
  /\ replySequence' = replySequence + bumps
  /\ replyAbort' = FALSE
  /\ replyTask' = n
  /\ reply' = [reply EXCEPT ![n] =
                  Locals(replySequence + bumps, turn, "streaming",
                         IF audioOut THEN "waiting" ELSE "off")]
  /\ stage' = [stage EXCEPT ![n] = "replying"]

Done(n) == stage' = [stage EXCEPT ![n] = "done"]

-----------------------------------------------------------------------------
(* Arrivals: the socket's and the STT session's events only extend the chain *)

Arrive(e) ==
  /\ hub = "up"
  /\ Len(messageChain) < MaxEvents
  /\ messageChain' = Append(messageChain, e)
  /\ UNCHANGED <<world, greeting, stage, activeTurn, records, flags,
                 replyTask, reply, cut>>

ReceiveFrame(f) ==
  /\ socket = "open"
  /\ Arrive(f)
  /\ interrupted' = interrupted \union
       IF f.kind \in {"interrupt", "interruptSignal"} THEN Replying ELSE {}

\* Deepgram may still deliver results while its socket closes.
SttCallback(k) ==
  /\ stt \in {"open", "closing"}
  /\ Arrive(SttRecord(k))
  /\ UNCHANGED interrupted

-----------------------------------------------------------------------------
(* The handlers, run one after the other: link n starts when all earlier   *)
(* links have settled.                                                     *)

CanStartUnchained(n) ==                                             \* mutant
  /\ hub = "up"
  /\ n <= Len(messageChain)
  /\ stage[n] = "queued"
  /\ \A m \in 1..(n - 1) : stage[m] # "queued"

CanStart(n) ==
  /\ hub = "up"
  /\ n <= Len(messageChain)
  /\ stage[n] = "queued"
  /\ \A m \in 1..(n - 1) : stage[m] = "done"

Starts(n, kind) == CanStart(n) /\ messageChain[n].kind = kind

HandleHello(n) ==
  /\ Starts(n, "hello")
  /\ session' = messageChain[n].session
  /\ audioOut' = messageChain[n].audio
  /\ AwaitIdentity([kind |-> "hello.ack", session |-> session', link |-> n])
  /\ stage' = [stage EXCEPT ![n] =
                 IF identityTask = "known" THEN "done" ELSE "identity"]
  /\ UNCHANGED <<world, messageChain, activeTurn, records, flags, replyTask,
                 reply, ghosts>>

\* ping, turn.start, turn.end, an empty text and unknown types: at most an
\* answer, no state.
HandleStateless(n) ==
  /\ Starts(n, "ping") \/ Starts(n, "emptyText")
  /\ Done(n)
  /\ UNCHANGED <<world, greeting, messageChain, activeTurn, records, flags,
                 replyTask, reply, ghosts>>

HandleInterrupt(n) ==
  /\ Starts(n, "interrupt") \/ Starts(n, "interruptSignal")
  /\ cancelReply
  /\ Done(n)
  /\ UNCHANGED <<world, greeting, messageChain, activeTurn, records,
                 replyTask, reply, ghosts>>

\* user.text: cancels whatever runs, unless interrupt is false.
HandleUserText(n) ==
  /\ Starts(n, "userText") \/ Starts(n, "politeText")
  /\ LET polite == messageChain[n].kind = "politeText"
     IN  IF polite /\ ReplyInProgress
         THEN /\ Done(n)
              /\ UNCHANGED <<activeTurn, history, flags, replyTask, reply>>
         ELSE /\ DropActiveTurn
              /\ BeginReply(n, n, IF polite THEN 1 ELSE 2)
  /\ UNCHANGED <<world, greeting, messageChain, outcome, ghosts>>

HandleAudio(n) ==
  /\ Starts(n, "audio")
  /\ IF stt = "null" \/ ReplyInProgress
     THEN UNCHANGED activeTurn
     ELSE ensureActiveTurn(n)
  /\ Done(n)
  /\ UNCHANGED <<world, greeting, messageChain, records, flags, replyTask,
                 reply, ghosts>>

\* Interim and final texts are never blank: DeepgramRealtimeSession drops those.
HandleInterim(n) ==
  /\ Starts(n, "interim")
  /\ ensureActiveTurn(n)
  /\ Done(n)
  /\ UNCHANGED <<world, greeting, messageChain, records, flags, replyTask,
                 reply, ghosts>>

HandleUtterance(n) ==
  /\ Starts(n, "utterance")
  /\ LET turn == IF activeTurn = None THEN n ELSE activeTurn
     IN  IF ReplyInProgress
         THEN /\ outcome' = [outcome EXCEPT ![turn] = "ignored"]
              /\ Done(n)
              /\ UNCHANGED <<history, flags, replyTask, reply>>
         ELSE BeginReply(n, turn, 1) /\ UNCHANGED outcome
  /\ DropActiveTurn
  /\ UNCHANGED <<world, greeting, messageChain, ghosts>>

\* relay.stt and relay.tts hold the chain until the provider has answered.
HandleRelay(n) ==
  /\ Starts(n, "relay")
  /\ stage' = [stage EXCEPT ![n] = "relay"]
  /\ UNCHANGED <<world, greeting, messageChain, activeTurn, records, flags,
                 replyTask, reply, ghosts>>

RelayAnswered(n) ==
  /\ hub = "up"
  /\ stage[n] = "relay"
  /\ Done(n)
  /\ UNCHANGED <<world, greeting, messageChain, activeTurn, records, flags,
                 replyTask, reply, ghosts>>

Handle(n) ==
  \/ HandleHello(n) \/ HandleStateless(n) \/ HandleInterrupt(n)
  \/ HandleUserText(n) \/ HandleAudio(n) \/ HandleInterim(n)
  \/ HandleUtterance(n) \/ HandleRelay(n)

-----------------------------------------------------------------------------
(* The greeting *)

\* STT is up: run() goes on to session.ready.
SttOpened ==
  /\ hub = "up"
  /\ stt = "connecting"
  /\ stt' = "open"
  /\ AwaitIdentity([kind |-> "session.ready", session |-> session, link |-> None])
  /\ UNCHANGED <<hub, socket, cleanup, session, audioOut, messageChain, stage,
                 activeTurn, records, flags, replyTask, reply, ghosts>>

\* start() rejects: run() ends, and session.ready is never sent.
SttFailed ==
  /\ hub = "up"
  /\ stt = "connecting"
  /\ stt' = "failed"
  /\ UNCHANGED <<hub, socket, cleanup, greeting, messageChain, stage,
                 activeTurn, records, flags, replyTask, reply, ghosts>>

\* The identity, or undefined if the request failed.
IdentityLoaded ==
  /\ hub = "up"
  /\ identityTask = "loading"
  /\ identityTask' = "known"
  /\ Greet([i \in 1..Len(awaiting) |-> Announcement(awaiting[i])])
  /\ stage' = [n \in Links |-> IF stage[n] = "identity" THEN "done" ELSE stage[n]]
  /\ awaiting' = <<>>
  /\ UNCHANGED <<world, session, audioOut, messageChain, activeTurn, records,
                 flags, replyTask, reply, ghosts>>

-----------------------------------------------------------------------------
(* runReply: the loop over the agent's deltas *)

Runs(n) == hub = "up" /\ stage[n] = "replying"

ReplyStep(n) ==
  UNCHANGED <<socket, stt, cleanup, greeting, messageChain, activeTurn, flags,
              cut, interrupted>>

\* Segment texts that come out of takeFlushChunk: TRUE if there is something
\* to speak after sanitising.
Flushes == UNION {[1..k -> BOOLEAN] : k \in 0..MaxFlush}

\* After the loop: the rest is pushed and the queue closed.
LeaveDeltaLoop(n) ==
  \E speakable \in BOOLEAN :
    reply' = [reply EXCEPT
      ![n].agent = "ended",
      ![n].segments = IF reply[n].pending THEN Append(@, speakable) ELSE @,
      ![n].pending = FALSE]

AgentDelta(n) ==
  /\ Runs(n)
  /\ reply[n].agent = "streaming"
  /\ reply[n].deltas < MaxDeltas
  /\ IF Cancelled(n)
     THEN LeaveDeltaLoop(n)
     ELSE \E flushed \in Flushes, rest \in BOOLEAN :
            reply' = [reply EXCEPT
              ![n].deltas = @ + 1,
              ![n].segments = IF reply[n].audio = "off" THEN @ ELSE @ \o flushed,
              ![n].pending = reply[n].audio # "off" /\ rest]
  /\ UNCHANGED <<hub, stage, records, replyTask>>
  /\ ReplyStep(n)

AgentEnd(n) ==
  /\ Runs(n)
  /\ reply[n].agent = "streaming"
  /\ LeaveDeltaLoop(n)
  /\ UNCHANGED <<hub, stage, records, replyTask>>
  /\ ReplyStep(n)

AgentFail(n) ==
  /\ Runs(n)
  /\ reply[n].agent = "streaming"
  /\ reply' = [reply EXCEPT ![n].agent = "failed"]
  /\ UNCHANGED <<hub, stage, records, replyTask>>
  /\ ReplyStep(n)

-----------------------------------------------------------------------------
(* runReply: the audio task, a loop over the segments *)

SetAudio(n, a) == reply' = [reply EXCEPT ![n].audio = a]

TakeSegment(n) ==
  /\ Runs(n)
  /\ reply[n].audio = "waiting"
  /\ reply[n].segments # <<>>
  /\ reply' = [reply EXCEPT
       ![n].segments = Tail(@),
       ![n].audio = IF Cancelled(n) THEN "done"
                    ELSE IF Head(reply[n].segments) THEN "connecting" ELSE "waiting"]
  /\ UNCHANGED <<hub, stage, records, replyTask>>
  /\ ReplyStep(n)

SegmentsEnd(n) ==
  /\ Runs(n)
  /\ reply[n].audio = "waiting"
  /\ reply[n].segments = <<>>
  /\ QueueClosed(n)
  /\ SetAudio(n, "done")
  /\ UNCHANGED <<hub, stage, records, replyTask>>
  /\ ReplyStep(n)

Synthesising(n) == reply[n].audio \in {"connecting", "speaking"}

TtsChunk(n) ==
  /\ Runs(n)
  /\ Synthesising(n)
  /\ SetAudio(n, IF Cancelled(n) THEN "waiting" ELSE "speaking")
  /\ UNCHANGED <<hub, stage, records, replyTask>>
  /\ ReplyStep(n)

TtsEnd(n) ==
  /\ Runs(n)
  /\ Synthesising(n)
  /\ SetAudio(n, "waiting")
  /\ UNCHANGED <<hub, stage, records, replyTask>>
  /\ ReplyStep(n)

\* streamText rejects when it cannot connect. Nobody awaits the audio task
\* while deltas still arrive: its rejection is unhandled and ends the process.
TtsFail(n) ==
  /\ Runs(n)
  /\ reply[n].audio = "connecting"
  /\ SetAudio(n, "failed")
  /\ hub' = IF reply[n].agent = "streaming" THEN "crashed" ELSE "up"
  /\ UNCHANGED <<stage, records, replyTask>>
  /\ ReplyStep(n)

-----------------------------------------------------------------------------
(* runReply: after both loops *)

AudioNotAwaited(n) == TRUE                                          \* mutant
AudioSettled(n) == reply[n].audio \in {"off", "done", "failed"}

Failed(n) == reply[n].agent = "failed" \/ reply[n].audio = "failed"

\* Checked once more after the last await.
AnswersUnchecked(n) == ~Failed(n)                                   \* mutant
AnswerStands(n) == ~Failed(n) /\ ~Cancelled(n)

FinishReply(n) ==
  /\ Runs(n)
  /\ reply[n].agent # "streaming"
  /\ AudioSettled(n)
  /\ outcome' = [outcome EXCEPT ![reply[n].turn] =
       IF AnswerStands(n) THEN "reply" ELSE IF Failed(n) THEN "error" ELSE @]
  /\ IF AnswerStands(n) THEN append("assistant", n) ELSE UNCHANGED history
  /\ Done(n)
  /\ replyTask' = IF replyTask = n THEN None ELSE replyTask
  /\ reply' = [reply EXCEPT ![n] = Locals(0, reply[n].turn, "off", "off")]
  /\ UNCHANGED hub
  /\ ReplyStep(n)

ReplyProgress(n) ==
  \/ AgentDelta(n) \/ AgentEnd(n) \/ AgentFail(n)
  \/ TakeSegment(n) \/ SegmentsEnd(n)
  \/ TtsChunk(n) \/ TtsEnd(n) \/ TtsFail(n)
  \/ FinishReply(n)

-----------------------------------------------------------------------------
(* The socket's close event runs cleanup outside the chain *)

SocketClose ==
  /\ hub = "up"
  /\ socket = "open"
  /\ socket' = "closed"
  /\ cleanup' = "cancelled"
  /\ cancelReply
  /\ cut' = Replying
  /\ UNCHANGED <<hub, stt, greeting, messageChain, stage, activeTurn, records,
                 replyTask, reply, interrupted>>

CleanupTurn ==
  /\ hub = "up"
  /\ cleanup = "cancelled"
  /\ cleanup' = "closingStt"
  /\ DropActiveTurn
  /\ stt' = "closing"
  /\ UNCHANGED <<hub, socket, greeting, messageChain, stage, records, flags,
                 replyTask, reply, ghosts>>

CleanupStt ==
  /\ hub = "up"
  /\ cleanup = "closingStt"
  /\ cleanup' = "done"
  /\ stt' = "null"
  /\ UNCHANGED <<hub, socket, greeting, messageChain, stage, activeTurn,
                 records, flags, replyTask, reply, ghosts>>

\* A reply of another connection deletes sessions unused for the TTL, also
\* one whose reply takes that long.
SessionExpires(s) ==
  /\ hub = "up"
  /\ history[s] # <<>>
  /\ history' = [history EXCEPT ![s] = <<>>]
  /\ UNCHANGED <<world, greeting, messageChain, stage, activeTurn, outcome,
                 flags, replyTask, reply, ghosts>>

-----------------------------------------------------------------------------
Next ==
  \/ \E f \in Frames : ReceiveFrame(f)
  \/ \E k \in SttEvents : SttCallback(k)
  \/ \E n \in Links : Handle(n) \/ RelayAnswered(n) \/ ReplyProgress(n)
  \/ SttOpened \/ SttFailed \/ IdentityLoaded
  \/ SocketClose \/ CleanupTurn \/ CleanupStt
  \/ \E s \in Sessions : SessionExpires(s)

Spec == Init /\ [][Next]_vars

(***************************************************************************)
(* The event loop runs what is runnable; every provider call settles: the  *)
(* agent's stream ends or fails, a TTS context gets its isFinal, relay and *)
(* identity requests are answered. Clients owe nothing.                    *)
(***************************************************************************)
Fairness ==
  /\ \A n \in Links :
       /\ WF_vars(Handle(n))
       /\ WF_vars(RelayAnswered(n))
       /\ WF_vars(AgentEnd(n) \/ AgentFail(n))
       /\ WF_vars(TakeSegment(n)) /\ WF_vars(SegmentsEnd(n))
       /\ WF_vars(TtsEnd(n))
       /\ WF_vars(FinishReply(n))
  /\ WF_vars(IdentityLoaded)

FairSpec == Spec /\ Fairness

-----------------------------------------------------------------------------
(* Properties *)

Stages == {"queued", "identity", "relay", "replying", "done"}
Outcomes == {"none", "ignored", "error", "reply"}
Entries == [role : {"user", "assistant"}, by : Links]
Replies ==
  [id : Nat, turn : {None} \union Links,
   agent : {"off", "streaming", "ended", "failed"},
   audio : {"off", "waiting", "connecting", "speaking", "done", "failed"},
   segments : Seq(BOOLEAN), pending : BOOLEAN, deltas : 0..MaxDeltas]
Greetings == [kind : {"session.ready", "hello.ack"}, session : Sessions]
Awaiting == [kind : {"session.ready", "hello.ack"}, session : Sessions,
             link : {None} \union Links]

TypeOK ==
  /\ hub \in {"up", "crashed"}
  /\ socket \in {"open", "closed"}
  /\ stt \in {"connecting", "open", "failed", "closing", "null"}
  /\ cleanup \in {"none", "cancelled", "closingStt", "done"}
  /\ session \in Sessions
  /\ audioOut \in BOOLEAN
  /\ identityTask \in {"null", "loading", "known"}
  /\ awaiting \in Seq(Awaiting)
  /\ welcome \in Seq(Greetings)
  /\ messageChain \in Seq(FrameRecords \union {SttRecord(k) : k \in SttKinds})
  /\ stage \in [Links -> Stages]
  /\ activeTurn \in {None} \union Links
  /\ outcome \in [Links -> Outcomes]
  /\ history \in [Sessions -> Seq(Entries)]
  /\ replyAbort \in BOOLEAN
  /\ replySequence \in Nat
  /\ replyTask \in {None} \union Links
  /\ reply \in [Links -> Replies]
  /\ cut \subseteq Links
  /\ interrupted \subseteq Links

\* At most one reply runs on a connection, and replyTask names exactly it: the
\* chain waits for runReply, so no handler ever finds a reply in progress.
OneReplyAtATime == \A n \in Links : stage[n] = "replying" <=> replyTask = n

\* Question and answer stay together: in front of an answer stands the user
\* message it answers, or nothing any more, and that message is in no other
\* session, although it is entered before and the answer after many awaits,
\* with sessionId read again each time. (Of sessions that one connection uses
\* alone.)
AnswersFollow ==
  \A s \in Sessions : \A i \in 2..Len(history[s]) :
    history[s][i].role = "assistant" =>
      history[s][i - 1] = Recorded("user", history[s][i].by)
OneSessionEach ==
  \A s, t \in Sessions :
    \A i \in 1..Len(history[s]), j \in 1..Len(history[t]) :
      history[s][i].by = history[t][j].by => s = t
HistoryPairsUp == AnswersFollow /\ OneSessionEach

\* A reply that was running when its socket closed is never recorded as an
\* answer, however long its loops take to notice and whatever still arrives.
CutReplyIsNotRecorded ==
  \A s \in Sessions : \A i \in 1..Len(history[s]) :
    history[s][i].role = "assistant" => history[s][i].by \notin cut

\* The answer of link n is entered into the history in this step.
Answers(n) ==
  \E s \in Sessions :
    /\ history'[s] \notin {history[s], <<>>}
    /\ history'[s][Len(history'[s])] = Recorded("assistant", n)

\* The answer counts as given (history, reply.json, final message) only after
\* both loops are through: every segment was spoken or had nothing to speak.
AnswerOnlyAfterSpeech ==
  [][\A n \in Links :
       Answers(n) => reply[n].audio \in {"off", "done"} /\ reply[n].segments = <<>>]_vars

\* Once no hello is being answered, the session the client was last told is
\* the session the connection uses, in whichever order STT, identity and
\* hello complete.
ClientKnowsSession ==
  (hub = "up" /\ socket = "open" /\ awaiting = <<>> /\ welcome # <<>>)
    => welcome[Len(welcome)].session = session

\* Everything that arrived is handled in the end: no handler holds the chain
\* for ever, in particular not the two loops of a reply waiting on each other.
ChainDrains ==
  \A n \in Links :
    n <= Len(messageChain) ~> (stage[n] = "done" \/ hub = "crashed")

-----------------------------------------------------------------------------
(* What the documents say and the code does otherwise *)

\* "Interrupts cancel active audio and stop or supersede the current assistant
\* turn": a reply in flight when an interrupt arrives is not given as answer.
InterruptStopsReply ==
  \A s \in Sessions : \A i \in 1..Len(history[s]) :
    history[s][i].role = "assistant" => history[s][i].by \notin interrupted

\* "graceful fallback to text captions when audio is unavailable": a TTS that
\* cannot be reached does not take the hub down.
HubSurvivesTtsFailure == hub = "up"
=============================================================================
