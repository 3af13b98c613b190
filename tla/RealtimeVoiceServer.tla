------------------------ MODULE RealtimeVoiceServer ------------------------
(***************************************************************************)
(* One connection of the Python hub's realtime server, class               *)
(* _RealtimeConnection of hub/devices/realtime_server.py, with the history *)
(* its agent keeps (PsfnStreamingProvider) and the contexts of its TTS     *)
(* (ElevenLabsStreamingTTS).                                               *)
(*                                                                         *)
(* Messages are handled one after the other by the loop of run(). A reply  *)
(* is a task beside it, and its speech another one. Every send takes a     *)
(* FIFO lock and may have to wait for a slow client; only for the reply    *)
(* does it matter where it waits, because it may be cancelled there.       *)
(* Cancelling a task and waiting for it is one step: nothing from outside  *)
(* comes between. The recogniser's results are words, silence or failure.  *)
(* Operators marked "mutant" are slips of the definition that follows.     *)
(***************************************************************************)
EXTENDS Naturals, Sequences, SequencesExt

CONSTANTS
  MaxTurns,    (* bound: turns that are begun                              *)
  MaxResets,   (* bound: session.reset messages                            *)
  MaxDeltas    (* bound: deltas of one reply                               *)

ASSUME ServerAssumption ==
  MaxTurns \in Nat /\ MaxResets \in Nat /\ MaxDeltas \in Nat

Turns == 1..MaxTurns
Sessions == 0..MaxResets
None == 0

VARIABLES
  (* the wire *)
  socket,        (* open or closed                                         *)
  inbox,         (* the client's messages, in order                        *)
  outbox,        (* messages to the client that it acts upon, in order     *)
  (* the connection *)
  loop,          (* idle: waits for a message; gone                        *)
  session,       (* _session_id, by the number of resets before it         *)
  activeTurn,    (* _active_turn                                           *)
  replyTask,     (* the turn _reply_task answers                           *)
  turns,         (* number of turns so far                                 *)
  conversation,  (* session_id of each turn                                *)
  collecting,    (* the turn whose audio the recogniser has                *)
  pcm,           (* audio of each turn, by the numbers of its chunks       *)
  (* the tasks of each turn *)
  reply,         (* how far _run_reply is                                  *)
  speech,        (* how far _stream_audio_chunks is                        *)
  deltas,        (* number of deltas sent and queued for speech            *)
  fed,           (* turns whose text queue got its final None              *)
  sounded,       (* turns of which audio was sent                          *)
  (* providers *)
  ttsSocket,     (* none or open                                           *)
  history,       (* of each session: turns whose exchange the agent knows  *)
  prior,         (* the history each reply started from                    *)
  released,      (* aclose has closed the providers                        *)
  (* files *)
  record,        (* status in the reply.json of a turn                     *)
  cancelled      (* history: turns whose reply was cancelled               *)

wire == <<socket, inbox, outbox>>
connection == <<loop, session, activeTurn, replyTask, turns, conversation, collecting, pcm>>
texts == <<deltas, fed, sounded>>
memory == <<history, prior>>
files == <<record, cancelled>>
server == <<wire, connection, reply, speech, texts, ttsSocket, memory, released, files>>

\* The client chooses what it has sent first.
ServerInit ==
  /\ socket = "open" /\ outbox = <<>>
  /\ loop = "idle" /\ session = 0 /\ activeTurn = None /\ replyTask = None
  /\ turns = 0 /\ conversation = [t \in Turns |-> 0] /\ collecting = None
  /\ pcm = [t \in Turns |-> <<>>]
  /\ reply = [t \in Turns |-> "none"] /\ speech = [t \in Turns |-> "none"]
  /\ deltas = [t \in Turns |-> 0] /\ fed = {} /\ sounded = {}
  /\ ttsSocket = "none"
  /\ history = [s \in Sessions |-> <<>>] /\ prior = [t \in Turns |-> <<>>]
  /\ released = FALSE
  /\ record = [t \in Turns |-> "none"] /\ cancelled = {}

Open == socket = "open"

\* _send_json, for a list of messages. A closed socket makes it raise, which
\* each caller deals with.
Message(kind, t) == [kind |-> kind, turn |-> t]
Send(messages) == outbox' = outbox \o messages

\* Somebody waits in the middle of a send, and all others behind it.
Blocked == \E t \in Turns : reply[t] \in {"starting", "sending", "ending", "failing"}

-----------------------------------------------------------------------------
(* Cancelling a reply *)

ReplyRuns == replyTask # None /\ reply[replyTask] # "done"

\* Its first send stands outside the try.
InTry(t) == reply[t] \in {"streaming", "sending", "speech", "ending"}
SpeechRuns(t) == speech[t] \in {"opening", "speaking", "dropped"}
SpeechBegins == IF ttsSocket = "open" THEN "speaking" ELSE "opening"

\* What CancelledError does in _run_reply. Waiting for the cancelled speech
\* raises CancelledError again, so that nothing is written after that; a speech
\* that had just been created goes on.
SpeechGoesOn(t) == speech                                           \* mutant
CutSpeech(t) ==
  CASE InTry(t) /\ SpeechRuns(t) -> [speech EXCEPT ![t] = "cancelled"]
    [] reply[t] = "starting" -> [speech EXCEPT ![t] = IF Open THEN SpeechBegins ELSE "failed"]
    [] OTHER -> speech

RecordKept(t) == record                                             \* mutant
CutRecord(t) ==
  IF InTry(t) /\ ~SpeechRuns(t) THEN [record EXCEPT ![t] = "interrupted"] ELSE record

CutReply(t) ==
  /\ reply' = [reply EXCEPT ![t] = "done"]
  /\ record' = CutRecord(t)
  /\ cancelled' = cancelled \union {t}

CutSilently(t) == <<>>                                              \* mutant
CutMessages(t) ==
  (IF reply[t] = "starting" THEN <<Message("audio.start", t)>> ELSE <<>>)
    \o <<Message("cancelled", t)>>

\* _cancel_reply, and what the caller sends after it.
CancelForgotten(messages) ==                                        \* mutant
  /\ Send(messages)
  /\ UNCHANGED <<replyTask, reply, speech, record, cancelled>>

CancelReply(messages) ==
  /\ replyTask' = None
  /\ IF ReplyRuns
     THEN /\ CutReply(replyTask)
          /\ speech' = CutSpeech(replyTask)
          /\ Send(CutMessages(replyTask) \o messages)
     ELSE /\ Send(messages)
          /\ UNCHANGED <<reply, speech, record, cancelled>>

-----------------------------------------------------------------------------
(* The handlers of the loop *)

Receives(kind) ==
  /\ loop = "idle" /\ Open
  /\ inbox # <<>> /\ Head(inbox).kind = kind
  /\ inbox' = Tail(inbox)
  /\ UNCHANGED <<socket, loop, texts, ttsSocket, memory, released>>

\* hello: the configured conversation again. Its answer waits behind a send.
HandleHello ==
  /\ Receives("hello")
  /\ ~Blocked
  /\ session' = 0
  /\ UNCHANGED <<outbox, activeTurn, replyTask, turns, conversation, collecting, pcm,
                 reply, speech, files>>

HandleInterrupt ==
  /\ Receives("interrupt")
  /\ CancelReply(<<Message("interrupted", None)>>)
  /\ UNCHANGED <<session, activeTurn, turns, conversation, collecting, pcm>>

\* The recogniser takes a new turn, or refuses: then an older turn that was
\* still active stays it, although its audio is gone.
HandleStart ==
  /\ Receives("turn.start")
  /\ \/ /\ turns < MaxTurns
        /\ turns' = turns + 1
        /\ activeTurn' = turns' /\ collecting' = turns'
        /\ conversation' = [conversation EXCEPT ![turns'] = session]
        /\ CancelReply(<<Message("turn.started", turns')>>)
     \/ /\ collecting' = None
        /\ CancelReply(<<>>)
        /\ UNCHANGED <<turns, activeTurn, conversation>>
  /\ UNCHANGED <<session, pcm>>

HandleAudio ==
  /\ Receives("audio")
  /\ pcm' = IF activeTurn = None THEN pcm
            ELSE [pcm EXCEPT ![activeTurn] = Append(@, Head(inbox).turn)]
  /\ UNCHANGED <<outbox, session, activeTurn, replyTask, turns, conversation,
                 collecting, reply, speech, files>>

\* Words begin a reply; a turn without words, or one the recogniser has lost, does
\* not.
HandleEnd ==
  /\ Receives("turn.end")
  /\ IF activeTurn = None
     THEN UNCHANGED <<activeTurn, collecting, reply, replyTask, record>>
     ELSE /\ activeTurn' = None /\ collecting' = None
          /\ \/ /\ record' = [record EXCEPT ![activeTurn] = "no_input"]
                /\ UNCHANGED <<reply, replyTask>>
             \/ /\ collecting # None
                /\ reply' = [reply EXCEPT ![activeTurn] = "created"]
                /\ replyTask' = activeTurn
                /\ UNCHANGED record
  /\ UNCHANGED <<outbox, session, turns, conversation, pcm, speech, cancelled>>

HandleReset ==
  /\ Receives("session.reset")
  /\ session < MaxResets
  /\ CancelReply(<<>>)
  /\ activeTurn' = None
  /\ collecting' = IF activeTurn = None THEN collecting ELSE None
  /\ session' = session + 1
  /\ UNCHANGED <<turns, conversation, pcm>>

Handle ==
  \/ HandleHello \/ HandleInterrupt \/ HandleStart \/ HandleAudio \/ HandleEnd
  \/ HandleReset

-----------------------------------------------------------------------------
(* The reply, _run_reply *)

Reply(t, from, to) == reply[t] = from /\ reply' = [reply EXCEPT ![t] = to]

\* The end of the task clears _reply_task if it is still this one.
ReplyDone == replyTask' = None
ReplyGoesOn == UNCHANGED replyTask

\* Each message may leave the task waiting for a slow client ("suspended").
Sends(t, from, messages, to, suspended) ==
  /\ ~Blocked
  /\ Send(messages)
  /\ \/ Reply(t, from, to)
     \/ Reply(t, from, suspended)

\* stream_reply reads the history it will add to.
AsksAgent(t) ==
  /\ prior' = [prior EXCEPT ![t] = history[conversation[t]]]
  /\ UNCHANGED history

\* The task's first step: assistant.start, and the speech task announces itself.
RunReply(t) ==
  /\ replyTask = t
  /\ UNCHANGED <<socket, inbox, loop, session, activeTurn, turns, conversation, collecting,
                 pcm, texts, ttsSocket, history, released, files>>
  /\ \/ /\ Open
        /\ Reply(t, "created", "streaming")
        /\ Send(<<Message("assistant.start", t), Message("audio.start", t)>>)
        /\ speech' = [speech EXCEPT ![t] = SpeechBegins]
        /\ AsksAgent(t)
        /\ ReplyGoesOn
     \/ /\ Open
        /\ Reply(t, "created", "starting")
        /\ Send(<<Message("assistant.start", t)>>)
        /\ ReplyGoesOn
        /\ UNCHANGED <<speech, prior>>
     \/ /\ ~Open
        /\ Reply(t, "created", "done")
        /\ speech' = [speech EXCEPT ![t] = "failed"]
        /\ ReplyDone
        /\ UNCHANGED <<outbox, prior>>

\* A delta goes to the client, then to the speech task.
AgentDelta(t) ==
  /\ Open
  /\ deltas[t] < MaxDeltas
  /\ Sends(t, "streaming", <<>>, "streaming", "sending")
  /\ deltas' = IF reply'[t] = "streaming" THEN [deltas EXCEPT ![t] = @ + 1] ELSE deltas
  /\ UNCHANGED <<socket, inbox, connection, speech, fed, sounded, ttsSocket, memory,
                 released, files>>

\* The stream is complete: stream_reply stores the exchange, the speech task gets
\* its final None.
AnswerStored(t) == history' = [history EXCEPT ![conversation[t]] = Append(prior[t], t)]

TextLeftOpen(t) == UNCHANGED fed                                    \* mutant
EndsText(t) == fed' = fed \union {t}

StreamEnds(t) ==
  /\ Reply(t, "streaming", "speech")
  /\ AnswerStored(t)
  /\ EndsText(t)
  /\ UNCHANGED <<wire, connection, speech, deltas, sounded, ttsSocket, prior, released,
                 files>>

\* What is left when an exception reaches the handler: a record and a message.
Fails(t, from) ==
  /\ record' = [record EXCEPT ![t] = "error"]
  /\ IF Open
     THEN /\ Sends(t, from, <<>>, "done", "failing")
          /\ IF reply'[t] = "done" THEN ReplyDone ELSE ReplyGoesOn
     ELSE /\ Reply(t, from, "done")
          /\ ReplyDone
          /\ UNCHANGED outbox
  /\ UNCHANGED <<socket, inbox, loop, session, activeTurn, turns, conversation, collecting,
                 pcm, cancelled>>

\* The agent fails, or a delta cannot be sent. Nobody cancels the speech task.
AgentFails(t) ==
  /\ Fails(t, "streaming")
  /\ UNCHANGED <<speech, texts, ttsSocket, memory, released>>

\* The speech task is over.
SpeechOver(t) ==
  /\ \/ /\ speech[t] = "done" /\ Open
        /\ Sends(t, "speech", <<Message("assistant.end", t)>>, "done", "ending")
        /\ record' = [record EXCEPT ![t] = "reply"]
        /\ IF reply'[t] = "done" THEN ReplyDone ELSE ReplyGoesOn
        /\ UNCHANGED <<socket, inbox, loop, session, activeTurn, turns, conversation,
                       collecting, pcm, cancelled>>
     \/ /\ speech[t] = "failed" \/ (speech[t] = "done" /\ ~Open)
        /\ Fails(t, "speech")
  /\ UNCHANGED <<speech, texts, ttsSocket, memory, released>>

\* The client has read on, or its socket is found closed.
Resume(t) ==
  /\ UNCHANGED <<socket, inbox, loop, session, activeTurn, turns, conversation, collecting,
                 pcm, fed, sounded, ttsSocket, history, released, cancelled>>
  /\ \/ /\ Open
        /\ Reply(t, "starting", "streaming")
        /\ Send(<<Message("audio.start", t)>>)
        /\ speech' = [speech EXCEPT ![t] = SpeechBegins]
        /\ AsksAgent(t)
        /\ ReplyGoesOn
        /\ UNCHANGED <<deltas, record>>
     \/ /\ Open
        /\ Reply(t, "sending", "streaming")
        /\ deltas' = [deltas EXCEPT ![t] = @ + 1]
        /\ ReplyGoesOn
        /\ UNCHANGED <<outbox, speech, prior, record>>
     \/ /\ Open
        /\ Reply(t, "ending", "done") \/ Reply(t, "failing", "done")
        /\ ReplyDone
        /\ UNCHANGED <<outbox, speech, deltas, prior, record>>
     \/ /\ ~Open
        /\ \/ /\ Reply(t, "starting", "done")
              /\ speech' = [speech EXCEPT ![t] = "failed"]
              /\ UNCHANGED record
           \/ /\ Reply(t, "sending", "done") \/ Reply(t, "ending", "done")
              /\ record' = [record EXCEPT ![t] = "error"]
              /\ UNCHANGED speech
           \/ /\ Reply(t, "failing", "done")
              /\ UNCHANGED <<speech, record>>
        /\ ReplyDone
        /\ UNCHANGED <<outbox, deltas, prior>>

-----------------------------------------------------------------------------
(* The speech of a reply, _stream_audio_chunks over stream_text *)

Speech(t, from, to) ==
  /\ speech[t] = from
  /\ speech' = [speech EXCEPT ![t] = to]
  /\ UNCHANGED <<socket, inbox, connection, reply, deltas, fed, memory, released, files>>

Opens(t) == Speech(t, "opening", "speaking") /\ ttsSocket' = "open" /\ UNCHANGED <<outbox, sounded>>
OpenFails(t) == Speech(t, "opening", "failed") /\ UNCHANGED <<ttsSocket, outbox, sounded>>

\* Audio of what was fed so far. More of it is more of the same: one per turn.
Chunk(t) ==
  /\ deltas[t] > 0 /\ t \notin sounded
  /\ ~Blocked
  /\ IF Open THEN /\ Speech(t, "speaking", "speaking")
                  /\ sounded' = sounded \union {t}
                  /\ Send(<<Message("audio.chunk", t)>>)
             ELSE /\ Speech(t, "speaking", "failed")
                  /\ UNCHANGED <<sounded, outbox>>
  /\ UNCHANGED ttsSocket

\* The context's queue ends with the final audio, or with the None of a socket that
\* was lost; the caller cannot tell them apart.
AudioEnds(t, from) ==
  /\ ~Blocked
  /\ IF Open THEN Speech(t, from, "done") /\ Send(<<Message("audio.end", t)>>)
             ELSE Speech(t, from, "failed") /\ UNCHANGED outbox
  /\ UNCHANGED <<ttsSocket, sounded>>

FinalAudio(t) == t \in fed /\ AudioEnds(t, "speaking")
DropEnds(t) == AudioEnds(t, "dropped")

\* _reader_loop ends: every context gets its None.
ContextsEnd(state) == [t \in Turns |-> IF state[t] = "speaking" THEN "dropped" ELSE state[t]]
Drop ==
  /\ ttsSocket = "open"
  /\ ttsSocket' = "none"
  /\ speech' = ContextsEnd(speech)
  /\ UNCHANGED <<wire, connection, reply, texts, memory, released, files>>

-----------------------------------------------------------------------------
(* The end of the connection *)

Disconnect ==
  /\ Open
  /\ socket' = "closed"
  /\ UNCHANGED <<inbox, outbox, connection, reply, speech, texts, ttsSocket, memory,
                 released, files>>

\* run() is over and aclose() follows. When it has to cancel a reply itself it
\* fails at telling so, and the providers stay open; when an interrupt still in
\* the buffer cancelled it, run() failed there and aclose() has nothing to tell.
Cancelling == {"interrupt", "turn.start", "session.reset"}

LoopEnds ==
  /\ loop = "idle" /\ ~Open
  /\ loop' = "gone" /\ inbox' = <<>>
  /\ activeTurn' = None
  /\ replyTask' = None
  /\ IF ReplyRuns
     THEN /\ CutReply(replyTask)
          /\ released' \in {FALSE, \E i \in DOMAIN inbox : inbox[i].kind \in Cancelling}
     ELSE /\ released' = TRUE
          /\ UNCHANGED <<reply, files>>
  /\ LET left == IF ReplyRuns THEN CutSpeech(replyTask) ELSE speech
     IN  speech' = IF released' THEN ContextsEnd(left) ELSE left
  /\ collecting' = IF released' THEN None ELSE collecting
  /\ ttsSocket' = IF released' THEN "none" ELSE ttsSocket
  /\ UNCHANGED <<socket, outbox, session, turns, conversation, pcm, texts, memory>>

\* The recogniser cannot be reached when a turn ends or gets audio: run() fails.
\* No reply runs while a turn is active.
RecogniserFails ==
  /\ loop = "idle" /\ Open
  /\ inbox # <<>> /\ Head(inbox).kind \in {"turn.end", "audio"}
  /\ activeTurn # None /\ collecting # None
  /\ loop' = "gone" /\ socket' = "closed" /\ inbox' = <<>>
  /\ released' = TRUE
  /\ activeTurn' = None /\ collecting' = None /\ replyTask' = None
  /\ ttsSocket' = "none" /\ speech' = ContextsEnd(speech)
  /\ UNCHANGED <<outbox, session, turns, conversation, pcm, reply, texts, memory, files>>

Tasks(t) ==
  \/ RunReply(t) \/ AgentDelta(t) \/ StreamEnds(t) \/ AgentFails(t) \/ SpeechOver(t)
  \/ Resume(t) \/ Opens(t) \/ OpenFails(t) \/ Chunk(t) \/ FinalAudio(t) \/ DropEnds(t)

ServerNext ==
  \/ Handle \/ LoopEnds \/ RecogniserFails \/ Drop \/ Disconnect
  \/ \E t \in Turns : Tasks(t)
=============================================================================
