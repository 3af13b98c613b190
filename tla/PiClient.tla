------------------------------ MODULE PiClient ------------------------------
(***************************************************************************)
(* The Pi client when it plays the assistant's audio itself, class         *)
(* PiRealtimeClient of src/ts/pi-client/client.ts with its player          *)
(* (audio-player.ts) and its mixer (AlsaVolume): messages of the hub run   *)
(* in a promise chain; microphone chunks, player exits and the socket's    *)
(* events run outside it and between its awaits.                           *)
(*                                                                         *)
(* A step is one uninterrupted run of JavaScript; promises that can go on  *)
(* do so before the next event. Time is left out: a chunk is loud for long *)
(* enough, or it is not. The hub is what the audio task of its runReply    *)
(* sends, src/ts/hub/server.ts.                                            *)
(* Operators marked "mutant" are slips of the definition that follows.     *)
(***************************************************************************)
EXTENDS AlsaVolume, FiniteSets

CONSTANTS
  Chunks,          (* loud chunks whose handlers may be under way at once  *)
  MaxConnections,  (* bound: connections                                   *)
  MaxSegments,     (* bound: segments the hub speaks                       *)
  MaxInterrupts    (* bound: interrupt messages of the hub                 *)

Chain == "chain"   \* waits for a mixer command: the handler of a message

ASSUME ClientAssumption ==
  /\ Chain \notin Chunks /\ Nobody \notin Chunks \union {Chain}
  /\ MaxConnections \in Nat /\ MaxSegments \in Nat /\ MaxInterrupts \in Nat

VARIABLES
  (* the hub *)
  hubSegment,          (* idle, opened, sounding                           *)
  segments, interrupts,(* numbers of segments and interrupts so far        *)
  brokenOff,           (* the last segment got no audio-end, or was cut    *)
  (* the connection *)
  connection, line,    (* its number; connecting, open, closed             *)
  messageChain,        (* messages of the hub, the first being handled     *)
  handling,            (* what its handler awaits: none, speak, interrupt  *)
  heard,               (* speaking state the hub was last told             *)
  (* the microphone: what each handleChunk awaits *)
  chunk,               (* idle, duck, interrupt                            *)
  (* the conversation *)
  ready, playbackActive, playbackGeneration, sentenceCompleted,
  requireNewAudioInit, botSpeakEndSent,
  interrupting,        (* interruptingUntil is still to come               *)
  (* the player *)
  process,             (* generation of the player's process, or 0         *)
  processes            (* every process started so far                     *)

hub == <<hubSegment, segments, interrupts, brokenOff>>
wire == <<connection, line, heard>>
handlers == <<messageChain, handling, chunk>>
playback == <<playbackActive, playbackGeneration, sentenceCompleted,
              requireNewAudioInit, botSpeakEndSent>>
player == <<process, processes>>
vars == <<hub, wire, handlers, ready, playback, interrupting, player, volume>>

Init ==
  /\ VolumeInit
  /\ hubSegment = "idle" /\ segments = 0 /\ interrupts = 0 /\ brokenOff = FALSE
  /\ connection = 1 /\ line = "connecting" /\ heard = "nothing"
  /\ messageChain = <<>> /\ handling = "none"
  /\ chunk = [k \in Chunks |-> "idle"]
  /\ ready = FALSE
  /\ playbackActive = FALSE /\ playbackGeneration = 0
  /\ sentenceCompleted = FALSE /\ requireNewAudioInit = TRUE
  /\ botSpeakEndSent = FALSE /\ interrupting = FALSE
  /\ process = 0 /\ processes = <<>>

-----------------------------------------------------------------------------
(* What the hub sends *)

Message(kind) == [kind |-> kind, from |-> connection]
HubSends(kind) == messageChain' = Append(messageChain, Message(kind))

\* A message waits and no handler awaits anything: it is handled at once.
MustHandle == messageChain # <<>> /\ handling = "none"

HubStep ==
  /\ ~MustHandle
  /\ UNCHANGED <<wire, handling, chunk, ready, playback, interrupting, player,
                 volume>>

\* hello was handled. Before that the hub has heard nothing it could answer.
HubGreets ==
  /\ line = "open" /\ ~ready
  /\ HubSends("call_initialized")
  /\ HubStep /\ UNCHANGED hub

HubOpensSegment ==
  /\ line = "open" /\ ready
  /\ hubSegment = "idle" /\ segments < MaxSegments
  /\ segments' = segments + 1
  /\ hubSegment' = "opened" /\ brokenOff' = FALSE
  /\ HubSends("audio-init")
  /\ HubStep /\ UNCHANGED interrupts

HubAudio ==
  /\ line = "open" /\ hubSegment = "opened"
  /\ hubSegment' = "sounding"
  /\ HubSends("audio")
  /\ HubStep /\ UNCHANGED <<segments, interrupts, brokenOff>>

HubEndsSegment ==
  /\ line = "open" /\ hubSegment = "sounding"
  /\ hubSegment' = "idle"
  /\ HubSends("audio-end")
  /\ HubStep /\ UNCHANGED <<segments, interrupts, brokenOff>>

\* TTS fails, gives no audio, or the reply is cancelled: there is no audio-end.
HubBreaksOff ==
  /\ hubSegment # "idle"
  /\ hubSegment' = "idle" /\ brokenOff' = TRUE
  /\ HubStep /\ UNCHANGED <<segments, interrupts, messageChain>>

\* The protocol has it, although no hub of this repository sends it.
HubInterrupts ==
  /\ line = "open" /\ interrupts < MaxInterrupts
  /\ interrupts' = interrupts + 1
  /\ HubSends("interrupt")
  /\ HubStep /\ UNCHANGED <<hubSegment, segments, brokenOff>>

-----------------------------------------------------------------------------
(* StreamingAudioPlayer *)

Alive(g) == processes[g].state \in {"open", "ended"}

\* A process was started: it takes audio until its input is ended or it is
\* killed; its close event comes later.
StopPlayer(procs) ==
  IF process = 0 THEN procs
  ELSE [procs EXCEPT ![process].state = "killed", ![process].graceful = FALSE]

Started(c) == [state |-> "open", graceful |-> FALSE, from |-> c]

StartBesides(c) ==                                                  \* mutant
  /\ processes' = Append(processes, Started(c))
  /\ process' = Len(processes) + 1

StartPlayer(c) ==
  /\ processes' = Append(StopPlayer(processes), Started(c))
  /\ process' = Len(processes) + 1

InputKeptOpen == UNCHANGED player                                   \* mutant
FinishPlayer ==
  /\ processes' = IF process = 0 \/ processes[process].state # "open" THEN processes
                  ELSE [processes EXCEPT ![process].state = "ended",
                                         ![process].graceful = TRUE]
  /\ UNCHANGED process

-----------------------------------------------------------------------------
(* What the handlers share *)

\* send drops what it cannot send; an end the hub was not waiting for shows.
Tell(signal) ==
  heard' = IF line # "open" THEN heard
           ELSE IF signal = "bot-speak-end" /\ heard # "bot-speaking"
                THEN "stray end" ELSE signal

resetConversationState ==
  /\ ready' = FALSE /\ playbackActive' = FALSE /\ playbackGeneration' = 0
  /\ sentenceCompleted' = FALSE /\ requireNewAudioInit' = TRUE
  /\ botSpeakEndSent' = FALSE /\ interrupting' = FALSE

CoolingDown == interrupting                                         \* mutant
InterruptedAlready == ~playbackActive \/ interrupting

\* detectInterrupt up to its await, when it goes on at all.
detectInterrupt ==
  /\ ~InterruptedAlready
  /\ interrupting' = TRUE
  /\ playbackActive' = FALSE
  /\ requireNewAudioInit' = TRUE
  /\ sentenceCompleted' = FALSE
  /\ botSpeakEndSent' = TRUE
  /\ processes' = StopPlayer(processes) /\ process' = 0
  /\ UNCHANGED <<playbackGeneration, ready>>

-----------------------------------------------------------------------------
(* The socket *)

Open ==
  /\ ~MustHandle
  /\ line = "connecting"
  /\ line' = "open" /\ heard' = "nothing"
  /\ resetConversationState
  /\ UNCHANGED <<hub, connection, handlers, player, volume>>

\* The socket closes, or it could not be opened.
Close ==
  /\ ~MustHandle
  /\ line \in {"connecting", "open"}
  /\ line' = "closed"
  /\ processes' = StopPlayer(processes) /\ process' = 0
  /\ enqueue("restore", Nobody)
  /\ resetConversationState
  /\ hubSegment' = "idle" /\ brokenOff' = TRUE
  /\ UNCHANGED <<segments, interrupts, connection, heard, handlers>>

\* Two seconds later. What the old socket had delivered is handled by then,
\* because each of its handlers waits for amixer only.
Reconnect ==
  /\ ~MustHandle
  /\ line = "closed" /\ connection < MaxConnections
  /\ messageChain = <<>> /\ VolumeIdle
  /\ line' = "connecting" /\ connection' = connection + 1
  /\ UNCHANGED <<hub, heard, handlers, ready, playback, interrupting, player,
                 volume>>

-----------------------------------------------------------------------------
(* handleMessage *)

Handles(kind) ==
  /\ handling = "none"
  /\ messageChain # <<>>
  /\ Head(messageChain).kind = kind

HandleReady ==
  /\ Handles("call_initialized")
  /\ ready' = TRUE
  /\ messageChain' = Tail(messageChain)
  /\ UNCHANGED <<hub, wire, handling, chunk, playback, interrupting, player,
                 volume>>

\* audio-init up to its await.
HandleAudioInit ==
  /\ Handles("audio-init")
  /\ requireNewAudioInit' = FALSE
  /\ sentenceCompleted' = FALSE
  /\ botSpeakEndSent' = FALSE
  /\ playbackActive' = TRUE
  /\ StartPlayer(Head(messageChain).from)
  /\ playbackGeneration' = process'
  /\ enqueue("restore", Chain)
  /\ handling' = "speak"
  /\ UNCHANGED <<hub, wire, messageChain, chunk, ready, interrupting>>

\* Chunks are written to the process, if it still takes any.
HandleAudio ==
  /\ Handles("audio")
  /\ messageChain' = Tail(messageChain)
  /\ UNCHANGED <<hub, wire, handling, chunk, ready, playback, interrupting,
                 player, volume>>

HandleAudioEnd ==
  /\ Handles("audio-end")
  /\ sentenceCompleted' = TRUE
  /\ FinishPlayer
  /\ messageChain' = Tail(messageChain)
  /\ UNCHANGED <<hub, wire, handling, chunk, ready, playbackActive,
                 playbackGeneration, requireNewAudioInit, botSpeakEndSent,
                 interrupting, volume>>

HandleLateInterrupt ==
  /\ Handles("interrupt")
  /\ InterruptedAlready
  /\ messageChain' = Tail(messageChain)
  /\ UNCHANGED <<hub, wire, handling, chunk, ready, playback, interrupting,
                 player, volume>>

HandleInterrupt ==
  /\ Handles("interrupt")
  /\ detectInterrupt
  /\ enqueue("restore", Chain)
  /\ handling' = "interrupt"
  /\ UNCHANGED <<hub, wire, messageChain, chunk>>

-----------------------------------------------------------------------------
(* Microphone chunks, and the exits of player processes *)

\* A chunk that is loud for long enough while the assistant speaks. All others
\* are sent to the hub, or dropped while the assistant speaks.
HearLoudChunk(k) ==
  /\ ~MustHandle
  /\ chunk[k] = "idle"
  /\ ready /\ ~InterruptedAlready
  /\ chunk' = [chunk EXCEPT ![k] = "duck"]
  /\ enqueue("duck", k)
  /\ UNCHANGED <<hub, wire, messageChain, handling, ready, playback,
                 interrupting, player>>

CooldownEnds ==
  /\ ~MustHandle
  /\ interrupting
  /\ interrupting' = FALSE
  /\ UNCHANGED <<hub, wire, handlers, ready, playback, player, volume>>

StaleExitCounts(g) == TRUE                                          \* mutant
OfCurrentPlayback(g) == g = playbackGeneration

PlayerExits(g) ==
  /\ ~MustHandle
  /\ processes[g].state # "gone"
  /\ processes' = [processes EXCEPT ![g].state = "gone"]
  /\ process' = IF process = g THEN 0 ELSE process
  /\ IF OfCurrentPlayback(g)
     THEN /\ playbackActive' = FALSE
          /\ enqueue("restore", Nobody)
          /\ IF processes[g].graceful /\ sentenceCompleted /\ ~botSpeakEndSent
             THEN botSpeakEndSent' = TRUE /\ Tell("bot-speak-end")
             ELSE UNCHANGED <<botSpeakEndSent, heard>>
          /\ requireNewAudioInit' = TRUE
          /\ sentenceCompleted' = FALSE
     ELSE UNCHANGED <<playbackActive, volume, botSpeakEndSent, heard,
                      requireNewAudioInit, sentenceCompleted>>
  /\ UNCHANGED <<hub, connection, line, handlers, ready, playbackGeneration,
                 interrupting>>

-----------------------------------------------------------------------------
(* A mixer command is through, and whoever awaits it goes on *)

NobodyResumes ==
  /\ ~MustHandle
  /\ RestoreDone(Nobody)
  /\ UNCHANGED <<hub, wire, handlers, ready, playback, interrupting, player>>

MessageHandled ==
  /\ RestoreDone(Chain)
  /\ Tell(IF handling = "speak" THEN "bot-speaking" ELSE "bot-speak-end")
  /\ handling' = "none"
  /\ messageChain' = Tail(messageChain)
  /\ UNCHANGED <<hub, connection, line, chunk, ready, playback, interrupting,
                 player>>

\* Ducked: the interrupt is detected, unless somebody was faster.
ChunkTooLate(k) ==
  /\ ~MustHandle /\ chunk[k] = "duck"
  /\ DuckDone(k)
  /\ InterruptedAlready
  /\ serial' = Tail(serial)
  /\ chunk' = [chunk EXCEPT ![k] = "idle"]
  /\ UNCHANGED <<hub, wire, messageChain, handling, ready, playback,
                 interrupting, player>>

ChunkInterrupts(k) ==
  /\ ~MustHandle /\ chunk[k] = "duck"
  /\ DuckDone(k)
  /\ detectInterrupt
  /\ serial' = Append(Tail(serial), [kind |-> "restore", waiter |-> k])
  /\ chunk' = [chunk EXCEPT ![k] = "interrupt"]
  /\ UNCHANGED <<hub, wire, messageChain, handling>>

ChunkHandled(k) ==
  /\ ~MustHandle
  /\ RestoreDone(k)
  /\ Tell("bot-speak-end")
  /\ chunk' = [chunk EXCEPT ![k] = "idle"]
  /\ UNCHANGED <<hub, connection, line, messageChain, handling, ready, playback,
                 interrupting, player>>

CommandEnds ==
  \/ NobodyResumes \/ MessageHandled
  \/ \E k \in Chunks : ChunkTooLate(k) \/ ChunkInterrupts(k) \/ ChunkHandled(k)

-----------------------------------------------------------------------------
HubContinues == HubAudio \/ HubEndsSegment \/ HubBreaksOff
Handle ==
  \/ HandleReady \/ HandleAudioInit \/ HandleAudio \/ HandleAudioEnd
  \/ HandleLateInterrupt \/ HandleInterrupt

Next ==
  \/ HubGreets \/ HubOpensSegment \/ HubContinues \/ HubInterrupts
  \/ Open \/ Close \/ Reconnect
  \/ Handle \/ CommandEnds \/ CooldownEnds
  \/ \E k \in Chunks : HearLoudChunk(k)
  \/ \E g \in DOMAIN processes : PlayerExits(g)

Spec == Init /\ [][Next]_vars

\* The event loop runs what is runnable, the hub finishes the segment it has
\* begun, amixer returns, and a player exits when its input ends or it is
\* killed. Nobody has to speak, and a process whose input stays open stays.
Quits(g) ==
  g \in DOMAIN processes /\ processes[g].state \in {"ended", "killed"} /\ PlayerExits(g)

Fairness ==
  /\ WF_vars(HubContinues) /\ WF_vars(Handle) /\ WF_vars(CommandEnds)
  /\ \A g \in 1..MaxSegments : WF_vars(Quits(g))

FairSpec == Spec /\ Fairness

-----------------------------------------------------------------------------
(* Properties *)

Waiters == Chunks \union {Chain, Nobody}
Command == [kind : {"duck", "restore"}, waiter : Waiters]
Messages ==
  [kind : {"call_initialized", "audio-init", "audio", "audio-end", "interrupt"},
   from : Nat]
Processes == [state : {"open", "ended", "killed", "gone"}, graceful : BOOLEAN, from : Nat]

TypeOK ==
  /\ userLevel \in UserLevels /\ level \in Nat /\ originalPercent \in Nat
  /\ ducked \in BOOLEAN /\ restoreFailed \in BOOLEAN
  /\ serial \in Seq(Command)
  /\ hubSegment \in {"idle", "opened", "sounding"}
  /\ segments \in 0..MaxSegments /\ interrupts \in 0..MaxInterrupts
  /\ brokenOff \in BOOLEAN
  /\ connection \in Nat /\ line \in {"connecting", "open", "closed"}
  /\ messageChain \in Seq(Messages)
  /\ handling \in {"none", "speak", "interrupt"}
  /\ handling # "none" => messageChain # <<>>
  /\ heard \in {"nothing", "bot-speaking", "bot-speak-end", "stray end"}
  /\ chunk \in [Chunks -> {"idle", "duck", "interrupt"}]
  /\ ready \in BOOLEAN /\ playbackActive \in BOOLEAN
  /\ playbackGeneration \in 0..Len(processes)
  /\ sentenceCompleted \in BOOLEAN /\ requireNewAudioInit \in BOOLEAN
  /\ botSpeakEndSent \in BOOLEAN /\ interrupting \in BOOLEAN
  /\ processes \in Seq(Processes)
  /\ process \in 0..Len(processes)

\* Never two voices at once: however segments, interrupts and reconnects
\* follow each other, at most one player process makes sound.
OneVoice ==
  \A g, h \in DOMAIN processes : Alive(g) /\ Alive(h) => g = h

\* The microphone is shut while the assistant is to be heard: a player of this
\* connection that is alive is covered by playbackActive, whichever of the
\* exits, interrupts and segments that overlap comes last.
PlayingShutsMicrophone ==
  \A g \in DOMAIN processes :
    Alive(g) /\ processes[g].from = connection /\ line # "connecting" => playbackActive

\* The hub hears bot-speak-end once per speech: interrupts by chunk and by
\* message, and the exit of the player, do not each report the end.
EndsReportedOnce == heard # "stray end"

\* When the mixer has settled, it is where the user left it, with any number
\* of chunks ducking at once and failing commands between; only a restore that
\* failed leaves it low, until the next one.
VolumeReturns ==
  VolumeIdle => level = userLevel \/ restoreFailed

\* The microphone opens again after every speech that the hub ends.
MicrophoneReopens ==
  playbackActive ~> (~playbackActive \/ brokenOff)
=============================================================================
