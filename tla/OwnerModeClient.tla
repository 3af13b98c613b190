--------------------------- MODULE OwnerModeClient ---------------------------
(***************************************************************************)
(* The Pi client in owner mode: class PiRealtimeClient of                  *)
(* src/ts/pi-client/client.ts when its AmicaBridge (amica-bridge.ts) posts *)
(* the assistant's segments to a browser that plays them. Messages of the  *)
(* hub run in a promise chain; loud microphone chunks, the playback timer, *)
(* the socket and the answers to posts come in between. The mixer is never *)
(* ducked in this mode, so that restore() does nothing.                    *)
(*                                                                         *)
(* A step is one uninterrupted run of JavaScript. Audio is the number of   *)
(* the chunk, counted as the bridge records them; a text is the number of  *)
(* its segment. Time is left out. The hub is runReply of server.ts, which  *)
(* goes on when it is interrupted.                                         *)
(***************************************************************************)
EXTENDS Integers, Sequences

CONSTANTS
  MaxReplies,            (* bound: replies of the hub                      *)
  ReplySegments,         (* bound: segments of one reply                   *)
  MaxOwnerConnections,   (* bound: connections to the hub                  *)
  MaxPosts               (* bound: interrupts posted to the bridge         *)

ASSUME OwnerAssumption ==
  {MaxReplies, ReplySegments, MaxOwnerConnections, MaxPosts} \subseteq Nat

NoText == 0
WholeReply == -1         \* the text of the final assistant message

VARIABLES
  (* the hub *)
  replies, speaking,     (* replies so far; none, between, opened, sounding *)
  said, begun,           (* segments of this reply: texts sent, audio begun *)
  (* the connection *)
  ownerLine,             (* connecting, open, closing, closed              *)
  ownerConnection, hubGreeted,    (* its number; hello was answered        *)
  ownerChain,            (* messages, the first being handled              *)
  awaiting,              (* the post its handler awaits: none, user, segment *)
  interruptPosts,        (* postInterrupt calls under way                  *)
  (* the client *)
  callReady,             (* ready                                          *)
  speaks,                (* playbackActive                                 *)
  needsInit, endSent, turnOpen,   (* requireNewAudioInit, botSpeakEndSent, *)
                         (* assistantTurnOpen                              *)
  coolingDown,           (* interruptingUntil is still to come             *)
  playbackTimer,         (* ownerPlaybackTimer is set                      *)
  texts, pendingText,    (* assistantTextSegments, assistantPendingText    *)
  pendingOwnerSegments,
  bridgeTurns, bridgeTurn, bridgeIndex,   (* bridgeTurnSequence, the turn  *)
                         (* of bridgeTurnId or 0, bridgeAssistantSegmentIndex *)
  (* the bridge *)
  bridgeSession,         (* a session id is known                          *)
  recording, sealed,     (* the audio of this segment, and of those queued *)
  recorded,              (* chunks recorded so far                         *)
  lastPosted,            (* the last chunk posted                          *)
  lastCut                (* the last chunk recorded before the reply was cut off *)

ownerHub == <<replies, speaking, said, begun>>
ownerWire == <<ownerLine, ownerConnection, hubGreeted>>
ownerTasks == <<ownerChain, awaiting, interruptPosts>>
ownerFlags == <<callReady, coolingDown, bridgeSession>>
ownerPlayback == <<speaks, needsInit, endSent, turnOpen, playbackTimer>>
ownerText == <<texts, pendingText, pendingOwnerSegments>>
ownerTurn == <<bridgeTurns, bridgeTurn, bridgeIndex>>
ownerAudio == <<recording, sealed, recorded, lastPosted, lastCut>>
ownerVars == <<ownerHub, ownerWire, ownerTasks, ownerFlags, ownerPlayback, ownerText,
               ownerTurn, ownerAudio>>

OwnerInit ==
  /\ replies = 0 /\ speaking = "none" /\ said = 0 /\ begun = 0
  /\ ownerLine = "connecting" /\ ownerConnection = 1 /\ hubGreeted = FALSE
  /\ ownerChain = <<>> /\ awaiting = "none" /\ interruptPosts = 0
  /\ callReady = FALSE /\ coolingDown = FALSE /\ bridgeSession = FALSE
  /\ speaks = FALSE /\ needsInit = TRUE /\ endSent = FALSE /\ turnOpen = FALSE
  /\ playbackTimer = FALSE
  /\ texts = <<>> /\ pendingText = NoText /\ pendingOwnerSegments = 0
  /\ bridgeTurns = 0 /\ bridgeTurn = 0 /\ bridgeIndex = 0
  /\ recording = <<>> /\ sealed = <<>>
  /\ recorded = 0 /\ lastPosted = 0 /\ lastCut = 0

OwnerMustHandle == ownerChain # <<>> /\ awaiting = "none"

-----------------------------------------------------------------------------
(* What the hub sends: the texts of a reply run ahead of its audio *)

OwnerMessage(kind, text) == [kind |-> kind, text |-> text]
OwnerHubSends(kind, text) ==
  /\ ~OwnerMustHandle /\ ownerLine \in {"open", "closing"}
  /\ ownerChain' = Append(ownerChain, OwnerMessage(kind, text))
  /\ UNCHANGED <<ownerLine, ownerConnection, awaiting, interruptPosts, ownerFlags,
                 ownerPlayback, ownerText, ownerTurn, ownerAudio>>

\* hello.ack and call_initialized.
OwnerIsGreeted ==
  /\ ~hubGreeted /\ hubGreeted' = TRUE
  /\ OwnerHubSends("hello.ack", NoText)
  /\ UNCHANGED ownerHub

ReplyBegins ==
  /\ hubGreeted /\ speaking = "none" /\ replies < MaxReplies
  /\ replies' = replies + 1 /\ speaking' = "between" /\ said' = 0 /\ begun' = 0
  /\ OwnerHubSends("user", NoText) /\ UNCHANGED hubGreeted

\* Text that completes a segment, or the rest of a reply that does not.
ReplyText(kind) ==
  /\ speaking # "none" /\ said < ReplySegments
  /\ kind = "rest" => said + 1 = ReplySegments
  /\ said' = said + 1
  /\ OwnerHubSends(kind, (replies - 1) * ReplySegments + said')
  /\ UNCHANGED <<replies, speaking, begun, hubGreeted>>

SegmentBegins ==
  /\ speaking = "between" /\ begun < said
  /\ begun' = begun + 1 /\ speaking' = "opened"
  /\ OwnerHubSends("audio-init", NoText)
  /\ UNCHANGED <<replies, said, hubGreeted>>

SegmentSounds ==
  /\ speaking = "opened" /\ speaking' = "sounding"
  /\ OwnerHubSends("audio", NoText)
  /\ UNCHANGED <<replies, said, begun, hubGreeted>>

SegmentEnds ==
  /\ speaking = "sounding" /\ speaking' = "between"
  /\ OwnerHubSends("audio-end", NoText)
  /\ UNCHANGED <<replies, said, begun, hubGreeted>>

ReplyEnds ==
  /\ speaking = "between" /\ begun = said /\ speaking' = "none"
  /\ OwnerHubSends("assistant", NoText)
  /\ UNCHANGED <<replies, said, begun, hubGreeted>>

\* TTS or the agent fails: there is no final message.
ReplyFails ==
  /\ ~OwnerMustHandle
  /\ speaking # "none" /\ speaking' = "none"
  /\ UNCHANGED <<replies, said, begun, ownerWire, ownerTasks, ownerFlags, ownerPlayback,
                 ownerText, ownerTurn, ownerAudio>>

-----------------------------------------------------------------------------
(* What the handlers share *)

clearAssistantTurn == recording' = <<>> /\ sealed' = <<>> /\ lastCut' = recorded
resetAssistantTextState == texts' = <<>> /\ pendingText' = NoText

startBridgeTurn ==
  bridgeTurns' = bridgeTurns + 1 /\ bridgeTurn' = bridgeTurns' /\ bridgeIndex' = 0

resetOwnerState ==
  /\ callReady' = FALSE /\ coolingDown' = FALSE /\ bridgeSession' = FALSE
  /\ speaks' = FALSE /\ needsInit' = TRUE /\ endSent' = FALSE /\ turnOpen' = FALSE
  /\ playbackTimer' = FALSE
  /\ resetAssistantTextState /\ pendingOwnerSegments' = 0
  /\ bridgeTurn' = 0 /\ bridgeIndex' = 0 /\ UNCHANGED bridgeTurns
  /\ clearAssistantTurn /\ UNCHANGED <<recorded, lastPosted>>

\* The handler of the first message returns.
Handled == ownerChain' = Tail(ownerChain) /\ awaiting' = "none"

\* failClosed with stopOwnerPlayback: a handler threw, perhaps one of an
\* earlier connection.
FailClosed ==
  /\ Handled
  /\ speaks' = FALSE /\ needsInit' = TRUE /\ endSent' = TRUE /\ turnOpen' = FALSE
  /\ playbackTimer' = FALSE
  /\ resetAssistantTextState /\ clearAssistantTurn
  /\ ownerLine' = IF ownerLine = "closed" THEN "closed" ELSE "closing"

LastOf(s) == s[Len(s)]

\* postAssistantSegment takes the oldest audio: a sealed segment, or else what
\* is being recorded.
LeftQueued(queue, open) ==                                          \* mutant
  /\ lastPosted' = IF queue # <<>> THEN LastOf(Head(queue)) ELSE LastOf(open)
  /\ sealed' = queue /\ recording' = open
TakesAudio(queue, open) ==
  IF queue # <<>>
  THEN sealed' = Tail(queue) /\ recording' = open /\ lastPosted' = LastOf(Head(queue))
  ELSE sealed' = <<>> /\ recording' = <<>> /\ lastPosted' = LastOf(open)

\* One round of flushOwnerModeSegments over these texts, number of segments
\* and audio: it posts the next text with the oldest audio, or the handler is
\* through. Without a session id the post throws, with both taken.
Flush(lines, rest, owed, queue, open, playback) ==
  LET posts == owed > 0 /\ (queue # <<>> \/ open # <<>>) /\ lines # <<>>
  IN  /\ pendingOwnerSegments' = owed
      /\ IF posts /\ ~bridgeSession
         THEN FailClosed /\ UNCHANGED lastPosted
         ELSE /\ pendingText' = rest /\ playback
              /\ UNCHANGED <<ownerLine, lastCut>>
              /\ IF posts
                 THEN /\ texts' = Tail(lines) /\ TakesAudio(queue, open)
                      /\ awaiting' = "segment" /\ UNCHANGED ownerChain
                 ELSE /\ texts' = lines /\ sealed' = queue /\ recording' = open
                      /\ Handled /\ UNCHANGED lastPosted

-----------------------------------------------------------------------------
(* The socket *)

OwnerOpens ==
  /\ ~OwnerMustHandle
  /\ ownerLine = "connecting" /\ ownerLine' = "open" /\ hubGreeted' = FALSE
  /\ resetOwnerState
  /\ UNCHANGED <<ownerHub, ownerConnection, ownerTasks>>

OwnerCloses ==
  /\ ~OwnerMustHandle
  /\ ownerLine # "closed" /\ ownerLine' = "closed"
  /\ resetOwnerState
  /\ speaking' = "none"
  /\ UNCHANGED <<replies, said, begun, ownerConnection, hubGreeted, ownerTasks>>

\* A post may outlast the two seconds: messages of the old socket wait behind.
OwnerReconnects ==
  /\ ~OwnerMustHandle
  /\ ownerLine = "closed" /\ ownerConnection < MaxOwnerConnections
  /\ ownerLine' = "connecting" /\ ownerConnection' = ownerConnection + 1
  /\ UNCHANGED <<ownerHub, hubGreeted, ownerTasks, ownerFlags, ownerPlayback, ownerText, ownerTurn,
                 ownerAudio>>

-----------------------------------------------------------------------------
(* handleMessage *)

OwnerHandles(kind) ==
  /\ OwnerMustHandle /\ Head(ownerChain).kind = kind
  /\ UNCHANGED <<ownerHub, ownerConnection, hubGreeted, interruptPosts, coolingDown>>

OwnerHandlesGreeting ==
  /\ OwnerHandles("hello.ack")
  /\ bridgeSession' = TRUE /\ callReady' = TRUE
  /\ Handled
  /\ UNCHANGED <<ownerLine, ownerPlayback, ownerText, ownerTurn, ownerAudio>>

\* handleFinalUser: a turn of the bridge begins, and the text is posted.
OwnerHandlesUser ==
  /\ OwnerHandles("user")
  /\ startBridgeTurn
  /\ IF bridgeSession
     THEN /\ awaiting' = "user"
          /\ UNCHANGED <<ownerLine, ownerChain, ownerPlayback, texts, pendingText, ownerAudio>>
     ELSE FailClosed /\ UNCHANGED <<recorded, lastPosted>>
  /\ UNCHANGED <<callReady, bridgeSession, pendingOwnerSegments>>

\* recordAssistantTextDelta: a text that is pending becomes part of the next.
OwnerHandlesText ==
  /\ \/ /\ OwnerHandles("text")
        /\ Flush(Append(texts, Head(ownerChain).text), NoText, pendingOwnerSegments, sealed,
                 recording, UNCHANGED ownerPlayback)
     \/ /\ OwnerHandles("rest")
        /\ Flush(texts, Head(ownerChain).text, pendingOwnerSegments, sealed, recording,
                 UNCHANGED ownerPlayback)
  /\ UNCHANGED <<callReady, bridgeSession, ownerTurn, recorded>>

\* audio-init. The first of a turn forgets texts and audio of what was before.
OwnerHandlesInit ==
  /\ OwnerHandles("audio-init")
  /\ needsInit' = FALSE /\ endSent' = FALSE
  /\ speaks' = TRUE /\ turnOpen' = TRUE /\ playbackTimer' = FALSE
  /\ IF turnOpen
     THEN UNCHANGED <<ownerText, ownerTurn, ownerAudio>>
     ELSE /\ resetAssistantTextState /\ pendingOwnerSegments' = 0
          /\ IF bridgeTurn = 0 THEN startBridgeTurn
             ELSE bridgeIndex' = 0 /\ UNCHANGED <<bridgeTurns, bridgeTurn>>
          /\ clearAssistantTurn /\ UNCHANGED <<recorded, lastPosted>>
  /\ Handled
  /\ UNCHANGED <<ownerLine, callReady, bridgeSession>>

OwnerHandlesAudio ==
  /\ OwnerHandles("audio")
  /\ IF needsInit
     THEN UNCHANGED <<recorded, recording>>
     ELSE recorded' = recorded + 1 /\ recording' = Append(recording, recorded')
  /\ Handled
  /\ UNCHANGED <<ownerLine, callReady, bridgeSession, ownerPlayback, ownerText, ownerTurn,
                 sealed, lastPosted, lastCut>>

\* audio-end: the segment is sealed, if anything of it was recorded.
OwnerHandlesEnd ==
  /\ OwnerHandles("audio-end")
  /\ IF recording = <<>>
     THEN Handled /\ UNCHANGED <<ownerLine, ownerPlayback, ownerText, ownerAudio>>
     ELSE /\ Flush(texts, pendingText, pendingOwnerSegments + 1, Append(sealed, recording),
                   <<>>, UNCHANGED ownerPlayback)
          /\ UNCHANGED recorded
  /\ UNCHANGED <<callReady, bridgeSession, ownerTurn>>

\* handleFinalAssistant: what is pending is the last text; without any text the
\* whole reply is.
FinalTexts ==
  IF pendingText # NoText THEN Append(texts, pendingText)
  ELSE IF texts = <<>> THEN <<WholeReply>> ELSE texts

OwnerHandlesFinal ==
  /\ OwnerHandles("assistant")
  /\ IF ~turnOpen
     THEN Handled /\ UNCHANGED <<ownerLine, ownerPlayback, ownerText, ownerAudio>>
     ELSE /\ Flush(FinalTexts, NoText, pendingOwnerSegments, sealed, recording,
                   turnOpen' = FALSE /\ UNCHANGED <<speaks, needsInit, endSent, playbackTimer>>)
          /\ UNCHANGED recorded
  /\ UNCHANGED <<callReady, bridgeSession, ownerTurn>>

-----------------------------------------------------------------------------
(* A post of the chain is answered, or it fails or times out *)

PostReturns(kind) ==
  /\ awaiting = kind
  /\ UNCHANGED <<ownerHub, ownerConnection, hubGreeted, interruptPosts, ownerFlags>>

PostFails ==
  /\ PostReturns("user") \/ PostReturns("segment")
  /\ FailClosed
  /\ UNCHANGED <<pendingOwnerSegments, ownerTurn, recorded, lastPosted>>

UserIsPosted ==
  /\ PostReturns("user")
  /\ Handled
  /\ UNCHANGED <<ownerLine, ownerPlayback, ownerText, ownerTurn, ownerAudio>>

\* Whatever has happened since, the timer is set, and the loop goes on.
SegmentIsPosted ==
  /\ PostReturns("segment")
  /\ bridgeIndex' = bridgeIndex + 1
  /\ Flush(texts, pendingText, pendingOwnerSegments - 1, sealed, recording,
           playbackTimer' = TRUE /\ UNCHANGED <<speaks, needsInit, endSent, turnOpen>>)
  /\ UNCHANGED <<bridgeTurns, bridgeTurn, recorded>>

-----------------------------------------------------------------------------
(* Interrupts by the microphone, and the playback timer *)

OwnerEvent ==
  /\ ~OwnerMustHandle
  /\ UNCHANGED <<ownerHub, ownerWire, ownerChain, awaiting, callReady, bridgeSession,
                 ownerTurn, recorded, lastPosted>>

\* A chunk that is loud for long enough: detectInterrupt up to its post. Without
\* a session id the post throws at once.
KeepAudio == UNCHANGED <<recording, sealed>> /\ lastCut' = recorded  \* mutant
CutAudio == clearAssistantTurn

InterruptOwner ==
  /\ OwnerEvent
  /\ callReady /\ speaks /\ ~coolingDown
  /\ coolingDown' = TRUE
  /\ speaks' = FALSE /\ needsInit' = TRUE /\ endSent' = TRUE /\ turnOpen' = FALSE
  /\ playbackTimer' = FALSE
  /\ resetAssistantTextState /\ pendingOwnerSegments' = 0
  /\ CutAudio
  /\ IF bridgeSession
     THEN interruptPosts < MaxPosts /\ interruptPosts' = interruptPosts + 1
     ELSE UNCHANGED interruptPosts

\* The bridge has the interrupt: what was recorded since is cleared as well.
InterruptIsPosted ==
  /\ OwnerEvent
  /\ interruptPosts > 0 /\ interruptPosts' = interruptPosts - 1
  /\ clearAssistantTurn
  /\ UNCHANGED <<coolingDown, ownerPlayback, ownerText>>

InterruptPostFails ==
  /\ OwnerEvent
  /\ interruptPosts > 0 /\ interruptPosts' = interruptPosts - 1
  /\ UNCHANGED <<coolingDown, ownerPlayback, ownerText, recording, sealed, lastCut>>

OwnerCooldownEnds ==
  /\ OwnerEvent
  /\ coolingDown /\ coolingDown' = FALSE
  /\ UNCHANGED <<interruptPosts, ownerPlayback, ownerText, recording, sealed, lastCut>>

\* finishOwnerPlayback.
PlaybackTimerFires ==
  /\ OwnerEvent
  /\ playbackTimer /\ playbackTimer' = FALSE
  /\ IF ~speaks \/ endSent
     THEN UNCHANGED <<speaks, needsInit, endSent, turnOpen, pendingOwnerSegments>>
     ELSE /\ speaks' = FALSE /\ needsInit' = TRUE /\ endSent' = TRUE /\ turnOpen' = FALSE
          /\ pendingOwnerSegments' = 0
  /\ UNCHANGED <<interruptPosts, coolingDown, texts, pendingText, recording, sealed, lastCut>>

-----------------------------------------------------------------------------
OwnerHubActs ==
  \/ OwnerIsGreeted \/ ReplyBegins \/ SegmentBegins \/ SegmentSounds \/ SegmentEnds
  \/ ReplyEnds \/ ReplyFails
  \/ \E kind \in {"text", "rest"} : ReplyText(kind)

OwnerHandle ==
  \/ OwnerHandlesGreeting \/ OwnerHandlesUser \/ OwnerHandlesText \/ OwnerHandlesInit
  \/ OwnerHandlesAudio \/ OwnerHandlesEnd \/ OwnerHandlesFinal

OwnerNext ==
  \/ OwnerHubActs \/ OwnerHandle
  \/ OwnerOpens \/ OwnerCloses \/ OwnerReconnects
  \/ PostFails \/ UserIsPosted \/ SegmentIsPosted
  \/ InterruptOwner \/ InterruptIsPosted \/ InterruptPostFails \/ OwnerCooldownEnds
  \/ PlaybackTimerFires

OwnerSpec == OwnerInit /\ [][OwnerNext]_ownerVars

-----------------------------------------------------------------------------
(* Properties *)

OwnerMessages ==
  [kind : {"hello.ack", "user", "text", "rest", "audio-init", "audio", "audio-end",
           "assistant"},
   text : Nat]

OwnerTypeOK ==
  /\ {replies, said, begun, ownerConnection, interruptPosts} \subseteq Nat
  /\ speaking \in {"none", "between", "opened", "sounding"}
  /\ ownerLine \in {"connecting", "open", "closing", "closed"}
  /\ ownerChain \in Seq(OwnerMessages) /\ awaiting \in {"none", "user", "segment"}
  /\ {hubGreeted, callReady, coolingDown, bridgeSession, speaks, needsInit, endSent, turnOpen,
      playbackTimer} \subseteq BOOLEAN
  /\ texts \in Seq(Int) /\ pendingText \in Nat /\ pendingOwnerSegments \in Int
  /\ {bridgeTurns, bridgeTurn, bridgeIndex} \subseteq Nat
  /\ recording \in Seq(Nat) /\ sealed \in Seq(Seq(Nat))
  /\ {recorded, lastPosted, lastCut} \subseteq Nat

Rising(s) == \A a, b \in DOMAIN s : a < b => s[a] < s[b]
Precedes(s, t) == \A a \in DOMAIN s, b \in DOMAIN t : s[a] < t[b]
New(s) == \A a \in DOMAIN s : lastPosted < s[a] /\ lastCut < s[a] /\ s[a] <= recorded

\* However posts, interrupts, the timer and reconnects overlap, audio goes to
\* the bridge in the order it came and never twice, and an interrupt, a failed
\* post or a lost connection leaves nothing of what was recorded before it.
QueuedAudioIsNew ==
  /\ Rising(recording) /\ New(recording)
  /\ \A i \in DOMAIN sealed :
       Rising(sealed[i]) /\ New(sealed[i]) /\ Precedes(sealed[i], recording)
  /\ \A i, j \in DOMAIN sealed : i < j => Precedes(sealed[i], sealed[j])
=============================================================================
