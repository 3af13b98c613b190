--------------------------- MODULE PiVoiceClient ---------------------------
(***************************************************************************)
(* The Python satellite client client/pi_realtime/client.py on one         *)
(* connection to the server of RealtimeVoiceServer: the reader of the      *)
(* server's messages, the loop over microphone chunks with its voice       *)
(* detection, and the player they share.                                   *)
(*                                                                         *)
(* A chunk is its number, and has one of three levels: quiet, voice (above *)
(* the threshold that continues speech), loud (above the one that begins   *)
(* it). The second threshold follows the noise, so the level is any.       *)
(* Timeouts may come at any chunk. Detection has its default settings: one *)
(* loud chunk begins a turn. A device of another make speaks the same      *)
(* protocol and may send any of its messages in any order.                 *)
(***************************************************************************)
EXTENDS RealtimeVoiceServer

CONSTANTS
  Devices,       (* subset of {"pi", "other"}                              *)
  Levels,        (* of chunks: subset of {"quiet", "voice", "loud"}        *)
  MaxChunks,     (* bound: chunks heard by a pi                            *)
  MaxSent,       (* bound: messages sent by another device                 *)
  PrerollChunks, (* preroll_chunks                                         *)
  LeadChunks     (* preroll_lead_chunks                                    *)

ASSUME ClientAssumption ==
  /\ Devices \subseteq {"pi", "other"} /\ Levels \subseteq {"quiet", "voice", "loud"}
  /\ MaxChunks \in Nat /\ MaxSent \in Nat
  /\ PrerollChunks \in Nat \ {0} /\ LeadChunks \in Nat

OtherKinds == {"hello", "interrupt", "turn.start", "turn.end", "session.reset"}

VARIABLES
  device,          (* the make of the client; gone: its connection is over *)
  sent,            (* messages another device has sent                     *)
  (* microphone *)
  heard,           (* level of each chunk so far                           *)
  preroll,         (* the first chunk in _preroll                          *)
  turnActive, userSpeaking, speechStarted,
  pendingSilence,  (* chunks held back                                     *)
  mic,             (* idle, or stopping: waits for the player to be killed *)
  (* reader and player *)
  assistantActive, audioActive,
  waiting,         (* the message whose handler waits for the player's lock*)
  player           (* process: its input is open, ended, or there is none  *)

detection == <<heard, preroll, turnActive, userSpeaking, speechStarted, pendingSilence>>
reading == <<assistantActive, audioActive, waiting, player>>
client == <<device, sent, detection, mic, reading>>
vars == <<server, client>>

NoMessage == Message("none", None)
NoPlayer == [state |-> "none", of |-> None, sounds |-> {}]

\* run() sends hello when connected.
Init ==
  /\ device \in Devices
  /\ inbox = IF device = "pi" THEN <<Message("hello", None)>> ELSE <<>>
  /\ ServerInit
  /\ sent = 0
  /\ heard = <<>> /\ preroll = 1 /\ pendingSilence = <<>>
  /\ turnActive = FALSE /\ userSpeaking = FALSE /\ speechStarted = FALSE
  /\ mic = "idle"
  /\ assistantActive = FALSE /\ audioActive = FALSE
  /\ waiting = NoMessage /\ player = NoPlayer

-----------------------------------------------------------------------------
(* The microphone *)

Chunks(first, last) == [i \in 1..(last - first + 1) |-> Message("audio", first + i - 1)]
ToServer(messages) == inbox' = inbox \o messages

\* _slice_preroll of the chunks kept, the last n: from the first with voice on, and
\* its lead.
PrerollSlice(n) ==
  LET kept == Max({preroll, n - PrerollChunks + 1})
      voiced == {i \in kept..n : heard'[i] # "quiet"}
  IN  IF voiced = {} THEN <<>> ELSE Chunks(Max({kept, Min(voiced) - LeadChunks}), n)

\* _begin_turn from its last await on.
StartTurn(n, before) ==
  /\ ToServer(before \o <<Message("turn.start", None)>> \o PrerollSlice(n))
  /\ turnActive' = TRUE
  /\ speechStarted' = (PrerollSlice(n) # <<>>)
  /\ pendingSilence' = <<>>
  /\ preroll' = n + 1

\* Speech during the assistant's turn kills the player first, and waits for that.
Interrupting == assistantActive \/ audioActive

BeginTurn(n) ==
  IF Interrupting
  THEN /\ mic' = "stopping"
       /\ player' = NoPlayer
       /\ UNCHANGED <<inbox, turnActive, speechStarted, pendingSilence, preroll>>
  ELSE /\ StartTurn(n, <<>>)
       /\ UNCHANGED <<mic, player>>

\* A chunk with voice is sent after the silence held back before it.
SilenceForgotten(n) == <<Message("audio", n)>>                      \* mutant
Spoken(n) ==
  [i \in DOMAIN pendingSilence |-> Message("audio", pendingSilence[i])]
    \o <<Message("audio", n)>>

\* A chunk of the active turn; any of the three timeouts may end it.
ContinueTurn(n, speaking, spoken, ends) ==
  /\ ToServer((IF spoken THEN Spoken(n) ELSE <<>>)
              \o (IF ends THEN <<Message("turn.end", None)>> ELSE <<>>))
  /\ turnActive' = ~ends
  /\ userSpeaking' = (speaking /\ ~ends)
  /\ speechStarted' = ((speechStarted \/ spoken) /\ ~ends)
  /\ pendingSilence' = IF spoken \/ ends THEN <<>>
                       ELSE IF speechStarted THEN Append(pendingSilence, n)
                       ELSE pendingSilence

\* Whoever has spoken goes on with any voice, and for a moment with none.
Speaking(level) ==
  IF level = "loud" \/ (userSpeaking /\ level = "voice") THEN {TRUE}
  ELSE IF userSpeaking THEN BOOLEAN ELSE {FALSE}

\* _handle_microphone_chunk.
Hear(level) ==
  LET n == Len(heard) + 1 IN
  /\ device = "pi" /\ Open /\ mic = "idle" /\ n <= MaxChunks
  /\ heard' = Append(heard, level)
  /\ \E speaking \in Speaking(level) :
       \/ /\ turnActive
          /\ \E ends \in BOOLEAN :
               ContinueTurn(n, speaking, speaking /\ level # "quiet", ends)
          /\ UNCHANGED <<preroll, mic, player>>
       \/ /\ ~turnActive
          /\ userSpeaking' = speaking
          /\ IF speaking /\ ~userSpeaking
             THEN BeginTurn(n)
             ELSE UNCHANGED <<inbox, preroll, turnActive, speechStarted, pendingSilence,
                              mic, player>>
  /\ UNCHANGED <<socket, outbox, connection, reply, speech, texts, ttsSocket, memory, released,
                 files, device, sent, assistantActive, audioActive, waiting>>

-----------------------------------------------------------------------------
(* The reader and the player *)

\* What a message does to the flags, and to the player.
Silencing == {"assistant.end", "cancelled", "interrupted"}
Flags(m) ==
  /\ assistantActive' = (\/ m.kind \in {"assistant.start", "audio.start"}
                         \/ m.kind \notin Silencing /\ assistantActive)
  /\ audioActive' = (\/ m.kind \in {"audio.start", "audio.chunk"}
                     \/ m.kind \notin Silencing \union {"audio.end"} /\ audioActive)

Played(m) ==
  CASE m.kind = "audio.start" -> [state |-> "open", of |-> m.turn, sounds |-> {}]
    [] m.kind = "audio.chunk" /\ player.state = "open" ->
         [player EXCEPT !.sounds = @ \union {m.turn}]
    [] m.kind = "audio.end" /\ player.state = "open" -> [player EXCEPT !.state = "ended"]
    [] m.kind \in {"cancelled", "interrupted"} -> NoPlayer
    [] OTHER -> player

\* These take the player's lock, which stop() holds while it waits for the process.
NeedsPlayer(m) ==
  m.kind \in {"audio.start", "audio.chunk", "audio.end", "cancelled", "interrupted"}

\* _handle_server_message.
Read ==
  /\ outbox # <<>> /\ waiting = NoMessage /\ device # "gone"
  /\ LET m == Head(outbox) IN
       /\ Flags(m)
       /\ IF NeedsPlayer(m) /\ mic = "stopping"
          THEN waiting' = m /\ UNCHANGED player
          ELSE player' = Played(m) /\ UNCHANGED waiting
  /\ outbox' = Tail(outbox)
  /\ UNCHANGED <<socket, inbox, connection, reply, speech, texts, ttsSocket, memory, released,
                 files, device, sent, detection, mic>>

\* The process is dead: the turn begins, and whoever waits for the lock has it next.
StopReturns ==
  /\ mic = "stopping" /\ Open
  /\ mic' = "idle"
  /\ assistantActive' = FALSE /\ audioActive' = FALSE
  /\ heard' = heard
  /\ StartTurn(Len(heard), <<Message("interrupt", None)>>)
  /\ player' = Played(waiting) /\ waiting' = NoMessage
  /\ UNCHANGED <<socket, outbox, connection, reply, speech, texts, ttsSocket, memory, released,
                 files, device, sent, userSpeaking>>

\* A player whose input has ended plays what it has, and exits.
PlayedOut ==
  /\ player.state = "ended"
  /\ player' = NoPlayer
  /\ UNCHANGED <<server, device, sent, detection, mic, assistantActive, audioActive, waiting>>

\* run() after the connection: a failed one stops the player, one that was closed
\* in order does not.
ConnectionOver ==
  /\ device # "gone" /\ ~Open
  /\ device' = "gone" /\ outbox' = <<>>
  /\ turnActive' = FALSE /\ userSpeaking' = FALSE /\ speechStarted' = FALSE
  /\ pendingSilence' = <<>> /\ preroll' = Len(heard) + 1
  /\ assistantActive' = FALSE /\ audioActive' = FALSE
  /\ mic' = "idle" /\ waiting' = NoMessage
  /\ player' \in {NoPlayer, player}
  /\ UNCHANGED <<socket, inbox, connection, reply, speech, texts, ttsSocket, memory, released,
                 files, sent, heard>>

-----------------------------------------------------------------------------
(* A device of another make *)

SendOther ==
  /\ device = "other" /\ Open /\ sent < MaxSent
  /\ sent' = sent + 1
  /\ \E kind \in OtherKinds : ToServer(<<Message(kind, None)>>)
  /\ UNCHANGED <<socket, outbox, connection, reply, speech, texts, ttsSocket, memory, released,
                 files, device, detection, mic, reading>>

Next ==
  \/ ServerNext /\ UNCHANGED client
  \/ \E level \in Levels : Hear(level)
  \/ Read \/ StopReturns \/ PlayedOut \/ ConnectionOver \/ SendOther

Spec == Init /\ [][Next]_vars

\* The agent's stream has a timeout; connects, speech and a blocked send end, the
\* last by the pings of either side.
Settles(t) ==
  \/ RunReply(t) \/ StreamEnds(t) \/ AgentFails(t) \/ SpeechOver(t) \/ Resume(t)
  \/ Opens(t) \/ FinalAudio(t) \/ DropEnds(t)

FairSpec == Spec /\ \A t \in Turns : WF_vars(Settles(t) /\ UNCHANGED client)

-----------------------------------------------------------------------------
(* Properties *)

TypeOK ==
  /\ socket \in {"open", "closed"} /\ loop \in {"idle", "gone"}
  /\ session \in Sessions /\ turns \in 0..MaxTurns
  /\ {activeTurn, replyTask, collecting} \subseteq 0..turns
  /\ reply \in [Turns -> {"none", "created", "starting", "streaming", "sending", "speech",
                          "ending", "failing", "done"}]
  /\ speech \in [Turns -> {"none", "opening", "speaking", "dropped", "cancelled", "failed",
                           "done"}]
  /\ deltas \in [Turns -> 0..MaxDeltas]
  /\ fed \subseteq 1..turns /\ sounded \subseteq 1..turns /\ cancelled \subseteq 1..turns
  /\ ttsSocket \in {"none", "open"}
  /\ record \in [Turns -> {"none", "no_input", "reply", "interrupted", "error"}]
  /\ \A s \in Sessions : history[s] \in Seq(Turns)
  /\ heard \in Seq(Levels) /\ preroll \in 1..(MaxChunks + 1)
  /\ player.state \in {"none", "open", "ended"} /\ player.sounds \subseteq Turns

\* The agent's memory of a session only grows, whatever is cut, fails or overlaps
\* (psfn_streaming.py writes back a list it has read before the stream).
HistoryKeepsExchanges == [][\A s \in Sessions : IsPrefix(history[s], history'[s])]_vars

\* The reply.json of a turn that was cut never claims an answer, at whatever await
\* the cancellation found the task.
CancelledIsNotAnswered == \A t \in cancelled : record[t] # "reply"

\* A player plays one reply. Only the speech of a reply whose agent failed, which
\* nobody cancels, may come out of another reply's player.
PlayerHearsOneReply ==
  \A t \in player.sounds : t = player.of \/ record[t] = "error"

\* Once the server has had the interrupt and the start of the user's turn, and the
\* client has read its answers, nothing is being put into a player, although the
\* assistant's messages may have passed the interrupt on the way. A reply whose agent
\* failed leaves its player open.
UserIsNotTalkedOver ==
  /\ Open /\ turnActive /\ outbox = <<>>
  /\ \A i \in DOMAIN inbox : inbox[i].kind \notin {"interrupt", "turn.start"}
  => player.state # "open" \/ record[player.of] = "error"

\* A turn's audio has no hole and no repetition, from its preroll to the last
\* chunk that was sent, pauses included.
SpeechIsWhole ==
  device = "pi" =>
    \A t \in Turns : \A i \in 1..(Len(pcm[t]) - 1) : pcm[t][i + 1] = pcm[t][i] + 1

\* Every reply ends, also when its speech, its agent or the client fails.
ReplyEnds == \A t \in Turns : reply[t] = "created" ~> reply[t] = "done"
=============================================================================
