----------------------------- MODULE RelayClient -----------------------------
(***************************************************************************)
(* The HTTP API of the Pi client, class PiClientApiServer of               *)
(* src/ts/pi-client/mic-control-server.ts, over the relay client, class    *)
(* HubOpenAiRelayClient of src/ts/pi-client/relay-client.ts: clips to      *)
(* transcribe and texts to speak wait until the hub is ready, are sent     *)
(* over one websocket that reconnects, and are settled by the first of the *)
(* hub's answer, their timer and the close of the socket.                  *)
(*                                                                         *)
(* A step is one event of the Pi client with the continuations it makes    *)
(* runnable, or one step of the hub's connection (src/ts/hub/server.ts),   *)
(* which handles its messages one after the other. Texts and clips are the *)
(* names of their requests, audio the numbers of its chunks.               *)
(***************************************************************************)
EXTENDS Naturals, Sequences, FiniteSets, SequencesExt

CONSTANTS
  Clips, Speeches,         (* the requests: /transcriptions and /speech    *)
  MaxRelayConnections,     (* bound: connections to the hub                *)
  MaxAudio                 (* bound: audio chunks of one speech            *)

Requests == Clips \union Speeches
Hello == "hello"           \* the first message of every connection

ASSUME RelayAssumption ==
  /\ Clips \intersect Speeches = {} /\ Hello \notin Requests
  /\ MaxRelayConnections \in Nat /\ MaxAudio \in Nat

RequestStates ==
  {"idle", "body", "waiting", "pending", "answered", "refused", "failed"}
HubMessages ==
  [type : {"ready", "relay.stt.result", "relay.tts.chunk", "relay.tts.done",
           "relay.error"},
   request : Requests \union {Hello}, chunk : Nat]

VARIABLES
  (* the HTTP side *)
  request,                 (* the state of each; body: it is being read    *)
  answer,                  (* the audio that answered a speech             *)
  clientMuted,             (* micMuted                                     *)
  (* the relay client *)
  relayLine,               (* connecting, open, closing, closed            *)
  relayConnection,         (* its number                                   *)
  relayReady,              (* ready                                        *)
  readyWaiters,            (* requests that wait for it, first come first  *)
  pendingRequests,         (* keys of pendingSttRequests, pendingTtsRequests *)
  pendingChunks,           (* chunks of each entry for a speech            *)
  (* the hub's connection *)
  toHub,                   (* its message chain, the first being handled   *)
  greeted,                 (* session.ready was sent                       *)
  spoken,                  (* chunks synthesized of each speech            *)
  toRelay                  (* what it sent, in order                       *)

relayHttp == <<request, answer, clientMuted>>
relaySocket == <<relayLine, relayConnection, relayReady>>
relayTables == <<readyWaiters, pendingRequests, pendingChunks>>
relayHub == <<toHub, greeted, spoken, toRelay>>
relayVars == <<relayHttp, relaySocket, relayTables, relayHub>>

\* start() connects before the HTTP server listens.
RelayInit ==
  /\ request = [r \in Requests |-> "idle"]
  /\ answer = [s \in Speeches |-> <<>>]
  /\ clientMuted = FALSE
  /\ relayLine = "connecting" /\ relayConnection = 1 /\ relayReady = FALSE
  /\ readyWaiters = <<>>
  /\ pendingRequests = {}
  /\ pendingChunks = [s \in Speeches |-> <<>>]
  /\ toHub = <<>> /\ greeted = FALSE /\ toRelay = <<>>
  /\ spoken = [s \in Speeches |-> 0]

Becomes(rs, state) ==
  request' = [r \in Requests |-> IF r \in rs THEN state ELSE request[r]]

-----------------------------------------------------------------------------
(* PiClientApiServer *)

\* POST /mic, once its body is read.
SetMicMuted(muted) ==
  /\ clientMuted' = muted
  /\ UNCHANGED <<request, answer, relaySocket, relayTables, relayHub>>

\* While the microphone is muted a clip is answered with an empty text; one
\* whose body is already being read goes on.
PostClip(c) ==
  /\ request[c] = "idle"
  /\ Becomes({c}, IF clientMuted THEN "answered" ELSE "body")
  /\ UNCHANGED <<answer, clientMuted, relaySocket, relayTables, relayHub>>

PostSpeech(s) ==
  /\ request[s] = "idle"
  /\ Becomes({s}, "body")
  /\ UNCHANGED <<answer, clientMuted, relaySocket, relayTables, relayHub>>

\* No file, not a WAV file the hub can use, not JSON, no text.
BodyIsBad(r) ==
  /\ request[r] = "body"
  /\ Becomes({r}, "refused")
  /\ UNCHANGED <<answer, clientMuted, relaySocket, relayTables, relayHub>>

-----------------------------------------------------------------------------
(* transcribePcm and synthesizeSpeech *)

\* Those that waited go on, in turn: each is entered into its table and sent.
\* A socket that is closing refuses it, and the entry is removed again.
KeepEntry(rs) ==                                                    \* mutant
  /\ pendingRequests' = pendingRequests \union rs
  /\ IF relayLine = "open" THEN Becomes(rs, "pending") ELSE Becomes(rs, "failed")

Enter(rs) ==
  IF relayLine = "open"
  THEN Becomes(rs, "pending") /\ pendingRequests' = pendingRequests \union rs
  ELSE Becomes(rs, "failed") /\ UNCHANGED pendingRequests

Sent(rs) == IF relayLine = "open" THEN toHub \o rs ELSE toHub

IsReady == relayReady /\ relayLine = "open"

\* The body is read: the request is sent, or it waits until the hub is ready.
BodyRead(r) ==
  /\ request[r] = "body"
  /\ IF IsReady
     THEN Enter({r}) /\ toHub' = Sent(<<r>>) /\ UNCHANGED readyWaiters
     ELSE /\ Becomes({r}, "waiting")
          /\ readyWaiters' = Append(readyWaiters, r)
          /\ UNCHANGED <<pendingRequests, toHub>>
  /\ UNCHANGED <<answer, clientMuted, relaySocket, pendingChunks, greeted, spoken,
                 toRelay>>

ReadyTimesOut(r) ==
  /\ \E i \in DOMAIN readyWaiters :
       readyWaiters[i] = r /\ readyWaiters' = RemoveAt(readyWaiters, i)
  /\ Becomes({r}, "failed")
  /\ UNCHANGED <<answer, clientMuted, relaySocket, pendingRequests, pendingChunks,
                 relayHub>>

\* An entry is settled: it leaves its table, and its chunks with it.
Settle(r, state) ==
  /\ Becomes({r}, state)
  /\ pendingRequests' = pendingRequests \ {r}
  /\ pendingChunks' = [s \in Speeches |-> IF s = r THEN <<>> ELSE pendingChunks[s]]

RequestTimesOut(r) ==
  /\ r \in pendingRequests
  /\ Settle(r, "failed")
  /\ UNCHANGED <<answer, clientMuted, relaySocket, readyWaiters, relayHub>>

-----------------------------------------------------------------------------
(* The socket of the relay client *)

RelayOpens ==
  /\ relayLine = "connecting"
  /\ relayLine' = "open" /\ relayReady' = FALSE
  /\ toHub' = <<Hello>> /\ greeted' = FALSE
  /\ UNCHANGED <<relayHttp, relayConnection, relayTables, spoken, toRelay>>

\* The hub closes, or the connection breaks. What it sent is still delivered.
RelayLosesHub ==
  /\ relayLine = "open"
  /\ relayLine' = "closing"
  /\ UNCHANGED <<relayHttp, relayConnection, relayReady, relayTables, relayHub>>

\* failReadyWaiters and failPendingRequests.
FailPending ==                                                      \* mutant
  /\ Becomes(pendingRequests, "failed")
  /\ readyWaiters' = <<>> /\ pendingRequests' = {}
  /\ pendingChunks' = [s \in Speeches |-> <<>>]
FailAll ==
  /\ Becomes(pendingRequests \union ToSet(readyWaiters), "failed")
  /\ readyWaiters' = <<>> /\ pendingRequests' = {}
  /\ pendingChunks' = [s \in Speeches |-> <<>>]

\* The socket is closed, or it could not be opened.
RelayCloses ==
  /\ relayLine = "connecting" \/ (relayLine = "closing" /\ toRelay = <<>>)
  /\ relayLine' = "closed" /\ relayReady' = FALSE
  /\ FailAll
  /\ toHub' = <<>> /\ toRelay' = <<>>
  /\ UNCHANGED <<answer, clientMuted, relayConnection, greeted, spoken>>

RelayReconnects ==
  /\ relayLine = "closed" /\ relayConnection < MaxRelayConnections
  /\ relayLine' = "connecting" /\ relayConnection' = relayConnection + 1
  /\ UNCHANGED <<relayHttp, relayReady, relayTables, relayHub>>

-----------------------------------------------------------------------------
(* The hub's connection: one message after the other, while it is up *)

Reply(type, r, n) == [type |-> type, request |-> r, chunk |-> n]
HubReplies(message) ==
  /\ relayLine = "open"
  /\ toRelay' = Append(toRelay, message)
  /\ UNCHANGED <<relayHttp, relaySocket, relayTables>>
HubIsAt(r) == toHub # <<>> /\ Head(toHub) = r

\* session.ready, once the transcription session is open: before or after the
\* hello, or never.
HubIsReady ==
  /\ ~greeted /\ greeted' = TRUE
  /\ HubReplies(Reply("ready", Hello, 0))
  /\ UNCHANGED <<toHub, spoken>>

HubAcknowledges ==
  /\ HubIsAt(Hello)
  /\ toHub' = Tail(toHub)
  /\ HubReplies(Reply("ready", Hello, 0))
  /\ UNCHANGED <<greeted, spoken>>

HubTranscribes(c) ==
  /\ HubIsAt(c)
  /\ toHub' = Tail(toHub)
  /\ HubReplies(Reply("relay.stt.result", c, 0))
  /\ UNCHANGED <<greeted, spoken>>

HubSpeaks(s) ==
  /\ HubIsAt(s) /\ spoken[s] < MaxAudio
  /\ spoken' = [spoken EXCEPT ![s] = @ + 1]
  /\ HubReplies(Reply("relay.tts.chunk", s, spoken'[s]))
  /\ UNCHANGED <<toHub, greeted>>

HubHasSpoken(s) ==
  /\ HubIsAt(s)
  /\ toHub' = Tail(toHub)
  /\ HubReplies(Reply("relay.tts.done", s, 0))
  /\ UNCHANGED <<greeted, spoken>>

\* The provider fails, or nothing can be spoken of the text.
HubFails(r) ==
  /\ HubIsAt(r)
  /\ toHub' = Tail(toHub)
  /\ HubReplies(Reply("relay.error", r, 0))
  /\ UNCHANGED <<greeted, spoken>>

-----------------------------------------------------------------------------
(* handleMessage *)

Receives(type) == toRelay # <<>> /\ Head(toRelay).type = type /\ toRelay' = Tail(toRelay)
Subject == Head(toRelay).request

HandleHubReady ==
  /\ Receives("ready")
  /\ relayReady' = TRUE
  /\ Enter(ToSet(readyWaiters)) /\ toHub' = Sent(readyWaiters)
  /\ readyWaiters' = <<>>
  /\ UNCHANGED <<answer, clientMuted, relayLine, relayConnection, pendingChunks,
                 greeted, spoken>>

\* Late: the request has timed out.
HandleLate ==
  /\ \E type \in {"relay.stt.result", "relay.tts.chunk", "relay.tts.done", "relay.error"} :
       Receives(type)
  /\ Subject \notin pendingRequests
  /\ UNCHANGED <<relayHttp, relaySocket, relayTables, toHub, greeted, spoken>>

HandleResult ==
  /\ Receives("relay.stt.result") /\ Subject \in pendingRequests
  /\ Settle(Subject, "answered")
  /\ UNCHANGED <<answer, clientMuted, relaySocket, readyWaiters, toHub, greeted, spoken>>

LastChunkOnly(s, n) == pendingChunks' = [pendingChunks EXCEPT ![s] = <<n>>]  \* mutant
AddChunk(s, n) == pendingChunks' = [pendingChunks EXCEPT ![s] = Append(@, n)]

HandleChunk ==
  /\ Receives("relay.tts.chunk") /\ Subject \in pendingRequests
  /\ AddChunk(Subject, Head(toRelay).chunk)
  /\ UNCHANGED <<relayHttp, relaySocket, readyWaiters, pendingRequests, toHub, greeted,
                 spoken>>

HandleDone ==
  /\ Receives("relay.tts.done") /\ Subject \in pendingRequests
  /\ Settle(Subject, "answered")
  /\ answer' = [answer EXCEPT ![Subject] = pendingChunks[Subject]]
  /\ UNCHANGED <<clientMuted, relaySocket, readyWaiters, toHub, greeted, spoken>>

HandleError ==
  /\ Receives("relay.error") /\ Subject \in pendingRequests
  /\ Settle(Subject, "failed")
  /\ UNCHANGED <<answer, clientMuted, relaySocket, readyWaiters, toHub, greeted, spoken>>

-----------------------------------------------------------------------------
RelayApi ==
  \/ \E muted \in BOOLEAN : SetMicMuted(muted)
  \/ \E c \in Clips : PostClip(c)
  \/ \E s \in Speeches : PostSpeech(s)
  \/ \E r \in Requests : BodyIsBad(r) \/ BodyRead(r)

RelayTimer(r) == ReadyTimesOut(r) \/ RequestTimesOut(r)

RelayWire == RelayOpens \/ RelayLosesHub \/ RelayCloses \/ RelayReconnects

RelayPeer ==
  \/ HubIsReady \/ HubAcknowledges
  \/ \E c \in Clips : HubTranscribes(c)
  \/ \E s \in Speeches : HubSpeaks(s) \/ HubHasSpoken(s)
  \/ \E r \in Requests : HubFails(r)

RelayHandles ==
  \/ HandleHubReady \/ HandleLate \/ HandleResult \/ HandleChunk \/ HandleDone
  \/ HandleError

RelayNext ==
  \/ RelayApi \/ RelayWire \/ RelayPeer \/ RelayHandles
  \/ \E r \in Requests : RelayTimer(r)

RelaySpec == RelayInit /\ [][RelayNext]_relayVars

\* Timers go off: nothing is asked of the network, the hub or its providers.
RelayFairness == \A r \in Requests : WF_relayVars(RelayTimer(r))

RelayFairSpec == RelaySpec /\ RelayFairness

-----------------------------------------------------------------------------
(* Properties *)

RelayTypeOK ==
  /\ request \in [Requests -> RequestStates]
  /\ answer \in [Speeches -> Seq(Nat)]
  /\ clientMuted \in BOOLEAN
  /\ relayLine \in {"connecting", "open", "closing", "closed"}
  /\ relayConnection \in Nat /\ relayReady \in BOOLEAN
  /\ readyWaiters \in Seq(Requests)
  /\ pendingRequests \subseteq Requests
  /\ pendingChunks \in [Speeches -> Seq(Nat)]
  /\ toHub \in Seq(Requests \union {Hello}) /\ greeted \in BOOLEAN
  /\ spoken \in [Speeches -> Nat]
  /\ toRelay \in Seq(HubMessages)

\* The tables hold the open requests and no others, whichever of answer, timer,
\* close and failed send comes first: a request that is awaited has its entry,
\* and an entry is never left behind by a request that is settled.
TablesHoldOpenRequests ==
  /\ pendingRequests = {r \in Requests : request[r] = "pending"}
  /\ ToSet(readyWaiters) = {r \in Requests : request[r] = "waiting"}

\* A speech is answered with all the audio that was made of its text, in order,
\* and nothing of another: late chunks, other requests and reconnects between
\* do not cut, mix or repeat it.
SpeechIsAnsweredWhole ==
  \A s \in Speeches :
    request[s] = "answered" => answer[s] = [n \in 1..spoken[s] |-> n]

\* Every request the relay client accepts is answered or refused, also when
\* the hub never becomes ready or its connection breaks at any point.
RequestsEnd ==
  \A r \in Requests :
    request[r] \in {"waiting", "pending"} ~> request[r] \in {"answered", "failed"}
=============================================================================
