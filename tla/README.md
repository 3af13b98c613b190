# TLA+ models of the PSFN Satellite Hub

The hub joins voice devices to an agent: it takes audio, has it transcribed, asks the agent, and speaks the answer.
There are two of them, a TypeScript hub (`src/ts/hub`) with its Pi client (`src/ts/pi-client`) and an older Python hub
(`hub/`) that serves ESPHome devices and the clients of an earlier realtime protocol. Device Studio
(`src/ts/device-studio*`) is a browser page in which behaviours and sprites of a device are made, previewed and tried
against a hub. All of it runs on event loops, so that "what happens between two awaits" is where these programs can go
wrong, and that is what the modules here describe. Paths are relative to the repository; `PROJECT.json` maps each
definition to its lines, each property to the hazards it is aimed at, and each run to its configuration.

## 1. Inventory

| Component | State it keeps | Operations | What is hard | Correct means |
|---|---|---|---|---|
| Realtime connection, `hub/server.ts` | session, capabilities, identity promise, active turn, `replyAbort`, `replySequence`, `replyTask`, the promise chain | client frames, STT callbacks, `runReply` with its two loops, greeting, cleanup | the socket closes outside the chain; state is read again after awaits; two loops and a queue per reply; errors in any of them | one reply at a time, question and answer belong together, a cut reply leaves no trace, the chain drains |
| Async queue, `shared/async-queue.ts` | items, waiters, closed | `push`, `close`, `next` | wake-ups | a FIFO channel, exactly once |
| Session store, `hub/session-store.ts` | messages and age of each session | append with a cap, history, expiry on any access | expiry in the middle of an exchange of another user | the prompt ends with the question |
| Embodied sessions, `hub/embodied-session.ts` | satellites of each session | attach, channel context | never detached | each satellite once, the source is the caller |
| ElevenLabs stream, `hub/elevenlabs-stream.ts` | one shared socket, contexts with queues | `streamText`, messages, `close` | connect races, drops, messages dropped silently | a call ends, on the socket its request went to |
| Deepgram session, `hub/deepgram-live.ts` | final segments, interim text, socket | results, `speech_final`, `UtteranceEnd`, close | order of provider events | an utterance once, nothing spoken lost |
| Agent runtimes, `hub/hermes-model.ts`, `hermes-api-model.ts`, `psfn-model.ts` | conversation ids | `streamReply` | parsing of streams | environment of the connection |
| Voxta facade, `hub/voxta-facade.ts` | pending tokens; per connection ids, chain, abort flag | negotiation, SignalR frames, chats, `send`, `interrupt` | several connections share a session and everything is awaited | whole exchanges, prompt and history in order |
| Pi client, `pi-client/client.ts` with `audio-player.ts`, `alsa-volume.ts` | playback flags and generation, player process, mixer queue | hub messages, microphone chunks, player exits, reconnects | four sources of events, of which one is a chain with awaits | the microphone is shut while sound plays and opens again, one voice, the volume comes back |
| Relay client, `pi-client/relay-client.ts`, with its HTTP API, `mic-control-server.ts` | requests that wait or are pending, their timers, audio collected | clip, speech, mute; hub messages, close, reconnect | answer, timer, close and a failed send race | every request settles once, speech comes whole |
| Owner mode, `pi-client/client.ts` with `amica-bridge.ts` | texts and audio of segments, pending segments, a playback timer | hub messages, loud chunks, posts to a browser | posts are awaited, or not, between everything else | audio is posted in order, once, and not after it was cut |
| Python voice runtime, `hub/devices/voice_runtime_streaming.py` with `hub/adapters/stt/deepgram_live.py` | active turn, response task, watchdog, the recogniser's turn and socket | `handle_start`, `handle_audio`, `handle_stop`, watchdog, `_finish_turn` | every device message is a task; cancellation at any await | one end per turn, silence when the next begins, words are collected |
| Python realtime server, `hub/devices/realtime_server.py` with `hub/adapters/agent/psfn_streaming.py`, `hub/adapters/tts/elevenlabs_streaming.py` | session, active turn, reply task and its speech task; the agent's history of each session; TTS contexts | messages, `_finish_turn`, `_run_reply`, `_stream_audio_chunks`, cancel, reset, `aclose` | a task cancelled at any await, with a second one beside it; a client that reads slowly | a cut reply is not recorded as an answer, every reply ends, the agent forgets nothing |
| Realtime satellite client, `client/pi_realtime/client.py` | turn and speech flags, preroll, held-back silence, the player's process | server messages, microphone chunks, player exits | speech kills the player while messages are on their way | one reply in a player, the user is not talked over, speech without holes |
| Python media and storage, `hub/media/http_audio.py`, `storage/session_cache.py` | streams with queues, last session | open, write, close, serve | a device that fetches late, twice or never | a stream is served whole, once |
| Device Studio hub client, `device-studio/transport.ts` | connection state, the socket held, mock timers, speaking | `connect`, `disconnect`, `sendUserText`, `interrupt`, messages | timers and sockets that outlive what they were made for | mock answers are to the newest turn, a turn does not wait for a connection that is there |
| Device Studio model, `device-studio/model.ts`, `behavior.ts` | none; a playback | validate, normalise, load, restrict to a device, sample | arithmetic of times, holds and missing channels | the preview shows what the device has |
| Device Studio app, `device-studio-app/main.ts` | profile, client, library, selection, preview, playback | about forty handlers | any handler after any other; what the page shows is older than what it keeps | edits keep what they do not show, a verification survives none, playbacks are reported |
| Device Studio sprites, `main.ts` with `device-studio/sprites.ts`, `fal-provider.ts`, `scripts/serve-device-studio.mjs` | chosen targets, references, sheets, candidates, approved sprites, last atlas | generate, import, slice, approve, pack | answers that arrive after the page has changed | an image keeps its target, an atlas is of what is approved |
| Device Studio previews and data, satellite claims, configuration, start-up, scripts | documents | parse, verify, draw | none of state | out of the models' reach or use |

How they interact. A realtime connection owns a Deepgram session (callbacks enter the connection's chain), shares the
ElevenLabs stream, the session store and the agent with all others, and puts one `AsyncQueue` between the agent's
deltas and TTS. The Voxta facade shares store, registry and agent. The Pi client is the other end of a realtime
connection. In Python the runtime calls the STT adapter, which owns a socket, and serves audio over HTTP; the realtime
server calls the same agent and TTS adapters for its own clients. Device Studio's page owns one hub client at a time
and speaks to a hub as a realtime satellite, or to its mock; its sprites come from a small server of its own.

## 2. Modules

Each module describes one component; a step is one uninterrupted run of the event loop, from one await on something
external to the next. Properties stand at the end of the module. Definitions marked "mutant" are plausible slips of
the definition that follows them, unused by the specification. They record that the properties bite: with the slip in
place of its neighbour TLC refutes the property that `PROJECT.json` names. The modules `MC...` are instances for TLC,
the modules `...Proofs` hold the theorems of section 4.

**AsyncQueue, FifoChannel.** `items`, `waiters` and `closed` are the class's fields, `push`, `close` and `next` its
methods. FifoChannel is what a user relies on: a sequence of values sent and a count of those taken. The refinement
mapping takes "sent" to be everything delivered followed by what is queued.

**RealtimeConnection.** `messageChain` and `stage` are the promise chain: link n starts when all before it have
settled. Handlers that run to their end are one action; `runReply` is `BeginReply` (up to its first await), the loop
over deltas (`AgentDelta`, `AgentEnd`, `AgentFail`), the audio task (`TakeSegment`, `TtsChunk`, `TtsEnd`, `TtsFail`,
`SegmentsEnd`) and `FinishReply`. The queue between the loops is used as the channel that AsyncQueue is shown to be. A
delta is how many segments it completes and whether there is something to speak in each. `SocketClose`, `CleanupTurn`
and `CleanupStt` are the close handler, which no chain holds back. The store's expiry is an action, since any other
user of the store may cause it. `SttFailed` is a recogniser that does not connect. `cut` and `interrupted` are history
variables, as is `welcome`.

**ElevenLabsStream, DeepgramSession.** The state of every socket ever opened, the one in `this.ws`, and for each
caller the call it waits in. `Carrier` is `sendJson`, which drops a request when the current socket is not open.
Faults (`refuse`, `idle`, `drop`, `close`) are chosen per instance. DeepgramSession numbers the user's segments 1, 2,
... A result carries words only, and words are all that the session compares (`deepgram-live.ts:131`). `finalSegments`
and `interimText` are the fields of the class, holding for each text the number of its segment; `said` is what
Deepgram said, `uttered` what the connection was told. `after`, in a segment of `said`, is a history variable: how much
had been uttered when its latest final result came, by which two segments are known to be of one utterance.
MCProviders lets a behaviour follow one of the two providers, which share nothing.

**SessionStore, EmbodiedSessions, VoxtaFacade, VoxtaDialog.** The first two are the shared objects, the third the
connections over them: negotiation of ids, a chain for each connection, each frame a sequence of bursts, every one
awaited. A session is named by what drew its uuid. Texts may be equal, of one client and of several, and messages are
compared as the code compares them, by their content (`psfn-model.ts:212`, `hermes-api-model.ts:94`). VoxtaDialog is
the promise to the client: each request is answered by one whole exchange before the next. `heard` is mapped to itself
and `line` to `socket`.

**AlsaVolume, PiClient.** The mixer is a queue of `duck` and `restore` commands, each waiting for an `amixer` that may
fail. PiClient adds the chain of hub messages, chunks that are handled beside it, the player's processes with their
generation, and the connection. The hub is reduced to what the audio task of `runReply` sends: `audio-init`, audio,
`audio-end`, or a segment broken off. `MustHandle` makes promises run before the next event. A muted microphone is a
silent one. `Reconnect` supposes an idle mixer and chain: it comes after two seconds and an `amixer` call takes
milliseconds. `"stray end"` is a second end of one speech.

**RelayClient, OwnerModeClient.** The other two configurations of the Pi client. RelayClient is the HTTP API with its
relay: `readyWaiters`, `pendingRequests` and `pendingChunks` are the tables of the source, `RelayTimer` their timers,
and the hub's connection (`toHub`, `greeted`, `spoken`, `toRelay`) is what `server.ts` does with relay messages, one
after the other. OwnerModeClient is the chain of hub messages with `awaiting` for the post that its handler awaits,
`interruptPosts` for those nobody awaits, the playback timer, and the bridge. Audio is its number as recorded, text
the number of its segment; `lastPosted` and `lastCut` are history. MCPiClient chooses one `configuration` of the
process at the start and follows it; the API and the player share only the mute switch.

**VoiceTurns.** aioesphomeapi (external) handles each device message in a task, so every `handle_start` is cut into
its stretches between awaits; `running` names the start that holds the event loop. `start` and `finish` say where each
turn's two coroutines are, `connectLock` is the FIFO lock of the adapter with whoever waits in it, `ws` its socket.
`LeaveLock` takes a cancelled task out of it. `Settled` lets a start whose awaited task has ended go on before the
network's next event, as asyncio does. Nothing is assumed of the device: starts may overlap. The wait for agent, TTS
and announcement is one ("agent"). Left out: the finalize lock (nothing is awaited under it), the send lock (its
waiters wait in `connectLock`) and `_discard_audio_until_stop` (it decides what is logged).

**RealtimeVoiceServer, PiVoiceClient.** The server's loop, and for each turn the reply task (`reply`) and the speech
task beside it (`speech`). Cancelling a task and waiting for it is one step, since nothing from outside comes between;
`CutReply`, `CutSpeech`, `CutRecord` and `CutMessages` say what CancelledError does at each await. A reply that waits
in a send for a slow client is `Blocked`, and all other senders behind it. `history` is what the agent adapter keeps
of each session: read before the stream, written after it. PiVoiceClient composes this server with one client over two
FIFO wires. A chunk of sound is its number and a level (quiet, voice, loud); voice detection has its default settings,
in which one loud chunk begins a turn. The player's lock is `mic = "stopping"` with the message that waits for it.
Device "other" is a client of another make, which sends what the protocol allows in any order.

**BehaviorTimelines.** A behaviour is its frames (time, hold, outputs, joint positions), its length and whether it is
verified on hardware (`Timelines`, with frames from `Frames`). Every step from a loaded file to a drawn state is an
operator: `ValidTimeline`, `Normalized`, `LoadDefinitions`, `LooksOn` and `JointsOn` (the restriction to a device),
`Sample`. Outputs are names with small values, one unit of time is 100 ms or 250 ms, and an interpolated joint is a
fraction. The optional URL reference of a sprite is left out.

**DeviceStudioHubClient, SpriteWorkspace, DeviceStudioApp.** One page. Its handlers run to their end, so that each is
one action; between them come animation frames, mock timers, socket events, and answers to what was awaited. `clients`
and `sockets` hold every client and socket the page ever made, because the handlers of an old socket act on its
client, whatever socket that client holds by then. The two live deltas of a mock answer are one. `stage` is the
preview with its playback, which holds its own timeline and profile, and the number of animation frames asked for.
`SpriteWorkspace` has the sheets, candidates and approvals with the `jobs` still out; an import is of one file and a
generation gives one image. What the packer does is `Packable`, `PackOrder` and `PlaceFrames`, a recursive function
over the frames in order. A sort is the one arrangement that is in order, by CHOOSE; that there is one is proved.
`turns`, `origin` and `images` are ghosts: what became of each typed turn, the library as loaded, and the target each
image was asked for. An imported library may be empty; most handlers then throw, and their actions have the guard
`~Empty`.

## 3. Runs

| Run | Instance | Question |
|---|---|---|
| async_queue | 2 values, 2 consumers, 4 pushes | no value lost, duplicated or out of order; loops end; it implements FifoChannel |
| realtime | 2 links of every kind, STT and identity in any order, 1 delta of up to 1 segment and a rest, 2 messages kept | one reply at a time, paired history, nothing recorded of a cut reply, answers only after speech, the client knows its session; the chain drains |
| realtime_interrupt | 2 links | refutes the documented interrupt (section 6) |
| realtime_crash | 1 link, 2 deltas | refutes the documented fallback (section 6) |
| tts_overlap | 3 callers, 4 sockets, 3 calls each, all faults; or a transcription of 3 segments of 2 words with 2 repeats | a served call is on the current socket, a waiting one on its own pending socket; no segment is moved, and none is lost but one that echoes the one before |
| tts_race | 2 callers, 2 sockets, no faults | refutes that every call ends (section 6) |
| voxta | 5 scenarios of 2 clients with 2 frames each, 2 texts, a third satellite, 1 delta, 2 messages kept | prompts end with their question, answers follow questions, whole exchanges (VoxtaDialog) |
| pi_client | the player: 2 loud chunks at once, 2 connections, 2 segments, 1 interrupt; the API: 1 clip, 1 speech of up to 2 chunks, 2 connections; the owner: 1 reply of 2 segments, 2 connections, 1 interrupt posted | one voice, a shut microphone during playback, one report of an end, the volume, and the microphone opens again; tables hold the open requests, speech comes whole, requests end; queued audio is new |
| voice_turns | 4 starts, 3 stops, 1 fault | a turn ends once and always, silence when a new one begins, words are collected |
| pi_voice | a pi with 3 chunks or another client with 4 messages; 2 turns, 1 reset, 1 delta | the agent's history only grows, a cut reply is not recorded as an answer, a player has one reply, the user is not talked over, speech has no hole, every reply ends |
| studio | 2 devices, 2 behaviours of up to 3 frames, 3 files, 2 images, 2 jobs; three kinds of user (below) | mock answers are to the newest turn, edits keep hidden outputs, images keep their target, an atlas is a layout of what is approved, the preview plays and shows what the library has |
| studio_turn_lost | 2 typed turns, 1 connect, 1 change of backend | refutes that a typed turn is sent through the transport (section 6) |

Why the bounds are enough. Two links show a reply with everything that may arrive during it, or a hello with what
comes between it and its answer. Two replies suffice for the questions about order, since a reply only meets its
predecessor. `MaxMessages` is at the point where the cap cuts a pair (2). Three callers let one socket be replaced
twice while a call waits. Four starts let one overlap with another while a third turn's reply is being cancelled; the
run also holds with five starts and four stops (455,453 states). Two chunks meet in `duck`; a second connection shows
what the first leaves behind, in all three configurations. A clip and a speech are the two tables of the relay; the
theorems of section 4 hold for any number. With two segments a late exit of the first meets the second. In pi_voice
the second turn meets the first one's reply at each of its awaits, and three chunks are one of preroll, one that
interrupts and one that goes on. In studio a budget is a mix of steps of one kind of user: one who edits (3 edits with
a move on the stage, or 2 with 2 moves, and a change of device), one who talks (2 turns with a connect and a change of
backend, or 1 with 2 changes) and one who makes sprites (4 operations and a change of device). Edits, conversations
and sprites meet in the page's profile, which each kind may change or sees changed, and in the stage, which answers
stop. Two words and two texts are enough, since all the code asks of two of them is whether they are equal; three
segments can repeat the last one's words at once, after another, and across the end of an utterance. Two images make
an answer that is overtaken; three frames let an edit re-order two others. `CHECK_DEADLOCK FALSE` is set throughout:
with its bounded inputs used up, a system has nothing left to do. No run lists a `TypeOK`: those of the modules with a
module of proofs are proved, but for OwnerModeClient's and DeviceStudioApp's, which TLC checked. (For the latter
`SpriteTypes`, `PageTypes` and `LibraryInv` say most of it.)

Symmetry is used where callers and words are interchangeable (tts_overlap, which has no liveness property).

### Fairness

Clients, devices and users owe nothing, in any module. The event loop runs what is runnable. Beyond that:

* AsyncQueue: a consumer in a `for await` loop asks again, as the loop does. Nothing is assumed of the producer.
* RealtimeConnection: a provider's call ends: the agent's stream (an HTTP body), relay and identity requests
  (`fetch`), and a TTS context. The last one is what ElevenLabsStream shows may fail: `ChainDrains` holds *if* it
  holds, and tts_race is the case in which it does not.
* ElevenLabsStream: a socket opens or is refused, and the provider sends `isFinal` for a request it got.
* PiClient: `amixer` returns, a player exits when its input has ended or it was killed, and the hub continues a
  segment it has begun, or breaks it off.
* RelayClient: timers go off (`RelayFairness`), nothing else. Owner mode: none, its property is about safety.
* VoiceTurns: the longest turn is limited by the watchdog, a connection attempt succeeds or is refused, the final
  result is awaited 2.5 s at most, and every delta of the agent has a timeout.
* PiVoiceClient: the same of agent and speech; a blocked send ends because either side pings and gives the connection
  up.
* DeviceStudioApp: none. A user may leave the page at any time, and no property there is about what happens
  eventually.

## 4. Proofs

TLAPS proves the theorems below for every value of the constants that satisfies the assumption of the module
(`MaxPushAssumption`, `ConnectionAssumption`, `StreamAssumption`, `SessionAssumption`, `StoreAssumption` with
`FacadeAssumption`, `VolumeAssumption` with the `ClientAssumption` of PiClient, `RelayAssumption`, `OwnerAssumption`,
`RuntimeAssumption`, `ServerAssumption` with the `ClientAssumption` of PiVoiceClient, and the three of Device Studio).
Nearly all of these are typing: bounds are numbers, at least one message is kept, names of different things differ.
Three things in Device Studio's are more. `SpriteAssumption` numbers expressions and visemes in the order of their
names, which is what the packer sorts by. `ProfilesAssumption` says that each profile offers an expression and a
viseme, as both profiles of the program do (`profiles.ts:170`, `:238`). `BehaviorsAssumption` says that the fixtures
load, without which the page does not start (`main.ts:117`). TLC evaluates all of them in the runs. Each proof has
one step per action and below it one per part of the invariant that the action can disturb.

* **AsyncQueueProofs.** `QueueIsSafe`, `NothingIsLostOrReordered`, `QueueImplementsChannel`. The safety properties with
  the typing are inductive together, and only together: a push may bypass the items because nobody waits while there
  are any, and the order of what was delivered needs just that. Under the same invariant each step of the queue is a
  step of FifoChannel or a stutter.
* **RealtimeConnectionProofs.**
  * `TypeCorrect`. `append` needs the lemma `NewestAppended` on the cap.
  * `RepliesAreSerial`. Rather than all actions again, the later proofs use `Moves`: from `TypeOK` every step is one of
    seven kinds (`Quiet`, `Settles`, `Closes`, `Expires`, `Takes`, `Begins`, `Finishes`), which say what happens to
    stages, history and flags (`StepMoves`). `ChainInv` adds that links are handled in order, without which a handler
    might start beside a reply.
  * `HistoryIsPaired`. `AnswersFollow` is inductive with `QuestionIsLast`: while a reply runs, the last message of its
    session is its question, or that session was emptied. For `OneSessionEach` one needs to know where entries can be:
    `EntriesArePlaced` bounds the author of every entry by the links already begun and ties the entries of the running
    link to the current session.
  * `CutRepliesAreDropped`. A reply in `cut` has ended or carries a number smaller than `replySequence`
    (`CutIsSuperseded`). The flag `replyAbort` alone would not do: a queued handler clears it when it starts its own
    reply.
  * `ClientIsToldItsSession`. The last announcement sent, or still to be sent, names the session of the connection
    (`LastToldIsSession`).
  * `AnswersAreSpoken`, an action property. `SpokenInv`: an audio task that is done has spoken everything or
    belongs to a superseded reply, and a reply that was cancelled has a smaller number for good.
* **ProvidersProofs**, over MCProviders. ElevenLabsStream: `ServedCallsAreCurrent` rests on `SentOnOpened`: requests
  go only to sockets that have opened. `WaitersHaveTheirSocket` is inductive with the types; `WaitsShrink` covers the
  steps by which fewer wait. DeepgramSession: `DeepgramTypes`, `OnlyEchoes`. `Holds(s, row)` says that s has
  the segments of the row in order, all but echoes, and the lemmas say what a repeat, a new final result and a flush
  make of it. Besides, `Current`: the last segment collected has the words of the last one said in this utterance,
  so that what the session takes for a repeat is one, or is an echo.
* **VoxtaFacadeProofs.** `FacadeTypes`, `PromptsEndWithQuestion`, `ContextsNameSource` and `AnswersFollowQuestions`
  from one invariant. `Chained`: a link of a connection begins when those before it are settled. `Entered`: nothing is
  in the store for a link before its question, and while it is answered its only entry is the question, in the session
  the connection still has; other connections may enter and sessions expire in between. `Hears` ties the last burst a
  client got to the stage of its handler. With it `FacadeImplementsDialog`: each step is one of VoxtaDialog or a
  stutter. `WithoutFilters` says what the filters of `attachSatellite` and `buildMessages` leave of a sequence of any
  length, by induction over it; `ContextsNameSource` needs it ("no satellite twice").
* **PiProcessProofs**, over MCPiClient, the process in its three configurations.
  * PiClient. One invariant, `IInv`, gives `ClientTypes`, `NeverTwoVoices`, `MicrophoneIsShut` and `MixerReturns`.
    `Waiting` says who waits in the mixer's queue: the chain once at most, and a chunk that ducks has its duck there.
    `Greeting`: until `call_initialized` is handled nothing sounds, and none is left over for the next connection.
    `Mixer`: while ducked, a restore is queued or one has failed, and a duck has a restore behind it as soon as its
    chunk may come too late. `Voices`: what can be heard is the player's process, and one of this connection is the
    one whose exit counts. `EndsAreToldOnce` adds `Reports`, about what the queued commands will tell the hub: between
    two ends a speech is announced, an end is told only of a speech the hub knows of by then, and a speech whose end
    was not sent has no end queued.
  * RelayClient. `RelayTypes`, `TablesAreExact`, `SpeechComesWhole`. The hub handles a request at most once and none
    that was not sent (`Serial`), answers have the kind of their request (`Kinds`), and for each speech (`Voice`):
    what was collected is a prefix, the rest is under way, each chunk once and in order, and nothing follows its end.
  * OwnerModeClient. `AudioIsNew`. The steps that touch the audio are few (`AudioChanges`): record, seal, take, cut.
    What waits is in order, and each chunk is later than all that was posted or cut (`AudioWaits`).
* **VoiceTurnsProofs.** `TurnTypes`, `RunsEndOnce`, `SilenceIsFound`, `WordsAreCollected`. A turn's end is reported
  when and only when it is finished (`Ends`), and no turn is finished before it is recorded or while it is (`Fresh`).
  The response task is the one reply under way, and none is while a turn is recorded (`Replying`). A task that
  finishes a turn waits for the lock at most once (`Lock`). The heart is `Waiting`: a start that waits for a cancelled
  reply finds, when that reply has ended, nothing left to abort. Other starts and stops may come in between; whoever
  records meanwhile has no words yet (`Deaf`).
* **PiVoiceClientProofs**, for the server and its client together, whatever the client's make. `VoiceTypes`;
  * `CancelledAreNotAnswered` from `Turning` (one reply at a time, and none while a turn is active) and `Recording`
    (what is written of a turn fits how far its tasks are, and a cancelled one is over);
  * `HistoriesGrow`, an action property, from `Remembering`: while a stream runs, what was read before it is still
    the history of its session, so that writing it back loses nothing;
  * `PlayersHearOneReply` from `Playing`, about the wire: the last start of a player before a chunk of sound is that
    of the chunk's reply, or there is none and the player that is open is that reply's. A reply whose agent failed is
    exempt, since its speech task outlives it (section 6);
  * `NobodyTalksOver` from `Closing`, with `Turning` and the order of messages: a player opened, or still to be
    opened, for a reply that is over has a message that closes it on the wire behind;
  * `SpeechStaysWhole` from `Dictating`, for a pi: what is on its way to the server continues, message by message,
    what the server has (`Chain`, `Expected`), and the client goes on where it ends (`Told`).
* **DeviceStudioProofs.** Each theorem has an invariant of its own, since its parts of the page share little.
  * `ImagesKeepTargets` from `SpriteInv`: a frame that is a whole image has the number of an image that came, and the
    target it was asked for. Jobs carry their target.
  * `AtlasesAreOfApproved` is inductive with `SpriteInv`, since whatever touches the approved frames takes the atlas
    off or counts as a change under a pack that is out. Its contents rest on `PackedLayout`: for any finite set of
    frames the packer's order is a permutation of it, and the rows that `PlaceFrames` lays out stay inside and apart
    (`FramesPlaced`, by induction over the frames placed).
  * `MockAnswersAreCurrent` from `ClientInv`: what a mock client has still to say is the rest of the answer to the
    newest turn, clients replaced are silent, and one that speaks still has the end of its speech to come.
  * `EditsKeepHidden`, an action property, from `LibraryInv`: the selected behaviour and frame exist, unless the
    library is empty. An edit changes, adds, copies or drops one frame, and the sort that follows is a permutation of
    the frames (`SortFramesWhole`).
  * `PreviewIsCurrent` from `StageOf`, with `LibraryInv` and `SpriteInv`: a playback that is on has a timeline of the
    library and the profile selected, there is a chain of animation frames only while one is on, and one at most, and
    the stage shows a timeline of the library at its moment. A step draws, stops, plays or rewinds the stage, or
    leaves it alone; what edits, deletes or imports and what changes the profile also stops the playback and draws
    anew.

The composed runs (MCProviders, MCPiClient) follow one component's next-state relation with the others' variables
unchanged, so that the theorems hold of them component by component. Where a recursive function has to be understood
for every input (the filters, the packer) its module derives what it needs from the order of the numbers: a set of
numbers has a least one (`LeastNumber`, from the library's theorem on well-founded orders), hence what holds of 0 and
passes from k to k + 1 holds up to n (`AllUpTo`), for a set given by what is claimed.

Only model-checked: liveness, which this prover does not do (`LoopsEnd`, `ChainDrains`, `MicrophoneReopens`,
`RequestsEnd`, `TurnsEnd`, `ReplyEnds`). Every other property of a passing run is a theorem. No module that is proved
about uses RECURSIVE. Of the operators of Device Studio's model only what the theorems rest on is proved; what
`LooksAt` and `JointsAt` compute is left to the source's own tests; the theorem is about which behaviour, moment and
device they are asked for.

## 5. Not modelled

* The Pi client's capture restarts, the microphone's control page, and a bridge without owner mode.
* To RealtimeConnection the Deepgram session is any sequence of interim results and utterances, which includes all
  that DeepgramSession can produce.
* The Python audio server (threads over queues) and session cache, and the adapters no server module uses.
* In Device Studio: what previews draw, PNG coding, the event log, validation of profiles, the HTTP of its server.
* Contents: audio, prompts, wording of errors and logs. Of texts only whether two are equal.
* Requests of the agent runtimes, satellite claims, environment and protocol parsing, scripts: parsing, verification
  and I/O without a protocol of their own.
* Time appears only as order. A timeout is something that may happen.

## 6. Where documents and code differ

Each has a run that expects a violation.

* **Interrupts wait** (realtime_interrupt). The handler of an interrupt is a link of the chain that awaits the reply,
  so it runs when the reply is recorded and sent (`server.ts:187`, `:262`). `PLAN.md:76` says interrupts "stop or
  supersede the current assistant turn".
* **A TTS failure ends the hub** (realtime_crash). The audio task is awaited only after the deltas; until then its
  rejection is unhandled, which ends a Node process (`server.ts:526`). `PLAN.md:74` promises captions.
* **Two callers that connect at once** (tts_race). The second replaces the socket that is connecting; the first one's
  request is dropped and its call never ends (`elevenlabs-stream.ts:81`).
* **A typed turn that is never sent** (studio_turn_lost). A socket's handlers act on the socket its client holds by
  then. When a second connect replaced it, or the close of an older one made the client forget it, `hello` throws in
  the open handler and the turn waits for ever on an open socket (`transport.ts:424-442`).
  `docs/device-studio.md:51-53`: "`Send typed turn` sends it through the selected transport."

Seen while modelling, without a run of its own:

* RealtimeConnection. A TTS failure that the process survives turns a complete answer into an error (`PLAN.md:152`
  wants captions). A segment without audio has an `audio-init` and no `audio-end`
  (`docs/realtime-client-protocol.md:141`). `session.ready` may follow `hello.ack`
  (`docs/building-satellites.md:351`). Handlers queued behind a closed socket still run, so that an agent may be asked
  for nobody. `HistoryPairsUp` is about a session one connection uses alone.
* DeepgramSession. A segment that repeats the words of the one before it in the same utterance ("no. no.") is taken
  for a repeated result and lost (`deepgram-live.ts:131`). A final result that Deepgram repeats after the end of its
  utterance is uttered again.
* ElevenLabsStream. A socket that drops leaves the queues of its contexts open and their callers waiting; tts_overlap
  drops sockets, but that a call ends is asked in tts_race only, where nothing drops.
* VoxtaFacade. When the last message of a session has the content of the question, be it an assistant's, the question
  is not added to the prompt again. An interrupt never finds a reply, for the same reason as above (`README.md:333`);
  the cancellation only acts after a close, and a queued send clears it. After an agent error neither a completion nor
  WaitingForUser follows. The last delta is not followed by a check, so that a cut reply may be recorded. `resumeChat`
  opens another session than `startChat` did (`README.md:331`).
* PiClient. Each `audio-init` ends the player of the segment before, which may not have played out (`README.md:477`
  lists pacing as work to do). A segment without `audio-end` leaves the microphone shut until a loud interrupt
  (`brokenOff`, which `MicrophoneReopens` leaves out). An `audio-init` handled after its connection closed leaves a
  player running that a reconnect does not stop, which is why `PlayingShutsMicrophone` is about one connection. Mute
  is checked before the awaits of a chunk only.
* RelayClient. `session.ready` and `hello.ack` both make it ready. The hub serves relay messages in its chain, so that
  a long speech holds up a clip until the clip's timer goes off; the late answer is then dropped.
* OwnerModeClient. The first `audio-init` of a turn clears the texts that came before it (`client.ts:208-213`); later
  texts are then paired with earlier audio, and the audio of a reply whose texts all came early is not posted. The
  `clearAssistantTurn` behind the post of an interrupt (`amica-bridge.ts:173`) may drop audio of the next segment;
  with nothing to post no timer is set, and the microphone stays shut. An interrupt during a post takes
  `pendingOwnerSegments` below zero (`:350`, `:554`). The `bot-speak-end` behind the post of an interrupt (`:362-369`)
  may come after the `bot-speaking` of the next segment. The first segment after an interrupt has index 0 of the same
  turn again (`:212`). A handler that awaits a post (5 s) outlasts a reconnect (2 s) and then acts on the new
  connection. The playback timer is of the last segment posted, although earlier ones may still play.
* VoiceTurns. Overlapping starts may overwrite a turn, which then gets no RUN_END (`overwritten`). A start whose
  recogniser refuses leaves its turn installed without a watchdog, until a stop or the next start (`"failed"`).
  RUN_START may follow the RUN_END of a turn stopped during its start. A watchdog that wakes does not look again whose
  turn is active and may end a newer one. `_disconnect` forgets whatever socket is there after its await; one
  connected meanwhile goes on reading. Late results of a turn may be added to the next (`deepgram_live.py:145`).
* RealtimeVoiceServer. `aclose` with a running reply raises at its send, and the provider sockets stay open
  (`:399-407`). An agent's failure leaves the speech task waiting (`:347-365`), as does a cancellation in the first
  send (`:290`). A reply cancelled while its speech runs has no "interrupted" record (`README.md:27`). A `turn.start`
  that the recogniser refuses leaves the older turn active (`:170-206`). A lost TTS socket ends speech as if it were
  complete.
* PiVoiceClient. After `assistant.end` the flags are cleared (`client.py:266`) while the player still has sound;
  speech then does not stop it (`:292`), although `client/pi_realtime/README.md:5` says so. Chunks of a turn also go
  to the preroll (`:284`), so that the next turn may begin with the tail of the last.
* Device Studio, connection. The close of an old socket also leaves the new one open with nobody to close it. A ping
  or a second text while connecting sets the state to "error", and a client in that state is replaced without being
  disconnected. A malformed URL leaves the client "connecting".
* Device Studio, behaviours. Importing an empty library empties the page's, after which its handlers throw
  (`main.ts:275`). Changing a frame's time re-sorts the frames and keeps the index, so that another one is selected
  (`:1307`). New and duplicated behaviours do not stop the playback of another, which goes on under the new selection
  (`:1178-1207`): `PreviewIsOfTheLibrary` speaks of a behaviour of the library, not of the selected one. A final
  answer stops a playback without its stop event. Positions of a loaded file are not clamped and
  `behavior.channel.unsupported` is not sent (`docs/device-studio.md:84-85`, `:410-413`).
* Device Studio, sprites. A slice whose targets repeat approves two frames of one target, which the packer then
  refuses (`docs/device-studio.md:122`). The slices of a sheet removed meanwhile are still approved. Redrawing enables
  the pack button during a pack (`main.ts:1408`), so that packs overlap: `AtlasIsOfApproved` allows for approvals that
  changed during the pack. The atlas is saved under the name of the profile then selected.

## 7. Plan

Done: the modules of section 2, in the order AsyncQueue, RealtimeConnection, ElevenLabsStream, VoxtaFacade, PiClient,
VoiceTurns, RealtimeVoiceServer with PiVoiceClient, Device Studio, DeepgramSession, RelayClient and OwnerModeClient,
by how much depends on each; and a theorem for each safety and action property of the runs.

What would come next, by worth:

* RealtimeConnection with the recogniser in place of "any sequence of utterances", and two connections over one store,
  so that `HistoryPairsUp` can be stated for a session that is shared.
* An abstract specification of a voice turn that both hubs implement: RealtimeConnection and RealtimeVoiceServer
  promise a client much the same.
* What `Sample` and `JointsOn` compute for every timeline, along the lines of the packer's lemmas.
* The Python audio server, whose streams are queues between a thread and an HTTP handler.

## 8. Running

`tlc -workers 2 -config Realtime.cfg MCRealtimeConnection` checks an instance; the runs and their modules are listed
in `PROJECT.json`. `tlapm AsyncQueueProofs.tla` checks a module of proofs. The longest run takes about two and a half
minutes, the longest proof about five.
