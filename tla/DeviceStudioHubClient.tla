------------------------ MODULE DeviceStudioHubClient ------------------------
(***************************************************************************)
(* The clients with which Device Studio talks to a hub, and their sockets  *)
(* (src/src/ts/device-studio/transport.ts).  A client is "mock", and       *)
(* answers itself with timers, or "live", and talks through browser        *)
(* WebSockets.  A client may own several sockets over time, and its        *)
(* handlers act on the client whichever of its sockets an event is from.   *)
(*                                                                         *)
(* The operators take and give client records; the application calls them  *)
(* (DeviceStudioApp) and the actions there say when.                       *)
(***************************************************************************)
EXTENDS Naturals, Sequences, SequencesExt

VARIABLES
    clients,  \* every client the application made, the last one is current
    sockets   \* every socket, and the client whose handlers listen to it

netVars == <<clients, sockets>>

\* A message a mock client has scheduled, and the typed turn it answers.
MockKinds == <<"message.user", "audio-init", "message.live", "audio-end",
               "message.final">>
\* What a live hub may send; all other messages only reach the log.
HubFrames == {"session.ready", "hello.ack", "call_initialized", "audio-init",
              "audio-end", "message.final", "assistant.interrupted",
              "action.interrupt", "other"}

States == {"idle", "connecting", "connected", "ready", "closing", "closed", "error"}
Clients == [mode : {"mock", "live"}, url : {"good", "bad", "empty"}, state : States,
            ready : BOOLEAN, speaking : BOOLEAN, socket : Nat,
            timers : Seq([kind : ToSet(MockKinds), turn : Nat])]
Sockets == [client : Nat,
            rs : {"connecting", "open", "closing", "aborting", "closed"}]

NewClient(mode, url) ==
    [mode |-> mode, url |-> url, state |-> "idle", ready |-> FALSE,
     speaking |-> FALSE, socket |-> 0, timers |-> <<>>]
IsActive(c) == c.state \in {"connecting", "connected", "ready"}

\* An error the client does not recover from; a recoverable one is only logged.
Failed(c) == [c EXCEPT !.ready = FALSE, !.state = "error"]

\* A message of the hub, or of the mock, reaches the client.
Consumed(c, kind) ==
    CASE kind \in {"session.ready", "hello.ack", "call_initialized"} ->
            [c EXCEPT !.ready = TRUE, !.state = "ready"]
      [] kind = "audio-init" -> [c EXCEPT !.speaking = TRUE]
      [] kind \in {"audio-end", "assistant.interrupted", "action.interrupt"} ->
            [c EXCEPT !.speaking = FALSE]
      [] OTHER -> c

\* send(): what a client needs to send, and what sending does to it.  A mock
\* client answers an interrupt at once and a typed turn by timers; a typed turn
\* interrupts the one before it.
Sendable(c, socks) ==
    IF c.mode = "mock" THEN c.state \in {"connected", "ready"}
    ELSE c.socket # 0 /\ socks[c.socket].rs = "open"
MockSentBehindTimers(c, kind, turn) == \* mutant
    CASE kind = "interrupt" -> Consumed([c EXCEPT !.timers = <<>>], "assistant.interrupted")
      [] kind = "user.text" ->
            [Consumed(c, "assistant.interrupted") EXCEPT
                !.timers = @ \o [i \in DOMAIN MockKinds |->
                                    [kind |-> MockKinds[i], turn |-> turn]]]
      [] OTHER -> c
MockSent(c, kind, turn) ==
    CASE kind = "interrupt" -> Consumed([c EXCEPT !.timers = <<>>], "assistant.interrupted")
      [] kind = "user.text" ->
            [Consumed(c, "assistant.interrupted") EXCEPT
                !.timers = [i \in DOMAIN MockKinds |-> [kind |-> MockKinds[i], turn |-> turn]]]
      [] OTHER -> c
Sent(c, socks, kind, turn) ==
    IF ~Sendable(c, socks) THEN Failed(c)
    ELSE IF c.mode = "mock" THEN MockSent(c, kind, turn) ELSE c

\* connect() of a mock client is over when it returns.
MockConnected(c) == Consumed([c EXCEPT !.state = "connected"], "session.ready")
\* connect() of a live client: without a URL it throws, a URL the browser does
\* not take makes the promise fail and leaves the client connecting, else there
\* is a new socket with number s.
LiveConnected(c, s) ==
    CASE c.url = "empty" -> Failed(c)
      [] c.url = "bad" -> [c EXCEPT !.state = "connecting"]
      [] OTHER -> [c EXCEPT !.state = "connecting", !.socket = s]

\* disconnect().
Disconnected(c) ==
    [c EXCEPT !.timers = <<>>, !.socket = 0, !.ready = FALSE, !.speaking = FALSE,
              !.state = "closed"]
SocketShut(c, socks) ==
    IF c.socket = 0 THEN socks
    ELSE [socks EXCEPT ![c.socket].rs = CASE @ = "connecting" -> "aborting"
                                          [] @ = "open" -> "closing"
                                          [] OTHER -> @]

\* The handlers of a socket that opens, s its number: the client says hello
\* through the socket it holds now, which may be another one, or none.
Opened(c, s) ==
    IF c.socket = s THEN [c EXCEPT !.state = "connected"]
    ELSE Failed([c EXCEPT !.state = "connected"])
\* The handler of the close of any socket of the client.
Closed(c) ==
    [c EXCEPT !.socket = 0, !.ready = FALSE, !.speaking = FALSE, !.state = "closed"]
===============================================================================
