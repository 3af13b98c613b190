-------------------------- MODULE ElevenLabsStream --------------------------
(***************************************************************************)
(* The TTS client of the TypeScript hub, class ElevenLabsStream of         *)
(* src/ts/hub/elevenlabs-stream.ts. One object serves all connections: a   *)
(* websocket opened on demand, and one context per call of streamText.     *)
(*                                                                         *)
(* A caller is a connection, which has at most one call under way          *)
(* (OneReplyAtATime of RealtimeConnection). Every caller passes a single   *)
(* text, so that a request (start, text, close of the context) leaves in   *)
(* one run of JavaScript, to one socket or to none.                        *)
(***************************************************************************)
EXTENDS Naturals, Sequences

CONSTANTS
  Callers,
  Faults,       (* what may go wrong: see FaultKinds                       *)
  MaxSockets,   (* bound: sockets ever opened                              *)
  MaxCalls,     (* bound: calls of one caller                              *)
  MaxChunks     (* bound: audio chunks of one call                         *)

\* A socket cannot connect; closes while no call is open; closes at any time;
\* close() is called.
FaultKinds == {"refuse", "idle", "drop", "close"}

ASSUME StreamAssumption ==
  /\ Faults \subseteq FaultKinds
  /\ MaxSockets \in Nat /\ MaxCalls \in Nat /\ MaxChunks \in Nat

None == 0       \* no socket: ws = null, or a request that was dropped

VARIABLES
  sockets,      (* readyState of every socket opened so far                *)
  ws,           (* the socket held in this.ws                              *)
  call,         (* idle, connecting, streaming                             *)
  socketOf,     (* connecting: the awaited socket; streaming: the socket   *)
                (* that carries the request, None if it was dropped        *)
  chunks,       (* audio chunks of the call under way                      *)
  calls         (* calls made so far                                       *)

vars == <<sockets, ws, call, socketOf, chunks, calls>>

Init ==
  /\ sockets = <<>>
  /\ ws = None
  /\ call = [c \in Callers |-> "idle"]
  /\ socketOf = [c \in Callers |-> None]
  /\ chunks = [c \in Callers |-> 0]
  /\ calls = [c \in Callers |-> 0]

IsOpen(s, states) == s # None /\ states[s] = "open"

Streaming == {c \in Callers : call[c] = "streaming"}

\* sendJson looks at this.ws when it sends, and drops what it cannot send.
Carrier(states) == IF IsOpen(ws, states) THEN ws ELSE None

\* The call of c ends: the context is forgotten.
End(c) ==
  /\ call' = [call EXCEPT ![c] = "idle"]
  /\ socketOf' = [socketOf EXCEPT ![c] = None]
  /\ chunks' = [chunks EXCEPT ![c] = 0]

-----------------------------------------------------------------------------
\* ensureConnected looks only for an open socket.
NeverConnected == FALSE                                             \* mutant
Connected == IsOpen(ws, sockets)

CallOnOpenSocket(c) ==
  /\ Connected
  /\ call' = [call EXCEPT ![c] = "streaming"]
  /\ socketOf' = [socketOf EXCEPT ![c] = Carrier(sockets)]
  /\ UNCHANGED <<sockets, ws>>

\* Also while another caller's socket is still connecting: it is replaced.
CallOpensSocket(c) ==
  /\ ~Connected
  /\ Len(sockets) < MaxSockets
  /\ sockets' = Append(sockets, "connecting")
  /\ ws' = Len(sockets) + 1
  /\ call' = [call EXCEPT ![c] = "connecting"]
  /\ socketOf' = [socketOf EXCEPT ![c] = ws']

StreamText(c) ==
  /\ call[c] = "idle"
  /\ calls[c] < MaxCalls
  /\ calls' = [calls EXCEPT ![c] = @ + 1]
  /\ CallOnOpenSocket(c) \/ CallOpensSocket(c)
  /\ UNCHANGED chunks

\* The socket opens, and the call that waited for it sends its request.
SocketOpens(s) ==
  /\ sockets[s] = "connecting"
  /\ sockets' = [sockets EXCEPT ![s] = "open"]
  /\ LET Waits(c) == call[c] = "connecting" /\ socketOf[c] = s
     IN  /\ call' = [c \in Callers |-> IF Waits(c) THEN "streaming" ELSE call[c]]
         /\ socketOf' = [c \in Callers |->
                           IF Waits(c) THEN Carrier(sockets') ELSE socketOf[c]]
  /\ UNCHANGED <<ws, chunks, calls>>

\* The socket cannot connect: the call that waited for it is rejected.
RejectNobody(s) == UNCHANGED <<call, socketOf>>                     \* mutant
RejectWaiting(s) ==
  LET Waits(c) == call[c] = "connecting" /\ socketOf[c] = s
  IN  /\ call' = [c \in Callers |-> IF Waits(c) THEN "idle" ELSE call[c]]
      /\ socketOf' = [c \in Callers |-> IF Waits(c) THEN None ELSE socketOf[c]]

SocketRefused(s) ==
  /\ "refuse" \in Faults
  /\ sockets[s] = "connecting"
  /\ sockets' = [sockets EXCEPT ![s] = "closed"]
  /\ RejectWaiting(s)
  /\ UNCHANGED <<ws, chunks, calls>>

\* An open socket closes. Nothing listens: calls that use it go on waiting.
SocketCloses(s) ==
  /\ \/ "drop" \in Faults
     \/ "idle" \in Faults /\ Streaming = {}
  /\ sockets[s] = "open"
  /\ sockets' = [sockets EXCEPT ![s] = "closed"]
  /\ UNCHANGED <<ws, call, socketOf, chunks, calls>>

\* The provider answers on the socket that carried the request.
Served(c) == call[c] = "streaming" /\ IsOpen(socketOf[c], sockets)

Audio(c) ==
  /\ Served(c)
  /\ chunks[c] < MaxChunks
  /\ chunks' = [chunks EXCEPT ![c] = @ + 1]
  /\ UNCHANGED <<sockets, ws, call, socketOf, calls>>

IsFinal(c) ==
  /\ Served(c)
  /\ End(c)
  /\ UNCHANGED <<sockets, ws, calls>>

\* close() ends every open context and closes the current socket; if that one
\* is still connecting, the call that waits for it is rejected.
Close ==
  /\ "close" \in Faults
  /\ ws' = None
  /\ LET Ends(c) ==
           \/ call[c] = "streaming"
           \/ call[c] = "connecting" /\ socketOf[c] = ws
     IN  /\ call' = [c \in Callers |-> IF Ends(c) THEN "idle" ELSE call[c]]
         /\ socketOf' = [c \in Callers |-> IF Ends(c) THEN None ELSE socketOf[c]]
         /\ chunks' = [c \in Callers |-> IF Ends(c) THEN 0 ELSE chunks[c]]
  /\ sockets' = IF ws = None THEN sockets ELSE [sockets EXCEPT ![ws] = "closed"]
  /\ UNCHANGED calls

Next ==
  \/ \E c \in Callers : StreamText(c) \/ Audio(c) \/ IsFinal(c)
  \/ \E s \in DOMAIN sockets : SocketOpens(s) \/ SocketRefused(s) \/ SocketCloses(s)
  \/ Close

Spec == Init /\ [][Next]_vars

\* Connecting ends one way or the other, and the provider finishes a context
\* whose request it has got.
Fairness ==
  /\ \A s \in 1..MaxSockets :
       WF_vars(s \in DOMAIN sockets /\ (SocketOpens(s) \/ SocketRefused(s)))
  /\ \A c \in Callers : WF_vars(IsFinal(c))

FairSpec == Spec /\ Fairness

-----------------------------------------------------------------------------
(* Properties *)

TypeOK ==
  /\ sockets \in Seq({"connecting", "open", "closed"})
  /\ ws \in {None} \union DOMAIN sockets
  /\ call \in [Callers -> {"idle", "connecting", "streaming"}]
  /\ socketOf \in [Callers -> {None} \union DOMAIN sockets]
  /\ chunks \in [Callers -> 0..MaxChunks]
  /\ calls \in [Callers -> 0..MaxCalls]

\* However calls, failures and close() overlap, a call that is being served is
\* on the socket in this.ws: a replaced socket carries nobody's audio, so that
\* close() leaves no audio running.
ServedOnCurrentSocket == \A c \in Callers : Served(c) => socketOf[c] = ws

\* A call waits only for a socket that is connecting, and no two calls for the
\* same one: the open or error event that resumes it is still to come.
WaitsForPendingSocket ==
  /\ \A c \in Callers :
       call[c] = "connecting" => socketOf[c] # None /\ sockets[socketOf[c]] = "connecting"
  /\ \A c, d \in Callers :
       (c # d /\ call[c] = "connecting" /\ call[d] = "connecting")
         => socketOf[c] # socketOf[d]

\* Every call ends, with its audio or with an error: "graceful fallback to text
\* captions when audio is unavailable" needs streamText to return. It does not
\* when two callers connect at once, and not when a socket drops in a call.
EveryCallEnds == \A c \in Callers : call[c] # "idle" ~> call[c] = "idle"
=============================================================================
