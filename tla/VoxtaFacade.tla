---------------------------- MODULE VoxtaFacade ----------------------------
(***************************************************************************)
(* The Voxta facade of the hub, src/ts/hub/voxta-facade.ts: negotiation of *)
(* connection ids, and connections that each serialise their frames in a   *)
(* promise chain while they share the session store, the registry of       *)
(* embodied sessions and the agent.                                        *)
(*                                                                         *)
(* Every frame that is sent is awaited; frames that follow one another     *)
(* with nothing in between are sent as one burst, so a step is what runs   *)
(* between two bursts or two deltas of the agent. Every invocation carries *)
(* an id. Texts may be equal: of one client's frames, of two clients, of   *)
(* an answer and a question. Operators marked "mutant" are slips of the    *)
(* definition that follows them.                                           *)
(***************************************************************************)
EXTENDS SessionStore, EmbodiedSessions

CONSTANTS
  Conns,       (* websocket connections                                    *)
  Tokens,      (* connection tokens that may be negotiated                 *)
  Texts,       (* what users and agent say, never blank                    *)
  Scenarios,   (* bound: what the clients may send, each in this order     *)
  Voxta,       (* satelliteId of the facade, the same for all connections  *)
  Others,      (* satellites of realtime connections                       *)
  Shared,      (* sessions which those attach to                           *)
  MaxFrames,   (* bound: frames of one client                              *)
  MaxDeltas    (* bound: deltas of one reply                               *)

(***************************************************************************)
(* Ids are made from a random uuid: the one of a negotiation, of a         *)
(* connection, or of a startChat, named by what drew it. A resumed chat    *)
(* lends its id to a session of its own.                                   *)
(***************************************************************************)
Uuids == [of : Tokens \union Conns, nr : 0..MaxFrames]
ChatIds == Uuids
SessionIds == [uuid : Uuids, resumed : BOOLEAN]
NewSession(u) == [uuid |-> u, resumed |-> FALSE]
ResumedSession(chat) == [uuid |-> chat, resumed |-> TRUE]
Missing == <<>>  \* an optional argument left out, no id yet, or a blank answer

FrameKinds ==
  {"handshake", "ping", "authenticate", "registerApp", "list", "ack",
   "updateContext", "triggerAction", "deniedAction", "emptySend",
   "startChat", "resumeChat", "send", "interrupt"}
FrameRecords ==
  [kind : FrameKinds, chat : ChatIds \union {Missing},
   session : SessionIds \union {Missing}, text : Texts \union {Missing}]

ASSUME FacadeAssumption ==
  /\ \A scenario \in Scenarios, c \in Conns :
       scenario[c] \in Seq(FrameRecords) /\ Len(scenario[c]) <= MaxFrames
  /\ Voxta \notin Others
  /\ Shared \subseteq SessionIds
  /\ MaxFrames \in Nat /\ MaxDeltas \in Nat

Links == 1..MaxFrames

VARIABLES
  pendingConnections,  (* negotiated tokens nobody has connected with      *)
  socket,              (* of each connection: new, open, closed            *)
  connectionId, sessionId, chatId,
  messageChain,        (* frames received, in order                        *)
  handler,             (* of each link of a chain: locals of handleFrame   *)
  replyAbort, replySequence,
  request,             (* running call of the agent: question, prompt, ... *)
  heard                (* last burst that was sent on an open socket       *)

ids == <<connectionId, sessionId, chatId>>
flags == <<replyAbort, replySequence>>
vars == <<store, satellites, pendingConnections, socket, ids, messageChain,
          handler, flags, request, heard>>

\* What a handler goes on with when its burst is flushed, whether that went to
\* an open socket, and the locals of streamAssistantReply.
Locals(next, onWire, id) ==
  [next |-> next, onWire |-> onWire, id |-> id, deltas |-> 0]
Queued == Locals("queued", FALSE, 0)
Settled == Locals("settled", FALSE, 0)

Init ==
  /\ StoreInit /\ RegistryInit
  /\ pendingConnections = {}
  /\ socket = [c \in Conns |-> "new"]
  /\ connectionId = [c \in Conns |-> Missing]
  /\ sessionId = [c \in Conns |-> Missing]
  /\ chatId = [c \in Conns |-> Missing]
  /\ messageChain = [c \in Conns |-> <<>>]
  /\ handler = [c \in Conns |-> [n \in Links |-> Queued]]
  /\ replyAbort = [c \in Conns |-> FALSE]
  /\ replySequence = [c \in Conns |-> 0]
  /\ request = [c \in Conns |-> Missing]
  /\ heard = [c \in Conns |-> "nothing"]

-----------------------------------------------------------------------------
(* Negotiation and connection *)

\* Each negotiation forgets tokens that are older than a minute.
Negotiate(token) ==
  /\ \E forgotten \in SUBSET pendingConnections :
       pendingConnections' = (pendingConnections \ forgotten) \union {token}
  /\ \A c \in Conns : connectionId[c] # [of |-> token, nr |-> 0]
  /\ UNCHANGED <<store, satellites, socket, ids, messageChain, handler, flags,
                 request, heard>>

TokenUsed(token) == pendingConnections' = pendingConnections \ {token}

\* A token that is not pending is no obstacle: the connection gets a new id.
Connect(c, token) ==
  /\ socket[c] = "new"
  /\ socket' = [socket EXCEPT ![c] = "open"]
  /\ TokenUsed(token)
  /\ LET u == [of |-> IF token \in pendingConnections THEN token ELSE c, nr |-> 0]
     IN  /\ connectionId' = [connectionId EXCEPT ![c] = u]
         /\ sessionId' = [sessionId EXCEPT ![c] = NewSession(u)]
         /\ chatId' = [chatId EXCEPT ![c] = u]
         /\ attachSatellite(NewSession(u), Voxta)
  /\ UNCHANGED <<store, messageChain, handler, flags, request, heard>>

Follows(scenario) ==
  \A c \in Conns :
    LET n == Len(messageChain[c])
    IN  n <= Len(scenario[c]) /\ messageChain[c] = SubSeq(scenario[c], 1, n)

Receive(c) ==
  /\ socket[c] = "open"
  /\ \E scenario \in Scenarios :
       /\ Follows(scenario)
       /\ Len(messageChain[c]) < Len(scenario[c])
       /\ messageChain' = [messageChain EXCEPT ![c] =
            Append(@, scenario[c][Len(@) + 1])]
  /\ UNCHANGED <<store, satellites, pendingConnections, socket, ids, handler,
                 flags, request, heard>>

cancelReply(c) ==
  /\ replyAbort' = [replyAbort EXCEPT ![c] = TRUE]
  /\ replySequence' = [replySequence EXCEPT ![c] = @ + 1]

SocketClose(c) ==
  /\ socket[c] = "open"
  /\ socket' = [socket EXCEPT ![c] = "closed"]
  /\ cancelReply(c)
  /\ UNCHANGED <<store, satellites, pendingConnections, ids, messageChain,
                 handler, request, heard>>

\* Realtime connections attach their satellites in the same registry, and time
\* passes for the sessions of the same store.
RealtimeAttach(s, satellite) ==
  /\ attachSatellite(s, satellite)
  /\ UNCHANGED <<store, pendingConnections, socket, ids, messageChain, handler,
                 flags, request, heard>>

Expire(s) ==
  /\ GrowOld(s)
  /\ UNCHANGED <<satellites, pendingConnections, socket, ids, messageChain,
                 handler, flags, request, heard>>

-----------------------------------------------------------------------------
(* What handlers share *)

IsOpen(c) == socket[c] = "open"

\* A socket that is not open swallows what is sent.
Send(c, burst) == heard' = [heard EXCEPT ![c] = IF IsOpen(c) THEN burst ELSE @]

\* Send and await the flush, to go on with next.
Emit(c, n, burst, next) ==
  /\ Send(c, burst)
  /\ handler' = [handler EXCEPT ![c][n].next = next, ![c][n].onWire = IsOpen(c)]

CanStartUnchained(c, n) ==                                          \* mutant
  /\ n <= Len(messageChain[c])
  /\ handler[c][n] = Queued
  /\ \A m \in 1..(n - 1) : handler[c][m] # Queued

CanStart(c, n) ==
  /\ n <= Len(messageChain[c])
  /\ handler[c][n] = Queued
  /\ \A m \in 1..(n - 1) : handler[c][m] = Settled

Starts(c, n, kinds) == CanStart(c, n) /\ messageChain[c][n].kind \in kinds
Frame(c, n) == messageChain[c][n]

-----------------------------------------------------------------------------
(* handleFrame *)

\* Frames that are only answered or acknowledged, with a completion.
HandleStateless(c, n) ==
  /\ Starts(c, n, {"handshake", "authenticate", "registerApp", "list", "ack",
                   "updateContext", "triggerAction", "deniedAction", "emptySend"})
  /\ Emit(c, n, "answer", "settle")
  /\ UNCHANGED <<store, satellites, pendingConnections, socket, ids,
                 messageChain, flags, request>>

HandlePing(c, n) ==
  /\ Starts(c, n, {"ping"})
  /\ handler' = [handler EXCEPT ![c][n] = Settled]
  /\ UNCHANGED <<store, satellites, pendingConnections, socket, ids,
                 messageChain, flags, request, heard>>

HandleStartChat(c, n) ==
  /\ Starts(c, n, {"startChat"})
  /\ LET u == [of |-> c, nr |-> n]
     IN  /\ sessionId' = [sessionId EXCEPT ![c] = NewSession(u)]
         /\ chatId' = [chatId EXCEPT ![c] = u]
         /\ attachSatellite(NewSession(u), Voxta)
  /\ Emit(c, n, "answer", "settle")
  /\ UNCHANGED <<store, pendingConnections, socket, connectionId, messageChain,
                 flags, request>>

Resume(c, chat) ==
  IF chat = Missing
  THEN UNCHANGED <<chatId, sessionId, satellites>>
  ELSE /\ chatId' = [chatId EXCEPT ![c] = chat]
       /\ sessionId' = [sessionId EXCEPT ![c] = ResumedSession(chat)]
       /\ attachSatellite(ResumedSession(chat), Voxta)

HandleResumeChat(c, n) ==
  /\ Starts(c, n, {"resumeChat"})
  /\ Resume(c, Frame(c, n).chat)
  /\ Emit(c, n, "answer", "settle")
  /\ UNCHANGED <<store, pendingConnections, socket, connectionId, messageChain,
                 flags, request>>

HandleInterrupt(c, n) ==
  /\ Starts(c, n, {"interrupt"})
  /\ cancelReply(c)
  /\ Emit(c, n, "answer", "settle")
  /\ UNCHANGED <<store, satellites, pendingConnections, socket, ids,
                 messageChain, request>>

\* handleSend up to its first await.
HandleSend(c, n) ==
  /\ Starts(c, n, {"send"})
  /\ LET named == Frame(c, n).session
         s == IF named = Missing THEN sessionId[c] ELSE named
     IN  /\ sessionId' = [sessionId EXCEPT ![c] = s]
         /\ attachSatellite(s, Voxta)
  /\ Emit(c, n, "userMessage", "reply")
  /\ UNCHANGED <<store, pendingConnections, socket, connectionId, chatId,
                 messageChain, flags, request>>

-----------------------------------------------------------------------------
(* What follows once a burst is flushed *)

Awaits(c, n, next) == handler[c][n].next = next

\* The socket closed before the burst was flushed: the handler rejects, and
\* its error frame is swallowed.
FlushFails(c, n) ==
  /\ handler[c][n].onWire
  /\ socket[c] = "closed"
  /\ handler' = [handler EXCEPT ![c][n] = Settled]
  /\ request' = [request EXCEPT ![c] = Missing]
  /\ UNCHANGED <<store, satellites, pendingConnections, socket, ids,
                 messageChain, flags, heard>>

Settle(c, n) ==
  /\ Awaits(c, n, "settle")
  /\ handler' = [handler EXCEPT ![c][n] = Settled]
  /\ UNCHANGED <<store, satellites, pendingConnections, socket, ids,
                 messageChain, flags, request, heard>>

\* A message, and the link that it was entered by.
Said(role, c, n, content) ==
  [role |-> role, content |-> content, by |-> c, in |-> n]
Question(c, n) == Said("user", c, n, Frame(c, n).text)

\* The user's text is entered, and streamAssistantReply begins.
StartReply(c, n) ==
  /\ Awaits(c, n, "reply")
  /\ append(sessionId[c], Question(c, n))
  /\ replySequence' = [replySequence EXCEPT ![c] = @ + 1]
  /\ replyAbort' = [replyAbort EXCEPT ![c] = FALSE]
  /\ handler' = [handler EXCEPT ![c][n] =
                    Locals("askAgent", IsOpen(c), replySequence'[c])]
  /\ Send(c, "replyStart")
  /\ UNCHANGED <<satellites, pendingConnections, socket, ids, messageChain,
                 request>>

Messages ==
  [role : {"user", "assistant"}, content : Texts \union {Missing},
   by : Conns, in : Links]
Blank == {m \in Messages : m.content = Missing}

PromptAsRemembered(history, question) ==                            \* mutant
  Without(history, Blank)

\* buildMessages of the agent runtimes: the question is added unless the last
\* message that is not blank has its content, whoever said it.
buildMessages(history, question) ==
  LET prompt == Without(history, Blank)
  IN  IF prompt # <<>> /\ prompt[Len(prompt)].content = question.content
      THEN prompt ELSE Append(prompt, question)

AskAgent(c, n) ==
  /\ Awaits(c, n, "askAgent")
  /\ cleanup
  /\ getContext(sessionId[c], Voxta)
  /\ request' = [request EXCEPT ![c] =
       [question |-> Question(c, n),
        session |-> sessionId[c],
        prompt |-> buildMessages(History(sessionId[c]), Question(c, n)),
        context |-> Context(sessionId[c], Voxta)]]
  /\ handler' = [handler EXCEPT ![c][n].next = "agent", ![c][n].onWire = FALSE]
  /\ UNCHANGED <<pendingConnections, socket, ids, messageChain, flags, heard>>

Cancelled(c, n) == replyAbort[c] \/ handler[c][n].id # replySequence[c]

\* A delta arrives while the last chunk is flushed or was flushed.
AgentDelta(c, n) ==
  /\ Awaits(c, n, "agent")
  /\ handler[c][n].deltas < MaxDeltas
  /\ IF Cancelled(c, n)
     THEN /\ Emit(c, n, "replyCancelled", "settle")
          /\ request' = [request EXCEPT ![c] = Missing]
     ELSE /\ Send(c, "replyChunk")
          /\ handler' = [handler EXCEPT ![c][n].deltas = @ + 1,
                                       ![c][n].onWire = IsOpen(c)]
          /\ UNCHANGED request
  /\ UNCHANGED <<store, satellites, pendingConnections, socket, ids,
                 messageChain, flags>>

\* The stream ends: the answer is entered without another look at the flag.
AgentEnd(c, n) ==
  /\ Awaits(c, n, "agent")
  /\ \E content \in IF handler[c][n].deltas = 0 THEN {Missing} ELSE Texts :
       append(sessionId[c], Said("assistant", c, n, content))
  /\ Emit(c, n, "replyEnd", "settle")
  /\ request' = [request EXCEPT ![c] = Missing]
  /\ UNCHANGED <<satellites, pendingConnections, socket, ids, messageChain,
                 flags>>

\* The stream throws: an error frame nobody awaits, and no completion.
AgentFail(c, n) ==
  /\ Awaits(c, n, "agent")
  /\ handler' = [handler EXCEPT ![c][n] = Settled]
  /\ Send(c, "error")
  /\ request' = [request EXCEPT ![c] = Missing]
  /\ UNCHANGED <<store, satellites, pendingConnections, socket, ids,
                 messageChain, flags>>

-----------------------------------------------------------------------------
Start(c, n) ==
  \/ HandleStateless(c, n) \/ HandlePing(c, n) \/ HandleStartChat(c, n)
  \/ HandleResumeChat(c, n) \/ HandleInterrupt(c, n) \/ HandleSend(c, n)

Answers(c, n) == AgentEnd(c, n) \/ AgentFail(c, n)

Continue(c, n) ==
  Settle(c, n) \/ StartReply(c, n) \/ AskAgent(c, n)

Next ==
  \/ \E token \in Tokens :
       Negotiate(token) \/ \E c \in Conns : Connect(c, token)
  \/ \E c \in Conns :
       \/ Receive(c) \/ SocketClose(c)
       \/ \E n \in Links :
            \/ Start(c, n) \/ Continue(c, n) \/ FlushFails(c, n)
            \/ AgentDelta(c, n) \/ Answers(c, n)
  \/ \E s \in Shared, satellite \in Others : RealtimeAttach(s, satellite)
  \/ \E s \in InStore : Expire(s)

Spec == Init /\ [][Next]_vars

-----------------------------------------------------------------------------
(* Properties *)

Handlers ==
  [onWire : BOOLEAN, id : Nat, deltas : 0..MaxDeltas,
   next : {"queued", "settle", "reply", "askAgent", "agent", "settled"}]
Satellites == Others \union {Voxta}
Requests ==
  [question : Messages, session : SessionIds, prompt : Seq(Messages),
   context : [source : Satellites, active : Seq(Satellites)]]

TypeOK ==
  /\ InStore \subseteq SessionIds /\ old \subseteq InStore
  /\ \A s \in InStore : messages[s] \in Seq(Messages)
  /\ Embodied \subseteq SessionIds
  /\ \A s \in Embodied : satellites[s] \in Seq(Satellites)
  /\ pendingConnections \subseteq Tokens
  /\ socket \in [Conns -> {"new", "open", "closed"}]
  /\ connectionId \in [Conns -> Uuids \union {Missing}]
  /\ \A c \in Conns :
       IF socket[c] = "new" THEN sessionId[c] = Missing /\ chatId[c] = Missing
                            ELSE sessionId[c] \in SessionIds /\ chatId[c] \in ChatIds
  /\ messageChain \in [Conns -> Seq(FrameRecords)]
  /\ handler \in [Conns -> [Links -> Handlers]]
  /\ replyAbort \in [Conns -> BOOLEAN]
  /\ replySequence \in [Conns -> Nat]
  /\ request \in [Conns -> Requests \union {Missing}]

\* Whatever other connections enter into the session, and whatever expires,
\* while the frames before the call are flushed: the prompt the agent gets
\* ends with the text that was just said to it, although it is looked for by
\* its content only and the same text may have been said before.
PromptEndsWithQuestion ==
  \A c \in Conns : request[c] # Missing =>
    LET p == request[c].prompt
    IN  p # <<>> /\ p[Len(p)].content = request[c].question.content

\* The channel context of a call names the facade's satellite as its source,
\* and no satellite twice, although satellites are attached again and again,
\* in any session and never detached.
ContextNamesSource ==
  \A c \in Conns : request[c] # Missing =>
    LET context == request[c].context
    IN  /\ context.source = Voxta
        /\ \A i, j \in 1..Len(context.active) :
             i # j => context.active[i] # context.active[j]

\* An answer stands behind its question and in the same session, with other
\* connections in that session, and sessionId read again after every await.
AnswerAfterQuestion ==
  \A s, t \in InStore :
    \A i \in 1..Len(messages[s]), j \in 1..Len(messages[t]) :
      /\ messages[s][i].by = messages[t][j].by
      /\ messages[s][i].in = messages[t][j].in
      /\ messages[s][i].role = "user" /\ messages[t][j].role = "assistant"
      => s = t /\ i < j

Dialog == INSTANCE VoxtaDialog WITH line <- socket

\* Every client hears whole exchanges, one after the other.
ImplementsDialog == Dialog!Spec
=============================================================================
