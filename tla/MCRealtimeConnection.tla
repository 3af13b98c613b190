------------------------ MODULE MCRealtimeConnection ------------------------
(* Instances of RealtimeConnection for TLC. *)
EXTENDS RealtimeConnection

Frame(k) == [kind |-> k, session |-> OwnSession, audio |-> FALSE]
Hello(s, a) == [kind |-> "hello", session |-> s, audio |-> a]

\* Everything a client may send, with two ways to say hello.
AllFrames ==
  {Frame(k) : k \in FrameKinds \ {"hello"}}
    \union {Hello(s, TRUE) : s \in Sessions \ {OwnSession}}
    \union {Hello(OwnSession, FALSE)}

\* What starts, joins and cancels replies, and what else holds the chain.
ReplyFrames ==
  {Frame("userText"), Frame("politeText"), Frame("interrupt"), Frame("relay")}
    \union {Hello(s, TRUE) : s \in Sessions \ {OwnSession}}

\* A connection whose STT and identity are up and whose session.ready is out.
GreetedInit ==
  Fresh("open", "known", <<[kind |-> "session.ready", session |-> OwnSession]>>)

GreetedSpec == GreetedInit /\ [][Next]_vars
=============================================================================
