--------------------------- MODULE MCVoxtaFacade ---------------------------
(* An instance of VoxtaFacade for TLC. *)
EXTENDS VoxtaFacade, TLC

CONSTANTS c1, c2, t1, hi, bye

\* The chat a connection with the negotiated token starts with, its session,
\* and the session of whoever resumes that chat.
TokenChat == [of |-> t1, nr |-> 0]
Bare(kind) == [kind |-> kind, chat |-> Missing, session |-> Missing, text |-> Missing]
Say(text, session) == [Bare("send") EXCEPT !.session = session, !.text = text]
ResumeOf(chat) == [Bare("resumeChat") EXCEPT !.chat = chat]

\* Two clients talk in one session, each says what it likes; one talks and
\* interrupts, or starts a new chat; chats are started and resumed; the rest of
\* the protocol. An answer may have the text of a question.
VoxtaScenarios ==
  { (c1 :> <<Say(hi, Missing)>>) @@ (c2 :> <<Say(bye, NewSession(TokenChat))>>),
    (c1 :> <<Say(hi, Missing)>>) @@ (c2 :> <<Say(hi, NewSession(TokenChat))>>),
    (c1 :> <<Say(hi, Missing), Bare("interrupt")>>) @@ (c2 :> <<>>),
    (c1 :> <<Say(hi, Missing), Bare("startChat")>>) @@ (c2 :> <<>>),
    (c1 :> <<Bare("startChat")>>) @@ (c2 :> <<ResumeOf(TokenChat), Say(hi, Missing)>>),
    (c1 :> <<Bare("resumeChat")>>) @@ (c2 :> <<Bare("ping"), Bare("authenticate")>>) }

SharedSessions == {NewSession(TokenChat)}
=============================================================================
