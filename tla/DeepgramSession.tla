--------------------------- MODULE DeepgramSession ---------------------------
(***************************************************************************)
(* The transcription session of a hub connection, class                    *)
(* DeepgramRealtimeSession of src/ts/hub/deepgram-live.ts: a websocket to  *)
(* Deepgram, and the results that it collects into utterances for the      *)
(* connection (SttCallback of RealtimeConnection).                         *)
(*                                                                         *)
(* The user's speech is a row of segments, named 1, 2, ... Deepgram sends  *)
(* interim results of the segment being spoken, one final result when it   *)
(* is over, which it may repeat, and says at any time, with a result or    *)
(* by itself, that the utterance has ended. A result carries words and no  *)
(* name: two segments in a row may have the same words, and the session    *)
(* cannot tell the second from a repeat of the first.                      *)
(***************************************************************************)
EXTENDS Naturals, Sequences, SequencesExt

CONSTANTS
  Words,               (* what a segment may say                           *)
  MaxSpokenSegments,   (* bound: segments the user speaks                  *)
  MaxRepeats           (* bound: final results that Deepgram repeats       *)

ASSUME SessionAssumption == MaxSpokenSegments \in Nat /\ MaxRepeats \in Nat

NoText == 0

VARIABLES
  dgSocket,        (* connecting, open, closing, closed                    *)
  starting,        (* start(): waiting, running, failed                    *)
  ending,          (* close(): no, waiting, done                           *)
  keepAlive,       (* keepAliveTimer is set                                *)
  finalSegments,   (* as in the source                                     *)
  interimText,     (* the segment whose interim text is held, or NoText    *)
  timing,          (* utteranceStartedAt is set                            *)
  (* what Deepgram said, and what the connection was told *)
  said,            (* the segments whose final result was sent, in order: their
                      words, and how many segments had been uttered when the
                      latest final result came, which tells utterances apart *)
  repeats,         (* repeated results so far                              *)
  uttered,         (* final segments of all utterances, in order           *)
  guessed          (* segments uttered from an interim text                *)

dgLife == <<dgSocket, starting, ending, keepAlive>>
dgText == <<finalSegments, interimText, timing>>
dgSaid == <<said, repeats>>
dgTold == <<uttered, guessed>>
dgVars == <<dgLife, dgText, dgSaid, dgTold>>

finalised == Len(said)

DeepgramInit ==
  /\ dgSocket = "connecting" /\ starting = "waiting"
  /\ ending = "no" /\ keepAlive = FALSE
  /\ finalSegments = <<>> /\ interimText = NoText /\ timing = FALSE
  /\ said = <<>> /\ repeats = 0
  /\ uttered = <<>> /\ guessed = {}

-----------------------------------------------------------------------------
(* start, sendAudio, close, and the socket *)

SocketOpened ==
  /\ dgSocket = "connecting"
  /\ dgSocket' = "open" /\ starting' = "running" /\ keepAlive' = TRUE
  /\ UNCHANGED <<ending, dgText, dgSaid, dgTold>>

SessionRefused ==
  /\ dgSocket = "connecting"
  /\ dgSocket' = "closed" /\ starting' = "failed"
  /\ UNCHANGED <<ending, keepAlive, dgText, dgSaid, dgTold>>

\* Audio starts the clock of an utterance, when the socket can take it.
SendAudio ==
  /\ dgSocket = "open" /\ ending = "no"
  /\ ~timing /\ timing' = TRUE
  /\ UNCHANGED <<dgLife, finalSegments, interimText, dgSaid, dgTold>>

\* close() ends the timer, forgets the socket and waits until it is closed; a
\* start() that still waits for the socket throws.
CloseSession ==
  /\ ending = "no"
  /\ keepAlive' = FALSE
  /\ IF dgSocket = "closed"
     THEN ending' = "done" /\ UNCHANGED dgSocket
     ELSE ending' = "waiting" /\ dgSocket' = "closing"
  /\ starting' = IF starting = "waiting" THEN "failed" ELSE starting
  /\ UNCHANGED <<dgText, dgSaid, dgTold>>

\* When it is Deepgram that closes, nobody listens: the session stays.
SocketClosed ==
  /\ dgSocket \in {"open", "closing"}
  /\ dgSocket' = "closed"
  /\ ending' = IF ending = "waiting" THEN "done" ELSE ending
  /\ UNCHANGED <<starting, keepAlive, dgText, dgSaid, dgTold>>

-----------------------------------------------------------------------------
(* handleMessage: also while the socket closes *)

Listening == starting = "running" /\ dgSocket # "closed"

resetUtterance == finalSegments' = <<>> /\ interimText' = NoText /\ timing' = FALSE

\* The final segments are the utterance; an interim text only without any.
InterimFirst(finals, interim) ==                                    \* mutant
  /\ IF interim # NoText
     THEN guessed' = guessed \union {interim} /\ UNCHANGED uttered
     ELSE uttered' = uttered \o finals /\ UNCHANGED guessed
  /\ resetUtterance

flushUtterance(finals, interim) ==
  /\ IF finals = <<>> /\ interim # NoText
     THEN guessed' = guessed \union {interim} /\ UNCHANGED uttered
     ELSE uttered' = uttered \o finals /\ UNCHANGED guessed
  /\ resetUtterance

UtteranceEnd ==
  /\ Listening
  /\ flushUtterance(finalSegments, interimText)
  /\ UNCHANGED <<dgLife, dgSaid>>

\* A result leaves these texts; with speech_final or from_finalize it ends the
\* utterance.
Collected(finals, interim, speechFinal) ==
  IF speechFinal
  THEN flushUtterance(finals, interim)
  ELSE /\ finalSegments' = finals /\ interimText' = interim /\ timing' = TRUE
       /\ UNCHANGED dgTold

\* The words of a final result are compared with those collected last.
WithFinal(k, words) ==
  IF finalSegments # <<>> /\ said[Last(finalSegments)].words = words THEN finalSegments
  ELSE Append(finalSegments, k)

InterimResult(speechFinal) ==
  /\ Listening /\ finalised < MaxSpokenSegments
  /\ Collected(finalSegments, finalised + 1, speechFinal)
  /\ UNCHANGED <<dgLife, dgSaid>>

FinalResult(speechFinal) ==
  /\ Listening /\ finalised < MaxSpokenSegments
  /\ \E words \in Words :
       /\ said' = Append(said, [words |-> words, after |-> Len(uttered)])
       /\ Collected(WithFinal(finalised + 1, words), NoText, speechFinal)
  /\ UNCHANGED <<dgLife, repeats>>

RepeatedResult(speechFinal) ==
  /\ Listening /\ finalised > 0 /\ repeats < MaxRepeats
  /\ repeats' = repeats + 1
  /\ said' = [said EXCEPT ![finalised].after = Len(uttered)]
  /\ Collected(WithFinal(finalised, said[finalised].words), NoText, speechFinal)
  /\ UNCHANGED dgLife

\* No words in it. A result that is not the end of the utterance either is
\* ignored, as every other type of message is.
EmptyResult ==
  /\ Listening
  /\ flushUtterance(finalSegments, interimText)
  /\ UNCHANGED <<dgLife, dgSaid>>

Results ==
  \/ \E speechFinal \in BOOLEAN :
       InterimResult(speechFinal) \/ FinalResult(speechFinal) \/ RepeatedResult(speechFinal)
  \/ EmptyResult

DeepgramNext ==
  \/ SocketOpened \/ SessionRefused \/ SendAudio \/ CloseSession \/ SocketClosed
  \/ UtteranceEnd \/ Results

DeepgramSpec == DeepgramInit /\ [][DeepgramNext]_dgVars

-----------------------------------------------------------------------------
(* Properties *)

DeepgramTypeOK ==
  /\ dgSocket \in {"connecting", "open", "closing", "closed"}
  /\ starting \in {"waiting", "running", "failed"}
  /\ ending \in {"no", "waiting", "done"}
  /\ keepAlive \in BOOLEAN /\ timing \in BOOLEAN
  /\ finalSegments \in Seq(Nat) /\ interimText \in Nat
  /\ said \in Seq([words : Words, after : Nat]) /\ repeats \in Nat
  /\ uttered \in Seq(Nat) /\ guessed \subseteq Nat

Rising(s) == \A i, j \in DOMAIN s : i < j => s[i] < s[j]
Told == uttered \o finalSegments

\* Segment k has the words of the one before it, and came in the same utterance.
Echo(k) ==
  /\ k > 1 /\ said[k].words = said[k - 1].words
  /\ said[k].after = said[k - 1].after

\* However final results, repeats of them, interim results and ends of the
\* utterance follow each other, what was uttered and what is being collected
\* hold the final segments in the order spoken, and all of them but echoes: a
\* segment is lost only if it has the words of the one just before it, in the
\* same utterance ("no. no."), which the comparison of words takes for a repeat.
\* No utterance repeats a segment, and an interim text is only held while its
\* segment has no final result: what was settled is not guessed again.
OnlyEchoesAreLost ==
  /\ ToSet(Told) \subseteq 1..finalised
  /\ \A k \in 1..finalised : k \in ToSet(Told) \/ Echo(k)
  /\ \A i, j \in DOMAIN Told : i < j => Told[i] <= Told[j]
  /\ Rising(finalSegments)
  /\ interimText \in {NoText, finalised + 1}
=============================================================================
