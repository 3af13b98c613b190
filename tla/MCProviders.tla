----------------------------- MODULE MCProviders -----------------------------
(* The hub's two providers. Its speech stream and its transcription sessions *)
(* share no state, so that a behaviour follows one of them.                  *)
EXTENDS ElevenLabsStream, DeepgramSession, TLC

VARIABLE followed       \* "speech" or "transcription": chosen at the start

providerVars == <<vars, dgVars, followed>>

ProvidersInit == Init /\ DeepgramInit /\ followed \in {"speech", "transcription"}

ProvidersNext ==
  /\ UNCHANGED followed
  /\ \/ followed = "speech" /\ Next /\ UNCHANGED dgVars
     \/ followed = "transcription" /\ DeepgramNext /\ UNCHANGED vars

ProvidersSpec == ProvidersInit /\ [][ProvidersNext]_providerVars

Alike == Permutations(Callers) \union Permutations(Words)
=============================================================================
