------------------------- MODULE MCElevenLabsStream -------------------------
(* Instances of ElevenLabsStream for TLC: callers are interchangeable. *)
EXTENDS ElevenLabsStream, TLC

CallersAlike == Permutations(Callers)
=============================================================================
