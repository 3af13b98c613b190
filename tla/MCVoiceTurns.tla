---------------------------- MODULE MCVoiceTurns ----------------------------
(* VoiceTurns with four starts, three stops and one fault of the network. *)
EXTENDS VoiceTurns
=============================================================================
