-------------------------- MODULE MCPiVoiceClient --------------------------
(* Instances of PiVoiceClient for TLC. *)
EXTENDS PiVoiceClient
=============================================================================
