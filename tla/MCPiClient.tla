----------------------------- MODULE MCPiClient -----------------------------
(* The process of src/ts/pi-client/main.ts: with realtime audio, played by   *)
(* the client itself or by the bridge, or with the HTTP API alone. The API   *)
(* and the client share the mute switch only, so that a behaviour follows    *)
(* one of them.                                                              *)
EXTENDS PiClient, RelayClient, OwnerModeClient

VARIABLE configuration      \* "player", "owner" or "api": chosen at the start

processVars == <<vars, relayVars, ownerVars, configuration>>

ProcessInit ==
  /\ Init /\ RelayInit /\ OwnerInit
  /\ configuration \in {"player", "owner", "api"}

ProcessNext ==
  /\ UNCHANGED configuration
  /\ \/ configuration = "player" /\ Next /\ UNCHANGED <<relayVars, ownerVars>>
     \/ configuration = "api" /\ RelayNext /\ UNCHANGED <<vars, ownerVars>>
     \/ configuration = "owner" /\ OwnerNext /\ UNCHANGED <<vars, relayVars>>

ProcessSpec ==
  /\ ProcessInit /\ [][ProcessNext]_processVars
  /\ configuration = "player" => Fairness
  /\ configuration = "api" => RelayFairness
=============================================================================
