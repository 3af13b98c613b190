-------------------------- MODULE EmbodiedSessions --------------------------
(***************************************************************************)
(* EmbodiedSessionRegistry of src/ts/hub/embodied-session.ts: which        *)
(* satellites are attached to a session. Nothing is ever detached. Names,  *)
(* capabilities and time stamps are left out. The operator marked "mutant" *)
(* is a slip of the one that follows it; no specification uses it.         *)
(***************************************************************************)
EXTENDS Sequences, Naturals

VARIABLE satellites  (* the map: [session -> ids in order of attachment] *)

RegistryInit == satellites = <<>>

Embodied == DOMAIN satellites
SatellitesOf(s) == IF s \in Embodied THEN satellites[s] ELSE <<>>

PutSatellites(s, ids) ==
  satellites' = [t \in Embodied \union {s} |-> IF t = s THEN ids ELSE satellites[t]]

\* The sequence without the elements of a set, in its order.
Without(seq, set) ==
  LET kept[n \in 0..Len(seq)] ==
        IF n = 0 THEN <<>>
        ELSE IF seq[n] \in set THEN kept[n - 1] ELSE Append(kept[n - 1], seq[n])
  IN  kept[Len(seq)]

AttachAgain(s, satellite) ==                                        \* mutant
  PutSatellites(s, Append(SatellitesOf(s), satellite))

\* A satellite that is attached already moves to the end.
attachSatellite(s, satellite) ==
  PutSatellites(s, Append(Without(SatellitesOf(s), {satellite}), satellite))

\* A session that is not known yet is created.
getContext(s, satellite) ==
  IF s \in Embodied THEN UNCHANGED satellites ELSE attachSatellite(s, satellite)

\* What getContext returns; the first satellite stands in for a source that is
\* not attached.
Context(s, satellite) ==
  LET active == satellites'[s]
  IN  [source |-> IF \E i \in 1..Len(active) : active[i] = satellite
                  THEN satellite ELSE Head(active),
       active |-> active]
=============================================================================
