----------------------------- MODULE AlsaVolume -----------------------------
(***************************************************************************)
(* The mixer of the Pi client, class AlsaVolumeController of               *)
(* src/ts/pi-client/alsa-volume.ts: duck and restore, queued one behind    *)
(* the other because each waits for amixer, which may fail. A command is   *)
(* one step, taken when amixer is through; nobody else turns the mixer.    *)
(***************************************************************************)
EXTENDS Naturals, Sequences

CONSTANTS
  UserLevels,   (* levels the user may have chosen                         *)
  DuckPercent,  (* level to duck to                                        *)
  Nobody        (* awaits a command that was called with void              *)

ASSUME VolumeAssumption == UserLevels \subseteq Nat /\ DuckPercent \in Nat

VARIABLES
  userLevel,       (* what the user chose                                  *)
  level,           (* where the mixer is                                   *)
  originalPercent, (* level before ducking, 0 before the first             *)
  ducked,
  serial,          (* commands under way: kind, and who awaits it          *)
  restoreFailed    (* history: the last amixer call of a restore failed    *)

volume == <<userLevel, level, originalPercent, ducked, serial, restoreFailed>>

VolumeInit ==
  /\ userLevel \in UserLevels /\ level = userLevel
  /\ originalPercent = 0 /\ ducked = FALSE
  /\ serial = <<>> /\ restoreFailed = FALSE

enqueue(kind, waiter) ==
  /\ serial' = Append(serial, [kind |-> kind, waiter |-> waiter])
  /\ UNCHANGED <<userLevel, level, originalPercent, ducked, restoreFailed>>

VolumeIdle == serial = <<>>

DuckAgain ==                                                        \* mutant
  /\ originalPercent' = level
  /\ level' = IF level > DuckPercent THEN DuckPercent ELSE level
  /\ ducked' = TRUE
  /\ UNCHANGED <<userLevel, restoreFailed>>

\* amixer may fail to read, or to set after it has read.
duck ==
  IF ducked
  THEN UNCHANGED <<userLevel, level, originalPercent, ducked, restoreFailed>>
  ELSE \/ /\ originalPercent' = level
          /\ level' = IF level > DuckPercent THEN DuckPercent ELSE level
          /\ ducked' = TRUE
          /\ UNCHANGED <<userLevel, restoreFailed>>
       \/ /\ originalPercent' \in {originalPercent, level}
          /\ UNCHANGED <<userLevel, level, ducked, restoreFailed>>

restore ==
  IF ~ducked
  THEN UNCHANGED <<userLevel, level, originalPercent, ducked, restoreFailed>>
  ELSE \/ /\ level' = originalPercent
          /\ ducked' = FALSE /\ restoreFailed' = FALSE
          /\ UNCHANGED <<userLevel, originalPercent>>
       \/ /\ restoreFailed' = TRUE
          /\ UNCHANGED <<userLevel, level, originalPercent, ducked>>

\* The first command is through, for better or worse.
DuckDone(waiter) ==
  /\ Head(serial) = [kind |-> "duck", waiter |-> waiter]
  /\ duck

RestoreDone(waiter) ==
  /\ serial # <<>>
  /\ Head(serial) = [kind |-> "restore", waiter |-> waiter]
  /\ serial' = Tail(serial)
  /\ restore
=============================================================================
