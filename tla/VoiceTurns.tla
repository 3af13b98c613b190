----------------------------- MODULE VoiceTurns -----------------------------
(***************************************************************************)
(* The turns of an ESPHome voice device on the Python hub: class           *)
(* StreamingVoiceAssistantRuntime of hub/devices/voice_runtime_streaming.py *)
(* over DeepgramLiveSTTProvider of hub/adapters/stt/deepgram_live.py.      *)
(*                                                                         *)
(* Every message of the device is handled in a task of its own, and tasks  *)
(* interleave at their awaits. A turn is named by the number of the        *)
(* handle_start that made it. What handle_start does between two awaits is *)
(* several steps here, during which nothing else runs (running). Left out: *)
(* the finalize lock, under which nobody awaits anything; the send lock,   *)
(* whose waiters wait in connectLock; _discard_audio_until_stop, which     *)
(* only decides what is logged. A transcript is blank or not. Operators    *)
(* marked "mutant" are slips of the definition that follows them; the      *)
(* specification does not use them.                                        *)
(***************************************************************************)
EXTENDS Naturals, Sequences, SequencesExt

CONSTANTS
  MaxStarts,  (* bound: starts of the device                               *)
  MaxStops,   (* bound: stops of the device                                *)
  MaxFaults   (* bound: refused and dropped connections of the recogniser  *)

ASSUME RuntimeAssumption ==
  MaxStarts \in Nat /\ MaxStops \in Nat /\ MaxFaults \in Nat

Turns == 1..MaxStarts
None == 0

VARIABLES
  (* the device *)
  starts, stops, faults,
  (* the runtime *)
  active,        (* the turn that is recorded                              *)
  responseTask,  (* the turn whose task runs the response pipeline         *)
  watchdogTask,  (* the turn whose watchdog is remembered                  *)
  (* its tasks *)
  running,       (* the handle_start that runs without an await            *)
  start,         (* of each turn: how far handle_start is, waiting for whom *)
  finish,        (* of each turn: how far _finish_turn is that took it     *)
  watching,      (* turns whose watchdog sleeps                            *)
  (* the recogniser's adapter *)
  sttTurn,       (* its _active_turn                                       *)
  ws,            (* none, open, closing                                    *)
  connectLock,   (* who holds _connect_lock and who waits for it           *)
  (* history variables *)
  runEnds,       (* RUN_END events sent for each turn                      *)
  overwritten    (* turns that were active when another was installed      *)

device == <<starts, stops, faults>>
runtime == <<active, responseTask, watchdogTask>>
stt == <<sttTurn, ws, connectLock>>
vars == <<device, runtime, running, start, finish, watching, stt, runEnds, overwritten>>

Phase(p, on) == [phase |-> p, on |-> on]

Init ==
  /\ starts = 0 /\ stops = 0 /\ faults = 0
  /\ active = None /\ responseTask = None /\ watchdogTask = None
  /\ running = None
  /\ start = [t \in Turns |-> Phase("none", None)]
  /\ finish = [t \in Turns |-> "none"]
  /\ watching = {}
  /\ sttTurn = None /\ ws = "none" /\ connectLock = <<>>
  /\ runEnds = [t \in Turns |-> 0]
  /\ overwritten = {}

Quiet == running = None
Go(u, p) == start' = [start EXCEPT ![u] = Phase(p, None)]

-----------------------------------------------------------------------------
(* The adapter *)

\* abort_turn, and how it leaves the adapter: it returns at once, or awaits
\* the close of the socket.
NothingToAbort(turn) == turn = None /\ ws # "open"
ReturnsAtOnce(turn) == NothingToAbort(turn) \/ ws = "none"
abort_turn(turn) ==
  /\ sttTurn' = None
  /\ ws' = IF ReturnsAtOnce(turn) THEN ws ELSE "closing"

\* Finishing needs a connection to send Finalize on.
Finisher(t) == [task |-> "finish", turn |-> t]
Starter(t) == [task |-> "start", turn |-> t]
Audio == [task |-> "audio", turn |-> None]

-----------------------------------------------------------------------------
(* _finish_turn *)

\* The turn is taken, by whoever is first, and the watchdog is cancelled.
TakeKeepsActive == watchdogTask' = None /\ UNCHANGED active          \* mutant
TakeTurn == watchdogTask' = None /\ active' = None

RunEnd(t) == runEnds' = [runEnds EXCEPT ![t] = @ + 1]
At(t, p) == finish' = [finish EXCEPT ![t] = p]

\* abort: the recogniser's turn is dropped, and there is no answer.
FinishAborted(t) ==
  /\ abort_turn(sttTurn)
  /\ IF ReturnsAtOnce(sttTurn)
     THEN At(t, "done") /\ RunEnd(t)
     ELSE At(t, "closing") /\ UNCHANGED runEnds
  /\ UNCHANGED <<responseTask, connectLock>>

\* Otherwise this task becomes the response task. Without a turn of the
\* recogniser the transcript is blank and the run ends at once.
FinishAnswered(t) ==
  /\ UNCHANGED <<sttTurn, ws>>
  /\ \/ /\ sttTurn = None
        /\ At(t, "done") /\ RunEnd(t)
        /\ responseTask' = None
        /\ UNCHANGED connectLock
     \/ /\ sttTurn # None
        /\ responseTask' = t
        /\ IF ws = "open"
           THEN At(t, "finalizing") /\ UNCHANGED connectLock
           ELSE At(t, "sending") /\ connectLock' = Append(connectLock, Finisher(t))
        /\ UNCHANGED runEnds

\* The finally clause.
EndRun(t) ==
  /\ At(t, "done") /\ RunEnd(t)
  /\ responseTask' = IF responseTask = t THEN None ELSE responseTask

\* finish_turn returns words for the agent, returns none, or fails.
FinishTurnEnds(t) ==
  /\ sttTurn' = None
  /\ \/ At(t, "agent") /\ UNCHANGED <<runEnds, responseTask>>
     \/ EndRun(t)

\* The recogniser has sent its last result, or 2.5 seconds have passed.
FinalizeEnds(t) ==
  /\ Quiet
  /\ finish[t] = "finalizing"
  /\ FinishTurnEnds(t)
  /\ UNCHANGED <<device, active, watchdogTask, running, start, watching,
                 ws, connectLock, overwritten>>

\* The reply was spoken, timed out or failed.
AgentEnds(t) ==
  /\ Quiet
  /\ finish[t] = "agent"
  /\ EndRun(t)
  /\ UNCHANGED <<device, active, watchdogTask, running, start, watching,
                 stt, overwritten>>

\* A task that is cancelled no longer waits for the lock.
LeaveLock(t) ==
  \/ ~Contains(connectLock, Finisher(t)) /\ UNCHANGED connectLock
  \/ \E i \in DOMAIN connectLock :
       connectLock[i] = Finisher(t) /\ connectLock' = RemoveAt(connectLock, i)

\* CancelledError in the response task: finish_turn's own finally clause, then
\* abort_turn, then the finally clause. A second one cuts the close short.
Interrupt(t) ==
  LET turn == IF finish[t] \in {"sending", "finalizing"} THEN None ELSE sttTurn
  IN  /\ LeaveLock(t)
      /\ IF finish[t] = "aborting"
         THEN ws' = "none" /\ UNCHANGED sttTurn /\ EndRun(t)
         ELSE /\ abort_turn(turn)
              /\ IF ReturnsAtOnce(turn)
                 THEN EndRun(t)
                 ELSE At(t, "aborting") /\ UNCHANGED <<runEnds, responseTask>>

-----------------------------------------------------------------------------
(* handle_start, from await to await *)

HandleStart ==
  /\ Quiet
  /\ starts < MaxStarts
  /\ starts' = starts + 1
  /\ Go(starts', IF active # None THEN "supersede" ELSE "cancel")
  /\ running' = starts'
  /\ UNCHANGED <<stops, faults, runtime, finish, watching, stt, runEnds, overwritten>>

Runs(u, p) == running = u /\ start[u].phase = p

Supersede(u) ==
  /\ Runs(u, "supersede")
  /\ TakeTurn
  /\ watching' = watching \ {watchdogTask}
  /\ FinishAborted(active)
  /\ IF ReturnsAtOnce(sttTurn)
     THEN Go(u, "cancel") /\ UNCHANGED running
     ELSE start' = [start EXCEPT ![u] = Phase("superseding", active)] /\ running' = None
  /\ UNCHANGED <<device, overwritten>>

\* _cancel_watchdog and _cancel_response_task.
CancelUnawaited(u) ==                                               \* mutant
  /\ Go(u, "install")
  /\ IF responseTask = None
     THEN UNCHANGED <<responseTask, finish, stt, runEnds>>
     ELSE Interrupt(responseTask)
  /\ UNCHANGED running

CancelResponse(u) ==
  IF responseTask = None
  THEN Go(u, "install") /\ UNCHANGED <<responseTask, running, finish, stt, runEnds>>
  ELSE /\ Interrupt(responseTask)
       /\ start' = [start EXCEPT ![u] = Phase("cancelling", responseTask)]
       /\ running' = None

Cancel(u) ==
  /\ Runs(u, "cancel")
  /\ watching' = watching \ {watchdogTask} /\ watchdogTask' = None
  /\ CancelResponse(u)
  /\ UNCHANGED <<device, active, overwritten>>

\* The response task has ended: abort_turn once more.
ResumeStart(u) ==
  /\ Quiet
  /\ start[u].phase = "cancelling" /\ finish[start[u].on] = "done"
  /\ abort_turn(sttTurn)
  /\ IF ReturnsAtOnce(sttTurn)
     THEN Go(u, "install") /\ running' = u
     ELSE Go(u, "clearing") /\ UNCHANGED running
  /\ UNCHANGED <<device, runtime, finish, watching, connectLock, runEnds, overwritten>>

Install(u) ==
  /\ Runs(u, "install")
  /\ overwritten' = overwritten \union ({active} \ {None})
  /\ active' = u
  /\ Go(u, "startTurn")
  /\ UNCHANGED <<device, responseTask, watchdogTask, running, finish, watching,
                 stt, runEnds>>

\* start_turn of the adapter: a lingering turn is aborted first.
StartTurn(u) ==
  /\ Runs(u, "startTurn")
  /\ IF sttTurn = None
     THEN UNCHANGED <<sttTurn, ws>>
     ELSE abort_turn(sttTurn)
  /\ IF sttTurn = None \/ ReturnsAtOnce(sttTurn)
     THEN Go(u, "connect") /\ UNCHANGED running
     ELSE Go(u, "resetting") /\ running' = None
  /\ UNCHANGED <<device, runtime, finish, watching, connectLock, runEnds, overwritten>>

UpUnwatched(u) ==                                                   \* mutant
  sttTurn' = u /\ Go(u, "up") /\ UNCHANGED <<watchdogTask, watching>>

\* The rest of handle_start. The watchdog of a turn that is over ends at once.
Up(u) ==
  /\ sttTurn' = u
  /\ watchdogTask' = u
  /\ watching' = IF active = u THEN watching \union {u} ELSE watching
  /\ Go(u, "up")

Connect(u) ==
  /\ Runs(u, "connect")
  /\ running' = None
  /\ IF ws = "open"
     THEN Up(u) /\ UNCHANGED connectLock
     ELSE /\ connectLock' = Append(connectLock, Starter(u))
          /\ Go(u, "connecting")
          /\ UNCHANGED <<sttTurn, watchdogTask, watching>>
  /\ UNCHANGED <<device, active, responseTask, finish, ws, runEnds,
                 overwritten>>

-----------------------------------------------------------------------------
(* The device, and the watchdogs *)

HandleStop(abort) ==
  /\ Quiet
  /\ stops < MaxStops
  /\ stops' = stops + 1
  /\ \/ /\ active = None
        /\ UNCHANGED <<active, responseTask, watchdogTask, finish, watching, stt,
                       runEnds>>
     \/ /\ active # None
        /\ TakeTurn
        /\ watching' = watching \ {watchdogTask}
        /\ IF abort THEN FinishAborted(active) ELSE FinishAnswered(active)
  /\ UNCHANGED <<starts, faults, running, start, overwritten>>

\* A time limit has passed when the watchdog of t wakes. It does not look
\* again whose turn it is that it finishes.
WatchdogFires(t) ==
  /\ Quiet
  /\ t \in watching
  /\ \/ /\ active = None
        /\ watching' = watching \ {t}
        /\ UNCHANGED <<runtime, finish, stt, runEnds>>
     \/ /\ active # None
        /\ TakeTurn
        /\ watching' = watching \ {t, watchdogTask}
        /\ FinishAnswered(active)
  /\ UNCHANGED <<device, running, start, overwritten>>

WatchdogLeaves(t) ==
  /\ Quiet
  /\ t \in watching
  /\ active # t
  /\ watching' = watching \ {t}
  /\ UNCHANGED <<device, runtime, running, start, finish, stt, runEnds, overwritten>>

\* A chunk of audio wants to be sent and finds no open socket.
AudioConnects ==
  /\ Quiet
  /\ active # None /\ sttTurn # None
  /\ ws # "open"
  /\ ~Contains(connectLock, Audio)
  /\ connectLock' = Append(connectLock, Audio)
  /\ UNCHANGED <<device, runtime, running, start, finish, watching, sttTurn, ws,
                 runEnds, overwritten>>

-----------------------------------------------------------------------------
(* Sockets *)

\* A start whose response task has ended resumes before the network answers.
Settled == Quiet /\ \A u \in Turns :
  ~(start[u].phase = "cancelling" /\ finish[start[u].on] = "done")

\* The holder of the lock is connected, or finds that the one before it was.
Connected ==
  /\ Settled
  /\ connectLock # <<>>
  /\ connectLock' = Tail(connectLock)
  /\ ws' = "open"
  /\ LET next == Head(connectLock)
     IN  CASE next.task = "start" -> Up(next.turn) /\ UNCHANGED finish
           [] next.task = "finish" ->
                /\ At(next.turn, "finalizing")
                /\ UNCHANGED <<sttTurn, watchdogTask, watching, start>>
           [] next.task = "audio" ->
                UNCHANGED <<sttTurn, watchdogTask, watching, start, finish>>
  /\ UNCHANGED <<device, active, responseTask, running, runEnds, overwritten>>

\* handle_start fails with its turn installed; _finish_turn reports an error.
Refused ==
  /\ Settled
  /\ connectLock # <<>> /\ ws # "open"
  /\ faults < MaxFaults /\ faults' = faults + 1
  /\ connectLock' = Tail(connectLock)
  /\ LET next == Head(connectLock)
     IN  CASE next.task = "start" ->
                Go(next.turn, "failed") /\ UNCHANGED <<sttTurn, finish, runEnds, responseTask>>
           [] next.task = "finish" ->
                FinishTurnEnds(next.turn) /\ UNCHANGED start
           [] next.task = "audio" ->
                UNCHANGED <<sttTurn, start, finish, runEnds, responseTask>>
  /\ UNCHANGED <<starts, stops, active, watchdogTask, running, watching,
                 ws, overwritten>>

Dropped ==
  /\ Settled
  /\ ws = "open"
  /\ faults < MaxFaults /\ faults' = faults + 1
  /\ ws' = "none"
  /\ UNCHANGED <<starts, stops, runtime, running, start, finish, watching, sttTurn,
                 connectLock, runEnds, overwritten>>

\* _disconnect goes on after the close: whatever socket is there by now is
\* forgotten.
ResetAfterClose(t) ==                                               \* mutant
  /\ Settled
  /\ finish[t] \in {"closing", "aborting"}
  /\ ws' = "none" /\ sttTurn' = None
  /\ EndRun(t)
  /\ UNCHANGED <<device, active, watchdogTask, running, start, watching,
                 connectLock, overwritten>>

FinishCloses(t) ==
  /\ Settled
  /\ finish[t] \in {"closing", "aborting"}
  /\ ws' = "none"
  /\ EndRun(t)
  /\ IF \E u \in Turns : start[u] = Phase("superseding", t)
     THEN LET u == CHOOSE u \in Turns : start[u] = Phase("superseding", t)
          IN  Go(u, "cancel") /\ running' = u
     ELSE UNCHANGED <<start, running>>
  /\ UNCHANGED <<device, active, watchdogTask, watching, sttTurn,
                 connectLock, overwritten>>

StartCloses(u) ==
  /\ Settled
  /\ start[u].phase \in {"clearing", "resetting"}
  /\ ws' = "none"
  /\ Go(u, IF start[u].phase = "clearing" THEN "install" ELSE "connect")
  /\ running' = u
  /\ UNCHANGED <<device, runtime, finish, watching, sttTurn, connectLock, runEnds,
                 overwritten>>

-----------------------------------------------------------------------------
Starting(u) ==
  Supersede(u) \/ Cancel(u) \/ ResumeStart(u) \/ Install(u) \/ StartTurn(u) \/ Connect(u)

Next ==
  \/ HandleStart \/ \E abort \in BOOLEAN : HandleStop(abort)
  \/ AudioConnects
  \/ \E t \in Turns :
       \/ Starting(t) \/ StartCloses(t)
       \/ FinalizeEnds(t) \/ AgentEnds(t) \/ FinishCloses(t)
       \/ WatchdogFires(t) \/ WatchdogLeaves(t)
  \/ Connected \/ Refused \/ Dropped

Spec == Init /\ [][Next]_vars

Fairness ==
  /\ WF_vars(Connected \/ Refused)
  /\ \A t \in Turns :
       /\ WF_vars(Starting(t)) /\ WF_vars(StartCloses(t))
       /\ WF_vars(FinalizeEnds(t) \/ AgentEnds(t) \/ FinishCloses(t))
       /\ WF_vars(WatchdogFires(t))

FairSpec == Spec /\ Fairness

-----------------------------------------------------------------------------
(* Properties *)

Pipeline == {t \in Turns : finish[t] \in {"sending", "finalizing", "agent", "aborting"}}

StartPhases ==
  {"none", "supersede", "superseding", "cancel", "cancelling", "clearing",
   "install", "startTurn", "resetting", "connect", "connecting", "up", "failed"}

TypeOK ==
  /\ active \in {None} \union Turns
  /\ responseTask \in {None} \union Turns
  /\ watchdogTask \in {None} \union Turns
  /\ running \in {None} \union Turns
  /\ start \in [Turns -> [phase : StartPhases, on : {None} \union Turns]]
  /\ finish \in [Turns -> {"none", "closing", "sending", "finalizing", "agent",
                            "aborting", "done"}]
  /\ watching \subseteq Turns
  /\ sttTurn \in {None} \union Turns
  /\ ws \in {"none", "open", "closing"}
  /\ connectLock \in Seq({Audio} \union {Starter(t) : t \in Turns}
                                \union {Finisher(t) : t \in Turns})
  /\ runEnds \in [Turns -> Nat] /\ overwritten \subseteq Turns

\* The device's stop, the next start and the watchdog race to end a turn: one
\* of them takes it, and the device is told of its end once.
RunEndsOnce == \A t \in Turns : runEnds[t] <= 1

\* While a turn is recorded, no reply to an earlier one is still being
\* prepared or spoken, although starts, stops and time limits may all have
\* come while the earlier one was being cancelled.
NewTurnFindsSilence == active # None => Pipeline = {}

\* Once a start has succeeded the recogniser collects words as long as its
\* turn is recorded: no abort or finish of another turn, however late, and no
\* other start takes that away.
TurnIsCollected == active # None /\ start[active].phase = "up" => sttTurn # None

\* The device is told of the end of every turn that was installed, also when
\* it never sends a stop; except for one whose start failed at the
\* recogniser, and one that a start overlapping with its own has overwritten.
TurnsEnd ==
  \A t \in Turns :
    active = t ~> (runEnds[t] > 0 \/ t \in overwritten \/ start[t].phase = "failed")
=============================================================================
