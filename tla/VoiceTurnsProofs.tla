-------------------------- MODULE VoiceTurnsProofs --------------------------
(***************************************************************************)
(* Proofs about VoiceTurns, for any number of starts, stops and faults:    *)
(* its three safety properties, from one inductive invariant.              *)
(***************************************************************************)
EXTENDS VoiceTurns, SequenceTheorems, TLAPS

\* Who waits in the lock.
Waiters == {Audio} \union {Starter(t) : t \in Turns} \union {Finisher(t) : t \in Turns}

\* The types, variable by variable.
TaskTypes ==
  /\ active \in {None} \union Turns /\ responseTask \in {None} \union Turns
  /\ watchdogTask \in {None} \union Turns /\ running \in {None} \union Turns
  /\ sttTurn \in {None} \union Turns /\ ws \in {"none", "open", "closing"}
  /\ watching \subseteq Turns /\ overwritten \subseteq Turns
StartTypes == start \in [Turns -> [phase : StartPhases, on : {None} \union Turns]]
FinishPhases ==
  {"none", "closing", "sending", "finalizing", "agent", "aborting", "done"}
FinishTypes == finish \in [Turns -> FinishPhases]
EndTypes == runEnds \in [Turns -> Nat]
LockTypes == connectLock \in Seq(Waiters)

\* A turn's end is reported when, and only when, it is finished.
Ends == \A t \in Turns : runEnds[t] = IF finish[t] = "done" THEN 1 ELSE 0

\* A turn is not finished before it is recorded, nor while it is.
Early == {"none", "supersede", "superseding", "cancel", "cancelling", "install"}
Fresh ==
  /\ starts \in Nat
  /\ \A u \in Turns :
       /\ start[u].phase \in Early => finish[u] = "none" /\ active # u
       /\ start[u].phase # "none" => u <= starts
       /\ start[u].phase # "clearing"
       /\ active = u => finish[u] = "none"

\* The response task is the one reply under way; there is none while a turn is
\* recorded.
Busy == {"sending", "finalizing", "agent", "aborting"}
Replying ==
  /\ \A t \in Turns : finish[t] \in Busy <=> responseTask = t
  /\ active # None => responseTask = None

\* A task that finishes a turn waits for the lock at most once.
Held(lock, st, fin) ==
  /\ \A i \in 1..Len(lock), t \in Turns :
       /\ lock[i] = Starter(t) => st[t].phase # "none"
       /\ lock[i] = Finisher(t) => fin[t] = "sending"
  /\ \A i, j \in 1..Len(lock), t \in Turns :
       lock[i] = Finisher(t) /\ lock[j] = Finisher(t) => i = j
Lock == Held(connectLock, start, finish)

\* A start that waits for the end of a reply finds, when it has ended, nothing
\* to abort, although other starts and stops came in between: whoever records
\* meanwhile has no words yet.
Deaf ==
  active = None \/ sttTurn = None \/ (running # None /\ start[running].phase = "startTurn")
Waiting ==
  \A u \in Turns : start[u].phase = "cancelling" =>
    /\ start[u].on \in Turns /\ finish[start[u].on] \in {"aborting", "done"}
    /\ finish[start[u].on] = "done" =>
         responseTask = None /\ ReturnsAtOnce(sttTurn) /\ ws # "open" /\ Deaf

\* What a start knows while it runs without an await.
Runner ==
  running # None =>
    /\ start[running].phase = "supersede" => active # None
    /\ start[running].phase = "install" => responseTask = None
    /\ start[running].phase = "startTurn" => active = running

IInv ==
  /\ TaskTypes /\ StartTypes /\ FinishTypes /\ EndTypes /\ LockTypes
  /\ Ends /\ Fresh /\ Replying /\ Lock /\ Waiting /\ Runner /\ TurnIsCollected

-----------------------------------------------------------------------------
LEMMA Numbers == None \notin Turns /\ Turns \subseteq Nat
BY RuntimeAssumption DEF Turns, None

LEMMA WaiterKinds ==
  /\ Audio \in Waiters
  /\ \A t \in Turns : Starter(t) \in Waiters /\ Finisher(t) \in Waiters
  /\ \A t, u \in Turns :
       /\ Starter(t) # Finisher(u) /\ Audio # Starter(t) /\ Audio # Finisher(t)
       /\ Starter(t) = Starter(u) => t = u
       /\ Finisher(t) = Finisher(u) => t = u
<1>1. \A t \in Turns : /\ Starter(t).task = "start" /\ Starter(t).turn = t
                       /\ Finisher(t).task = "finish" /\ Finisher(t).turn = t
  BY DEF Starter, Finisher
<1>2. Audio.task = "audio"
  BY DEF Audio
<1>3. QED
  BY <1>1, <1>2 DEF Waiters

\* l without its i-th element is m.
Without(l, i, m) ==
  /\ m \in Seq(Waiters) /\ Len(m) = Len(l) - 1
  /\ \A j \in 1..Len(m) : m[j] = IF j < i THEN l[j] ELSE l[j + 1]

LEMMA TailIsWithout ==
  ASSUME NEW l \in Seq(Waiters), l # <<>>
  PROVE  1 \in 1..Len(l) /\ Without(l, 1, Tail(l)) /\ Head(l) = l[1] /\ l[1] \in Waiters
BY DEF Without

LEMMA RemoveAtIsWithout ==
  ASSUME NEW l \in Seq(Waiters), NEW i \in 1..Len(l)
  PROVE  Without(l, i, RemoveAt(l, i))
<1> DEFINE a == SubSeq(l, 1, i - 1)
           b == SubSeq(l, i + 1, Len(l))
<1>1. /\ a \in Seq(Waiters) /\ Len(a) = i - 1
      /\ \A j \in 1..(i - 1) : a[j] = l[j]
  BY SubSeqProperties
<1>2. /\ b \in Seq(Waiters) /\ Len(b) = Len(l) - i
      /\ \A j \in 1..(Len(l) - i) : b[j] = l[i + j]
  BY SubSeqProperties
<1> HIDE DEF a, b
<1>3. /\ a \o b \in Seq(Waiters) /\ Len(a \o b) = Len(l) - 1
      /\ \A j \in 1..(Len(l) - 1) : (a \o b)[j] = IF j <= Len(a) THEN a[j] ELSE b[j - Len(a)]
  <2>1. Len(a) + Len(b) = Len(l) - 1
    BY <1>1, <1>2
  <2>2. /\ a \o b \in Seq(Waiters) /\ Len(a \o b) = Len(a) + Len(b)
        /\ \A j \in 1..(Len(a) + Len(b)) :
             (a \o b)[j] = IF j <= Len(a) THEN a[j] ELSE b[j - Len(a)]
    BY <1>1, <1>2, ConcatProperties
  <2>3. QED
    BY <2>1, <2>2
<1>4. \A j \in 1..(Len(l) - 1) : (a \o b)[j] = IF j < i THEN l[j] ELSE l[j + 1]
  BY <1>1, <1>2, <1>3
<1>5. QED
  BY <1>3, <1>4 DEF Without, RemoveAt, a, b

\* How the lock changes: a start is numbered once it begins, and who leaves the
\* lock no longer sends.
Named == \A t \in Turns : start[t].phase # "none" => start'[t].phase # "none"
LockKept ==
  /\ UNCHANGED connectLock
  /\ \A t \in Turns : finish[t] = "sending" => finish'[t] = "sending"
LockGrew(w) ==
  /\ connectLock' = Append(connectLock, w)
  /\ \A t \in Turns :
       /\ finish[t] = "sending" => finish'[t] = "sending"
       /\ w = Starter(t) => start'[t].phase # "none"
       /\ w = Finisher(t) => finish[t] # "sending" /\ finish'[t] = "sending"
LockShrank(i) ==
  /\ Without(connectLock, i, connectLock')
  /\ \A t \in Turns :
       finish[t] = "sending" /\ connectLock[i] # Finisher(t) => finish'[t] = "sending"

LEMMA LockStays ==
  ASSUME LockTypes, Lock, Named, LockKept
  PROVE  LockTypes' /\ Lock'
BY DEF LockTypes, Lock, Held, Named, LockKept

LEMMA LockGrows ==
  ASSUME LockTypes, Lock, Named, NEW w \in Waiters, LockGrew(w)
  PROVE  LockTypes' /\ Lock'
<1> DEFINE l == connectLock
           m == Append(l, w)
<1>1. /\ l \in Seq(Waiters) /\ m \in Seq(Waiters) /\ Len(m) = Len(l) + 1 /\ Len(l) \in Nat
      /\ m[Len(l) + 1] = w /\ \A i \in 1..Len(l) : m[i] = l[i]
      /\ \A i \in 1..Len(m) : i \in 1..Len(l) \/ i = Len(l) + 1
  BY DEF LockTypes
<1>2. connectLock' = m
  BY DEF LockGrew
<1> HIDE DEF m
<1>3. ASSUME NEW i \in 1..Len(m), NEW t \in Turns
      PROVE  /\ m[i] = Starter(t) => start'[t].phase # "none"
             /\ m[i] = Finisher(t) => finish'[t] = "sending"
  <2>1. CASE i = Len(l) + 1
    BY <1>1, <2>1 DEF LockGrew
  <2>2. CASE i \in 1..Len(l)
    BY <1>1 DEF LockGrew, Lock, Held, Named
  <2>3. QED
    BY <1>1, <2>1, <2>2
<1>4. ASSUME NEW i \in 1..Len(m), NEW j \in 1..Len(m), NEW t \in Turns,
             m[i] = Finisher(t), m[j] = Finisher(t)
      PROVE  i = j
  <2>1. CASE w = Finisher(t)
    <3>1. \A k \in 1..Len(l) : l[k] # Finisher(t)
      BY <2>1 DEF LockGrew, Lock, Held
    <3>2. QED
      BY <1>1, <1>4, <3>1
  <2>2. CASE w # Finisher(t)
    <3>1. i \in 1..Len(l) /\ j \in 1..Len(l)
      BY <1>1, <1>4, <2>2
    <3>2. QED
      BY <1>1, <1>4, <3>1 DEF Lock, Held
  <2>3. QED
    BY <2>1, <2>2
<1>5. Held(m, start', finish')
  BY <1>3, <1>4 DEF Held
<1>6. QED
  BY <1>1, <1>2, <1>5 DEF LockTypes, Lock

LEMMA LockShrinks ==
  ASSUME LockTypes, Lock, Named, NEW i \in 1..Len(connectLock), LockShrank(i)
  PROVE  LockTypes' /\ Lock'
<1>0. PICK l \in Seq(Waiters) : l = connectLock
  BY DEF LockTypes
<1>1. PICK m \in Seq(Waiters) : m = connectLock'
  BY DEF LockShrank, Without
<1>2. /\ i \in 1..Len(l) /\ Len(m) = Len(l) - 1 /\ Len(l) \in Nat
      /\ \A j \in 1..Len(m) : m[j] = IF j < i THEN l[j] ELSE l[j + 1]
  BY <1>0, <1>1 DEF LockShrank, Without
<1>3. ASSUME NEW j \in 1..Len(m)
      PROVE  \E k \in 1..Len(l) : /\ k = IF j < i THEN j ELSE j + 1
                                  /\ k # i /\ m[j] = l[k]
  <2>1. CASE j < i
    <3>1. j \in 1..Len(l) /\ j # i /\ m[j] = l[j]
      BY <1>2, <2>1
    <3>2. QED
      BY <2>1, <3>1
  <2>2. CASE ~(j < i)
    <3>1. j + 1 \in 1..Len(l) /\ j + 1 # i /\ m[j] = l[j + 1]
      BY <1>2, <2>2
    <3>2. QED
      BY <2>2, <3>1
  <2>3. QED
    BY <2>1, <2>2
<1>4. ASSUME NEW j \in 1..Len(m), NEW t \in Turns
      PROVE  /\ m[j] = Starter(t) => start'[t].phase # "none"
             /\ m[j] = Finisher(t) => finish'[t] = "sending"
  <2>1. PICK k \in 1..Len(l) : k # i /\ m[j] = l[k]
    BY <1>3
  <2>2. l[k] = Finisher(t) => finish[t] = "sending" /\ l[i] # Finisher(t)
    BY <1>0, <1>2, <2>1 DEF Lock, Held
  <2>3. l[k] = Starter(t) => start'[t].phase # "none"
    BY <1>0 DEF Lock, Held, Named
  <2>4. QED
    BY <1>0, <2>1, <2>2, <2>3 DEF LockShrank
<1>5. ASSUME NEW j \in 1..Len(m), NEW k \in 1..Len(m), NEW t \in Turns,
             m[j] = Finisher(t), m[k] = Finisher(t)
      PROVE  j = k
  <2>1. PICK a \in 1..Len(l) : a = (IF j < i THEN j ELSE j + 1) /\ m[j] = l[a] /\ a # i
    BY <1>3
  <2>2. PICK b \in 1..Len(l) : b = (IF k < i THEN k ELSE k + 1) /\ m[k] = l[b] /\ b # i
    BY <1>3
  <2>3. a = b
    BY <1>0, <1>5, <2>1, <2>2 DEF Lock, Held
  <2>4. QED
    BY <2>1, <2>2, <2>3
<1>6. Held(m, start', finish')
  BY <1>4, <1>5 DEF Held
<1>7. QED
  BY <1>1, <1>6 DEF LockTypes, Lock, Held


\* A connection is there for a start, for a task that finishes a turn, for audio.
ForStarter(t) ==
  /\ Head(connectLock) = Starter(t) /\ Up(t) /\ UNCHANGED finish
ForFinisher(t) ==
  /\ Head(connectLock) = Finisher(t) /\ At(t, "finalizing")
  /\ UNCHANGED <<sttTurn, watchdogTask, watching, start>>
ForAudio ==
  /\ Head(connectLock) = Audio
  /\ UNCHANGED <<sttTurn, watchdogTask, watching, start, finish>>
Opens ==
  /\ Settled /\ connectLock # <<>> /\ connectLock' = Tail(connectLock) /\ ws' = "open"
  /\ UNCHANGED <<device, active, responseTask, running, runEnds, overwritten>>

LEMMA ConnectedIsFor ==
  ASSUME LockTypes, Connected
  PROVE  Opens /\ (ForAudio \/ \E t \in Turns : ForStarter(t) \/ ForFinisher(t))
<1> DEFINE w == Head(connectLock)
<1>1. connectLock # <<>> /\ w \in Waiters
  BY TailIsWithout DEF Connected, LockTypes
<1>2. CASE w = Audio
  <2>1. w.task = "audio"
    BY <1>2 DEF Audio
  <2>2. QED
    BY <1>2, <2>1 DEF Connected, Opens, ForAudio
<1>3. ASSUME NEW t \in Turns, w = Starter(t) PROVE Opens /\ ForStarter(t)
  <2>1. w.task = "start" /\ w.turn = t
    BY <1>3 DEF Starter
  <2>2. QED
    BY <1>3, <2>1 DEF Connected, Opens, ForStarter
<1>4. ASSUME NEW t \in Turns, w = Finisher(t) PROVE Opens /\ ForFinisher(t)
  <2>1. w.task = "finish" /\ w.turn = t
    BY <1>4 DEF Finisher
  <2>2. QED
    BY <1>4, <2>1 DEF Connected, Opens, ForFinisher
<1>5. QED
  BY <1>1, <1>2, <1>3, <1>4 DEF Waiters

\* A refusal likewise.
RefusedStarter(t) ==
  /\ Head(connectLock) = Starter(t)
  /\ Go(t, "failed") /\ UNCHANGED <<sttTurn, finish, runEnds, responseTask>>
RefusedFinisher(t) ==
  /\ Head(connectLock) = Finisher(t) /\ FinishTurnEnds(t) /\ UNCHANGED start
RefusedAudio ==
  /\ Head(connectLock) = Audio
  /\ UNCHANGED <<sttTurn, start, finish, runEnds, responseTask>>
Refuses ==
  /\ Settled /\ connectLock # <<>> /\ connectLock' = Tail(connectLock)
  /\ UNCHANGED <<starts, stops, active, watchdogTask, running, watching, ws, overwritten>>

LEMMA RefusedIsFor ==
  ASSUME LockTypes, Refused
  PROVE  Refuses /\ (RefusedAudio \/ \E t \in Turns : RefusedStarter(t) \/ RefusedFinisher(t))
<1> DEFINE w == Head(connectLock)
<1>1. connectLock # <<>> /\ w \in Waiters
  BY TailIsWithout DEF Refused, LockTypes
<1>2. CASE w = Audio
  <2>1. w.task = "audio"
    BY <1>2 DEF Audio
  <2>2. QED
    BY <1>2, <2>1 DEF Refused, Refuses, RefusedAudio
<1>3. ASSUME NEW t \in Turns, w = Starter(t) PROVE Refuses /\ RefusedStarter(t)
  <2>1. w.task = "start" /\ w.turn = t
    BY <1>3 DEF Starter
  <2>2. QED
    BY <1>3, <2>1 DEF Refused, Refuses, RefusedStarter
<1>4. ASSUME NEW t \in Turns, w = Finisher(t) PROVE Refuses /\ RefusedFinisher(t)
  <2>1. w.task = "finish" /\ w.turn = t
    BY <1>4 DEF Finisher
  <2>2. QED
    BY <1>4, <2>1 DEF Refused, Refuses, RefusedFinisher
<1>5. QED
  BY <1>1, <1>2, <1>3, <1>4 DEF Waiters

\* A socket that is closed: nobody waits for that, or a start does.
ClosesAlone(t) ==
  /\ Settled /\ finish[t] \in {"closing", "aborting"} /\ ws' = "none" /\ EndRun(t)
  /\ UNCHANGED <<start, running>>
  /\ UNCHANGED <<device, active, watchdogTask, watching, sttTurn, connectLock, overwritten>>
ClosesFor(t, u) ==
  /\ Settled /\ finish[t] \in {"closing", "aborting"} /\ ws' = "none" /\ EndRun(t)
  /\ start[u] = Phase("superseding", t) /\ Go(u, "cancel") /\ running' = u
  /\ UNCHANGED <<device, active, watchdogTask, watching, sttTurn, connectLock, overwritten>>

LEMMA FinishClosesFor ==
  ASSUME NEW t \in Turns, FinishCloses(t)
  PROVE  ClosesAlone(t) \/ \E u \in Turns : ClosesFor(t, u)
<1>1. CASE \E u \in Turns : start[u] = Phase("superseding", t)
  <2> DEFINE u == CHOOSE u \in Turns : start[u] = Phase("superseding", t)
  <2>1. u \in Turns /\ start[u] = Phase("superseding", t)
    BY <1>1
  <2>2. Go(u, "cancel") /\ running' = u
    BY <1>1 DEF FinishCloses
  <2> HIDE DEF u
  <2>3. ClosesFor(t, u)
    BY <2>1, <2>2 DEF FinishCloses, ClosesFor
  <2>4. QED
    BY <2>1, <2>3
<1>2. CASE ~\E u \in Turns : start[u] = Phase("superseding", t)
  BY <1>2 DEF FinishCloses, ClosesAlone
<1>3. QED
  BY <1>1, <1>2

\* What cancelling the response task does: its run ends, or its socket closes
\* first. Either way nothing is left to abort.
Interrupted(t) ==
  /\ \/ ~Contains(connectLock, Finisher(t)) /\ UNCHANGED connectLock
     \/ \E i \in DOMAIN connectLock :
          connectLock[i] = Finisher(t) /\ connectLock' = RemoveAt(connectLock, i)
  /\ sttTurn' \in {sttTurn, None} /\ ws' \in {ws, "closing", "none"}
  /\ \/ At(t, "aborting") /\ UNCHANGED <<runEnds, responseTask>>
     \/ EndRun(t) /\ ReturnsAtOnce(sttTurn)' /\ ws' # "open"

LEMMA InterruptInterrupts ==
  ASSUME NEW t \in Turns, Interrupt(t)
  PROVE  Interrupted(t)
<1>1. CASE finish[t] = "aborting"
  BY <1>1 DEF Interrupt, Interrupted, LeaveLock, ReturnsAtOnce
<1>2. CASE finish[t] # "aborting"
  BY DEF Interrupt, Interrupted, LeaveLock, abort_turn, ReturnsAtOnce,
         NothingToAbort
<1>3. QED
  BY <1>1, <1>2

CancelsNothing(u) ==
  /\ Runs(u, "cancel")
  /\ watching' = watching \ {watchdogTask} /\ watchdogTask' = None
  /\ responseTask = None /\ Go(u, "install")
  /\ UNCHANGED <<responseTask, running, finish, stt, runEnds>>
  /\ UNCHANGED <<device, active, overwritten>>
CancelsReply(u, t) ==
  /\ Runs(u, "cancel")
  /\ watching' = watching \ {watchdogTask} /\ watchdogTask' = None
  /\ responseTask = t /\ Interrupted(t)
  /\ start' = [start EXCEPT ![u] = Phase("cancelling", t)] /\ running' = None
  /\ UNCHANGED <<device, active, overwritten>>

LEMMA CancelCancels ==
  ASSUME TaskTypes, NEW u \in Turns, Cancel(u)
  PROVE  CancelsNothing(u) \/ \E t \in Turns : CancelsReply(u, t)
<1>1. CASE responseTask = None
  BY <1>1 DEF Cancel, CancelResponse, CancelsNothing
<1>2. CASE responseTask # None
  BY <1>2, InterruptInterrupts DEF Cancel, CancelResponse, CancelsReply, TaskTypes
<1>3. QED
  BY <1>1, <1>2

LEMMA HandleStartStep ==
  ASSUME IInv, HandleStart
  PROVE  IInv'
<1>1. TaskTypes /\ StartTypes /\ FinishTypes /\ EndTypes /\ LockTypes
  BY DEF IInv
<1>2. Ends /\ Fresh /\ Replying /\ Waiting /\ Runner /\ TurnIsCollected
  BY DEF IInv
<1>a. PICK u \in Turns : u = starts + 1 /\ start[u].phase = "none"
  BY <1>2, RuntimeAssumption DEF HandleStart, Fresh, Turns
<1>3. FinishTypes' /\ EndTypes' /\ Ends' /\ Replying'
  BY <1>1, <1>2 DEF HandleStart, Quiet, Go, Phase, runtime, FinishTypes, EndTypes,
     Ends, Replying
<1>4. TaskTypes'
  BY <1>1, <1>2, <1>a, Numbers DEF HandleStart, runtime, stt, TaskTypes
<1>5. StartTypes'
  BY <1>1, <1>2, <1>a, Numbers DEF HandleStart, Quiet, Go, Phase, StartTypes,
     StartPhases
<1>6. Fresh'
  BY <1>1, <1>2, <1>a, Numbers DEF HandleStart, Quiet, Go, Phase, runtime, Fresh,
     Early
<1>7. Waiting'
  BY <1>1, <1>2, <1>a, Numbers DEF HandleStart, Quiet, Go, Phase, device, runtime,
     stt, TaskTypes, Waiting, Deaf, ReturnsAtOnce, NothingToAbort
<1>8. Runner'
  BY <1>1, <1>2, <1>a, Numbers DEF HandleStart, Quiet, Go, Phase, runtime, Runner
<1>9. TurnIsCollected'
  BY <1>1, <1>2, <1>a, Numbers DEF HandleStart, Quiet, Go, Phase, device, runtime,
     stt, TurnIsCollected
<1>10. Named
  BY <1>1, <1>a DEF HandleStart, Go, Named
<1>11. LockTypes' /\ Lock'
  <2>1. LockKept
    BY <1>1, <1>2, <1>a, Numbers DEF HandleStart, Quiet, stt, LockKept
  <2>2. QED
    BY <2>1, <1>10, LockStays DEF IInv
<1>12. QED
  BY <1>3, <1>4, <1>5, <1>6, <1>7, <1>8, <1>9, <1>11 DEF IInv

LEMMA SupersedeStep ==
  ASSUME IInv, NEW u \in Turns, Supersede(u)
  PROVE  IInv'
<1>1. TaskTypes /\ StartTypes /\ FinishTypes /\ EndTypes /\ LockTypes
  BY DEF IInv
<1>2. Ends /\ Fresh /\ Replying /\ Waiting /\ Runner /\ TurnIsCollected
  BY DEF IInv
<1>a. \/ active = None
      \/ active \in Turns /\ finish[active] = "none" /\ runEnds[active] = 0
  <2>1. active = None \/ active \in Turns
    BY <1>1 DEF TaskTypes
  <2>2. CASE active \in Turns
    BY <1>2, <2>2 DEF Fresh, Ends
  <2>3. QED
    BY <2>1, <2>2
<1>3. TaskTypes'
  BY <1>1, <1>2, <1>a, Numbers DEF Supersede, Runs, TakeTurn, FinishAborted,
     abort_turn, TaskTypes
<1>4. StartTypes'
  BY <1>1, <1>2, <1>a, Numbers DEF Supersede, Runs, TakeTurn, FinishAborted,
     abort_turn, At, Go, Phase, StartTypes, StartPhases
<1>5. FinishTypes'
  BY <1>1, <1>2, <1>a, Numbers DEF Supersede, Runs, TakeTurn, FinishAborted, At,
     FinishTypes, FinishPhases
<1>6. EndTypes'
  BY <1>1, <1>2, <1>a, Numbers DEF Supersede, Runs, TakeTurn, FinishAborted,
     RunEnd, EndTypes
<1>7. Ends'
  BY <1>1, <1>2, <1>a, Numbers DEF Supersede, Runs, TakeTurn, FinishAborted,
     abort_turn, At, RunEnd, Go, FinishTypes, Ends, EndTypes
<1>8. Fresh'
  BY <1>1, <1>2, <1>a, Numbers DEF Supersede, Runs, TakeTurn, FinishAborted,
     abort_turn, At, RunEnd, Go, Phase, device, StartTypes, FinishTypes, Fresh,
     Early
<1>9. Replying'
  BY <1>1, <1>2, <1>a, Numbers DEF Supersede, Runs, TakeTurn, FinishAborted,
     abort_turn, At, FinishTypes, Replying, Busy
<1>10. Waiting'
  <2> SUFFICES ASSUME NEW v \in Turns, start'[v].phase = "cancelling"
               PROVE  LET t == start'[v].on
                      IN  /\ t \in Turns /\ finish'[t] \in {"aborting", "done"}
                          /\ finish'[t] = "done" =>
                               /\ responseTask' = None /\ ReturnsAtOnce(sttTurn)'
                               /\ ws' # "open" /\ Deaf'
    BY DEF Waiting
  <2>1. v # u /\ start'[v] = start[v]
    BY <1>1 DEF Supersede, Go, Phase, StartTypes
  <2>2. PICK t \in Turns : t = start[v].on /\ finish[t] \in {"aborting", "done"}
    BY <1>2, <2>1 DEF Waiting
  <2>3. active \in Turns /\ active # t /\ responseTask = None /\ active' = None
    BY <1>1, <1>2, <1>a, <2>2, Numbers DEF Runner, Replying, Supersede, Runs,
       TakeTurn
  <2>4. finish'[t] = finish[t] /\ responseTask' = None
    BY <1>1, <2>3 DEF Supersede, FinishAborted, At, FinishTypes
  <2>5. finish[t] = "done" => ReturnsAtOnce(sttTurn)' /\ ws' # "open"
    BY DEF Supersede, FinishAborted, abort_turn, ReturnsAtOnce, NothingToAbort
  <2>6. QED
    BY <2>1, <2>2, <2>3, <2>4, <2>5 DEF Deaf
<1>11. Runner'
  BY <1>1, <1>2, <1>a, Numbers DEF Supersede, Runs, TakeTurn, FinishAborted,
     abort_turn, At, RunEnd, Go, Phase, device, StartTypes, Runner
<1>12. TurnIsCollected'
  BY <1>1, <1>2, <1>a, Numbers DEF Supersede, Runs, TakeTurn, FinishAborted,
     TurnIsCollected
<1>13. Named
  BY <1>1, <1>a, Numbers DEF Supersede, Runs, TakeTurn, Go, Phase, StartTypes,
     Named
<1>14. LockTypes' /\ Lock'
  <2>1. LockKept
    BY <1>1, <1>2, <1>a, Numbers DEF Supersede, Runs, TakeTurn, FinishAborted,
       abort_turn, At, FinishTypes, LockKept
  <2>2. QED
    BY <2>1, <1>13, LockStays DEF IInv
<1>15. QED
  BY <1>3, <1>4, <1>5, <1>6, <1>7, <1>8, <1>9, <1>10, <1>11, <1>12, <1>14 DEF IInv

LEMMA CancelsNothingStep ==
  ASSUME IInv, NEW u \in Turns, CancelsNothing(u)
  PROVE  IInv'
<1>1. TaskTypes /\ StartTypes /\ FinishTypes /\ EndTypes /\ LockTypes
  BY DEF IInv
<1>2. Ends /\ Fresh /\ Replying /\ Waiting /\ Runner /\ TurnIsCollected
  BY DEF IInv
<1>3. FinishTypes' /\ EndTypes' /\ Ends' /\ Replying'
  BY <1>1, <1>2 DEF CancelsNothing, Runs, FinishTypes, EndTypes, Ends, Replying
<1>4. TaskTypes'
  BY <1>1, <1>2 DEF CancelsNothing, Runs, stt, TaskTypes
<1>5. StartTypes'
  BY <1>1, <1>2, Numbers DEF CancelsNothing, Go, Phase, StartTypes, StartPhases
<1>6. Fresh'
  BY <1>1, <1>2, Numbers DEF CancelsNothing, Runs, Go, Phase, device, Fresh, Early
<1>7. Waiting'
  BY <1>1, <1>2, Numbers DEF CancelsNothing, Runs, Go, Phase, device, stt,
     TaskTypes, Waiting, Deaf, ReturnsAtOnce, NothingToAbort
<1>8. Runner'
  BY <1>1, <1>2, Numbers DEF CancelsNothing, Runs, Go, Phase, Runner
<1>9. TurnIsCollected'
  BY <1>1, <1>2, Numbers DEF CancelsNothing, Runs, Go, Phase, device, stt,
     TurnIsCollected
<1>10. Named
  BY DEF CancelsNothing, Go, Phase, Named
<1>11. LockTypes' /\ Lock'
  <2>1. LockKept
    BY <1>1, <1>2, Numbers DEF CancelsNothing, stt, LockKept
  <2>2. QED
    BY <2>1, <1>10, LockStays DEF IInv
<1>12. QED
  BY <1>3, <1>4, <1>5, <1>6, <1>7, <1>8, <1>9, <1>11 DEF IInv

LEMMA CancelsReplyStep ==
  ASSUME IInv, NEW u \in Turns, NEW t \in Turns, CancelsReply(u, t)
  PROVE  IInv'
<1>1. TaskTypes /\ StartTypes /\ FinishTypes /\ EndTypes /\ LockTypes
  BY DEF IInv
<1>2. Ends /\ Fresh /\ Replying /\ Waiting /\ Runner /\ TurnIsCollected
  BY DEF IInv
<1>a. finish[t] \in Busy /\ runEnds[t] = 0 /\ active = None
  BY <1>2, Numbers DEF CancelsReply, Replying, Busy, Ends
<1>3. TaskTypes'
  BY <1>1, <1>2, <1>a, Numbers DEF CancelsReply, Interrupted, EndRun, TaskTypes
<1>4. StartTypes'
  BY <1>1, <1>2, <1>a, Numbers DEF CancelsReply, Interrupted, Phase, StartTypes,
     StartPhases
<1>5. FinishTypes'
  BY <1>1, <1>2, <1>a, Numbers DEF CancelsReply, Interrupted, EndRun, At,
     FinishTypes, FinishPhases
<1>6. EndTypes'
  BY <1>1, <1>2, <1>a, Numbers DEF CancelsReply, Interrupted, EndRun, RunEnd,
     EndTypes
<1>7. Ends'
  BY <1>1, <1>2, <1>a, Numbers DEF CancelsReply, Interrupted, Runs, EndRun, At,
     RunEnd, FinishTypes, Ends, EndTypes
<1>8. Fresh'
  BY <1>1, <1>2, <1>a, Numbers DEF CancelsReply, Interrupted, Runs, EndRun, At,
     RunEnd, Phase, device, FinishTypes, Fresh, Early, Busy
<1>9. Replying'
  BY <1>1, <1>2, <1>a, Numbers DEF CancelsReply, Interrupted, Runs, EndRun, At,
     RunEnd, FinishTypes, Replying, Busy
<1>10. Waiting'
  <2> SUFFICES ASSUME NEW v \in Turns, start'[v].phase = "cancelling"
               PROVE  /\ start'[v].on = t /\ finish'[t] \in {"aborting", "done"}
                      /\ finish'[t] = "done" =>
                           /\ responseTask' = None /\ ReturnsAtOnce(sttTurn)'
                           /\ ws' # "open" /\ Deaf'
    BY DEF Waiting
  <2>1. start'[v].on = t
    <3>1. CASE v = u
      BY <1>1, <3>1 DEF CancelsReply, Phase, StartTypes
    <3>2. CASE v # u
      <4>1. start'[v] = start[v]
        BY <1>1, <3>2 DEF CancelsReply, StartTypes
      <4>2. start[v].on \in Turns /\ responseTask = t
            /\ (finish[start[v].on] = "aborting" \/ responseTask = None)
        BY <1>2, <4>1 DEF Waiting, CancelsReply
      <4>3. QED
        BY <1>2, <4>1, <4>2, Numbers DEF Replying, Busy
    <3>3. QED
      BY <3>1, <3>2
  <2>2. active' = None /\ Interrupted(t) /\ responseTask = t
    BY <1>a DEF CancelsReply
  <2>3. QED
    BY <1>1, <2>1, <2>2 DEF Interrupted, At, EndRun, FinishTypes, Deaf
<1>11. Runner'
  BY <1>1, <1>2, <1>a, Numbers DEF CancelsReply, Interrupted, Runner
<1>12. TurnIsCollected'
  BY <1>1, <1>2, <1>a, Numbers DEF CancelsReply, Interrupted, Runs, EndRun,
     TurnIsCollected
<1>13. Named
  BY <1>1, <1>a DEF CancelsReply, Phase, Named
<1>14. LockTypes' /\ Lock'
  <2>1. \A x \in Turns : x # t => finish'[x] = finish[x]
    BY <1>1 DEF CancelsReply, Interrupted, EndRun, At, FinishTypes
  <2>2. CASE ~Contains(connectLock, Finisher(t)) /\ UNCHANGED connectLock
    <3>1. \A i \in 1..Len(connectLock) : connectLock[i] # Finisher(t)
      BY <1>1, <2>2 DEF Contains, LockTypes
    <3>2. connectLock' = connectLock
      BY <2>2
    <3>3. QED
      BY <2>1, <3>1, <3>2, <1>13 DEF IInv, LockTypes, Lock, Held, Named
  <2>3. ASSUME NEW i \in DOMAIN connectLock, connectLock[i] = Finisher(t),
               connectLock' = RemoveAt(connectLock, i)
        PROVE  LockTypes' /\ Lock'
    <3>1. i \in 1..Len(connectLock)
      BY <1>1, <2>3 DEF LockTypes
    <3>2. Without(connectLock, i, connectLock')
      BY <1>1, <2>3, <3>1, RemoveAtIsWithout DEF LockTypes
    <3>3. LockShrank(i)
      BY <2>1, <2>3, <3>2 DEF LockShrank
    <3>4. QED
      BY <3>1, <3>3, <1>13, LockShrinks DEF IInv
  <2>4. QED
    BY <2>2, <2>3 DEF CancelsReply, Interrupted
<1>15. QED
  BY <1>3, <1>4, <1>5, <1>6, <1>7, <1>8, <1>9, <1>10, <1>11, <1>12, <1>14 DEF IInv

LEMMA ResumeStartStep ==
  ASSUME IInv, NEW u \in Turns, ResumeStart(u)
  PROVE  IInv'
<1>1. TaskTypes /\ StartTypes /\ FinishTypes /\ EndTypes /\ LockTypes
  BY DEF IInv
<1>2. Ends /\ Fresh /\ Replying /\ Waiting /\ Runner /\ TurnIsCollected
  BY DEF IInv
<1>a. ReturnsAtOnce(sttTurn) /\ responseTask = None /\ Deaf /\ ws # "open"
  BY <1>1, <1>2 DEF ResumeStart, Waiting
<1>3. FinishTypes' /\ EndTypes' /\ Ends' /\ Replying'
  BY <1>1, <1>2 DEF ResumeStart, Quiet, abort_turn, Go, Phase, device, runtime,
     FinishTypes, EndTypes, Ends, Replying
<1>4. TaskTypes'
  BY <1>1, <1>2, <1>a, Numbers DEF ResumeStart, Quiet, abort_turn, runtime,
     TaskTypes
<1>5. StartTypes'
  BY <1>1, <1>2, <1>a, Numbers DEF ResumeStart, Quiet, Go, Phase, StartTypes,
     StartPhases
<1>6. Fresh'
  BY <1>1, <1>2, <1>a, Numbers DEF ResumeStart, Quiet, abort_turn, Go, Phase,
     device, runtime, StartTypes, Fresh, Early
<1>7. Waiting'
  BY <1>1, <1>2, <1>a, Numbers DEF ResumeStart, Quiet, abort_turn, Go, Phase,
     device, runtime, ReturnsAtOnce, NothingToAbort, StartTypes, Waiting, Deaf
<1>8. Runner'
  BY <1>1, <1>2, <1>a, Numbers DEF ResumeStart, Quiet, abort_turn, Go, Phase,
     device, runtime, StartTypes, Runner
<1>9. TurnIsCollected'
  BY <1>1, <1>2, <1>a, Numbers DEF ResumeStart, Quiet, abort_turn, Go, Phase,
     device, runtime, ReturnsAtOnce, NothingToAbort, TaskTypes, StartTypes,
     TurnIsCollected, Waiting, Deaf, Fresh, Early, Replying, Busy
<1>10. Named
  BY <1>1, <1>a, Numbers DEF ResumeStart, Go, Phase, StartTypes, Named
<1>11. LockTypes' /\ Lock'
  <2>1. LockKept
    BY <1>1, <1>2, <1>a, Numbers DEF ResumeStart, Quiet, LockKept
  <2>2. QED
    BY <2>1, <1>10, LockStays DEF IInv
<1>12. QED
  BY <1>3, <1>4, <1>5, <1>6, <1>7, <1>8, <1>9, <1>11 DEF IInv

LEMMA InstallStep ==
  ASSUME IInv, NEW u \in Turns, Install(u)
  PROVE  IInv'
<1>1. TaskTypes /\ StartTypes /\ FinishTypes /\ EndTypes /\ LockTypes
  BY DEF IInv
<1>2. Ends /\ Fresh /\ Replying /\ Waiting /\ Runner /\ TurnIsCollected
  BY DEF IInv
<1>3. FinishTypes' /\ EndTypes' /\ Ends'
  BY <1>1, <1>2 DEF Install, FinishTypes, EndTypes, Ends
<1>4. TaskTypes'
  BY <1>1, <1>2 DEF Install, Runs, stt, TaskTypes
<1>5. StartTypes'
  BY <1>1, <1>2, Numbers DEF Install, Go, Phase, StartTypes, StartPhases
<1>6. Fresh'
  BY <1>1, <1>2, Numbers DEF Install, Runs, Go, Phase, device, StartTypes, Fresh,
     Early
<1>7. Replying'
  BY <1>1, <1>2, Numbers DEF Install, Runs, Replying, Runner
<1>8. Waiting'
  BY <1>1, <1>2, Numbers DEF Install, Runs, Go, Phase, device, stt, TaskTypes,
     StartTypes, Waiting, Deaf, ReturnsAtOnce, NothingToAbort
<1>9. Runner'
  BY <1>1, <1>2, Numbers DEF Install, Runs, Go, Runner
<1>10. TurnIsCollected'
  BY <1>1, <1>2, Numbers DEF Install, Runs, Go, Phase, device, TurnIsCollected
<1>11. Named
  BY DEF Install, Go, Phase, Named
<1>12. LockTypes' /\ Lock'
  <2>1. LockKept
    BY <1>1, <1>2, Numbers DEF Install, stt, LockKept
  <2>2. QED
    BY <2>1, <1>11, LockStays DEF IInv
<1>13. QED
  BY <1>3, <1>4, <1>5, <1>6, <1>7, <1>8, <1>9, <1>10, <1>12 DEF IInv

LEMMA StartTurnStep ==
  ASSUME IInv, NEW u \in Turns, StartTurn(u)
  PROVE  IInv'
<1>1. TaskTypes /\ StartTypes /\ FinishTypes /\ EndTypes /\ LockTypes
  BY DEF IInv
<1>2. Ends /\ Fresh /\ Replying /\ Waiting /\ Runner /\ TurnIsCollected
  BY DEF IInv
<1>3. FinishTypes' /\ EndTypes' /\ Ends' /\ Replying'
  BY <1>1, <1>2 DEF StartTurn, Runs, abort_turn, Go, Phase, device, runtime,
     FinishTypes, EndTypes, Ends, Replying
<1>4. TaskTypes'
  BY <1>1, <1>2, Numbers DEF StartTurn, abort_turn, runtime, TaskTypes
<1>5. StartTypes'
  BY <1>1, <1>2, Numbers DEF StartTurn, Go, Phase, StartTypes, StartPhases
<1>6. Fresh'
  BY <1>1, <1>2, Numbers DEF StartTurn, Runs, abort_turn, Go, Phase, device,
     runtime, StartTypes, Fresh, Early
<1>7. Waiting'
  BY <1>1, <1>2, Numbers DEF StartTurn, Runs, abort_turn, Go, Phase, device,
     runtime, ReturnsAtOnce, NothingToAbort, StartTypes, Waiting, Deaf
<1>8. Runner'
  BY <1>1, <1>2, Numbers DEF StartTurn, Runs, abort_turn, Go, Phase, StartTypes,
     Runner
<1>9. TurnIsCollected'
  BY <1>1, <1>2, Numbers DEF StartTurn, Runs, abort_turn, Go, Phase, device,
     runtime, ReturnsAtOnce, NothingToAbort, StartTypes, TurnIsCollected, Runner
<1>10. Named
  BY <1>1, Numbers DEF StartTurn, Runs, Go, Phase, StartTypes, Named
<1>11. LockTypes' /\ Lock'
  <2>1. LockKept
    BY <1>1, <1>2, Numbers DEF StartTurn, LockKept
  <2>2. QED
    BY <2>1, <1>10, LockStays DEF IInv
<1>12. QED
  BY <1>3, <1>4, <1>5, <1>6, <1>7, <1>8, <1>9, <1>11 DEF IInv

LEMMA ConnectStep ==
  ASSUME IInv, NEW u \in Turns, Connect(u)
  PROVE  IInv'
<1>1. TaskTypes /\ StartTypes /\ FinishTypes /\ EndTypes /\ LockTypes
  BY DEF IInv
<1>2. Ends /\ Fresh /\ Replying /\ Waiting /\ Runner /\ TurnIsCollected
  BY DEF IInv
<1>3. FinishTypes' /\ EndTypes' /\ Ends' /\ Replying'
  BY <1>1, <1>2 DEF Connect, Runs, FinishTypes, EndTypes, Ends, Replying
<1>4. TaskTypes'
  <2>1. CASE ws = "open"
    BY <1>1 DEF Connect, Up, TaskTypes
  <2>2. CASE ws # "open"
    BY <1>1, <2>2 DEF Connect, device, TaskTypes
  <2>3. QED
    BY <2>1, <2>2
<1>5. StartTypes'
  BY <1>1, <1>2, Numbers DEF Connect, Up, Go, Phase, StartTypes, StartPhases
<1>6. Fresh'
  BY <1>1, <1>2, Numbers DEF Connect, Runs, Up, Go, Phase, device, StartTypes,
     Fresh, Early
<1>7. Waiting'
  BY <1>1, <1>2, Numbers DEF Connect, Runs, Up, Go, Phase, device, TaskTypes,
     StartTypes, Waiting, Deaf, ReturnsAtOnce, NothingToAbort
<1>8. Runner'
  BY <1>1, <1>2, Numbers DEF Connect, Runner
<1>9. TurnIsCollected'
  BY <1>1, <1>2, Numbers DEF Connect, Runs, Up, Go, Phase, TaskTypes, StartTypes,
     TurnIsCollected
<1>10. Named
  BY <1>1, Numbers DEF Connect, Runs, Up, Go, Phase, StartTypes, Named
<1>11. LockTypes' /\ Lock'
  <2>1. CASE UNCHANGED connectLock
    <3>1. LockKept
      BY <1>1, <1>2, <2>1, Numbers DEF Connect, LockKept
    <3>2. QED
      BY <3>1, <1>10, LockStays DEF IInv
  <2>2. CASE connectLock' = Append(connectLock, Starter(u))
    <3>1. Starter(u) \in Waiters
      BY <1>1, WaiterKinds, <2>2
    <3>2. connectLock' # connectLock
      <4>1. Len(connectLock') = Len(connectLock) + 1 /\ Len(connectLock) \in Nat
        BY <1>1, <2>2, <3>1 DEF LockTypes
      <4>2. QED
        BY <4>1
    <3>3. LockGrew(Starter(u))
      BY <1>1, <1>2, <2>2, <3>2, WaiterKinds, Numbers DEF Connect, Runs, Go,
         Phase, StartTypes, LockGrew
    <3>4. QED
      BY <3>1, <3>3, <1>10, LockGrows DEF IInv
  <2>3. QED
    BY <2>1, <2>2 DEF Connect
<1>12. QED
  BY <1>3, <1>4, <1>5, <1>6, <1>7, <1>8, <1>9, <1>11 DEF IInv

LEMMA HandleStopStep ==
  ASSUME IInv, NEW abort \in BOOLEAN, HandleStop(abort)
  PROVE  IInv'
<1>1. TaskTypes /\ StartTypes /\ FinishTypes /\ EndTypes /\ LockTypes
  BY DEF IInv
<1>2. Ends /\ Fresh /\ Replying /\ Waiting /\ Runner /\ TurnIsCollected
  BY DEF IInv
<1>a. \/ active = None
      \/ active \in Turns /\ finish[active] = "none" /\ runEnds[active] = 0
  <2>1. active = None \/ active \in Turns
    BY <1>1 DEF TaskTypes
  <2>2. CASE active \in Turns
    BY <1>2, <2>2 DEF Fresh, Ends
  <2>3. QED
    BY <2>1, <2>2
<1>3. StartTypes'
  BY <1>1, <1>2 DEF HandleStop, StartTypes
<1>4. TaskTypes'
  BY <1>1, <1>2, <1>a, Numbers DEF HandleStop, Quiet, TakeTurn, FinishAborted,
     FinishAnswered, abort_turn, At, RunEnd, ReturnsAtOnce, NothingToAbort, stt,
     TaskTypes
<1>5. FinishTypes'
  BY <1>1, <1>2, <1>a, Numbers DEF HandleStop, Quiet, TakeTurn, FinishAborted,
     FinishAnswered, abort_turn, At, FinishTypes, FinishPhases
<1>6. EndTypes'
  BY <1>1, <1>2, <1>a, Numbers DEF HandleStop, Quiet, TakeTurn, FinishAborted,
     FinishAnswered, RunEnd, EndTypes
<1>7. Ends'
  BY <1>1, <1>2, <1>a, Numbers DEF HandleStop, Quiet, TakeTurn, FinishAborted,
     FinishAnswered, abort_turn, At, RunEnd, FinishTypes, Ends, EndTypes
<1>8. Fresh'
  BY <1>1, <1>2, <1>a, Numbers DEF HandleStop, Quiet, TakeTurn, FinishAborted,
     FinishAnswered, abort_turn, At, RunEnd, stt, FinishTypes, Fresh
<1>9. Replying'
  BY <1>1, <1>2, <1>a, Numbers DEF HandleStop, Quiet, TakeTurn, FinishAborted,
     FinishAnswered, abort_turn, At, RunEnd, FinishTypes, Replying, Busy
<1>10. Waiting'
  BY <1>1, <1>2, <1>a, Numbers DEF HandleStop, Quiet, TakeTurn, FinishAborted,
     FinishAnswered, abort_turn, At, RunEnd, ReturnsAtOnce, NothingToAbort, stt,
     TaskTypes, FinishTypes, Waiting, Deaf, Replying, Fresh
<1>11. Runner'
  BY <1>1, <1>2, <1>a, Numbers DEF HandleStop, Quiet, Runner
<1>12. TurnIsCollected'
  BY <1>1, <1>2, <1>a, Numbers DEF HandleStop, Quiet, TakeTurn, FinishAborted,
     TurnIsCollected
<1>13. Named
  BY <1>1, <1>a DEF HandleStop, Named
<1>14. LockTypes' /\ Lock'
  <2>1. CASE UNCHANGED connectLock
    <3>1. LockKept
      BY <1>1, <1>2, <1>a, <2>1, Numbers DEF HandleStop, Quiet, TakeTurn,
         FinishAborted, FinishAnswered, At, FinishTypes, LockKept
    <3>2. QED
      BY <3>1, <1>13, LockStays DEF IInv
  <2>2. CASE active # None /\ connectLock' = Append(connectLock, Finisher(active))
    <3>1. Finisher(active) \in Waiters
      BY <1>1, <1>a, WaiterKinds, <2>2
    <3>2. connectLock' # connectLock
      <4>1. Len(connectLock') = Len(connectLock) + 1 /\ Len(connectLock) \in Nat
        BY <1>1, <2>2, <3>1 DEF LockTypes
      <4>2. QED
        BY <4>1
    <3>3. LockGrew(Finisher(active))
      BY <1>1, <1>2, <1>a, <2>2, <3>2, WaiterKinds, Numbers DEF HandleStop, Quiet,
         TakeTurn, FinishAborted, FinishAnswered, abort_turn, At, RunEnd,
         ReturnsAtOnce, TaskTypes, FinishTypes, Replying, Busy, LockGrew
    <3>4. QED
      BY <3>1, <3>3, <1>13, LockGrows DEF IInv
  <2>3. QED
    BY <2>1, <2>2 DEF HandleStop, Quiet, FinishAborted, FinishAnswered, stt
<1>15. QED
  BY <1>3, <1>4, <1>5, <1>6, <1>7, <1>8, <1>9, <1>10, <1>11, <1>12, <1>14 DEF IInv

LEMMA WatchdogFiresStep ==
  ASSUME IInv, NEW t \in Turns, WatchdogFires(t)
  PROVE  IInv'
<1>1. TaskTypes /\ StartTypes /\ FinishTypes /\ EndTypes /\ LockTypes
  BY DEF IInv
<1>2. Ends /\ Fresh /\ Replying /\ Waiting /\ Runner /\ TurnIsCollected
  BY DEF IInv
<1>a. \/ active = None
      \/ active \in Turns /\ finish[active] = "none" /\ runEnds[active] = 0
  <2>1. active = None \/ active \in Turns
    BY <1>1 DEF TaskTypes
  <2>2. CASE active \in Turns
    BY <1>2, <2>2 DEF Fresh, Ends
  <2>3. QED
    BY <2>1, <2>2
<1>3. StartTypes'
  BY <1>1, <1>2 DEF WatchdogFires, StartTypes
<1>4. TaskTypes'
  BY <1>1, <1>2, <1>a, Numbers DEF WatchdogFires, Quiet, TakeTurn, FinishAnswered,
     At, RunEnd, runtime, device, stt, TaskTypes
<1>5. FinishTypes'
  BY <1>1, <1>2, <1>a, Numbers DEF WatchdogFires, Quiet, FinishAnswered, At,
     FinishTypes, FinishPhases
<1>6. EndTypes'
  BY <1>1, <1>2, <1>a, Numbers DEF WatchdogFires, Quiet, FinishAnswered, RunEnd,
     EndTypes
<1>7. Ends'
  BY <1>1, <1>2, <1>a, Numbers DEF WatchdogFires, Quiet, TakeTurn, FinishAnswered,
     At, RunEnd, FinishTypes, Ends, EndTypes
<1>8. Fresh'
  BY <1>1, <1>2, <1>a, Numbers DEF WatchdogFires, Quiet, TakeTurn, FinishAnswered,
     At, RunEnd, runtime, device, FinishTypes, Fresh
<1>9. Replying'
  BY <1>1, <1>2, <1>a, Numbers DEF WatchdogFires, Quiet, TakeTurn, FinishAnswered,
     At, RunEnd, runtime, FinishTypes, Replying, Busy
<1>10. Waiting'
  BY <1>1, <1>2, <1>a, Numbers DEF WatchdogFires, Quiet, TakeTurn, FinishAnswered,
     At, RunEnd, runtime, device, stt, TaskTypes, FinishTypes, Waiting, Deaf,
     ReturnsAtOnce, NothingToAbort, Replying, Fresh
<1>11. Runner'
  BY <1>1, <1>2, <1>a, Numbers DEF WatchdogFires, Quiet, Runner
<1>12. TurnIsCollected'
  BY <1>1, <1>2, <1>a, Numbers DEF WatchdogFires, Quiet, TakeTurn, FinishAnswered,
     At, RunEnd, runtime, TurnIsCollected
<1>13. Named
  BY <1>1, <1>a DEF WatchdogFires, Named
<1>14. LockTypes' /\ Lock'
  <2>1. CASE UNCHANGED connectLock
    <3>1. LockKept
      BY <1>1, <1>2, <1>a, <2>1, Numbers DEF WatchdogFires, Quiet, TakeTurn,
         FinishAnswered, At, FinishTypes, LockKept
    <3>2. QED
      BY <3>1, <1>13, LockStays DEF IInv
  <2>2. CASE active # None /\ connectLock' = Append(connectLock, Finisher(active))
    <3>1. Finisher(active) \in Waiters
      BY <1>1, <1>a, WaiterKinds, <2>2
    <3>2. connectLock' # connectLock
      <4>1. Len(connectLock') = Len(connectLock) + 1 /\ Len(connectLock) \in Nat
        BY <1>1, <2>2, <3>1 DEF LockTypes
      <4>2. QED
        BY <4>1
    <3>3. LockGrew(Finisher(active))
      BY <1>1, <1>2, <1>a, <2>2, <3>2, WaiterKinds, Numbers DEF WatchdogFires,
         Quiet, TakeTurn, FinishAnswered, At, RunEnd, runtime, FinishTypes,
         Replying, Busy, LockGrew
    <3>4. QED
      BY <3>1, <3>3, <1>13, LockGrows DEF IInv
  <2>3. QED
    BY <2>1, <2>2 DEF WatchdogFires, FinishAnswered, stt
<1>15. QED
  BY <1>3, <1>4, <1>5, <1>6, <1>7, <1>8, <1>9, <1>10, <1>11, <1>12, <1>14 DEF IInv

LEMMA WatchdogLeavesStep ==
  ASSUME IInv, NEW t \in Turns, WatchdogLeaves(t)
  PROVE  IInv'
<1>1. TaskTypes /\ StartTypes /\ FinishTypes /\ EndTypes /\ LockTypes
  BY DEF IInv
<1>2. Ends /\ Fresh /\ Replying /\ Waiting /\ Runner /\ TurnIsCollected
  BY DEF IInv
<1>3. StartTypes' /\ FinishTypes' /\ EndTypes' /\ Ends' /\ Fresh' /\ Replying' /\ Waiting' /\ Runner' /\ TurnIsCollected'
  BY <1>1, <1>2 DEF WatchdogLeaves, Quiet, runtime, device, stt, StartTypes,
     FinishTypes, EndTypes, Ends, Fresh, Replying, Waiting, Deaf, ReturnsAtOnce,
     NothingToAbort, Runner, TurnIsCollected
<1>4. TaskTypes'
  BY <1>1, <1>2 DEF WatchdogLeaves, runtime, stt, TaskTypes
<1>5. Named
  BY DEF WatchdogLeaves, Named
<1>6. LockTypes' /\ Lock'
  <2>1. LockKept
    BY <1>1, <1>2 DEF WatchdogLeaves, stt, LockKept
  <2>2. QED
    BY <2>1, <1>5, LockStays DEF IInv
<1>7. QED
  BY <1>3, <1>4, <1>5, <1>6 DEF IInv

LEMMA AudioConnectsStep ==
  ASSUME IInv, AudioConnects
  PROVE  IInv'
<1>1. TaskTypes /\ StartTypes /\ FinishTypes /\ EndTypes /\ LockTypes
  BY DEF IInv
<1>2. Ends /\ Fresh /\ Replying /\ Waiting /\ Runner /\ TurnIsCollected
  BY DEF IInv
<1>3. TaskTypes' /\ StartTypes' /\ FinishTypes' /\ EndTypes' /\ Ends' /\ Fresh' /\ Replying' /\ Waiting' /\ Runner' /\ TurnIsCollected'
  BY <1>1, <1>2 DEF AudioConnects, Quiet, runtime, device, TaskTypes, StartTypes,
     FinishTypes, EndTypes, Ends, Fresh, Replying, Waiting, Deaf, Runner,
     TurnIsCollected
<1>4. Named
  BY DEF AudioConnects, Named
<1>5. LockTypes' /\ Lock'
  <2>1. CASE UNCHANGED connectLock
    <3>1. LockKept
      BY <1>1, <1>2, <2>1, Numbers DEF AudioConnects, LockKept
    <3>2. QED
      BY <3>1, <1>4, LockStays DEF IInv
  <2>2. CASE connectLock' = Append(connectLock, Audio)
    <3>1. Audio \in Waiters
      BY <1>1, WaiterKinds, <2>2
    <3>2. connectLock' # connectLock
      <4>1. Len(connectLock') = Len(connectLock) + 1 /\ Len(connectLock) \in Nat
        BY <1>1, <2>2, <3>1 DEF LockTypes
      <4>2. QED
        BY <4>1
    <3>3. LockGrew(Audio)
      BY <1>1, <1>2, <2>2, <3>2, WaiterKinds, Numbers DEF AudioConnects, LockGrew
    <3>4. QED
      BY <3>1, <3>3, <1>4, LockGrows DEF IInv
  <2>3. QED
    BY <2>1, <2>2 DEF AudioConnects, Quiet
<1>6. QED
  BY <1>3, <1>4, <1>5 DEF IInv

LEMMA FinalizeEndsStep ==
  ASSUME IInv, NEW t \in Turns, FinalizeEnds(t)
  PROVE  IInv'
<1>1. TaskTypes /\ StartTypes /\ FinishTypes /\ EndTypes /\ LockTypes
  BY DEF IInv
<1>2. Ends /\ Fresh /\ Replying /\ Waiting /\ Runner /\ TurnIsCollected
  BY DEF IInv
<1>3. StartTypes'
  BY <1>1, <1>2 DEF FinalizeEnds, StartTypes
<1>4. TaskTypes'
  BY <1>1, <1>2 DEF FinalizeEnds, FinishTurnEnds, EndRun, TaskTypes
<1>5. FinishTypes'
  BY <1>1, <1>2, Numbers DEF FinalizeEnds, FinishTurnEnds, EndRun, At,
     FinishTypes, FinishPhases
<1>6. EndTypes'
  BY <1>1, <1>2, Numbers DEF FinalizeEnds, Quiet, FinishTurnEnds, EndRun, RunEnd,
     EndTypes
<1>7. Ends'
  BY <1>1, <1>2, Numbers DEF FinalizeEnds, Quiet, FinishTurnEnds, EndRun, At,
     RunEnd, FinishTypes, Ends, EndTypes
<1>8. Fresh'
  BY <1>1, <1>2, Numbers DEF FinalizeEnds, Quiet, FinishTurnEnds, EndRun, At,
     device, FinishTypes, Fresh
<1>9. Replying'
  BY <1>1, <1>2, Numbers DEF FinalizeEnds, Quiet, FinishTurnEnds, EndRun, At,
     FinishTypes, Replying, Busy
<1>10. Waiting'
  BY <1>1, <1>2, Numbers DEF FinalizeEnds, Quiet, FinishTurnEnds, EndRun, At,
     RunEnd, device, TaskTypes, FinishTypes, Waiting, Deaf, ReturnsAtOnce,
     NothingToAbort, Replying, Busy, Fresh, Early
<1>11. Runner'
  BY <1>1, <1>2, Numbers DEF FinalizeEnds, Quiet, FinishTurnEnds, Runner
<1>12. TurnIsCollected'
  BY <1>1, <1>2, Numbers DEF FinalizeEnds, Quiet, FinishTurnEnds, EndRun, At,
     TurnIsCollected, Replying, Busy
<1>13. Named
  BY DEF FinalizeEnds, Named
<1>14. LockTypes' /\ Lock'
  <2>1. LockKept
    BY <1>1, <1>2, Numbers DEF FinalizeEnds, Quiet, FinishTurnEnds, EndRun, At,
       FinishTypes, LockKept
  <2>2. QED
    BY <2>1, <1>13, LockStays DEF IInv
<1>15. QED
  BY <1>3, <1>4, <1>5, <1>6, <1>7, <1>8, <1>9, <1>10, <1>11, <1>12, <1>14 DEF IInv

LEMMA AgentEndsStep ==
  ASSUME IInv, NEW t \in Turns, AgentEnds(t)
  PROVE  IInv'
<1>1. TaskTypes /\ StartTypes /\ FinishTypes /\ EndTypes /\ LockTypes
  BY DEF IInv
<1>2. Ends /\ Fresh /\ Replying /\ Waiting /\ Runner /\ TurnIsCollected
  BY DEF IInv
<1>3. StartTypes' /\ TurnIsCollected'
  BY <1>1, <1>2 DEF AgentEnds, stt, StartTypes, TurnIsCollected
<1>4. TaskTypes'
  BY <1>1, <1>2 DEF AgentEnds, EndRun, stt, TaskTypes
<1>5. FinishTypes'
  BY <1>1, <1>2, Numbers DEF AgentEnds, EndRun, At, FinishTypes, FinishPhases
<1>6. EndTypes'
  BY <1>1, <1>2, Numbers DEF AgentEnds, EndRun, RunEnd, EndTypes
<1>7. Ends'
  BY <1>1, <1>2, Numbers DEF AgentEnds, Quiet, EndRun, At, RunEnd, FinishTypes,
     Ends, EndTypes
<1>8. Fresh'
  BY <1>1, <1>2, Numbers DEF AgentEnds, Quiet, EndRun, At, RunEnd, device, Fresh
<1>9. Replying'
  BY <1>1, <1>2, Numbers DEF AgentEnds, Quiet, EndRun, At, RunEnd, FinishTypes,
     Replying, Busy
<1>10. Waiting'
  BY <1>1, <1>2, Numbers DEF AgentEnds, Quiet, EndRun, At, RunEnd, device, stt,
     Waiting, Deaf, ReturnsAtOnce, NothingToAbort
<1>11. Runner'
  BY <1>1, <1>2, Numbers DEF AgentEnds, EndRun, Runner
<1>12. Named
  BY DEF AgentEnds, Named
<1>13. LockTypes' /\ Lock'
  <2>1. LockKept
    BY <1>1, <1>2, Numbers DEF AgentEnds, Quiet, EndRun, At, stt, LockKept
  <2>2. QED
    BY <2>1, <1>12, LockStays DEF IInv
<1>14. QED
  BY <1>3, <1>4, <1>5, <1>6, <1>7, <1>8, <1>9, <1>10, <1>11, <1>13 DEF IInv

LEMMA ClosesAloneStep ==
  ASSUME IInv, NEW t \in Turns, ClosesAlone(t)
  PROVE  IInv'
<1>1. TaskTypes /\ StartTypes /\ FinishTypes /\ EndTypes /\ LockTypes
  BY DEF IInv
<1>2. Ends /\ Fresh /\ Replying /\ Waiting /\ Runner /\ TurnIsCollected
  BY DEF IInv
<1>3. StartTypes' /\ TurnIsCollected'
  BY <1>1, <1>2 DEF ClosesAlone, StartTypes, TurnIsCollected
<1>4. TaskTypes'
  BY <1>1, <1>2 DEF ClosesAlone, EndRun, TaskTypes
<1>5. FinishTypes'
  BY <1>1, <1>2, Numbers DEF ClosesAlone, EndRun, At, FinishTypes, FinishPhases
<1>6. EndTypes'
  BY <1>1, <1>2, Numbers DEF ClosesAlone, EndRun, RunEnd, EndTypes
<1>7. Ends'
  BY <1>1, <1>2, Numbers DEF ClosesAlone, EndRun, At, RunEnd, FinishTypes, Ends,
     EndTypes
<1>8. Fresh'
  BY <1>1, <1>2, Numbers DEF ClosesAlone, EndRun, At, device, Fresh, Replying
<1>9. Replying'
  BY <1>1, <1>2, Numbers DEF ClosesAlone, EndRun, At, FinishTypes, Replying, Busy
<1>10. Waiting'
  BY <1>1, <1>2, Numbers DEF ClosesAlone, EndRun, At, RunEnd, device, Settled,
     Quiet, TaskTypes, FinishTypes, Waiting, Deaf, ReturnsAtOnce, Replying, Busy
<1>11. Runner'
  BY <1>1, <1>2, Numbers DEF ClosesAlone, EndRun, At, Runner
<1>12. Named
  BY DEF ClosesAlone, Named
<1>13. LockTypes' /\ Lock'
  <2>1. LockKept
    BY <1>1, <1>2, Numbers DEF ClosesAlone, EndRun, At, LockKept
  <2>2. QED
    BY <2>1, <1>12, LockStays DEF IInv
<1>14. QED
  BY <1>3, <1>4, <1>5, <1>6, <1>7, <1>8, <1>9, <1>10, <1>11, <1>13 DEF IInv

LEMMA ClosesForStep ==
  ASSUME IInv, NEW t \in Turns, NEW u \in Turns, ClosesFor(t, u)
  PROVE  IInv'
<1>1. TaskTypes /\ StartTypes /\ FinishTypes /\ EndTypes /\ LockTypes
  BY DEF IInv
<1>2. Ends /\ Fresh /\ Replying /\ Waiting /\ Runner /\ TurnIsCollected
  BY DEF IInv
<1>3. TaskTypes'
  BY <1>1, <1>2 DEF ClosesFor, EndRun, TaskTypes
<1>4. StartTypes'
  BY <1>1, <1>2, Numbers DEF ClosesFor, EndRun, At, Go, Phase, StartTypes,
     StartPhases
<1>5. FinishTypes'
  BY <1>1, <1>2, Numbers DEF ClosesFor, EndRun, At, FinishTypes, FinishPhases
<1>6. EndTypes'
  BY <1>1, <1>2, Numbers DEF ClosesFor, EndRun, At, RunEnd, EndTypes
<1>7. Ends'
  BY <1>1, <1>2, Numbers DEF ClosesFor, EndRun, At, RunEnd, Go, FinishTypes, Ends,
     EndTypes
<1>8. Fresh'
  BY <1>1, <1>2, Numbers DEF ClosesFor, EndRun, At, RunEnd, Go, Phase, device,
     Fresh, Early
<1>9. Replying'
  BY <1>1, <1>2, Numbers DEF ClosesFor, EndRun, At, FinishTypes, Replying, Busy
<1>10. Waiting'
  BY <1>1, <1>2, Numbers DEF ClosesFor, EndRun, At, RunEnd, Go, Phase, device,
     Settled, Quiet, TaskTypes, StartTypes, FinishTypes, Waiting, Deaf,
     ReturnsAtOnce, Replying, Busy
<1>11. Runner'
  BY <1>1, <1>2, Numbers DEF ClosesFor, EndRun, At, RunEnd, Go, Phase, device,
     Runner
<1>12. TurnIsCollected'
  BY <1>1, <1>2, Numbers DEF ClosesFor, EndRun, At, RunEnd, Go, Phase, device,
     TurnIsCollected
<1>13. Named
  BY <1>1, Numbers DEF ClosesFor, EndRun, Go, Phase, Named
<1>14. LockTypes' /\ Lock'
  <2>1. LockKept
    BY <1>1, <1>2, Numbers DEF ClosesFor, EndRun, At, LockKept
  <2>2. QED
    BY <2>1, <1>13, LockStays DEF IInv
<1>15. QED
  BY <1>3, <1>4, <1>5, <1>6, <1>7, <1>8, <1>9, <1>10, <1>11, <1>12, <1>14 DEF IInv

LEMMA StartClosesStep ==
  ASSUME IInv, NEW u \in Turns, StartCloses(u)
  PROVE  IInv'
<1>1. TaskTypes /\ StartTypes /\ FinishTypes /\ EndTypes /\ LockTypes
  BY DEF IInv
<1>2. Ends /\ Fresh /\ Replying /\ Waiting /\ Runner /\ TurnIsCollected
  BY DEF IInv
<1>3. FinishTypes' /\ EndTypes' /\ Ends' /\ Replying'
  BY <1>1, <1>2 DEF StartCloses, Go, Phase, device, runtime, FinishTypes,
     EndTypes, Ends, Replying
<1>4. TaskTypes'
  BY <1>1, <1>2 DEF StartCloses, runtime, TaskTypes
<1>5. StartTypes'
  BY <1>1, <1>2, Numbers DEF StartCloses, Go, Phase, StartTypes, StartPhases
<1>6. Fresh'
  BY <1>1, <1>2, Numbers DEF StartCloses, Go, Phase, device, runtime, Fresh, Early
<1>7. Waiting'
  BY <1>1, <1>2, Numbers DEF StartCloses, Go, Phase, device, runtime, Settled,
     Waiting
<1>8. Runner'
  BY <1>1, <1>2, Numbers DEF StartCloses, Go, Phase, Runner, Fresh
<1>9. TurnIsCollected'
  BY <1>1, <1>2, Numbers DEF StartCloses, Go, Phase, runtime, TurnIsCollected
<1>10. Named
  BY <1>1, Numbers DEF StartCloses, Go, Phase, Named
<1>11. LockTypes' /\ Lock'
  <2>1. LockKept
    BY <1>1, <1>2 DEF StartCloses, LockKept
  <2>2. QED
    BY <2>1, <1>10, LockStays DEF IInv
<1>12. QED
  BY <1>3, <1>4, <1>5, <1>6, <1>7, <1>8, <1>9, <1>11 DEF IInv

LEMMA StarterConnectedStep ==
  ASSUME IInv, Opens, NEW t \in Turns, ForStarter(t)
  PROVE  IInv'
<1>1. TaskTypes /\ StartTypes /\ FinishTypes /\ EndTypes /\ LockTypes
  BY DEF IInv
<1>2. Ends /\ Fresh /\ Replying /\ Waiting /\ Runner /\ TurnIsCollected
  BY DEF IInv
<1>a. start[t].phase # "none"
  <2>1. connectLock # <<>> /\ 1 \in 1..Len(connectLock) /\ connectLock[1] = Starter(t)
    BY <1>1, TailIsWithout DEF Opens, ForStarter, LockTypes
  <2>2. QED
    BY <2>1 DEF IInv, Lock, Held
<1>3. FinishTypes' /\ EndTypes' /\ Ends' /\ Replying'
  BY <1>1, <1>2 DEF Opens, ForStarter, FinishTypes, EndTypes, Ends, Replying
<1>4. TaskTypes'
  BY <1>1, <1>2 DEF Opens, ForStarter, Up, Go, TaskTypes
<1>5. StartTypes'
  BY <1>1, <1>2, <1>a, Numbers DEF Opens, ForStarter, Up, Go, Phase, StartTypes,
     StartPhases
<1>6. Fresh'
  BY <1>1, <1>2, <1>a, Numbers DEF Opens, ForStarter, Up, Go, Phase, device,
     Fresh, Early
<1>7. Waiting'
  BY <1>1, <1>2, <1>a, Numbers DEF Opens, ForStarter, Up, Go, Phase, device,
     Settled, Waiting
<1>8. Runner'
  BY <1>1, <1>2, <1>a, Numbers DEF Opens, ForStarter, Up, Go, Phase, device,
     Runner
<1>9. TurnIsCollected'
  BY <1>1, <1>2, <1>a, Numbers DEF Opens, ForStarter, Up, Go, TurnIsCollected
<1>10. Named
  BY <1>1, <1>a, Numbers DEF Opens, ForStarter, Up, Go, Phase, Named
<1>11. LockTypes' /\ Lock'
  <2>1. 1 \in 1..Len(connectLock) /\ Without(connectLock, 1, connectLock') /\ Head(connectLock) = connectLock[1]
    BY <1>1, TailIsWithout DEF LockTypes, Opens
  <2>2. LockShrank(1)
    BY <1>1, <1>2, <1>a, <2>1 DEF ForStarter, LockShrank
  <2>3. QED
    BY <2>1, <2>2, <1>10, LockShrinks DEF IInv
<1>12. QED
  BY <1>3, <1>4, <1>5, <1>6, <1>7, <1>8, <1>9, <1>11 DEF IInv

LEMMA FinisherConnectedStep ==
  ASSUME IInv, Opens, NEW t \in Turns, ForFinisher(t)
  PROVE  IInv'
<1>1. TaskTypes /\ StartTypes /\ FinishTypes /\ EndTypes /\ LockTypes
  BY DEF IInv
<1>2. Ends /\ Fresh /\ Replying /\ Waiting /\ Runner /\ TurnIsCollected
  BY DEF IInv
<1>a. finish[t] = "sending"
  <2>1. connectLock # <<>> /\ 1 \in 1..Len(connectLock) /\ connectLock[1] = Finisher(t)
    BY <1>1, TailIsWithout DEF Opens, ForFinisher, LockTypes
  <2>2. QED
    BY <2>1 DEF IInv, Lock, Held
<1>3. StartTypes' /\ EndTypes' /\ Runner' /\ TurnIsCollected'
  BY <1>1, <1>2 DEF Opens, ForFinisher, StartTypes, EndTypes, Runner,
     TurnIsCollected
<1>4. TaskTypes'
  BY <1>1 DEF Opens, ForFinisher, TaskTypes
<1>5. FinishTypes'
  BY <1>1, <1>2, <1>a, Numbers DEF ForFinisher, At, FinishTypes, FinishPhases
<1>6. Ends'
  BY <1>1, <1>2, <1>a, Numbers DEF Opens, ForFinisher, At, Ends
<1>7. Fresh'
  BY <1>1, <1>2, <1>a, Numbers DEF Opens, ForFinisher, At, device, Fresh
<1>8. Replying'
  BY <1>1, <1>2, <1>a, Numbers DEF Opens, ForFinisher, At, Replying, Busy
<1>9. Waiting'
  BY <1>1, <1>2, <1>a, Numbers DEF Opens, ForFinisher, At, device, Settled,
     Waiting
<1>10. Named
  BY DEF ForFinisher, Named
<1>11. LockTypes' /\ Lock'
  <2>1. 1 \in 1..Len(connectLock) /\ Without(connectLock, 1, connectLock') /\ Head(connectLock) = connectLock[1]
    BY <1>1, TailIsWithout DEF LockTypes, Opens
  <2>2. LockShrank(1)
    BY <1>1, <1>2, <1>a, <2>1 DEF ForFinisher, At, LockShrank
  <2>3. QED
    BY <2>1, <2>2, <1>10, LockShrinks DEF IInv
<1>12. QED
  BY <1>3, <1>4, <1>5, <1>6, <1>7, <1>8, <1>9, <1>11 DEF IInv

LEMMA AudioConnectedStep ==
  ASSUME IInv, Opens, ForAudio
  PROVE  IInv'
<1>1. TaskTypes /\ StartTypes /\ FinishTypes /\ EndTypes /\ LockTypes
  BY DEF IInv
<1>2. Ends /\ Fresh /\ Replying /\ Waiting /\ Runner /\ TurnIsCollected
  BY DEF IInv
<1>3. StartTypes' /\ FinishTypes' /\ EndTypes' /\ Ends' /\ Fresh' /\ Replying' /\ Runner' /\ TurnIsCollected'
  BY <1>1, <1>2 DEF Opens, ForAudio, device, Settled, Quiet, StartTypes,
     FinishTypes, EndTypes, Ends, Fresh, Replying, Runner, TurnIsCollected
<1>4. TaskTypes'
  BY <1>1, <1>2 DEF Opens, ForAudio, TaskTypes
<1>5. Waiting'
  BY <1>1, <1>2, Numbers DEF Opens, ForAudio, device, Settled, Waiting
<1>6. Named
  BY DEF ForAudio, Named
<1>7. LockTypes' /\ Lock'
  <2>1. 1 \in 1..Len(connectLock) /\ Without(connectLock, 1, connectLock') /\ Head(connectLock) = connectLock[1]
    BY <1>1, TailIsWithout DEF LockTypes, Opens
  <2>2. LockShrank(1)
    BY <1>1, <1>2, <2>1, WaiterKinds DEF ForAudio, LockShrank
  <2>3. QED
    BY <2>1, <2>2, <1>6, LockShrinks DEF IInv
<1>8. QED
  BY <1>3, <1>4, <1>5, <1>7 DEF IInv

LEMMA StarterRefusedStep ==
  ASSUME IInv, Refuses, NEW t \in Turns, RefusedStarter(t)
  PROVE  IInv'
<1>1. TaskTypes /\ StartTypes /\ FinishTypes /\ EndTypes /\ LockTypes
  BY DEF IInv
<1>2. Ends /\ Fresh /\ Replying /\ Waiting /\ Runner /\ TurnIsCollected
  BY DEF IInv
<1>a. start[t].phase # "none"
  <2>1. connectLock # <<>> /\ 1 \in 1..Len(connectLock) /\ connectLock[1] = Starter(t)
    BY <1>1, TailIsWithout DEF Refuses, RefusedStarter, LockTypes
  <2>2. QED
    BY <2>1 DEF IInv, Lock, Held
<1>3. TaskTypes' /\ FinishTypes' /\ EndTypes' /\ Ends' /\ Replying'
  BY <1>1, <1>2 DEF Refuses, RefusedStarter, TaskTypes, FinishTypes, EndTypes,
     Ends, Replying
<1>4. StartTypes'
  BY <1>1, <1>2, <1>a, Numbers DEF RefusedStarter, Go, Phase, StartTypes,
     StartPhases
<1>5. Fresh'
  BY <1>1, <1>2, <1>a, Numbers DEF Refuses, RefusedStarter, Go, Phase, Fresh,
     Early
<1>6. Waiting'
  BY <1>1, <1>2, <1>a, Numbers DEF Refuses, RefusedStarter, Go, Phase, Settled,
     Waiting
<1>7. Runner'
  BY <1>1, <1>2, <1>a, Numbers DEF Refuses, RefusedStarter, Go, Phase, Runner
<1>8. TurnIsCollected'
  BY <1>1, <1>2, <1>a, Numbers DEF Refuses, RefusedStarter, Go, Phase,
     TurnIsCollected
<1>9. Named
  BY <1>1, <1>a, Numbers DEF Refuses, RefusedStarter, Go, Phase, Named
<1>10. LockTypes' /\ Lock'
  <2>1. 1 \in 1..Len(connectLock) /\ Without(connectLock, 1, connectLock') /\ Head(connectLock) = connectLock[1]
    BY <1>1, TailIsWithout DEF LockTypes, Refuses
  <2>2. LockShrank(1)
    BY <1>1, <1>2, <2>1 DEF RefusedStarter, LockShrank
  <2>3. QED
    BY <2>1, <2>2, <1>9, LockShrinks DEF IInv
<1>11. QED
  BY <1>3, <1>4, <1>5, <1>6, <1>7, <1>8, <1>10 DEF IInv

LEMMA FinisherRefusedStep ==
  ASSUME IInv, Refuses, NEW t \in Turns, RefusedFinisher(t)
  PROVE  IInv'
<1>1. TaskTypes /\ StartTypes /\ FinishTypes /\ EndTypes /\ LockTypes
  BY DEF IInv
<1>2. Ends /\ Fresh /\ Replying /\ Waiting /\ Runner /\ TurnIsCollected
  BY DEF IInv
<1>a. finish[t] = "sending"
  <2>1. connectLock # <<>> /\ 1 \in 1..Len(connectLock) /\ connectLock[1] = Finisher(t)
    BY <1>1, TailIsWithout DEF Refuses, RefusedFinisher, LockTypes
  <2>2. QED
    BY <2>1 DEF IInv, Lock, Held
<1>3. StartTypes'
  BY <1>1 DEF RefusedFinisher, StartTypes
<1>4. TaskTypes'
  BY <1>1, <1>2 DEF Refuses, RefusedFinisher, FinishTurnEnds, EndRun, TaskTypes
<1>5. FinishTypes'
  BY <1>1, <1>2, <1>a, Numbers DEF Refuses, RefusedFinisher, FinishTurnEnds,
     EndRun, At, FinishTypes, FinishPhases
<1>6. EndTypes'
  BY <1>1, <1>2, <1>a, Numbers DEF Refuses, RefusedFinisher, FinishTurnEnds,
     EndRun, RunEnd, EndTypes
<1>7. Ends'
  BY <1>1, <1>2, <1>a, Numbers DEF Refuses, RefusedFinisher, FinishTurnEnds,
     EndRun, At, RunEnd, FinishTypes, Ends, EndTypes
<1>8. Fresh'
  BY <1>1, <1>2, <1>a, Numbers DEF Refuses, RefusedFinisher, FinishTurnEnds,
     EndRun, At, RunEnd, FinishTypes, Fresh
<1>9. Replying'
  BY <1>1, <1>2, <1>a, Numbers DEF Refuses, RefusedFinisher, FinishTurnEnds,
     EndRun, At, RunEnd, FinishTypes, Replying, Busy
<1>10. Waiting'
  BY <1>1, <1>2, <1>a, Numbers DEF Refuses, RefusedFinisher, FinishTurnEnds,
     EndRun, At, RunEnd, Settled, Quiet, TaskTypes, FinishTypes, Waiting, Deaf,
     Replying, Fresh, Early
<1>11. Runner'
  BY <1>1, <1>2, <1>a, Numbers DEF Refuses, RefusedFinisher, FinishTurnEnds,
     EndRun, Runner
<1>12. TurnIsCollected'
  BY <1>1, <1>2, <1>a, Numbers DEF Refuses, RefusedFinisher, FinishTurnEnds,
     EndRun, At, RunEnd, TurnIsCollected, Replying, Busy
<1>13. Named
  BY DEF RefusedFinisher, Named
<1>14. LockTypes' /\ Lock'
  <2>1. 1 \in 1..Len(connectLock) /\ Without(connectLock, 1, connectLock') /\ Head(connectLock) = connectLock[1]
    BY <1>1, TailIsWithout DEF LockTypes, Refuses
  <2>2. LockShrank(1)
    BY <1>1, <1>2, <1>a, <2>1, WaiterKinds, Numbers DEF TaskTypes, FinishTypes,
       RefusedFinisher, FinishTurnEnds, EndRun, At, LockShrank
  <2>3. QED
    BY <2>1, <2>2, <1>13, LockShrinks DEF IInv
<1>15. QED
  BY <1>3, <1>4, <1>5, <1>6, <1>7, <1>8, <1>9, <1>10, <1>11, <1>12, <1>14 DEF IInv

LEMMA AudioRefusedStep ==
  ASSUME IInv, Refuses, RefusedAudio
  PROVE  IInv'
<1>1. TaskTypes /\ StartTypes /\ FinishTypes /\ EndTypes /\ LockTypes
  BY DEF IInv
<1>2. Ends /\ Fresh /\ Replying /\ Waiting /\ Runner /\ TurnIsCollected
  BY DEF IInv
<1>3. TaskTypes' /\ StartTypes' /\ FinishTypes' /\ EndTypes' /\ Ends' /\ Fresh' /\ Replying' /\ Waiting' /\ Runner' /\ TurnIsCollected'
  BY <1>1, <1>2 DEF Refuses, RefusedAudio, Settled, Quiet, TaskTypes, StartTypes,
     FinishTypes, EndTypes, Ends, Fresh, Replying, Waiting, Runner,
     TurnIsCollected
<1>4. Named
  BY DEF RefusedAudio, Named
<1>5. LockTypes' /\ Lock'
  <2>1. 1 \in 1..Len(connectLock) /\ Without(connectLock, 1, connectLock') /\ Head(connectLock) = connectLock[1]
    BY <1>1, TailIsWithout DEF LockTypes, Refuses
  <2>2. LockShrank(1)
    BY <2>1 DEF RefusedAudio, LockShrank
  <2>3. QED
    BY <2>1, <2>2, <1>4, LockShrinks DEF IInv
<1>6. QED
  BY <1>3, <1>4, <1>5 DEF IInv

LEMMA DroppedStep ==
  ASSUME IInv, Dropped
  PROVE  IInv'
<1>1. TaskTypes /\ StartTypes /\ FinishTypes /\ EndTypes /\ LockTypes
  BY DEF IInv
<1>2. Ends /\ Fresh /\ Replying /\ Waiting /\ Runner /\ TurnIsCollected
  BY DEF IInv
<1>3. StartTypes' /\ FinishTypes' /\ EndTypes' /\ Ends' /\ Fresh' /\ Replying' /\ Runner' /\ TurnIsCollected'
  BY <1>1, <1>2 DEF Dropped, runtime, device, Settled, Quiet, StartTypes,
     FinishTypes, EndTypes, Ends, Fresh, Replying, Runner, TurnIsCollected
<1>4. TaskTypes'
  BY <1>1, <1>2 DEF Dropped, runtime, TaskTypes
<1>5. Waiting'
  BY <1>1, <1>2 DEF Dropped, Waiting
<1>6. Named
  BY DEF Dropped, Named
<1>7. LockTypes' /\ Lock'
  <2>1. LockKept
    BY DEF Dropped, LockKept
  <2>2. QED
    BY <2>1, <1>6, LockStays DEF IInv
<1>8. QED
  BY <1>3, <1>4, <1>5, <1>7 DEF IInv

LEMMA InitHolds == Init => IInv
<1> SUFFICES ASSUME Init PROVE IInv
  OBVIOUS
<1>1. TaskTypes /\ StartTypes /\ FinishTypes /\ EndTypes
  BY Numbers DEF Init, TaskTypes, StartTypes, FinishTypes, EndTypes, Phase,
     StartPhases, FinishPhases
<1>2. LockTypes /\ Lock
  <2>1. <<>> \in Seq(Waiters) /\ Len(<<>>) = 0 /\ connectLock = <<>>
    BY DEF Init
  <2>2. QED
    BY <2>1 DEF LockTypes, Lock, Held
<1>3. Ends /\ Fresh /\ Replying /\ Waiting /\ Runner /\ TurnIsCollected
  BY Numbers DEF Init, Ends, Fresh, Replying, Busy, Waiting, Runner,
     TurnIsCollected, Phase
<1>4. QED
  BY <1>1, <1>2, <1>3 DEF IInv

LEMMA NextKeeps == ASSUME IInv, [Next]_vars PROVE IInv'
<1>1. LockTypes /\ TaskTypes
  BY DEF IInv
<1>2. CASE UNCHANGED vars
  BY <1>2 DEF vars, device, runtime, stt, IInv, TaskTypes, StartTypes,
     FinishTypes, EndTypes, LockTypes, Ends, Fresh, Replying, Lock, Waiting, Deaf,
     ReturnsAtOnce, NothingToAbort, Runner, TurnIsCollected
<1>3. CASE Connected
  BY <1>1, <1>3, ConnectedIsFor, StarterConnectedStep, FinisherConnectedStep,
     AudioConnectedStep
<1>4. CASE Refused
  BY <1>1, <1>4, RefusedIsFor, StarterRefusedStep, FinisherRefusedStep,
     AudioRefusedStep
<1>5. ASSUME NEW t \in Turns, FinishCloses(t) PROVE IInv'
  BY <1>5, FinishClosesFor, ClosesAloneStep, ClosesForStep
<1>6. ASSUME NEW t \in Turns, Cancel(t) PROVE IInv'
  BY <1>1, <1>6, CancelCancels, CancelsNothingStep, CancelsReplyStep
<1>7. ASSUME NEW t \in Turns, Starting(t) PROVE IInv'
  BY <1>6, <1>7, SupersedeStep, ResumeStartStep, InstallStep, StartTurnStep,
     ConnectStep DEF Starting
<1>8. QED
  BY <1>2, <1>3, <1>4, <1>5, <1>7, HandleStartStep, HandleStopStep,
     AudioConnectsStep, StartClosesStep, FinalizeEndsStep, AgentEndsStep,
     WatchdogFiresStep, WatchdogLeavesStep, DroppedStep DEF Next

LEMMA TurnsInvariant == Spec => []IInv
<1>1. IInv /\ [Next]_vars => IInv'
  BY NextKeeps
<1>2. QED
  BY InitHolds, <1>1, PTL DEF Spec

\* Every variable of the runtime and of the adapter keeps its type.
THEOREM TurnTypes == Spec => []TypeOK
<1>1. IInv => TypeOK
  BY DEF IInv, TypeOK, TaskTypes, StartTypes, FinishTypes, FinishPhases,
         EndTypes, LockTypes, Waiters
<1>2. QED
  BY TurnsInvariant, <1>1, PTL

\* Stops, starts, aborts and watchdogs race for the end of a turn, any number
\* of them; the device is told of it once.
THEOREM RunsEndOnce == Spec => []RunEndsOnce
<1>1. IInv => RunEndsOnce
  BY DEF IInv, Ends, RunEndsOnce
<1>2. QED
  BY TurnsInvariant, <1>1, PTL

\* However many starts overlap, while a turn is recorded no reply to another is
\* prepared, spoken or being cancelled.
THEOREM SilenceIsFound == Spec => []NewTurnFindsSilence
<1>1. IInv => NewTurnFindsSilence
  BY Numbers DEF IInv, TaskTypes, Replying, Busy, NewTurnFindsSilence, Pipeline
<1>2. QED
  BY TurnsInvariant, <1>1, PTL

\* Words are collected for the turn recorded once its start has succeeded,
\* whatever other starts, aborts and closes are under way.
THEOREM WordsAreCollected == Spec => []TurnIsCollected
<1>1. IInv => TurnIsCollected
  BY DEF IInv
<1>2. QED
  BY TurnsInvariant, <1>1, PTL
=============================================================================
