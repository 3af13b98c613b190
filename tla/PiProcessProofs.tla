-------------------------- MODULE PiProcessProofs ---------------------------
(***************************************************************************)
(* Proofs about the three parts of the Pi client's process. PiClient: for  *)
(* any number of connections, segments, interrupts and chunks under way,   *)
(* any volume the user may have chosen and any level to duck to.           *)
(* RelayClient: for any clips and speeches, any number of connections and  *)
(* any amount of audio. OwnerModeClient: for any number of replies,        *)
(* segments, connections and posted interrupts.                            *)
(***************************************************************************)
EXTENDS PiClient, RelayClient, OwnerModeClient, SequenceTheorems, TLAPS

(* The client that plays: its players, the microphone, the mixer and the hub *)

Commands == 1..Len(serial)
Restores(i) == serial[i].kind = "restore"

\* Who waits in the mixer's queue: the chain at most once, and only while a
\* handler awaits; a chunk that ducks has its duck there.
Waiting ==
  /\ \A i \in Commands : serial[i].waiter = Chain => handling # "none"
  /\ \A i, j \in Commands :
       serial[i].waiter = Chain /\ serial[j].waiter = Chain => i = j
  /\ \A k \in Chunks :
       chunk[k] = "duck" =>
         \E i \in Commands : serial[i].kind = "duck" /\ serial[i].waiter = k

\* The conversation is ready only on an open line, and until it is, nothing
\* sounds and nothing is awaited: call_initialized is handled as it comes, so
\* that none is left over for the next connection.
Greeting ==
  /\ line # "open" => ~ready /\ hubSegment = "idle"
  /\ line = "connecting" => messageChain = <<>> /\ \A i \in Commands : Restores(i)
  /\ line = "open" /\ ~ready =>
       /\ hubSegment = "idle" /\ handling = "none" /\ ~playbackActive
       /\ Len(messageChain) <= 1
       /\ \A i \in 1..Len(messageChain) :
            messageChain[i].kind \in {"call_initialized", "interrupt"}
  /\ \A i \in 1..Len(messageChain) :
       messageChain[i].kind = "call_initialized" => line = "open" /\ ~ready

\* While the mixer is ducked a restore is queued, or one has failed. A queued
\* duck has a restore behind it as soon as its chunk can come too late.
Mixer ==
  /\ ducked => originalPercent = userLevel
  /\ ~ducked => level = userLevel
  /\ ducked /\ ~restoreFailed => \E i \in Commands : Restores(i)
  /\ \A i \in Commands :
       ~Restores(i) => \/ playbackActive /\ ~interrupting
                       \/ \E j \in Commands : i < j /\ Restores(j)

\* The one process that can be heard is the player's, and if it was started on
\* this connection it is the one whose exit will be taken for the end.
Voices ==
  /\ \A g \in 1..Len(processes) : Alive(g) => g = process
  /\ \A i \in 1..Len(messageChain) : messageChain[i].from <= connection
  /\ \A g \in 1..Len(processes) : processes[g].from <= connection
  /\ line = "connecting" => \A g \in 1..Len(processes) : processes[g].from # connection
  /\ \A g \in 1..Len(processes) :
       Alive(g) /\ processes[g].from = connection /\ line # "connecting" =>
         playbackActive /\ playbackGeneration = g

IInv == TypeOK /\ Waiting /\ Greeting /\ Mixer /\ Voices

-----------------------------------------------------------------------------
(* What queueing a command and finishing the first one do to the queue.    *)

LEMMA CommandQueued ==
  ASSUME serial \in Seq(Command), NEW kind \in {"duck", "restore"},
         NEW w \in Waiters,
         serial' = Append(serial, [kind |-> kind, waiter |-> w])
  PROVE  LET n == Len(serial) + 1
         IN  /\ serial' \in Seq(Command)
             /\ n \in Nat /\ Len(serial') = n
             /\ serial'[n] = [kind |-> kind, waiter |-> w]
             /\ serial'[n].kind = kind /\ serial'[n].waiter = w
             /\ \A i \in 1..Len(serial) : serial'[i] = serial[i]
  BY DEF Command

LEMMA CommandDone ==
  ASSUME serial \in Seq(Command), serial # <<>>, serial' = Tail(serial)
  PROVE  /\ serial' \in Seq(Command)
         /\ Len(serial') \in Nat /\ Len(serial) = Len(serial') + 1
         /\ serial[1] = Head(serial)
         /\ \A i \in 1..Len(serial') : serial'[i] = serial[i + 1]
         /\ \A i \in 1..Len(serial) :
              i # 1 => i - 1 \in 1..Len(serial') /\ serial'[i - 1] = serial[i]
  BY DEF Command

LEMMA CommandReplaced ==
  ASSUME serial \in Seq(Command), serial # <<>>,
         NEW kind \in {"duck", "restore"}, NEW w \in Waiters,
         serial' = Append(Tail(serial), [kind |-> kind, waiter |-> w])
  PROVE  LET n == Len(serial)
         IN  /\ serial' \in Seq(Command)
             /\ n \in Nat /\ n >= 1 /\ Len(serial') = n
             /\ serial[1] = Head(serial)
             /\ serial'[n] = [kind |-> kind, waiter |-> w]
             /\ serial'[n].kind = kind /\ serial'[n].waiter = w
             /\ \A i \in 1..n : i # n => serial'[i] = serial[i + 1]
             /\ \A i \in 1..n : i # 1 => i - 1 \in 1..n /\ serial'[i - 1] = serial[i]
<1> DEFINE t == Tail(serial)
           c == [kind |-> kind, waiter |-> w]
<1>1. /\ t \in Seq(Command) /\ Len(serial) = Len(t) + 1 /\ Len(t) \in Nat
      /\ \A i \in 1..Len(t) : t[i] = serial[i + 1]
      /\ c \in Command /\ c.kind = kind /\ c.waiter = w
      /\ serial[1] = Head(serial)
  BY DEF Command
<1> HIDE DEF t, c
<1>2. /\ Len(serial') = Len(t) + 1 /\ serial'[Len(t) + 1] = c
      /\ \A i \in 1..Len(t) : serial'[i] = t[i]
      /\ serial' \in Seq(Command)
  BY <1>1 DEF t, c
<1>3. QED
  BY <1>1, <1>2 DEF c

\* Whoever waited for the first command waits no longer.
LEMMA DoneKeepsWaiting ==
  ASSUME serial \in Seq(Command), Waiting, serial # <<>>, serial' = Tail(serial),
         NEW w \in Waiters, Head(serial).waiter = w,
         handling' = IF w = Chain THEN "none" ELSE handling,
         \A k \in Chunks : chunk'[k] = "duck" => chunk[k] = "duck" /\ k # w
  PROVE  Waiting'
<1>1. ASSUME NEW k \in Chunks, chunk'[k] = "duck"
      PROVE  \E i \in 1..Len(serial') : serial'[i].kind = "duck" /\ serial'[i].waiter = k
  <2>1. PICK i \in 1..Len(serial) : serial[i].kind = "duck" /\ serial[i].waiter = k
    BY <1>1 DEF Waiting, Commands
  <2>2. i # 1
    BY <1>1, <2>1, CommandDone
  <2>3. i - 1 \in 1..Len(serial') /\ serial'[i - 1] = serial[i]
    BY <2>1, <2>2, CommandDone
  <2>4. QED
    BY <2>1, <2>3
<1>2. serial[1].waiter = w
  BY CommandDone
<1>3. QED
  BY <1>1, <1>2, CommandDone DEF Waiting, Commands

\* A step that takes nothing up and starts nothing.
Quiet ==
  /\ line' = line /\ ready' = ready
  /\ hubSegment' = hubSegment \/ hubSegment' = "idle"
  /\ handling' = handling \/ handling' = "none"
  /\ playbackActive' = playbackActive \/ playbackActive' = FALSE
  /\ \/ messageChain' = messageChain
     \/ messageChain # <<>> /\ messageChain' = Tail(messageChain)
  /\ \/ line # "connecting" \/ serial' = serial
     \/ serial # <<>> /\ serial' = Tail(serial)
     \/ serial' = Append(serial, [kind |-> "restore", waiter |-> Nobody])

LEMMA QuietKeepsGreeting ==
  ASSUME serial \in Seq(Command), messageChain \in Seq(Messages), Greeting, Quiet
  PROVE  Greeting'
<1>1. /\ Len(messageChain) \in Nat /\ Len(messageChain') \in Nat
      /\ Len(messageChain') <= Len(messageChain)
  BY DEF Quiet
<1>2. \A i \in 1..Len(messageChain') :
        \E j \in 1..Len(messageChain) : messageChain'[i] = messageChain[j]
  <2>1. CASE messageChain' = messageChain
    BY <2>1
  <2>2. CASE messageChain # <<>> /\ messageChain' = Tail(messageChain)
    <3>1. \A i \in 1..Len(messageChain') :
            i + 1 \in 1..Len(messageChain) /\ messageChain'[i] = messageChain[i + 1]
      BY <2>2
    <3>2. QED
      BY <3>1
  <2>3. QED
    BY <2>1, <2>2 DEF Quiet
<1>3. ASSUME line = "connecting"
      PROVE  \A i \in Commands' : Restores(i)'
  <2>1. \A i \in 1..Len(serial) : serial[i].kind = "restore"
    BY <1>3 DEF Greeting, Commands, Restores
  <2>2. CASE serial' = serial
    BY <1>3, <2>2 DEF Greeting, Commands, Restores
  <2>3. CASE serial # <<>> /\ serial' = Tail(serial)
    BY <2>1, <2>3, CommandDone DEF Commands, Restores
  <2>4. CASE serial' = Append(serial, [kind |-> "restore", waiter |-> Nobody])
    <3>1. Nobody \in Waiters
      BY DEF Waiters
    <3>2. QED
      BY <2>1, <2>4, <3>1, CommandQueued DEF Commands, Restores
  <2>5. QED
    BY <1>3, <2>2, <2>3, <2>4 DEF Quiet
<1>4. line = "connecting" => messageChain' = <<>>
  BY DEF Greeting, Quiet
<1>5. line = "open" /\ ~ready =>
        \A i \in 1..Len(messageChain') :
          messageChain'[i].kind \in {"call_initialized", "interrupt"}
  BY <1>2 DEF Greeting
<1>6. \A i \in 1..Len(messageChain') :
        messageChain'[i].kind = "call_initialized" => line = "open" /\ ~ready
  BY <1>2 DEF Greeting
<1>7. QED
  BY <1>1, <1>3, <1>4, <1>5, <1>6 DEF Greeting, Quiet

-----------------------------------------------------------------------------
(* What stopping the player leaves, and which messages remain.             *)

\* A process that gets a new state stays the process of its connection.
LEMMA StartedOnConnection ==
  ASSUME processes \in Seq(Processes), NEW g \in 1..Len(processes)
  PROVE  processes[g].from \in Nat
<1>1. processes[g] \in Processes
  OBVIOUS
<1>2. QED
  BY <1>1 DEF Processes

LEMMA Gone ==
  ASSUME processes \in Seq(Processes), NEW g \in 1..Len(processes)
  PROVE  \E p \in Processes :
           /\ p.from = processes[g].from /\ p.state = "gone"
           /\ [processes EXCEPT ![g].state = "gone"] = [processes EXCEPT ![g] = p]
<1> DEFINE p == [processes[g] EXCEPT !.state = "gone"]
<1>1. processes[g] \in Processes
  OBVIOUS
<1>2. p \in Processes /\ p.from = processes[g].from /\ p.state = "gone"
  BY <1>1 DEF Processes
<1>3. QED
  BY <1>2

LEMMA Ended ==
  ASSUME processes \in Seq(Processes), NEW g \in 1..Len(processes)
  PROVE  \E p \in Processes :
           /\ p.from = processes[g].from /\ p.state = "ended"
           /\ [processes EXCEPT ![g].state = "ended", ![g].graceful = TRUE]
                = [processes EXCEPT ![g] = p]
<1> DEFINE p == [processes[g] EXCEPT !.state = "ended", !.graceful = TRUE]
<1>1. processes[g] \in Processes
  OBVIOUS
<1>2. p \in Processes /\ p.from = processes[g].from /\ p.state = "ended"
  BY <1>1 DEF Processes
<1>3. [processes EXCEPT ![g].state = "ended", ![g].graceful = TRUE]
        = [processes EXCEPT ![g] = p]
  BY <1>1 DEF Processes
<1>4. QED
  BY <1>2, <1>3

LEMMA Killed ==
  ASSUME processes \in Seq(Processes), NEW g \in 1..Len(processes)
  PROVE  \E p \in Processes :
           /\ p.from = processes[g].from /\ p.state = "killed"
           /\ [processes EXCEPT ![g].state = "killed", ![g].graceful = FALSE]
                = [processes EXCEPT ![g] = p]
<1> DEFINE p == [processes[g] EXCEPT !.state = "killed", !.graceful = FALSE]
<1>1. processes[g] \in Processes
  OBVIOUS
<1>2. p \in Processes /\ p.from = processes[g].from /\ p.state = "killed"
  BY <1>1 DEF Processes
<1>3. [processes EXCEPT ![g].state = "killed", ![g].graceful = FALSE]
        = [processes EXCEPT ![g] = p]
  BY <1>1 DEF Processes
<1>4. QED
  BY <1>2, <1>3

LEMMA Stopped ==
  ASSUME processes \in Seq(Processes), process \in 0..Len(processes),
         \A g \in 1..Len(processes) : Alive(g) => g = process,
         NEW stopped, stopped = StopPlayer(processes)
  PROVE  /\ stopped \in Seq(Processes) /\ Len(stopped) = Len(processes)
         /\ Len(processes) \in Nat
         /\ \A g \in 1..Len(processes) :
              /\ stopped[g].from = processes[g].from
              /\ stopped[g].state \notin {"open", "ended"}
<1>1. CASE process = 0
  BY <1>1 DEF StopPlayer, Alive
<1>2. CASE process # 0
  <2>0. process \in 1..Len(processes)
    BY <1>2
  <2>1. stopped = [processes EXCEPT ![process].state = "killed", ![process].graceful = FALSE]
    BY <1>2 DEF StopPlayer
  <2>2. PICK p \in Processes : /\ p.from = processes[process].from /\ p.state = "killed"
                              /\ stopped = [processes EXCEPT ![process] = p]
    BY <2>0, <2>1, Killed
  <2>3. /\ stopped \in Seq(Processes) /\ Len(stopped) = Len(processes)
        /\ Len(processes) \in Nat /\ stopped[process] = p
        /\ \A h \in 1..Len(processes) : h # process => stopped[h] = processes[h]
    BY <2>0, <2>2
  <2>4. QED
    BY <2>0, <2>2, <2>3 DEF Alive
<1>3. QED
  BY <1>1, <1>2

LEMMA ChainShrinks ==
  ASSUME messageChain \in Seq(Messages), messageChain # <<>>,
         messageChain' = Tail(messageChain)
  PROVE  \A i \in 1..Len(messageChain') :
           i + 1 \in 1..Len(messageChain) /\ messageChain'[i] = messageChain[i + 1]
  OBVIOUS

\* A step that keeps the processes, or stops the player, and hands out no new
\* number.
LEMMA SilenceKeepsVoices ==
  ASSUME messageChain \in Seq(Messages), processes \in Seq(Processes),
         process \in 0..Len(processes), Voices,
         \/ messageChain' = messageChain
         \/ messageChain # <<>> /\ messageChain' = Tail(messageChain),
         connection' = connection, line' # "connecting" \/ line' = line,
         processes' = StopPlayer(processes)
  PROVE  Voices'
<1>1. /\ Len(processes') = Len(processes)
      /\ \A g \in 1..Len(processes') :
           processes'[g].from = processes[g].from /\ ~Alive(g)'
  BY Stopped DEF Voices, Alive
<1>2. \A i \in 1..Len(messageChain') : messageChain'[i].from <= connection
  BY ChainShrinks DEF Voices
<1>3. QED
  BY <1>1, <1>2 DEF Voices


-----------------------------------------------------------------------------
(* The type invariant in parts, each about the state of one owner. For each *)
(* part: which actions change it at all, and that these keep it.            *)

MixerTyped ==
  /\ userLevel \in UserLevels /\ level \in Nat /\ originalPercent \in Nat
  /\ ducked \in BOOLEAN /\ restoreFailed \in BOOLEAN
HubTyped ==
  /\ hubSegment \in {"idle", "opened", "sounding"}
  /\ segments \in 0..MaxSegments /\ interrupts \in 0..MaxInterrupts
  /\ brokenOff \in BOOLEAN
WireTyped ==
  /\ connection \in Nat /\ line \in {"connecting", "open", "closed"}
  /\ heard \in {"nothing", "bot-speaking", "bot-speak-end", "stray end"}
ChainTyped ==
  /\ messageChain \in Seq(Messages)
  /\ handling \in {"none", "speak", "interrupt"}
  /\ handling # "none" => messageChain # <<>>
FlagsTyped ==
  /\ ready \in BOOLEAN /\ playbackActive \in BOOLEAN
  /\ sentenceCompleted \in BOOLEAN /\ requireNewAudioInit \in BOOLEAN
  /\ botSpeakEndSent \in BOOLEAN /\ interrupting \in BOOLEAN
PlayerTyped ==
  /\ processes \in Seq(Processes) /\ process \in 0..Len(processes)
  /\ playbackGeneration \in 0..Len(processes)

LEMMA TypeInParts ==
  TypeOK <=> /\ MixerTyped /\ serial \in Seq(Command) /\ HubTyped /\ WireTyped
             /\ ChainTyped /\ chunk \in [Chunks -> {"idle", "duck", "interrupt"}]
             /\ FlagsTyped /\ PlayerTyped
  BY DEF TypeOK, MixerTyped, HubTyped, WireTyped, ChainTyped, FlagsTyped,
     PlayerTyped



\* A chunk that ducks has its command in the queue.
LEMMA DuckIsQueued ==
  ASSUME IInv, NEW k \in Chunks, chunk[k] = "duck"
  PROVE  serial # <<>>
<1>1. PICK i \in 1..Len(serial) : serial[i].kind = "duck"
  BY DEF IInv, Waiting, Commands
<1>2. serial \in Seq(Command)
  BY DEF IInv, TypeOK, Command, Waiters
<1>3. QED
  BY <1>1, <1>2


\* A restore that is queued covers every duck before it.
LEMMA RestoreQueued ==
  ASSUME serial \in Seq(Command), Mixer, NEW w \in Waiters,
         serial' = Append(serial, [kind |-> "restore", waiter |-> w]),
         UNCHANGED <<userLevel, level, originalPercent, ducked, restoreFailed>>
  PROVE  Mixer'
<1>1. \A i \in 1..Len(serial') : i = Len(serial) + 1 \/ i \in 1..Len(serial)
  BY CommandQueued
<1>2. /\ Len(serial) + 1 \in 1..Len(serial')
      /\ serial'[Len(serial) + 1].kind = "restore"
      /\ \A i \in 1..Len(serial) : i < Len(serial) + 1
  BY CommandQueued
<1>3. QED
  BY <1>1, <1>2 DEF Mixer, Commands, Restores

\* A restore that is through has restored the level, or has failed.
LEMMA RestoreIsDone ==
  ASSUME serial \in Seq(Command), Mixer, NEW w, RestoreDone(w),
         playbackActive' = playbackActive, interrupting' = interrupting
  PROVE  Mixer'
<1>1. serial # <<>> /\ serial' = Tail(serial) /\ Head(serial).kind = "restore"
  BY DEF RestoreDone
<1>2. serial[1].kind = "restore"
  BY <1>1, CommandDone
<1>3. \A i \in 1..Len(serial') :
        ~(serial'[i].kind = "restore") =>
          \/ playbackActive /\ ~interrupting
          \/ \E j \in 1..Len(serial') : i < j /\ serial'[j].kind = "restore"
  <2>1. ASSUME NEW i \in 1..Len(serial'), serial'[i].kind # "restore",
               ~(playbackActive /\ ~interrupting)
        PROVE  \E j \in 1..Len(serial') : i < j /\ serial'[j].kind = "restore"
    <3>1. i + 1 \in 1..Len(serial) /\ serial[i + 1].kind # "restore"
      BY <1>1, <2>1, CommandDone
    <3>2. PICK j \in 1..Len(serial) : i + 1 < j /\ serial[j].kind = "restore"
      BY <2>1, <3>1 DEF Mixer, Commands, Restores
    <3>3. j - 1 \in 1..Len(serial') /\ serial'[j - 1] = serial[j] /\ i < j - 1
      BY <1>1, <3>1, <3>2, CommandDone
    <3>4. QED
      BY <3>2, <3>3
  <2>2. QED
    BY <2>1
<1>4. /\ ducked' => originalPercent' = userLevel'
      /\ ~ducked' => level' = userLevel'
      /\ ducked' => restoreFailed'
  BY DEF RestoreDone, restore, Mixer
<1>5. QED
  BY <1>3, <1>4 DEF Mixer, Commands, Restores

\* The queue of the mixer and those who wait in it.
LEMMA WaitingStep ==
  ASSUME IInv, Next
  PROVE  Waiting'
<1>a. /\ serial \in Seq(Command)
      /\ chunk \in [Chunks -> {"idle", "duck", "interrupt"}]
      /\ Waiting
  BY DEF IInv, TypeOK, Command, Waiters
<1>b. /\ Chunks \subseteq Waiters /\ Chain \in Waiters /\ Nobody \in Waiters
      /\ Chain \notin Chunks /\ Nobody \notin Chunks \union {Chain}
  BY ClientAssumption DEF Waiters
<1>1. CASE HubGreets
  BY <1>1, <1>a, <1>b DEF HubGreets, HubSends, Message, HubStep, MustHandle,
      hub, wire, playback, player, volume, Waiting, Commands
<1>2. CASE HubOpensSegment
  BY <1>2, <1>a, <1>b DEF HubOpensSegment, HubSends, Message, HubStep,
      MustHandle, hub, wire, playback, player, volume, Waiting, Commands
<1>3. CASE HubAudio
  BY <1>3, <1>a, <1>b DEF HubAudio, HubSends, Message, HubStep, MustHandle,
      hub, wire, playback, player, volume, Waiting, Commands
<1>4. CASE HubEndsSegment
  BY <1>4, <1>a, <1>b DEF HubEndsSegment, HubSends, Message, HubStep,
      MustHandle, hub, wire, playback, player, volume, Waiting, Commands
<1>5. CASE HubBreaksOff
  BY <1>5, <1>a, <1>b DEF HubBreaksOff, HubStep, MustHandle, hub, wire,
      playback, player, volume, Waiting, Commands
<1>6. CASE HubInterrupts
  BY <1>6, <1>a, <1>b DEF HubInterrupts, HubSends, Message, HubStep,
      MustHandle, hub, wire, playback, player, volume, Waiting, Commands
<1>7. CASE Open
  BY <1>7, <1>a, <1>b DEF Open, MustHandle, resetConversationState, hub,
      handlers, player, volume, Waiting, Commands
<1>8. CASE Close
  <2>1. /\ serial' = Append(serial, [kind |-> "restore", waiter |-> Nobody])
        /\ handling' = handling /\ chunk' = chunk
    BY <1>8 DEF Close, enqueue, handlers
  <2>2. QED
    BY <2>1, <1>a, <1>b, CommandQueued DEF Waiting, Commands
<1>9. CASE Reconnect
  BY <1>9, <1>a, <1>b DEF Reconnect, MustHandle, VolumeIdle, hub, handlers,
      playback, player, volume, Waiting, Commands
<1>10. CASE HandleReady
  BY <1>10, <1>a, <1>b DEF HandleReady, Handles, hub, wire, playback, player,
      volume, Waiting, Commands
<1>11. CASE HandleAudioInit
  <2>1. /\ serial' = Append(serial, [kind |-> "restore", waiter |-> Chain])
        /\ handling = "none" /\ handling' = "speak" /\ chunk' = chunk
    BY <1>11 DEF HandleAudioInit, Handles, enqueue, wire
  <2>2. QED
    BY <2>1, <1>a, <1>b, CommandQueued DEF Waiting, Commands
<1>12. CASE HandleAudio
  BY <1>12, <1>a, <1>b DEF HandleAudio, Handles, hub, wire, playback, player,
      volume, Waiting, Commands
<1>13. CASE HandleAudioEnd
  BY <1>13, <1>a, <1>b DEF HandleAudioEnd, Handles, FinishPlayer, hub, wire,
      player, volume, Waiting, Commands
<1>14. CASE HandleLateInterrupt
  BY <1>14, <1>a, <1>b DEF HandleLateInterrupt, Handles, hub, wire, playback,
      player, volume, Waiting, Commands
<1>15. CASE HandleInterrupt
  <2>1. /\ serial' = Append(serial, [kind |-> "restore", waiter |-> Chain])
        /\ handling = "none" /\ handling' = "interrupt" /\ chunk' = chunk
    BY <1>15 DEF HandleInterrupt, Handles, enqueue, wire
  <2>2. QED
    BY <2>1, <1>a, <1>b, CommandQueued DEF Waiting, Commands
<1>16. ASSUME NEW k \in Chunks, HearLoudChunk(k)
       PROVE  Waiting'
  <2>1. /\ serial' = Append(serial, [kind |-> "duck", waiter |-> k])
        /\ handling' = handling /\ chunk' = [chunk EXCEPT ![k] = "duck"]
    BY <1>16 DEF HearLoudChunk, enqueue
  <2>2. QED
    BY <2>1, <1>a, <1>b, CommandQueued DEF Waiting, Commands
<1>17. CASE CooldownEnds
  BY <1>17, <1>a, <1>b DEF CooldownEnds, MustHandle, hub, wire, handlers,
      playback, player, volume, Waiting, Commands
<1>18. ASSUME NEW g \in DOMAIN processes, PlayerExits(g)
       PROVE  Waiting'
  <2>1. CASE g = playbackGeneration
    <3>1. /\ serial' = Append(serial, [kind |-> "restore", waiter |-> Nobody])
          /\ handling' = handling /\ chunk' = chunk
      BY <1>18, <2>1 DEF PlayerExits, OfCurrentPlayback, enqueue, handlers
    <3>2. QED
      BY <3>1, <1>a, <1>b, CommandQueued DEF Waiting, Commands
  <2>2. CASE g # playbackGeneration
    BY <1>18, <2>2, <1>a
       DEF PlayerExits, OfCurrentPlayback, handlers, volume, Waiting, Commands
  <2>3. QED
    BY <2>1, <2>2
<1>19. CASE NobodyResumes
  <2>1. /\ serial # <<>> /\ Head(serial) = [kind |-> "restore", waiter |-> Nobody]
        /\ serial' = Tail(serial)
        /\ handling' = handling /\ chunk' = chunk
    BY <1>19, <1>a DEF NobodyResumes, RestoreDone, handlers
  <2>2. Head(serial).waiter = Nobody /\ Nobody \in Waiters
    BY <2>1, <1>b
  <2>3. QED
    BY <2>1, <2>2, <1>a, <1>b, DoneKeepsWaiting
<1>20. CASE MessageHandled
  <2>1. /\ serial # <<>> /\ Head(serial) = [kind |-> "restore", waiter |-> Chain]
        /\ serial' = Tail(serial)
        /\ handling' = "none" /\ chunk' = chunk
    BY <1>20, <1>a DEF MessageHandled, RestoreDone
  <2>2. Head(serial).waiter = Chain /\ Chain \in Waiters
    BY <2>1, <1>b
  <2>3. QED
    BY <2>1, <2>2, <1>a, <1>b, DoneKeepsWaiting
<1>21. ASSUME NEW k \in Chunks, ChunkTooLate(k)
       PROVE  Waiting'
  <2>0. chunk[k] = "duck" /\ serial # <<>>
    BY <1>21, <1>a DEF ChunkTooLate, Waiting, Commands, Command
  <2>1. /\ serial # <<>> /\ Head(serial) = [kind |-> "duck", waiter |-> k]
        /\ serial' = Tail(serial)
        /\ handling' = handling /\ chunk' = [chunk EXCEPT ![k] = "idle"]
    BY <1>21, <1>a, <2>0 DEF ChunkTooLate, DuckDone
  <2>2. Head(serial).waiter = k /\ k \in Waiters
    BY <2>1, <1>b
  <2>3. QED
    BY <2>1, <2>2, <1>a, <1>b, DoneKeepsWaiting
<1>22. ASSUME NEW k \in Chunks, ChunkInterrupts(k)
       PROVE  Waiting'
  <2>1. /\ serial # <<>> /\ Head(serial) = [kind |-> "duck", waiter |-> k]
        /\ serial' = Append(Tail(serial), [kind |-> "restore", waiter |-> k])
        /\ handling' = handling /\ chunk' = [chunk EXCEPT ![k] = "interrupt"]
    BY <1>22, <1>a DEF ChunkInterrupts, DuckDone, Waiting, Commands
  <2>2. serial[1].kind = "duck" /\ serial[1].waiter = k
    BY <2>1, <1>a, <1>b, CommandReplaced
  <2>3. ASSUME NEW m \in Chunks, chunk'[m] = "duck"
        PROVE  \E i \in 1..Len(serial') : serial'[i].kind = "duck" /\ serial'[i].waiter = m
    <3>1. PICK i \in 1..Len(serial) : serial[i].kind = "duck" /\ serial[i].waiter = m
      BY <1>a, <2>1, <2>3 DEF Waiting, Commands
    <3>2. i # 1
      BY <1>a, <1>b, <2>1, <2>2, <2>3, <3>1
    <3>3. i - 1 \in 1..Len(serial') /\ serial'[i - 1] = serial[i]
      BY <1>a, <1>b, <2>1, <3>1, <3>2, CommandReplaced
    <3>4. QED
      BY <3>1, <3>3
  <2>4. QED
    BY <2>1, <2>2, <2>3, <1>a, <1>b, CommandReplaced DEF Waiting, Commands
<1>23. ASSUME NEW k \in Chunks, ChunkHandled(k)
       PROVE  Waiting'
  <2>1. /\ serial # <<>> /\ Head(serial) = [kind |-> "restore", waiter |-> k]
        /\ serial' = Tail(serial)
        /\ handling' = handling /\ chunk' = [chunk EXCEPT ![k] = "idle"]
    BY <1>23, <1>a DEF ChunkHandled, RestoreDone
  <2>2. Head(serial).waiter = k /\ k \in Waiters
    BY <2>1, <1>b
  <2>3. QED
    BY <2>1, <2>2, <1>a, <1>b, DoneKeepsWaiting
<1>24. QED
  BY <1>1, <1>2, <1>3, <1>4, <1>5, <1>6, <1>7, <1>8, <1>9, <1>10, <1>11, <1>12,
      <1>13, <1>14, <1>15, <1>16, <1>17, <1>18, <1>19, <1>20, <1>21, <1>22,
      <1>23 DEF Next, HubContinues, Handle, CommandEnds

\* Until call_initialized nothing else happens.
LEMMA GreetingStep ==
  ASSUME IInv, Next
  PROVE  Greeting'
<1>a. /\ serial \in Seq(Command)
      /\ messageChain \in Seq(Messages)
      /\ Waiting /\ Greeting
  BY DEF IInv, TypeOK, Command, Waiters, Messages
<1>b. /\ ready \in BOOLEAN /\ playbackActive \in BOOLEAN /\ interrupting \in BOOLEAN
      /\ line \in {"connecting", "open", "closed"}
      /\ handling \in {"none", "speak", "interrupt"}
      /\ chunk \in [Chunks -> {"idle", "duck", "interrupt"}]
      /\ connection \in Nat
  BY DEF IInv, TypeOK
<1>c. Chunks \subseteq Waiters /\ Chain \in Waiters /\ Nobody \in Waiters
  BY DEF Waiters
<1>1. CASE HubGreets
  BY <1>1, <1>a, <1>b, ClientAssumption DEF HubGreets, HubSends, Message,
      HubStep, MustHandle, hub, wire, playback, player, volume, Waiting,
      Greeting, Commands, Restores, Messages, Command, Waiters
<1>2. CASE HubOpensSegment
  BY <1>2, <1>a, <1>b, ClientAssumption DEF HubOpensSegment, HubSends, Message,
      HubStep, MustHandle, hub, wire, playback, player, volume, Waiting,
      Greeting, Commands, Restores, Messages, Command, Waiters
<1>3. CASE HubAudio
  BY <1>3, <1>a, <1>b, ClientAssumption DEF HubAudio, HubSends, Message,
      HubStep, MustHandle, hub, wire, playback, player, volume, Waiting,
      Greeting, Commands, Restores, Messages, Command, Waiters
<1>4. CASE HubEndsSegment
  BY <1>4, <1>a, <1>b, ClientAssumption DEF HubEndsSegment, HubSends, Message,
      HubStep, MustHandle, hub, wire, playback, player, volume, Waiting,
      Greeting, Commands, Restores, Messages, Command, Waiters
<1>5. CASE HubBreaksOff
  <2>1. Quiet
    BY <1>5, <1>a, <1>b DEF HubBreaksOff, HubStep, wire, playback, volume, Quiet
  <2>2. QED
    BY <2>1, <1>a, QuietKeepsGreeting
<1>6. CASE HubInterrupts
  BY <1>6, <1>a, <1>b, ClientAssumption DEF HubInterrupts, HubSends, Message,
      HubStep, MustHandle, hub, wire, playback, player, volume, Waiting,
      Greeting, Commands, Restores, Messages, Command, Waiters
<1>7. CASE Open
  <2>1. messageChain = <<>> /\ handling = "none" /\ hubSegment = "idle"
    BY <1>7, <1>a DEF Open, Greeting, IInv, TypeOK
  <2>2. /\ messageChain' = <<>> /\ handling' = "none" /\ hubSegment' = "idle"
        /\ ~ready' /\ ~playbackActive' /\ line' = "open"
    BY <1>7, <2>1 DEF Open, resetConversationState, hub, handlers
  <2>3. QED
    BY <2>2 DEF Greeting
<1>8. CASE Close
  BY <1>8, <1>a, <1>b, ClientAssumption DEF Close, MustHandle,
      resetConversationState, StopPlayer, enqueue, handlers, Waiting, Greeting,
      Commands, Restores, Messages, Command, Waiters
<1>9. CASE Reconnect
  BY <1>9, <1>a, <1>b, ClientAssumption DEF Reconnect, MustHandle, VolumeIdle,
      hub, handlers, playback, player, volume, Waiting, Greeting, Commands,
      Restores, Messages, Command, Waiters
<1>10. CASE HandleReady
  BY <1>10, <1>a, <1>b, ClientAssumption DEF HandleReady, Handles, hub, wire,
      playback, player, volume, Waiting, Greeting, Commands, Restores,
      Messages, Command, Waiters
<1>11. CASE HandleAudioInit
  <2>1. messageChain # <<>> /\ Head(messageChain).kind = "audio-init"
    BY <1>11 DEF HandleAudioInit, Handles
  <2>2. 1 \in 1..Len(messageChain) /\ messageChain[1].kind = "audio-init"
    BY <1>a, <2>1 DEF Messages
  <2>3. line # "connecting" /\ ~(line = "open" /\ ~ready)
    BY <1>a, <2>2 DEF Greeting
  <2>4. /\ line' = line
        /\ ready' = ready
        /\ messageChain' = messageChain
        /\ hubSegment' = hubSegment
    BY <1>11 DEF HandleAudioInit, hub, wire
  <2>5. QED
    BY <1>a, <1>b, <2>3, <2>4 DEF Greeting
<1>12. CASE HandleAudio
  <2>1. Quiet
    BY <1>12, <1>a, <1>b
       DEF HandleAudio, Handles, hub, wire, playback, player, volume, Quiet
  <2>2. QED
    BY <2>1, <1>a, QuietKeepsGreeting
<1>13. CASE HandleAudioEnd
  <2>1. Quiet
    BY <1>13, <1>a, <1>b DEF HandleAudioEnd, Handles, hub, wire, volume, Quiet
  <2>2. QED
    BY <2>1, <1>a, QuietKeepsGreeting
<1>14. CASE HandleLateInterrupt
  <2>1. Quiet
    BY <1>14, <1>a, <1>b
       DEF HandleLateInterrupt, Handles, hub, wire, playback, player, volume,
           Quiet
  <2>2. QED
    BY <2>1, <1>a, QuietKeepsGreeting
<1>15. CASE HandleInterrupt
  BY <1>15, <1>a, <1>b, ClientAssumption DEF HandleInterrupt, Handles,
      detectInterrupt, InterruptedAlready, StopPlayer, enqueue, hub, wire,
      Waiting, Greeting, Commands, Restores, Messages, Command, Waiters
<1>16. ASSUME NEW k \in Chunks, HearLoudChunk(k)
       PROVE  Greeting'
  BY <1>16, <1>a, <1>b, ClientAssumption DEF HearLoudChunk, MustHandle,
      InterruptedAlready, enqueue, hub, wire, playback, player, Waiting,
      Greeting, Commands, Restores, Messages, Command, Waiters
<1>17. CASE CooldownEnds
  <2>1. Quiet
    BY <1>17, <1>a, <1>b
       DEF CooldownEnds, hub, wire, handlers, playback, volume, Quiet
  <2>2. QED
    BY <2>1, <1>a, QuietKeepsGreeting
<1>18. ASSUME NEW g \in DOMAIN processes, PlayerExits(g)
       PROVE  Greeting'
  <2>1. Quiet
    BY <1>18, <1>a, <1>b DEF PlayerExits, enqueue, hub, handlers, volume, Quiet
  <2>2. QED
    BY <2>1, <1>a, QuietKeepsGreeting
<1>19. CASE NobodyResumes
  <2>1. Quiet
    BY <1>19, <1>a, <1>b
       DEF NobodyResumes, RestoreDone, hub, wire, handlers, playback, Quiet
  <2>2. QED
    BY <2>1, <1>a, QuietKeepsGreeting
<1>20. CASE MessageHandled
  <2>0. handling # "none" /\ messageChain # <<>>
    <3>1. serial # <<>> /\ Head(serial) = [kind |-> "restore", waiter |-> Chain]
      BY <1>20 DEF MessageHandled, RestoreDone
    <3>2. 1 \in 1..Len(serial) /\ serial[1].waiter = Chain
      BY <1>a, <3>1 DEF Command
    <3>3. QED
      BY <1>a, <3>2 DEF Waiting, Commands, IInv, TypeOK
  <2>1. Quiet
    BY <1>20, <1>a, <1>b, <2>0 DEF MessageHandled, RestoreDone, hub, playback,
       Quiet
  <2>2. QED
    BY <2>1, <1>a, QuietKeepsGreeting
<1>21. ASSUME NEW k \in Chunks, ChunkTooLate(k)
       PROVE  Greeting'
  <2>0. chunk[k] = "duck" /\ serial # <<>>
    BY <1>21, <1>a DEF ChunkTooLate, Waiting, Commands, Command
  <2>1. Quiet
    BY <1>21, <1>a, <1>b, <2>0
       DEF ChunkTooLate, DuckDone, hub, wire, playback, Quiet
  <2>2. QED
    BY <2>1, <1>a, QuietKeepsGreeting
<1>22. ASSUME NEW k \in Chunks, ChunkInterrupts(k)
       PROVE  Greeting'
  <2>1. line # "connecting"
    BY <1>22, <1>a
       DEF ChunkInterrupts, Waiting, Greeting, Commands, Restores, Command
  <2>2. Quiet
    BY <1>22, <1>a, <2>1 DEF ChunkInterrupts, detectInterrupt, hub, wire, Quiet
  <2>3. QED
    BY <2>2, <1>a, QuietKeepsGreeting
<1>23. ASSUME NEW k \in Chunks, ChunkHandled(k)
       PROVE  Greeting'
  <2>1. Quiet
    BY <1>23, <1>a, <1>b DEF ChunkHandled, RestoreDone, hub, playback, Quiet
  <2>2. QED
    BY <2>1, <1>a, QuietKeepsGreeting
<1>24. QED
  BY <1>1, <1>2, <1>3, <1>4, <1>5, <1>6, <1>7, <1>8, <1>9, <1>10, <1>11, <1>12,
      <1>13, <1>14, <1>15, <1>16, <1>17, <1>18, <1>19, <1>20, <1>21, <1>22,
      <1>23 DEF Next, HubContinues, Handle, CommandEnds


\* Who resumes the chain finds the message it handled.
LEMMA ChainIsWaited ==
  ASSUME IInv, MessageHandled
  PROVE  handling # "none" /\ messageChain # <<>>
<1>1. serial # <<>> /\ Head(serial) = [kind |-> "restore", waiter |-> Chain]
  BY DEF MessageHandled, RestoreDone
<1>2. serial \in Seq(Command)
  BY DEF IInv, TypeOK, Command, Waiters
<1>3. 1 \in 1..Len(serial) /\ serial[1].waiter = Chain
  BY <1>1, <1>2 DEF Command
<1>4. QED
  BY <1>3 DEF Waiting, Commands, IInv, TypeOK

\* Voices.
LEMMA VoicesStep ==
  ASSUME IInv, Next
  PROVE  Voices'
<1>a. /\ messageChain \in Seq(Messages)
      /\ processes \in Seq(Processes) /\ process \in 0..Len(processes)
      /\ playbackGeneration \in 0..Len(processes)
      /\ Voices
  BY DEF IInv, TypeOK, Messages, Processes
<1>b. /\ connection \in Nat /\ line \in {"connecting", "open", "closed"}
      /\ playbackActive \in BOOLEAN /\ interrupting \in BOOLEAN
  BY DEF IInv, TypeOK
<1>1. CASE HubGreets
  BY <1>1, <1>a, <1>b, ClientAssumption DEF HubGreets, HubSends, Message,
      HubStep, MustHandle, hub, wire, playback, player, volume, Voices, Alive,
      Messages, Processes
<1>2. CASE HubOpensSegment
  BY <1>2, <1>a, <1>b, ClientAssumption DEF HubOpensSegment, HubSends, Message,
      HubStep, MustHandle, hub, wire, playback, player, volume, Voices, Alive,
      Messages, Processes
<1>3. CASE HubAudio
  BY <1>3, <1>a, <1>b, ClientAssumption DEF HubAudio, HubSends, Message,
      HubStep, MustHandle, hub, wire, playback, player, volume, Voices, Alive,
      Messages, Processes
<1>4. CASE HubEndsSegment
  BY <1>4, <1>a, <1>b, ClientAssumption DEF HubEndsSegment, HubSends, Message,
      HubStep, MustHandle, hub, wire, playback, player, volume, Voices, Alive,
      Messages, Processes
<1>5. CASE HubBreaksOff
  BY <1>5, <1>a, <1>b, ClientAssumption DEF HubBreaksOff, HubStep, MustHandle,
      hub, wire, playback, player, volume, Voices, Alive, Messages, Processes
<1>6. CASE HubInterrupts
  BY <1>6, <1>a, <1>b, ClientAssumption DEF HubInterrupts, HubSends, Message,
      HubStep, MustHandle, hub, wire, playback, player, volume, Voices, Alive,
      Messages, Processes
<1>7. CASE Open
  <2>1. /\ connection' = connection /\ line = "connecting"
        /\ messageChain' = messageChain /\ UNCHANGED player
    BY <1>7 DEF Open, handlers
  <2>2. QED
    BY <2>1, <1>a, <1>b DEF Voices, Alive, player, Processes
<1>8. CASE Close
  <2>1. /\ messageChain' = messageChain /\ connection' = connection
        /\ line' # "connecting" \/ line' = line
        /\ processes' = StopPlayer(processes)
    BY <1>8 DEF Close, handlers
  <2>2. QED
    BY <2>1, <1>a, SilenceKeepsVoices
<1>9. CASE Reconnect
  <2>1. /\ connection' = connection + 1 /\ line' = "connecting"
        /\ messageChain' = <<>> /\ processes' = processes /\ process' = process
    BY <1>9 DEF Reconnect, handlers, player
  <2>2. /\ Len(processes) \in Nat
        /\ \A g \in 1..Len(processes) : processes[g].from \in Nat /\ processes[g].from # connection + 1
    <3>1. \A g \in 1..Len(processes) : processes[g].from \in Nat
      BY <1>a, StartedOnConnection
    <3>2. QED
      BY <1>a, <1>b, <3>1 DEF Voices
  <2>3. \A g \in 1..Len(processes) : Alive(g)' = Alive(g)
    BY <2>1 DEF Alive
  <2>4. \A g \in 1..Len(processes) : processes[g].from <= connection + 1
    BY <2>2, <1>a, <1>b DEF Voices
  <2>5. QED
    BY <2>1, <2>2, <2>3, <2>4, <1>a DEF Voices
<1>10. CASE HandleReady
  <2>1. /\ messageChain # <<>> /\ messageChain' = Tail(messageChain)
        /\ UNCHANGED <<connection, line, playbackActive, playbackGeneration, player>>
    BY <1>10 DEF HandleReady, Handles, wire, playback
  <2>2. QED
    BY <2>1, <1>a, ChainShrinks DEF Voices, Alive, player
<1>11. CASE HandleAudioInit
  <2> DEFINE stopped == StopPlayer(processes)
             n == Len(processes) + 1
             c == Head(messageChain).from
  <2>1. /\ messageChain' = messageChain /\ connection' = connection /\ line' = line
        /\ processes' = Append(stopped, Started(c))
        /\ process' = Len(processes) + 1 /\ playbackGeneration' = process'
        /\ playbackActive' = TRUE
    <3>1. /\ messageChain' = messageChain
          /\ connection' = connection
          /\ line' = line
          /\ processes' = Append(stopped, Started(c)) /\ playbackActive' = TRUE
          /\ playbackGeneration' = process'
      BY <1>11 DEF HandleAudioInit, StartPlayer, wire
    <3>2. process' = Len(processes) + 1
      BY <1>11 DEF HandleAudioInit, StartPlayer
    <3>3. QED
      BY <3>1, <3>2
  <2>2. messageChain # <<>> /\ c \in Nat /\ c <= connection
    <3>1. messageChain # <<>>
      BY <1>11 DEF HandleAudioInit, Handles
    <3>2. 1 \in 1..Len(messageChain) /\ c = messageChain[1].from /\ messageChain[1] \in Messages
      BY <1>a, <3>1
    <3>3. QED
      BY <1>a, <3>1, <3>2 DEF Voices, Messages
  <2>3. /\ stopped \in Seq(Processes) /\ Len(stopped) = Len(processes)
        /\ Len(processes) \in Nat
        /\ \A g \in 1..Len(processes) :
             stopped[g].from = processes[g].from /\ stopped[g].state \notin {"open", "ended"}
    BY <1>a, Stopped DEF Voices
  <2> HIDE DEF stopped, c
  <2>4. /\ Len(processes') = n /\ process' = n /\ playbackGeneration' = n
        /\ processes'[n].from = c
        /\ \A g \in 1..Len(processes) : processes'[g] = stopped[g]
    BY <2>1, <2>2, <2>3 DEF Started, Processes
  <2>5. line # "connecting"
    BY <1>11, <1>a, <2>2 DEF IInv, Greeting
  <2>6. \A g \in 1..n : g = n \/ g \in 1..Len(processes)
    BY <2>3
  <2>7. \A g \in 1..n : (Alive(g)' => g = n) /\ processes'[g].from <= connection
    BY <2>2, <2>3, <2>4, <2>6, <1>a DEF Voices, Alive
  <2>8. QED
    BY <2>1, <2>4, <2>5, <2>7, <1>a DEF Voices
<1>12. CASE HandleAudio
  <2>1. /\ messageChain # <<>> /\ messageChain' = Tail(messageChain)
        /\ UNCHANGED <<connection, line, playbackActive, playbackGeneration, player>>
    BY <1>12 DEF HandleAudio, Handles, wire, playback
  <2>2. QED
    BY <2>1, <1>a, ChainShrinks DEF Voices, Alive, player
<1>13. CASE HandleAudioEnd
  <2>1. /\ messageChain # <<>> /\ messageChain' = Tail(messageChain)
        /\ UNCHANGED <<connection, line, playbackActive, playbackGeneration, process>>
    BY <1>13 DEF HandleAudioEnd, Handles, FinishPlayer, wire
  <2>2. /\ Len(processes') = Len(processes) /\ Len(processes) \in Nat
        /\ \A g \in 1..Len(processes) :
             processes'[g].from = processes[g].from /\ (Alive(g)' => Alive(g))
    <3>1. CASE process = 0 \/ processes[process].state # "open"
      BY <1>13, <1>a, <3>1 DEF HandleAudioEnd, FinishPlayer, Alive
    <3>2. CASE ~(process = 0 \/ processes[process].state # "open")
      <4>0. process \in 1..Len(processes) /\ Alive(process)
        BY <1>a, <3>2 DEF Alive
      <4>1. processes' = [processes EXCEPT ![process].state = "ended", ![process].graceful = TRUE]
        BY <1>13, <3>2 DEF HandleAudioEnd, FinishPlayer
      <4>2. PICK p \in Processes : /\ p.from = processes[process].from
                                 /\ processes' = [processes EXCEPT ![process] = p]
        BY <4>0, <4>1, <1>a, Ended
      <4>3. /\ Len(processes') = Len(processes) /\ Len(processes) \in Nat
            /\ processes'[process] = p
            /\ \A h \in 1..Len(processes) : h # process => processes'[h] = processes[h]
        BY <4>0, <4>2, <1>a
      <4>4. QED
        BY <4>0, <4>2, <4>3 DEF Alive
    <3>3. QED
      BY <3>1, <3>2
  <2>3. QED
    BY <2>1, <2>2, <1>a, ChainShrinks DEF Voices
<1>14. CASE HandleLateInterrupt
  <2>1. /\ messageChain # <<>> /\ messageChain' = Tail(messageChain)
        /\ UNCHANGED <<connection, line, playbackActive, playbackGeneration, player>>
    BY <1>14 DEF HandleLateInterrupt, Handles, wire, playback
  <2>2. QED
    BY <2>1, <1>a, ChainShrinks DEF Voices, Alive, player
<1>15. CASE HandleInterrupt
  <2>1. /\ messageChain' = messageChain /\ connection' = connection
        /\ line' # "connecting" \/ line' = line
        /\ processes' = StopPlayer(processes)
    BY <1>15 DEF HandleInterrupt, detectInterrupt, wire
  <2>2. QED
    BY <2>1, <1>a, SilenceKeepsVoices
<1>16. ASSUME NEW k \in Chunks, HearLoudChunk(k)
       PROVE  Voices'
  BY <1>16, <1>a, <1>b, ClientAssumption DEF HearLoudChunk, MustHandle,
      InterruptedAlready, enqueue, hub, wire, playback, player, Voices, Alive,
      Messages, Processes
<1>17. CASE CooldownEnds
  BY <1>17, <1>a, <1>b, ClientAssumption DEF CooldownEnds, MustHandle, hub,
      wire, handlers, playback, player, volume, Voices, Alive, Messages,
      Processes
<1>18. ASSUME NEW g \in DOMAIN processes, PlayerExits(g)
       PROVE  Voices'
  <2>1. /\ messageChain' = messageChain /\ connection' = connection /\ line' = line
        /\ playbackGeneration' = playbackGeneration
        /\ g # playbackGeneration => playbackActive' = playbackActive
        /\ process' = IF process = g THEN 0 ELSE process
    BY <1>18 DEF PlayerExits, OfCurrentPlayback, handlers
  <2>2. /\ Len(processes') = Len(processes) /\ Len(processes) \in Nat
        /\ ~Alive(g)'
        /\ \A h \in 1..Len(processes) :
             processes'[h].from = processes[h].from /\ (Alive(h)' => Alive(h))
    <3>1. /\ g \in 1..Len(processes)
          /\ processes' = [processes EXCEPT ![g].state = "gone"]
      BY <1>18, <1>a DEF PlayerExits
    <3>2. PICK p \in Processes : /\ p.from = processes[g].from /\ p.state = "gone"
                               /\ processes' = [processes EXCEPT ![g] = p]
      BY <3>1, <1>a, Gone
    <3>3. /\ Len(processes') = Len(processes) /\ Len(processes) \in Nat
          /\ processes'[g] = p
          /\ \A h \in 1..Len(processes) : h # g => processes'[h] = processes[h]
      BY <3>1, <3>2, <1>a
    <3>4. QED
      BY <3>1, <3>2, <3>3 DEF Alive
  <2>3. \A h \in 1..Len(processes') : Alive(h)' => h # g /\ Alive(h) /\ h = process
    BY <2>2, <1>a DEF Voices
  <2>4. \A h \in 1..Len(processes') :
          Alive(h)' /\ processes'[h].from = connection /\ line # "connecting" =>
            playbackActive' /\ playbackGeneration = h
    BY <2>1, <2>2, <2>3, <1>a, <1>b DEF Voices
  <2>5. QED
    BY <2>1, <2>2, <2>3, <2>4, <1>a DEF Voices
<1>19. CASE NobodyResumes
  BY <1>19, <1>a, <1>b, ClientAssumption DEF NobodyResumes, MustHandle,
      RestoreDone, restore, hub, wire, handlers, playback, player, Voices,
      Alive, Messages, Processes
<1>20. CASE MessageHandled
  <2>1. messageChain # <<>>
    BY <1>20, ChainIsWaited
  <2>2. /\ messageChain # <<>> /\ messageChain' = Tail(messageChain)
        /\ UNCHANGED <<connection, line, playbackActive, playbackGeneration, player>>
    BY <1>20, <2>1 DEF MessageHandled, playback
  <2>3. QED
    BY <2>2, <1>a, ChainShrinks DEF Voices, Alive, player
<1>21. ASSUME NEW k \in Chunks, ChunkTooLate(k)
       PROVE  Voices'
  BY <1>21, <1>a, <1>b, ClientAssumption DEF ChunkTooLate, MustHandle,
      DuckDone, duck, InterruptedAlready, hub, wire, playback, player, Voices,
      Alive, Messages, Processes
<1>22. ASSUME NEW k \in Chunks, ChunkInterrupts(k)
       PROVE  Voices'
  <2>1. /\ messageChain' = messageChain /\ connection' = connection
        /\ line' # "connecting" \/ line' = line
        /\ processes' = StopPlayer(processes)
    BY <1>22 DEF ChunkInterrupts, detectInterrupt, wire
  <2>2. QED
    BY <2>1, <1>a, SilenceKeepsVoices
<1>23. ASSUME NEW k \in Chunks, ChunkHandled(k)
       PROVE  Voices'
  BY <1>23, <1>a, <1>b, ClientAssumption DEF ChunkHandled, MustHandle,
      RestoreDone, restore, Tell, hub, playback, player, Voices, Alive,
      Messages, Processes
<1>24. QED
  BY <1>1, <1>2, <1>3, <1>4, <1>5, <1>6, <1>7, <1>8, <1>9, <1>10, <1>11, <1>12,
      <1>13, <1>14, <1>15, <1>16, <1>17, <1>18, <1>19, <1>20, <1>21, <1>22,
      <1>23 DEF Next, HubContinues, Handle, CommandEnds

\* The mixer.
LEMMA MixerStep ==
  ASSUME IInv, Next
  PROVE  Mixer'
<1>a. /\ serial \in Seq(Command)
      /\ chunk \in [Chunks -> {"idle", "duck", "interrupt"}]
      /\ Waiting /\ Greeting /\ Mixer
  BY DEF IInv, TypeOK, Command, Waiters
<1>b. /\ playbackActive \in BOOLEAN /\ interrupting \in BOOLEAN
      /\ ducked \in BOOLEAN /\ restoreFailed \in BOOLEAN
  BY DEF IInv, TypeOK
<1>c. Chunks \subseteq Waiters /\ Chain \in Waiters /\ Nobody \in Waiters
  BY DEF Waiters
<1>1. CASE HubGreets
  BY <1>1, <1>a, <1>b DEF HubGreets, HubSends, Message, HubStep, MustHandle,
      hub, wire, playback, player, volume, Mixer, Commands, Restores
<1>2. CASE HubOpensSegment
  BY <1>2, <1>a, <1>b DEF HubOpensSegment, HubSends, Message, HubStep,
      MustHandle, hub, wire, playback, player, volume, Mixer, Commands,
      Restores
<1>3. CASE HubAudio
  BY <1>3, <1>a, <1>b DEF HubAudio, HubSends, Message, HubStep, MustHandle,
      hub, wire, playback, player, volume, Mixer, Commands, Restores
<1>4. CASE HubEndsSegment
  BY <1>4, <1>a, <1>b DEF HubEndsSegment, HubSends, Message, HubStep,
      MustHandle, hub, wire, playback, player, volume, Mixer, Commands,
      Restores
<1>5. CASE HubBreaksOff
  BY <1>5, <1>a, <1>b DEF HubBreaksOff, HubStep, MustHandle, hub, wire,
      playback, player, volume, Mixer, Commands, Restores
<1>6. CASE HubInterrupts
  BY <1>6, <1>a, <1>b DEF HubInterrupts, HubSends, Message, HubStep,
      MustHandle, hub, wire, playback, player, volume, Mixer, Commands,
      Restores
<1>7. CASE Open
  <2>1. /\ \A i \in 1..Len(serial) : serial[i].kind = "restore"
        /\ UNCHANGED <<userLevel, level, originalPercent, ducked, serial, restoreFailed>>
    BY <1>7, <1>a DEF Open, Greeting, Commands, Restores, volume
  <2>2. QED
    BY <2>1, <1>a DEF Mixer, Commands, Restores
<1>8. CASE Close
  <2>1. /\ serial' = Append(serial, [kind |-> "restore", waiter |-> Nobody])
        /\ UNCHANGED <<userLevel, level, originalPercent, ducked, restoreFailed>>
    BY <1>8 DEF Close, enqueue
  <2>2. QED
    BY <2>1, <1>a, <1>c, RestoreQueued
<1>9. CASE Reconnect
  BY <1>9, <1>a, <1>b DEF Reconnect, MustHandle, VolumeIdle, hub, handlers,
      playback, player, volume, Mixer, Commands, Restores
<1>10. CASE HandleReady
  BY <1>10, <1>a, <1>b DEF HandleReady, Handles, hub, wire, playback, player,
      volume, Mixer, Commands, Restores
<1>11. CASE HandleAudioInit
  <2>1. /\ serial' = Append(serial, [kind |-> "restore", waiter |-> Chain])
        /\ UNCHANGED <<userLevel, level, originalPercent, ducked, restoreFailed>>
    BY <1>11 DEF HandleAudioInit, enqueue
  <2>2. QED
    BY <2>1, <1>a, <1>c, RestoreQueued
<1>12. CASE HandleAudio
  BY <1>12, <1>a, <1>b DEF HandleAudio, Handles, hub, wire, playback, player,
      volume, Mixer, Commands, Restores
<1>13. CASE HandleAudioEnd
  BY <1>13, <1>a, <1>b DEF HandleAudioEnd, Handles, FinishPlayer, hub, wire,
      player, volume, Mixer, Commands, Restores
<1>14. CASE HandleLateInterrupt
  BY <1>14, <1>a, <1>b DEF HandleLateInterrupt, Handles, hub, wire, playback,
      player, volume, Mixer, Commands, Restores
<1>15. CASE HandleInterrupt
  <2>1. /\ serial' = Append(serial, [kind |-> "restore", waiter |-> Chain])
        /\ UNCHANGED <<userLevel, level, originalPercent, ducked, restoreFailed>>
    BY <1>15 DEF HandleInterrupt, enqueue
  <2>2. QED
    BY <2>1, <1>a, <1>c, RestoreQueued
<1>16. ASSUME NEW k \in Chunks, HearLoudChunk(k)
       PROVE  Mixer'
  <2>1. /\ serial' = Append(serial, [kind |-> "duck", waiter |-> k])
        /\ playbackActive /\ ~interrupting
        /\ UNCHANGED <<playbackActive, interrupting>>
        /\ UNCHANGED <<userLevel, level, originalPercent, ducked, restoreFailed>>
    BY <1>16 DEF HearLoudChunk, InterruptedAlready, enqueue, playback
  <2>2. \A i \in 1..Len(serial) : i \in 1..Len(serial') /\ serial'[i] = serial[i]
    BY <2>1, <1>a, <1>c, CommandQueued
  <2>3. QED
    BY <2>1, <2>2, <1>a DEF Mixer, Commands, Restores
<1>17. CASE CooldownEnds
  BY <1>17, <1>a, <1>b DEF CooldownEnds, MustHandle, hub, wire, handlers,
      playback, player, volume, Mixer, Commands, Restores
<1>18. ASSUME NEW g \in DOMAIN processes, PlayerExits(g)
       PROVE  Mixer'
  <2>1. CASE g = playbackGeneration
    <3>1. /\ serial' = Append(serial, [kind |-> "restore", waiter |-> Nobody])
          /\ UNCHANGED <<userLevel, level, originalPercent, ducked, restoreFailed>>
      BY <1>18, <2>1 DEF PlayerExits, OfCurrentPlayback, enqueue
    <3>2. QED
      BY <3>1, <1>a, <1>c, RestoreQueued
  <2>2. CASE g # playbackGeneration
    BY <1>18, <2>2, <1>a, <1>b
       DEF PlayerExits, OfCurrentPlayback, volume, Mixer, Commands, Restores
  <2>3. QED
    BY <2>1, <2>2
<1>19. CASE NobodyResumes
  <2>1. RestoreDone(Nobody) /\ playbackActive' = playbackActive /\ interrupting' = interrupting
    BY <1>19 DEF NobodyResumes, playback
  <2>2. QED
    BY <2>1, <1>a, RestoreIsDone
<1>20. CASE MessageHandled
  <2>1. RestoreDone(Chain) /\ playbackActive' = playbackActive /\ interrupting' = interrupting
    BY <1>20 DEF MessageHandled, playback
  <2>2. QED
    BY <2>1, <1>a, RestoreIsDone
<1>21. ASSUME NEW k \in Chunks, ChunkTooLate(k)
       PROVE  Mixer'
  <2>1. /\ serial # <<>> /\ serial' = Tail(serial)
        /\ chunk[k] = "duck" /\ Head(serial).kind = "duck"
        /\ ~(playbackActive /\ ~interrupting)
        /\ UNCHANGED <<playbackActive, interrupting>>
    BY <1>21, DuckIsQueued DEF ChunkTooLate, DuckDone, InterruptedAlready,
       playback
  <2>2. serial[1].kind = "duck" /\ 1 \in 1..Len(serial)
    BY <2>1, <1>a, CommandDone
  <2>3. PICK j \in 1..Len(serial) : 1 < j /\ serial[j].kind = "restore"
    BY <2>1, <2>2, <1>a DEF Mixer, Commands, Restores
  <2>4. j - 1 \in 1..Len(serial') /\ serial'[j - 1].kind = "restore"
    BY <2>1, <2>3, <1>a, CommandDone
  <2>5. ASSUME NEW i \in 1..Len(serial'), serial'[i].kind # "restore"
        PROVE  \E m \in 1..Len(serial') : i < m /\ serial'[m].kind = "restore"
    <3>1. i + 1 \in 1..Len(serial) /\ serial[i + 1].kind # "restore"
      BY <2>1, <2>5, <1>a, CommandDone
    <3>2. PICK m \in 1..Len(serial) : i + 1 < m /\ serial[m].kind = "restore"
      BY <2>1, <3>1, <1>a DEF Mixer, Commands, Restores
    <3>3. m - 1 \in 1..Len(serial') /\ serial'[m - 1] = serial[m] /\ i < m - 1
      BY <2>1, <3>1, <3>2, <1>a, CommandDone
    <3>4. QED
      BY <3>2, <3>3
  <2>6. /\ ducked' => originalPercent' = userLevel'
        /\ ~ducked' => level' = userLevel'
    BY <1>21, <1>a DEF ChunkTooLate, DuckDone, duck, Mixer
  <2>7. QED
    BY <2>4, <2>5, <2>6 DEF Mixer, Commands, Restores
<1>22. ASSUME NEW k \in Chunks, ChunkInterrupts(k)
       PROVE  Mixer'
  <2>1. /\ serial # <<>>
        /\ serial' = Append(Tail(serial), [kind |-> "restore", waiter |-> k])
    BY <1>22, DuckIsQueued DEF ChunkInterrupts
  <2>2. /\ Len(serial') \in 1..Len(serial')
        /\ serial'[Len(serial')].kind = "restore"
        /\ \A i \in 1..Len(serial') : i # Len(serial') => i < Len(serial')
    BY <2>1, <1>a, <1>c, CommandReplaced
  <2>3. /\ ducked' => originalPercent' = userLevel'
        /\ ~ducked' => level' = userLevel'
    BY <1>22, <1>a DEF ChunkInterrupts, DuckDone, duck, Mixer
  <2>4. QED
    BY <2>2, <2>3 DEF Mixer, Commands, Restores
<1>23. ASSUME NEW k \in Chunks, ChunkHandled(k)
       PROVE  Mixer'
  <2>1. RestoreDone(k) /\ playbackActive' = playbackActive /\ interrupting' = interrupting
    BY <1>23 DEF ChunkHandled, playback
  <2>2. QED
    BY <2>1, <1>a, RestoreIsDone
<1>24. QED
  BY <1>1, <1>2, <1>3, <1>4, <1>5, <1>6, <1>7, <1>8, <1>9, <1>10, <1>11, <1>12,
      <1>13, <1>14, <1>15, <1>16, <1>17, <1>18, <1>19, <1>20, <1>21, <1>22,
      <1>23 DEF Next, HubContinues, Handle, CommandEnds

LEMMA MixerTypeStep ==
  ASSUME MixerTyped, Next
  PROVE  MixerTyped'
<1>1. \/ UNCHANGED <<userLevel, level, originalPercent, ducked, restoreFailed>>
      \/ duck \/ restore
  BY DEF Next, HubContinues, Handle, CommandEnds, HubGreets, HubSends, Message,
      HubStep, MustHandle, hub, wire, playback, player, volume,
      HubOpensSegment, HubAudio, HubEndsSegment, HubBreaksOff, HubInterrupts,
      Open, resetConversationState, handlers, Close, StopPlayer, enqueue,
      Reconnect, VolumeIdle, HandleReady, Handles, HandleAudioInit,
      StartPlayer, Started, HandleAudio, HandleAudioEnd, FinishPlayer,
      HandleLateInterrupt, HandleInterrupt, detectInterrupt,
      InterruptedAlready, HearLoudChunk, CooldownEnds, PlayerExits,
      OfCurrentPlayback, Tell, NobodyResumes, RestoreDone, MessageHandled,
      ChunkTooLate, DuckDone, ChunkInterrupts, ChunkHandled, volume
<1>2. userLevel \in Nat /\ DuckPercent \in Nat
  BY VolumeAssumption DEF MixerTyped
<1>3. QED
  BY <1>1, <1>2 DEF MixerTyped, duck, restore

\* What the hub has sent.
LEMMA HubTypeStep ==
  ASSUME HubTyped, Next
  PROVE  HubTyped'
<1>1. \/ UNCHANGED hub
      \/ HubOpensSegment
      \/ HubAudio
      \/ HubEndsSegment
      \/ HubBreaksOff
      \/ HubInterrupts
      \/ Close
  BY DEF Next, HubContinues, Handle, CommandEnds, HubGreets, Open, Reconnect,
      HandleReady, HandleAudioInit, HandleAudio, HandleAudioEnd,
      HandleLateInterrupt, HandleInterrupt, HearLoudChunk, CooldownEnds,
      PlayerExits, NobodyResumes, MessageHandled, ChunkTooLate,
      ChunkInterrupts, ChunkHandled, HubStep, hub, wire, handlers, playback,
      player
<1>2. CASE UNCHANGED hub
  BY <1>2 DEF HubTyped, hub
<1>3. CASE HubOpensSegment
  <2>1. segments' \in 0..MaxSegments
    BY <1>3, ClientAssumption DEF HubOpensSegment, HubTyped
  <2>2. /\ hubSegment' = "opened" /\ brokenOff' = FALSE
        /\ interrupts' \in 0..MaxInterrupts
    BY <1>3 DEF HubOpensSegment, HubTyped
  <2>3. QED
    BY <2>1, <2>2 DEF HubTyped
<1>4. CASE HubAudio
  BY <1>4, ClientAssumption DEF HubAudio, HubTyped
<1>5. CASE HubEndsSegment
  BY <1>5, ClientAssumption DEF HubEndsSegment, HubTyped
<1>6. CASE HubBreaksOff
  BY <1>6, ClientAssumption DEF HubBreaksOff, HubTyped
<1>7. CASE HubInterrupts
  <2>1. interrupts' \in 0..MaxInterrupts
    BY <1>7, ClientAssumption DEF HubInterrupts, HubTyped
  <2>2. UNCHANGED <<hubSegment, segments, brokenOff>>
    BY <1>7 DEF HubInterrupts, HubTyped
  <2>3. QED
    BY <2>1, <2>2 DEF HubTyped
<1>8. CASE Close
  BY <1>8, ClientAssumption DEF Close, HubTyped
<1>9. QED
  BY <1>1, <1>2, <1>3, <1>4, <1>5, <1>6, <1>7, <1>8

\* The connection.
LEMMA WireTypeStep ==
  ASSUME WireTyped, Next
  PROVE  WireTyped'
<1>1. \/ UNCHANGED wire
      \/ Open
      \/ Close
      \/ Reconnect
      \/ \E g \in DOMAIN processes : PlayerExits(g)
      \/ MessageHandled
      \/ \E k \in Chunks : ChunkHandled(k)
  BY DEF Next, HubContinues, Handle, CommandEnds, HubGreets, HubOpensSegment,
      HubAudio, HubEndsSegment, HubBreaksOff, HubInterrupts, HandleReady,
      HandleAudioInit, HandleAudio, HandleAudioEnd, HandleLateInterrupt,
      HandleInterrupt, HearLoudChunk, CooldownEnds, NobodyResumes,
      ChunkTooLate, ChunkInterrupts, HubStep, wire
<1>2. CASE UNCHANGED wire
  BY <1>2 DEF WireTyped, wire
<1>3. CASE Open
  BY <1>3 DEF Open, WireTyped
<1>4. CASE Close
  BY <1>4 DEF Close, WireTyped
<1>5. CASE Reconnect
  <2>1. connection \in Nat /\ connection' = connection + 1
    BY <1>5 DEF Reconnect, WireTyped
  <2>2. connection' \in Nat
    BY <2>1
  <2>3. UNCHANGED heard /\ line' = "connecting"
    BY <1>5 DEF Reconnect
  <2>4. heard' \in {"nothing", "bot-speaking", "bot-speak-end", "stray end"}
    BY <2>3 DEF WireTyped
  <2>5. QED
    BY <2>2, <2>3, <2>4 DEF WireTyped
<1>6. ASSUME NEW g \in DOMAIN processes, PlayerExits(g)
      PROVE  WireTyped'
  BY <1>6 DEF PlayerExits, WireTyped, Tell
<1>7. CASE MessageHandled
  BY <1>7 DEF MessageHandled, WireTyped, Tell
<1>8. ASSUME NEW k \in Chunks, ChunkHandled(k)
      PROVE  WireTyped'
  BY <1>8 DEF ChunkHandled, WireTyped, Tell
<1>9. QED
  BY <1>1, <1>2, <1>3, <1>4, <1>5, <1>6, <1>7, <1>8

\* The flags of the conversation.
LEMMA FlagsTypeStep ==
  ASSUME FlagsTyped, Next
  PROVE  FlagsTyped'
<1>1. \/ UNCHANGED <<playback, ready, interrupting>>
      \/ Open
      \/ Close
      \/ HandleReady
      \/ HandleAudioInit
      \/ HandleAudioEnd
      \/ HandleInterrupt
      \/ \E k \in Chunks : ChunkInterrupts(k)
      \/ CooldownEnds
      \/ \E g \in DOMAIN processes : PlayerExits(g)
  BY DEF Next, HubContinues, Handle, CommandEnds, HubGreets, HubOpensSegment,
      HubAudio, HubEndsSegment, HubBreaksOff, HubInterrupts, Reconnect,
      HandleAudio, HandleLateInterrupt, HearLoudChunk, NobodyResumes,
      MessageHandled, ChunkTooLate, ChunkHandled, HubStep
<1>2. CASE UNCHANGED <<playback, ready, interrupting>>
  BY <1>2 DEF FlagsTyped, playback
<1>3. CASE Open
  BY <1>3 DEF Open, resetConversationState, FlagsTyped, playback
<1>4. CASE Close
  BY <1>4 DEF Close, resetConversationState, FlagsTyped, playback
<1>5. CASE HandleReady
  BY <1>5 DEF HandleReady, FlagsTyped, playback
<1>6. CASE HandleAudioInit
  BY <1>6 DEF HandleAudioInit, FlagsTyped, playback
<1>7. CASE HandleAudioEnd
  BY <1>7 DEF HandleAudioEnd, FlagsTyped, playback
<1>8. CASE HandleInterrupt
  BY <1>8 DEF HandleInterrupt, detectInterrupt, FlagsTyped, playback
<1>9. ASSUME NEW k \in Chunks, ChunkInterrupts(k)
      PROVE  FlagsTyped'
  BY <1>9 DEF ChunkInterrupts, detectInterrupt, FlagsTyped, playback
<1>10. CASE CooldownEnds
  BY <1>10 DEF CooldownEnds, FlagsTyped, playback
<1>11. ASSUME NEW g \in DOMAIN processes, PlayerExits(g)
       PROVE  FlagsTyped'
  BY <1>11 DEF PlayerExits, FlagsTyped, playback
<1>12. QED
  BY <1>1, <1>2, <1>3, <1>4, <1>5, <1>6, <1>7, <1>8, <1>9, <1>10, <1>11

\* The handlers of chunks.
LEMMA ChunkTypeStep ==
  ASSUME chunk \in [Chunks -> {"idle", "duck", "interrupt"}], Next
  PROVE  chunk' \in [Chunks -> {"idle", "duck", "interrupt"}]
<1>1. \/ UNCHANGED chunk
      \/ \E k \in Chunks : HearLoudChunk(k)
      \/ \E k \in Chunks : ChunkTooLate(k)
      \/ \E k \in Chunks : ChunkInterrupts(k)
      \/ \E k \in Chunks : ChunkHandled(k)
  BY DEF Next, HubContinues, Handle, CommandEnds, HubGreets, HubOpensSegment,
      HubAudio, HubEndsSegment, HubBreaksOff, HubInterrupts, Open, Close,
      Reconnect, HandleReady, HandleAudioInit, HandleAudio, HandleAudioEnd,
      HandleLateInterrupt, HandleInterrupt, CooldownEnds, PlayerExits,
      NobodyResumes, MessageHandled, HubStep, handlers
<1>2. CASE UNCHANGED chunk
  BY <1>2
<1>3. ASSUME NEW k \in Chunks, HearLoudChunk(k)
      PROVE  chunk' \in [Chunks -> {"idle", "duck", "interrupt"}]
  BY <1>3 DEF HearLoudChunk
<1>4. ASSUME NEW k \in Chunks, ChunkTooLate(k)
      PROVE  chunk' \in [Chunks -> {"idle", "duck", "interrupt"}]
  BY <1>4 DEF ChunkTooLate
<1>5. ASSUME NEW k \in Chunks, ChunkInterrupts(k)
      PROVE  chunk' \in [Chunks -> {"idle", "duck", "interrupt"}]
  BY <1>5 DEF ChunkInterrupts
<1>6. ASSUME NEW k \in Chunks, ChunkHandled(k)
      PROVE  chunk' \in [Chunks -> {"idle", "duck", "interrupt"}]
  BY <1>6 DEF ChunkHandled
<1>7. QED
  BY <1>1, <1>2, <1>3, <1>4, <1>5, <1>6

\* The chain of messages.
LEMMA ChainTypeStep ==
  ASSUME IInv, ChainTyped, WireTyped, Next
  PROVE  ChainTyped'
<1>1. \/ UNCHANGED <<messageChain, handling>>
      \/ \E kind \in {"call_initialized", "audio-init", "audio", "audio-end", "interrupt"} :
           HubSends(kind) /\ UNCHANGED handling
      \/ /\ messageChain # <<>> /\ messageChain' = Tail(messageChain)
         /\ handling = "none" /\ handling' = handling
      \/ /\ messageChain # <<>> /\ UNCHANGED messageChain
         /\ handling' \in {"speak", "interrupt"}
      \/ MessageHandled
  BY DEF Next, HubContinues, Handle, CommandEnds, HubGreets, HubOpensSegment,
      HubAudio, HubEndsSegment, HubBreaksOff, HubInterrupts, Open, Close,
      Reconnect, HandleReady, HandleAudioInit, HandleAudio, HandleAudioEnd,
      HandleLateInterrupt, HandleInterrupt, HearLoudChunk, CooldownEnds,
      PlayerExits, NobodyResumes, ChunkTooLate, ChunkInterrupts, ChunkHandled,
      HubStep, handlers, Handles
<1>2. CASE UNCHANGED <<messageChain, handling>>
  BY <1>2 DEF ChainTyped
<1>3. ASSUME NEW kind \in {"call_initialized", "audio-init", "audio", "audio-end",
                           "interrupt"},
             HubSends(kind), UNCHANGED handling
      PROVE  ChainTyped'
  <2>1. Message(kind) \in Messages
    BY DEF Message, Messages, WireTyped
  <2>2. messageChain' \in Seq(Messages) /\ messageChain' # <<>>
    BY <1>3, <2>1 DEF ChainTyped, HubSends
  <2>3. QED
    BY <1>3, <2>2 DEF ChainTyped
<1>4. CASE /\ messageChain # <<>> /\ messageChain' = Tail(messageChain)
           /\ handling = "none" /\ handling' = handling
  BY <1>4 DEF ChainTyped
<1>5. CASE /\ messageChain # <<>> /\ UNCHANGED messageChain
           /\ handling' \in {"speak", "interrupt"}
  BY <1>5 DEF ChainTyped
<1>6. CASE MessageHandled
  <2>1. /\ handling' = "none" /\ messageChain' = Tail(messageChain)
    BY <1>6 DEF MessageHandled
  <2>2. messageChain # <<>>
    BY <1>6, ChainIsWaited
  <2>3. QED
    BY <2>1, <2>2 DEF ChainTyped
<1>7. QED
  BY <1>1, <1>2, <1>3, <1>4, <1>5, <1>6


\* The mixer's queue.
LEMMA QueueTypeStep ==
  ASSUME IInv, Next
  PROVE  serial' \in Seq(Command)
<1>1. /\ Chunks \subseteq Waiters /\ Chain \in Waiters /\ Nobody \in Waiters
      /\ serial \in Seq(Command)
  BY TypeInParts DEF Waiters, IInv
<1>2. \/ UNCHANGED serial
      \/ serial # <<>> /\ serial' = Tail(serial)
      \/ \E k \in Chunks : ChunkTooLate(k) \/ ChunkInterrupts(k)
      \/ \E kind \in {"duck", "restore"}, w \in Waiters :
           serial' = Append(serial, [kind |-> kind, waiter |-> w])
  BY <1>1 DEF Next, HubContinues, Handle, CommandEnds, HubGreets,
      HubOpensSegment, HubAudio, HubEndsSegment, HubBreaksOff, HubInterrupts,
      Open, Close, Reconnect, HandleReady, HandleAudioInit, HandleAudio,
      HandleAudioEnd, HandleLateInterrupt, HandleInterrupt, HearLoudChunk,
      CooldownEnds, PlayerExits, NobodyResumes, MessageHandled, ChunkHandled,
      HubStep, enqueue, RestoreDone, volume
<1>3. CASE UNCHANGED serial
  BY <1>1, <1>3
<1>4. CASE serial # <<>> /\ serial' = Tail(serial)
  BY <1>1, <1>4, CommandDone
<1>5. ASSUME NEW k \in Chunks, ChunkTooLate(k)
      PROVE  serial' \in Seq(Command)
  <2>1. serial # <<>> /\ serial' = Tail(serial)
    BY <1>5, DuckIsQueued DEF ChunkTooLate
  <2>2. QED
    BY <1>1, <2>1, CommandDone
<1>6. ASSUME NEW k \in Chunks, ChunkInterrupts(k)
      PROVE  serial' \in Seq(Command)
  <2>1. /\ serial # <<>>
        /\ serial' = Append(Tail(serial), [kind |-> "restore", waiter |-> k])
    BY <1>6, DuckIsQueued DEF ChunkInterrupts
  <2>2. QED
    BY <1>1, <2>1, CommandReplaced
<1>7. ASSUME NEW kind \in {"duck", "restore"}, NEW w \in Waiters,
             serial' = Append(serial, [kind |-> kind, waiter |-> w])
      PROVE  serial' \in Seq(Command)
  BY <1>1, <1>7, CommandQueued
<1>8. QED
  BY <1>2, <1>3, <1>4, <1>5, <1>6, <1>7


\* A process is started, or a process gets a new state.
LEMMA PlayerTypeStep ==
  ASSUME IInv, Next
  PROVE  PlayerTyped'
<1>1. /\ PlayerTyped /\ Len(processes) \in Nat
      /\ \A g \in 1..Len(processes) : Alive(g) => g = process
      /\ messageChain \in Seq(Messages)
  BY TypeInParts DEF IInv, Voices, PlayerTyped, ChainTyped
<1>2. \/ UNCHANGED <<player, playbackGeneration>>
      \/ UNCHANGED player /\ playbackGeneration' = 0
      \/ /\ processes' = StopPlayer(processes) /\ process' = 0
         /\ playbackGeneration' \in {0, playbackGeneration}
      \/ HandleAudioInit \/ HandleAudioEnd
      \/ \E g \in DOMAIN processes : PlayerExits(g)
  BY DEF Next, HubContinues, Handle, CommandEnds, HubGreets, HubOpensSegment,
      HubAudio, HubEndsSegment, HubBreaksOff, HubInterrupts, Open, Close,
      Reconnect, HandleReady, HandleAudio, HandleLateInterrupt,
      HandleInterrupt, HearLoudChunk, CooldownEnds, NobodyResumes,
      MessageHandled, ChunkTooLate, ChunkInterrupts, ChunkHandled, HubStep,
      resetConversationState, detectInterrupt, playback
<1>3. CASE UNCHANGED <<player, playbackGeneration>>
  BY <1>1, <1>3 DEF PlayerTyped, player
<1>4. CASE UNCHANGED player /\ playbackGeneration' = 0
  BY <1>1, <1>4 DEF PlayerTyped, player
<1>5. CASE /\ processes' = StopPlayer(processes) /\ process' = 0
           /\ playbackGeneration' \in {0, playbackGeneration}
  <2>1. processes' \in Seq(Processes) /\ Len(processes') = Len(processes)
    BY <1>1, <1>5, Stopped DEF PlayerTyped
  <2>2. QED
    BY <1>1, <1>5, <2>1 DEF PlayerTyped
<1>6. CASE HandleAudioInit
  <2> DEFINE stopped == StopPlayer(processes)
             c == Head(messageChain).from
  <2>1. stopped \in Seq(Processes) /\ Len(stopped) = Len(processes)
    BY <1>1, Stopped DEF PlayerTyped
  <2>2. Started(c) \in Processes
    <3>1. messageChain # <<>>
      BY <1>6 DEF HandleAudioInit, Handles
    <3>2. Head(messageChain) \in Messages
      BY <1>1, <3>1
    <3>3. QED
      BY <3>2 DEF Messages, Started, Processes
  <2>3. /\ processes' = Append(stopped, Started(c)) /\ process' = Len(processes) + 1
        /\ playbackGeneration' = process'
    BY <1>6 DEF HandleAudioInit, StartPlayer
  <2> HIDE DEF stopped, c
  <2>4. processes' \in Seq(Processes) /\ Len(processes') = Len(processes) + 1
    BY <2>1, <2>2, <2>3
  <2>5. QED
    BY <1>1, <2>3, <2>4 DEF PlayerTyped
<1>7. CASE HandleAudioEnd
  <2>1. process' = process /\ playbackGeneration' = playbackGeneration
    BY <1>7 DEF HandleAudioEnd, FinishPlayer
  <2>2. processes' \in Seq(Processes) /\ Len(processes') = Len(processes)
    <3>1. CASE processes' = processes
      BY <1>1, <3>1 DEF PlayerTyped
    <3>2. CASE process # 0 /\ processes' = [processes EXCEPT ![process].state = "ended",
                                                             ![process].graceful = TRUE]
      <4>1. process \in 1..Len(processes)
        BY <1>1, <3>2 DEF PlayerTyped
      <4>2. PICK p \in Processes : processes' = [processes EXCEPT ![process] = p]
        BY <1>1, <3>2, <4>1, Ended DEF PlayerTyped
      <4>3. QED
        BY <1>1, <4>1, <4>2 DEF PlayerTyped
    <3>3. QED
      BY <1>7, <3>1, <3>2 DEF HandleAudioEnd, FinishPlayer
  <2>3. QED
    BY <1>1, <2>1, <2>2 DEF PlayerTyped
<1>8. ASSUME NEW g \in DOMAIN processes, PlayerExits(g)
      PROVE  PlayerTyped'
  <2>1. g \in 1..Len(processes) /\ playbackGeneration' = playbackGeneration
    BY <1>1, <1>8 DEF PlayerTyped, PlayerExits
  <2>2. process' \in {0, process}
    BY <1>8 DEF PlayerExits
  <2>3. processes' = [processes EXCEPT ![g].state = "gone"]
    BY <1>8 DEF PlayerExits
  <2>4. PICK p \in Processes : processes' = [processes EXCEPT ![g] = p]
    BY <1>1, <2>1, <2>3, Gone DEF PlayerTyped
  <2>5. processes' \in Seq(Processes) /\ Len(processes') = Len(processes)
    BY <1>1, <2>1, <2>4 DEF PlayerTyped
  <2>6. QED
    BY <1>1, <2>1, <2>2, <2>5 DEF PlayerTyped
<1>9. QED
  BY <1>2, <1>3, <1>4, <1>5, <1>6, <1>7, <1>8


LEMMA TypeStep ==
  ASSUME IInv, Next
  PROVE  TypeOK'
<1>1. /\ MixerTyped /\ HubTyped /\ WireTyped /\ ChainTyped /\ FlagsTyped
      /\ chunk \in [Chunks -> {"idle", "duck", "interrupt"}]
  BY TypeInParts DEF IInv
<1>2. /\ MixerTyped' /\ HubTyped' /\ WireTyped' /\ ChainTyped' /\ FlagsTyped'
      /\ chunk' \in [Chunks -> {"idle", "duck", "interrupt"}]
  BY <1>1, MixerTypeStep, HubTypeStep, WireTypeStep, ChainTypeStep, FlagsTypeStep,
     ChunkTypeStep
<1>3. serial' \in Seq(Command) /\ PlayerTyped'
  BY QueueTypeStep, PlayerTypeStep
<1>4. QED
  BY <1>2, <1>3 DEF TypeOK, MixerTyped, HubTyped, WireTyped, ChainTyped,
     FlagsTyped,
                    PlayerTyped


-----------------------------------------------------------------------------
(* The theorems. *)

LEMMA InitHolds == Init => IInv
<1> SUFFICES ASSUME Init
             PROVE  IInv
  OBVIOUS
<1>1. /\ MixerTyped /\ HubTyped /\ WireTyped /\ ChainTyped /\ FlagsTyped
      /\ chunk \in [Chunks -> {"idle", "duck", "interrupt"}]
  <2>1. userLevel \in Nat /\ 0 \in Nat
    BY VolumeAssumption DEF Init, VolumeInit
  <2>2. MixerTyped
    BY <2>1 DEF Init, VolumeInit, MixerTyped
  <2>3. segments \in 0..MaxSegments /\ interrupts \in 0..MaxInterrupts
    BY ClientAssumption DEF Init
  <2>4. HubTyped
    BY <2>3 DEF Init, HubTyped
  <2>5. connection \in Nat
    BY DEF Init
  <2>6. WireTyped
    BY <2>5 DEF Init, WireTyped
  <2>7. ChainTyped
    BY DEF Init, ChainTyped
  <2>8. FlagsTyped
    BY DEF Init, FlagsTyped
  <2>9. QED
    BY <2>2, <2>4, <2>6, <2>7, <2>8 DEF Init
<1>2. serial \in Seq(Command) /\ PlayerTyped
  BY DEF Init, VolumeInit, PlayerTyped
<1>3. TypeOK
  BY <1>1, <1>2, TypeInParts
<1>4. Waiting /\ Greeting
  BY DEF Init, VolumeInit, Waiting, Greeting, Commands, Restores
<1>5. Mixer
  BY DEF Init, VolumeInit, Mixer, Commands
<1>6. Voices
  BY DEF Init, Voices
<1>7. QED
  BY <1>3, <1>4, <1>5, <1>6 DEF IInv

LEMMA Stutters == IInv /\ UNCHANGED vars => IInv'
<1> SUFFICES ASSUME IInv, UNCHANGED vars
             PROVE  IInv'
  OBVIOUS
<1>1. TypeOK'
  <2>1. MixerTyped' /\ serial' \in Seq(Command)
    BY TypeInParts DEF IInv, vars, volume, MixerTyped
  <2>2. HubTyped'
    BY TypeInParts DEF IInv, vars, hub, HubTyped
  <2>3. WireTyped'
    BY TypeInParts DEF IInv, vars, wire, WireTyped
  <2>4. ChainTyped' /\ chunk' \in [Chunks -> {"idle", "duck", "interrupt"}]
    BY TypeInParts DEF IInv, vars, handlers, ChainTyped
  <2>5. FlagsTyped'
    BY TypeInParts DEF IInv, vars, playback, FlagsTyped
  <2>6. PlayerTyped'
    BY TypeInParts DEF IInv, vars, playback, player, PlayerTyped
  <2>7. QED
    BY <2>1, <2>2, <2>3, <2>4, <2>5, <2>6
       DEF TypeOK, MixerTyped, HubTyped, WireTyped, ChainTyped, FlagsTyped,
           PlayerTyped
<1>2. Waiting' /\ Greeting'
  BY DEF IInv, vars, hub, wire, handlers, playback, volume, Waiting, Greeting,
     Commands,
         Restores
<1>3. Mixer'
  BY DEF IInv, vars, playback, volume, Mixer, Commands, Restores
<1>4. Voices'
  BY DEF IInv, vars, wire, handlers, playback, player, Voices, Alive
<1>5. QED
  BY <1>1, <1>2, <1>3, <1>4 DEF IInv

LEMMA Invariant == Spec => []IInv
<1>1. IInv /\ [Next]_vars => IInv'
  <2> SUFFICES ASSUME IInv, [Next]_vars
               PROVE  IInv'
    OBVIOUS
  <2>1. CASE Next
    BY <2>1, TypeStep, WaitingStep, GreetingStep, MixerStep, VoicesStep DEF IInv
  <2>2. CASE UNCHANGED vars
    BY <2>2, Stutters
  <2>3. QED
    BY <2>1, <2>2
<1>2. QED
  BY InitHolds, <1>1, PTL DEF Spec

\* The state of the client, its mixer and its players stays well-formed: handlers
\* wait for commands that are queued, and numbers of processes exist.
THEOREM ClientTypes == Spec => []TypeOK
<1>1. IInv => TypeOK
  BY DEF IInv
<1>2. QED
  BY Invariant, <1>1, PTL

\* At most one player process sounds, with any number of segments, interrupts
\* and reconnects: client.ts stops the player before it starts another.
THEOREM NeverTwoVoices == Spec => []OneVoice
<1>1. IInv => OneVoice
  <2> SUFFICES ASSUME IInv
               PROVE  OneVoice
    OBVIOUS
  <2>1. DOMAIN processes = 1..Len(processes)
    BY TypeInParts DEF IInv, PlayerTyped
  <2>2. QED
    BY <2>1 DEF IInv, Voices, OneVoice
<1>2. QED
  BY Invariant, <1>1, PTL

\* While a player of this connection is alive, the microphone is shut: neither
\* a late exit nor an interrupt of an earlier playback opens it.
THEOREM MicrophoneIsShut == Spec => []PlayingShutsMicrophone
<1>1. IInv => PlayingShutsMicrophone
  <2> SUFFICES ASSUME IInv
               PROVE  PlayingShutsMicrophone
    OBVIOUS
  <2>1. DOMAIN processes = 1..Len(processes)
    BY TypeInParts DEF IInv, PlayerTyped
  <2>2. QED
    BY <2>1 DEF IInv, Voices, PlayingShutsMicrophone
<1>2. QED
  BY Invariant, <1>1, PTL

\* The mixer comes back to what the user chose, whichever of its commands fail
\* and however many chunks duck at once.
THEOREM MixerReturns == Spec => []VolumeReturns
<1>1. IInv => VolumeReturns
  <2> SUFFICES ASSUME IInv, serial = <<>>
               PROVE  level = userLevel \/ restoreFailed
    BY DEF VolumeReturns, VolumeIdle
  <2>1. Commands = {}
    BY DEF Commands
  <2>2. QED
    BY <2>1 DEF IInv, Mixer
<1>2. QED
  BY Invariant, <1>1, PTL

-----------------------------------------------------------------------------
(* What the hub is told of speaking. The commands that are queued say what  *)
(* it will be told next.                                                    *)

\* The commands whose end makes a handler tell the hub something.
TellsEnd(i) ==
  /\ serial[i].kind = "restore"
  /\ \/ serial[i].waiter \in Chunks
     \/ serial[i].waiter = Chain /\ handling = "interrupt"
TellsSpeaking(i) == serial[i].waiter = Chain /\ handling = "speak"

\* Between two ends the hub is told of a speech, and an end is told only of a
\* speech the hub was told of, or will be before.
Alternating ==
  /\ \A i, j \in Commands : TellsEnd(i) /\ TellsEnd(j) /\ i < j =>
       \E s \in Commands : i < s /\ s < j /\ TellsSpeaking(s)
  /\ \A i \in Commands : TellsEnd(i) =>
       heard = "bot-speaking" \/ \E s \in Commands : s < i /\ TellsSpeaking(s)
  /\ \A i, s \in Commands : TellsEnd(i) /\ TellsSpeaking(s) /\ s < i => botSpeakEndSent

\* A speech whose end was not sent is one the hub knows of.
Reports ==
  /\ heard # "stray end"
  /\ handling # "none" => \E i \in Commands : serial[i].waiter = Chain
  /\ line = "connecting" => \A i \in Commands : serial[i].waiter = Nobody
  /\ line = "open" =>
     /\ playbackActive => ~botSpeakEndSent /\ playbackGeneration # 0
     /\ handling = "speak" => ~sentenceCompleted
     /\ playbackGeneration # 0 /\ ~botSpeakEndSent /\ handling # "speak" =>
          heard = "bot-speaking" /\ \A i \in Commands : ~TellsEnd(i)
     /\ Alternating

Kept ==
  /\ Alternating => Alternating'
  /\ (\A i \in Commands : ~TellsEnd(i)) => \A i \in Commands' : ~TellsEnd(i)'

\* A command at the end of the queue changes nothing before it.
LEMMA TellingQueued ==
  ASSUME serial \in Seq(Command), NEW kind \in {"duck", "restore"},
         NEW w \in Waiters,
         serial' = Append(serial, [kind |-> kind, waiter |-> w]),
         \/ kind = "duck" /\ w # Chain
         \/ w = Nobody,
         handling' = handling, heard' = heard, botSpeakEndSent' = botSpeakEndSent
  PROVE  Kept
<1>1. PICK n \in Nat :
        /\ n = Len(serial) + 1 /\ Len(serial') = n
        /\ serial'[n].kind = kind /\ serial'[n].waiter = w
        /\ \A i \in 1..Len(serial) : serial'[i] = serial[i]
  BY CommandQueued
<1>2. Nobody \notin Chunks /\ Nobody # Chain
  BY ClientAssumption
<1>3. /\ ~TellsEnd(n)' /\ ~TellsSpeaking(n)'
      /\ \A i \in Commands : /\ TellsEnd(i)' <=> TellsEnd(i)
                             /\ TellsSpeaking(i)' <=> TellsSpeaking(i)
      /\ Commands' = Commands \union {n} /\ \A i \in Commands : i < n
  BY <1>1, <1>2 DEF TellsEnd, TellsSpeaking, Commands
<1>4. (\A i \in Commands : ~TellsEnd(i)) => \A i \in Commands' : ~TellsEnd(i)'
  BY <1>3
<1>5. ASSUME Alternating
      PROVE  Alternating'
  <2>1. \A i, j \in Commands' : TellsEnd(i)' /\ TellsEnd(j)' /\ i < j =>
          \E s \in Commands' : i < s /\ s < j /\ TellsSpeaking(s)'
    BY <1>3, <1>5 DEF Alternating
  <2>2. \A i \in Commands' : TellsEnd(i)' =>
          heard' = "bot-speaking" \/ \E s \in Commands' : s < i /\ TellsSpeaking(s)'
    BY <1>3, <1>5 DEF Alternating
  <2>3. \A i, s \in Commands' :
          TellsEnd(i)' /\ TellsSpeaking(s)' /\ s < i => botSpeakEndSent'
    BY <1>3, <1>5 DEF Alternating
  <2>4. QED
    BY <2>1, <2>2, <2>3 DEF Alternating
<1>6. QED
  BY <1>4, <1>5 DEF Kept

\* The first command is through and its handler was told nothing of, or told
\* the hub an end.
LEMMA TellingDone ==
  ASSUME serial \in Seq(Command), serial # <<>>, serial' = Tail(serial),
         ~TellsSpeaking(1), handling' = handling, botSpeakEndSent' = botSpeakEndSent,
         heard' = heard \/ TellsEnd(1)
  PROVE  Kept
<1>1. /\ Len(serial') \in Nat /\ Len(serial) = Len(serial') + 1
      /\ \A i \in 1..Len(serial') : serial'[i] = serial[i + 1]
      /\ \A i \in 1..Len(serial) :
           i # 1 => i - 1 \in 1..Len(serial') /\ serial'[i - 1] = serial[i]
  BY CommandDone
<1>2. \A i \in Commands' :
        /\ i + 1 \in Commands
        /\ TellsEnd(i)' <=> TellsEnd(i + 1)
        /\ TellsSpeaking(i)' <=> TellsSpeaking(i + 1)
  BY <1>1 DEF TellsEnd, TellsSpeaking, Commands
<1>3. \A s \in Commands : TellsSpeaking(s) =>
        s - 1 \in Commands' /\ TellsSpeaking(s - 1)'
  BY <1>1 DEF TellsSpeaking, Commands
<1>4. (\A i \in Commands : ~TellsEnd(i)) => \A i \in Commands' : ~TellsEnd(i)'
  BY <1>2
<1>5. 1 \in Commands /\ Commands \subseteq Nat /\ Commands' \subseteq Nat
      /\ \A i \in Commands' : i >= 1
  BY <1>1 DEF Commands
<1>6. ASSUME Alternating
      PROVE  Alternating'
  <2>1. ASSUME NEW i \in Commands', NEW j \in Commands',
               TellsEnd(i)', TellsEnd(j)', i < j
        PROVE  \E s \in Commands' : i < s /\ s < j /\ TellsSpeaking(s)'
    <3>1. PICK s \in Commands : i + 1 < s /\ s < j + 1 /\ TellsSpeaking(s)
      BY <1>2, <1>5, <1>6, <2>1 DEF Alternating
    <3>2. i < s - 1 /\ s - 1 < j
      BY <1>5, <3>1
    <3>3. QED
      BY <1>3, <3>1, <3>2
  <2>2. ASSUME NEW i \in Commands', TellsEnd(i)'
        PROVE  heard' = "bot-speaking" \/ \E s \in Commands' : s < i /\ TellsSpeaking(s)'
    <3>1. ASSUME NEW s \in Commands, s < i + 1, TellsSpeaking(s)
          PROVE  \E t \in Commands' : t < i /\ TellsSpeaking(t)'
      <4>1. s - 1 < i
        BY <1>5, <3>1
      <4>2. QED
        BY <1>3, <3>1, <4>1
    <3>2. CASE TellsEnd(1)
      <4>1. 1 < i + 1
        BY <1>5
      <4>2. QED
        BY <1>2, <1>5, <1>6, <2>2, <3>1, <3>2, <4>1 DEF Alternating
    <3>3. CASE heard' = heard
      BY <1>2, <1>6, <2>2, <3>1, <3>3 DEF Alternating
    <3>4. QED
      BY <3>2, <3>3
  <2>3. ASSUME NEW i \in Commands', NEW s \in Commands',
               TellsEnd(i)', TellsSpeaking(s)', s < i
        PROVE  botSpeakEndSent'
    <3>1. s + 1 < i + 1
      BY <1>5, <2>3
    <3>2. QED
      BY <1>2, <1>6, <2>3, <3>1 DEF Alternating
  <2>4. QED
    BY <2>1, <2>2, <2>3 DEF Alternating
<1>7. QED
  BY <1>4, <1>6 DEF Kept

\* A step that queues nothing, or something nobody waits for, tells nothing new.
Silent ==
  /\ handling' = handling /\ heard' = heard /\ botSpeakEndSent' = botSpeakEndSent
  /\ \/ serial' = serial
     \/ serial' = Append(serial, [kind |-> "restore", waiter |-> Nobody])
     \/ /\ ready
        /\ \E k \in Chunks : serial' = Append(serial, [kind |-> "duck", waiter |-> k])
     \/ /\ serial # <<>> /\ serial' = Tail(serial)
        /\ \/ Head(serial).kind = "duck" /\ Head(serial).waiter # Chain
           \/ Head(serial).waiter = Nobody

LEMMA SilenceKeepsReports ==
  ASSUME IInv, Reports, Silent, line' = line,
         playbackGeneration' = playbackGeneration,
         playbackActive' = playbackActive \/ playbackActive' = FALSE,
         \/ sentenceCompleted' = sentenceCompleted \/ sentenceCompleted' = FALSE
         \/ handling # "speak"
  PROVE  Reports'
<1>a. serial \in Seq(Command) /\ (line = "connecting" => ~ready)
  BY DEF IInv, TypeOK, Command, Waiters, Greeting
<1>b. /\ Chunks \subseteq Waiters /\ Nobody \in Waiters
      /\ Chain \notin Chunks /\ Nobody # Chain /\ Nobody \notin Chunks
  BY ClientAssumption DEF Waiters
<1>1. Kept
  <2>1. CASE serial' = serial
    BY <2>1 DEF Silent, Kept, Alternating, Commands, TellsEnd, TellsSpeaking
  <2>2. CASE serial' = Append(serial, [kind |-> "restore", waiter |-> Nobody])
    BY <1>a, <1>b, <2>2, TellingQueued DEF Silent
  <2>3. ASSUME NEW k \in Chunks,
               serial' = Append(serial, [kind |-> "duck", waiter |-> k])
        PROVE  Kept
    BY <1>a, <1>b, <2>3, TellingQueued DEF Silent
  <2>4. ASSUME serial # <<>>, serial' = Tail(serial),
               \/ Head(serial).kind = "duck" /\ Head(serial).waiter # Chain
               \/ Head(serial).waiter = Nobody
        PROVE  Kept
    <3>1. serial[1] = Head(serial)
      BY <1>a, <2>4, CommandDone
    <3>2. ~TellsSpeaking(1)
      BY <1>b, <2>4, <3>1 DEF TellsSpeaking
    <3>3. QED
      BY <1>a, <2>4, <3>2, TellingDone DEF Silent
  <2>5. QED
    BY <2>1, <2>2, <2>3, <2>4 DEF Silent
<1>2. line = "connecting" => \A i \in Commands' : serial'[i].waiter = Nobody
  <2>1. SUFFICES ASSUME line = "connecting"
                 PROVE  \A i \in Commands' : serial'[i].waiter = Nobody
    OBVIOUS
  <2>2. \A i \in 1..Len(serial) : serial[i].waiter = Nobody
    BY <2>1 DEF Reports, Commands
  <2>3. CASE serial' = Append(serial, [kind |-> "restore", waiter |-> Nobody])
    BY <1>a, <1>b, <2>2, <2>3, CommandQueued DEF Commands
  <2>4. CASE serial # <<>> /\ serial' = Tail(serial)
    BY <1>a, <2>2, <2>4, CommandDone DEF Commands
  <2>5. QED
    BY <1>a, <2>1, <2>2, <2>3, <2>4 DEF Silent, Commands
<1>3. line = "open" /\ handling' = "speak" => ~sentenceCompleted'
  <2>1. line = "open" /\ handling' = "speak" => ~sentenceCompleted /\ handling = "speak"
    BY DEF Reports, Silent
  <2>2. QED
    BY <2>1
<1>4. playbackActive' => playbackActive
  OBVIOUS
<1>5. ASSUME handling' # "none"
      PROVE  \E i \in Commands' : serial'[i].waiter = Chain
  <2>1. PICK i \in 1..Len(serial) : serial[i].waiter = Chain
    BY <1>5 DEF Reports, Silent, Commands
  <2>2. CASE serial' = serial
    BY <2>1, <2>2 DEF Commands
  <2>3. ASSUME NEW kind \in {"duck", "restore"}, NEW w \in Waiters,
               serial' = Append(serial, [kind |-> kind, waiter |-> w])
        PROVE  \E j \in Commands' : serial'[j].waiter = Chain
    BY <1>a, <2>1, <2>3, CommandQueued DEF Commands
  <2>4. ASSUME serial # <<>>, serial' = Tail(serial), Head(serial).waiter # Chain
        PROVE  \E j \in Commands' : serial'[j].waiter = Chain
    <3>1. i # 1
      BY <1>a, <2>1, <2>4, CommandDone
    <3>2. QED
      BY <1>a, <2>1, <2>4, <3>1, CommandDone DEF Commands
  <2>5. QED
    BY <1>b, <2>2, <2>3, <2>4 DEF Silent
<1>6. QED
  BY <1>1, <1>2, <1>3, <1>4, <1>5 DEF Reports, Silent, Kept

\* A handler that begins to wait is told nothing else meanwhile.
LEMMA OneTold ==
  ASSUME IInv, handling = "none"
  PROVE  \A i \in Commands : ~TellsSpeaking(i) /\ serial[i].waiter # Chain
BY DEF IInv, Waiting, TellsSpeaking

\* Every step keeps it.
LEMMA ReportsStep ==
  ASSUME IInv, Reports, Next
  PROVE  Reports'
<1>a. /\ serial \in Seq(Command) /\ Len(serial) \in Nat
      /\ line # "open" => ~ready
      /\ line = "connecting" => messageChain = <<>>
      /\ DOMAIN processes = 1..Len(processes) /\ Len(processes) \in Nat
      /\ handling # "none" => messageChain # <<>>
      /\ Waiting
  <2>1. /\ serial \in Seq(Command) /\ ChainTyped /\ PlayerTyped
        /\ Waiting /\ Greeting
    BY TypeInParts DEF IInv
  <2>2. DOMAIN processes = 1..Len(processes) /\ Len(processes) \in Nat
        /\ Len(serial) \in Nat
    BY <2>1 DEF PlayerTyped
  <2>3. QED
    BY <2>1, <2>2 DEF ChainTyped, Greeting
<1>b. /\ Chunks \subseteq Waiters /\ Chain \in Waiters /\ Nobody \in Waiters
      /\ Chain \notin Chunks /\ Nobody # Chain /\ Nobody \notin Chunks
  BY ClientAssumption DEF Waiters
<1>1. CASE HubGreets \/ HubOpensSegment \/ HubContinues \/ HubInterrupts
  <2>1. HubStep
    BY <1>1 DEF HubGreets, HubOpensSegment, HubContinues, HubAudio,
       HubEndsSegment,
                HubBreaksOff, HubInterrupts
  <2>2. Silent /\ UNCHANGED <<line, playback>>
    BY <2>1 DEF HubStep, wire, playback, volume, Silent
  <2>3. QED
    BY <2>2, SilenceKeepsReports DEF playback
<1>2. CASE Open
  <2>1. \A i \in Commands : serial[i].waiter = Nobody
    BY <1>2 DEF Open, Reports
  <2>2. /\ serial' = serial /\ handling' = handling /\ handling = "none"
        /\ line' = "open" /\ heard' = "nothing"
        /\ playbackActive' = FALSE /\ playbackGeneration' = 0
    BY <1>2, <1>a DEF Open, resetConversationState, volume, handlers
  <2>3. \A i \in Commands' : ~TellsEnd(i)' /\ ~TellsSpeaking(i)'
    BY <1>b, <2>1, <2>2 DEF TellsEnd, TellsSpeaking, Commands
  <2>4. QED
    BY <2>2, <2>3 DEF Reports, Alternating
<1>3. CASE Close
  <2>1. /\ line' = "closed" /\ heard' = heard /\ handling' = handling
        /\ serial' = Append(serial, [kind |-> "restore", waiter |-> Nobody])
    BY <1>3 DEF Close, enqueue, handlers
  <2>2. \A i \in Commands : i \in Commands' /\ serial'[i] = serial[i]
    BY <1>a, <1>b, <2>1, CommandQueued DEF Commands
  <2>3. QED
    BY <2>1, <2>2 DEF Reports
<1>4. CASE Reconnect
  <2>1. /\ line' = "connecting" /\ heard' = heard
        /\ serial' = <<>> /\ handling' = "none"
    BY <1>4, <1>a DEF Reconnect, VolumeIdle, volume, handlers
  <2>2. Commands' = {}
    BY <2>1 DEF Commands
  <2>3. QED
    BY <2>1, <2>2 DEF Reports
<1>5. CASE HandleReady \/ HandleAudio \/ HandleLateInterrupt
  <2>1. Silent /\ UNCHANGED <<line, playback>>
    BY <1>5 DEF HandleReady, HandleAudio, HandleLateInterrupt, wire, volume,
       playback,
                Silent
  <2>2. QED
    BY <2>1, SilenceKeepsReports DEF playback
<1>6. CASE HandleAudioInit
  <2>1. /\ serial' = Append(serial, [kind |-> "restore", waiter |-> Chain])
        /\ handling = "none" /\ handling' = "speak" /\ heard' = heard /\ line' = line
        /\ ~botSpeakEndSent' /\ ~sentenceCompleted'
        /\ playbackGeneration' = Len(processes) + 1
        /\ messageChain # <<>>
    BY <1>6 DEF HandleAudioInit, Handles, StartPlayer, enqueue, wire
  <2>2. PICK n \in Nat :
          /\ n = Len(serial) + 1 /\ Len(serial') = n
          /\ serial'[n].waiter = Chain
          /\ \A i \in 1..Len(serial) : serial'[i] = serial[i]
    BY <1>a, <1>b, <2>1, CommandQueued
  <2>3. /\ Commands' = Commands \union {n} /\ \A i \in Commands : i < n
        /\ \A i \in Commands : /\ TellsEnd(i)' <=> TellsEnd(i)
                               /\ ~TellsSpeaking(i) /\ ~TellsSpeaking(i)'
        /\ ~TellsEnd(n)' /\ TellsSpeaking(n)'
    BY <1>a, <1>b, <2>1, <2>2, OneTold DEF TellsEnd, TellsSpeaking, Commands
  <2>4. line = "open" => Alternating'
    <3>1. SUFFICES ASSUME line = "open"
                   PROVE  Alternating'
      OBVIOUS
    <3>2. \A i, j \in Commands' : TellsEnd(i)' /\ TellsEnd(j)' /\ i < j => FALSE
      BY <2>3, <3>1 DEF Reports, Alternating
    <3>3. \A i \in Commands' : TellsEnd(i)' => heard' = "bot-speaking"
      BY <2>1, <2>3, <3>1 DEF Reports, Alternating
    <3>4. \A i, s \in Commands' : TellsEnd(i)' /\ TellsSpeaking(s)' /\ s < i => FALSE
      BY <1>a, <2>3 DEF Commands
    <3>5. QED
      BY <3>2, <3>3, <3>4 DEF Alternating
  <2>5. line # "connecting" /\ playbackGeneration' # 0
    BY <1>a, <2>1
  <2>6. n \in Commands' /\ serial'[n].waiter = Chain
    BY <2>2, <2>3
  <2>7. QED
    BY <2>1, <2>4, <2>5, <2>6 DEF Reports
<1>7. CASE HandleAudioEnd
  <2>1. Silent /\ handling # "speak"
        /\ UNCHANGED <<line, playbackGeneration, playbackActive>>
    BY <1>7 DEF HandleAudioEnd, Handles, wire, volume, Silent
  <2>2. QED
    BY <2>1, SilenceKeepsReports
<1>8. CASE HandleInterrupt
  <2>1. /\ serial' = Append(serial, [kind |-> "restore", waiter |-> Chain])
        /\ handling = "none" /\ handling' = "interrupt" /\ heard' = heard /\ line' = line
        /\ botSpeakEndSent' /\ playbackActive' = FALSE
        /\ playbackActive /\ messageChain # <<>>
    BY <1>8 DEF HandleInterrupt, Handles, detectInterrupt, InterruptedAlready,
       enqueue, wire
  <2>2. PICK n \in Nat :
          /\ n = Len(serial) + 1 /\ Len(serial') = n
          /\ serial'[n].waiter = Chain
          /\ \A i \in 1..Len(serial) : serial'[i] = serial[i]
    BY <1>a, <1>b, <2>1, CommandQueued
  <2>3. line # "connecting"
    BY <1>a, <2>1
  <2>4. line = "open" => /\ heard = "bot-speaking"
                         /\ \A i \in Commands : ~TellsEnd(i)
    BY <2>1 DEF Reports
  <2>5. /\ Commands' = Commands \union {n}
        /\ \A i \in Commands : TellsEnd(i)' => TellsEnd(i)
        /\ \A i \in Commands' : ~TellsSpeaking(i)'
    BY <1>a, <1>b, <2>1, <2>2, OneTold DEF TellsEnd, TellsSpeaking, Commands
  <2>6. line = "open" => Alternating'
    BY <2>1, <2>2, <2>4, <2>5 DEF Alternating
  <2>7. QED
    BY <2>1, <2>2, <2>3, <2>5, <2>6 DEF Reports
<1>9. ASSUME NEW k \in Chunks, HearLoudChunk(k)
      PROVE  Reports'
  <2>1. Silent /\ UNCHANGED <<line, playback>>
    BY <1>9 DEF HearLoudChunk, enqueue, wire, playback, Silent
  <2>2. QED
    BY <2>1, SilenceKeepsReports DEF playback
<1>10. CASE CooldownEnds
  <2>1. Silent /\ UNCHANGED <<line, playback>>
    BY <1>10 DEF CooldownEnds, handlers, wire, volume, playback, Silent
  <2>2. QED
    BY <2>1, SilenceKeepsReports DEF playback
<1>11. ASSUME NEW g \in DOMAIN processes, PlayerExits(g)
       PROVE  Reports'
  <2> DEFINE told == processes[g].graceful /\ sentenceCompleted /\ ~botSpeakEndSent
  <2>1. /\ line' = line /\ handling' = handling
        /\ playbackGeneration' = playbackGeneration
        /\ playbackActive' = playbackActive \/ playbackActive' = FALSE
        /\ sentenceCompleted' = sentenceCompleted \/ sentenceCompleted' = FALSE
    BY <1>11 DEF PlayerExits, handlers
  <2>2. CASE g = playbackGeneration /\ told
    <3>1. /\ serial' = Append(serial, [kind |-> "restore", waiter |-> Nobody])
          /\ playbackActive' = FALSE /\ sentenceCompleted' = FALSE /\ botSpeakEndSent'
          /\ Tell("bot-speak-end")
      BY <1>11, <2>2 DEF PlayerExits, OfCurrentPlayback, enqueue
    <3>2. PICK n \in Nat :
            /\ n = Len(serial) + 1 /\ Len(serial') = n
            /\ serial'[n].waiter = Nobody
            /\ \A i \in 1..Len(serial) : serial'[i] = serial[i]
      BY <1>a, <1>b, <3>1, CommandQueued
    <3>3. /\ Commands' = Commands \union {n}
          /\ ~TellsEnd(n)' /\ \A i \in Commands : TellsEnd(i)' => TellsEnd(i)
      BY <1>a, <1>b, <2>1, <3>2 DEF TellsEnd, Commands
    <3>7. handling' # "none" => \E i \in Commands' : serial'[i].waiter = Chain
      BY <2>1, <3>2, <3>3 DEF Reports, Commands
    <3>4. CASE line = "open"
      <4>0. g # 0 /\ handling # "speak"
        <5>1. g # 0
          BY <1>a
        <5>2. sentenceCompleted
          BY <2>2
        <5>3. QED
          BY <3>4, <5>1, <5>2 DEF Reports
      <4>1. heard = "bot-speaking" /\ \A i \in Commands : ~TellsEnd(i)
        BY <2>2, <3>4, <4>0 DEF Reports
      <4>2. heard' = "bot-speak-end"
        BY <3>1, <3>4, <4>1 DEF Tell
      <4>3. Alternating'
        BY <3>3, <4>1 DEF Alternating
      <4>4. QED
        BY <2>1, <3>1, <3>4, <3>7, <4>2, <4>3 DEF Reports
    <3>5. CASE line # "open"
      <4>1. heard' = heard
        BY <3>1, <3>5 DEF Tell
      <4>2. line = "connecting" => \A i \in Commands' : serial'[i].waiter = Nobody
        BY <3>2, <3>3 DEF Reports, Commands
      <4>3. QED
        BY <2>1, <3>5, <3>7, <4>1, <4>2 DEF Reports
    <3>6. QED
      BY <3>4, <3>5
  <2>3. CASE g # playbackGeneration \/ ~told
    <3>1. Silent
      BY <1>11, <2>1, <2>3 DEF PlayerExits, OfCurrentPlayback, enqueue, volume,
         Silent
    <3>2. QED
      BY <2>1, <3>1, SilenceKeepsReports
  <2>4. QED
    BY <2>2, <2>3
<1>12. CASE NobodyResumes
  <2>1. Silent /\ UNCHANGED <<line, playback>>
    BY <1>12 DEF NobodyResumes, RestoreDone, handlers, wire, playback, Silent
  <2>2. QED
    BY <2>1, SilenceKeepsReports DEF playback
<1>13. CASE MessageHandled
  <2>1. /\ serial # <<>> /\ Head(serial) = [kind |-> "restore", waiter |-> Chain]
        /\ serial' = Tail(serial) /\ handling' = "none" /\ line' = line
        /\ Tell(IF handling = "speak" THEN "bot-speaking" ELSE "bot-speak-end")
        /\ UNCHANGED playback
    BY <1>13 DEF MessageHandled, RestoreDone
  <2>2. /\ 1 \in Commands
        /\ Head(serial).kind = "restore" /\ Head(serial).waiter = Chain
        /\ serial[1].kind = "restore" /\ serial[1].waiter = Chain
        /\ \A i \in Commands' : /\ i \in Nat /\ 1 < i + 1 /\ i + 1 \in Commands
                                /\ serial'[i] = serial[i + 1]
    BY <1>a, <2>1, CommandDone DEF Commands
  <2>3. /\ handling \in {"speak", "interrupt"}
        /\ \A i \in Commands : serial[i].waiter = Chain => i = 1
    BY <1>a, <2>2 DEF Waiting, IInv, TypeOK
  <2>4. \A i \in Commands' : /\ ~TellsSpeaking(i)'
                             /\ TellsEnd(i)' => TellsEnd(i + 1)
    BY <2>1, <2>2 DEF TellsEnd, TellsSpeaking
  <2>5. line # "connecting"
    BY <1>a, <1>13, ChainIsWaited
  <2>6. CASE line # "open"
    BY <2>1, <2>5, <2>6 DEF Tell, Reports
  <2>7. CASE line = "open" /\ handling = "speak"
    <3>1. heard' = "bot-speaking" /\ TellsSpeaking(1)
      BY <2>1, <2>2, <2>7 DEF Tell, TellsSpeaking
    <3>2. \A i \in Commands : TellsSpeaking(i) => i = 1
      BY <2>3 DEF TellsSpeaking
    <3>3. ASSUME NEW i \in Commands', TellsEnd(i)'
          PROVE  botSpeakEndSent
      BY <2>2, <2>4, <2>7, <3>1, <3>3 DEF Reports, Alternating
    <3>4. ASSUME NEW i \in Commands', NEW j \in Commands', TellsEnd(i)',
                 TellsEnd(j)', i < j
          PROVE  FALSE
      <4>1. i + 1 < j + 1 /\ 1 < i + 1
        BY <2>2, <3>4
      <4>2. PICK s \in Commands : i + 1 < s /\ TellsSpeaking(s)
        BY <2>2, <2>4, <2>7, <3>4, <4>1 DEF Reports, Alternating
      <4>3. QED
        BY <2>2, <3>2, <4>2
    <3>5. Alternating'
      BY <2>4, <3>1, <3>4 DEF Alternating
    <3>6. QED
      BY <2>1, <2>7, <3>1, <3>3, <3>5 DEF Reports, playback
  <2>8. CASE line = "open" /\ handling = "interrupt"
    <3>1. TellsEnd(1) /\ \A i \in Commands : ~TellsSpeaking(i)
      BY <2>2, <2>8 DEF TellsEnd, TellsSpeaking
    <3>2. heard = "bot-speaking"
      BY <2>2, <2>8, <3>1 DEF Reports, Alternating
    <3>3. heard' = "bot-speak-end"
      BY <2>1, <2>8, <3>2 DEF Tell
    <3>4. \A i \in Commands' : ~TellsEnd(i)'
      BY <2>2, <2>4, <2>8, <3>1 DEF Reports, Alternating
    <3>5. Alternating'
      BY <3>4 DEF Alternating
    <3>6. ~(playbackGeneration # 0 /\ ~botSpeakEndSent)
      BY <2>2, <2>8, <3>1 DEF Reports
    <3>7. QED
      BY <2>1, <2>8, <3>3, <3>5, <3>6 DEF Reports, playback
  <2>9. QED
    BY <2>3, <2>6, <2>7, <2>8
<1>14. ASSUME NEW k \in Chunks, ChunkTooLate(k)
       PROVE  Reports'
  <2>1. serial # <<>>
    BY <1>14, <1>a DEF ChunkTooLate, Waiting, Commands
  <2>2. Head(serial) = [kind |-> "duck", waiter |-> k] /\ serial' = Tail(serial)
    BY <1>14 DEF ChunkTooLate, DuckDone
  <2>3. Silent /\ UNCHANGED <<line, playback>>
    BY <1>14, <1>b, <2>1, <2>2 DEF ChunkTooLate, wire, playback, Silent
  <2>4. QED
    BY <2>3, SilenceKeepsReports DEF playback
<1>15. ASSUME NEW k \in Chunks, ChunkInterrupts(k)
       PROVE  Reports'
  <2>1. serial # <<>>
    BY <1>15, <1>a DEF ChunkInterrupts, Waiting, Commands
  <2>2. /\ Head(serial) = [kind |-> "duck", waiter |-> k]
        /\ serial' = Append(Tail(serial), [kind |-> "restore", waiter |-> k])
        /\ handling' = handling /\ heard' = heard /\ line' = line
        /\ playbackActive /\ playbackActive' = FALSE
        /\ sentenceCompleted' = FALSE /\ botSpeakEndSent'
    BY <1>15 DEF ChunkInterrupts, DuckDone, detectInterrupt, InterruptedAlready,
       wire
  <2>3. PICK n \in Nat :
          /\ n = Len(serial) /\ n >= 1 /\ Len(serial') = n
          /\ serial[1] = Head(serial) /\ serial'[n].waiter = k
          /\ \A i \in 1..n : i # n => serial'[i] = serial[i + 1]
          /\ \A i \in 1..n : i # 1 => i - 1 \in 1..n /\ serial'[i - 1] = serial[i]
    BY <1>a, <1>b, <2>1, <2>2, CommandReplaced
  <2>4. /\ Commands = 1..n /\ Commands' = 1..n
        /\ 1 \in 1..n /\ serial[1].waiter = k
    BY <2>2, <2>3 DEF Commands
  <2>5. line # "connecting"
    BY <1>b, <2>4 DEF Reports
  <2>9. handling' # "none" => \E i \in Commands' : serial'[i].waiter = Chain
    <3>1. SUFFICES ASSUME handling # "none"
                   PROVE  \E i \in 1..n : serial'[i].waiter = Chain
      BY <2>2, <2>4
    <3>2. PICK i \in 1..n : serial[i].waiter = Chain
      BY <2>4, <3>1 DEF Reports
    <3>3. i # 1
      BY <1>b, <2>4, <3>2
    <3>4. QED
      BY <2>3, <3>2, <3>3
  <2>6. CASE line # "open"
    BY <2>2, <2>5, <2>6, <2>9 DEF Reports
  <2>7. CASE line = "open"
    <3>1. /\ ~TellsSpeaking(n)'
          /\ \A i \in 1..n : i # n =>
               /\ i + 1 \in 1..n
               /\ TellsEnd(i)' <=> TellsEnd(i + 1)
               /\ TellsSpeaking(i)' <=> TellsSpeaking(i + 1)
      <4>1. \A i \in 1..n : i # n => i + 1 \in 1..n /\ serial'[i] = serial[i + 1]
        BY <2>3
      <4>2. k # Chain
        BY <1>b
      <4>3. QED
        BY <2>2, <2>3, <4>1, <4>2 DEF TellsEnd, TellsSpeaking
    <3>5. playbackGeneration # 0 /\ ~botSpeakEndSent
      BY <2>2, <2>7 DEF Reports
    <3>2. ASSUME handling # "speak"
          PROVE  Alternating'
      <4>1. heard' = "bot-speaking" /\ \A i \in 1..n : TellsEnd(i)' => i = n
        BY <2>2, <2>4, <2>7, <3>1, <3>2, <3>5 DEF Reports
      <4>2. QED
        BY <2>2, <2>4, <4>1 DEF Alternating
    <3>3. ASSUME handling = "speak"
          PROVE  Alternating'
      <4>1. PICK s \in 1..n : TellsSpeaking(s) /\ s # 1
        BY <1>b, <2>4, <3>3 DEF Reports, TellsSpeaking
      <4>2. s - 1 \in 1..n /\ s - 1 # n /\ TellsSpeaking(s - 1)'
        <5>1. s - 1 \in 1..n /\ s - 1 < n
          BY <2>3, <4>1
        <5>2. serial'[s - 1] = serial[s]
          BY <2>3, <4>1
        <5>3. QED
          BY <2>2, <2>3, <4>1, <5>1, <5>2 DEF TellsSpeaking
      <4>3. ASSUME NEW i \in 1..n, i # n, TellsEnd(i)'
            PROVE  i < s - 1
        <5>1. i + 1 \in 1..n /\ TellsEnd(i + 1)
          BY <3>1, <4>3
        <5>2. i + 1 # s
          BY <1>b, <3>3, <4>1, <5>1 DEF TellsEnd, TellsSpeaking
        <5>3. ~(s < i + 1)
          BY <2>4, <2>7, <3>5, <4>1, <5>1 DEF Reports, Alternating
        <5>4. QED
          BY <4>1, <5>1, <5>2, <5>3
      <4>4. ASSUME NEW i \in 1..n, NEW j \in 1..n, TellsEnd(i)', TellsEnd(j)',
                   i < j
            PROVE  \E t \in 1..n : i < t /\ t < j /\ TellsSpeaking(t)'
        <5>1. i # n /\ i < s - 1
          BY <2>3, <4>3, <4>4
        <5>2. CASE j = n
          BY <4>2, <5>1, <5>2
        <5>3. CASE j # n
          <6>1. /\ i + 1 \in 1..n /\ j + 1 \in 1..n /\ i + 1 < j + 1
                /\ TellsEnd(i + 1) /\ TellsEnd(j + 1)
            BY <3>1, <4>4, <5>1, <5>3
          <6>2. PICK t \in 1..n : i + 1 < t /\ t < j + 1 /\ TellsSpeaking(t)
            BY <2>4, <2>7, <6>1 DEF Reports, Alternating
          <6>3. /\ t - 1 \in 1..n /\ t - 1 # n /\ (t - 1) + 1 = t
                /\ i < t - 1 /\ t - 1 < j
            BY <6>2
          <6>4. QED
            BY <3>1, <6>2, <6>3
        <5>4. QED
          BY <5>2, <5>3
      <4>5. ASSUME NEW i \in 1..n, TellsEnd(i)'
            PROVE  heard' = "bot-speaking" \/ \E t \in 1..n : t < i /\ TellsSpeaking(t)'
        <5>1. CASE i = n
          BY <4>2, <5>1
        <5>2. CASE i # n
          <6>1. i + 1 \in 1..n /\ TellsEnd(i + 1)
            BY <3>1, <4>5, <5>2
          <6>2. CASE heard = "bot-speaking"
            BY <2>2, <6>2
          <6>3. ASSUME NEW t \in 1..n, t < i + 1, TellsSpeaking(t)
                PROVE  \E u \in 1..n : u < i /\ TellsSpeaking(u)'
            <7>1. t # 1
              BY <1>b, <2>4, <6>3 DEF TellsSpeaking
            <7>2. /\ t - 1 \in 1..n /\ t - 1 # n /\ (t - 1) + 1 = t /\ t - 1 < i
              BY <6>3, <7>1
            <7>3. QED
              BY <3>1, <6>3, <7>2
          <6>4. QED
            BY <2>4, <2>7, <6>1, <6>2, <6>3 DEF Reports, Alternating
        <5>3. QED
          BY <5>1, <5>2
      <4>6. QED
        BY <2>2, <2>4, <4>4, <4>5 DEF Alternating
    <3>4. QED
      BY <2>2, <2>7, <2>9, <3>2, <3>3 DEF Reports
  <2>8. QED
    BY <2>6, <2>7
<1>16. ASSUME NEW k \in Chunks, ChunkHandled(k)
       PROVE  Reports'
  <2>1. /\ serial # <<>> /\ Head(serial) = [kind |-> "restore", waiter |-> k]
        /\ serial' = Tail(serial) /\ line' = line /\ handling' = handling
        /\ Tell("bot-speak-end") /\ UNCHANGED playback
    BY <1>16 DEF ChunkHandled, RestoreDone
  <2>2. /\ 1 \in Commands /\ serial[1] = Head(serial)
        /\ serial[1].kind = "restore" /\ serial[1].waiter = k
        /\ \A i \in Commands : ~(i < 1)
        /\ \A i \in Commands : i # 1 => i - 1 \in Commands' /\ serial'[i - 1] = serial[i]
    BY <1>a, <2>1, CommandDone DEF Commands
  <2>7. handling' # "none" => \E i \in Commands' : serial'[i].waiter = Chain
    BY <1>b, <2>1, <2>2 DEF Reports
  <2>3. TellsEnd(1) /\ ~TellsSpeaking(1) /\ line # "connecting"
    BY <1>b, <2>1, <2>2 DEF TellsEnd, TellsSpeaking, Reports
  <2>4. CASE line # "open"
    BY <2>1, <2>3, <2>4, <2>7 DEF Tell, Reports
  <2>5. CASE line = "open"
    <3>1. heard = "bot-speaking"
      BY <2>2, <2>3, <2>5 DEF Reports, Alternating
    <3>2. heard' = "bot-speak-end"
      BY <2>1, <2>5, <3>1 DEF Tell
    <3>3. Alternating'
      BY <1>a, <2>1, <2>3, <2>5, TellingDone DEF Reports, Kept, playback
    <3>4. ~(playbackGeneration # 0 /\ ~botSpeakEndSent /\ handling # "speak")
      BY <2>2, <2>3, <2>5 DEF Reports
    <3>5. QED
      BY <2>1, <2>5, <2>7, <3>2, <3>3, <3>4 DEF Reports, playback
  <2>6. QED
    BY <2>4, <2>5
<1>17. QED
  BY <1>1, <1>2, <1>3, <1>4, <1>5, <1>6, <1>7, <1>8, <1>9, <1>10, <1>11, <1>12,
     <1>13, <1>14, <1>15, <1>16 DEF Next, Handle, CommandEnds

\* The hub hears the end of a speech once, with any number of chunks that
\* interrupt, messages that do, and exits of the player: botSpeakEndSent, the
\* generation of the playback and the order of the mixer's queue see to it.
THEOREM EndsAreToldOnce == Spec => []EndsReportedOnce
<1>1. Init => Reports
  <2> SUFFICES ASSUME Init
               PROVE  Reports
    OBVIOUS
  <2>1. Commands = {} /\ handling = "none" /\ line = "connecting" /\ heard = "nothing"
    BY DEF Init, VolumeInit, Commands
  <2>2. QED
    BY <2>1 DEF Reports
<1>2. IInv /\ Reports /\ [Next]_vars => Reports'
  <2> SUFFICES ASSUME IInv, Reports, [Next]_vars
               PROVE  Reports'
    OBVIOUS
  <2>1. CASE UNCHANGED vars
    <3>1. Silent /\ UNCHANGED <<line, playback>>
      BY <2>1 DEF vars, wire, handlers, volume, playback, Silent
    <3>2. QED
      BY <3>1, SilenceKeepsReports DEF playback
  <2>2. QED
    BY <2>1, ReportsStep
<1>3. Reports => EndsReportedOnce
  BY DEF Reports, EndsReportedOnce
<1>4. QED
  BY Invariant, <1>1, <1>2, <1>3, PTL DEF Spec

-----------------------------------------------------------------------------
(* The relay client: its tables hold the open requests, and speeches come whole *)

Replies == 1..Len(toRelay)
Line == 1..Len(readyWaiters)

\* The parts of RelayTypeOK.
HttpTypes == request \in [Requests -> RequestStates] /\ answer \in [Speeches -> Seq(Nat)]
SocketTypes ==
  /\ clientMuted \in BOOLEAN
  /\ relayLine \in {"connecting", "open", "closing", "closed"}
  /\ relayConnection \in Nat /\ relayReady \in BOOLEAN
TableTypes ==
  /\ readyWaiters \in Seq(Requests) /\ pendingRequests \subseteq Requests
  /\ pendingChunks \in [Speeches -> Seq(Nat)]
HubTypes ==
  /\ toHub \in Seq(Requests \union {Hello}) /\ greeted \in BOOLEAN
  /\ spoken \in [Speeches -> Nat]
ReplyTypes == toRelay \in Seq(HubMessages)

Once(seq) == \A i, j \in 1..Len(seq) : seq[i] = seq[j] => i = j

\* The hub handles a request at most once, and none that was not sent.
Unsent(r) == request[r] \in {"idle", "body", "waiting"}
Serial ==
  /\ Once(toHub)
  /\ \A r \in Requests : Unsent(r) => r \notin ToSet(toHub)

\* A result answers a clip; chunks and their end, a speech.
OfKind(m) ==
  /\ m.type = "relay.stt.result" => m.request \in Clips
  /\ m.type \in {"relay.tts.chunk", "relay.tts.done"} => m.request \in Speeches
Kinds == \A i \in Replies : OfKind(toRelay[i])

\* Of a pending speech the client has the first chunks, in order. The others
\* are on their way, each once and in order, and nothing comes after the end.
Chunk(i, s) == toRelay[i].type = "relay.tts.chunk" /\ toRelay[i].request = s
Done(i, s) == toRelay[i].type = "relay.tts.done" /\ toRelay[i].request = s
Collected(s) ==
  /\ Len(pendingChunks[s]) <= spoken[s]
  /\ \A n \in 1..Len(pendingChunks[s]) : pendingChunks[s][n] = n
ToCome(s) == Len(pendingChunks[s]) + 1..spoken[s]
ComesOnce(s) ==
  /\ \A i \in Replies : Chunk(i, s) => toRelay[i].chunk \in ToCome(s)
  /\ \A i, j \in Replies :
       i < j /\ Chunk(i, s) /\ Chunk(j, s) => toRelay[i].chunk < toRelay[j].chunk
ComesWhole(s) ==
  \A n \in ToCome(s) : \E i \in Replies : Chunk(i, s) /\ toRelay[i].chunk = n
EndsLast(s) ==
  \A j \in Replies : Done(j, s) =>
    s \notin ToSet(toHub) /\ \A i \in Replies : Chunk(i, s) => i < j
Speaking(s) == Collected(s) /\ ComesOnce(s) /\ ComesWhole(s) /\ EndsLast(s)

\* Of a speech that was not sent nothing has been said; one that is answered
\* is whole, and the hub says no more of it.
Unspoken(s) ==
  spoken[s] = 0 /\ pendingChunks[s] = <<>> /\ \A i \in Replies : ~Chunk(i, s) /\ ~Done(i, s)
Whole(s) == answer[s] = [n \in 1..spoken[s] |-> n] /\ s \notin ToSet(toHub)
Voice(s) ==
  /\ Unsent(s) => Unspoken(s)
  /\ request[s] = "pending" => Speaking(s)
  /\ request[s] = "answered" => Whole(s)

RelayIInv ==
  /\ HttpTypes /\ SocketTypes /\ TableTypes /\ HubTypes /\ ReplyTypes
  /\ TablesHoldOpenRequests /\ Once(readyWaiters)
  /\ Serial /\ Kinds
  /\ \A s \in Speeches : Voice(s)

-----------------------------------------------------------------------------
(* Sequences of requests.                                                  *)

LEMMA Removed ==
  ASSUME NEW S, NEW w \in Seq(S), NEW i \in 1..Len(w)
  PROVE  LET u == RemoveAt(w, i)
         IN  /\ u \in Seq(S) /\ Len(u) = Len(w) - 1
             /\ \A j \in 1..Len(u) : u[j] = IF j < i THEN w[j] ELSE w[j + 1]
<1> DEFINE a == SubSeq(w, 1, i - 1)
           b == SubSeq(w, i + 1, Len(w))
<1>1. /\ a \in Seq(S) /\ Len(a) = i - 1
      /\ \A j \in 1..Len(a) : a[j] = w[j]
  OBVIOUS
<1>2. /\ b \in Seq(S) /\ Len(b) = Len(w) - i
      /\ \A j \in 1..Len(b) : b[j] = w[i + j]
  OBVIOUS
<1>3. RemoveAt(w, i) = a \o b
  BY DEF RemoveAt
<1> HIDE DEF a, b
<1>4. /\ a \o b \in Seq(S) /\ Len(a \o b) = Len(a) + Len(b)
      /\ \A j \in 1..(Len(a) + Len(b)) :
           (a \o b)[j] = IF j <= Len(a) THEN a[j] ELSE b[j - Len(a)]
  BY <1>1, <1>2, ConcatProperties
<1>5. ASSUME NEW j \in 1..(Len(w) - 1)
      PROVE  (a \o b)[j] = IF j < i THEN w[j] ELSE w[j + 1]
  <2>1. CASE j < i
    BY <2>1, <1>1, <1>2, <1>4
  <2>2. CASE ~(j < i)
    <3>1. j - Len(a) \in 1..Len(b) /\ i + (j - Len(a)) = j + 1
      BY <2>2, <1>1, <1>2
    <3>2. j \in 1..(Len(a) + Len(b)) /\ ~(j <= Len(a))
      BY <2>2, <1>1, <1>2
    <3>3. QED
      BY <2>2, <3>1, <3>2, <1>2, <1>4
  <2>3. QED
    BY <2>1, <2>2
<1>6. Len(a) + Len(b) = Len(w) - 1
  BY <1>1, <1>2
<1>7. QED
  BY <1>1, <1>2, <1>3, <1>4, <1>5, <1>6

LEMMA MembersOf ==
  ASSUME NEW S, NEW w \in Seq(S)
  PROVE  \A x : x \in ToSet(w) <=> \E i \in 1..Len(w) : w[i] = x
  BY DEF ToSet

LEMMA RemovedOnce ==
  ASSUME NEW S, NEW w \in Seq(S), NEW i \in 1..Len(w), Once(w)
  PROVE  /\ Once(RemoveAt(w, i))
         /\ ToSet(RemoveAt(w, i)) = ToSet(w) \ {w[i]}
<1> DEFINE u == RemoveAt(w, i)
<1>1. /\ u \in Seq(S) /\ Len(u) = Len(w) - 1 /\ Len(w) \in Nat
      /\ \A j \in 1..Len(u) : u[j] = IF j < i THEN w[j] ELSE w[j + 1]
  BY Removed
<1> HIDE DEF u
<1>2. \A j \in 1..Len(u) :
        \E k \in 1..Len(w) : k # i /\ u[j] = w[k] /\ k = IF j < i THEN j ELSE j + 1
  BY <1>1
<1>3. \A k \in 1..Len(w) : k # i =>
        \E j \in 1..Len(u) : u[j] = w[k]
  <2>1. ASSUME NEW k \in 1..Len(w), k < i
        PROVE  k \in 1..Len(u) /\ u[k] = w[k]
    BY <2>1, <1>1
  <2>2. ASSUME NEW k \in 1..Len(w), k > i
        PROVE  k - 1 \in 1..Len(u) /\ u[k - 1] = w[k]
    <3>1. k - 1 \in 1..Len(u) /\ ~(k - 1 < i) /\ (k - 1) + 1 = k
      BY <2>2, <1>1
    <3>2. u[k - 1] = w[(k - 1) + 1]
      BY <1>1, <3>1
    <3>3. QED
      BY <3>1, <3>2
  <2>3. QED
    BY <2>1, <2>2
<1>4. Once(u)
  BY <1>1, <1>2 DEF Once
<1>5. \A x : x \in ToSet(u) <=> x \in ToSet(w) /\ x # w[i]
  <2>1. ASSUME NEW x \in ToSet(u) PROVE x \in ToSet(w) /\ x # w[i]
    BY <1>1, <1>2, MembersOf DEF Once
  <2>2. ASSUME NEW x \in ToSet(w), x # w[i] PROVE x \in ToSet(u)
    BY <2>2, <1>1, <1>3, MembersOf
  <2>3. QED
    BY <2>1, <2>2
<1>6. QED
  BY <1>4, <1>5 DEF u

LEMMA Joined ==
  ASSUME NEW S, NEW q \in Seq(S), NEW u \in Seq(S)
  PROVE  /\ q \o u \in Seq(S) /\ Len(q \o u) = Len(q) + Len(u)
         /\ \A i \in 1..Len(q \o u) :
              \/ i \in 1..Len(q) /\ (q \o u)[i] = q[i] /\ q[i] \in ToSet(q)
              \/ /\ i - Len(q) \in 1..Len(u) /\ (q \o u)[i] = u[i - Len(q)]
                 /\ u[i - Len(q)] \in ToSet(u)
         /\ \A x : x \in ToSet(q \o u) => x \in ToSet(q) \/ x \in ToSet(u)
<1> DEFINE v == q \o u
<1>1. /\ v \in Seq(S)
      /\ Len(v) = Len(q) + Len(u)
      /\ Len(q) \in Nat
      /\ Len(u) \in Nat
      /\ \A i \in 1..(Len(q) + Len(u)) : v[i] = IF i <= Len(q) THEN q[i] ELSE u[i - Len(q)]
  BY ConcatProperties
<1> HIDE DEF v
<1>2. ASSUME NEW i \in 1..Len(v), i <= Len(q)
      PROVE  i \in 1..Len(q) /\ v[i] = q[i] /\ q[i] \in ToSet(q)
  <2>1. i \in 1..Len(q) /\ v[i] = q[i]
    BY <1>1, <1>2
  <2>2. QED
    BY <2>1, MembersOf
<1>3. ASSUME NEW i \in 1..Len(v), ~(i <= Len(q))
      PROVE  i - Len(q) \in 1..Len(u) /\ v[i] = u[i - Len(q)] /\ u[i - Len(q)] \in ToSet(u)
  <2>1. i - Len(q) \in 1..Len(u) /\ v[i] = u[i - Len(q)]
    BY <1>1, <1>3
  <2>2. QED
    BY <2>1, MembersOf
<1>4. ASSUME NEW x \in ToSet(v) PROVE x \in ToSet(q) \/ x \in ToSet(u)
  <2>1. PICK i \in 1..Len(v) : v[i] = x
    BY <1>1, MembersOf
  <2>2. QED
    BY <2>1, <1>2, <1>3
<1>5. QED
  BY <1>1, <1>2, <1>3, <1>4 DEF v

LEMMA MessagesQueued ==
  ASSUME NEW S, NEW q \in Seq(S), NEW u \in Seq(S), Once(q), Once(u),
         ToSet(q) \intersect ToSet(u) = {}
  PROVE  Once(q \o u)
<1> DEFINE v == q \o u
<1>1. \A i \in 1..Len(v) : \/ i \in 1..Len(q) /\ v[i] = q[i] /\ q[i] \in ToSet(q)
                           \/ /\ i - Len(q) \in 1..Len(u) /\ v[i] = u[i - Len(q)]
                              /\ u[i - Len(q)] \in ToSet(u)
  BY Joined
<1> HIDE DEF v
<1>2. ASSUME NEW i \in 1..Len(v), NEW j \in 1..Len(v), v[i] = v[j]
      PROVE  i = j
  <2>1. CASE i \in 1..Len(q) /\ v[i] = q[i] /\ q[i] \in ToSet(q)
    <3>1. j \in 1..Len(q) /\ v[j] = q[j]
      BY <2>1, <1>1, <1>2
    <3>2. QED
      BY <2>1, <3>1, <1>2 DEF Once
  <2>2. CASE /\ i - Len(q) \in 1..Len(u) /\ v[i] = u[i - Len(q)]
             /\ u[i - Len(q)] \in ToSet(u)
    <3>1. j - Len(q) \in 1..Len(u) /\ v[j] = u[j - Len(q)]
      BY <2>2, <1>1, <1>2
    <3>2. i - Len(q) = j - Len(q)
      BY <2>2, <3>1, <1>2 DEF Once
    <3>3. QED
      BY <3>2
  <2>3. QED
    BY <2>1, <2>2, <1>1
<1>3. QED
  BY <1>2 DEF v, Once

LEMMA HeadHandled ==
  ASSUME NEW S, NEW q \in Seq(S), q # <<>>, Once(q)
  PROVE  /\ Once(Tail(q)) /\ Head(q) \in ToSet(q)
         /\ \A x : x \in ToSet(Tail(q)) => x \in ToSet(q) /\ x # Head(q)
<1> DEFINE u == Tail(q)
<1>1. /\ u \in Seq(S) /\ Len(q) = Len(u) + 1 /\ Len(u) \in Nat /\ Head(q) = q[1]
      /\ \A i \in 1..Len(u) : u[i] = q[i + 1] /\ i + 1 \in 1..Len(q) /\ i + 1 # 1
      /\ 1 \in 1..Len(q)
  OBVIOUS
<1> HIDE DEF u
<1>2. Once(u)
  BY <1>1 DEF Once
<1>3. Head(q) \in ToSet(q)
  BY <1>1, MembersOf
<1>4. ASSUME NEW x \in ToSet(u) PROVE x \in ToSet(q) /\ x # Head(q)
  <2>1. PICK i \in 1..Len(u) : u[i] = x
    BY <1>1, MembersOf
  <2>2. q[i + 1] = x /\ i + 1 \in 1..Len(q) /\ i + 1 # 1
    BY <2>1, <1>1
  <2>3. QED
    BY <2>2, <1>1, MembersOf DEF Once
<1>5. QED
  BY <1>2, <1>3, <1>4 DEF u

LEMMA ReplyTaken ==
  ASSUME ReplyTypes, toRelay # <<>>, toRelay' = Tail(toRelay)
  PROVE  /\ Len(toRelay) \in Nat /\ 1 \in Replies /\ toRelay[1] = Head(toRelay)
         /\ \A i \in Replies' : /\ i + 1 \in Replies /\ toRelay'[i] = toRelay[i + 1]
                                /\ i + 1 # 1 /\ i \in Nat
         /\ \A i \in Replies : i # 1 => i - 1 \in Replies' /\ toRelay'[i - 1] = toRelay[i]
  BY DEF ReplyTypes, Replies

LEMMA ReplyAdded ==
  ASSUME ReplyTypes, NEW type, NEW r, NEW n,
         toRelay' = Append(toRelay, Reply(type, r, n))
  PROVE  LET l == Len(toRelay) + 1
         IN  /\ l \in Nat /\ l \in Replies' /\ l \notin Replies
             /\ toRelay'[l].type = type
             /\ toRelay'[l].request = r
             /\ toRelay'[l].chunk = n
             /\ \A i \in Replies' : i # l => i \in Replies
             /\ \A i \in Replies : i \in Replies' /\ toRelay'[i] = toRelay[i] /\ i < l
  BY DEF ReplyTypes, Replies, Reply

-----------------------------------------------------------------------------
(* Types.                                                                  *)

LEMMA ChangesOfRequest ==
  ASSUME RelayNext
  PROVE  \/ UNCHANGED request
         \/ \E rs \in SUBSET (Requests \union ToSet(readyWaiters) \union pendingRequests),
               st \in RequestStates : Becomes(rs, st)
<1>1. CASE RelayApi
  BY <1>1
     DEF RelayApi, SetMicMuted, PostClip, PostSpeech, BodyIsBad, BodyRead, Enter,
         RequestStates, Requests
<1>2. CASE RelayWire
  BY <1>2
     DEF RelayWire, RelayOpens, RelayLosesHub, RelayCloses, RelayReconnects,
         FailAll, relayHttp, RequestStates, Requests
<1>3. CASE RelayPeer
  BY <1>3
     DEF RelayPeer, HubIsReady, HubAcknowledges, HubTranscribes, HubSpeaks,
         HubHasSpoken, HubFails, HubReplies, relayHttp
<1>4. CASE RelayHandles
  BY <1>4
     DEF RelayHandles, HandleHubReady, HandleLate, HandleResult, HandleChunk,
         HandleDone, HandleError, Settle, Enter, relayHttp, RequestStates
<1>5. CASE \E r \in Requests : RelayTimer(r)
  BY <1>5 DEF RelayTimer, ReadyTimesOut, RequestTimesOut, Settle, RequestStates
<1> QED BY <1>1, <1>2, <1>3, <1>4, <1>5 DEF RelayNext

LEMMA HttpStep ==
  ASSUME HttpTypes, TableTypes, RelayNext
  PROVE  HttpTypes'
<1>1. request' \in [Requests -> RequestStates]
  BY ChangesOfRequest DEF HttpTypes, Becomes
<1>2. UNCHANGED answer \/ HandleDone
  BY DEF RelayNext, RelayApi, RelayWire, RelayPeer, RelayHandles, RelayTimer,
         SetMicMuted, PostClip, PostSpeech, BodyIsBad, BodyRead, RelayOpens,
         RelayLosesHub, RelayCloses, RelayReconnects, HubIsReady,
         HubAcknowledges, HubTranscribes, HubSpeaks, HubHasSpoken, HubFails,
         HubReplies, HandleHubReady, HandleLate, HandleResult, HandleChunk,
         HandleError, ReadyTimesOut, RequestTimesOut, relayHttp
<1>3. answer' \in [Speeches -> Seq(Nat)]
  BY <1>2 DEF HandleDone, HttpTypes, TableTypes
<1>4. QED
  BY <1>1, <1>3 DEF HttpTypes

LEMMA SocketStep ==
  ASSUME SocketTypes, RelayNext
  PROVE  SocketTypes'
<1>1. \/ UNCHANGED <<clientMuted, relaySocket>>
      \/ clientMuted' \in BOOLEAN /\ UNCHANGED relaySocket
      \/ RelayWire \/ HandleHubReady
  BY DEF RelayNext, RelayApi, RelayPeer, RelayHandles, RelayTimer, SetMicMuted,
         PostClip, PostSpeech, BodyIsBad, BodyRead, HubIsReady, HubAcknowledges,
         HubTranscribes, HubSpeaks, HubHasSpoken, HubFails, HubReplies,
         HandleLate, HandleResult, HandleChunk, HandleDone, HandleError,
         ReadyTimesOut, RequestTimesOut, relayHttp, relaySocket
<1>2. CASE RelayWire
  <2>1. clientMuted' = clientMuted
    BY <1>2
       DEF RelayWire, RelayOpens, RelayLosesHub, RelayCloses, RelayReconnects,
           relayHttp
  <2>2. relayConnection' \in Nat
    BY <1>2
       DEF SocketTypes, RelayWire, RelayOpens, RelayLosesHub, RelayCloses,
           RelayReconnects
  <2>3. relayReady' \in BOOLEAN /\ relayLine' \in {"connecting", "open", "closing", "closed"}
    BY <1>2
       DEF SocketTypes, RelayWire, RelayOpens, RelayLosesHub, RelayCloses,
           RelayReconnects
  <2>4. QED
    BY <2>1, <2>2, <2>3 DEF SocketTypes
<1>3. CASE HandleHubReady
  BY <1>3 DEF SocketTypes, HandleHubReady
<1>4. QED
  BY <1>1, <1>2, <1>3 DEF SocketTypes, relaySocket

LEMMA TableStep ==
  ASSUME TableTypes, ReplyTypes, RelayNext
  PROVE  TableTypes'
<1>1. \/ UNCHANGED relayTables
      \/ \E r \in Requests : BodyRead(r) \/ RelayTimer(r)
      \/ RelayCloses \/ HandleHubReady \/ HandleResult \/ HandleChunk \/ HandleDone
      \/ HandleError
  BY DEF RelayNext, RelayApi, RelayWire, RelayPeer, RelayHandles, SetMicMuted,
         PostClip, PostSpeech, BodyIsBad, RelayOpens, RelayLosesHub,
         RelayReconnects, HubIsReady, HubAcknowledges, HubTranscribes,
         HubSpeaks, HubHasSpoken, HubFails, HubReplies, HandleLate, relayTables
<1>2. ASSUME NEW r \in Requests, BodyRead(r)
      PROVE  TableTypes'
  BY <1>2 DEF BodyRead, Enter, TableTypes
<1>3. ASSUME NEW r \in Requests, ReadyTimesOut(r)
      PROVE  TableTypes'
  <2>1. PICK i \in 1..Len(readyWaiters) : readyWaiters' = RemoveAt(readyWaiters, i)
    BY <1>3 DEF ReadyTimesOut, TableTypes
  <2>2. readyWaiters' \in Seq(Requests)
    BY <2>1, Removed DEF TableTypes
  <2>3. QED
    BY <1>3, <2>2 DEF ReadyTimesOut, TableTypes
<1>4. ASSUME NEW r, NEW st, Settle(r, st), UNCHANGED readyWaiters
      PROVE  TableTypes'
  <2>1. pendingChunks' \in [Speeches -> Seq(Nat)]
    BY <1>4 DEF Settle, TableTypes
  <2>2. QED
    BY <1>4, <2>1 DEF Settle, TableTypes
<1>5. CASE RelayCloses
  <2>1. pendingChunks' \in [Speeches -> Seq(Nat)]
    BY <1>5 DEF RelayCloses, FailAll, TableTypes
  <2>2. QED
    BY <1>5, <2>1 DEF RelayCloses, FailAll, TableTypes
<1>6. CASE HandleHubReady
  <2>1. ToSet(readyWaiters) \subseteq Requests
    BY DEF TableTypes, ToSet
  <2>2. readyWaiters' \in Seq(Requests) /\ pendingChunks' \in [Speeches -> Seq(Nat)]
    BY <1>6 DEF HandleHubReady, TableTypes
  <2>3. QED
    BY <1>6, <2>1, <2>2 DEF HandleHubReady, Enter, TableTypes
<1>7. CASE HandleChunk
  <2> DEFINE m == Head(toRelay)
  <2>1. m \in HubMessages
    BY <1>7 DEF HandleChunk, Receives, ReplyTypes
  <2>2. m.chunk \in Nat
    BY <2>1 DEF HubMessages
  <2>3. /\ pendingChunks' = [pendingChunks EXCEPT ![m.request] = Append(@, m.chunk)]
        /\ UNCHANGED <<readyWaiters, pendingRequests>>
    BY <1>7 DEF HandleChunk, AddChunk, Subject
  <2> HIDE DEF m
  <2>4. pendingChunks' \in [Speeches -> Seq(Nat)]
    <3> DEFINE s == m.request
               a == Append(pendingChunks[s], m.chunk)
    <3>1. s \in Speeches => a \in Seq(Nat)
      BY <2>2 DEF TableTypes
    <3>2. pendingChunks' = [pendingChunks EXCEPT ![s] = a]
      BY <2>3
    <3> HIDE DEF a, s
    <3>3. QED
      BY <3>1, <3>2 DEF TableTypes
  <2>5. QED
    BY <2>3, <2>4 DEF TableTypes
<1>8. QED
  BY <1>1, <1>2, <1>3, <1>4, <1>5, <1>6, <1>7
     DEF RelayTimer, RequestTimesOut, HandleResult, HandleDone, HandleError,
         TableTypes, relayTables

LEMMA RelayHubStep ==
  ASSUME HubTypes, TableTypes, RelayNext
  PROVE  HubTypes'
<1>1. \/ UNCHANGED <<toHub, greeted, spoken>>
      \/ \E r \in Requests : BodyRead(r) \/ HubFails(r)
      \/ \E s \in Speeches : HubSpeaks(s) \/ HubHasSpoken(s)
      \/ \E c \in Clips : HubTranscribes(c)
      \/ RelayOpens \/ RelayCloses \/ HandleHubReady \/ HubIsReady \/ HubAcknowledges
  BY DEF RelayNext, RelayApi, RelayWire, RelayPeer, RelayHandles, RelayTimer,
         SetMicMuted, PostClip, PostSpeech, BodyIsBad, RelayLosesHub,
         RelayReconnects, HandleLate, HandleResult, HandleChunk, HandleDone,
         HandleError, ReadyTimesOut, RequestTimesOut, relayHub
<1>2. /\ \/ UNCHANGED toHub
         \/ toHub' = <<>> \/ toHub' = <<Hello>>
         \/ toHub # <<>> /\ toHub' = Tail(toHub)
         \/ \E r \in Requests : toHub' = toHub \o <<r>>
         \/ toHub' = toHub \o readyWaiters
      /\ greeted' \in BOOLEAN
  BY <1>1
     DEF HubTypes, BodyRead, HubFails, HubSpeaks, HubHasSpoken, HubTranscribes,
         RelayOpens, RelayCloses, HandleHubReady, HubIsReady, HubAcknowledges,
         Sent, HubIsAt
<1> DEFINE Frames == Requests \union {Hello}
<1>a. /\ toHub \in Seq(Frames) /\ readyWaiters \in Seq(Frames)
      /\ \A r \in Requests : <<r>> \in Seq(Frames)
      /\ <<>> \in Seq(Frames) /\ <<Hello>> \in Seq(Frames)
  BY DEF HubTypes, TableTypes
<1> HIDE DEF Frames
<1>b. toHub' \in Seq(Frames)
  <2>1. CASE UNCHANGED toHub \/ toHub' = <<>> \/ toHub' = <<Hello>>
    BY <2>1, <1>a
  <2>2. CASE toHub # <<>> /\ toHub' = Tail(toHub)
    BY <2>2, <1>a
  <2>3. CASE \/ \E r \in Requests : toHub' = toHub \o <<r>>
             \/ toHub' = toHub \o readyWaiters
    BY <2>3, <1>a, ConcatProperties
  <2>4. QED
    BY <1>2, <2>1, <2>2, <2>3
<1>3. spoken' \in [Speeches -> Nat]
  <2>1. UNCHANGED spoken \/ \E s \in Speeches : spoken' = [spoken EXCEPT ![s] = @ + 1]
    BY <1>1
       DEF BodyRead, HubFails, HubSpeaks, HubHasSpoken, HubTranscribes,
           RelayOpens, RelayCloses, HandleHubReady, HubIsReady, HubAcknowledges
  <2>2. QED
    BY <2>1 DEF HubTypes
<1>4. QED
  BY <1>2, <1>3, <1>b DEF HubTypes, Frames

LEMMA RepliesChange ==
  ASSUME RelayNext
  PROVE  \/ UNCHANGED toRelay \/ toRelay' = <<>>
         \/ toRelay # <<>> /\ toRelay' = Tail(toRelay)
         \/ HubIsReady \/ HubAcknowledges
         \/ \E c \in Clips : HubTranscribes(c)
         \/ \E s \in Speeches : HubSpeaks(s) \/ HubHasSpoken(s)
         \/ \E r \in Requests : HubFails(r)
  BY DEF RelayNext, RelayApi, RelayWire, RelayPeer, RelayHandles, RelayTimer,
         SetMicMuted, PostClip, PostSpeech, BodyIsBad, BodyRead, RelayOpens,
         RelayLosesHub, RelayCloses, RelayReconnects, HandleHubReady,
         HandleLate, HandleResult, HandleChunk, HandleDone, HandleError,
         ReadyTimesOut, RequestTimesOut, Receives, relayHub

LEMMA ReplyStep ==
  ASSUME ReplyTypes, HubTypes, RelayNext
  PROVE  ReplyTypes'
<1>2. ASSUME NEW type \in {"ready", "relay.stt.result", "relay.tts.chunk",
                           "relay.tts.done", "relay.error"},
             NEW r \in Requests \union {Hello}, NEW n \in Nat, HubReplies(Reply(type, r, n))
      PROVE  ReplyTypes'
  <2> DEFINE m == Reply(type, r, n)
  <2>1. m \in HubMessages
    BY DEF HubMessages, Reply
  <2> HIDE DEF m
  <2>2. toRelay' = Append(toRelay, m)
    BY <1>2 DEF HubReplies, m
  <2>3. QED
    BY <2>1, <2>2 DEF ReplyTypes
<1>3. ASSUME NEW s \in Speeches, HubSpeaks(s)
      PROVE  ReplyTypes'
  <2>1. spoken'[s] \in Nat
    BY <1>3 DEF HubSpeaks, HubTypes
  <2>2. HubReplies(Reply("relay.tts.chunk", s, spoken'[s]))
    BY <1>3 DEF HubSpeaks
  <2>3. QED
    BY <2>1, <2>2, <1>2 DEF Requests
<1>4. CASE HubIsReady \/ HubAcknowledges
  BY <1>4, <1>2 DEF HubIsReady, HubAcknowledges
<1>5. ASSUME NEW c \in Clips, HubTranscribes(c)
      PROVE  ReplyTypes'
  BY <1>5, <1>2 DEF HubTranscribes, Requests
<1>6. ASSUME NEW s \in Speeches, HubHasSpoken(s)
      PROVE  ReplyTypes'
  BY <1>6, <1>2 DEF HubHasSpoken, Requests
<1>7. ASSUME NEW r \in Requests, HubFails(r)
      PROVE  ReplyTypes'
  BY <1>7, <1>2 DEF HubFails
<1>8. CASE UNCHANGED toRelay
  BY <1>8 DEF ReplyTypes
<1>b. CASE toRelay' = <<>>
  BY <1>b DEF ReplyTypes
<1>c. CASE toRelay # <<>> /\ toRelay' = Tail(toRelay)
  BY <1>c DEF ReplyTypes
<1>9. QED
  BY RepliesChange, <1>3, <1>4, <1>5, <1>6, <1>7, <1>8, <1>b, <1>c

-----------------------------------------------------------------------------
(* The tables.                                                             *)

LEMMA QuietTables ==
  ASSUME TablesHoldOpenRequests, Once(readyWaiters),
         UNCHANGED <<readyWaiters, pendingRequests>>,
         \A q \in Requests : \/ request'[q] = request[q]
                             \/ /\ request[q] \in {"idle", "body"}
                                /\ request'[q] \notin {"waiting", "pending"}
  PROVE  TablesHoldOpenRequests' /\ Once(readyWaiters)'
  BY DEF TablesHoldOpenRequests

LEMMA SettledTables ==
  ASSUME HttpTypes, TablesHoldOpenRequests, Once(readyWaiters),
         UNCHANGED readyWaiters,
         NEW r \in pendingRequests, NEW st \in {"answered", "failed"}, Settle(r, st)
  PROVE  TablesHoldOpenRequests' /\ Once(readyWaiters)'
  BY DEF TablesHoldOpenRequests, Settle, Becomes, HttpTypes

LEMMA TablesStep ==
  ASSUME HttpTypes, TableTypes, TablesHoldOpenRequests, Once(readyWaiters),
         RelayNext
  PROVE  TablesHoldOpenRequests' /\ Once(readyWaiters)'
<1>1. CASE RelayApi
  <2>1. CASE \/ \E muted \in BOOLEAN : SetMicMuted(muted)
             \/ \E c \in Clips : PostClip(c)
             \/ \E s \in Speeches : PostSpeech(s)
             \/ \E r \in Requests : BodyIsBad(r)
    <3>1. UNCHANGED <<readyWaiters, pendingRequests>>
      BY <2>1 DEF SetMicMuted, PostClip, PostSpeech, BodyIsBad, relayTables
    <3>2. \A q \in Requests : \/ request'[q] = request[q]
                              \/ /\ request[q] \in {"idle", "body"}
                                 /\ request'[q] \notin {"waiting", "pending"}
      BY <2>1 DEF SetMicMuted, PostClip, PostSpeech, BodyIsBad, Becomes
    <3>3. QED
      BY <3>1, <3>2, QuietTables
  <2>2. ASSUME NEW r \in Requests, BodyRead(r), IsReady
        PROVE  TablesHoldOpenRequests' /\ Once(readyWaiters)'
    <3>1. /\ Becomes({r}, "pending") /\ request[r] = "body"
          /\ pendingRequests' = pendingRequests \union {r} /\ UNCHANGED readyWaiters
      BY <2>2 DEF BodyRead, Enter, IsReady
    <3>2. QED
      BY <3>1 DEF TablesHoldOpenRequests, Becomes
  <2>3. ASSUME NEW r \in Requests, BodyRead(r), ~IsReady
        PROVE  TablesHoldOpenRequests' /\ Once(readyWaiters)'
    <3>1. /\ Becomes({r}, "waiting") /\ request[r] = "body"
          /\ readyWaiters' = Append(readyWaiters, r) /\ UNCHANGED pendingRequests
      BY <2>3 DEF BodyRead
    <3>2. r \notin ToSet(readyWaiters)
      BY <3>1 DEF TablesHoldOpenRequests
    <3>3. /\ Len(readyWaiters') = Len(readyWaiters) + 1 /\ Len(readyWaiters) \in Nat
          /\ readyWaiters'[Len(readyWaiters) + 1] = r
          /\ \A i \in Line : readyWaiters'[i] = readyWaiters[i] /\ readyWaiters[i] # r
          /\ readyWaiters' \in Seq(Requests)
      BY <3>1, <3>2, MembersOf DEF TableTypes, Line
    <3>4. Once(readyWaiters)'
      BY <3>3 DEF Once, Line
    <3>5. \A q : q \in ToSet(readyWaiters') <=> q = r \/ q \in ToSet(readyWaiters)
      BY <3>3, MembersOf DEF TableTypes, Line
    <3>6. QED
      BY <3>1, <3>4, <3>5 DEF TablesHoldOpenRequests, Becomes
  <2>4. QED
    BY <1>1, <2>1, <2>2, <2>3 DEF RelayApi
<1>2. CASE RelayWire
  <2>1. CASE RelayOpens \/ RelayLosesHub \/ RelayReconnects
    BY <2>1, QuietTables
       DEF RelayOpens, RelayLosesHub, RelayReconnects, relayTables, relayHttp
  <2>2. CASE RelayCloses
    <3>1. /\ readyWaiters' = <<>> /\ pendingRequests' = {}
          /\ Becomes(pendingRequests \union ToSet(readyWaiters), "failed")
      BY <2>2 DEF RelayCloses, FailAll
    <3>2. ToSet(readyWaiters') = {} /\ Once(readyWaiters)'
      BY <3>1 DEF ToSet, Once
    <3>3. QED
      BY <3>1, <3>2 DEF TablesHoldOpenRequests, Becomes
  <2>3. QED
    BY <1>2, <2>1, <2>2 DEF RelayWire
<1>3. CASE RelayPeer
  <2>1. UNCHANGED <<request, readyWaiters, pendingRequests>>
    BY <1>3
       DEF RelayPeer, HubIsReady, HubAcknowledges, HubTranscribes, HubSpeaks,
           HubHasSpoken,
                HubFails, HubReplies, relayHttp, relayTables
  <2>2. QED
    BY <2>1, QuietTables
<1>4. CASE RelayHandles
  <2>1. CASE HandleHubReady
    <3>1. /\ readyWaiters' = <<>>
          /\ \/ /\ Becomes(ToSet(readyWaiters), "pending")
                /\ pendingRequests' = pendingRequests \union ToSet(readyWaiters)
             \/ /\ Becomes(ToSet(readyWaiters), "failed") /\ UNCHANGED pendingRequests
      BY <2>1 DEF HandleHubReady, Enter
    <3>2. ToSet(readyWaiters') = {} /\ Once(readyWaiters)'
      BY <3>1 DEF ToSet, Once
    <3>3. QED
      BY <3>1, <3>2 DEF TablesHoldOpenRequests, Becomes
  <2>2. CASE HandleLate \/ HandleChunk
    BY <2>2, QuietTables DEF HandleLate, HandleChunk, relayHttp, relayTables
  <2>3. CASE HandleResult \/ HandleDone \/ HandleError
    BY <2>3, SettledTables DEF HandleResult, HandleDone, HandleError
  <2>4. QED
    BY <1>4, <2>1, <2>2, <2>3 DEF RelayHandles
<1>5. ASSUME NEW r \in Requests, RelayTimer(r)
      PROVE  TablesHoldOpenRequests' /\ Once(readyWaiters)'
  <2>1. CASE ReadyTimesOut(r)
    <3>1. PICK i \in Line : readyWaiters[i] = r /\ readyWaiters' = RemoveAt(readyWaiters, i)
      BY <2>1 DEF ReadyTimesOut, TableTypes, Line
    <3>2. Once(readyWaiters)' /\ ToSet(readyWaiters') = ToSet(readyWaiters) \ {r}
      BY <3>1, RemovedOnce DEF TableTypes, Line
    <3>3. Becomes({r}, "failed") /\ UNCHANGED pendingRequests
      BY <2>1 DEF ReadyTimesOut
    <3>4. request[r] = "waiting"
      BY <3>1, MembersOf DEF TablesHoldOpenRequests, TableTypes, Line
    <3>5. QED
      BY <3>2, <3>3, <3>4 DEF TablesHoldOpenRequests, Becomes
  <2>2. CASE RequestTimesOut(r)
    BY <2>2, SettledTables DEF RequestTimesOut
  <2>3. QED
    BY <1>5, <2>1, <2>2 DEF RelayTimer
<1>6. QED
  BY <1>1, <1>2, <1>3, <1>4, <1>5 DEF RelayNext

-----------------------------------------------------------------------------
(* The hub's chain and its replies.                                        *)

\* A request is sent once, and what comes after does not unsend it.
LEMMA SentOnce ==
  ASSUME HttpTypes, TableTypes, TablesHoldOpenRequests, RelayNext,
         NEW r \in Requests
  PROVE  Unsent(r)' => Unsent(r)
<1>1. ASSUME NEW rs, NEW st, Becomes(rs, st),
             st \notin {"idle", "body", "waiting"}
      PROVE  Unsent(r)' => Unsent(r)
  BY <1>1 DEF Becomes, Unsent
<1>2. CASE RelayApi
  BY <1>2, <1>1
     DEF RelayApi, SetMicMuted, PostClip, PostSpeech, BodyIsBad, BodyRead, Enter,
         Becomes, Unsent
<1>3. CASE RelayWire
  BY <1>3, <1>1
     DEF RelayWire, RelayOpens, RelayLosesHub, RelayCloses, RelayReconnects,
         FailAll, relayHttp, Unsent
<1>4. CASE RelayPeer
  BY <1>4
     DEF RelayPeer, HubIsReady, HubAcknowledges, HubTranscribes, HubSpeaks,
         HubHasSpoken, HubFails, HubReplies, relayHttp, Unsent
<1>5. CASE RelayHandles
  BY <1>5, <1>1
     DEF RelayHandles, HandleHubReady, HandleLate, HandleResult, HandleChunk,
         HandleDone, HandleError, Settle, Enter, relayHttp, Unsent
<1>6. CASE \E q \in Requests : RelayTimer(q)
  BY <1>6, <1>1 DEF RelayTimer, ReadyTimesOut, RequestTimesOut, Settle
<1>7. QED
  BY <1>2, <1>3, <1>4, <1>5, <1>6 DEF RelayNext

LEMMA SerialStep ==
  ASSUME RelayAssumption, HttpTypes, TableTypes, HubTypes,
         TablesHoldOpenRequests, Once(readyWaiters), Serial, RelayNext
  PROVE  Serial'
<1> DEFINE Frames == Requests \union {Hello}
<1>a. /\ toHub \in Seq(Frames) /\ readyWaiters \in Seq(Frames)
      /\ \A r \in Requests : <<r>> \in Seq(Frames)
  BY DEF HubTypes, TableTypes
<1>b. \A r \in Requests : Unsent(r)' => Unsent(r)
  BY SentOnce
<1> HIDE DEF Frames
<1>1. CASE UNCHANGED toHub
  BY <1>1, <1>b DEF Serial
<1>2. CASE toHub' = <<>> \/ toHub' = <<Hello>>
  <2>1. Once(toHub')
    BY <1>2 DEF Once
  <2>2. \A r \in Requests : r \notin ToSet(toHub')
    BY <1>2 DEF ToSet, RelayAssumption
  <2>3. QED
    BY <2>1, <2>2 DEF Serial
<1>3. CASE toHub # <<>> /\ toHub' = Tail(toHub)
  BY <1>3, <1>a, <1>b, HeadHandled DEF Serial
<1>4. ASSUME NEW r \in Requests, BodyRead(r), IsReady
      PROVE  Serial'
  <2>1. toHub' = toHub \o <<r>> /\ request[r] = "body" /\ Becomes({r}, "pending")
    BY <1>4 DEF BodyRead, Sent, IsReady, Enter
  <2>2. Once(<<r>>) /\ ToSet(<<r>>) = {r}
    BY DEF Once, ToSet
  <2>3. ToSet(toHub) \intersect ToSet(<<r>>) = {}
    BY <2>1, <2>2 DEF Serial, Unsent
  <2>4. Once(toHub') /\ \A x : x \in ToSet(toHub') => x \in ToSet(toHub) \/ x \in ToSet(<<r>>)
    BY <2>1, <2>2, <2>3, <1>a, Joined, MessagesQueued DEF Serial
  <2>5. ~Unsent(r)'
    BY <2>1 DEF Becomes, Unsent
  <2>6. QED
    BY <2>2, <2>4, <2>5, <1>b DEF Serial
<1>5. CASE HandleHubReady /\ relayLine = "open"
  <2>1. toHub' = toHub \o readyWaiters /\ Becomes(ToSet(readyWaiters), "pending")
    BY <1>5 DEF HandleHubReady, Sent, Enter
  <2>2. ToSet(toHub) \intersect ToSet(readyWaiters) = {}
    BY DEF Serial, Unsent, TablesHoldOpenRequests
  <2>3. /\ Once(toHub')
        /\ \A x : x \in ToSet(toHub') => x \in ToSet(toHub) \/ x \in ToSet(readyWaiters)
    BY <2>1, <2>2, <1>a, Joined, MessagesQueued DEF Serial
  <2>4. \A r \in Requests : r \in ToSet(readyWaiters) => ~Unsent(r)'
    BY <2>1 DEF Becomes, Unsent
  <2>5. QED
    BY <2>3, <2>4, <1>b DEF Serial
<1>6. \/ UNCHANGED toHub \/ toHub' = <<>> \/ toHub' = <<Hello>>
      \/ toHub # <<>> /\ toHub' = Tail(toHub)
      \/ \E r \in Requests : BodyRead(r) /\ IsReady
      \/ HandleHubReady /\ relayLine = "open"
  BY DEF RelayNext, RelayApi, RelayWire, RelayPeer, RelayHandles, RelayTimer,
         SetMicMuted, PostClip, PostSpeech, BodyIsBad, BodyRead, RelayOpens,
         RelayLosesHub, RelayCloses, RelayReconnects, HandleHubReady,
         HandleLate, HandleResult, HandleChunk, HandleDone, HandleError,
         ReadyTimesOut, RequestTimesOut, relayHub, HubIsReady, HubAcknowledges,
         HubTranscribes, HubSpeaks, HubHasSpoken, HubFails, HubIsAt, Sent
<1>7. QED
  BY <1>1, <1>2, <1>3, <1>4, <1>5, <1>6

LEMMA KindsStep ==
  ASSUME RelayAssumption, ReplyTypes, Kinds, RelayNext
  PROVE  Kinds'
<1>1. CASE UNCHANGED toRelay
  BY <1>1 DEF Kinds, Replies
<1>2. CASE toRelay' = <<>>
  BY <1>2 DEF Kinds, Replies
<1>3. CASE toRelay # <<>> /\ toRelay' = Tail(toRelay)
  BY <1>3, ReplyTaken DEF Kinds
<1>4. ASSUME NEW type, NEW r, NEW n, HubReplies(Reply(type, r, n)),
             \/ type \in {"ready", "relay.error"}
             \/ type = "relay.stt.result" /\ r \in Clips
             \/ type \in {"relay.tts.chunk", "relay.tts.done"} /\ r \in Speeches
      PROVE  Kinds'
  <2>1. toRelay' = Append(toRelay, Reply(type, r, n))
    BY <1>4 DEF HubReplies
  <2> DEFINE l == Len(toRelay) + 1
  <2>2. /\ toRelay'[l].type = type /\ toRelay'[l].request = r
        /\ \A i \in Replies' : i # l => i \in Replies /\ toRelay'[i] = toRelay[i]
    BY <2>1, ReplyAdded
  <2> HIDE DEF l
  <2>3. OfKind(toRelay'[l])
    BY <1>4, <2>2 DEF OfKind
  <2>4. \A i \in Replies' : OfKind(toRelay'[i])
    BY <2>2, <2>3 DEF Kinds
  <2>5. QED
    BY <2>4 DEF Kinds
<1>5. CASE HubIsReady \/ HubAcknowledges
  BY <1>5, <1>4 DEF HubIsReady, HubAcknowledges
<1>6. ASSUME NEW c \in Clips, HubTranscribes(c)
      PROVE  Kinds'
  BY <1>6, <1>4 DEF HubTranscribes
<1>7. ASSUME NEW s \in Speeches, HubSpeaks(s) \/ HubHasSpoken(s)
      PROVE  Kinds'
  BY <1>7, <1>4 DEF HubHasSpoken, HubSpeaks
<1>8. ASSUME NEW r \in Requests, HubFails(r)
      PROVE  Kinds'
  BY <1>8, <1>4 DEF HubFails
<1>9. QED
  BY <1>1, <1>2, <1>3, <1>5, <1>6, <1>7, <1>8, RepliesChange

-----------------------------------------------------------------------------
(* The voice of each speech.                                               *)

\* A step that says nothing of a speech and neither hears nor settles it.
Aside(s) ==
  /\ spoken'[s] = spoken[s]
  /\ \/ pendingChunks'[s] = pendingChunks[s]
     \/ pendingChunks'[s] = <<>> /\ request'[s] # "pending"
  /\ answer'[s] = answer[s]
  /\ \/ request'[s] = request[s]
     \/ Unsent(s) /\ Unsent(s)'
     \/ Unsent(s) /\ request'[s] = "pending"
     \/ request'[s] \in {"failed", "refused"}
  /\ s \in ToSet(toHub') => s \in ToSet(toHub) \/ Unsent(s)
  /\ \/ UNCHANGED toRelay
     \/ toRelay' = <<>> /\ request'[s] # "pending"
     \/ /\ toRelay # <<>> /\ toRelay' = Tail(toRelay)
        /\ request[s] = "pending" /\ request'[s] = "pending" => ~Chunk(1, s) /\ ~Done(1, s)
     \/ \E type, r, n : /\ toRelay' = Append(toRelay, Reply(type, r, n))
                        /\ r # s \/ type \in {"ready", "relay.error"}

LEMMA AsideKeepsVoice ==
  ASSUME ReplyTypes, TableTypes, HubTypes, NEW s \in Speeches, Voice(s), Aside(s)
  PROVE  Voice(s)'
<1>1. CASE request'[s] \in {"failed", "refused"}
  BY <1>1 DEF Voice, Unsent
<1>2. CASE Unsent(s) /\ request'[s] # "failed"
  <2>1. \A i \in Replies' : ~Chunk(i, s)' /\ ~Done(i, s)'
    <3>a. \A i \in Replies : ~Chunk(i, s) /\ ~Done(i, s)
      BY <1>2 DEF Voice, Unspoken
    <3>1. CASE UNCHANGED toRelay
      BY <3>1, <3>a DEF Chunk, Done, Replies
    <3>b. CASE toRelay' = <<>>
      BY <3>b DEF Replies
    <3>2. CASE toRelay # <<>> /\ toRelay' = Tail(toRelay)
      <4>1. \A i \in Replies' : i + 1 \in Replies /\ toRelay'[i] = toRelay[i + 1]
        BY <3>2, ReplyTaken
      <4>2. QED
        BY <4>1, <3>a DEF Chunk, Done
    <3>3. ASSUME NEW type, NEW r, NEW n,
                 toRelay' = Append(toRelay, Reply(type, r, n)),
                 r # s \/ type \in {"ready", "relay.error"}
          PROVE  \A i \in Replies' : ~Chunk(i, s)' /\ ~Done(i, s)'
      BY <3>3, <3>a, ReplyAdded DEF Chunk, Done
    <3>4. QED
      BY <3>1, <3>2, <3>3, <3>b DEF Aside
  <2>2. spoken'[s] = 0 /\ pendingChunks'[s] = <<>>
    BY <1>2 DEF Voice, Unspoken, Aside
  <2>3. Unspoken(s)'
    BY <2>1, <2>2 DEF Unspoken
  <2>4. Speaking(s)'
    BY <2>1, <2>2 DEF Speaking, Collected, ComesOnce, ComesWhole, EndsLast, ToCome
  <2>5. request'[s] # "answered"
    BY <1>2 DEF Aside, Unsent
  <2>6. QED
    BY <2>3, <2>4, <2>5 DEF Voice
<1>3. CASE request[s] = "answered" /\ request'[s] = "answered"
  BY <1>3 DEF Voice, Aside, Whole, Unsent
<1>4. CASE request[s] = "pending" /\ request'[s] = "pending"
  <2>1. /\ pendingChunks'[s] = pendingChunks[s] /\ spoken'[s] = spoken[s]
        /\ s \in ToSet(toHub') => s \in ToSet(toHub)
        /\ Collected(s) /\ ComesOnce(s) /\ ComesWhole(s) /\ EndsLast(s)
    BY <1>4 DEF Aside, Voice, Unsent, Speaking
  <2>a. Collected(s)' /\ ToCome(s)' = ToCome(s)
    BY <2>1 DEF Collected, ToCome
  <2>2. ASSUME UNCHANGED toRelay
        PROVE  Speaking(s)'
    <3>1. Replies' = Replies /\ \A i : Chunk(i, s)' <=> Chunk(i, s)
      BY <2>2 DEF Chunk, Replies
    <3>2. \A i : Done(i, s)' <=> Done(i, s)
      BY <2>2 DEF Done
    <3>3. ComesOnce(s)'
      BY <2>1, <2>2, <2>a, <3>1 DEF ComesOnce
    <3>4. ComesWhole(s)' /\ EndsLast(s)'
      BY <2>1, <2>2, <2>a, <3>1, <3>2 DEF ComesWhole, EndsLast
    <3>5. QED
      BY <2>a, <3>3, <3>4 DEF Speaking
  <2>3. ASSUME toRelay # <<>>, toRelay' = Tail(toRelay), ~Chunk(1, s), ~Done(1, s)
        PROVE  Speaking(s)'
    <3>1. \A i \in Replies' : /\ i + 1 \in Replies /\ toRelay'[i] = toRelay[i + 1] /\ i \in Nat
                              /\ Chunk(i, s)' <=> Chunk(i + 1, s)
                              /\ Done(i, s)' <=> Done(i + 1, s)
      BY <2>3, ReplyTaken DEF Chunk, Done
    <3>2. \A i \in Replies : Chunk(i, s) =>
            i - 1 \in Replies' /\ Chunk(i - 1, s)' /\ toRelay'[i - 1] = toRelay[i]
      BY <2>3, ReplyTaken DEF Chunk, Done
    <3>3. ComesOnce(s)'
      BY <2>1, <2>a, <3>1 DEF ComesOnce
    <3>4. ComesWhole(s)'
      BY <2>1, <2>a, <3>2 DEF ComesWhole
    <3>5. EndsLast(s)'
      BY <2>1, <3>1 DEF EndsLast
    <3>6. QED
      BY <2>a, <3>3, <3>4, <3>5 DEF Speaking
  <2>4. ASSUME NEW type, NEW r, NEW n,
               toRelay' = Append(toRelay, Reply(type, r, n)),
               r # s \/ type \in {"ready", "relay.error"}
        PROVE  Speaking(s)'
    <3>1. \A i \in Replies' : Chunk(i, s)' \/ Done(i, s)' => i \in Replies
      BY <2>4, ReplyAdded DEF Chunk, Done
    <3>2. \A i \in Replies : /\ i \in Replies' /\ toRelay'[i] = toRelay[i]
                             /\ Chunk(i, s)' <=> Chunk(i, s)
                             /\ Done(i, s)' <=> Done(i, s)
      BY <2>4, ReplyAdded DEF Chunk, Done
    <3>3. ComesOnce(s)'
      BY <2>1, <2>a, <3>1, <3>2 DEF ComesOnce
    <3>4. ComesWhole(s)'
      BY <2>1, <2>a, <3>2 DEF ComesWhole
    <3>5. EndsLast(s)'
      BY <2>1, <3>1, <3>2 DEF EndsLast
    <3>6. QED
      BY <2>a, <3>3, <3>4, <3>5 DEF Speaking
  <2>5. QED
    BY <1>4, <2>2, <2>3, <2>4 DEF Aside, Voice, Unsent
<1>5. QED
  BY <1>1, <1>2, <1>3, <1>4 DEF Aside, Voice, Unsent

LEMMA OthersStandAside ==
  ASSUME RelayAssumption, HttpTypes, TableTypes, HubTypes, ReplyTypes,
         TablesHoldOpenRequests,
         Kinds, RelayNext, NEW s \in Speeches, Voice(s),
         ~HubSpeaks(s), ~HubHasSpoken(s),
         ~(HandleChunk /\ Subject = s), ~(HandleDone /\ Subject = s)
  PROVE  Aside(s)
<1>1. s \in Requests /\ s \notin Clips
  BY DEF RelayAssumption, Requests
<1>2. ASSUME UNCHANGED <<answer, spoken, toRelay>>, UNCHANGED pendingChunks,
             UNCHANGED toHub,
             \/ request'[s] = request[s]
             \/ Unsent(s) /\ Unsent(s)'
             \/ request'[s] \in {"failed", "refused"}
      PROVE  Aside(s)
  BY <1>2 DEF Aside
<1>3. CASE RelayApi
  <2>1. CASE \/ \E muted \in BOOLEAN : SetMicMuted(muted)
             \/ \E c \in Clips : PostClip(c)
             \/ \E t \in Speeches : PostSpeech(t)
             \/ \E r \in Requests : BodyIsBad(r)
    <3>1. UNCHANGED <<answer, spoken, toRelay, pendingChunks, toHub>>
      BY <2>1
         DEF SetMicMuted, PostClip, PostSpeech, BodyIsBad, relayTables, relayHub
    <3>2. \/ request'[s] = request[s]
          \/ Unsent(s) /\ Unsent(s)'
          \/ request'[s] \in {"failed", "refused"}
      BY <2>1, <1>1
         DEF SetMicMuted, PostClip, PostSpeech, BodyIsBad, Becomes, Unsent
    <3>3. QED
      BY <3>1, <3>2, <1>2
  <2>2. ASSUME NEW r \in Requests, BodyRead(r)
        PROVE  Aside(s)
    <3>1. UNCHANGED <<answer, spoken, toRelay, pendingChunks>> /\ request[r] = "body"
      BY <2>2 DEF BodyRead
    <3>2. CASE IsReady
      <4>1. Becomes({r}, "pending") /\ toHub' = toHub \o <<r>>
        BY <2>2, <3>2 DEF BodyRead, Enter, Sent, IsReady
      <4>2. s \in ToSet(toHub') => s \in ToSet(toHub) \/ s = r
        BY <4>1 DEF ToSet, HubTypes
      <4>3. QED
        BY <1>1, <3>1, <4>1, <4>2 DEF Aside, Becomes, Unsent
    <3>3. CASE ~IsReady
      BY <2>2, <3>1, <3>3, <1>1, <1>2 DEF BodyRead, Becomes, Unsent
    <3>4. QED
      BY <3>2, <3>3
  <2>3. QED
    BY <1>3, <2>1, <2>2 DEF RelayApi
<1>4. CASE RelayWire
  <2>1. CASE RelayLosesHub \/ RelayReconnects
    BY <2>1, <1>2
       DEF RelayLosesHub, RelayReconnects, relayHttp, relayTables, relayHub
  <2>2. CASE RelayOpens
    <3>1. s \notin ToSet(toHub')
      BY <2>2, <1>1 DEF RelayOpens, ToSet, RelayAssumption
    <3>2. QED
      BY <2>2, <3>1 DEF RelayOpens, Aside, relayHttp, relayTables
  <2>3. CASE RelayCloses
    <3>1. s \notin ToSet(toHub')
      BY <2>3 DEF RelayCloses, ToSet
    <3>2. /\ UNCHANGED <<answer, spoken>> /\ toRelay' = <<>>
          /\ pendingChunks'[s] = <<>>
          /\ Becomes(pendingRequests \union ToSet(readyWaiters), "failed")
      BY <2>3 DEF RelayCloses, FailAll
    <3>3. request'[s] # "pending"
      BY <1>1, <3>2 DEF Becomes, TablesHoldOpenRequests
    <3>4. request'[s] = request[s] \/ request'[s] = "failed"
      BY <1>1, <3>2 DEF Becomes
    <3>5. QED
      BY <3>1, <3>2, <3>3, <3>4 DEF Aside
  <2>4. QED
    BY <1>4, <2>1, <2>2, <2>3 DEF RelayWire
<1>5. CASE RelayPeer
  <2>1. ASSUME NEW type, NEW r, NEW n, HubReplies(Reply(type, r, n)),
               r # s \/ type \in {"ready", "relay.error"},
               UNCHANGED toHub \/ (toHub # <<>> /\ toHub' = Tail(toHub)),
               spoken'[s] = spoken[s]
        PROVE  Aside(s)
    <3>1. /\ toRelay' = Append(toRelay, Reply(type, r, n))
          /\ UNCHANGED <<request, answer, pendingChunks>>
      BY <2>1 DEF HubReplies, relayHttp, relayTables
    <3>2. s \in ToSet(toHub') => s \in ToSet(toHub)
      BY <2>1 DEF ToSet, HubTypes
    <3>3. QED
      BY <2>1, <3>1, <3>2 DEF Aside
  <2>2. CASE HubIsReady
    BY <2>2, <2>1 DEF HubIsReady
  <2>3. CASE HubAcknowledges
    BY <2>3, <2>1 DEF HubAcknowledges, HubIsAt
  <2>4. ASSUME NEW c \in Clips, HubTranscribes(c) PROVE Aside(s)
    BY <2>4, <2>1, <1>1 DEF HubTranscribes, HubIsAt
  <2>5. ASSUME NEW t \in Speeches, HubSpeaks(t) PROVE Aside(s)
    <3>1. t # s /\ spoken'[s] = spoken[s] /\ UNCHANGED toHub
      BY <2>5 DEF HubSpeaks, HubTypes
    <3>2. HubReplies(Reply("relay.tts.chunk", t, spoken'[t]))
      BY <2>5 DEF HubSpeaks
    <3>3. QED
      BY <3>1, <3>2, <2>1
  <2>6. ASSUME NEW t \in Speeches, HubHasSpoken(t) PROVE Aside(s)
    BY <2>6, <2>1 DEF HubHasSpoken, HubIsAt
  <2>7. ASSUME NEW r \in Requests, HubFails(r) PROVE Aside(s)
    BY <2>7, <2>1 DEF HubFails, HubIsAt
  <2>8. QED
    BY <1>5, <2>2, <2>3, <2>4, <2>5, <2>6, <2>7 DEF RelayPeer
<1>6. CASE RelayHandles
  <2>1. toRelay # <<>> => 1 \in Replies /\ toRelay[1] = Head(toRelay)
    BY DEF ReplyTypes, Replies
  <2>2. CASE HandleHubReady
    <3>1. /\ UNCHANGED <<answer, spoken, pendingChunks>>
          /\ toRelay # <<>>
          /\ toRelay' = Tail(toRelay)
          /\ Head(toRelay).type = "ready"
      BY <2>2 DEF HandleHubReady, Receives
    <3>2. \/ Becomes(ToSet(readyWaiters), "pending") /\ toHub' = toHub \o readyWaiters
          \/ Becomes(ToSet(readyWaiters), "failed") /\ UNCHANGED toHub
      BY <2>2 DEF HandleHubReady, Enter, Sent
    <3>3. ~Chunk(1, s) /\ ~Done(1, s)
      BY <2>1, <3>1 DEF Chunk, Done
    <3>4. s \in ToSet(readyWaiters) <=> request[s] = "waiting"
      BY <1>1 DEF TablesHoldOpenRequests
    <3>5. s \in ToSet(toHub') => s \in ToSet(toHub) \/ s \in ToSet(readyWaiters)
      <4>1. /\ toHub \in Seq(Requests \union {Hello})
            /\ readyWaiters \in Seq(Requests \union {Hello})
        BY DEF HubTypes, TableTypes
      <4>2. QED
        BY <3>2, <4>1, Joined
    <3>6. \/ request'[s] = request[s]
          \/ Unsent(s) /\ request'[s] = "pending"
          \/ request'[s] = "failed"
      BY <1>1, <3>2, <3>4 DEF Becomes, Unsent
    <3>7. QED
      BY <3>1, <3>3, <3>4, <3>5, <3>6 DEF Aside, Unsent
  <2>3. CASE HandleLate
    <3>1. /\ UNCHANGED <<request, answer, spoken, pendingChunks, toHub>>
          /\ toRelay # <<>> /\ toRelay' = Tail(toRelay)
          /\ Head(toRelay).request \notin pendingRequests
      BY <2>3 DEF HandleLate, Receives, Subject, relayHttp, relayTables
    <3>2. request[s] = "pending" => ~Chunk(1, s) /\ ~Done(1, s)
      BY <1>1, <2>1, <3>1 DEF Chunk, Done, TablesHoldOpenRequests
    <3>3. QED
      BY <3>1, <3>2 DEF Aside
  <2>4. CASE HandleChunk
    <3>1. /\ UNCHANGED <<request, answer, spoken, toHub>>
          /\ Head(toRelay).request # s
          /\ toRelay # <<>> /\ toRelay' = Tail(toRelay)
          /\ pendingChunks' =
               [pendingChunks EXCEPT ![Subject] = Append(@, Head(toRelay).chunk)]
      BY <2>4 DEF HandleChunk, Receives, Subject, AddChunk, relayHttp
    <3>2. pendingChunks'[s] = pendingChunks[s]
      BY <3>1 DEF TableTypes, Subject
    <3>3. ~Chunk(1, s) /\ ~Done(1, s)
      BY <2>1, <3>1 DEF Chunk, Done
    <3>4. QED
      BY <3>1, <3>2, <3>3 DEF Aside
  <2>5. ASSUME NEW st \in {"answered", "failed"}, Settle(Subject, st),
               UNCHANGED <<spoken, toHub>>,
               toRelay # <<>>, toRelay' = Tail(toRelay), answer'[s] = answer[s],
               Subject # s \/ st = "failed"
        PROVE  Aside(s)
    <3>1. CASE Subject # s
      <4>1. request'[s] = request[s] /\ pendingChunks'[s] = pendingChunks[s]
        BY <1>1, <2>5, <3>1 DEF Settle, Becomes
      <4>2. ~Chunk(1, s) /\ ~Done(1, s)
        BY <2>1, <2>5, <3>1 DEF Chunk, Done, Subject
      <4>3. QED
        BY <2>5, <4>1, <4>2 DEF Aside
    <3>2. CASE Subject = s /\ st = "failed"
      <4>1. request'[s] = "failed" /\ pendingChunks'[s] = <<>>
        BY <1>1, <2>5, <3>2 DEF Settle, Becomes
      <4>2. QED
        BY <2>5, <4>1 DEF Aside
    <3>3. QED
      BY <2>5, <3>1, <3>2
  <2>6. CASE HandleResult
    <3>1. Subject # s
      BY <2>1, <2>6, <1>1 DEF HandleResult, Receives, Subject, Kinds, OfKind
    <3>2. QED
      BY <2>5, <2>6, <3>1 DEF HandleResult, Receives
  <2>7. CASE HandleDone
    <3>1. Subject # s /\ answer' = [answer EXCEPT ![Subject] = pendingChunks[Subject]]
      BY <2>7 DEF HandleDone
    <3>2. answer'[s] = answer[s]
      BY <3>1 DEF HttpTypes
    <3>3. QED
      BY <2>5, <2>7, <3>1, <3>2 DEF HandleDone, Receives
  <2>8. CASE HandleError
    BY <2>5, <2>8 DEF HandleError, Receives
  <2>9. QED
    BY <1>6, <2>2, <2>3, <2>4, <2>6, <2>7, <2>8 DEF RelayHandles
<1>7. ASSUME NEW r \in Requests, RelayTimer(r)
      PROVE  Aside(s)
  <2>1. /\ UNCHANGED <<answer, spoken, toHub, toRelay>> /\ Becomes({r}, "failed")
        /\ \/ UNCHANGED pendingChunks
           \/ Settle(r, "failed")
    BY <1>7 DEF RelayTimer, ReadyTimesOut, RequestTimesOut, Settle, relayHub
  <2>2. \/ request'[s] = request[s] /\ pendingChunks'[s] = pendingChunks[s]
        \/ request'[s] = "failed" /\ pendingChunks'[s] \in {pendingChunks[s], <<>>}
    BY <1>1, <2>1 DEF Becomes, Settle
  <2>3. QED
    BY <2>1, <2>2 DEF Aside
<1>8. QED
  BY <1>3, <1>4, <1>5, <1>6, <1>7 DEF RelayNext

LEMMA Speaks ==
  ASSUME ReplyTypes, TableTypes, HubTypes, Serial, NEW s \in Speeches, Voice(s),
         HubSpeaks(s)
  PROVE  Voice(s)'
<1>1. /\ s \in ToSet(toHub) /\ UNCHANGED <<request, pendingChunks, answer, toHub>>
      /\ spoken' = [spoken EXCEPT ![s] = @ + 1]
      /\ toRelay' = Append(toRelay, Reply("relay.tts.chunk", s, spoken'[s]))
  BY MembersOf DEF HubSpeaks, HubReplies, HubIsAt, HubTypes, relayHttp, relayTables
<1>2. ~Unsent(s)' /\ request'[s] # "answered"
  BY <1>1 DEF Serial, Requests, Voice, Whole, Unsent
<1>3. ASSUME request[s] = "pending" PROVE Speaking(s)'
  <2>1. Collected(s) /\ ComesOnce(s) /\ ComesWhole(s) /\ EndsLast(s)
    BY <1>3 DEF Voice, Speaking
  <2> DEFINE k == Len(pendingChunks[s])
  <2>2. /\ spoken[s] \in Nat /\ spoken'[s] = spoken[s] + 1 /\ k \in Nat
        /\ k' = k
    BY <1>1 DEF HubTypes, TableTypes
  <2>3. PICK l \in Replies' :
        /\ l \in Nat /\ l \notin Replies
        /\ toRelay'[l].type = "relay.tts.chunk" /\ toRelay'[l].request = s
        /\ toRelay'[l].chunk = spoken'[s]
        /\ \A i \in Replies' : i # l => i \in Replies
        /\ \A i \in Replies : i \in Replies' /\ toRelay'[i] = toRelay[i] /\ i < l
    BY <1>1, ReplyAdded
  <2> HIDE DEF k
  <2>4. \A i \in Replies : ~Done(i, s)
    BY <1>1, <2>1 DEF EndsLast
  <2>5. /\ Chunk(l, s)' /\ ~Done(l, s)'
        /\ \A i \in Replies : (Chunk(i, s)' <=> Chunk(i, s)) /\ (Done(i, s)' <=> Done(i, s))
    BY <2>3 DEF Chunk, Done
  <2>6. Collected(s)'
    BY <1>1, <2>1, <2>2 DEF Collected, k
  <2>7. /\ k \in Nat /\ k <= spoken[s]
        /\ ToCome(s) = k + 1..spoken[s] /\ ToCome(s)' = k + 1..spoken[s] + 1
    BY <1>1, <2>1, <2>2 DEF Collected, ToCome, k
  <2>8. \A i \in Replies' : Chunk(i, s)' => toRelay'[i].chunk \in ToCome(s)'
    BY <2>1, <2>2, <2>3, <2>5, <2>7 DEF ComesOnce
  <2>9. ASSUME NEW i \in Replies', NEW j \in Replies', i < j, Chunk(i, s)',
               Chunk(j, s)'
        PROVE  toRelay'[i].chunk < toRelay'[j].chunk
    <3>1. /\ i \in Replies /\ toRelay'[i] = toRelay[i]
          /\ Chunk(i, s) /\ toRelay[i].chunk \in k + 1..spoken[s]
      <4>1. i \in Replies
        BY <2>9, <2>3 DEF Replies
      <4>2. QED
        BY <4>1, <2>9, <2>1, <2>3, <2>5, <2>7 DEF ComesOnce
    <3>2. CASE j = l
      BY <3>1, <3>2, <2>2, <2>3
    <3>3. CASE j # l
      BY <3>1, <3>3, <2>1, <2>3, <2>5, <2>9 DEF ComesOnce
    <3>4. QED
      BY <3>2, <3>3
  <2>10. ASSUME NEW n \in ToCome(s)'
         PROVE  \E i \in Replies' : Chunk(i, s)' /\ toRelay'[i].chunk = n
    <3>1. CASE n \in ToCome(s)
      BY <3>1, <2>1, <2>3, <2>5 DEF ComesWhole
    <3>2. CASE n = spoken'[s]
      BY <3>2, <2>3, <2>5
    <3>3. QED
      BY <3>1, <3>2, <2>2, <2>7
  <2>11. EndsLast(s)'
    BY <2>3, <2>4, <2>5 DEF EndsLast
  <2>12. QED
    BY <2>6, <2>8, <2>9, <2>10, <2>11 DEF Speaking, ComesOnce, ComesWhole
<1>4. QED
  BY <1>1, <1>2, <1>3 DEF Voice

LEMMA EndsSpeech ==
  ASSUME ReplyTypes, TableTypes, HubTypes, Serial, NEW s \in Speeches, Voice(s),
         HubHasSpoken(s)
  PROVE  Voice(s)'
<1>1. /\ s \in ToSet(toHub) /\ UNCHANGED <<request, pendingChunks, answer, spoken>>
      /\ s \notin ToSet(toHub')
      /\ toRelay' = Append(toRelay, Reply("relay.tts.done", s, 0))
  BY HeadHandled
     DEF HubHasSpoken, HubReplies, HubIsAt, HubTypes, relayHttp, relayTables,
         Serial
<1>2. ~Unsent(s)' /\ request'[s] # "answered"
  BY <1>1 DEF Serial, Requests, Voice, Whole, Unsent
<1>3. ASSUME request[s] = "pending" PROVE Speaking(s)'
  <2>1. Collected(s) /\ ComesOnce(s) /\ ComesWhole(s) /\ EndsLast(s)
    BY <1>3 DEF Voice, Speaking
  <2>3. PICK l \in Replies' :
        /\ l \in Nat /\ l \notin Replies
        /\ toRelay'[l].type = "relay.tts.done" /\ toRelay'[l].request = s
        /\ \A i \in Replies' : i # l => i \in Replies
        /\ \A i \in Replies : i \in Replies' /\ toRelay'[i] = toRelay[i] /\ i < l
    BY <1>1, ReplyAdded
  <2>4. \A i \in Replies : ~Done(i, s)
    BY <1>1, <2>1 DEF EndsLast
  <2>5. /\ ~Chunk(l, s)'
        /\ \A i \in Replies : (Chunk(i, s)' <=> Chunk(i, s)) /\ (Done(i, s)' <=> Done(i, s))
    BY <2>3 DEF Chunk, Done
  <2>6. Collected(s)' /\ ToCome(s)' = ToCome(s)
    BY <1>1, <2>1 DEF Collected, ToCome
  <2>7. ComesOnce(s)'
    BY <2>1, <2>3, <2>5, <2>6 DEF ComesOnce
  <2>8. ComesWhole(s)'
    BY <2>1, <2>3, <2>5, <2>6 DEF ComesWhole
  <2>9. EndsLast(s)'
    BY <1>1, <2>3, <2>4, <2>5 DEF EndsLast
  <2>10. QED
    BY <2>6, <2>7, <2>8, <2>9 DEF Speaking
<1>4. QED
  BY <1>1, <1>2, <1>3 DEF Voice

\* The first message to come is the next chunk.
LEMMA HearsChunk ==
  ASSUME ReplyTypes, TableTypes, HubTypes, TablesHoldOpenRequests,
         NEW s \in Speeches, Voice(s),
         HandleChunk, Subject = s
  PROVE  Voice(s)'
<1> DEFINE k == Len(pendingChunks[s])
           m == Head(toRelay)
<1>1. /\ toRelay # <<>> /\ toRelay' = Tail(toRelay)
      /\ UNCHANGED <<request, answer, toHub, spoken>> /\ request[s] = "pending"
      /\ pendingChunks' = [pendingChunks EXCEPT ![s] = Append(@, m.chunk)]
      /\ m.type = "relay.tts.chunk" /\ m.request = s
  BY DEF HandleChunk, Receives, AddChunk, relayHttp, TablesHoldOpenRequests,
         Subject
<1>2. Collected(s) /\ ComesOnce(s) /\ ComesWhole(s) /\ EndsLast(s)
  BY <1>1 DEF Voice, Speaking
<1>3. /\ Len(toRelay) \in Nat /\ 1 \in Replies /\ toRelay[1] = m
      /\ \A i \in Replies' : /\ i + 1 \in Replies /\ toRelay'[i] = toRelay[i + 1]
                             /\ i + 1 # 1 /\ i \in Nat
      /\ \A i \in Replies : i # 1 => i - 1 \in Replies' /\ toRelay'[i - 1] = toRelay[i]
  BY <1>1, ReplyTaken
<1>4. k \in Nat /\ spoken[s] \in Nat /\ pendingChunks[s] \in Seq(Nat)
  BY DEF TableTypes, HubTypes
<1>5. Chunk(1, s)
  BY <1>1, <1>3 DEF Chunk
<1>6. m.chunk \in k + 1..spoken[s]
  BY <1>2, <1>3, <1>5 DEF ComesOnce, ToCome
<1>7. m.chunk = k + 1
  <2>1. k + 1 \in ToCome(s)
    BY <1>4, <1>6 DEF ToCome
  <2>2. PICK i \in Replies : Chunk(i, s) /\ toRelay[i].chunk = k + 1
    BY <1>2, <2>1 DEF ComesWhole
  <2>3. i = 1 \/ 1 < i
    BY DEF Replies
  <2>4. 1 < i => m.chunk < k + 1
    BY <1>2, <1>3, <1>5, <2>2 DEF ComesOnce
  <2>5. QED
    BY <2>2, <2>3, <2>4, <1>3, <1>4, <1>6
<1> HIDE DEF m
<1>8. /\ pendingChunks'[s] = Append(pendingChunks[s], k + 1)
      /\ Len(pendingChunks'[s]) = k + 1
      /\ pendingChunks'[s][k + 1] = k + 1
      /\ \A n \in 1..k : pendingChunks'[s][n] = pendingChunks[s][n]
  BY <1>1, <1>4, <1>7 DEF TableTypes
<1>9. Collected(s)'
  BY <1>1, <1>2, <1>4, <1>6, <1>8 DEF Collected
<1> HIDE DEF k
<1>10. ToCome(s) = k + 1..spoken[s] /\ ToCome(s)' = k + 2..spoken[s]
  BY <1>1, <1>4, <1>8 DEF ToCome, k
<1>11. \A i \in Replies' : /\ i + 1 \in Replies /\ toRelay'[i] = toRelay[i + 1] /\ i \in Nat
                           /\ Chunk(i, s)' <=> Chunk(i + 1, s)
                           /\ Done(i, s)' <=> Done(i + 1, s)
  BY <1>3 DEF Chunk, Done
<1>12. \A i \in Replies : Chunk(i, s) /\ i # 1 =>
          i - 1 \in Replies' /\ Chunk(i - 1, s)' /\ toRelay'[i - 1] = toRelay[i]
  BY <1>3 DEF Chunk
<1>13. ComesOnce(s)'
  <2>1. ASSUME NEW i \in Replies', Chunk(i, s)'
        PROVE  toRelay'[i].chunk \in ToCome(s)'
    <3>1. i + 1 \in Replies /\ Chunk(i + 1, s) /\ toRelay'[i] = toRelay[i + 1] /\ 1 < i + 1
      BY <2>1, <1>3, <1>11
    <3>2. toRelay[i + 1].chunk \in k + 1..spoken[s] /\ toRelay[1].chunk < toRelay[i + 1].chunk
      BY <3>1, <1>2, <1>3, <1>5, <1>10 DEF ComesOnce
    <3>3. QED
      BY <3>1, <3>2, <1>3, <1>4, <1>7, <1>10
  <2>2. \A i, j \in Replies' :
          i < j /\ Chunk(i, s)' /\ Chunk(j, s)' => toRelay'[i].chunk < toRelay'[j].chunk
    BY <1>2, <1>11 DEF ComesOnce
  <2>3. QED
    BY <2>1, <2>2 DEF ComesOnce
<1>14. ComesWhole(s)'
  <2>1. ASSUME NEW n \in ToCome(s)'
        PROVE  \E i \in Replies' : Chunk(i, s)' /\ toRelay'[i].chunk = n
    <3>1. n \in ToCome(s) /\ n # k + 1
      BY <1>4, <1>10
    <3>2. PICK i \in Replies : Chunk(i, s) /\ toRelay[i].chunk = n
      BY <1>2, <3>1 DEF ComesWhole
    <3>3. i # 1
      BY <3>1, <3>2, <1>3, <1>7
    <3>4. QED
      BY <3>2, <3>3, <1>12
  <2>2. QED
    BY <2>1 DEF ComesWhole
<1>15. EndsLast(s)'
  BY <1>1, <1>2, <1>11 DEF EndsLast
<1>16. QED
  BY <1>1, <1>9, <1>13, <1>14, <1>15 DEF Voice, Speaking, Unsent

LEMMA HearsEnd ==
  ASSUME ReplyTypes, TableTypes, HubTypes, TablesHoldOpenRequests, HttpTypes,
         NEW s \in Speeches, Voice(s),
         HandleDone, Subject = s
  PROVE  Voice(s)'
<1> DEFINE k == Len(pendingChunks[s])
<1>1. /\ toRelay # <<>> /\ toRelay[1] = Head(toRelay) /\ 1 \in Replies /\ Done(1, s)
      /\ UNCHANGED <<toHub, spoken>> /\ request[s] = "pending"
      /\ answer' = [answer EXCEPT ![s] = pendingChunks[s]]
      /\ Becomes({s}, "answered")
  BY ReplyTaken
     DEF HandleDone, Receives, Settle, TablesHoldOpenRequests, Subject, Done
<1>2. Collected(s) /\ ComesOnce(s) /\ ComesWhole(s) /\ EndsLast(s)
  BY <1>1 DEF Voice, Speaking
<1>3. k \in Nat /\ spoken[s] \in Nat /\ pendingChunks[s] \in Seq(Nat)
  BY DEF TableTypes, HubTypes
<1>4. \A i \in Replies : ~Chunk(i, s)
  BY <1>1, <1>2 DEF EndsLast, Replies
<1>5. k = spoken[s]
  <2>1. k + 1 \notin ToCome(s)
    BY <1>2, <1>4 DEF ComesWhole
  <2>2. QED
    BY <2>1, <1>2, <1>3 DEF ToCome, Collected
<1>6. pendingChunks[s] = [n \in 1..spoken[s] |-> n]
  BY <1>2, <1>3, <1>5 DEF Collected
<1>7. answer'[s] = pendingChunks[s]
  BY <1>1 DEF HttpTypes
<1>8. s \notin ToSet(toHub')
  BY <1>1, <1>2 DEF EndsLast
<1>9. request'[s] = "answered"
  BY <1>1 DEF Becomes, Requests
<1>10. QED
  BY <1>1, <1>6, <1>7, <1>8, <1>9 DEF Voice, Whole, Unsent

-----------------------------------------------------------------------------
(* The invariant, and what it says.                                        *)

LEMMA RelayInitHolds == RelayInit => RelayIInv
<1> SUFFICES ASSUME RelayInit PROVE RelayIInv
  OBVIOUS
<1>1. HttpTypes
  <2>1. <<>> \in Seq(Nat)
    OBVIOUS
  <2>2. QED
    BY <2>1 DEF RelayInit, HttpTypes, RequestStates
<1>2. SocketTypes
  BY DEF RelayInit, SocketTypes
<1>a. TableTypes
  <2>1. <<>> \in Seq(Nat) /\ <<>> \in Seq(Requests)
    OBVIOUS
  <2>2. QED
    BY <2>1 DEF RelayInit, TableTypes
<1>b. HubTypes
  <2>1. <<>> \in Seq(Requests \union {Hello}) /\ FALSE \in BOOLEAN /\ 0 \in Nat
    OBVIOUS
  <2>2. QED
    BY <2>1 DEF RelayInit, HubTypes
<1>c. ReplyTypes
  <2>1. <<>> \in Seq(HubMessages)
    OBVIOUS
  <2>2. QED
    BY <2>1 DEF RelayInit, ReplyTypes
<1>3. TablesHoldOpenRequests /\ Once(readyWaiters)
  BY DEF RelayInit, TablesHoldOpenRequests, Once, ToSet
<1>4. Serial /\ Kinds
  BY DEF RelayInit, Serial, Once, ToSet, Kinds, Replies
<1>5. \A s \in Speeches : Voice(s)
  BY DEF RelayInit, Voice, Unspoken, Unsent, Replies, Requests
<1>6. QED
  BY <1>1, <1>2, <1>3, <1>4, <1>5, <1>a, <1>b, <1>c DEF RelayIInv

LEMMA StutterHolds == RelayIInv /\ UNCHANGED relayVars => RelayIInv'
  BY DEF RelayIInv, HttpTypes, SocketTypes, TableTypes, HubTypes, ReplyTypes,
         TablesHoldOpenRequests, Once,
         Serial, Kinds, Voice, Unspoken, Speaking, Whole, Collected, ComesOnce, ComesWhole, EndsLast,
         ToCome, Chunk, Done, Unsent, Replies, OfKind, relayVars, relayHttp, relaySocket, relayTables, relayHub

LEMMA NextHolds ==
  ASSUME RelayAssumption, RelayIInv, RelayNext
  PROVE  RelayIInv'
<1>1. HttpTypes' /\ SocketTypes' /\ TableTypes' /\ HubTypes' /\ ReplyTypes'
  BY HttpStep, SocketStep, TableStep, RelayHubStep, ReplyStep DEF RelayIInv
<1>2. TablesHoldOpenRequests' /\ Once(readyWaiters)'
  BY TablesStep DEF RelayIInv
<1>3. Serial' /\ Kinds'
  BY SerialStep, KindsStep DEF RelayIInv
<1>4. ASSUME NEW s \in Speeches
      PROVE  Voice(s)'
  <2>1. CASE HubSpeaks(s)
    BY <2>1, Speaks DEF RelayIInv
  <2>2. CASE HubHasSpoken(s)
    BY <2>2, EndsSpeech DEF RelayIInv
  <2>3. CASE HandleChunk /\ Subject = s
    BY <2>3, HearsChunk DEF RelayIInv
  <2>4. CASE HandleDone /\ Subject = s
    BY <2>4, HearsEnd DEF RelayIInv
  <2>5. CASE /\ ~HubSpeaks(s) /\ ~HubHasSpoken(s)
             /\ ~(HandleChunk /\ Subject = s) /\ ~(HandleDone /\ Subject = s)
    <3>1. Aside(s)
      BY <2>5, OthersStandAside DEF RelayIInv
    <3>2. QED
      BY <3>1, AsideKeepsVoice DEF RelayIInv
  <2>6. QED
    BY <2>1, <2>2, <2>3, <2>4, <2>5
<1>5. QED
  BY <1>1, <1>2, <1>3, <1>4 DEF RelayIInv

LEMMA RelayInvariant == RelaySpec => []RelayIInv
<1>1. RelayIInv /\ [RelayNext]_relayVars => RelayIInv'
  BY RelayAssumption, NextHolds, StutterHolds
<1>2. QED
  BY RelayInitHolds, <1>1, PTL DEF RelaySpec

\* Every variable of the relay and of its HTTP server keeps its type.
THEOREM RelayTypes == RelaySpec => []RelayTypeOK
<1>1. RelayIInv => RelayTypeOK
  BY DEF RelayIInv, RelayTypeOK, HttpTypes, SocketTypes, TableTypes, HubTypes,
         ReplyTypes
<1>2. QED
  BY RelayInvariant, <1>1, PTL

\* The tables hold the open requests and no others, whichever of answer, timer,
\* close and failed send comes first for each of any number of requests.
THEOREM TablesAreExact == RelaySpec => []TablesHoldOpenRequests
<1>1. RelayIInv => TablesHoldOpenRequests
  BY DEF RelayIInv
<1>2. QED
  BY RelayInvariant, <1>1, PTL

\* A speech is answered with all the audio that was made of its text, in order
\* and once, over any number of connections and other requests.
THEOREM SpeechComesWhole == RelaySpec => []SpeechIsAnsweredWhole
<1>1. RelayIInv => SpeechIsAnsweredWhole
  BY DEF RelayIInv, Voice, Whole, SpeechIsAnsweredWhole
<1>2. QED
  BY RelayInvariant, <1>1, PTL

-----------------------------------------------------------------------------
(* Owner mode: the audio that waits to be posted is new, and in order *)

\* A segment of chunks in their order, all later than these two and recorded.
Segment(s, posted, cut, chunks) ==
  /\ s \in Seq(Nat)
  /\ \A a, b \in 1..Len(s) : a < b => s[a] < s[b]
  /\ \A a \in 1..Len(s) : posted < s[a] /\ cut < s[a] /\ s[a] <= chunks

Behind(s, t) == \A a \in 1..Len(s), b \in 1..Len(t) : s[a] < t[b]

\* Sealed segments, none empty, and the one being recorded behind them.
Waits(queue, open, posted, cut, chunks) ==
  /\ posted \in Nat /\ cut \in Nat /\ chunks \in Nat
  /\ posted <= chunks /\ cut <= chunks
  /\ Segment(open, posted, cut, chunks)
  /\ queue \in Seq(Seq(Nat))
  /\ \A i \in 1..Len(queue) :
       /\ queue[i] # <<>> /\ Segment(queue[i], posted, cut, chunks)
       /\ Behind(queue[i], open)
  /\ \A i, j \in 1..Len(queue) : i < j => Behind(queue[i], queue[j])

AudioWaits == Waits(sealed, recording, lastPosted, lastCut, recorded)

\* The handlers' loop posts, fails or stops; the queue and the open segment are
\* those it was called with.
Flushed(queue, open) ==
  /\ UNCHANGED recorded
  /\ \/ sealed' = <<>> /\ recording' = <<>> /\ lastCut' = recorded /\ UNCHANGED lastPosted
     \/ TakesAudio(queue, open) /\ (queue # <<>> \/ open # <<>>) /\ UNCHANGED lastCut
     \/ sealed' = queue /\ recording' = open /\ UNCHANGED <<lastCut, lastPosted>>

Cleared == clearAssistantTurn /\ UNCHANGED <<recorded, lastPosted>>

-----------------------------------------------------------------------------
(* What the steps do to segments that wait.                                *)

LEMMA NothingWaits ==
  ASSUME NEW posted \in Nat, NEW chunks \in Nat, posted <= chunks
  PROVE  Waits(<<>>, <<>>, posted, chunks, chunks)
<1>1. <<>> \in Seq(Nat) /\ <<>> \in Seq(Seq(Nat)) /\ Len(<<>>) = 0
  OBVIOUS
<1>2. QED
  BY <1>1 DEF Waits, Segment, Behind

LEMMA Sealing ==
  ASSUME NEW q, NEW o, NEW posted, NEW cut, NEW chunks,
         Waits(q, o, posted, cut, chunks),
         o # <<>>
  PROVE  Waits(Append(q, o), <<>>, posted, cut, chunks)
<1> DEFINE u == Append(q, o)
<1>1. /\ o \in Seq(Nat) /\ q \in Seq(Seq(Nat)) /\ Segment(o, posted, cut, chunks)
      /\ \A i \in 1..Len(q) : /\ q[i] # <<>> /\ Segment(q[i], posted, cut, chunks)
                              /\ Behind(q[i], o)
      /\ \A i, j \in 1..Len(q) : i < j => Behind(q[i], q[j])
  BY DEF Waits, Segment
<1>2. /\ u \in Seq(Seq(Nat)) /\ Len(u) = Len(q) + 1 /\ Len(q) \in Nat
      /\ u[Len(q) + 1] = o /\ \A i \in 1..Len(q) : u[i] = q[i]
  BY <1>1
<1>3. Segment(<<>>, posted, cut, chunks) /\ \A s : Behind(s, <<>>)
  BY DEF Segment, Behind
<1> HIDE DEF u
<1>4. \A i \in 1..Len(u) : i \in 1..Len(q) \/ i = Len(q) + 1
  BY <1>2
<1>5. \A i \in 1..Len(u) : u[i] # <<>> /\ Segment(u[i], posted, cut, chunks)
  BY <1>1, <1>2, <1>4
<1>6. ASSUME NEW i \in 1..Len(u), NEW j \in 1..Len(u), i < j
      PROVE  Behind(u[i], u[j])
  <2>1. i \in 1..Len(q)
    BY <1>2, <1>6
  <2>2. QED
    BY <2>1, <1>1, <1>2, <1>4, <1>6
<1>7. QED
  BY <1>2, <1>3, <1>5, <1>6 DEF Waits, u

LEMMA PostingOldest ==
  ASSUME NEW q, NEW o, NEW posted, NEW cut, NEW chunks,
         Waits(q, o, posted, cut, chunks),
         q # <<>>
  PROVE  Waits(Tail(q), o, LastOf(Head(q)), cut, chunks)
<1> DEFINE u == Tail(q)
           h == Head(q)
           n == LastOf(h)
<1>1. /\ o \in Seq(Nat) /\ q \in Seq(Seq(Nat)) /\ Segment(o, posted, cut, chunks)
      /\ \A i \in 1..Len(q) : /\ q[i] # <<>> /\ Segment(q[i], posted, cut, chunks)
                              /\ Behind(q[i], o)
      /\ \A i, j \in 1..Len(q) : i < j => Behind(q[i], q[j])
      /\ posted \in Nat /\ cut \in Nat /\ chunks \in Nat /\ cut <= chunks
  BY DEF Waits, Segment
<1>2. /\ u \in Seq(Seq(Nat)) /\ Len(q) = Len(u) + 1 /\ Len(u) \in Nat /\ h = q[1]
      /\ 1 \in 1..Len(q)
      /\ \A i \in 1..Len(u) : u[i] = q[i + 1] /\ i + 1 \in 1..Len(q) /\ 1 < i + 1
  BY <1>1
<1>3. h \in Seq(Nat) /\ h # <<>> /\ Len(h) \in 1..Len(h) /\ n = h[Len(h)]
  BY <1>1, <1>2 DEF LastOf, Segment
<1>4. n \in Nat /\ n <= chunks
  BY <1>1, <1>2, <1>3 DEF Segment
<1> HIDE DEF u, h, n
<1>5. ASSUME NEW s, Segment(s, posted, cut, chunks), Behind(h, s)
      PROVE  Segment(s, n, cut, chunks)
  BY <1>3, <1>5 DEF Segment, Behind
<1>6. Segment(o, n, cut, chunks)
  BY <1>1, <1>2, <1>5
<1>7. \A i \in 1..Len(u) : /\ u[i] # <<>> /\ Segment(u[i], n, cut, chunks)
                           /\ Behind(u[i], o)
  BY <1>1, <1>2, <1>5
<1>8. ASSUME NEW i \in 1..Len(u), NEW j \in 1..Len(u), i < j
      PROVE  Behind(u[i], u[j])
  <2>1. i + 1 \in 1..Len(q) /\ j + 1 \in 1..Len(q) /\ i + 1 < j + 1
    BY <1>2, <1>8
  <2>2. Behind(q[i + 1], q[j + 1])
    BY <1>1, <2>1
  <2>3. QED
    BY <1>2, <2>2
<1>9. QED
  BY <1>1, <1>2, <1>4, <1>6, <1>7, <1>8 DEF Waits, u, h, n

LEMMA PostingOpen ==
  ASSUME NEW o, NEW posted, NEW cut, NEW chunks,
         Waits(<<>>, o, posted, cut, chunks), o # <<>>
  PROVE  Waits(<<>>, <<>>, LastOf(o), cut, chunks)
<1>1. /\ o \in Seq(Nat) /\ Segment(o, posted, cut, chunks)
      /\ cut \in Nat /\ chunks \in Nat /\ cut <= chunks
  BY DEF Waits, Segment
<1>2. Len(o) \in 1..Len(o) /\ LastOf(o) = o[Len(o)]
  BY <1>1 DEF LastOf
<1>3. LastOf(o) \in Nat /\ LastOf(o) <= chunks
  BY <1>1, <1>2 DEF Segment
<1>4. <<>> \in Seq(Nat) /\ <<>> \in Seq(Seq(Nat)) /\ Len(<<>>) = 0
  OBVIOUS
<1>5. QED
  BY <1>1, <1>3, <1>4 DEF Waits, Segment, Behind

LEMMA Recording ==
  ASSUME NEW q, NEW o, NEW posted, NEW cut, NEW chunks,
         Waits(q, o, posted, cut, chunks)
  PROVE  Waits(q, Append(o, chunks + 1), posted, cut, chunks + 1)
<1> DEFINE t == Append(o, chunks + 1)
<1>1. /\ o \in Seq(Nat) /\ q \in Seq(Seq(Nat)) /\ Segment(o, posted, cut, chunks)
      /\ \A i \in 1..Len(q) : /\ q[i] # <<>> /\ Segment(q[i], posted, cut, chunks)
                              /\ Behind(q[i], o)
      /\ \A i, j \in 1..Len(q) : i < j => Behind(q[i], q[j])
      /\ posted \in Nat /\ cut \in Nat /\ chunks \in Nat /\ cut <= chunks /\ posted <= chunks
  BY DEF Waits, Segment
<1>2. /\ t \in Seq(Nat) /\ Len(t) = Len(o) + 1 /\ Len(o) \in Nat
      /\ t[Len(o) + 1] = chunks + 1 /\ \A i \in 1..Len(o) : t[i] = o[i]
      /\ \A i \in 1..Len(t) : i \in 1..Len(o) \/ i = Len(o) + 1
  <2>1. o \in Seq(Nat) /\ chunks + 1 \in Nat
    BY <1>1
  <2>2. QED
    BY <2>1, AppendProperties, LenProperties
<1> HIDE DEF t
<1>3. \A s : Segment(s, posted, cut, chunks) =>
        /\ Segment(s, posted, cut, chunks + 1)
        /\ \A a \in 1..Len(s) : s[a] < chunks + 1
  BY <1>1 DEF Segment
<1>4. Segment(t, posted, cut, chunks + 1)
  <2>1. ASSUME NEW a \in 1..Len(t)
        PROVE  posted < t[a] /\ cut < t[a] /\ t[a] <= chunks + 1
    <3>1. CASE a \in 1..Len(o)
      <4>1. posted < o[a] /\ cut < o[a] /\ o[a] <= chunks /\ t[a] = o[a] /\ o[a] \in Nat
        BY <3>1, <1>1, <1>2 DEF Segment
      <4>2. QED
        BY <4>1, <1>1
    <3>2. CASE a = Len(o) + 1
      <4>1. t[a] = chunks + 1
        BY <3>2, <1>2
      <4>2. QED
        BY <4>1, <1>1
    <3>3. QED
      BY <3>1, <3>2, <1>2
  <2>2. ASSUME NEW a \in 1..Len(t), NEW b \in 1..Len(t), a < b PROVE t[a] < t[b]
    <3>1. a \in 1..Len(o)
      BY <1>2, <2>2
    <3>2. CASE b = Len(o) + 1
      BY <3>1, <3>2, <1>1, <1>2, <1>3
    <3>3. CASE b \in 1..Len(o)
      BY <3>1, <3>3, <2>2, <1>1, <1>2 DEF Segment
    <3>4. QED
      BY <3>2, <3>3, <1>2
  <2>3. QED
    BY <1>2, <2>1, <2>2 DEF Segment
<1>5. ASSUME NEW i \in 1..Len(q)
      PROVE  Behind(q[i], t)
  BY <1>1, <1>2, <1>3 DEF Behind
<1>6. QED
  BY <1>1, <1>3, <1>4, <1>5 DEF Waits, t

LEMMA FlushKeepsWaiting ==
  ASSUME NEW q, NEW o, Waits(q, o, lastPosted, lastCut, recorded), Flushed(q, o)
  PROVE  AudioWaits'
<1>1. lastPosted \in Nat /\ recorded \in Nat /\ lastPosted <= recorded
  BY DEF Waits
<1>2. CASE sealed' = <<>> /\ recording' = <<>> /\ lastCut' = recorded /\ UNCHANGED lastPosted
  BY <1>1, <1>2, NothingWaits DEF Flushed, AudioWaits
<1>3. CASE TakesAudio(q, o) /\ q # <<>> /\ UNCHANGED lastCut
  BY <1>3, PostingOldest DEF Flushed, AudioWaits, TakesAudio
<1>4. CASE TakesAudio(q, o) /\ q = <<>> /\ o # <<>> /\ UNCHANGED lastCut
  BY <1>4, PostingOpen DEF Flushed, AudioWaits, TakesAudio
<1>5. CASE sealed' = q /\ recording' = o /\ UNCHANGED <<lastCut, lastPosted>>
  BY <1>5 DEF Flushed, AudioWaits
<1>6. QED
  BY <1>2, <1>3, <1>4, <1>5 DEF Flushed

-----------------------------------------------------------------------------
(* The steps.                                                              *)

LEMMA FlushFlushes ==
  ASSUME NEW lines, NEW rest, NEW owed, NEW queue, NEW open, NEW playing,
         Flush(lines, rest, owed, queue, open, playing), UNCHANGED recorded
  PROVE  Flushed(queue, open)
  BY DEF Flush, FailClosed, clearAssistantTurn, Flushed

LEMMA AudioChanges ==
  ASSUME OwnerNext
  PROVE  \/ UNCHANGED ownerAudio \/ Cleared
         \/ OwnerHandlesAudio \/ OwnerHandlesText \/ OwnerHandlesEnd \/ OwnerHandlesFinal
         \/ SegmentIsPosted
<1>1. CASE OwnerHubActs
  BY <1>1 DEF OwnerHubActs, OwnerIsGreeted, ReplyBegins, SegmentBegins, SegmentSounds, SegmentEnds,
              ReplyEnds, ReplyFails, ReplyText, OwnerHubSends
<1>2. CASE OwnerHandle
  BY <1>2 DEF OwnerHandle, OwnerHandlesGreeting, OwnerHandlesUser, OwnerHandlesInit, FailClosed,
              Cleared, ownerAudio
<1>3. CASE OwnerOpens \/ OwnerCloses \/ OwnerReconnects \/ PostFails \/ UserIsPosted
  BY <1>3 DEF OwnerOpens, OwnerCloses, OwnerReconnects, PostFails, UserIsPosted, resetOwnerState,
              FailClosed, Cleared, ownerAudio
<1>4. CASE \/ InterruptOwner \/ InterruptIsPosted \/ InterruptPostFails \/ OwnerCooldownEnds
           \/ PlaybackTimerFires
  BY <1>4 DEF InterruptOwner, InterruptIsPosted, InterruptPostFails, OwnerCooldownEnds,
              PlaybackTimerFires, OwnerEvent, CutAudio, Cleared, ownerAudio
<1>5. QED
  BY <1>1, <1>2, <1>3, <1>4 DEF OwnerNext

LEMMA AudioStep ==
  ASSUME AudioWaits, OwnerNext
  PROVE  AudioWaits'
<1>1. CASE UNCHANGED ownerAudio
  BY <1>1 DEF AudioWaits, ownerAudio
<1>2. CASE Cleared
  BY <1>2, NothingWaits DEF Cleared, clearAssistantTurn, AudioWaits, Waits
<1>3. CASE OwnerHandlesAudio
  BY <1>3, Recording DEF OwnerHandlesAudio, AudioWaits
<1>4. CASE OwnerHandlesText
  BY <1>4, FlushFlushes, FlushKeepsWaiting DEF OwnerHandlesText, AudioWaits
<1>5. CASE OwnerHandlesEnd
  <2>1. CASE recording = <<>>
    BY <1>5, <2>1 DEF OwnerHandlesEnd, AudioWaits, ownerAudio
  <2>2. CASE recording # <<>>
    <3>1. Flushed(Append(sealed, recording), <<>>)
      BY <1>5, <2>2, FlushFlushes DEF OwnerHandlesEnd
    <3>2. QED
      BY <2>2, <3>1, Sealing, FlushKeepsWaiting DEF AudioWaits
  <2>3. QED
    BY <2>1, <2>2
<1>6. CASE OwnerHandlesFinal
  BY <1>6, FlushFlushes, FlushKeepsWaiting DEF OwnerHandlesFinal, AudioWaits, ownerAudio
<1>7. CASE SegmentIsPosted
  BY <1>7, FlushFlushes, FlushKeepsWaiting DEF SegmentIsPosted, AudioWaits
<1>8. QED
  BY <1>1, <1>2, <1>3, <1>4, <1>5, <1>6, <1>7, AudioChanges

\* However posts, interrupts, the timer and reconnects overlap, the audio that
\* waits is in order, later than all that was posted and than all that was cut.
THEOREM AudioIsNew == OwnerSpec => []QueuedAudioIsNew
<1>1. OwnerInit => AudioWaits
  BY NothingWaits DEF OwnerInit, AudioWaits
<1>2. AudioWaits /\ [OwnerNext]_ownerVars => AudioWaits'
  BY AudioStep DEF AudioWaits, ownerVars, ownerAudio
<1>3. AudioWaits => QueuedAudioIsNew
  <2> SUFFICES ASSUME AudioWaits PROVE QueuedAudioIsNew
    OBVIOUS
  <2>1. /\ recording \in Seq(Nat) /\ sealed \in Seq(Seq(Nat))
        /\ Segment(recording, lastPosted, lastCut, recorded)
        /\ \A i \in 1..Len(sealed) :
             /\ sealed[i] \in Seq(Nat) /\ Segment(sealed[i], lastPosted, lastCut, recorded)
             /\ Behind(sealed[i], recording)
        /\ \A i, j \in 1..Len(sealed) : i < j => Behind(sealed[i], sealed[j])
    BY DEF AudioWaits, Waits, Segment
  <2>2. ASSUME NEW s, Segment(s, lastPosted, lastCut, recorded)
        PROVE  Rising(s) /\ New(s) /\ DOMAIN s = 1..Len(s)
    <3>1. s \in Seq(Nat)
      BY <2>2 DEF Segment
    <3>2. DOMAIN s = 1..Len(s)
      BY <3>1
    <3>3. Rising(s)
      BY <2>2, <3>2 DEF Segment, Rising
    <3>4. New(s)
      BY <2>2, <3>2 DEF Segment, New
    <3>5. QED
      BY <3>2, <3>3, <3>4
  <2>3. ASSUME NEW s \in Seq(Nat), NEW t \in Seq(Nat),
               Behind(s, t) PROVE Precedes(s, t)
    <3>1. DOMAIN s = 1..Len(s) /\ DOMAIN t = 1..Len(t)
      OBVIOUS
    <3>2. QED
      BY <2>3, <3>1 DEF Behind, Precedes
  <2>4. DOMAIN sealed = 1..Len(sealed)
    BY <2>1
  <2>5. QED
    BY <2>1, <2>2, <2>3, <2>4 DEF QueuedAudioIsNew
<1>4. QED
  BY <1>1, <1>2, <1>3, PTL DEF OwnerSpec
=============================================================================
