--------------------------- MODULE DeviceStudioApp ---------------------------
(***************************************************************************)
(* The Device Studio application (src/src/ts/device-studio-app/main.ts):   *)
(* one browser page, whose handlers each run to their end.  Between them   *)
(* come animation frames, mock timers, socket events and the answers to    *)
(* typed turns that waited for a connection.                               *)
(*                                                                         *)
(* The page has a profile, a hub client (DeviceStudioHubClient), a library *)
(* of behaviours with one of them and one of its frames selected, a        *)
(* preview, a playback of the behaviour as it was when the playback began, *)
(* and the sprite workspace (SpriteWorkspace).  The library can become     *)
(* empty by an import; then most handlers throw before they do anything.   *)
(***************************************************************************)
EXTENDS BehaviorTimelines, DeviceStudioHubClient, SpriteWorkspace, Functions

CONSTANTS
    Profiles,        \* [looks, joints, faces, width, height], see BehaviorTimelines
    FirstProfile,
    Ids,             \* behaviour ids, in the order localeCompare gives them
    Fixtures,        \* the library the page starts with: definitions
    Files,           \* the files a user may import: sequences of definitions
    Times,           \* the times and durations a user may set in the editor
    MaxTick,         \* a moment after the end of every timeline of these bounds
    DefaultFrame(_), \* the frame of a new behaviour on a profile
    MaxFrames, Budgets  \* bounds, see Spend

\* Every profile offers expressions and visemes, and says how large its display is.
ASSUME ProfilesAssumption ==
    /\ FirstProfile \in Profiles
    /\ \A p \in Profiles :
          /\ p.width \in Nat /\ p.height \in Nat /\ p.faces \subseteq Targets
          /\ \E f \in p.faces : f \in Expressions
          /\ \E f \in p.faces : f \in Visemes

\* Behaviours are what their types say, and the fixtures load: the page would
\* not start else.
ASSUME BehaviorsAssumption ==
    /\ Ids \subseteq Nat /\ Times \subseteq Int /\ MaxFrames \in Nat
    /\ \A p \in Profiles : p.joints \subseteq JointIds /\ DefaultFrame(p) \in Frames
    /\ Fixtures \in Seq(Ids \X Timelines) /\ Fixtures # <<>> /\ Loadable(Fixtures)
    /\ Files \subseteq Seq(Ids \X Timelines)

VARIABLES
    mode, url,       \* the backend chosen and the hub URL in its field
    turns,           \* ghost: what became of each typed turn
    library, selected, frame,  \* the behaviours, the selected one and its frame
    editor,          \* the profile the editor was last drawn for
    stage,           \* the preview and its playback
    origin,          \* ghost: the library as it was last loaded
    spent            \* how many steps of each kind a user may still take

libVars == <<library, selected, frame, editor, origin>>
connVars == <<mode, url, turns, clients, sockets>>
vars == <<profile, libVars, connVars, stage, spent, spriteVars>>

\* A user does only so many edits, moves on the stage, changes of profile or
\* backend, connects, typed turns and sprite operations; a budget is a mix.
\* The answers to sprite operations are free.
Kinds == {"edits", "moves", "profiles", "backends", "connects", "turns", "sprites"}
Spend(kinds) ==
    /\ spent' = [k \in Kinds |-> spent[k] + (IF k \in kinds THEN 1 ELSE 0)]
    /\ \E b \in Budgets : \A k \in Kinds : spent'[k] <= b[k]

(***************************************************************************)
(* The stage: [playback, loops, clock, elapsed, looks, joints], "loops"    *)
(* being the number of animation callbacks that are still to come.         *)
(***************************************************************************)
NotYet == -2  \* the clock of a playback no animation frame has seen
NoPlayback == [timeline |-> [frames |-> <<>>, duration |-> 0, verified |-> FALSE],
               profile |-> FirstProfile, on |-> FALSE]
Show(s, sample) == [s EXCEPT !.elapsed = sample.elapsed, !.looks = sample.looks,
                             !.joints = sample.joints]

\* stopActivePlayback: the pending callback is cancelled; a playback is
\* dropped and, unless the assistant's answer ends it, reported and drawn
\* once more at the moment the page is at.
StopPlayback(s, emit) ==
    LET dropped == [s EXCEPT !.playback = NoPlayback, !.clock = NotYet,
                             !.loops = IF @ > 0 THEN @ - 1 ELSE 0]
    IN  IF s.playback.on /\ emit
        THEN Show(dropped, Sample(s.playback.timeline, s.elapsed, s.playback.profile))
        ELSE dropped

\* A playback of a timeline is made and started at 0, which is reported.
StartPlayback(s, timeline) ==
    Show([s EXCEPT !.playback = [timeline |-> timeline, profile |-> profile, on |-> TRUE]],
         Sample(timeline, 0, profile))

\* applyBehaviorFrame: a playback that runs is drawn at the moment, else one
\* is started, without a callback that would move it on.
ApplyFrame(s, timeline, t) ==
    LET s1 == IF s.playback.on THEN s ELSE StartPlayback(s, timeline)
    IN  Show(s1, Sample(s1.playback.timeline, t, s1.playback.profile))

\* renderBehavior, for a timeline and the profile p.
Drawn(s, timeline, t, p) == Show(s, Sample(timeline, t, p))

Empty == library = <<>>
Current == library[selected]

Init ==
    /\ profile = FirstProfile
    /\ mode = "mock" /\ url = "good"
    /\ clients = <<NewClient("mock", "good")>>
    /\ sockets = <<>>
    /\ turns = <<>>
    /\ library = LoadDefinitions(Fixtures)
    /\ origin = library
    /\ selected = Min(DOMAIN library)
    /\ frame = 1
    /\ editor = profile
    /\ stage = Drawn([playback |-> NoPlayback, loops |-> 0, clock |-> NotYet,
                      elapsed |-> 0, looks |-> <<>>, joints |-> <<>>],
                     library[selected], 0, profile)
    /\ spent = [k \in Kinds |-> 0]
    /\ SpriteInit

(***************************************************************************)
(* Playback.                                                               *)
(***************************************************************************)
Play ==
    /\ ~Empty /\ Spend({"moves"})
    /\ stage' = [StartPlayback(StopPlayback(stage, TRUE), Current) EXCEPT !.loops = @ + 1]
    /\ UNCHANGED <<profile, libVars, connVars, spriteVars>>

Stop ==
    /\ stage.playback.on
    /\ stage' = StopPlayback(stage, TRUE)
    /\ UNCHANGED <<profile, libVars, connVars, spent, spriteVars>>

\* An animation frame.  Its time is later than the last one's, and the first
\* may lie before the start.
Tick(t) ==
    /\ stage.loops > 0
    /\ IF ~stage.playback.on THEN stage' = [stage EXCEPT !.loops = @ - 1]
       ELSE /\ t > stage.clock \/ t = MaxTick
            /\ LET sample == Sample(stage.playback.timeline, t, stage.playback.profile)
                   drawn == [Show(stage, sample) EXCEPT !.clock = t]
               IN  stage' = IF sample.complete THEN StopPlayback(drawn, TRUE) ELSE drawn
    /\ UNCHANGED <<profile, libVars, connVars, spent, spriteVars>>

\* A frame is selected in the list or by its marker.
SelectFrame(i) ==
    /\ ~Empty /\ Spend({"moves"})
    /\ frame' = Min({i, Len(Current.frames)})
    /\ stage' = ApplyFrame(stage, Current, Current.frames[frame'].at)
    /\ editor' = profile
    /\ UNCHANGED <<profile, library, selected, origin, connVars, spriteVars>>

SelectBehavior(id) ==
    /\ Spend({"moves"})
    /\ selected' = id
    /\ frame' = 1
    /\ stage' = Drawn(StopPlayback(stage, TRUE), library[id], 0, profile)
    /\ editor' = profile
    /\ UNCHANGED <<profile, library, origin, connVars, spriteVars>>

(***************************************************************************)
(* The library.                                                            *)
(***************************************************************************)

\* What an edit makes of the selected timeline: its length is that of its
\* frames, at least 1, and it is no longer verified.
Edited(frames) == Normalized([frames |-> frames, verified |-> FALSE,
                              duration |-> CalculateBehaviorDuration(frames, 1)])

UpdateUnderPlayback(frames, i) == \* mutant
    /\ Spend({"edits"})
    /\ library' = [library EXCEPT ![selected] = Edited(frames)]
    /\ frame' = Min({i, Len(frames)})
    /\ LET next == library'[selected]
       IN  stage' = Drawn(stage, next, next.frames[frame'].at, profile)
    /\ editor' = profile
    /\ UNCHANGED <<profile, selected, origin, connVars, spriteVars>>
\* updateSelectedTimeline: the playback stops, the timeline is replaced, and
\* the selected frame, number i, is drawn.
Update(frames, i) ==
    /\ Spend({"edits"})
    /\ library' = [library EXCEPT ![selected] = Edited(frames)]
    /\ frame' = Min({i, Len(frames)})
    /\ LET next == library'[selected]
       IN  stage' = Drawn(StopPlayback(stage, TRUE), next, next.frames[frame'].at, profile)
    /\ editor' = profile
    /\ UNCHANGED <<profile, selected, origin, connVars, spriteVars>>

\* A copy of the selected frame, "after" it, becomes the selected one; of the
\* frames at its time it is the last.
Inserted(after) ==
    LET new == [Current.frames[frame] EXCEPT !.at = @ + after]
        frames == SortFrames(Append(Current.frames, new))
        earlier == {i \in DOMAIN Current.frames : Current.frames[i].at <= new.at}
    IN  /\ Len(frames) <= MaxFrames
        /\ Update(frames, Cardinality(earlier) + 1)
\* 250 ms and 100 ms, in the model's unit of time.
AddFrame == ~Empty /\ Inserted(IF Current.frames[frame].dur = Unset THEN 1
                               ELSE Current.frames[frame].dur)
DuplicateFrame == ~Empty /\ Inserted(1)

DeleteFrame ==
    /\ ~Empty /\ Len(Current.frames) > 1
    /\ Update(RemoveAt(Current.frames, frame), Min({frame, Len(Current.frames) - 1}))

\* updateSelectedFrame.
UpdateFrame(new) == Update([Current.frames EXCEPT ![frame] = new], frame)
Rename == ~Empty /\ Update(Current.frames, frame)
UpdateTiming(at, dur) ==
    ~Empty /\ UpdateFrame([Current.frames[frame] EXCEPT !.at = at, !.dur = dur])
\* A function with one value more, or another one.
Put(f, k, v) == [x \in DOMAIN f \cup {k} |-> IF x = k THEN v ELSE f[x]]
UpdateLookOfShown(k, v) == \* mutant
    /\ ~Empty /\ k \in editor.looks
    /\ UpdateFrame([Current.frames[frame] EXCEPT
                       !.looks = Put(Restrict(@, DOMAIN @ \cap editor.looks), k, v)])
\* The editor offers what the profile it was drawn for has; positions are
\* clamped to the joint's range.
UpdateLook(k, v) ==
    /\ ~Empty /\ k \in editor.looks
    /\ UpdateFrame([Current.frames[frame] EXCEPT !.looks = Put(@, k, v)])
UpdateJoint(j, v) ==
    /\ ~Empty /\ j \in editor.joints
    /\ UpdateFrame([Current.frames[frame] EXCEPT !.joints = Put(@, j, v)])

\* A new behaviour is added and selected.  A playback goes on.
Added(id, frames) ==
    /\ Spend({"edits"})
    /\ library' = Put(library, id, Edited(frames))
    /\ selected' = id
    /\ frame' = 1
    /\ stage' = Drawn(stage, library'[id], 0, profile)
    /\ editor' = profile
    /\ UNCHANGED <<origin, connVars>>
    /\ UNCHANGED profile /\ ProfileRendered
NewBehavior(id) == id \notin DOMAIN library /\ Added(id, <<DefaultFrame(profile)>>)
DuplicateBehavior(id) == ~Empty /\ id \notin DOMAIN library /\ Added(id, Current.frames)

\* The last behaviour stays, but the playback stops all the same.
DeleteBehavior ==
    /\ ~Empty /\ Spend({"edits"})
    /\ LET rest == DOMAIN library \ {selected}
           at == IF rest = {} THEN stage ELSE [stage EXCEPT !.elapsed = 0]
       IN  /\ library' = IF rest = {} THEN library ELSE Restrict(library, rest)
           /\ selected' = IF rest = {} THEN selected ELSE Min(rest)
           /\ frame' = IF rest = {} THEN frame ELSE 1
           /\ LET stopped == StopPlayback(at, TRUE)
              IN  stage' = Drawn(stopped, library'[selected'], stopped.elapsed, profile)
    /\ editor' = profile
    /\ UNCHANGED <<origin, connVars>>
    /\ UNCHANGED profile /\ ProfileRendered

\* A file has been read.  One that does not load changes nothing; an empty
\* one empties the library, and the handler ends before it draws.
ImportFile(file) ==
    /\ Spend({"edits"})
    /\ Loadable(file)
    /\ library' = LoadDefinitions(file)
    /\ origin' = library'
    /\ LET stopped == StopPlayback([stage EXCEPT !.elapsed = 0], TRUE)
       IN  IF file = <<>>
           THEN /\ stage' = stopped
                /\ UNCHANGED <<selected, frame>>
           ELSE /\ selected' = Min(DOMAIN library')
                /\ frame' = Min({frame, Len(library'[selected'].frames)})
                /\ stage' = Drawn(stopped, library'[selected'], stopped.elapsed, profile)
    /\ UNCHANGED <<profile, editor, connVars, spriteVars>>

(***************************************************************************)
(* The hub client.                                                         *)
(***************************************************************************)
me == Len(clients)
client == clients[me]
\* What reaches the page only if it comes from the current client.
AppEvent(i, kind) ==
    stage' = CASE i = me /\ kind = "message.final" -> StopPlayback(stage, FALSE)
               [] i = me /\ kind \in {"assistant.interrupted", "action.interrupt"} ->
                     StopPlayback(stage, TRUE)
               [] OTHER -> stage

\* replaceHubClient: the old client is disconnected if it is active, and no
\* longer heard in any case.
Replaced(m, u) ==
    /\ clients' = Append([clients EXCEPT ![me] = IF IsActive(@) THEN Disconnected(@) ELSE @],
                         NewClient(m, u))
    /\ sockets' = IF IsActive(client) THEN SocketShut(client, sockets) ELSE sockets
    /\ UNCHANGED turns

SelectProfile(p) ==
    /\ p # profile
    /\ profile' = p
    /\ Spend({"profiles"})
    /\ Replaced(mode, url)
    /\ LET stopped == [StopPlayback(stage, TRUE) EXCEPT !.elapsed = 0]
       IN  IF Empty THEN /\ stage' = stopped
                         /\ UNCHANGED <<editor, spriteVars>>
           ELSE /\ stage' = Drawn(stopped, Current, 0, p)
                /\ editor' = p
                /\ ProfileRendered
    /\ frame' = 1
    /\ UNCHANGED <<mode, url, library, selected, origin>>

\* A new mode redraws the page, a new URL does not.
SelectMode(m) ==
    /\ m # mode
    /\ mode' = m
    /\ Spend({"backends"})
    /\ Replaced(m, url)
    /\ UNCHANGED <<url, profile, library, selected, frame, origin>>
    /\ IF Empty THEN UNCHANGED <<stage, editor, spriteVars>>
       ELSE /\ stage' = Drawn(stage, Current, stage.elapsed, profile)
            /\ editor' = profile
            /\ ProfileRendered
SetUrl(u) ==
    /\ u # url
    /\ url' = u
    /\ Spend({"backends"})
    /\ Replaced(mode, u)
    /\ UNCHANGED <<mode, profile, libVars, stage, spriteVars>>

\* The connect button while the client is active.
Disconnect ==
    /\ IsActive(client)
    /\ clients' = [clients EXCEPT ![me] = Disconnected(@)]
    /\ sockets' = SocketShut(client, sockets)
    /\ UNCHANGED <<profile, libVars, mode, url, turns, stage, spent, spriteVars>>

\* connect() for the current client; LiveConnected says when there is no socket.
Connected == IF client.mode = "mock" THEN MockConnected(client)
             ELSE LiveConnected(client, Len(sockets) + 1)
SocketMade == client.mode = "live" /\ client.url = "good"
Opening ==
    sockets' = IF SocketMade THEN Append(sockets, [client |-> me, rs |-> "connecting"])
                  ELSE sockets
Connect ==
    /\ ~IsActive(client)
    /\ Opening /\ Spend({"connects"})
    /\ clients' = [clients EXCEPT ![me] = Connected]
    /\ UNCHANGED <<profile, libVars, mode, url, turns, stage, spriteVars>>

\* A typed turn of an active client is sent, or fails, at once; so it is with
\* a mock client, which connects at once, and a client that cannot connect.
Turn(phase, s) == [phase |-> phase, client |-> me, socket |-> s]
TypedNow(c) ==
    /\ clients' = [clients EXCEPT ![me] = Sent(c, sockets, "user.text", Len(turns) + 1)]
    /\ turns' = Append(turns, Turn(IF Sendable(c, sockets) THEN "sent" ELSE "failed", 0))
    /\ AppEvent(me, IF c.mode = "mock" /\ c.speaking /\ Sendable(c, sockets)
                    THEN "assistant.interrupted" ELSE "other")
SendTypedTurn ==
    /\ Spend({"turns"})
    /\ IF IsActive(client) \/ client.mode = "mock"
       THEN /\ TypedNow(IF IsActive(client) THEN client ELSE Connected)
            /\ UNCHANGED sockets
       ELSE /\ Opening
            /\ clients' = [clients EXCEPT ![me] = Connected]
            /\ turns' = Append(turns, IF SocketMade THEN Turn("waiting", Len(sockets'))
                                      ELSE Turn("failed", 0))
            /\ UNCHANGED stage
    /\ UNCHANGED <<profile, libVars, mode, url, spriteVars>>

\* The buttons of an active client; ping is answered and changes nothing else.
Ping ==
    /\ IsActive(client)
    /\ clients' = [clients EXCEPT ![me] = Sent(@, sockets, "ping", 0)]
    /\ UNCHANGED <<profile, libVars, mode, url, turns, sockets, stage, spent, spriteVars>>
Interrupt ==
    /\ IsActive(client)
    /\ clients' = [clients EXCEPT ![me] = Sent(@, sockets, "interrupt", 0)]
    /\ stage' = StopPlayback(stage, TRUE)
    /\ UNCHANGED <<profile, libVars, mode, url, turns, sockets, spent, spriteVars>>

\* The next timer of a mock client.
MockTimer(i) ==
    /\ clients[i].timers # <<>>
    /\ LET c == clients[i]
           kind == Head(c.timers).kind
       IN  /\ clients' = [clients EXCEPT
                             ![i] = Consumed([c EXCEPT !.timers = Tail(c.timers)], kind)]
           /\ AppEvent(i, kind)
    /\ UNCHANGED <<profile, libVars, mode, url, turns, sockets, spent, spriteVars>>

\* The turns that wait for socket s go on, or fail, with a client that is c.
Waiting(s) == {n \in DOMAIN turns : turns[n].phase = "waiting" /\ turns[n].socket = s}
Settled(s, phase) == [n \in DOMAIN turns |->
                        IF n \in Waiting(s) THEN [turns[n] EXCEPT !.phase = phase]
                        ELSE turns[n]]

\* A socket opens.  When the hello cannot be sent the handler throws, and
\* connect() neither succeeds nor fails.
SocketOpens(s) ==
    /\ sockets[s].rs = "connecting"
    /\ sockets' = [sockets EXCEPT ![s].rs = "open"]
    /\ LET i == sockets[s].client
       IN  /\ clients' = [clients EXCEPT ![i] = Opened(@, s)]
           /\ turns' = IF clients[i].socket = s THEN Settled(s, "sent") ELSE turns
    /\ UNCHANGED <<profile, libVars, mode, url, stage, spent, spriteVars>>

\* A socket ends, with an error event before its close event or without.  The
\* error fails a connect() while the client is connecting; else the close
\* lets it succeed, and the turn finds no socket to send on.
SocketEnds(s, error) ==
    /\ sockets[s].rs # "closed"
    /\ sockets[s].rs \in {"connecting", "aborting"} => error
    /\ sockets' = [sockets EXCEPT ![s].rs = "closed"]
    /\ LET i == sockets[s].client
           refused == error /\ clients[i].state = "connecting"
       IN  clients' = [clients EXCEPT ![i] =
                          IF Waiting(s) = {} \/ refused THEN Closed(@) ELSE Failed(Closed(@))]
    /\ turns' = Settled(s, "failed")
    /\ UNCHANGED <<profile, libVars, mode, url, stage, spent, spriteVars>>

\* A hub message on an open socket, whether it is the client's own or not.
SocketMessage(s, kind) ==
    /\ sockets[s].rs = "open"
    /\ clients' = [clients EXCEPT ![sockets[s].client] = Consumed(@, kind)]
    /\ AppEvent(sockets[s].client, kind)
    /\ UNCHANGED <<profile, libVars, mode, url, turns, sockets, spent, spriteVars>>

Sprites ==
    /\ SpriteNext
    /\ IF jobs' \subseteq jobs /\ jobs' # jobs THEN UNCHANGED spent ELSE Spend({"sprites"})
    /\ UNCHANGED <<libVars, connVars, stage>>

Animate == \E t \in -1 .. MaxTick : Tick(t)
Next ==
    \/ Play \/ Stop \/ Animate
    \/ \E i \in 1 .. MaxFrames : SelectFrame(i)
    \/ \E id \in DOMAIN library : SelectBehavior(id)
    \/ AddFrame \/ DuplicateFrame \/ DeleteFrame \/ Rename
    \/ \E at \in Times, dur \in Times : UpdateTiming(at, dur)
    \/ \E k \in Outputs, v \in LookValues : UpdateLook(k, v)
    \/ \E j \in editor.joints, v \in JointValues : UpdateJoint(j, v)
    \/ \E id \in Ids : NewBehavior(id) \/ DuplicateBehavior(id)
    \/ DeleteBehavior
    \/ \E file \in Files : ImportFile(file)
    \/ \E p \in Profiles : SelectProfile(p)
    \/ \E m \in {"mock", "live"} : SelectMode(m)
    \/ \E u \in {"good", "bad", "empty"} : SetUrl(u)
    \/ Connect \/ Disconnect \/ SendTypedTurn \/ Ping \/ Interrupt
    \/ \E i \in DOMAIN clients : MockTimer(i)
    \/ \E s \in DOMAIN sockets : SocketOpens(s)
    \/ \E s \in DOMAIN sockets, error \in BOOLEAN : SocketEnds(s, error)
    \/ \E s \in DOMAIN sockets, kind \in HubFrames : SocketMessage(s, kind)
    \/ Sprites

Spec == Init /\ [][Next]_vars

(***************************************************************************)
(* Properties.                                                             *)
(***************************************************************************)

TypeOK ==
    /\ profile \in Profiles /\ editor \in Profiles
    /\ clients \in Seq(Clients) /\ sockets \in Seq(Sockets)
    /\ \A n \in DOMAIN turns : turns[n].phase \in {"waiting", "sent", "failed"}
    /\ DOMAIN library \subseteq Ids
    /\ \A id \in DOMAIN library : ValidTimeline(library[id])
    /\ ~Empty => selected \in DOMAIN library /\ frame \in DOMAIN Current.frames

\* Whatever is edited, added, deleted, imported and selected while a behaviour
\* plays: what plays is a behaviour as the library now has it, for the device
\* that is selected, moved on by at most one chain of animation frames; and
\* what the preview shows is a behaviour of the library on that device at the
\* moment the page is at.  It need not be the selected behaviour, as a new one
\* leaves the playback of another running (main.ts:480-504, 1103-1157,
\* 1178-1221, 1358-1385).
PreviewIsOfTheLibrary ==
    /\ stage.playback.on =>
          /\ stage.playback.profile = profile
          /\ \E id \in DOMAIN library : stage.playback.timeline = library[id]
    /\ stage.loops \in {0, 1} /\ (stage.loops = 1 => stage.playback.on)
    /\ ~Empty => \E id \in DOMAIN library :
          /\ stage.looks = LooksAt(library[id], stage.elapsed, profile)
          /\ stage.joints = JointsAt(library[id], stage.elapsed, profile)

\* Whatever was connected, replaced, interrupted and typed in between, the
\* mock answers that are still to come are to the newest turn, and only the
\* current client has any; a mock assistant that speaks has its end to come
\* (main.ts:982-1036, transport.ts:311-323, 528-629).
MockRepliesAreCurrent ==
    \A i \in DOMAIN clients :
        /\ clients[i].timers # <<>> =>
              /\ i = me /\ client.state = "ready"
              /\ \A k \in DOMAIN client.timers : client.timers[k].turn = Len(turns)
        /\ clients[i].mode = "mock" /\ clients[i].speaking =>
              \E k \in DOMAIN clients[i].timers : clients[i].timers[k].kind = "audio-end"

\* An edit leaves the outputs and joints alone that the editor does not show:
\* what frames say of them is neither lost nor made up (main.ts:480-529,
\* 690-775, 1316-1350).
Hidden(t) == {<<Restrict(f.looks, DOMAIN f.looks \ editor.looks),
                Restrict(f.joints, DOMAIN f.joints \ editor.joints)>> : f \in ToSet(t.frames)}
EditsKeepHiddenChannels ==
    [][\A id \in DOMAIN library \cap DOMAIN library' :
          spent'["edits"] > spent["edits"] /\ library' # origin' =>
              /\ Hidden(library'[id]) \subseteq Hidden(library[id])
              /\ Len(library'[id].frames) >= Len(library[id].frames) =>
                    Hidden(library[id]) \subseteq Hidden(library'[id])]_vars

\* A typed turn does not go on waiting for a connection that is there
\* (docs/device-studio.md:51-53, transport.ts:424-441).
TurnsAreSettled ==
    \A n \in DOMAIN turns : turns[n].phase = "waiting" =>
        sockets[turns[n].socket].rs # "open"
===============================================================================
