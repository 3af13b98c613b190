-------------------------- MODULE BehaviorTimelines --------------------------
(***************************************************************************)
(* The behaviour timelines of Device Studio (src/src/ts/device-studio/     *)
(* model.ts and behavior.ts): how a timeline is normalised and validated,  *)
(* what is left of it on a device profile, and what a preview shows of it  *)
(* at a moment.  There is no state here.                                   *)
(*                                                                         *)
(* A timeline is [frames, duration, verified]: its frames, its length and  *)
(* whether its hardware verification says more than "simulated-only".  A   *)
(* frame is [at, dur, looks, joints].  "looks" gives a value to some of    *)
(* the outputs that hold until a later frame changes them (expression,     *)
(* viseme, display, backlight, and every LED by its id), "joints" a        *)
(* position to some joints, which are interpolated.  A profile is          *)
(* [looks, joints]: the outputs and joints the device has.                 *)
(***************************************************************************)
EXTENDS Integers, Sequences, FiniteSets, FiniteSetsExt, SequencesExt, Functions

CONSTANTS
    Leds,     \* the LED ids of the profiles, outputs beside the four below
    JointIds, \* the joint ids
    LookValues, JointValues  \* the values of outputs, the positions of joints

\* A frame that does not say how long it lasts.
Unset == -1
\* The outputs with one value each; an LED id is an output of its own.
SingleOutputs == {"expression", "viseme", "display", "backlight"}
Outputs == SingleOutputs \cup Leds

\* Frames, and timelines as they stand in a file.
Frames == [at : Int, dur : Int, looks : UNION {[K -> LookValues] : K \in SUBSET Outputs},
           joints : UNION {[K -> JointValues] : K \in SUBSET JointIds}]
Timelines == [frames : Seq(Frames), duration : Int, verified : BOOLEAN]

\* Where a frame ends.
FrameEnd(f) == f.at + (IF f.dur = Unset THEN 0 ELSE f.dur)

\* The end of the last frame, or the length the timeline claims.
CalculateBehaviorDuration(frames, claimed) ==
    Max({claimed, 0} \cup {FrameEnd(frames[i]) : i \in DOMAIN frames})

\* Frames in order of time, frames of one time in the order they stood in.
SortFrames(frames) ==
    LET before(i, j) == \/ frames[i].at < frames[j].at
                        \/ frames[i].at = frames[j].at /\ i < j
        order == CHOOSE s \in [DOMAIN frames -> DOMAIN frames] :
                    \A i, j \in DOMAIN frames : i < j => before(s[i], s[j])
    IN  [i \in DOMAIN frames |-> frames[order[i]]]

ValidTimeline(t) ==
    /\ t.frames # <<>>
    /\ \A i \in DOMAIN t.frames :
          /\ t.frames[i].at >= 0
          /\ t.frames[i].dur = Unset \/ t.frames[i].dur >= 0
          /\ i > 1 => t.frames[i - 1].at <= t.frames[i].at
          /\ t.duration >= FrameEnd(t.frames[i])

\* What a timeline becomes on its way into a library; it may be invalid, and
\* then the code throws.
Normalized(t) == [t EXCEPT !.frames = SortFrames(t.frames),
                           !.duration = CalculateBehaviorDuration(t.frames, t.duration)]

\* What a device has of a frame: applyDeviceBehaviorToProfile drops the rest.
LooksOn(profile, f) == DOMAIN f.looks \cap profile.looks
JointsOn(profile, f) == DOMAIN f.joints \cap profile.joints

\* A joint between two keyframes, as a fraction <<numerator, denominator>>.
Interpolated(prev, next, j, t) ==
    <<prev.joints[j] * (next.at - t) + next.joints[j] * (t - prev.at), next.at - prev.at>>

\* What a device has shown of a timeline by a moment within it: each output as
\* the last frame that sets it says, each joint between the last keyframe and
\* the next.  The timeline comes out of a library, and is normal.
Begun(t, elapsed) == {i \in DOMAIN t.frames : t.frames[i].at <= elapsed}
LooksAt(t, elapsed, profile) ==
    LET begun == Begun(t, elapsed)
        last(k) == Max({i \in begun : k \in DOMAIN t.frames[i].looks})
    IN  [k \in UNION {LooksOn(profile, t.frames[i]) : i \in begun} |->
            t.frames[last(k)].looks[k]]
JointsAt(t, elapsed, profile) ==
    LET begun == Begun(t, elapsed)
        joint(j) ==
            LET prev == t.frames[Max({i \in begun : j \in DOMAIN t.frames[i].joints})]
                later == {i \in DOMAIN t.frames \ begun : j \in DOMAIN t.frames[i].joints}
            IN  IF later = {} THEN <<prev.joints[j], 1>>
                ELSE Interpolated(prev, t.frames[Min(later)], j, elapsed)
    IN  [j \in UNION {JointsOn(profile, t.frames[i]) : i \in begun} |-> joint(j)]

\* What a preview shows of a timeline at any moment.
Clamped(t, requested) == IF requested < 0 THEN 0 ELSE Min({requested, t.duration})
Sample(t, requested, profile) ==
    LET elapsed == Clamped(t, requested)
    IN  [elapsed |-> elapsed, complete |-> requested >= t.duration,
         looks |-> LooksAt(t, elapsed, profile), joints |-> JointsAt(t, elapsed, profile)]

(***************************************************************************)
(* Libraries: a partial function from behaviour ids, numbers in the order  *)
(* localeCompare gives them, to timelines.                                 *)
(***************************************************************************)

\* The definitions of a file, <<id, timeline>> in the order they stand in;
\* one that is not valid or an id that comes twice fails the whole file.
Loadable(definitions) ==
    /\ \A i \in DOMAIN definitions : ValidTimeline(Normalized(definitions[i][2]))
    /\ \A i, j \in DOMAIN definitions :
          definitions[i][1] = definitions[j][1] => i = j
LoadDefinitions(definitions) ==
    [id \in {definitions[i][1] : i \in DOMAIN definitions} |->
        Normalized(definitions[CHOOSE i \in DOMAIN definitions :
                                  definitions[i][1] = id][2])]
===============================================================================
