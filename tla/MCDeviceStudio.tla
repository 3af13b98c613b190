---------------------------- MODULE MCDeviceStudio ----------------------------
(* Instances of DeviceStudioApp for TLC. *)
EXTENDS DeviceStudioApp

\* A device with a joint and LEDs, and one with neither and a larger display;
\* each has the targets 1, 2 (expressions) and 11 (a viseme), or 1 and 11.
StackChan == [looks |-> {"expression", "backlight", "base"}, joints |-> {"pan"},
              faces |-> {1, 2, 11}, width |-> 2, height |-> 2]
RoundLcd  == [looks |-> {"expression", "backlight"}, joints |-> {},
              faces |-> {1, 11}, width |-> 3, height |-> 3]
MCProfiles == {StackChan, RoundLcd}
MCLeds == {"base"}

Frame(at, dur, looks, joints) == [at |-> at, dur |-> dur, looks |-> looks, joints |-> joints]
Blank == [k \in {} |-> 0]
Nod == [frames |-> <<Frame(0, Unset, ("expression" :> 1) @@ ("base" :> 1), "pan" :> 0),
                     Frame(2, 1, "backlight" :> 1, "pan" :> 3)>>,
        duration |-> 0, verified |-> TRUE]
Blink == [frames |-> <<Frame(0, 1, "expression" :> 0, Blank)>>, duration |-> 0,
          verified |-> FALSE]
\* Frames out of order, and a duration longer than they are.
Late == [frames |-> <<Frame(1, Unset, "base" :> 0, Blank), Frame(0, 1, Blank, "pan" :> 3)>>,
         duration |-> 3, verified |-> TRUE]
MCFixtures == <<<<2, Nod>>, <<1, Blink>>>>
MCFiles == {<<>>, <<<<1, Late>>>>, <<<<1, Late>>, <<1, Blink>>>>}
MCDefaultFrame(p) == Frame(0, 1, [k \in SingleOutputs \cup (p.looks \cap Leds) |-> 0],
                           [j \in p.joints |-> 0])

\* A PNG, one the packer cannot decode, and a picture the server does not pass on.
MCPictures == {[w |-> 1, h |-> 1, valid |-> TRUE, ready |-> TRUE],
               [w |-> 2, h |-> 2, valid |-> FALSE, ready |-> TRUE],
               [w |-> 1, h |-> 1, valid |-> FALSE, ready |-> FALSE]}
MCGrids == {<<1, 1>>, <<2, 2>>}
MCSheetTargets == {<<2>>, <<1, 11, 2>>, <<1, 1>>}

Budget(edits, moves, profiles, backends, connects, trns, sprites) ==
    [edits |-> edits, moves |-> moves, profiles |-> profiles, backends |-> backends,
     connects |-> connects, turns |-> trns, sprites |-> sprites]
EditBudget == {Budget(3, 1, 1, 0, 0, 0, 0), Budget(2, 2, 1, 0, 0, 0, 0)}
TalkBudget == {Budget(0, 1, 0, 1, 1, 2, 0), Budget(0, 0, 0, 2, 1, 1, 0)}
SpriteBudget == {Budget(0, 0, 1, 0, 0, 0, 4)}
TurnLostBudget == {Budget(0, 0, 0, 1, 1, 2, 0)}
MCBudgets == EditBudget \cup TalkBudget \cup SpriteBudget
===============================================================================
