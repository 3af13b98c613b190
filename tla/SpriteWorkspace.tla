--------------------------- MODULE SpriteWorkspace ---------------------------
(***************************************************************************)
(* The sprite workspace of Device Studio (src/src/ts/device-studio-app/    *)
(* main.ts, with the server routes of src/scripts/serve-device-studio.mjs  *)
(* and the packer of src/src/ts/device-studio/sprites.ts): images are      *)
(* generated or imported, approved for a target (an expression or viseme), *)
(* or cut out of a sheet, and the approved ones are packed into an atlas.  *)
(*                                                                         *)
(* Generating, reading files, loading a sheet and packing are awaited; a   *)
(* job is what such an operation read before it waited.  An image is a     *)
(* number, its pixels are left out; a frame is a whole image (cell 0) or a *)
(* cell of a sheet.  Lists whose order is only layout are sets.            *)
(***************************************************************************)
EXTENDS Integers, Sequences, FiniteSets, FiniteSetsExt, SequencesExt

CONSTANTS
    Expressions, Visemes,  \* the targets: numbers in the order the packer sorts
    Pictures,              \* the images that can come: [w, h, valid, ready]
    Grids,                 \* <<rows, columns>> the user may cut a sheet into
    SheetTargets,          \* target lists the user may write for a sheet
    MaxImages, MaxJobs     \* bounds: images ever, operations at once

ASSUME SpriteAssumption ==
    /\ Expressions \subseteq Nat \ {0} /\ Visemes \subseteq Nat \ {0}
    /\ Expressions \cap Visemes = {}
    /\ Pictures \subseteq [w : Nat, h : Nat, valid : BOOLEAN, ready : BOOLEAN]
    /\ Grids \subseteq (Nat \ {0}) \X (Nat \ {0})
    /\ SheetTargets \subseteq Seq(Expressions \cup Visemes)

VARIABLES
    profile,      \* the selected profile (DeviceStudioApp)
    chosen,       \* the target selected in the workspace
    references,   \* whether there are reference images
    sheets, candidates, approved,
    lastPack,     \* the atlas on show
    generateOff, packOff,  \* whether the two buttons are disabled
    jobs,         \* operations that wait for an answer
    images        \* ghost: for each image, the target it was asked for (0: none)

spriteVars == <<chosen, references, sheets, candidates, approved, lastPack,
                generateOff, packOff, jobs, images>>

Targets == Expressions \cup Visemes
NoPack == [frames |-> {}, changed |-> FALSE, placed |-> <<>>, width |-> 0, height |-> 0]

SpriteInit ==
    /\ chosen = Min(profile.faces)
    /\ references = FALSE
    /\ sheets = {} /\ candidates = {} /\ approved = {}
    /\ lastPack = NoPack
    /\ generateOff = FALSE
    /\ packOff = TRUE
    /\ jobs = {}
    /\ images = <<>>

(***************************************************************************)
(* The packer, packDeviceSpriteSheet.                                      *)
(***************************************************************************)

\* Frames the packer takes: each target once, images it can decode, and
\* none larger than the display.
Packable(frames, p) ==
    /\ frames # {}
    /\ \A f, g \in frames : f.target = g.target => f = g
    /\ \A f \in frames : f.valid /\ f.w <= p.width /\ f.h <= p.height

\* Expressions before visemes, each kind by its ids.
PackOrder(frames) ==
    LET kind(f) == IF f.target \in Expressions THEN 0 ELSE 1
        before(f, g) == \/ kind(f) < kind(g)
                        \/ kind(f) = kind(g) /\ f.target < g.target
    IN  CHOOSE s \in [1 .. Cardinality(frames) -> frames] :
            \A i, j \in DOMAIN s : i < j => before(s[i], s[j])

\* Rows of frames: one that does not fit beside the others starts a row.
NoFrames == [x |-> 0, y |-> 0, row |-> 0, placed |-> <<>>]
PlaceFrame(at, f, width) ==
    LET wrap == at.x > 0 /\ at.x + f.w > width
        x == IF wrap THEN 0 ELSE at.x
        y == IF wrap THEN at.y + at.row ELSE at.y
    IN  [x |-> x + f.w, y |-> y,
         row |-> Max({f.h, IF wrap THEN 0 ELSE at.row}),
         placed |-> Append(at.placed, [frame |-> f, x |-> x, y |-> y])]
PlaceFrames(order, width) ==
    LET after[n \in 0 .. Len(order)] ==
            IF n = 0 THEN NoFrames ELSE PlaceFrame(after[n - 1], order[n], width)
    IN  after[Len(order)]

\* The answer of the pack route: an atlas with its manifest.
Packed(frames, p) ==
    LET end == PlaceFrames(PackOrder(frames), p.width)
    IN  [frames |-> frames, changed |-> FALSE, placed |-> end.placed,
         width |-> p.width, height |-> Max({1, end.y + end.row})]

(***************************************************************************)
(* The workspace.                                                          *)
(***************************************************************************)

Job(op) == [op |-> op, output |-> "frame", target |-> 0, asked |-> chosen, image |-> 0,
            grid |-> <<1, 1>>, targets |-> <<>>, frames |-> {}, profile |-> profile]
Start(job) == Cardinality(jobs) < MaxJobs /\ jobs' = jobs \cup {job}

\* renderSpriteWorkspace enables the pack button whenever something is
\* approved, whatever an operation under way had made of it.
Rendered == packOff' = (approved' = {})

\* A generation with references never stays text-to-image, a sheet from
\* references is an edit; a mode that needs references is refused without.
ResolvedMode(output, mode) ==
    IF references /\ (output = "sheet" \/ mode = "text-to-image") THEN "edit" ELSE mode

GenerateSprite(output, mode) ==
    /\ ~generateOff
    /\ ResolvedMode(output, mode) = "text-to-image" \/ references
    /\ Start([Job("generate") EXCEPT !.output = output, !.target = chosen])
    /\ generateOff' = TRUE
    /\ UNCHANGED <<chosen, references, sheets, candidates, approved, lastPack, packOff, images>>

\* The user picks files; what they are for is read before they are.
ImportSprites(output) ==
    /\ Start([Job("import") EXCEPT !.output = output, !.target = chosen])
    /\ UNCHANGED <<chosen, references, sheets, candidates, approved, lastPack,
                   generateOff, packOff, images>>

ArrivedForChosen(j, picture) == \* mutant
    [target |-> chosen, image |-> Len(images) + 1, cell |-> 0, w |-> picture.w,
     h |-> picture.h, valid |-> picture.valid, ready |-> picture.ready,
     source |-> IF j.op = "generate" THEN "generated" ELSE "manual"]
\* The image as a candidate for the target it was asked for.
Arrived(j, picture) ==
    [target |-> j.target, image |-> Len(images) + 1, cell |-> 0, w |-> picture.w,
     h |-> picture.h, valid |-> picture.valid, ready |-> picture.ready,
     source |-> IF j.op = "generate" THEN "generated" ELSE "manual"]
\* An image comes back, "valid" when the packer can decode it.  One of a
\* generation may be of a kind or a size the server does not pass on; it is not
\* "ready" then, and can only be looked at.
ImageArrives(j, picture) ==
    /\ j.op \in {"generate", "import"}
    /\ j.op = "import" => picture.ready
    /\ Len(images) < MaxImages
    /\ jobs' = jobs \ {j}
    /\ images' = Append(images, IF j.output = "frame" THEN j.asked ELSE 0)
    /\ LET new == Arrived(j, picture)
       IN  /\ candidates' = IF j.output = "frame" THEN candidates \cup {new} ELSE candidates
           /\ sheets' = IF j.output = "sheet" THEN sheets \cup {new} ELSE sheets
           /\ references' = (references \/ j.output = "reference")
    /\ generateOff' = IF j.op = "generate" THEN FALSE ELSE generateOff
    /\ UNCHANGED <<chosen, approved, lastPack>>
    /\ Rendered

\* No image comes: the generation failed, or a file could not be read.
ImageFails(j) ==
    /\ j.op \in {"generate", "import"}
    /\ jobs' = jobs \ {j}
    /\ generateOff' = IF j.op = "generate" THEN FALSE ELSE generateOff
    /\ UNCHANGED <<chosen, references, sheets, candidates, approved, lastPack, packOff, images>>

\* Frames take the place of those approved for their targets.
Upserted(frames) ==
    {f \in approved : \A g \in frames : g.target # f.target} \cup frames

ApproveSprite(c) ==
    /\ c.ready
    /\ approved' = Upserted({c})
    /\ candidates' = candidates \ {c}
    /\ lastPack' = NoPack
    /\ UNCHANGED <<chosen, references, sheets, generateOff, jobs, images>>
    /\ Rendered

RejectSprite(c) ==
    /\ candidates' = candidates \ {c}
    /\ UNCHANGED <<chosen, references, sheets, approved, lastPack, generateOff, jobs, images>>
    /\ Rendered

RemoveApprovedBehindPack(target) == \* mutant
    /\ approved' = {f \in approved : f.target # target}
    /\ UNCHANGED <<chosen, references, sheets, candidates, lastPack, generateOff, jobs, images>>
    /\ Rendered

RemoveApproved(target) ==
    /\ approved' = {f \in approved : f.target # target}
    /\ lastPack' = NoPack
    /\ UNCHANGED <<chosen, references, sheets, candidates, generateOff, jobs, images>>
    /\ Rendered

RemoveSheet(s) ==
    /\ sheets' = sheets \ {s}
    /\ UNCHANGED <<chosen, references, candidates, approved, lastPack, generateOff, jobs, images>>
    /\ Rendered

ClearReferences ==
    /\ references /\ references' = FALSE
    /\ UNCHANGED <<chosen, sheets, candidates, approved, lastPack, generateOff, jobs, images>>
    /\ Rendered

\* Another target of the kind on show; only a change of the kind renders.
KindOf(target) == IF target \in Expressions THEN Expressions ELSE Visemes
SelectTarget(target) ==
    /\ target \in KindOf(chosen) \ {chosen}
    /\ chosen' = target
    /\ UNCHANGED <<references, sheets, candidates, approved, lastPack, generateOff,
                   packOff, jobs, images>>
SelectKind ==
    /\ chosen' = Min(profile.faces \ KindOf(chosen))
    /\ UNCHANGED <<references, sheets, candidates, approved, lastPack, generateOff, jobs, images>>
    /\ Rendered

\* Slicing reads the grid and the targets, then loads the sheet.
SliceSheet(s, grid, targets) ==
    /\ s.ready
    /\ targets # <<>>
    /\ Start([Job("slice") EXCEPT !.image = s, !.grid = grid, !.targets = targets])
    /\ UNCHANGED <<chosen, references, sheets, candidates, approved, lastPack,
                   generateOff, packOff, images>>

\* Cells are as large as the grid leaves them; the canvas makes them PNGs the
\* packer takes.  A grid finer than the image, or an image that cannot be
\* loaded, leaves everything as it was.
Cells(j) ==
    LET count == Min({j.grid[1] * j.grid[2], Len(j.targets)})
    IN  {[j.image EXCEPT !.target = j.targets[i], !.cell = i, !.source = "sheet",
                         !.w = @ \div j.grid[2], !.h = @ \div j.grid[1],
                         !.valid = TRUE] : i \in 1 .. count}
SheetLoads(j, loads) ==
    /\ j.op = "slice"
    /\ jobs' = jobs \ {j}
    /\ IF loads /\ \A f \in Cells(j) : f.w > 0 /\ f.h > 0
       THEN /\ approved' = Upserted(Cells(j))
            /\ lastPack' = NoPack
            /\ Rendered
       ELSE UNCHANGED <<approved, lastPack, packOff>>
    /\ UNCHANGED <<chosen, references, sheets, candidates, generateOff, images>>

PackSprites ==
    /\ ~packOff /\ approved # {}
    /\ Start([Job("pack") EXCEPT !.frames = approved])
    /\ packOff' = TRUE
    /\ UNCHANGED <<chosen, references, sheets, candidates, approved, lastPack,
                   generateOff, images>>

\* The answer to a pack: the atlas goes on show, whatever is approved by now
\* ("changed" remembers that for the properties).
PackAnswered(j, arrives) ==
    /\ j.op = "pack"
    /\ jobs' = jobs \ {j}
    /\ lastPack' = IF arrives /\ Packable(j.frames, j.profile)
                   THEN [Packed(j.frames, j.profile) EXCEPT
                            !.changed = (j.frames # approved)]
                   ELSE lastPack
    /\ packOff' = FALSE
    /\ UNCHANGED <<chosen, references, sheets, candidates, approved, generateOff, images>>

\* What the application's render() does here after a change of profile.
ProfileRendered ==
    /\ chosen' = IF chosen \in profile'.faces THEN chosen
                 ELSE Min(profile'.faces \cap KindOf(chosen))
    /\ UNCHANGED <<references, sheets, candidates, approved, lastPack, generateOff, jobs, images>>
    /\ Rendered

SpriteNext ==
    /\ \/ \E output \in {"frame", "sheet"}, mode \in {"text-to-image", "edit"} :
             GenerateSprite(output, mode)
       \/ \E output \in {"frame", "sheet", "reference"} : ImportSprites(output)
       \/ \E j \in jobs, picture \in Pictures : ImageArrives(j, picture)
       \/ \E j \in jobs : ImageFails(j)
       \/ \E c \in candidates : ApproveSprite(c) \/ RejectSprite(c)
       \/ \E f \in approved : RemoveApproved(f.target)
       \/ \E s \in sheets : RemoveSheet(s)
       \/ ClearReferences
       \/ \E target \in profile.faces : SelectTarget(target)
       \/ SelectKind
       \/ \E s \in sheets, grid \in Grids, targets \in SheetTargets :
             SliceSheet(s, grid, targets)
       \/ \E j \in jobs, ok \in BOOLEAN : SheetLoads(j, ok) \/ PackAnswered(j, ok)
       \/ PackSprites
    /\ UNCHANGED profile

(***************************************************************************)
(* Properties.                                                             *)
(***************************************************************************)

\* A candidate stands for the target that was selected when it was asked for,
\* however the selection changed while it was generated or read, and so does
\* an approved frame that is not cut from a sheet (main.ts:1572-1575,
\* 1649-1660, 1707-1728, 2043-2057).
ImagesKeepTheirTarget ==
    \A f \in candidates \cup approved :
        f.source # "sheet" => images[f.image] = f.target

\* An atlas on show is the atlas of what is approved, unless the approved
\* frames changed while it was being packed: it holds each of them once, inside
\* its bounds, and no two of them overlap (main.ts:1996-1998, 2043-2137;
\* sprites.ts:465-502).
Apart(a, b) == \/ a.x + a.frame.w <= b.x \/ b.x + b.frame.w <= a.x
               \/ a.y + a.frame.h <= b.y \/ b.y + b.frame.h <= a.y
AtlasIsOfApproved ==
    lastPack # NoPack =>
        /\ lastPack.changed \/ lastPack.frames = approved
        /\ Len(lastPack.placed) = Cardinality(lastPack.frames)
        /\ {at.frame : at \in ToSet(lastPack.placed)} = lastPack.frames
        /\ \A at \in ToSet(lastPack.placed) :
              /\ at.x + at.frame.w <= lastPack.width
              /\ at.y + at.frame.h <= lastPack.height
              /\ \A other \in ToSet(lastPack.placed) \ {at} : Apart(at, other)
===============================================================================
