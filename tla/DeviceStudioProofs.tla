-------------------------- MODULE DeviceStudioProofs --------------------------
(***************************************************************************)
(* Theorems of DeviceStudioApp: that the answers of mock clients are to    *)
(* the newest turn, that images keep the target they were asked for, that  *)
(* an atlas is a layout of what is approved, that edits leave alone what   *)
(* the editor does not show, and that the preview shows the library.       *)
(*                                                                         *)
(* Each has an invariant of its own: SpriteInv for the workspace, under    *)
(* which AtlasIsOfApproved is inductive, ClientInv for the hub clients,    *)
(* LibraryInv for the editor and StageOf for the stage.  The packer and    *)
(* the sorting of frames are shown right for every input: sorting by a     *)
(* strict order that is total exists and is a permutation, and rows of     *)
(* frames do not overlap.                                                  *)
(***************************************************************************)
EXTENDS DeviceStudioApp, SequenceTheorems, FiniteSetTheorems, WellFoundedInduction, TLAPS

-----------------------------------------------------------------------------
(* Numbers and orders *)


\* Every set of numbers has a least one: the order of the numbers is well
\* founded, and the library's WFMin needs no operator as its parameter.
LEMMA LeastNumber ==
  ASSUME NEW S \in SUBSET Nat, S # {}
  PROVE  \E m \in S : \A k \in S : m <= k
<1> DEFINE R == OpToRel(<, Nat)
<1>1. IsWellFoundedOn(R, Nat)
  BY NatLessThanWellFounded
<1>2. \A k, m \in Nat : k < m => <<k, m>> \in R
  BY DEF OpToRel
<1> HIDE DEF R
<1>3. PICK m \in S : \A k \in S : ~ (<<k, m>> \in R)
  BY <1>1, WFMin
<1>4. \A k \in S : m <= k
  <2> SUFFICES ASSUME NEW k \in S
               PROVE  m <= k
    OBVIOUS
  <2>1. k \in Nat /\ m \in Nat /\ ~ (<<k, m>> \in R)
    BY <1>3
  <2>2. ~ (k < m)
    BY <1>2, <2>1
  <2>3. QED
    BY <2>1, <2>2
<1> QED BY <1>4

\* Induction up to n, for the set of numbers for which something holds.
LEMMA AllUpTo ==
  ASSUME NEW n \in Nat, NEW S, 0 \in S, \A k \in 0..(n - 1) : k \in S => k + 1 \in S
  PROVE  0..n \subseteq S
<1> DEFINE T == (0..n) \ S
<1> SUFFICES ASSUME T # {}
             PROVE  FALSE
  OBVIOUS
<1>1. PICK m \in T : \A k \in T : m <= k
  <2>1. T \in SUBSET Nat
    OBVIOUS
  <2> HIDE DEF T
  <2>2. QED
    BY <2>1, LeastNumber
<1>2. m # 0 /\ m - 1 \in 0..(n - 1) /\ m - 1 \notin T
  BY <1>1
<1>3. m - 1 \in S
  BY <1>2
<1>4. QED
  BY <1>1, <1>2, <1>3

\* The order of a comparison, as a set of pairs: strict, and total on the set.
Orders(R, S) ==
  /\ \A f \in S : <<f, f>> \notin R
  /\ \A f, g \in S : f # g => <<f, g>> \in R \/ <<g, f>> \in R
  /\ \A f, g, h \in S : <<f, g>> \in R /\ <<g, h>> \in R => <<f, h>> \in R

\* A finite set has a greatest element: the one with the fewest above it.
LEMMA Greatest ==
  ASSUME NEW S, IsFiniteSet(S), S # {}, NEW R, Orders(R, S)
  PROVE  \E m \in S : \A g \in S \ {m} : <<g, m>> \in R
<1> DEFINE Above(f) == {g \in S : <<f, g>> \in R}
           N == {Cardinality(Above(f)) : f \in S}
<1>1. \A f \in S : IsFiniteSet(Above(f)) /\ Cardinality(Above(f)) \in Nat
  BY FS_Subset, FS_CardinalityType
<1>2. N \in SUBSET Nat /\ N # {}
  BY <1>1
<1>3. PICK c \in N : \A k \in N : c <= k
  <2> HIDE DEF N
  <2>1. QED
    BY <1>2, LeastNumber
<1>4. PICK m \in S : c = Cardinality(Above(m))
  BY <1>3
<1>5. ASSUME NEW g \in S \ {m}
      PROVE  <<g, m>> \in R
  <2> SUFFICES ASSUME <<g, m>> \notin R
               PROVE  FALSE
    OBVIOUS
  <2>1. <<m, g>> \in R
    BY <1>5 DEF Orders
  <2>2. Above(g) \in SUBSET Above(m) /\ g \in Above(m) /\ g \notin Above(g)
    BY <2>1 DEF Orders
  <2>3. Cardinality(Above(g)) \in N
    OBVIOUS
  <2> HIDE DEF N
  <2>4. c <= Cardinality(Above(g))
    BY <1>3, <2>3
  <2> DEFINE A == Above(m)
             B == Above(g)
  <2>5. IsFiniteSet(A) /\ B \in SUBSET A /\ B # A /\ Cardinality(A) \in Nat /\ Cardinality(B) \in Nat
        /\ Cardinality(A) <= Cardinality(B)
    BY <1>1, <1>4, <2>2, <2>4
  <2> HIDE DEF A, B
  <2>6. Cardinality(B) <= Cardinality(A) /\ (Cardinality(A) = Cardinality(B) => A = B)
    BY <2>5, FS_Subset
  <2>7. QED
    BY <2>5, <2>6
<1>6. QED
  BY <1>5

\* Sorting is possible.
Sorts(s, n, S, R) ==
  /\ s \in [1..n -> S]
  /\ \A i, j \in 1..n : i < j => <<s[i], s[j]>> \in R

\* Every finite set can be listed in the order.
LEMMA SortedExists ==
  ASSUME NEW S, IsFiniteSet(S), NEW R, Orders(R, S)
  PROVE  \E s : Sorts(s, Cardinality(S), S, R)
<1> DEFINE N == Cardinality(S)
           Good(n) == \A T \in SUBSET S : Cardinality(T) = n => \E s : Sorts(s, n, T, R)
           G == {n \in 0..N : Good(n)}
<1>1. N \in Nat
  BY FS_CardinalityType
<1>2. 0 \in G
  <2>1. ASSUME NEW T \in SUBSET S, Cardinality(T) = 0
        PROVE  \E s : Sorts(s, 0, T, R)
    <3>1. [i \in 1..0 |-> 0] \in [1..0 -> T]
      OBVIOUS
    <3>2. Sorts([i \in 1..0 |-> 0], 0, T, R)
      BY <3>1 DEF Sorts
    <3>3. QED
      BY <3>2
  <2>2. 0 \in 0..N
    BY <1>1
  <2>3. QED
    BY <2>1, <2>2
<1>3. ASSUME NEW k \in 0..(N - 1), k \in G
      PROVE  k + 1 \in G
  <2>1. ASSUME NEW T \in SUBSET S, Cardinality(T) = k + 1
        PROVE  \E s : Sorts(s, k + 1, T, R)
    <3>1. IsFiniteSet(T) /\ k \in Nat
      BY <1>1, FS_Subset
    <3>2. T # {}
      BY <2>1, <3>1, FS_EmptySet
    <3>3. Orders(R, T)
      BY DEF Orders
    <3>4. PICK m \in T : \A g \in T \ {m} : <<g, m>> \in R
      BY <3>1, <3>2, <3>3, Greatest
    <3> DEFINE U == T \ {m}
    <3>5. U \in SUBSET S /\ Cardinality(U) = k
      <4>1. Cardinality(U) = Cardinality(T) - 1
        BY <3>1, FS_RemoveElement
      <4>2. QED
        BY <2>1, <3>1, <4>1
    <3>6. PICK s : Sorts(s, k, U, R)
      BY <1>3, <3>5
    <3> DEFINE r == [i \in 1..(k + 1) |-> IF i = k + 1 THEN m ELSE s[i]]
    <3>7. r \in [1..(k + 1) -> T]
      BY <3>1, <3>6 DEF Sorts
    <3>8. ASSUME NEW i \in 1..(k + 1), NEW j \in 1..(k + 1), i < j
          PROVE  <<r[i], r[j]>> \in R
      <4>1. i \in 1..k /\ r[i] = s[i] /\ s[i] \in U
        BY <3>1, <3>6, <3>8 DEF Sorts
      <4>2. CASE j = k + 1
        BY <3>4, <4>1, <4>2
      <4>3. CASE j # k + 1
        <5>1. j \in 1..k /\ r[j] = s[j]
          BY <3>1, <4>3
        <5>2. QED
          BY <3>6, <3>8, <4>1, <5>1 DEF Sorts
      <4>4. QED
        BY <4>2, <4>3
    <3> HIDE DEF r
    <3>9. Sorts(r, k + 1, T, R)
      BY <3>7, <3>8 DEF Sorts
    <3>10. QED
      BY <3>9
  <2>2. k + 1 \in 0..N
    BY <1>1
  <2>3. QED
    BY <2>1, <2>2
<1>4. 0..N \subseteq G
  <2> HIDE DEF G, N
  <2>1. QED
    BY <1>1, <1>2, <1>3, AllUpTo
<1>5. N \in G
  BY <1>1, <1>4
<1>6. Good(N)
  BY <1>5
<1>7. QED
  BY <1>6

\* What is sorted has each element once.
LEMMA SortedIsWhole ==
  ASSUME NEW S, IsFiniteSet(S), NEW R, Orders(R, S), NEW s, Sorts(s, Cardinality(S), S, R)
  PROVE  \A f \in S : \E i \in 1..Cardinality(S) : s[i] = f
<1> DEFINE n == Cardinality(S)
<1>1. n \in Nat /\ IsFiniteSet(1..n) /\ Cardinality(1..n) = n
  BY FS_CardinalityType, FS_Interval
<1>2. ASSUME NEW i \in 1..n, NEW j \in 1..n, s[i] = s[j]
      PROVE  i = j
  <2>1. s[i] \in S
    BY DEF Sorts
  <2>2. ~(i < j) /\ ~(j < i)
    BY <1>2, <2>1 DEF Sorts, Orders
  <2>3. QED
    BY <1>1, <2>2
<1>3. s \in Injection(1..n, S)
  BY <1>2 DEF Sorts, Injection, IsInjective
<1>4. s \in Surjection(1..n, S)
  <2> HIDE DEF n
  <2>1. Cardinality(1..n) = Cardinality(S) <=> s \in Surjection(1..n, S)
    BY <1>3, FS_Injection
  <2>2. QED
    BY <1>1, <2>1 DEF n
<1>5. QED
  BY <1>4 DEF Surjection

-----------------------------------------------------------------------------
(* The sprite workspace: what its variables hold *)

\* The least of some numbers.
LEMMA MinOf ==
  ASSUME NEW S \in SUBSET Nat, S # {}
  PROVE  Min(S) \in S /\ \A x \in S : Min(S) <= x
<1>1. \E m \in S : \A x \in S : m <= x
  BY LeastNumber
<1>2. QED
  BY <1>1 DEF Min

\* The greatest of two numbers.
LEMMA MaxOfTwo ==
  ASSUME NEW a \in Nat, NEW b \in Nat
  PROVE  Max({a, b}) \in Nat /\ Max({a, b}) >= a /\ Max({a, b}) >= b
<1>1. \E m \in {a, b} : \A x \in {a, b} : m >= x
  <2>1. CASE a >= b
    BY <2>1
  <2>2. CASE ~(a >= b)
    BY <2>2
  <2>3. QED
    BY <2>1, <2>2
<1>2. QED
  BY <1>1 DEF Max

\* A frame of the workspace: a whole image or a cell of one, for a target.
SpriteFrames ==
  [target : Targets, image : Nat, cell : Nat, w : Nat, h : Nat, valid : BOOLEAN,
   ready : BOOLEAN, source : {"generated", "manual", "sheet"}]

\* What an operation that waits has read: the target of a request is the one
\* it was asked for.
JobTyped(j) ==
  /\ j.op \in {"generate", "import"} => j.target \in Targets /\ j.asked = j.target
  /\ j.op = "slice" => /\ j.image \in SpriteFrames
                       /\ j.grid \in (Nat \ {0}) \X (Nat \ {0})
                       /\ j.targets \in Seq(Targets) /\ j.targets # <<>>
  /\ j.op = "pack" => /\ j.frames \subseteq SpriteFrames /\ IsFiniteSet(j.frames)
                      /\ j.profile \in Profiles

SpriteTypes ==
  /\ profile \in Profiles /\ chosen \in Targets
  /\ images \in Seq(Targets \cup {0})
  /\ sheets \subseteq SpriteFrames /\ candidates \subseteq SpriteFrames
  /\ approved \subseteq SpriteFrames /\ IsFiniteSet(approved)
  /\ \A j \in jobs : JobTyped(j)

\* A frame that is a whole image has the number of an image that came.
OwnImages ==
  \A f \in candidates \cup approved :
    f.source # "sheet" => f.image \in 1..Len(images) /\ images[f.image] = f.target

SpriteInv == SpriteTypes /\ OwnImages

\* Targets are numbers, and a kind that is not on show has some on a profile.
LEMMA FacesOf ==
  ASSUME NEW p \in Profiles, NEW t \in Targets
  PROVE  /\ Targets \in SUBSET Nat
         /\ Min(p.faces \cap KindOf(t)) \in Targets
         /\ Min(p.faces \ KindOf(t)) \in Targets
         /\ Min(p.faces) \in Targets
<1>1. Targets \in SUBSET Nat /\ p.faces \in SUBSET Targets
  BY SpriteAssumption, ProfilesAssumption DEF Targets
<1>2. p.faces \cap KindOf(t) # {} /\ p.faces \ KindOf(t) # {}
  BY SpriteAssumption, ProfilesAssumption DEF KindOf, Targets
<1> DEFINE A == p.faces \cap KindOf(t)
           B == p.faces \ KindOf(t)
           C == p.faces
<1>3. A \in SUBSET Nat /\ B \in SUBSET Nat /\ C \in SUBSET Nat /\ A # {} /\ B # {} /\ C # {}
      /\ A \in SUBSET Targets /\ B \in SUBSET Targets /\ C \in SUBSET Targets
  BY <1>1, <1>2
<1> HIDE DEF A, B, C
<1>4. Min(A) \in A /\ Min(B) \in B /\ Min(C) \in C
  BY <1>3, MinOf
<1>5. Min(A) \in Targets /\ Min(B) \in Targets /\ Min(C) \in Targets
  BY <1>3, <1>4
<1>6. QED
  BY <1>1, <1>5 DEF A, B, C

\* The frames an image or a cell becomes.
LEMMA ArrivedTyped ==
  ASSUME SpriteTypes, NEW j \in jobs, j.op \in {"generate", "import"}, NEW picture \in Pictures
  PROVE  /\ Arrived(j, picture) \in SpriteFrames
         /\ Arrived(j, picture).image = Len(images) + 1
         /\ Arrived(j, picture).target = j.target
<1>1. picture.w \in Nat /\ picture.h \in Nat /\ picture.valid \in BOOLEAN /\ picture.ready \in BOOLEAN
  BY SpriteAssumption
<1>2. j.target \in Targets
  BY DEF SpriteTypes, JobTyped
<1>3. Len(images) + 1 \in Nat
  BY LenProperties DEF SpriteTypes
<1>4. QED
  BY <1>1, <1>2, <1>3 DEF Arrived, SpriteFrames

\* The cells of a sheet.
LEMMA CellsTyped ==
  ASSUME SpriteTypes, NEW j \in jobs, j.op = "slice"
  PROVE  /\ Cells(j) \subseteq SpriteFrames /\ IsFiniteSet(Cells(j))
         /\ \A f \in Cells(j) : f.source = "sheet"
<1>1. /\ j.image \in SpriteFrames /\ j.targets \in Seq(Targets)
      /\ j.grid[1] \in Nat \ {0} /\ j.grid[2] \in Nat \ {0}
  BY DEF SpriteTypes, JobTyped
<1> DEFINE a == j.grid[1] * j.grid[2]
           b == Len(j.targets)
           count == Min({a, b})
           cell(i) == [j.image EXCEPT !.target = j.targets[i], !.cell = i, !.source = "sheet",
                         !.w = @ \div j.grid[2], !.h = @ \div j.grid[1], !.valid = TRUE]
<1>2. a \in Nat /\ b \in Nat
  BY <1>1, LenProperties
<1>3. count \in Nat /\ count <= b
  <2> DEFINE S == {a, b}
  <2>1. S \in SUBSET Nat /\ S # {} /\ b \in S
    BY <1>2
  <2> HIDE DEF S, a, b
  <2>2. Min(S) \in S /\ Min(S) <= b
    BY <2>1, MinOf
  <2>3. QED
    BY <2>1, <2>2 DEF S
<1> HIDE DEF a, b, count
<1>4. ASSUME NEW i \in 1..count
      PROVE  cell(i) \in SpriteFrames /\ cell(i).source = "sheet"
  <2>1. i \in Nat /\ j.targets[i] \in Targets
    BY <1>1, <1>2, <1>3, LenProperties, ElementOfSeq DEF b
  <2>2. j.image.w \in Nat /\ j.image.h \in Nat
    BY <1>1 DEF SpriteFrames
  <2>3. j.image.w \div j.grid[2] \in Nat /\ j.image.h \div j.grid[1] \in Nat
    <3>1. \A x \in Nat, y \in Nat \ {0} : x \div y \in Nat
      OBVIOUS
    <3>2. QED
      BY <1>1, <2>2, <3>1
  <2>4. QED
    BY <1>1, <2>1, <2>3 DEF SpriteFrames
<1>5. Cells(j) = {cell(i) : i \in 1..count}
  BY DEF Cells, count, a, b
<1>6. IsFiniteSet(1..count)
  BY <1>3, FS_Interval
<1>7. IsFiniteSet({cell(i) : i \in 1..count})
  <2> DEFINE T == {cell(i) : i \in 1..count}
             g == [i \in 1..count |-> cell(i)]
  <2> HIDE DEF cell
  <2>1. g \in Surjection(1..count, T)
    BY DEF Surjection
  <2> HIDE DEF T, g
  <2>2. IsFiniteSet(T)
    BY <1>6, <2>1, FS_Surjection DEF ExistsSurjection
  <2>3. QED
    BY <2>2 DEF T
<1>8. QED
  <2> HIDE DEF cell
  <2>1. QED
    BY <1>4, <1>5, <1>7

\* Putting frames in the place of others.
LEMMA UpsertedTyped ==
  ASSUME SpriteTypes, NEW F, F \subseteq SpriteFrames, IsFiniteSet(F)
  PROVE  /\ Upserted(F) \subseteq SpriteFrames /\ IsFiniteSet(Upserted(F))
         /\ Upserted(F) \subseteq approved \cup F
<1> DEFINE K == {f \in approved : \A g \in F : g.target # f.target}
<1>1. K \in SUBSET approved /\ approved \subseteq SpriteFrames /\ IsFiniteSet(approved)
  BY DEF SpriteTypes
<1>2. Upserted(F) = K \cup F
  BY DEF Upserted
<1> HIDE DEF K
<1>3. IsFiniteSet(K)
  BY <1>1, FS_Subset
<1>4. IsFiniteSet(K \cup F)
  BY <1>3, FS_Union
<1>5. QED
  BY <1>1, <1>2, <1>4

\* What the invariant asks of the next state when no image comes.
LEMMA SpriteKept ==
  ASSUME SpriteInv, profile' \in Profiles, chosen' \in Targets, UNCHANGED images,
         sheets' \subseteq sheets, candidates' \subseteq candidates,
         approved' \subseteq SpriteFrames, IsFiniteSet(approved'),
         \A f \in approved' : f \in approved \cup candidates \/ f.source = "sheet",
         \A j \in jobs' : j \in jobs \/ JobTyped(j)
  PROVE  SpriteInv'
<1>1. SpriteTypes'
  BY DEF SpriteInv, SpriteTypes, JobTyped
<1>2. OwnImages'
  BY DEF SpriteInv, OwnImages
<1>3. QED
  BY <1>1, <1>2 DEF SpriteInv

\* The operations that start a job read what is on show.
LEMMA JobsStart ==
  ASSUME SpriteInv, UNCHANGED profile,
         \/ \E output, mod : GenerateSprite(output, mod)
         \/ \E output : ImportSprites(output)
         \/ \E s \in sheets, grid \in Grids, targets \in SheetTargets : SliceSheet(s, grid, targets)
         \/ PackSprites
  PROVE  SpriteInv'
<1>1. profile \in Profiles /\ chosen \in Targets
  BY DEF SpriteInv, SpriteTypes
<1> DEFINE Starts(j) == jobs' = jobs \cup {j} /\ JobTyped(j)
           Rest == UNCHANGED <<profile, chosen, sheets, candidates, approved, images>>
<1>2. ASSUME NEW output, NEW mod, GenerateSprite(output, mod)
      PROVE  Rest /\ \E j : Starts(j)
  <2> DEFINE j == [Job("generate") EXCEPT !.output = output, !.target = chosen]
  <2>1. JobTyped(j)
    BY <1>1 DEF JobTyped, Job
  <2>2. jobs' = jobs \cup {j} /\ Rest
    BY <1>2 DEF GenerateSprite, Start
  <2>3. QED
    BY <2>1, <2>2
<1>3. ASSUME NEW output, ImportSprites(output)
      PROVE  Rest /\ \E j : Starts(j)
  <2> DEFINE j == [Job("import") EXCEPT !.output = output, !.target = chosen]
  <2>1. JobTyped(j)
    BY <1>1 DEF JobTyped, Job
  <2>2. jobs' = jobs \cup {j} /\ Rest
    BY <1>3 DEF ImportSprites, Start
  <2>3. QED
    BY <2>1, <2>2
<1>4. ASSUME NEW s \in sheets, NEW grid \in Grids, NEW targets \in SheetTargets,
             SliceSheet(s, grid, targets)
      PROVE  Rest /\ \E j : Starts(j)
  <2> DEFINE j == [Job("slice") EXCEPT !.image = s, !.grid = grid, !.targets = targets]
  <2>1. s \in SpriteFrames /\ grid \in (Nat \ {0}) \X (Nat \ {0}) /\ targets \in Seq(Targets)
    BY SpriteAssumption DEF SpriteInv, SpriteTypes, Targets
  <2>2. targets # <<>>
    BY <1>4 DEF SliceSheet
  <2>3. JobTyped(j)
    BY <2>1, <2>2 DEF JobTyped, Job
  <2>4. jobs' = jobs \cup {j} /\ Rest
    BY <1>4 DEF SliceSheet, Start
  <2>5. QED
    BY <2>3, <2>4
<1>5. ASSUME PackSprites
      PROVE  Rest /\ \E j : Starts(j)
  <2> DEFINE j == [Job("pack") EXCEPT !.frames = approved]
  <2>1. approved \subseteq SpriteFrames /\ IsFiniteSet(approved)
    BY DEF SpriteInv, SpriteTypes
  <2>2. JobTyped(j)
    BY <1>1, <2>1 DEF JobTyped, Job
  <2>3. jobs' = jobs \cup {j} /\ Rest
    BY <1>5 DEF PackSprites, Start
  <2>4. QED
    BY <2>2, <2>3
<1>6. Rest /\ \E j : Starts(j)
  <2> HIDE DEF Rest, Starts
  <2>1. QED
    BY <1>2, <1>3, <1>4, <1>5
<1>7. \A j \in jobs' : j \in jobs \/ JobTyped(j)
  <2> HIDE DEF Rest
  <2>1. QED
    BY <1>6
<1>8. approved' \subseteq SpriteFrames /\ IsFiniteSet(approved')
  BY <1>6 DEF SpriteInv, SpriteTypes
<1>9. \A f \in approved' : f \in approved \cup candidates \/ f.source = "sheet"
  BY <1>6
<1>10. QED
  BY <1>1, <1>6, <1>7, <1>8, <1>9, SpriteKept

\* An image that arrives is a candidate for the target it was asked for.
LEMMA ArrivesOwn ==
  ASSUME SpriteInv, UNCHANGED profile, NEW j \in jobs, NEW picture \in Pictures,
         ImageArrives(j, picture)
  PROVE  SpriteInv'
<1> DEFINE new == Arrived(j, picture)
           n == Len(images)
           asked == IF j.output = "frame" THEN j.asked ELSE 0
<1>1. /\ j.op \in {"generate", "import"} /\ jobs' = jobs \ {j}
      /\ images' = Append(images, asked)
      /\ candidates' = (IF j.output = "frame" THEN candidates \cup {new} ELSE candidates)
      /\ sheets' = (IF j.output = "sheet" THEN sheets \cup {new} ELSE sheets)
      /\ UNCHANGED <<chosen, approved>>
  BY DEF ImageArrives
<1>2. new \in SpriteFrames /\ new.image = n + 1 /\ new.target = j.target
  BY <1>1, ArrivedTyped DEF SpriteInv
<1>3. j.target \in Targets /\ j.asked = j.target
  BY <1>1 DEF SpriteInv, SpriteTypes, JobTyped
<1>4. asked \in Targets \cup {0} /\ images \in Seq(Targets \cup {0}) /\ n \in Nat
  BY <1>3, LenProperties DEF SpriteInv, SpriteTypes
<1> HIDE DEF new
<1>5. /\ images' \in Seq(Targets \cup {0}) /\ Len(images') = n + 1
      /\ images'[n + 1] = asked /\ \A i \in 1..n : images'[i] = images[i]
  <2> DEFINE T == Targets \cup {0}
  <2>1. asked \in T /\ images \in Seq(T)
    BY <1>4
  <2> HIDE DEF T, asked
  <2>2. /\ Append(images, asked) \in Seq(T) /\ Len(Append(images, asked)) = n + 1
        /\ Append(images, asked)[n + 1] = asked
        /\ \A i \in 1..n : Append(images, asked)[i] = images[i]
    BY <2>1, AppendProperties
  <2>3. QED
    BY <1>1, <2>2 DEF T
<1>6. SpriteTypes'
  <2>1. profile' \in Profiles /\ chosen' \in Targets
    BY <1>1 DEF SpriteInv, SpriteTypes
  <2>2. sheets' \subseteq SpriteFrames /\ candidates' \subseteq SpriteFrames
    BY <1>1, <1>2 DEF SpriteInv, SpriteTypes
  <2>3. approved' \subseteq SpriteFrames /\ IsFiniteSet(approved')
    BY <1>1 DEF SpriteInv, SpriteTypes
  <2>4. \A k \in jobs' : JobTyped(k)
    BY <1>1 DEF SpriteInv, SpriteTypes
  <2>5. QED
    BY <1>5, <2>1, <2>2, <2>3, <2>4 DEF SpriteTypes, JobTyped
<1>7. ASSUME NEW f \in candidates' \cup approved', f.source # "sheet"
      PROVE  f.image \in 1..Len(images') /\ images'[f.image] = f.target
  <2>1. CASE f \in candidates \cup approved
    <3>1. f.image \in 1..n /\ images[f.image] = f.target
      BY <1>7, <2>1 DEF SpriteInv, OwnImages
    <3>2. QED
      BY <1>4, <1>5, <3>1
  <2>2. CASE f \notin candidates \cup approved
    <3>1. f = new /\ j.output = "frame"
      BY <1>1, <1>7, <2>2
    <3>2. asked = f.target
      BY <1>2, <1>3, <3>1
    <3>3. QED
      BY <1>2, <1>4, <1>5, <3>1, <3>2
  <2>3. QED
    BY <2>1, <2>2
<1>8. QED
  BY <1>6, <1>7 DEF SpriteInv, OwnImages

\* The other operations move, drop or replace frames.
LEMMA FramesMove ==
  ASSUME SpriteInv, UNCHANGED profile,
         \/ \E j \in jobs : ImageFails(j)
         \/ \E c \in candidates : ApproveSprite(c) \/ RejectSprite(c)
         \/ \E f \in approved : RemoveApproved(f.target)
         \/ \E s \in sheets : RemoveSheet(s)
         \/ ClearReferences
         \/ \E target \in profile.faces : SelectTarget(target)
         \/ SelectKind
         \/ \E j \in jobs, ok \in BOOLEAN : SheetLoads(j, ok) \/ PackAnswered(j, ok)
  PROVE  SpriteInv'
<1>1. SpriteTypes /\ profile \in Profiles /\ chosen \in Targets /\ approved \subseteq SpriteFrames
      /\ candidates \subseteq SpriteFrames /\ IsFiniteSet(approved)
  BY DEF SpriteInv, SpriteTypes
<1> DEFINE Less == /\ UNCHANGED images /\ sheets' \subseteq sheets /\ candidates' \subseteq candidates
                   /\ jobs' \subseteq jobs
           Mine(A) == /\ A \subseteq SpriteFrames /\ IsFiniteSet(A)
                      /\ \A f \in A : f \in approved \cup candidates \/ f.source = "sheet"
<1>2. ASSUME NEW A, A \subseteq approved
      PROVE  Mine(A)
  BY <1>1, <1>2, FS_Subset
<1>3. ASSUME NEW j \in jobs, ImageFails(j)
      PROVE  Less /\ Mine(approved') /\ chosen' \in Targets
  BY <1>1, <1>2, <1>3 DEF ImageFails
<1>4. ASSUME NEW c \in candidates, ApproveSprite(c)
      PROVE  Less /\ Mine(approved') /\ chosen' \in Targets
  <2>1. approved' = Upserted({c}) /\ Less /\ chosen' = chosen
    BY <1>4 DEF ApproveSprite
  <2>2. {c} \subseteq SpriteFrames /\ IsFiniteSet({c})
    BY <1>1, FS_Singleton
  <2> DEFINE F == {c}
  <2>3. F \subseteq SpriteFrames /\ IsFiniteSet(F) /\ F \subseteq candidates
    BY <2>2
  <2> HIDE DEF F
  <2>4. Upserted(F) \subseteq SpriteFrames /\ IsFiniteSet(Upserted(F)) /\ Upserted(F) \subseteq approved \cup F
    BY <1>1, <2>3, UpsertedTyped
  <2>5. Mine(Upserted(F))
    BY <2>3, <2>4
  <2>6. QED
    BY <1>1, <2>1, <2>5 DEF F
<1>5. ASSUME NEW c \in candidates, RejectSprite(c)
      PROVE  Less /\ Mine(approved') /\ chosen' \in Targets
  BY <1>1, <1>2, <1>5 DEF RejectSprite
<1>6. ASSUME NEW f \in approved, RemoveApproved(f.target)
      PROVE  Less /\ Mine(approved') /\ chosen' \in Targets
  <2>1. approved' \subseteq approved /\ Less /\ chosen' = chosen
    BY <1>6 DEF RemoveApproved
  <2>2. QED
    BY <1>1, <1>2, <2>1
<1>7. ASSUME NEW s \in sheets, RemoveSheet(s)
      PROVE  Less /\ Mine(approved') /\ chosen' \in Targets
  BY <1>1, <1>2, <1>7 DEF RemoveSheet
<1>8. ASSUME ClearReferences
      PROVE  Less /\ Mine(approved') /\ chosen' \in Targets
  BY <1>1, <1>2, <1>8 DEF ClearReferences
<1>9. ASSUME NEW target \in profile.faces, SelectTarget(target)
      PROVE  Less /\ Mine(approved') /\ chosen' \in Targets
  <2>1. target \in Targets
    BY <1>1, ProfilesAssumption
  <2>2. QED
    BY <1>1, <1>2, <1>9, <2>1 DEF SelectTarget
<1>10. ASSUME SelectKind
       PROVE  Less /\ Mine(approved') /\ chosen' \in Targets
  <2>1. Min(profile.faces \ KindOf(chosen)) \in Targets
    BY <1>1, FacesOf
  <2>2. QED
    BY <1>1, <1>2, <1>10, <2>1 DEF SelectKind
<1>11. ASSUME NEW j \in jobs, NEW ok \in BOOLEAN, SheetLoads(j, ok)
       PROVE  Less /\ Mine(approved') /\ chosen' \in Targets
  <2>1. j.op = "slice" /\ Less /\ chosen' = chosen
        /\ (approved' = Upserted(Cells(j)) \/ approved' = approved)
    BY <1>11 DEF SheetLoads
  <2>2. PICK F : F = Cells(j)
    OBVIOUS
  <2>3. F \subseteq SpriteFrames /\ IsFiniteSet(F) /\ \A f \in F : f.source = "sheet"
    BY <1>1, <2>1, <2>2, CellsTyped
  <2>4. Upserted(F) \subseteq SpriteFrames /\ IsFiniteSet(Upserted(F)) /\ Upserted(F) \subseteq approved \cup F
    BY <1>1, <2>3, UpsertedTyped
  <2>5. Mine(Upserted(F))
    BY <2>3, <2>4
  <2>6. QED
    BY <1>1, <1>2, <2>1, <2>2, <2>5
<1>12. ASSUME NEW j \in jobs, NEW ok \in BOOLEAN, PackAnswered(j, ok)
       PROVE  Less /\ Mine(approved') /\ chosen' \in Targets
  BY <1>1, <1>2, <1>12 DEF PackAnswered
<1>13. Less /\ Mine(approved') /\ chosen' \in Targets
  <2> HIDE DEF Less, Mine
  <2>1. QED
    BY <1>3, <1>4, <1>5, <1>6, <1>7, <1>8, <1>9, <1>10, <1>11, <1>12
<1>14. QED
  BY <1>1, <1>13, SpriteKept

\* The operations of the workspace together.
LEMMA SpriteStep ==
  ASSUME SpriteInv, SpriteNext
  PROVE  SpriteInv'
<1>1. UNCHANGED profile
  BY DEF SpriteNext
<1>2. CASE \E j \in jobs, picture \in Pictures : ImageArrives(j, picture)
  BY <1>1, <1>2, ArrivesOwn
<1>3. CASE ~\E j \in jobs, picture \in Pictures : ImageArrives(j, picture)
  BY <1>1, <1>3, JobsStart, FramesMove DEF SpriteNext
<1>4. QED
  BY <1>2, <1>3

\* The page draws the workspace again, perhaps for another profile.
LEMMA SpriteDrawn ==
  ASSUME SpriteInv, profile' \in Profiles, ProfileRendered \/ UNCHANGED spriteVars
  PROVE  SpriteInv'
<1>1. chosen \in Targets /\ approved \subseteq SpriteFrames /\ IsFiniteSet(approved)
  BY DEF SpriteInv, SpriteTypes
<1>2. PICK p \in Profiles : p = profile'
  OBVIOUS
<1>3. Min(p.faces \cap KindOf(chosen)) \in Targets
  BY <1>1, FacesOf
<1>4. UNCHANGED <<images, sheets, candidates, approved, jobs>> /\ chosen' \in Targets
  BY <1>1, <1>2, <1>3 DEF ProfileRendered, spriteVars
<1>5. QED
  BY <1>1, <1>4, SpriteKept

\* What a step of the page is to the workspace.
LEMMA StepForSprites ==
  ASSUME [Next]_vars, profile \in Profiles
  PROVE  \/ SpriteNext
         \/ profile' \in Profiles /\ (ProfileRendered \/ UNCHANGED spriteVars)
<1>1. CASE UNCHANGED vars
  BY <1>1 DEF vars
<1>2. CASE Play \/ Stop \/ Animate
  BY <1>2 DEF Play, Stop, Animate, Tick
<1>3. CASE \/ \E i \in 1..MaxFrames : SelectFrame(i)
           \/ \E id \in DOMAIN library : SelectBehavior(id)
           \/ \E file \in Files : ImportFile(file)
  BY <1>3 DEF SelectFrame, SelectBehavior, ImportFile
<1>4. ASSUME NEW frames, NEW i, Update(frames, i)
      PROVE  UNCHANGED <<profile, spriteVars>>
  BY <1>4 DEF Update
<1>5. CASE \/ AddFrame \/ DuplicateFrame \/ DeleteFrame \/ Rename
           \/ \E at \in Times, dur \in Times : UpdateTiming(at, dur)
           \/ \E k \in Outputs, v \in LookValues : UpdateLook(k, v)
           \/ \E j \in editor.joints, v \in JointValues : UpdateJoint(j, v)
  <2>1. UNCHANGED <<profile, spriteVars>>
    BY <1>4, <1>5 DEF AddFrame, DuplicateFrame, Inserted, DeleteFrame, Rename, UpdateTiming,
                      UpdateLook, UpdateJoint, UpdateFrame
  <2>2. QED
    BY <2>1
<1>6. ASSUME NEW id, NEW frames, Added(id, frames)
      PROVE  UNCHANGED profile /\ ProfileRendered
  BY <1>6 DEF Added
<1>7. CASE (\E id \in Ids : NewBehavior(id) \/ DuplicateBehavior(id)) \/ DeleteBehavior
  <2>1. UNCHANGED profile /\ ProfileRendered
    BY <1>6, <1>7 DEF NewBehavior, DuplicateBehavior, DeleteBehavior
  <2>2. QED
    BY <2>1
<1>8. CASE \E p \in Profiles : SelectProfile(p)
  BY <1>8 DEF SelectProfile
<1>9. CASE \/ \E m \in {"mock", "live"} : SelectMode(m)
           \/ \E u \in {"good", "bad", "empty"} : SetUrl(u)
  BY <1>9 DEF SelectMode, SetUrl
<1>10. CASE Connect \/ Disconnect \/ SendTypedTurn \/ Ping \/ Interrupt
  BY <1>10 DEF Connect, Disconnect, SendTypedTurn, Ping, Interrupt
<1>11. CASE \/ \E i \in DOMAIN clients : MockTimer(i)
            \/ \E s \in DOMAIN sockets : SocketOpens(s)
            \/ \E s \in DOMAIN sockets, error \in BOOLEAN : SocketEnds(s, error)
            \/ \E s \in DOMAIN sockets, kind \in HubFrames : SocketMessage(s, kind)
  BY <1>11 DEF MockTimer, SocketOpens, SocketEnds, SocketMessage
<1>12. CASE Sprites
  BY <1>12 DEF Sprites
<1>13. QED
  BY <1>1, <1>2, <1>3, <1>5, <1>7, <1>8, <1>9, <1>10, <1>11, <1>12 DEF Next

\* The invariant of the workspace holds.
LEMMA SpriteInvHolds == Spec => []SpriteInv
<1>1. Init => SpriteInv
  <2> SUFFICES ASSUME Init
                 PROVE  SpriteInv
    OBVIOUS
  <2>2. profile \in Profiles /\ SpriteInit
    BY ProfilesAssumption DEF Init
  <2>3. \A t \in Targets : Min(profile.faces) \in Targets
    BY <2>2, FacesOf
  <2>4. \E t : t \in Targets
    BY <2>2, ProfilesAssumption
  <2>5. chosen \in Targets
    BY <2>2, <2>3, <2>4 DEF SpriteInit
  <2>6. images = <<>> /\ sheets = {} /\ candidates = {} /\ approved = {} /\ jobs = {}
    BY <2>2 DEF SpriteInit
  <2>7. IsFiniteSet(approved)
    BY <2>6, FS_EmptySet
  <2>8. QED
    BY <2>2, <2>5, <2>6, <2>7 DEF SpriteInv, SpriteTypes, OwnImages
<1>2. SpriteInv /\ [Next]_vars => SpriteInv'
  <2> SUFFICES ASSUME SpriteInv, [Next]_vars
                 PROVE  SpriteInv'
    OBVIOUS
  <2>2. profile \in Profiles
    BY DEF SpriteInv, SpriteTypes
  <2>3. QED
    BY <2>2, StepForSprites, SpriteStep, SpriteDrawn
<1>3. QED
  BY <1>1, <1>2, PTL DEF Spec

\* A candidate stands for the target that was selected when it was asked for,
\* however the selection changed while it was generated or read, and so does an
\* approved frame that is not cut from a sheet (main.ts generateSprite,
\* importSprites, approveSprite).
THEOREM ImagesKeepTargets == Spec => []ImagesKeepTheirTarget
<1>1. SpriteInv => ImagesKeepTheirTarget
  BY DEF SpriteInv, OwnImages, ImagesKeepTheirTarget
<1>2. QED
  BY <1>1, SpriteInvHolds, PTL

-----------------------------------------------------------------------------
(* The packer *)

Placements == [frame : SpriteFrames, x : Nat, y : Nat]
Cursors == [x : Nat, y : Nat, row : Nat, placed : Seq(Placements)]

\* The cursor after the first n frames of a list: they are placed as they stand
\* there, inside the width, above the end of the row, apart from each other, and
\* those of the row end before the cursor.
Laid(at, order, n, width) ==
  /\ at \in Cursors /\ Len(at.placed) = n
  /\ \A i \in 1..n :
       /\ at.placed[i].frame = order[i]
       /\ at.placed[i].x + at.placed[i].frame.w <= width
       /\ at.placed[i].y + at.placed[i].frame.h <= at.y + at.row
       /\ \/ at.placed[i].y + at.placed[i].frame.h <= at.y
          \/ at.placed[i].y = at.y /\ at.placed[i].x + at.placed[i].frame.w <= at.x
  /\ \A i, j \in 1..n : i # j => Apart(at.placed[i], at.placed[j])

\* Before the first frame.
LEMMA NothingLaid ==
  ASSUME NEW order, NEW width
  PROVE  Laid(NoFrames, order, 0, width)
<1>1. <<>> \in Seq(Placements) /\ Len(<<>>) = 0
  BY EmptySeq
<1>2. QED
  BY <1>1 DEF Laid, NoFrames, Cursors

\* One more frame.
LEMMA FrameLaid ==
  ASSUME NEW order \in Seq(SpriteFrames), NEW width \in Nat, NEW n \in 0..(Len(order) - 1),
         \A i \in 1..Len(order) : order[i].w <= width,
         NEW at, Laid(at, order, n, width)
  PROVE  Laid(PlaceFrame(at, order[n + 1], width), order, n + 1, width)
<1>1. n \in Nat /\ n + 1 \in 1..Len(order)
  BY LenProperties
<1>2. PICK f : f = order[n + 1]
  OBVIOUS
<1>3. f \in SpriteFrames /\ f.w \in Nat /\ f.h \in Nat /\ f.w <= width
  <2>1. f \in SpriteFrames
    BY <1>1, <1>2, ElementOfSeq
  <2>2. QED
    BY <1>1, <1>2, <2>1 DEF SpriteFrames
<1>4. at.x \in Nat /\ at.y \in Nat /\ at.row \in Nat /\ at.placed \in Seq(Placements) /\ Len(at.placed) = n
  BY DEF Laid, Cursors
<1> DEFINE wrap == at.x > 0 /\ at.x + f.w > width
           x == IF wrap THEN 0 ELSE at.x
           y == IF wrap THEN at.y + at.row ELSE at.y
           row == Max({f.h, IF wrap THEN 0 ELSE at.row})
           new == [frame |-> f, x |-> x, y |-> y]
           next == PlaceFrame(at, f, width)
           all == Append(at.placed, new)
<1>5. next = [x |-> x + f.w, y |-> y, row |-> row, placed |-> all]
  BY DEF PlaceFrame
<1>6. x \in Nat /\ y \in Nat /\ x + f.w <= width
  BY <1>3, <1>4
<1>7. row \in Nat /\ row >= f.h /\ (~wrap => row >= at.row)
  <2>1. PICK r \in Nat : r = IF wrap THEN 0 ELSE at.row
    BY <1>4
  <2>2. PICK h \in Nat : h = f.h
    BY <1>3
  <2>3. Max({h, r}) \in Nat /\ Max({h, r}) >= h /\ Max({h, r}) >= r
    BY MaxOfTwo
  <2>4. row = Max({h, r})
    BY <2>1, <2>2
  <2>5. QED
    BY <2>1, <2>2, <2>3, <2>4
<1> HIDE DEF row, next
<1>8. new \in Placements
  BY <1>3, <1>6 DEF Placements
<1>9. new.frame = f /\ new.x = x /\ new.y = y
  OBVIOUS
<1> HIDE DEF new
<1>10. all \in Seq(Placements) /\ Len(all) = n + 1 /\ all[n + 1] = new
       /\ \A i \in 1..n : all[i] = at.placed[i]
  BY <1>4, <1>8, AppendProperties
<1> HIDE DEF all
<1>11. next \in Cursors /\ next.x = x + f.w /\ next.y = y /\ next.row = row /\ next.placed = all
  BY <1>3, <1>5, <1>6, <1>7, <1>10 DEF Cursors
<1>12. ASSUME NEW i \in 1..n
       PROVE  /\ all[i].frame = order[i] /\ all[i].x + all[i].frame.w <= width
              /\ all[i].y + all[i].frame.h <= y + row
              /\ \/ all[i].y + all[i].frame.h <= y
                 \/ all[i].y = y /\ all[i].x + all[i].frame.w <= x + f.w
              /\ Apart(all[i], new) /\ Apart(new, all[i])
  <2>1. PICK p : p = at.placed[i]
    OBVIOUS
  <2>2. p \in Placements /\ all[i] = p
    BY <1>4, <1>10, <2>1, ElementOfSeq
  <2>3. p.x \in Nat /\ p.y \in Nat /\ p.frame.w \in Nat /\ p.frame.h \in Nat
    BY <2>2 DEF Placements, SpriteFrames
  <2>4. /\ p.frame = order[i] /\ p.x + p.frame.w <= width
        /\ p.y + p.frame.h <= at.y + at.row
        /\ \/ p.y + p.frame.h <= at.y
           \/ p.y = at.y /\ p.x + p.frame.w <= at.x
    BY <2>1 DEF Laid
  <2> DEFINE a == p.x + p.frame.w
             b == p.y + p.frame.h
  <2>5. a \in Nat /\ b \in Nat
    BY <2>3
  <2>6. CASE wrap
    <3>1. x = 0 /\ y = at.y + at.row /\ b <= y
      BY <2>4, <2>6
    <3>2. b <= y + row
      BY <1>6, <1>7, <2>5, <3>1
    <3>3. Apart(p, new) /\ Apart(new, p)
      BY <1>9, <3>1 DEF Apart
    <3>4. QED
      BY <2>2, <2>4, <3>1, <3>2, <3>3
  <2>7. CASE ~wrap
    <3>1. x = at.x /\ y = at.y /\ row >= at.row
      BY <1>7, <2>7
    <3>2. b <= y \/ (p.y = y /\ a <= x)
      BY <2>4, <3>1
    <3>3. b <= y + row
      BY <1>4, <1>6, <1>7, <2>4, <2>5, <3>1
    <3>4. Apart(p, new) /\ Apart(new, p)
      BY <1>9, <3>2 DEF Apart
    <3>5. b <= y \/ (p.y = y /\ a <= x + f.w)
      BY <1>3, <1>6, <2>5, <3>2
    <3>6. QED
      BY <2>2, <2>4, <3>3, <3>4, <3>5
  <2>8. QED
    BY <2>6, <2>7
<1>13. all[n + 1].frame = order[n + 1] /\ all[n + 1].x + all[n + 1].frame.w <= width
       /\ all[n + 1].y + all[n + 1].frame.h <= y + row
       /\ all[n + 1].y = y /\ all[n + 1].x + all[n + 1].frame.w <= x + f.w
  <2> HIDE DEF x, y
  <2>1. all[n + 1].frame = f /\ all[n + 1].x = x /\ all[n + 1].y = y
    BY <1>9, <1>10
  <2>2. y + f.h <= y + row /\ x + f.w <= x + f.w
    BY <1>3, <1>6, <1>7
  <2>3. QED
    BY <1>2, <1>6, <2>1, <2>2
<1>14. ASSUME NEW i \in 1..(n + 1), NEW j \in 1..(n + 1), i # j
       PROVE  Apart(all[i], all[j])
  <2>1. CASE i \in 1..n /\ j \in 1..n
    <3>1. Apart(at.placed[i], at.placed[j])
      BY <1>14, <2>1 DEF Laid
    <3>2. QED
      BY <1>10, <2>1, <3>1
  <2>2. CASE i = n + 1
    BY <1>1, <1>10, <1>12, <1>14, <2>2
  <2>3. CASE j = n + 1
    BY <1>1, <1>10, <1>12, <1>14, <2>3
  <2>4. QED
    BY <1>1, <2>1, <2>2, <2>3
<1>15. ASSUME NEW i \in 1..(n + 1)
       PROVE  /\ all[i].frame = order[i] /\ all[i].x + all[i].frame.w <= width
              /\ all[i].y + all[i].frame.h <= y + row
              /\ \/ all[i].y + all[i].frame.h <= y
                 \/ all[i].y = y /\ all[i].x + all[i].frame.w <= x + f.w
  <2>1. i \in 1..n \/ i = n + 1
    BY <1>1
  <2> HIDE DEF x, y
  <2>2. QED
    BY <2>1, <1>12, <1>13
<1>16. Laid(next, order, n + 1, width)
  <2> HIDE DEF x, y
  <2>1. QED
    BY <1>10, <1>11, <1>14, <1>15 DEF Laid
<1>17. QED
  BY <1>2, <1>16 DEF next

\* There is a function that the recursion of the packer describes.
Row(order, width, after, n) ==
  IF n = 0 THEN NoFrames ELSE PlaceFrame(after[n - 1], order[n], width)

\* Of the first N steps of the packer there is a record.
LEMMA RowsExist ==
  ASSUME NEW order, NEW N \in Nat, NEW width
  PROVE  \E after : /\ DOMAIN after = 0..N
                    /\ \A n \in 0..N : after[n] = Row(order, width, after, n)
<1> DEFINE Good(k) == \E after : /\ DOMAIN after = 0..k
                                 /\ \A n \in 0..k : after[n] = Row(order, width, after, n)
           S == {k \in 0..N : Good(k)}
<1>1. 0 \in S
  <2> DEFINE first == [n \in 0..0 |-> NoFrames]
  <2>1. DOMAIN first = 0..0 /\ \A n \in 0..0 : first[n] = NoFrames /\ n = 0
    OBVIOUS
  <2> HIDE DEF first
  <2>2. \A n \in 0..0 : first[n] = Row(order, width, first, n)
    BY <2>1 DEF Row
  <2>3. Good(0)
    BY <2>1, <2>2
  <2>4. QED
    BY <2>3
<1>2. ASSUME NEW k \in 0..(N - 1), k \in S
      PROVE  k + 1 \in S
  <2>1. PICK after : /\ DOMAIN after = 0..k
                     /\ \A n \in 0..k : after[n] = Row(order, width, after, n)
    BY <1>2
  <2> DEFINE last == PlaceFrame(after[k], order[k + 1], width)
             more == [n \in 0..(k + 1) |-> IF n = k + 1 THEN last ELSE after[n]]
  <2>2. ASSUME NEW n \in 0..(k + 1)
        PROVE  more[n] = Row(order, width, more, n)
    <3>1. CASE n = k + 1
      <4>1. more[n] = last /\ more[n - 1] = after[k] /\ n # 0
        BY <3>1
      <4>2. QED
        BY <3>1, <4>1 DEF Row
    <3>2. CASE n # k + 1
      <4>1. n \in 0..k /\ more[n] = after[n] /\ (n # 0 => more[n - 1] = after[n - 1])
        BY <3>2
      <4>2. QED
        BY <2>1, <4>1 DEF Row
    <3>3. QED
      BY <3>1, <3>2
  <2>3. DOMAIN more = 0..(k + 1)
    OBVIOUS
  <2> HIDE DEF more
  <2>4. Good(k + 1)
    BY <2>2, <2>3
  <2>5. k + 1 \in 0..N
    OBVIOUS
  <2>6. QED
    BY <2>4, <2>5
<1>3. 0..N \subseteq S
  <2> HIDE DEF S
  <2>1. QED
    BY <1>1, <1>2, AllUpTo
<1>4. N \in S
  BY <1>3
<1>5. QED
  BY <1>4

\* What the packer places.
LEMMA FramesPlaced ==
  ASSUME NEW order \in Seq(SpriteFrames), NEW width \in Nat,
         \A i \in 1..Len(order) : order[i].w <= width
  PROVE  Laid(PlaceFrames(order, width), order, Len(order), width)
<1> DEFINE N == Len(order)
           Body(g) == [n \in 0..N |-> IF n = 0 THEN NoFrames ELSE PlaceFrame(g[n - 1], order[n], width)]
           after == CHOOSE g : g = Body(g)
<1>1. N \in Nat
  BY LenProperties
<1>2. PICK g : DOMAIN g = 0..N /\ \A n \in 0..N : g[n] = Row(order, width, g, n)
  <2> HIDE DEF N
  <2>1. QED
    BY <1>1, RowsExist
<1>3. PICK h : h = [n \in 0..N |-> g[n]]
  OBVIOUS
<1>4. h = Body(h)
  <2>1. \A n \in 0..N : h[n] = g[n]
    BY <1>3
  <2>2. \A n \in 0..N : h[n] = IF n = 0 THEN NoFrames ELSE PlaceFrame(h[n - 1], order[n], width)
    <3> SUFFICES ASSUME NEW n \in 0..N
                 PROVE  h[n] = IF n = 0 THEN NoFrames ELSE PlaceFrame(h[n - 1], order[n], width)
      OBVIOUS
    <3>1. n # 0 => n - 1 \in 0..N
      BY <1>1
    <3>2. h[n] = Row(order, width, g, n)
      BY <1>2, <2>1
    <3>3. QED
      BY <2>1, <3>1, <3>2 DEF Row
  <2>3. h = [n \in 0..N |-> h[n]]
    BY <1>3
  <2> HIDE DEF N
  <2>4. QED
    BY <2>2, <2>3
<1>5. after = Body(after)
  BY <1>4
<1>6. PlaceFrames(order, width) = after[N]
  BY DEF PlaceFrames
<1> HIDE DEF after
<1>7. \A n \in 0..N : after[n] = Row(order, width, after, n)
  BY <1>5 DEF Row
<1>8. Laid(after[N], order, N, width)
  <2> DEFINE S == {n \in 0..N : Laid(after[n], order, n, width)}
  <2>1. 0 \in S
    <3>1. 0 \in 0..N /\ after[0] = NoFrames
      BY <1>1, <1>7 DEF Row
    <3>2. QED
      BY <3>1, NothingLaid
  <2>2. ASSUME NEW k \in 0..(N - 1), k \in S
        PROVE  k + 1 \in S
    <3>1. k + 1 \in 0..N /\ k + 1 # 0 /\ (k + 1) - 1 = k
      BY <1>1
    <3>2. after[k + 1] = PlaceFrame(after[k], order[k + 1], width)
      BY <1>7, <3>1 DEF Row
    <3>3. Laid(after[k], order, k, width)
      BY <2>2
    <3>4. PICK at : at = after[k]
      OBVIOUS
    <3>5. Laid(PlaceFrame(at, order[k + 1], width), order, k + 1, width)
      BY <3>3, <3>4, FrameLaid
    <3>6. QED
      BY <3>1, <3>2, <3>4, <3>5
  <2>3. 0..N \subseteq S
    <3> HIDE DEF S, N
    <3>1. QED
      BY <1>1, <2>1, <2>2, AllUpTo
  <2>4. QED
    BY <1>1, <2>3
<1>9. QED
  BY <1>6, <1>8

\* The order of the packer is one.
Earlier(f, g) ==
  LET kind(h) == IF h.target \in Expressions THEN 0 ELSE 1
  IN  kind(f) < kind(g) \/ (kind(f) = kind(g) /\ f.target < g.target)
EarlierPairs(F) == {p \in F \X F : Earlier(p[1], p[2])}

\* Frames with targets of their own are ordered by it.
LEMMA EarlierOrders ==
  ASSUME NEW F, F \subseteq SpriteFrames, \A f, g \in F : f.target = g.target => f = g
  PROVE  Orders(EarlierPairs(F), F)
<1>1. \A f \in F : f.target \in Nat
  BY SpriteAssumption DEF SpriteFrames, Targets
<1>2. \A f, g \in F : <<f, g>> \in EarlierPairs(F) <=> Earlier(f, g)
  BY DEF EarlierPairs
<1>3. \A f \in F : ~Earlier(f, f)
  BY <1>1 DEF Earlier
<1>4. \A f, g \in F : f # g => Earlier(f, g) \/ Earlier(g, f)
  BY <1>1 DEF Earlier
<1>5. \A f, g, h \in F : Earlier(f, g) /\ Earlier(g, h) => Earlier(f, h)
  BY <1>1 DEF Earlier
<1>6. QED
  BY <1>2, <1>3, <1>4, <1>5 DEF Orders

\* The packer's list has each frame once.
LEMMA PackOrderWhole ==
  ASSUME NEW F, F \subseteq SpriteFrames, IsFiniteSet(F),
         \A f, g \in F : f.target = g.target => f = g
  PROVE  /\ PackOrder(F) \in Seq(SpriteFrames) /\ Len(PackOrder(F)) = Cardinality(F)
         /\ \A i \in 1..Cardinality(F) : PackOrder(F)[i] \in F
         /\ \A f \in F : \E i \in 1..Cardinality(F) : PackOrder(F)[i] = f
<1> DEFINE N == Cardinality(F)
           R == EarlierPairs(F)
           s == PackOrder(F)
<1>1. N \in Nat
  BY FS_CardinalityType
<1>2. Orders(R, F)
  BY EarlierOrders
<1>3. \E r \in [1..N -> F] : \A i, j \in DOMAIN r : i < j => Earlier(r[i], r[j])
  <2>1. PICK r : Sorts(r, N, F, R)
    <3> HIDE DEF R
    <3>1. QED
      BY <1>2, SortedExists
  <2>2. QED
    BY <2>1 DEF Sorts, EarlierPairs
<1>4. s \in [1..N -> F] /\ \A i, j \in DOMAIN s : i < j => Earlier(s[i], s[j])
  BY <1>3 DEF PackOrder, Earlier
<1> HIDE DEF s
<1>5. Sorts(s, N, F, R)
  BY <1>4 DEF Sorts, EarlierPairs
<1>6. \A f \in F : \E i \in 1..N : s[i] = f
  <2> HIDE DEF R
  <2>1. QED
    BY <1>2, <1>5, SortedIsWhole
<1>7. s \in Seq(SpriteFrames) /\ Len(s) = N
  <2>1. s \in [1..N -> SpriteFrames]
    BY <1>4
  <2>2. QED
    BY <1>1, <2>1, LenProperties
<1>8. QED
  BY <1>4, <1>6, <1>7 DEF s

\* What is said of an atlas beside what it is of.
Layout(pack) ==
  /\ Len(pack.placed) = Cardinality(pack.frames)
  /\ {at.frame : at \in ToSet(pack.placed)} = pack.frames
  /\ \A at \in ToSet(pack.placed) :
       /\ at.x + at.frame.w <= pack.width
       /\ at.y + at.frame.h <= pack.height
       /\ \A other \in ToSet(pack.placed) \ {at} : Apart(at, other)

\* What the packer answers is such an atlas.
LEMMA PackedLayout ==
  ASSUME NEW F, F \subseteq SpriteFrames, IsFiniteSet(F), NEW p \in Profiles, Packable(F, p)
  PROVE  Packed(F, p).frames = F /\ Layout(Packed(F, p))
<1> DEFINE N == Cardinality(F)
           order == PackOrder(F)
           width == p.width
           end == PlaceFrames(order, width)
           pack == Packed(F, p)
           height == Max({1, end.y + end.row})
<1>1. /\ order \in Seq(SpriteFrames) /\ Len(order) = N
      /\ \A i \in 1..N : order[i] \in F
      /\ \A f \in F : \E i \in 1..N : order[i] = f
  BY PackOrderWhole DEF Packable
<1>2. width \in Nat /\ N \in Nat
  BY ProfilesAssumption, FS_CardinalityType
<1>3. \A i \in 1..Len(order) : order[i].w <= width
  BY <1>1 DEF Packable
<1>4. pack = [frames |-> F, changed |-> FALSE, placed |-> end.placed, width |-> width, height |-> height]
  BY DEF Packed
<1> HIDE DEF order, width
<1>5. Laid(end, order, N, width)
  BY <1>1, <1>2, <1>3, FramesPlaced
<1> HIDE DEF end, pack
<1>6. end.placed \in Seq(Placements) /\ Len(end.placed) = N /\ end.y \in Nat /\ end.row \in Nat
  BY <1>5 DEF Laid, Cursors
<1>7. height \in Nat /\ end.y + end.row <= height
  <2>1. PICK h \in Nat : h = end.y + end.row
    BY <1>6
  <2>2. Max({1, h}) \in Nat /\ h <= Max({1, h})
    BY MaxOfTwo
  <2>3. QED
    BY <2>1, <2>2
<1> HIDE DEF height
<1>8. PICK q : q = end.placed
  OBVIOUS
<1>9. DOMAIN q = 1..N /\ ToSet(q) = {q[i] : i \in 1..N}
  BY <1>6, <1>8, LenProperties DEF ToSet
<1>10. \A i \in 1..N : q[i] \in Placements /\ q[i].frame = order[i]
  BY <1>5, <1>6, <1>8, ElementOfSeq DEF Laid
<1>11. {at.frame : at \in ToSet(q)} = F
  BY <1>1, <1>9, <1>10
<1>12. ASSUME NEW i \in 1..N
       PROVE  q[i].x + q[i].frame.w <= width /\ q[i].y + q[i].frame.h <= height
  <2>1. q[i].x + q[i].frame.w <= width /\ q[i].y + q[i].frame.h <= end.y + end.row
    BY <1>5, <1>8 DEF Laid
  <2>2. q[i].y \in Nat /\ q[i].frame.h \in Nat
    BY <1>10 DEF Placements, SpriteFrames
  <2>3. QED
    BY <1>6, <1>7, <2>1, <2>2
<1>13. ASSUME NEW i \in 1..N, NEW j \in 1..N, q[i] # q[j]
       PROVE  Apart(q[i], q[j])
  BY <1>5, <1>8, <1>13 DEF Laid
<1>14. ASSUME NEW at \in ToSet(q)
       PROVE  /\ at.x + at.frame.w <= width /\ at.y + at.frame.h <= height
              /\ \A other \in ToSet(q) \ {at} : Apart(at, other)
  <2>1. PICK i \in 1..N : at = q[i]
    BY <1>9
  <2>2. ASSUME NEW other \in ToSet(q) \ {at}
        PROVE  Apart(at, other)
    <3>1. PICK j \in 1..N : other = q[j]
      BY <1>9
    <3>2. q[i] # q[j]
      BY <2>1, <3>1
    <3>3. QED
      BY <1>13, <2>1, <3>1, <3>2
  <2>3. QED
    BY <1>12, <2>1, <2>2
<1>15. pack.frames = F /\ pack.placed = q /\ pack.width = width /\ pack.height = height /\ Len(q) = N
  BY <1>4, <1>6, <1>8
<1>16. Layout(pack)
  BY <1>11, <1>14, <1>15 DEF Layout
<1>17. QED
  BY <1>15, <1>16 DEF pack

\* The invariant, by what it says of the atlas.
LEMMA AtlasBy ==
  AtlasIsOfApproved <=> (lastPack # NoPack => /\ lastPack.changed \/ lastPack.frames = approved
                                              /\ Layout(lastPack))
BY DEF AtlasIsOfApproved, Layout

\* The answer to a pack.
LEMMA AtlasAnswered ==
  ASSUME SpriteTypes, AtlasIsOfApproved, NEW j \in jobs, NEW ok \in BOOLEAN, PackAnswered(j, ok)
  PROVE  AtlasIsOfApproved'
<1>1. j.op = "pack" /\ UNCHANGED approved
      /\ (\/ lastPack' = lastPack
          \/ /\ Packable(j.frames, j.profile)
             /\ lastPack' = [Packed(j.frames, j.profile) EXCEPT !.changed = (j.frames # approved)])
  BY DEF PackAnswered
<1>2. PICK F, p : F = j.frames /\ p = j.profile
  OBVIOUS
<1>3. F \subseteq SpriteFrames /\ IsFiniteSet(F) /\ p \in Profiles
  BY <1>1, <1>2 DEF SpriteTypes, JobTyped
<1>4. CASE lastPack' = lastPack
  BY <1>1, <1>4 DEF AtlasIsOfApproved
<1>5. CASE lastPack' # lastPack
  <2>1. Packable(F, p) /\ lastPack' = [Packed(F, p) EXCEPT !.changed = (F # approved)]
    BY <1>1, <1>2, <1>5
  <2>2. Packed(F, p).frames = F /\ Layout(Packed(F, p))
    BY <1>3, <2>1, PackedLayout
  <2>3. PICK end : Packed(F, p) = [frames |-> F, changed |-> FALSE, placed |-> end.placed,
                                   width |-> p.width, height |-> Max({1, end.y + end.row})]
    BY DEF Packed
  <2>4. PICK q, r : q = Packed(F, p) /\ r = lastPack'
    OBVIOUS
  <2>5. /\ r.frames = F /\ r.changed = (F # approved)
        /\ r.placed = q.placed /\ r.width = q.width /\ r.height = q.height
    BY <2>1, <2>3, <2>4
  <2>6. Layout(r)
    BY <2>2, <2>4, <2>5 DEF Layout
  <2>7. r.changed \/ r.frames = approved
    BY <2>5
  <2>8. r.changed \/ r.frames = approved'
    BY <1>1, <2>7
  <2>9. QED
    BY <2>4, <2>6, <2>8 DEF AtlasIsOfApproved, Layout
<1>6. QED
  BY <1>4, <1>5

\* A step of the page and the atlas on show.
LEMMA AtlasStep ==
  ASSUME SpriteInv, AtlasIsOfApproved, [Next]_vars
  PROVE  AtlasIsOfApproved'
<1>1. profile \in Profiles
  BY DEF SpriteInv, SpriteTypes
<1>2. CASE ProfileRendered \/ UNCHANGED spriteVars
  <2>1. UNCHANGED <<approved, lastPack>>
    BY <1>2 DEF ProfileRendered, spriteVars
  <2>2. QED
    BY <2>1 DEF AtlasIsOfApproved
<1>3. CASE SpriteNext
  <2>1. CASE \E j \in jobs, ok \in BOOLEAN : PackAnswered(j, ok)
    BY <2>1, AtlasAnswered DEF SpriteInv
  <2>2. CASE ~\E j \in jobs, ok \in BOOLEAN : PackAnswered(j, ok)
    <3>1. lastPack' = NoPack \/ UNCHANGED <<approved, lastPack>>
      BY <1>3, <2>2 DEF SpriteNext, GenerateSprite, ImportSprites, ImageArrives, ImageFails,
         ApproveSprite, RejectSprite, RemoveApproved, RemoveSheet, ClearReferences, SelectTarget,
         SelectKind, SliceSheet, SheetLoads, PackSprites
    <3>2. QED
      BY <3>1 DEF AtlasIsOfApproved, NoPack
  <2>3. QED
    BY <2>1, <2>2
<1>4. QED
  BY <1>1, <1>2, <1>3, StepForSprites

\* An atlas on show is the atlas of what is approved, unless the approved frames
\* changed while it was being packed: it holds each of them once, inside its
\* bounds, and no two of them overlap (main.ts packSprites and what clears the
\* atlas; sprites.ts placeFrames).
THEOREM AtlasesAreOfApproved == Spec => []AtlasIsOfApproved
<1>1. Init => AtlasIsOfApproved
  BY DEF Init, SpriteInit, AtlasIsOfApproved
<1>2. SpriteInv /\ AtlasIsOfApproved /\ [Next]_vars => AtlasIsOfApproved'
  BY AtlasStep
<1>3. QED
  BY <1>1, <1>2, SpriteInvHolds, PTL DEF Spec

-----------------------------------------------------------------------------
(* The hub clients *)

Turns == [phase : {"waiting", "sent", "failed"}, client : Nat, socket : Nat]
Timers == [kind : ToSet(MockKinds), turn : Nat]

\* A client that has nothing more to say.
Quiet(c) == c.timers = <<>> /\ (c.mode = "mock" => ~c.speaking)

\* What is still to come of the answer to turn n, its first d messages having
\* come: while the assistant speaks, the end of its speech is among it.
Answering(c, n, d) ==
  /\ Len(c.timers) = 5 - d
  /\ \A i \in 1..(5 - d) : c.timers[i].kind = MockKinds[i + d] /\ c.timers[i].turn = n
  /\ c.speaking => d \in {2, 3}

\* The current client, n turns having been typed.
CurrentOf(c, n) ==
  /\ c.mode = "live" => c.timers = <<>>
  /\ c.mode = "mock" => /\ c.state \in {"idle", "ready", "closed"}
                        /\ \E d \in 0..5 : Answering(c, n, d)
                        /\ c.state # "ready" => Quiet(c)

PageTypes ==
  /\ mode \in {"mock", "live"} /\ url \in {"good", "bad", "empty"}
  /\ clients \in Seq(Clients) /\ clients # <<>>
  /\ sockets \in Seq(Sockets) /\ turns \in Seq(Turns)

\* Only live clients have sockets.
Listened ==
  \A s \in 1..Len(sockets) :
    sockets[s].client \in 1..Len(clients) /\ clients[sockets[s].client].mode = "live"

OnlyCurrentAnswers ==
  /\ \A i \in 1..Len(clients) : i < me => Quiet(clients[i])
  /\ CurrentOf(client, Len(turns))

ClientInv == PageTypes /\ Listened /\ OnlyCurrentAnswers

\* The answer of a mock client, message by message.
LEMMA MockKindsAre ==
  /\ DOMAIN MockKinds = 1..5
  /\ MockKinds[1] = "message.user" /\ MockKinds[2] = "audio-init" /\ MockKinds[3] = "message.live"
  /\ MockKinds[4] = "audio-end" /\ MockKinds[5] = "message.final"
  /\ \A i \in 1..5 : MockKinds[i] \in ToSet(MockKinds)
BY DEF MockKinds, ToSet

\* What the handlers make of a client.
LEMMA ConsumedTyped ==
  ASSUME NEW c \in Clients, NEW kind
  PROVE  /\ Consumed(c, kind) \in Clients
         /\ Consumed(c, kind).mode = c.mode /\ Consumed(c, kind).timers = c.timers
         /\ c.state = "ready" => Consumed(c, kind).state = "ready"
         /\ kind = "audio-init" => Consumed(c, kind).speaking
         /\ kind \in {"audio-end", "assistant.interrupted"} => ~Consumed(c, kind).speaking
         /\ kind \in {"message.user", "message.live", "message.final", "session.ready"} =>
              Consumed(c, kind).speaking = c.speaking
         /\ kind = "session.ready" => Consumed(c, kind).state = "ready"
<1>1. CASE kind \in {"session.ready", "hello.ack", "call_initialized"}
  BY <1>1 DEF Consumed, Clients, States
<1>2. CASE kind = "audio-init"
  BY <1>2 DEF Consumed, Clients, States
<1>3. CASE kind \in {"audio-end", "assistant.interrupted", "action.interrupt"}
  BY <1>3 DEF Consumed, Clients, States
<1>4. CASE kind \notin {"session.ready", "hello.ack", "call_initialized", "audio-init", "audio-end",
                        "assistant.interrupted", "action.interrupt"}
  <2>1. Consumed(c, kind) = c
    BY <1>4 DEF Consumed
  <2>2. QED
    BY <1>4, <2>1
<1>5. QED
  BY <1>1, <1>2, <1>3, <1>4

\* A client that failed keeps its timers.
LEMMA FailedTyped ==
  ASSUME NEW c \in Clients
  PROVE  /\ Failed(c) \in Clients /\ Failed(c).mode = c.mode /\ Failed(c).timers = c.timers
         /\ Failed(c).speaking = c.speaking
BY DEF Failed, Clients, States

\* A client that is disconnected is quiet.
LEMMA DisconnectedTyped ==
  ASSUME NEW c \in Clients
  PROVE  /\ Disconnected(c) \in Clients /\ Disconnected(c).mode = c.mode
         /\ Quiet(Disconnected(c)) /\ Disconnected(c).state = "closed"
<1>1. <<>> \in Seq([kind : ToSet(MockKinds), turn : Nat])
  BY EmptySeq
<1>2. QED
  BY <1>1 DEF Disconnected, Clients, States, Quiet

\* What connections and sockets make of a live client.
LEMMA LiveTyped ==
  ASSUME NEW c \in Clients, NEW s \in Nat
  PROVE  /\ LiveConnected(c, s) \in Clients /\ LiveConnected(c, s).mode = c.mode
         /\ LiveConnected(c, s).timers = c.timers
         /\ Opened(c, s) \in Clients /\ Opened(c, s).mode = c.mode /\ Opened(c, s).timers = c.timers
         /\ Closed(c) \in Clients /\ Closed(c).mode = c.mode /\ Closed(c).timers = c.timers
<1>1. /\ LiveConnected(c, s) \in Clients /\ LiveConnected(c, s).mode = c.mode
      /\ LiveConnected(c, s).timers = c.timers
  BY FailedTyped DEF LiveConnected, Clients, States
<1>2. PICK d : d = [c EXCEPT !.state = "connected"]
  OBVIOUS
<1>3. d \in Clients /\ d.mode = c.mode /\ d.timers = c.timers
  BY <1>2 DEF Clients, States
<1>4. Opened(c, s) = d \/ Opened(c, s) = Failed(d)
  BY <1>2 DEF Opened
<1>5. Closed(c) \in Clients /\ Closed(c).mode = c.mode /\ Closed(c).timers = c.timers
  BY DEF Closed, Clients, States
<1>6. QED
  BY <1>1, <1>3, <1>4, <1>5, FailedTyped

\* A mock client without a message to come.
LEMMA QuietIsCurrent ==
  ASSUME NEW c \in Clients, Quiet(c), NEW n \in Nat,
         c.mode = "mock" => c.state \in {"idle", "ready", "closed"}
  PROVE  CurrentOf(c, n)
<1>1. Len(c.timers) = 0
  BY DEF Quiet
<1>2. c.mode = "mock" => Answering(c, n, 5)
  BY <1>1 DEF Answering, Quiet
<1>3. QED
  BY <1>2 DEF CurrentOf, Quiet

\* A mock client that connects or sends: a typed turn begins its answer.
LEMMA MockConnects ==
  ASSUME NEW c \in Clients, c.mode = "mock", Quiet(c)
  PROVE  /\ MockConnected(c) \in Clients /\ MockConnected(c).mode = "mock"
         /\ MockConnected(c).state = "ready" /\ Quiet(MockConnected(c))
<1>1. PICK d : d = [c EXCEPT !.state = "connected"]
  OBVIOUS
<1>2. d \in Clients /\ d.mode = c.mode /\ d.timers = c.timers /\ d.speaking = c.speaking
  BY <1>1 DEF Clients, States
<1>3. MockConnected(c) = Consumed(d, "session.ready")
  BY <1>1 DEF MockConnected
<1>4. QED
  BY <1>2, <1>3, ConsumedTyped DEF Quiet

\* What it sends is answered, or ends the answer.
LEMMA MockSends ==
  ASSUME NEW c \in Clients, c.mode = "mock", c.state = "ready", NEW socks, NEW kind, NEW n \in Nat, NEW m,
         kind = "user.text" => m = n, kind # "user.text" => CurrentOf(c, n)
  PROVE  /\ Sent(c, socks, kind, m) \in Clients /\ Sent(c, socks, kind, m).mode = "mock"
         /\ CurrentOf(Sent(c, socks, kind, m), n)
<1>1. Sent(c, socks, kind, m) = MockSent(c, kind, m)
  BY DEF Sent, Sendable
<1>2. CASE kind = "interrupt"
  <2>1. PICK d : d = [c EXCEPT !.timers = <<>>]
    OBVIOUS
  <2>2. <<>> \in Seq([kind : ToSet(MockKinds), turn : Nat])
    BY EmptySeq
  <2>3. d \in Clients /\ d.mode = c.mode /\ d.timers = <<>> /\ d.state = "ready"
    BY <2>1, <2>2 DEF Clients
  <2>4. MockSent(c, kind, m) = Consumed(d, "assistant.interrupted")
    BY <1>2, <2>1 DEF MockSent
  <2>5. PICK e : e = Consumed(d, "assistant.interrupted")
    OBVIOUS
  <2>6. e \in Clients /\ e.mode = "mock" /\ Quiet(e) /\ e.state = "ready"
    BY <2>3, <2>5, ConsumedTyped DEF Quiet
  <2>7. QED
    BY <1>1, <2>4, <2>5, <2>6, QuietIsCurrent
<1>3. CASE kind = "user.text"
  <2> DEFINE answer == [i \in DOMAIN MockKinds |-> [kind |-> MockKinds[i], turn |-> n]]
  <2>1. PICK d : d = Consumed(c, "assistant.interrupted")
    OBVIOUS
  <2>2. d \in Clients /\ d.mode = "mock" /\ d.state = "ready" /\ ~d.speaking
    BY <2>1, ConsumedTyped
  <2>3. answer \in Seq(Timers) /\ Len(answer) = 5
        /\ \A i \in 1..5 : answer[i].kind = MockKinds[i] /\ answer[i].turn = n
    <3>1. \A i \in 1..5 : answer[i] = [kind |-> MockKinds[i], turn |-> n]
      BY MockKindsAre
    <3>2. \A i \in 1..5 : answer[i] \in Timers
      BY <3>1, MockKindsAre DEF Timers
    <3>3. answer \in [1..5 -> Timers]
      BY <3>2, MockKindsAre
    <3>4. \A i \in 1..5 : answer[i].kind = MockKinds[i] /\ answer[i].turn = n
      BY <3>1
    <3> HIDE DEF answer
    <3>5. answer \in Seq(Timers) /\ Len(answer) = 5
      <4>1. PICK five \in Nat : five = 5
        OBVIOUS
      <4>2. answer \in [1..five -> Timers]
        BY <3>3, <4>1
      <4>3. answer \in Seq(Timers) /\ Len(answer) = five
        BY <4>2
      <4>4. QED
        BY <4>1, <4>3
    <3>6. QED
      BY <3>4, <3>5
  <2> HIDE DEF answer
  <2>4. MockSent(c, kind, m) = [d EXCEPT !.timers = answer]
    BY <1>3, <2>1 DEF MockSent, answer
  <2>5. PICK e : e = [d EXCEPT !.timers = answer]
    OBVIOUS
  <2>6. e \in Clients /\ e.mode = "mock" /\ e.state = "ready" /\ ~e.speaking /\ e.timers = answer
    BY <2>2, <2>3, <2>5 DEF Clients, Timers
  <2>7. Answering(e, n, 0)
    BY <2>3, <2>6 DEF Answering
  <2>8. QED
    BY <1>1, <2>4, <2>5, <2>6, <2>7 DEF CurrentOf
<1>4. CASE kind \notin {"interrupt", "user.text"}
  BY <1>1, <1>4 DEF MockSent
<1>5. QED
  BY <1>2, <1>3, <1>4

\* The next message of an answer comes.
LEMMA MockTimerConsumed ==
  ASSUME NEW c \in Clients, c.mode = "mock", NEW n \in Nat, CurrentOf(c, n), c.timers # <<>>,
         NEW e, e = Consumed([c EXCEPT !.timers = Tail(c.timers)], Head(c.timers).kind)
  PROVE  e \in Clients /\ e.mode = "mock" /\ CurrentOf(e, n)
<1>1. c.timers \in Seq(Timers) /\ c.state = "ready"
  BY DEF Clients, Timers, CurrentOf, Quiet
<1>2. PICK d \in 0..5 : Answering(c, n, d)
  BY DEF CurrentOf
<1>3. PICK t : t = Tail(c.timers)
  OBVIOUS
<1>4. /\ t \in Seq(Timers) /\ Len(t) = Len(c.timers) - 1 /\ Len(c.timers) > 0
      /\ \A i \in 1..Len(t) : t[i] = c.timers[i + 1]
      /\ Head(c.timers) = c.timers[1]
  <2>1. Len(c.timers) \in Nat /\ Len(c.timers) # 0
    BY <1>1, LenProperties, EmptySeq
  <2>2. QED
    BY <1>1, <1>3, <2>1, HeadTailProperties
<1>5. d \in 0..4 /\ Len(c.timers) = 5 - d
  BY <1>2, <1>4 DEF Answering
<1>6. PICK f : f = [c EXCEPT !.timers = t]
  OBVIOUS
<1>7. f \in Clients /\ f.mode = "mock" /\ f.state = "ready" /\ f.timers = t /\ f.speaking = c.speaking
  BY <1>1, <1>4, <1>6 DEF Clients, Timers
<1>8. PICK kind : kind = MockKinds[d + 1]
  OBVIOUS
<1>9. e = Consumed(f, kind)
  <2>1. 1 \in 1..(5 - d)
    BY <1>5
  <2>2. c.timers[1].kind = MockKinds[1 + d]
    BY <1>2, <2>1 DEF Answering
  <2>3. 1 + d = d + 1
    BY <1>5
  <2>4. QED
    BY <1>3, <1>4, <1>6, <1>8, <2>2, <2>3
<1>10. e \in Clients /\ e.mode = "mock" /\ e.state = "ready" /\ e.timers = t
  BY <1>7, <1>9, ConsumedTyped
<1>11. e.speaking => d + 1 \in {2, 3}
  <2>1. c.speaking => d \in {2, 3}
    BY <1>2 DEF Answering
  <2>2. kind = "audio-end" => ~e.speaking
    BY <1>7, <1>9, ConsumedTyped
  <2>3. kind \in {"message.user", "message.live", "message.final"} => e.speaking = c.speaking
    BY <1>7, <1>9, ConsumedTyped
  <2>4. CASE d = 0
    BY <1>8, <2>1, <2>3, <2>4, MockKindsAre
  <2>5. CASE d = 1
    BY <2>5
  <2>6. CASE d = 2
    BY <2>6
  <2>7. CASE d = 3
    BY <1>8, <2>2, <2>7, MockKindsAre
  <2>8. CASE d = 4
    BY <1>8, <2>1, <2>3, <2>8, MockKindsAre
  <2>9. QED
    BY <1>5, <2>4, <2>5, <2>6, <2>7, <2>8
<1>12. ASSUME NEW i \in 1..(5 - (d + 1))
       PROVE  t[i].kind = MockKinds[i + (d + 1)] /\ t[i].turn = n
  <2>1. i + 1 \in 1..(5 - d) /\ i \in 1..Len(t) /\ (i + 1) + d = i + (d + 1)
    BY <1>4, <1>5
  <2>2. c.timers[i + 1].kind = MockKinds[(i + 1) + d] /\ c.timers[i + 1].turn = n
    BY <1>2, <2>1 DEF Answering
  <2>3. QED
    BY <1>4, <2>1, <2>2
<1>13. Answering(e, n, d + 1)
  <2>1. Len(e.timers) = 5 - (d + 1)
    BY <1>4, <1>5, <1>10
  <2>2. \A i \in 1..(5 - (d + 1)) : e.timers[i].kind = MockKinds[i + (d + 1)] /\ e.timers[i].turn = n
    BY <1>10, <1>12
  <2>3. QED
    BY <1>11, <2>1, <2>2 DEF Answering
<1>14. d + 1 \in 0..5
  BY <1>5
<1>15. QED
  BY <1>10, <1>13, <1>14 DEF CurrentOf

\* The sockets of a client are shut, and the turns that wait for one settled.
LEMMA ShutTyped ==
  ASSUME NEW c, NEW socks \in Seq(Sockets)
  PROVE  /\ SocketShut(c, socks) \in Seq(Sockets) /\ Len(SocketShut(c, socks)) = Len(socks)
         /\ \A s \in 1..Len(socks) : SocketShut(c, socks)[s].client = socks[s].client
<1>1. CASE c.socket = 0
  BY <1>1 DEF SocketShut
<1>2. CASE c.socket # 0
  <2>1. PICK k : k = c.socket
    OBVIOUS
  <2>2. PICK rs : rs = CASE socks[k].rs = "connecting" -> "aborting"
                         [] socks[k].rs = "open" -> "closing"
                         [] OTHER -> socks[k].rs
    OBVIOUS
  <2>3. PICK r : r = [socks EXCEPT ![k].rs = rs]
    OBVIOUS
  <2>4. SocketShut(c, socks) = r
    BY <1>2, <2>1, <2>2, <2>3 DEF SocketShut
  <2>5. Len(socks) \in Nat /\ DOMAIN socks = 1..Len(socks) /\ \A s \in 1..Len(socks) : socks[s] \in Sockets
    BY LenProperties, ElementOfSeq
  <2>6. ASSUME NEW s \in 1..Len(socks)
        PROVE  r[s] \in Sockets /\ r[s].client = socks[s].client
    <3>1. CASE s = k
      <4>1. r[s] = [socks[s] EXCEPT !.rs = rs]
        BY <2>3, <2>5, <3>1
      <4>2. socks[s] \in Sockets /\ rs \in {"connecting", "open", "closing", "aborting", "closed"}
        BY <2>2, <2>5, <3>1 DEF Sockets
      <4>3. QED
        BY <4>1, <4>2 DEF Sockets
    <3>2. CASE s # k
      BY <2>3, <2>5, <3>2
    <3>3. QED
      BY <3>1, <3>2
  <2>7. PICK n \in Nat : n = Len(socks)
    BY <2>5
  <2>8. r \in [1..n -> Sockets]
    BY <2>3, <2>5, <2>6, <2>7
  <2>9. r \in Seq(Sockets) /\ Len(r) = n
    BY <2>8
  <2>10. QED
    BY <2>4, <2>6, <2>7, <2>9
<1>3. QED
  BY <1>1, <1>2

\* Settling turns leaves their number.
LEMMA SettledTyped ==
  ASSUME turns \in Seq(Turns), NEW s, NEW phase \in {"waiting", "sent", "failed"}
  PROVE  Settled(s, phase) \in Seq(Turns) /\ Len(Settled(s, phase)) = Len(turns)
<1>1. PICK r : r = Settled(s, phase)
  OBVIOUS
<1>2. Len(turns) \in Nat /\ DOMAIN turns = 1..Len(turns) /\ \A n \in 1..Len(turns) : turns[n] \in Turns
  BY LenProperties, ElementOfSeq
<1>3. DOMAIN r = 1..Len(turns)
      /\ \A n \in 1..Len(turns) : r[n] = turns[n] \/ r[n] = [turns[n] EXCEPT !.phase = phase]
  BY <1>1, <1>2 DEF Settled
<1>4. \A n \in 1..Len(turns) : r[n] \in Turns
  BY <1>2, <1>3 DEF Turns
<1>5. PICK n \in Nat : n = Len(turns)
  BY <1>2
<1>6. r = [i \in 1..n |-> r[i]]
  BY <1>1, <1>2, <1>5 DEF Settled
<1>7. r \in [1..n -> Turns]
  BY <1>4, <1>5, <1>6
<1>8. r \in Seq(Turns) /\ Len(r) = n
  BY <1>7
<1>9. QED
  BY <1>1, <1>5, <1>8

\* A client changes, the current one or one of before.
LEMMA OneClient ==
  ASSUME ClientInv, UNCHANGED <<mode, url>>, NEW i \in 1..Len(clients), NEW c \in Clients,
         c.mode = clients[i].mode, clients' = [clients EXCEPT ![i] = c],
         sockets' \in Seq(Sockets), turns' \in Seq(Turns),
         \A s \in 1..Len(sockets') :
           \/ s \in 1..Len(sockets) /\ sockets'[s].client = sockets[s].client
           \/ sockets'[s].client = me /\ client.mode = "live",
         i < me => Quiet(c),
         i = me => CurrentOf(c, Len(turns')),
         i # me => Len(turns') = Len(turns)
  PROVE  ClientInv'
<1>1. PICK n \in Nat : n = Len(clients)
  BY LenProperties DEF ClientInv, PageTypes
<1>2. n > 0 /\ clients \in Seq(Clients)
  <2>1. clients \in Seq(Clients) /\ clients # <<>>
    BY DEF ClientInv, PageTypes
  <2>2. Len(clients) # 0
    BY <2>1, EmptySeq, LenProperties
  <2>3. QED
    BY <1>1, <2>1, <2>2
<1>3. PICK q : q = clients'
  OBVIOUS
<1>4. q \in Seq(Clients) /\ Len(q) = n /\ q[i] = c /\ \A k \in 1..n : k # i => q[k] = clients[k]
  <2>1. DOMAIN clients = 1..n /\ \A k \in 1..n : clients[k] \in Clients
    BY <1>1, <1>2, LenProperties, ElementOfSeq
  <2>2. q \in [1..n -> Clients]
    BY <1>1, <1>3, <2>1
  <2>3. q \in Seq(Clients) /\ Len(q) = n
    BY <2>2
  <2>4. QED
    BY <1>1, <1>3, <2>1, <2>3
<1>5. q # <<>>
  BY <1>2, <1>4
<1>6. PageTypes'
  BY <1>3, <1>4, <1>5 DEF ClientInv, PageTypes
<1>7. \A k \in 1..n : q[k].mode = clients[k].mode
  BY <1>4
<1>8. \A s \in 1..Len(sockets') : sockets'[s].client \in 1..n /\ q[sockets'[s].client].mode = "live"
  <2>1. me \in 1..n /\ client = clients[me] /\ me = n
    BY <1>1, <1>2 DEF me, client
  <2>2. QED
    BY <1>1, <1>7, <2>1 DEF ClientInv, Listened
<1>9. Listened'
  BY <1>3, <1>4, <1>8 DEF Listened
<1>10. \A k \in 1..n : k < n => Quiet(q[k])
  <2>1. \A k \in 1..n : k < n => Quiet(clients[k])
    BY <1>1 DEF ClientInv, OnlyCurrentAnswers, me
  <2>2. QED
    BY <1>1, <1>4, <2>1 DEF me
<1>11. CurrentOf(q[n], Len(turns'))
  <2>1. CASE i = n
    BY <1>1, <1>4, <2>1 DEF me
  <2>2. CASE i # n
    <3>1. CurrentOf(clients[n], Len(turns))
      BY <1>1 DEF ClientInv, OnlyCurrentAnswers, client, me
    <3>2. q[n] = clients[n] /\ Len(turns') = Len(turns)
      BY <1>1, <1>2, <1>4, <2>2 DEF me
    <3>3. QED
      BY <3>1, <3>2
  <2>3. QED
    BY <2>1, <2>2
<1>12. OnlyCurrentAnswers'
  BY <1>3, <1>4, <1>10, <1>11 DEF OnlyCurrentAnswers, me, client
<1>13. QED
  BY <1>6, <1>9, <1>12 DEF ClientInv

\* A live client changes, and keeps having no timers.
LEMMA LiveClient ==
  ASSUME ClientInv, UNCHANGED <<mode, url>>, NEW i \in 1..Len(clients), NEW c \in Clients,
         c.mode = "live", clients[i].mode = "live", c.timers = clients[i].timers,
         clients' = [clients EXCEPT ![i] = c],
         sockets' \in Seq(Sockets), Len(sockets') = Len(sockets),
         \A s \in 1..Len(sockets) : sockets'[s].client = sockets[s].client,
         turns' \in Seq(Turns), Len(turns') = Len(turns)
  PROVE  ClientInv'
<1>1. c.timers = <<>>
  <2>1. Len(clients) \in Nat
    BY LenProperties DEF ClientInv, PageTypes
  <2>2. i < me \/ i = me
    BY <2>1 DEF me
  <2>3. CASE i < me
    BY <2>3 DEF ClientInv, OnlyCurrentAnswers, Quiet
  <2>4. CASE i = me
    BY <2>4 DEF ClientInv, OnlyCurrentAnswers, CurrentOf, client
  <2>5. QED
    BY <2>2, <2>3, <2>4
<1>2. Quiet(c) /\ CurrentOf(c, Len(turns'))
  BY <1>1 DEF Quiet, CurrentOf
<1>3. QED
  BY <1>2, OneClient

\* The current client, and the lengths that are numbers.
LEMMA TheClient ==
  ASSUME ClientInv
  PROVE  /\ Len(clients) \in Nat /\ me = Len(clients) /\ me \in 1..Len(clients)
         /\ client = clients[me] /\ client \in Clients /\ client.mode \in {"mock", "live"}
         /\ CurrentOf(client, Len(turns)) /\ Len(turns) \in Nat /\ Len(sockets) \in Nat
<1>1. clients \in Seq(Clients) /\ clients # <<>> /\ turns \in Seq(Turns) /\ sockets \in Seq(Sockets)
  BY DEF ClientInv, PageTypes
<1>2. Len(clients) \in Nat /\ Len(clients) # 0 /\ Len(turns) \in Nat /\ Len(sockets) \in Nat
  BY <1>1, EmptySeq, LenProperties
<1>3. me = Len(clients) /\ me \in 1..Len(clients) /\ client = clients[me]
  BY <1>2 DEF me, client
<1>4. client \in Clients
  BY <1>1, <1>3, ElementOfSeq
<1>5. QED
  BY <1>2, <1>3, <1>4 DEF ClientInv, OnlyCurrentAnswers, Clients

\* The client is replaced: a new one is current, the old one quiet.
LEMMA ReplacedInv ==
  ASSUME ClientInv, mode' \in {"mock", "live"}, url' \in {"good", "bad", "empty"},
         NEW m \in {"mock", "live"}, NEW u \in {"good", "bad", "empty"}, Replaced(m, u)
  PROVE  ClientInv'
<1>1. PICK n \in Nat : n = Len(clients)
  BY TheClient
<1>2. PICK c : c = IF IsActive(client) THEN Disconnected(client) ELSE client
  OBVIOUS
<1>3. c \in Clients /\ c.mode = client.mode /\ Quiet(c)
  <2>1. CASE IsActive(client)
    BY <1>2, <2>1, TheClient, DisconnectedTyped
  <2>2. CASE ~IsActive(client)
    <3>1. Quiet(client)
      BY <2>2, TheClient DEF IsActive, CurrentOf, Quiet
    <3>2. QED
      BY <1>2, <2>2, <3>1, TheClient
  <2>3. QED
    BY <2>1, <2>2
<1>4. PICK A : A = [clients EXCEPT ![n] = c]
  OBVIOUS
<1>5. DOMAIN clients = 1..n /\ (\A k \in 1..n : clients[k] \in Clients) /\ n \in 1..n /\ me = n
      /\ client = clients[n] /\ clients \in Seq(Clients)
  BY <1>1, TheClient, LenProperties, ElementOfSeq DEF ClientInv, PageTypes
<1>6. A \in Seq(Clients) /\ Len(A) = n
  <2>1. A \in [1..n -> Clients]
    BY <1>3, <1>4, <1>5
  <2>2. QED
    BY <2>1
<1>7. PICK new : new = NewClient(m, u)
  OBVIOUS
<1>8. new \in Clients /\ Quiet(new) /\ new.state = "idle"
  <2>1. <<>> \in Seq([kind : ToSet(MockKinds), turn : Nat])
    BY EmptySeq
  <2>2. QED
    BY <1>7, <2>1 DEF NewClient, Clients, States, Quiet
<1>9. PICK q : q = Append(A, new)
  OBVIOUS
<1>10. clients' = q /\ UNCHANGED turns /\ (sockets' = SocketShut(client, sockets) \/ UNCHANGED sockets)
  <2>1. clients' = Append([clients EXCEPT ![me] = IF IsActive(clients[me]) THEN Disconnected(clients[me])
                                                  ELSE clients[me]], NewClient(m, u))
    BY DEF Replaced
  <2>2. clients' = q
    BY <1>2, <1>4, <1>5, <1>7, <1>9, <2>1
  <2>3. QED
    BY <2>2 DEF Replaced
<1>11. /\ q \in Seq(Clients) /\ Len(q) = n + 1 /\ q[n + 1] = new
       /\ \A k \in 1..n : q[k] = A[k]
  BY <1>6, <1>8, <1>9, AppendProperties
<1>12. \A k \in 1..n : q[k].mode = clients[k].mode /\ Quiet(q[k])
  <2>1. \A k \in 1..n : A[k] = IF k = n THEN c ELSE clients[k]
    BY <1>4, <1>5
  <2>2. \A k \in 1..n : k # n => Quiet(clients[k])
    BY <1>1, <1>5 DEF ClientInv, OnlyCurrentAnswers
  <2>3. QED
    BY <1>3, <1>5, <1>11, <2>1, <2>2
<1>13. sockets' \in Seq(Sockets) /\ Len(sockets') = Len(sockets)
       /\ \A s \in 1..Len(sockets) : sockets'[s].client = sockets[s].client
  <2>1. sockets \in Seq(Sockets)
    BY DEF ClientInv, PageTypes
  <2>2. QED
    BY <1>10, <2>1, ShutTyped
<1>14. q # <<>>
  BY <1>11, EmptySeq
<1>15. PageTypes'
  BY <1>10, <1>11, <1>13, <1>14 DEF ClientInv, PageTypes
<1>16. \A s \in 1..Len(sockets) : sockets[s].client \in 1..n /\ clients[sockets[s].client].mode = "live"
  BY <1>1 DEF ClientInv, Listened
<1>17. \A s \in 1..Len(sockets') : sockets'[s].client \in 1..(n + 1) /\ q[sockets'[s].client].mode = "live"
  BY <1>12, <1>13, <1>16
<1>18. Listened'
  BY <1>10, <1>11, <1>17 DEF Listened
<1>19. CurrentOf(new, Len(turns))
  BY <1>8, TheClient, QuietIsCurrent
<1>20. OnlyCurrentAnswers'
  BY <1>10, <1>11, <1>12, <1>19 DEF OnlyCurrentAnswers, me, client
<1>21. QED
  BY <1>15, <1>18, <1>20 DEF ClientInv

\* The current client changes as it may, and the sockets are its own.
LEMMA CurrentChanges ==
  ASSUME ClientInv, UNCHANGED <<mode, url>>, NEW c \in Clients, c.mode = client.mode,
         clients' = [clients EXCEPT ![me] = c], CurrentOf(c, Len(turns')),
         sockets' \in Seq(Sockets), turns' \in Seq(Turns),
         \A s \in 1..Len(sockets') :
           \/ s \in 1..Len(sockets) /\ sockets'[s].client = sockets[s].client
           \/ sockets'[s].client = me /\ client.mode = "live"
  PROVE  ClientInv'
<1>1. PICK i : i = me
  OBVIOUS
<1>2. i \in 1..Len(clients) /\ c.mode = clients[i].mode /\ ~(i < me) /\ clients' = [clients EXCEPT ![i] = c]
  BY <1>1, TheClient
<1>3. QED
  BY <1>1, <1>2, OneClient

\* What connect() makes of an inactive client, and of the sockets.
LEMMA ConnectedTyped ==
  ASSUME ClientInv, ~IsActive(client), Opening
  PROVE  /\ Connected \in Clients /\ Connected.mode = client.mode
         /\ Quiet(Connected)
         /\ client.mode = "mock" => Connected.state = "ready"
         /\ sockets' \in Seq(Sockets)
         /\ \A s \in 1..Len(sockets') :
              \/ s \in 1..Len(sockets) /\ sockets'[s].client = sockets[s].client
              \/ sockets'[s].client = me /\ client.mode = "live"
<1>1. Quiet(client)
  BY TheClient DEF IsActive, CurrentOf, Quiet
<1>2. CASE client.mode = "mock"
  <2>1. Connected = MockConnected(client) /\ UNCHANGED sockets
    BY <1>2 DEF Connected, Opening, SocketMade
  <2>2. sockets \in Seq(Sockets)
    BY DEF ClientInv, PageTypes
  <2>3. QED
    BY <1>1, <1>2, <2>1, <2>2, TheClient, MockConnects
<1>3. CASE client.mode = "live"
  <2>1. PICK s : s = Len(sockets) + 1
    OBVIOUS
  <2>2. s \in Nat /\ sockets \in Seq(Sockets)
    BY <2>1, TheClient DEF ClientInv, PageTypes
  <2>3. PICK c : c = LiveConnected(client, s)
    OBVIOUS
  <2>4. Connected = c
    BY <1>3, <2>1, <2>3 DEF Connected
  <2>5. c \in Clients /\ c.mode = "live" /\ c.timers = client.timers
    BY <1>3, <2>2, <2>3, TheClient, LiveTyped
  <2>6. Quiet(c)
    BY <1>1, <2>5 DEF Quiet
  <2>7. PICK r : r = [client |-> me, rs |-> "connecting"]
    OBVIOUS
  <2>8. r \in Sockets /\ r.client = me
    BY <2>7, TheClient DEF Sockets
  <2>9. sockets' = Append(sockets, r) \/ sockets' = sockets
    BY <2>7 DEF Opening
  <2>10. /\ Append(sockets, r) \in Seq(Sockets) /\ Len(Append(sockets, r)) = Len(sockets) + 1
         /\ Append(sockets, r)[Len(sockets) + 1] = r
         /\ \A k \in 1..Len(sockets) : Append(sockets, r)[k] = sockets[k]
    BY <2>2, <2>8, AppendProperties
  <2>11. /\ sockets' \in Seq(Sockets)
         /\ \A k \in 1..Len(sockets') : \/ k \in 1..Len(sockets) /\ sockets'[k].client = sockets[k].client
                                       \/ sockets'[k].client = me
    BY <2>2, <2>8, <2>9, <2>10, TheClient
  <2>12. QED
    BY <1>3, <2>4, <2>5, <2>6, <2>11
<1>4. QED
  BY <1>2, <1>3, TheClient

\* A message goes out, for turn m when it is a typed turn.
LEMMA SentTyped ==
  ASSUME NEW c \in Clients, NEW socks, NEW kind, NEW n \in Nat, NEW m,
         kind = "user.text" => m = n, kind # "user.text" => CurrentOf(c, n),
         c.mode = "mock" => c.state = "ready", c.mode = "live" => c.timers = <<>>
  PROVE  /\ Sent(c, socks, kind, m) \in Clients /\ Sent(c, socks, kind, m).mode = c.mode
         /\ CurrentOf(Sent(c, socks, kind, m), n)
<1>1. CASE c.mode = "mock"
  BY <1>1, MockSends
<1>2. CASE c.mode = "live"
  <2>1. PICK e : e = Sent(c, socks, kind, m)
    OBVIOUS
  <2>2. e = Failed(c) \/ e = c
    BY <1>2, <2>1 DEF Sent
  <2>3. e \in Clients /\ e.mode = "live" /\ e.timers = <<>>
    BY <1>2, <2>2, FailedTyped
  <2>4. CurrentOf(e, n)
    BY <2>3 DEF CurrentOf
  <2>5. QED
    BY <1>2, <2>1, <2>3, <2>4
<1>3. QED
  BY <1>1, <1>2 DEF Clients

\* An active client sends something that is not a typed turn.
LEMMA ButtonsInv ==
  ASSUME ClientInv, Disconnect \/ Ping \/ Interrupt
  PROVE  ClientInv'
<1>1. sockets \in Seq(Sockets) /\ turns \in Seq(Turns)
  BY DEF ClientInv, PageTypes
<1> DEFINE Keeps == /\ UNCHANGED <<mode, url, turns>>
                    /\ sockets' = SocketShut(client, sockets) \/ UNCHANGED sockets
           Fits(c) == c \in Clients /\ c.mode = client.mode /\ CurrentOf(c, Len(turns))
                      /\ clients' = [clients EXCEPT ![me] = c]
<1>2. IsActive(client) /\ (client.mode = "mock" => client.state = "ready")
      /\ (client.mode = "live" => client.timers = <<>>)
  BY TheClient DEF Disconnect, Ping, Interrupt, IsActive, CurrentOf
<1>3. \A kind \in {"ping", "interrupt"} :
        LET c == Sent(client, sockets, kind, 0)
        IN  c \in Clients /\ c.mode = client.mode /\ CurrentOf(c, Len(turns))
  BY <1>2, TheClient, SentTyped
<1>5. ASSUME NEW kind \in {"ping", "interrupt"},
             clients' = [clients EXCEPT ![me] = Sent(@, sockets, kind, 0)],
             UNCHANGED <<mode, url, turns, sockets>>
      PROVE  Keeps /\ \E c : Fits(c)
  <2>1. PICK c : c = Sent(client, sockets, kind, 0)
    OBVIOUS
  <2>2. clients' = [clients EXCEPT ![me] = c]
    <3>1. clients' = [clients EXCEPT ![me] = Sent(clients[me], sockets, kind, 0)]
      BY <1>5
    <3>2. QED
      BY <2>1, <3>1 DEF client
  <2>3. Fits(c)
    BY <1>3, <2>1, <2>2
  <2>4. QED
    BY <1>5, <2>3
<1>6. Keeps /\ \E c : Fits(c)
  <2>1. CASE Disconnect
    <3>1. PICK c : c = Disconnected(client)
      OBVIOUS
    <3>2. c \in Clients /\ c.mode = client.mode /\ Quiet(c) /\ c.state = "closed"
      BY <3>1, TheClient, DisconnectedTyped
    <3>3. CurrentOf(c, Len(turns))
      BY <3>2, TheClient, QuietIsCurrent
    <3>4. clients' = [clients EXCEPT ![me] = c]
      BY <2>1, <3>1 DEF Disconnect, client
    <3>5. Fits(c)
      BY <3>2, <3>3, <3>4
    <3>6. Keeps
      BY <2>1 DEF Disconnect
    <3>7. QED
      BY <3>5, <3>6
  <2>2. CASE Ping
    <3>1. clients' = [clients EXCEPT ![me] = Sent(@, sockets, "ping", 0)]
          /\ UNCHANGED <<mode, url, turns, sockets>>
      BY <2>2 DEF Ping
    <3> HIDE DEF Keeps, Fits
    <3>2. QED
      BY <1>5, <3>1
  <2>3. CASE Interrupt
    <3>1. clients' = [clients EXCEPT ![me] = Sent(@, sockets, "interrupt", 0)]
          /\ UNCHANGED <<mode, url, turns, sockets>>
      BY <2>3 DEF Interrupt
    <3> HIDE DEF Keeps, Fits
    <3>2. QED
      BY <1>5, <3>1
  <2>4. QED
    BY <2>1, <2>2, <2>3
<1>7. PICK c : Fits(c)
  BY <1>6
<1>8. sockets' \in Seq(Sockets) /\ Len(sockets') = Len(sockets)
      /\ \A s \in 1..Len(sockets) : sockets'[s].client = sockets[s].client
  BY <1>1, <1>6, ShutTyped
<1>9. turns' \in Seq(Turns) /\ UNCHANGED <<mode, url>> /\ CurrentOf(c, Len(turns'))
  BY <1>1, <1>6, <1>7
<1>10. \A s \in 1..Len(sockets') : s \in 1..Len(sockets) /\ sockets'[s].client = sockets[s].client
  BY <1>8
<1>11. QED
  BY <1>7, <1>8, <1>9, <1>10, CurrentChanges

\* The client connects.
LEMMA ConnectInv ==
  ASSUME ClientInv, Connect
  PROVE  ClientInv'
<1>1. ~IsActive(client) /\ Opening /\ UNCHANGED <<mode, url, turns>>
  BY DEF Connect
<1>2. PICK c : c = Connected
  OBVIOUS
<1>3. clients' = [clients EXCEPT ![me] = c]
  BY <1>2 DEF Connect
<1>4. /\ c \in Clients /\ c.mode = client.mode /\ Quiet(c)
      /\ c.mode = "mock" => c.state \in {"idle", "ready", "closed"}
      /\ sockets' \in Seq(Sockets)
      /\ \A s \in 1..Len(sockets') :
           \/ s \in 1..Len(sockets) /\ sockets'[s].client = sockets[s].client
           \/ sockets'[s].client = me /\ client.mode = "live"
  BY <1>1, <1>2, ConnectedTyped
<1>5. CurrentOf(c, Len(turns'))
  BY <1>1, <1>4, TheClient, QuietIsCurrent
<1>6. turns' \in Seq(Turns) /\ UNCHANGED <<mode, url>>
  BY <1>1 DEF ClientInv, PageTypes
<1>7. QED
  BY <1>3, <1>4, <1>5, <1>6, CurrentChanges

\* A turn is typed.
LEMMA TypedInv ==
  ASSUME ClientInv, SendTypedTurn
  PROVE  ClientInv'
<1>1. UNCHANGED <<mode, url>> /\ turns \in Seq(Turns) /\ sockets \in Seq(Sockets)
  BY DEF SendTypedTurn, ClientInv, PageTypes
<1>2. ASSUME NEW t \in Turns, turns' = Append(turns, t)
      PROVE  turns' \in Seq(Turns) /\ Len(turns') = Len(turns) + 1 /\ Len(turns') \in Nat
  <2>1. Append(turns, t) \in Seq(Turns) /\ Len(Append(turns, t)) = Len(turns) + 1
    BY <1>1, AppendProperties
  <2>2. QED
    BY <1>2, <2>1, TheClient
<1>3. CASE IsActive(client) \/ client.mode = "mock"
  <2>1. PICK c : c = IF IsActive(client) THEN client ELSE Connected
    OBVIOUS
  <2>2. TypedNow(c) /\ UNCHANGED sockets
    BY <1>3, <2>1 DEF SendTypedTurn
  <2>3. c \in Clients /\ c.mode = client.mode /\ (c.mode = "mock" => c.state = "ready")
        /\ (c.mode = "live" => c.timers = <<>>)
    <3>1. CASE IsActive(client)
      BY <2>1, <3>1, TheClient DEF IsActive, CurrentOf
    <3>2. CASE ~IsActive(client)
      <4>1. client.mode = "mock" /\ c = Connected /\ Opening
        BY <1>3, <2>1, <2>2, <3>2 DEF Opening, SocketMade
      <4>2. QED
        BY <3>2, <4>1, ConnectedTyped
    <3>3. QED
      BY <3>1, <3>2
  <2>4. PICK e : e = Sent(c, sockets, "user.text", Len(turns) + 1)
    OBVIOUS
  <2>5. clients' = [clients EXCEPT ![me] = e]
    BY <2>2, <2>4 DEF TypedNow
  <2>6. PICK t : t = Turn(IF Sendable(c, sockets) THEN "sent" ELSE "failed", 0)
    OBVIOUS
  <2>7. t \in Turns /\ turns' = Append(turns, t)
    BY <2>2, <2>6, TheClient DEF TypedNow, Turn, Turns
  <2>8. turns' \in Seq(Turns) /\ Len(turns') = Len(turns) + 1 /\ Len(turns) + 1 \in Nat
    BY <1>2, <2>7, TheClient
  <2>9. PICK n \in Nat : n = Len(turns) + 1
    BY <2>8
  <2>10. e \in Clients /\ e.mode = c.mode /\ CurrentOf(e, n)
    <3>1. e = Sent(c, sockets, "user.text", n)
      BY <2>4, <2>9
    <3>2. QED
      BY <2>3, <3>1, SentTyped
  <2>11. CurrentOf(e, Len(turns'))
    BY <2>8, <2>9, <2>10
  <2>12. sockets' \in Seq(Sockets)
         /\ \A s \in 1..Len(sockets') : s \in 1..Len(sockets) /\ sockets'[s].client = sockets[s].client
    BY <1>1, <2>2
  <2>13. QED
    BY <1>1, <2>3, <2>5, <2>8, <2>10, <2>11, <2>12, CurrentChanges
<1>4. CASE ~(IsActive(client) \/ client.mode = "mock")
  <2>1. PICK t : t = IF SocketMade THEN Turn("waiting", Len(sockets')) ELSE Turn("failed", 0)
    OBVIOUS
  <2>2. /\ ~IsActive(client) /\ client.mode = "live" /\ Opening
        /\ clients' = [clients EXCEPT ![me] = Connected] /\ turns' = Append(turns, t)
    BY <1>4, <2>1, TheClient DEF SendTypedTurn
  <2>3. PICK c : c = Connected
    OBVIOUS
  <2>4. /\ c \in Clients /\ c.mode = "live" /\ Quiet(c)
        /\ sockets' \in Seq(Sockets)
        /\ \A s \in 1..Len(sockets') :
             \/ s \in 1..Len(sockets) /\ sockets'[s].client = sockets[s].client
             \/ sockets'[s].client = me /\ client.mode = "live"
    BY <2>2, <2>3, ConnectedTyped
  <2>5. t \in Turns
    <3>1. Len(sockets') \in Nat
      BY <2>4, LenProperties
    <3>2. QED
      BY <2>1, <3>1, TheClient DEF Turn, Turns
  <2>6. turns' \in Seq(Turns)
    BY <1>2, <2>2, <2>5
  <2>7. CurrentOf(c, Len(turns'))
    BY <2>4 DEF CurrentOf, Quiet
  <2>8. clients' = [clients EXCEPT ![me] = c]
    BY <2>2, <2>3
  <2>9. QED
    BY <1>1, <2>2, <2>4, <2>6, <2>7, <2>8, CurrentChanges
<1>5. QED
  BY <1>3, <1>4

\* A timer of a mock client: only the current one has any.
LEMMA TimerInv ==
  ASSUME ClientInv, NEW i \in DOMAIN clients, MockTimer(i)
  PROVE  ClientInv'
<1>1. PICK n \in Nat : n = Len(clients)
  BY TheClient
<1>2. i \in 1..n /\ me = n
  BY <1>1, TheClient, LenProperties DEF ClientInv, PageTypes
<1>3. clients[i].timers # <<>> /\ UNCHANGED <<mode, url, turns, sockets>>
  BY DEF MockTimer
<1>4. i = me
  BY <1>1, <1>2, <1>3 DEF ClientInv, OnlyCurrentAnswers, Quiet
<1>5. PICK c : c = client
  OBVIOUS
<1>6. c \in Clients /\ c.mode = "mock" /\ CurrentOf(c, Len(turns)) /\ c.timers # <<>>
  BY <1>3, <1>4, <1>5, TheClient DEF CurrentOf
<1>7. PICK e : e = Consumed([c EXCEPT !.timers = Tail(c.timers)], Head(c.timers).kind)
  OBVIOUS
<1>8. clients' = [clients EXCEPT ![me] = e]
  <2>1. clients[i] = c
    BY <1>4, <1>5 DEF client
  <2>2. clients' = [clients EXCEPT ![i] = Consumed([clients[i] EXCEPT !.timers = Tail(clients[i].timers)],
                                                   Head(clients[i].timers).kind)]
    BY DEF MockTimer
  <2>3. QED
    BY <1>4, <1>7, <2>1, <2>2
<1>9. PICK k \in Nat : k = Len(turns)
  BY TheClient
<1>10. e \in Clients /\ e.mode = "mock" /\ CurrentOf(e, k)
  BY <1>6, <1>7, <1>9, MockTimerConsumed
<1>11. /\ e.mode = client.mode /\ CurrentOf(e, Len(turns')) /\ UNCHANGED <<mode, url>>
       /\ sockets' \in Seq(Sockets) /\ turns' \in Seq(Turns)
       /\ \A s \in 1..Len(sockets') : s \in 1..Len(sockets) /\ sockets'[s].client = sockets[s].client
  BY <1>3, <1>5, <1>6, <1>9, <1>10 DEF ClientInv, PageTypes
<1>12. QED
  BY <1>8, <1>10, <1>11, CurrentChanges

\* What happens on a socket happens to a live client.
LEMMA SocketsInv ==
  ASSUME ClientInv, NEW s \in DOMAIN sockets,
         \/ SocketOpens(s) \/ \E error \in BOOLEAN : SocketEnds(s, error)
         \/ \E kind \in HubFrames : SocketMessage(s, kind)
  PROVE  ClientInv'
<1>1. sockets \in Seq(Sockets) /\ turns \in Seq(Turns) /\ clients \in Seq(Clients)
  BY DEF ClientInv, PageTypes
<1>2. PICK n \in Nat : n = Len(sockets)
  BY TheClient
<1>3. s \in 1..n /\ DOMAIN sockets = 1..n /\ \A k \in 1..n : sockets[k] \in Sockets
  BY <1>1, <1>2, LenProperties, ElementOfSeq
<1>4. PICK i : i = sockets[s].client
  OBVIOUS
<1>5. i \in 1..Len(clients) /\ clients[i].mode = "live"
  BY <1>2, <1>3, <1>4 DEF ClientInv, Listened
<1>6. clients[i] \in Clients
  BY <1>1, <1>5, ElementOfSeq
<1> DEFINE Same == /\ UNCHANGED <<mode, url>>
                   /\ \/ UNCHANGED sockets
                      \/ \E rs \in {"open", "closed"} : sockets' = [sockets EXCEPT ![s].rs = rs]
                   /\ \/ UNCHANGED turns
                      \/ \E phase \in {"sent", "failed"} : turns' = Settled(s, phase)
           Fits(c) == c \in Clients /\ c.mode = "live" /\ c.timers = clients[i].timers
                      /\ clients' = [clients EXCEPT ![i] = c]
<1>8. \E c : Same /\ Fits(c)
  <2>1. CASE SocketOpens(s)
    <3>1. PICK c : c = Opened(clients[i], s)
      OBVIOUS
    <3>2. clients' = [clients EXCEPT ![i] = c]
      BY <1>4, <2>1, <3>1 DEF SocketOpens
    <3>3. s \in Nat
      BY <1>3
    <3>4. Fits(c)
      BY <1>5, <1>6, <3>1, <3>2, <3>3, LiveTyped
    <3>5. Same
      BY <2>1 DEF SocketOpens
    <3>6. QED
      BY <3>4, <3>5
  <2>2. ASSUME NEW error \in BOOLEAN, SocketEnds(s, error)
        PROVE  \E c : Same /\ Fits(c)
    <3>1. PICK d : d = Closed(clients[i])
      OBVIOUS
    <3>2. PICK c : c = IF Waiting(s) = {} \/ (error /\ clients[i].state = "connecting") THEN d ELSE Failed(d)
      OBVIOUS
    <3>3. clients' = [clients EXCEPT ![i] = c]
      BY <1>4, <2>2, <3>1, <3>2 DEF SocketEnds
    <3>4. d \in Clients /\ d.mode = "live" /\ d.timers = clients[i].timers
      <4>1. 0 \in Nat
        OBVIOUS
      <4>2. QED
        BY <1>5, <1>6, <3>1, <4>1, LiveTyped
    <3>5. c \in Clients /\ c.mode = "live" /\ c.timers = clients[i].timers
      BY <3>2, <3>4, FailedTyped
    <3>6. Same
      BY <2>2 DEF SocketEnds
    <3>7. QED
      BY <3>3, <3>5, <3>6
  <2>3. ASSUME NEW kind \in HubFrames, SocketMessage(s, kind)
        PROVE  \E c : Same /\ Fits(c)
    <3>1. PICK c : c = Consumed(clients[i], kind)
      OBVIOUS
    <3>2. clients' = [clients EXCEPT ![i] = c]
      BY <1>4, <2>3, <3>1 DEF SocketMessage
    <3>3. c \in Clients /\ c.mode = "live" /\ c.timers = clients[i].timers
      BY <1>5, <1>6, <3>1, ConsumedTyped
    <3>4. Same
      BY <2>3 DEF SocketMessage
    <3>5. QED
      BY <3>2, <3>3, <3>4
  <2>4. QED
    <3> HIDE DEF Same, Fits
    <3>1. QED
      BY <2>1, <2>2, <2>3
<1>9. PICK c : Fits(c)
  BY <1>8
<1>10. turns' \in Seq(Turns) /\ Len(turns') = Len(turns)
  BY <1>1, <1>8, SettledTyped
<1>11. PICK r : r = sockets'
  OBVIOUS
<1>12. /\ DOMAIN r = 1..n /\ \A k \in 1..n : r[k] \in Sockets /\ r[k].client = sockets[k].client
       /\ r = [k \in 1..n |-> r[k]]
  <2>1. CASE UNCHANGED sockets
    BY <1>1, <1>2, <1>3, <1>11, <2>1
  <2>2. ASSUME NEW rs \in {"open", "closed"}, sockets' = [sockets EXCEPT ![s].rs = rs]
        PROVE  /\ DOMAIN r = 1..n /\ \A k \in 1..n : r[k] \in Sockets /\ r[k].client = sockets[k].client
               /\ r = [k \in 1..n |-> r[k]]
    <3>1. r = [sockets EXCEPT ![s].rs = rs]
      BY <1>11, <2>2
    <3>2. \A k \in 1..n : r[k] = IF k = s THEN [sockets[k] EXCEPT !.rs = rs] ELSE sockets[k]
      BY <1>3, <3>1
    <3>3. DOMAIN r = 1..n /\ r = [k \in 1..n |-> r[k]]
      BY <1>3, <3>1
    <3>4. \A k \in 1..n : r[k] \in Sockets /\ r[k].client = sockets[k].client
      BY <1>3, <3>2 DEF Sockets
    <3>5. QED
      BY <3>3, <3>4
  <2>3. QED
    BY <1>8, <2>1, <2>2
<1>13. r \in Seq(Sockets) /\ Len(r) = n
  <2>1. r \in [1..n -> Sockets]
    BY <1>12
  <2>2. QED
    BY <2>1
<1>14. /\ sockets' \in Seq(Sockets) /\ Len(sockets') = Len(sockets)
       /\ \A k \in 1..Len(sockets) : sockets'[k].client = sockets[k].client
  BY <1>2, <1>11, <1>12, <1>13
<1>15. UNCHANGED <<mode, url>>
  BY <1>8
<1>16. QED
  BY <1>5, <1>9, <1>10, <1>14, <1>15, LiveClient

\* The steps of the page and the clients.
LEMMA ClientStep ==
  ASSUME ClientInv, [Next]_vars
  PROVE  ClientInv'
<1>1. mode \in {"mock", "live"} /\ url \in {"good", "bad", "empty"}
  BY DEF ClientInv, PageTypes
<1>2. ASSUME UNCHANGED connVars
      PROVE  ClientInv'
  BY <1>2 DEF connVars, ClientInv, PageTypes, Listened, OnlyCurrentAnswers, me, client
<1>3. CASE UNCHANGED vars
  BY <1>2, <1>3 DEF vars
<1>4. CASE \/ Play \/ Stop \/ Animate
           \/ \E i \in 1..MaxFrames : SelectFrame(i)
           \/ \E id \in DOMAIN library : SelectBehavior(id)
           \/ \E file \in Files : ImportFile(file)
           \/ Sprites
  <2>1. UNCHANGED connVars
    BY <1>4 DEF Play, Stop, Animate, Tick, SelectFrame, SelectBehavior, ImportFile, Sprites
  <2>2. QED
    BY <1>2, <2>1
<1>5. ASSUME NEW frames, NEW i, Update(frames, i)
      PROVE  UNCHANGED connVars
  BY <1>5 DEF Update
<1>6. CASE \/ AddFrame \/ DuplicateFrame \/ DeleteFrame \/ Rename
           \/ \E at \in Times, dur \in Times : UpdateTiming(at, dur)
           \/ \E k \in Outputs, v \in LookValues : UpdateLook(k, v)
           \/ \E j \in editor.joints, v \in JointValues : UpdateJoint(j, v)
  <2>1. UNCHANGED connVars
    BY <1>5, <1>6 DEF AddFrame, DuplicateFrame, Inserted, DeleteFrame, Rename, UpdateTiming,
                      UpdateLook, UpdateJoint, UpdateFrame
  <2>2. QED
    BY <1>2, <2>1
<1>7. ASSUME NEW id, NEW frames, Added(id, frames)
      PROVE  UNCHANGED connVars
  BY <1>7 DEF Added
<1>8. CASE (\E id \in Ids : NewBehavior(id) \/ DuplicateBehavior(id)) \/ DeleteBehavior
  <2>1. UNCHANGED connVars
    BY <1>7, <1>8 DEF NewBehavior, DuplicateBehavior, DeleteBehavior
  <2>2. QED
    BY <1>2, <2>1
<1>9. CASE \E p \in Profiles : SelectProfile(p)
  <2>1. Replaced(mode, url) /\ UNCHANGED <<mode, url>>
    BY <1>9 DEF SelectProfile
  <2>2. QED
    BY <1>1, <2>1, ReplacedInv
<1>10. ASSUME NEW m \in {"mock", "live"}, SelectMode(m)
       PROVE  ClientInv'
  <2>1. Replaced(m, url) /\ mode' = m /\ UNCHANGED url
    BY <1>10 DEF SelectMode
  <2>2. QED
    BY <1>1, <2>1, ReplacedInv
<1>11. ASSUME NEW u \in {"good", "bad", "empty"}, SetUrl(u)
       PROVE  ClientInv'
  <2>1. Replaced(mode, u) /\ url' = u /\ UNCHANGED mode
    BY <1>11 DEF SetUrl
  <2>2. QED
    BY <1>1, <2>1, ReplacedInv
<1>12. QED
  BY <1>3, <1>4, <1>6, <1>8, <1>9, <1>10, <1>11, ButtonsInv, ConnectInv, TypedInv, TimerInv, SocketsInv
     DEF Next

\* The page starts with one mock client that is idle.
LEMMA ClientStart ==
  ASSUME Init
  PROVE  ClientInv
<1>1. PICK c : c = NewClient("mock", "good")
  OBVIOUS
<1>2. <<>> \in Seq([kind : ToSet(MockKinds), turn : Nat])
  BY EmptySeq
<1>3. c \in Clients /\ Quiet(c) /\ c.state = "idle"
  BY <1>1, <1>2 DEF NewClient, Clients, States, Quiet
<1>4. clients = <<c>> /\ sockets = <<>> /\ turns = <<>> /\ mode = "mock" /\ url = "good"
  BY <1>1 DEF Init
<1>5. clients \in Seq(Clients) /\ clients # <<>> /\ Len(clients) = 1 /\ clients[1] = c
  <2>1. <<c>> \in Seq(Clients)
    BY <1>3
  <2>2. QED
    BY <1>4, <2>1
<1>6. sockets \in Seq(Sockets) /\ turns \in Seq(Turns) /\ Len(sockets) = 0 /\ Len(turns) = 0
  BY <1>4, EmptySeq
<1>7. CurrentOf(c, 0)
  BY <1>3, QuietIsCurrent
<1>8. OnlyCurrentAnswers
  BY <1>5, <1>6, <1>7 DEF OnlyCurrentAnswers, me, client
<1>9. QED
  BY <1>4, <1>5, <1>6, <1>8 DEF ClientInv, PageTypes, Listened

\* Whatever was connected, replaced, interrupted and typed in between, the mock
\* answers that are still to come are to the newest turn, and only the current
\* client has any; a mock assistant that speaks has its end to come (main.ts
\* replaceHubClient, transport.ts DeviceStudioHubClient).
THEOREM MockAnswersAreCurrent == Spec => []MockRepliesAreCurrent
<1>1. ASSUME ClientInv
      PROVE  MockRepliesAreCurrent
  <2>1. PICK n \in Nat : n = Len(clients)
    BY <1>1, TheClient
  <2>2. PICK k \in Nat : k = Len(turns)
    BY <1>1, TheClient
  <2>3. DOMAIN clients = 1..n /\ \A i \in 1..n : i # me => Quiet(clients[i])
    BY <1>1, <2>1, TheClient, LenProperties DEF ClientInv, PageTypes, OnlyCurrentAnswers
  <2>4. PICK c : c = client
    OBVIOUS
  <2>5. c \in Clients /\ c.mode \in {"mock", "live"} /\ CurrentOf(c, k) /\ c = clients[me]
    BY <1>1, <2>2, <2>4, TheClient
  <2>6. c.timers \in Seq(Timers) /\ Len(c.timers) \in Nat /\ DOMAIN c.timers = 1..Len(c.timers)
    <3>1. c.timers \in Seq(Timers)
      BY <2>5 DEF Clients, Timers
    <3>2. QED
      BY <3>1, LenProperties
  <2>7. c.timers # <<>> => c.state = "ready" /\ \A j \in DOMAIN c.timers : c.timers[j].turn = k
    BY <2>5, <2>6 DEF CurrentOf, Answering, Quiet
  <2>8. c.mode = "mock" /\ c.speaking => \E j \in DOMAIN c.timers : c.timers[j].kind = "audio-end"
    <3>1. SUFFICES ASSUME c.mode = "mock", c.speaking
                   PROVE  \E j \in DOMAIN c.timers : c.timers[j].kind = "audio-end"
      OBVIOUS
    <3>2. PICK d \in 0..5 : Answering(c, k, d)
      BY <2>5, <3>1 DEF CurrentOf
    <3>3. d \in {2, 3}
      BY <3>1, <3>2 DEF Answering
    <3>4. 4 - d \in 1..(5 - d) /\ (4 - d) + d = 4
      BY <3>3
    <3>5. Len(c.timers) = 5 - d /\ c.timers[4 - d].kind = MockKinds[(4 - d) + d]
      BY <3>2, <3>4 DEF Answering
    <3>6. QED
      BY <2>6, <3>4, <3>5, MockKindsAre
  <2>9. \A i \in DOMAIN clients : i # me => clients[i].timers = <<>> /\
                                            ~(clients[i].mode = "mock" /\ clients[i].speaking)
    BY <2>3 DEF Quiet
  <2>10. QED
    BY <2>2, <2>4, <2>5, <2>7, <2>8, <2>9 DEF MockRepliesAreCurrent
<1>2. Init => ClientInv
  BY ClientStart
<1>3. ClientInv /\ [Next]_vars => ClientInv'
  BY ClientStep
<1>4. QED
  BY <1>1, <1>2, <1>3, PTL DEF Spec

-----------------------------------------------------------------------------
(* Frames of a timeline *)

\* Sorting the frames of a timeline: the result has each of them, and no other.
LEMMA SortFramesWhole ==
  ASSUME NEW frames \in Seq(Frames)
  PROVE  /\ SortFrames(frames) \in Seq(Frames) /\ Len(SortFrames(frames)) = Len(frames)
         /\ ToSet(SortFrames(frames)) = ToSet(frames)
<1>1. PICK n \in Nat : n = Len(frames)
  BY LenProperties
<1>2. DOMAIN frames = 1..n /\ \A i \in 1..n : frames[i] \in Frames /\ frames[i].at \in Int
  <2>1. DOMAIN frames = 1..n /\ \A i \in 1..n : frames[i] \in Frames
    BY <1>1, LenProperties, ElementOfSeq
  <2>2. QED
    BY <2>1 DEF Frames
<1> DEFINE Before(i, j) == \/ frames[i].at < frames[j].at
                           \/ frames[i].at = frames[j].at /\ i < j
           D == 1..n
           R == {p \in D \X D : Before(p[1], p[2])}
           order == CHOOSE s \in [DOMAIN frames -> DOMAIN frames] :
                      \A i, j \in DOMAIN frames : i < j => Before(s[i], s[j])
           r == SortFrames(frames)
<1>3. IsFiniteSet(D) /\ Cardinality(D) = n
  BY FS_Interval
<1>4. Orders(R, D)
  <2>1. \A i, j \in D : <<i, j>> \in R <=> Before(i, j)
    OBVIOUS
  <2>2. \A i \in D : ~Before(i, i)
    BY <1>2
  <2>3. \A i, j \in D : i # j => Before(i, j) \/ Before(j, i)
    BY <1>2
  <2>4. \A i, j, k \in D : Before(i, j) /\ Before(j, k) => Before(i, k)
    BY <1>2
  <2> HIDE DEF Before, R
  <2>5. QED
    BY <2>1, <2>2, <2>3, <2>4 DEF Orders
<1>5. PICK s : Sorts(s, n, D, R)
  <2> HIDE DEF R, D
  <2>1. QED
    BY <1>3, <1>4, SortedExists
<1>6. s \in [D -> D] /\ \A i, j \in D : i < j => Before(s[i], s[j])
  <2>1. s \in [1..n -> D] /\ \A i, j \in 1..n : i < j => <<s[i], s[j]>> \in R
    BY <1>5 DEF Sorts
  <2>2. QED
    BY <2>1
<1>7. order \in [D -> D] /\ \A i, j \in D : i < j => Before(order[i], order[j])
  <2> HIDE DEF Before
  <2>1. \E x \in [DOMAIN frames -> DOMAIN frames] :
           \A i, j \in DOMAIN frames : i < j => Before(x[i], x[j])
    BY <1>2, <1>6
  <2>2. QED
    BY <1>2, <2>1
<1>8. r = [i \in D |-> frames[order[i]]]
  <2>1. SortFrames(frames) = [i \in DOMAIN frames |-> frames[order[i]]]
    BY DEF SortFrames
  <2> HIDE DEF order
  <2>2. QED
    BY <1>2, <2>1
<1> HIDE DEF order, r
<1>9. Sorts(order, n, D, R)
  BY <1>7 DEF Sorts
<1>10. \A k \in D : \E i \in D : order[i] = k
  <2> HIDE DEF R
  <2>1. \A k \in D : \E i \in 1..Cardinality(D) : order[i] = k
    <3> HIDE DEF D
    <3>1. QED
      BY <1>3, <1>4, <1>9, SortedIsWhole
  <2>2. QED
    BY <1>3, <2>1
<1>11. r \in [1..n -> Frames]
  BY <1>2, <1>7, <1>8
<1>12. r \in Seq(Frames) /\ Len(r) = n
  BY <1>11
<1>13. ToSet(r) = {r[i] : i \in D} /\ ToSet(frames) = {frames[i] : i \in D}
  BY <1>2, <1>8 DEF ToSet
<1>14. {r[i] : i \in D} = {frames[i] : i \in D}
  BY <1>7, <1>8, <1>10
<1>15. QED
  BY <1>1, <1>12, <1>13, <1>14 DEF r

\* An edited timeline has the frames the edit gave it.
LEMMA EditedFrames ==
  ASSUME NEW frames \in Seq(Frames)
  PROVE  /\ Edited(frames).frames \in Seq(Frames) /\ Len(Edited(frames).frames) = Len(frames)
         /\ ToSet(Edited(frames).frames) = ToSet(frames)
<1>1. Edited(frames).frames = SortFrames(frames)
  BY DEF Edited, Normalized
<1>2. QED
  BY <1>1, SortFramesWhole

\* What the elements of a sequence are after one is removed or changed.
LEMMA Removed ==
  ASSUME NEW frames \in Seq(Frames), NEW i \in 1..Len(frames)
  PROVE  /\ RemoveAt(frames, i) \in Seq(Frames) /\ Len(RemoveAt(frames, i)) = Len(frames) - 1
         /\ ToSet(RemoveAt(frames, i)) \subseteq ToSet(frames)
<1>1. PICK n \in Nat : n = Len(frames)
  BY LenProperties
<1>2. i \in 1..n /\ DOMAIN frames = 1..n /\ \A k \in 1..n : frames[k] \in Frames
  BY <1>1, LenProperties, ElementOfSeq
<1>3. PICK a, b : a = SubSeq(frames, 1, i - 1) /\ b = SubSeq(frames, i + 1, n)
  OBVIOUS
<1>4. /\ a \in Seq(Frames) /\ Len(a) = i - 1 /\ \A k \in 1..(i - 1) : a[k] = frames[k]
  <2>1. PICK m \in Int : m = i - 1
    BY <1>2
  <2>2. \A k \in 1..m : frames[k] \in Frames
    BY <1>2, <2>1
  <2>3. /\ SubSeq(frames, 1, m) \in Seq(Frames)
        /\ Len(SubSeq(frames, 1, m)) = IF 1 <= m THEN m - 1 + 1 ELSE 0
        /\ \A k \in 1..(m - 1 + 1) : SubSeq(frames, 1, m)[k] = frames[1 + k - 1]
    BY <2>2, SubSeqProperties
  <2>4. QED
    BY <1>2, <1>3, <2>1, <2>3
<1>5. /\ b \in Seq(Frames) /\ Len(b) = n - i /\ \A k \in 1..(n - i) : b[k] = frames[i + k]
  <2>1. PICK m \in Int : m = i + 1
    BY <1>2
  <2>2. \A k \in m..n : frames[k] \in Frames
    BY <1>2, <2>1
  <2>3. /\ SubSeq(frames, m, n) \in Seq(Frames)
        /\ Len(SubSeq(frames, m, n)) = IF m <= n THEN n - m + 1 ELSE 0
        /\ \A k \in 1..(n - m + 1) : SubSeq(frames, m, n)[k] = frames[m + k - 1]
    BY <2>2, SubSeqProperties
  <2>4. \A k \in 1..(n - i) : m + k - 1 = i + k /\ k \in 1..(n - m + 1)
    BY <1>2, <2>1
  <2>5. QED
    BY <1>2, <1>3, <2>1, <2>3, <2>4
<1>6. PICK r : r = RemoveAt(frames, i)
  OBVIOUS
<1>7. r = a \o b
  BY <1>1, <1>3, <1>6 DEF RemoveAt
<1>8. /\ r \in Seq(Frames) /\ Len(r) = n - 1
      /\ \A k \in 1..(n - 1) : r[k] = IF k <= i - 1 THEN a[k] ELSE b[k - (i - 1)]
  <2>1. /\ a \o b \in Seq(Frames) /\ Len(a \o b) = Len(a) + Len(b)
        /\ \A k \in 1..(Len(a) + Len(b)) : (a \o b)[k] = IF k <= Len(a) THEN a[k] ELSE b[k - Len(a)]
    BY <1>4, <1>5, ConcatProperties
  <2>2. Len(a) + Len(b) = n - 1
    BY <1>2, <1>4, <1>5
  <2>3. QED
    BY <1>4, <1>7, <2>1, <2>2
<1>9. ASSUME NEW k \in 1..(n - 1)
      PROVE  \E j \in 1..n : r[k] = frames[j]
  <2>1. CASE k <= i - 1
    BY <1>2, <1>4, <1>8, <2>1
  <2>2. CASE ~(k <= i - 1)
    <3>1. k - (i - 1) \in 1..(n - i) /\ i + (k - (i - 1)) = k + 1 /\ k + 1 \in 1..n
      BY <1>2, <2>2
    <3>2. r[k] = b[k - (i - 1)]
      BY <1>8, <2>2
    <3>3. b[k - (i - 1)] = frames[i + (k - (i - 1))]
      BY <1>5, <3>1
    <3>4. QED
      BY <3>1, <3>2, <3>3
  <2>3. QED
    BY <2>1, <2>2
<1>10. DOMAIN r = 1..(n - 1)
  BY <1>8, LenProperties
<1>11. ToSet(r) \subseteq ToSet(frames)
  BY <1>2, <1>9, <1>10 DEF ToSet
<1>12. QED
  BY <1>1, <1>6, <1>8, <1>11

-----------------------------------------------------------------------------
(* The library *)

\* Every behaviour has frames.
LibraryTyped(lib) ==
  /\ DOMAIN lib \subseteq Ids /\ lib = [id \in DOMAIN lib |-> lib[id]]
  /\ \A id \in DOMAIN lib : lib[id].frames \in Seq(Frames) /\ lib[id].frames # <<>>

\* The selected behaviour is in the library, and the selected frame in it.
LibraryInv ==
  /\ LibraryTyped(library) /\ editor \in Profiles
  /\ frame \in Nat \ {0}
  /\ DOMAIN library # {} => selected \in DOMAIN library /\ frame <= Len(Current.frames)

\* A library without behaviours is the empty one.
LEMMA SomeBehavior ==
  ASSUME LibraryInv, ~Empty
  PROVE  /\ selected \in DOMAIN library /\ Current = library[selected]
         /\ Current.frames \in Seq(Frames) /\ Len(Current.frames) \in Nat
         /\ frame \in 1..Len(Current.frames) /\ Current.frames[frame] \in Frames
<1>1. DOMAIN library # {}
  <2>1. SUFFICES ASSUME DOMAIN library = {}
                 PROVE  library = <<>>
    BY DEF Empty
  <2>2. library \in [{} -> Nat]
    BY <2>1 DEF LibraryInv, LibraryTyped
  <2>3. <<>> \in [{} -> Nat]
    OBVIOUS
  <2>4. QED
    BY <2>2, <2>3
<1>2. selected \in DOMAIN library /\ frame <= Len(Current.frames) /\ Current.frames \in Seq(Frames)
  BY <1>1 DEF LibraryInv, LibraryTyped, Current
<1>3. Len(Current.frames) \in Nat /\ frame \in 1..Len(Current.frames)
  BY <1>2, LenProperties DEF LibraryInv
<1>4. QED
  BY <1>2, <1>3, ElementOfSeq DEF Current

\* A timeline with frames.
LEMMA NotEmpty ==
  ASSUME NEW f \in Seq(Frames), f # <<>>
  PROVE  Len(f) \in Nat /\ Len(f) > 0
<1>1. Len(f) \in Nat /\ Len(f) # 0
  BY EmptySeq, LenProperties
<1>2. QED
  BY <1>1

\* The frame the page selects after an edit.
LEMMA FrameWithin ==
  ASSUME NEW i \in Nat \ {0}, NEW n \in Nat \ {0}
  PROVE  Min({i, n}) \in Nat \ {0} /\ Min({i, n}) <= n
<1> DEFINE S == {i, n}
<1>1. S \in SUBSET Nat /\ S # {} /\ n \in S /\ 0 \notin S
  OBVIOUS
<1> HIDE DEF S
<1>2. Min(S) \in S /\ Min(S) <= n
  BY <1>1, MinOf
<1>3. QED
  BY <1>1, <1>2 DEF S

\* One behaviour of the library changes, or is added.
LEMMA PutTyped ==
  ASSUME NEW lib, LibraryTyped(lib), NEW id \in Ids, NEW t, t.frames \in Seq(Frames), t.frames # <<>>
  PROVE  /\ LibraryTyped(Put(lib, id, t)) /\ Put(lib, id, t)[id] = t /\ id \in DOMAIN Put(lib, id, t)
         /\ \A k \in DOMAIN lib : k # id => Put(lib, id, t)[k] = lib[k]
BY DEF Put, LibraryTyped

\* A behaviour of the library is replaced.
LEMMA ExceptTyped ==
  ASSUME NEW lib, LibraryTyped(lib), NEW id \in DOMAIN lib, NEW t,
         t.frames \in Seq(Frames), t.frames # <<>>,
         NEW next, next = [lib EXCEPT ![id] = t]
  PROVE  /\ LibraryTyped(next) /\ next[id] = t /\ DOMAIN next = DOMAIN lib
         /\ \A k \in DOMAIN lib : k # id => next[k] = lib[k]
BY DEF LibraryTyped

\* An edit of the selected behaviour keeps the invariant.
LEMMA UpdateInv ==
  ASSUME LibraryInv, profile \in Profiles, ~Empty,
         NEW frames \in Seq(Frames), frames # <<>>, NEW i \in Nat \ {0}, Update(frames, i)
  PROVE  LibraryInv'
<1>1. PICK t : t = Edited(frames)
  OBVIOUS
<1>2. t.frames \in Seq(Frames) /\ Len(t.frames) = Len(frames) /\ t.frames # <<>>
  <2>1. t.frames \in Seq(Frames) /\ Len(t.frames) = Len(frames)
    BY <1>1, EditedFrames
  <2>2. Len(frames) > 0
    BY NotEmpty
  <2>3. QED
    BY <2>1, <2>2, EmptySeq
<1>3. PICK lib : lib = library'
  OBVIOUS
<1>4. lib = [library EXCEPT ![selected] = t] /\ frame' = Min({i, Len(frames)})
      /\ selected' = selected /\ editor' = profile
  BY <1>1, <1>3 DEF Update
<1>5. LibraryTyped(lib) /\ lib[selected] = t /\ DOMAIN lib = DOMAIN library /\ selected \in DOMAIN lib
  BY <1>2, <1>4, SomeBehavior, ExceptTyped DEF LibraryInv
<1>6. PICK n \in Nat \ {0} : n = Len(frames)
  BY NotEmpty
<1>7. frame' \in Nat \ {0} /\ frame' <= n
  BY <1>4, <1>6, FrameWithin
<1>8. frame' <= Len(lib[selected].frames)
  BY <1>2, <1>5, <1>6, <1>7
<1>9. QED
  BY <1>3, <1>4, <1>5, <1>7, <1>8 DEF LibraryInv, Current

\* So does a new behaviour.
LEMMA AddedInv ==
  ASSUME LibraryInv, profile \in Profiles, NEW id \in Ids,
         NEW frames \in Seq(Frames), frames # <<>>, Added(id, frames)
  PROVE  LibraryInv'
<1>1. PICK t : t = Edited(frames)
  OBVIOUS
<1>2. t.frames \in Seq(Frames) /\ Len(t.frames) = Len(frames) /\ t.frames # <<>> /\ Len(t.frames) \in Nat
      /\ Len(t.frames) > 0
  <2>1. t.frames \in Seq(Frames) /\ Len(t.frames) = Len(frames)
    BY <1>1, EditedFrames
  <2>2. Len(frames) > 0 /\ Len(frames) \in Nat
    BY NotEmpty
  <2>3. QED
    BY <2>1, <2>2, EmptySeq
<1>3. PICK lib : lib = library'
  OBVIOUS
<1>4. lib = Put(library, id, t) /\ frame' = 1 /\ selected' = id /\ editor' = profile
  BY <1>1, <1>3 DEF Added
<1>5. LibraryTyped(lib) /\ lib[id] = t /\ id \in DOMAIN lib
  BY <1>2, <1>4, PutTyped DEF LibraryInv
<1>6. QED
  BY <1>2, <1>3, <1>4, <1>5 DEF LibraryInv, Current

\* What loads is a library.
LEMMA LoadedTyped ==
  ASSUME NEW file \in Seq(Ids \X Timelines), Loadable(file)
  PROVE  LibraryTyped(LoadDefinitions(file)) /\ (file # <<>> => DOMAIN LoadDefinitions(file) # {})
<1>1. PICK n \in Nat : n = Len(file)
  BY LenProperties
<1>2. DOMAIN file = 1..n /\ \A i \in 1..n : file[i] \in Ids \X Timelines
  BY <1>1, LenProperties, ElementOfSeq
<1>3. PICK lib : lib = LoadDefinitions(file)
  OBVIOUS
<1> DEFINE first(id) == CHOOSE i \in DOMAIN file : file[i][1] = id
           D == {file[i][1] : i \in DOMAIN file}
<1>4. lib = [id \in D |-> Normalized(file[first(id)][2])]
  BY <1>3 DEF LoadDefinitions
<1>5. \A id \in D : first(id) \in 1..n
  BY <1>2
<1> HIDE DEF first
<1>6. ASSUME NEW id \in D
      PROVE  lib[id].frames \in Seq(Frames) /\ lib[id].frames # <<>>
  <2>1. PICK t : t = file[first(id)][2]
    OBVIOUS
  <2>2. t \in Timelines /\ ValidTimeline(Normalized(t))
    BY <1>2, <1>5, <2>1 DEF Loadable
  <2>3. lib[id] = Normalized(t)
    BY <1>4, <2>1
  <2>4. t.frames \in Seq(Frames) /\ Normalized(t).frames = SortFrames(t.frames)
    BY <2>2 DEF Timelines, Normalized
  <2>5. Normalized(t).frames # <<>>
    BY <2>2 DEF ValidTimeline
  <2>6. PICK f \in Seq(Frames) : f = t.frames
    BY <2>4
  <2>7. SortFrames(f) \in Seq(Frames)
    BY SortFramesWhole
  <2>8. QED
    BY <2>3, <2>4, <2>5, <2>6, <2>7
<1>7. D \subseteq Ids
  BY <1>2
<1>8. LibraryTyped(lib)
  BY <1>4, <1>6, <1>7 DEF LibraryTyped
<1>9. ASSUME file # <<>>
      PROVE  DOMAIN lib # {}
  <2>1. n # 0
    BY <1>1, <1>9, EmptySeq, LenProperties
  <2>2. file[1][1] \in D
    BY <1>1, <1>2, <2>1
  <2>3. QED
    BY <1>4, <2>2
<1>10. QED
  BY <1>3, <1>8, <1>9

-----------------------------------------------------------------------------
(* What edits leave alone *)

\* What a frame says of outputs and joints that the editor does not show.
HiddenIn(f) == <<Restrict(f.looks, DOMAIN f.looks \ editor.looks),
                 Restrict(f.joints, DOMAIN f.joints \ editor.joints)>>
HiddenOf(frames) == {HiddenIn(f) : f \in ToSet(frames)}

\* A value for something that is shown.
LEMMA PutShown ==
  ASSUME NEW f, NEW k, NEW v, NEW E, k \in E
  PROVE  Restrict(Put(f, k, v), DOMAIN Put(f, k, v) \ E) = Restrict(f, DOMAIN f \ E)
<1>1. PICK g : g = Put(f, k, v)
  OBVIOUS
<1>2. DOMAIN g = DOMAIN f \cup {k} /\ \A x \in DOMAIN f : x # k => g[x] = f[x]
  BY <1>1 DEF Put
<1>3. DOMAIN g \ E = DOMAIN f \ E /\ \A x \in DOMAIN f \ E : g[x] = f[x]
  BY <1>2
<1>4. QED
  BY <1>1, <1>3 DEF Restrict

\* The values stay values of outputs, or joints.
LEMMA PutInto ==
  ASSUME NEW X, NEW V, NEW f \in UNION {[K -> V] : K \in SUBSET X}, NEW k \in X, NEW v \in V
  PROVE  Put(f, k, v) \in UNION {[K -> V] : K \in SUBSET X}
<1>1. PICK K \in SUBSET X : f \in [K -> V]
  OBVIOUS
<1>2. PICK L \in SUBSET X : L = K \cup {k}
  OBVIOUS
<1>3. Put(f, k, v) \in [L -> V]
  BY <1>1, <1>2 DEF Put
<1>4. QED
  BY <1>3

\* The frames an edit makes of a frame: what is hidden stays in them.
LEMMA FrameEdits ==
  ASSUME LibraryInv, NEW f \in Frames
  PROVE  /\ \A after \in Int : LET g == [f EXCEPT !.at = @ + after]
                               IN  g \in Frames /\ HiddenIn(g) = HiddenIn(f)
         /\ \A at \in Int, dur \in Int : LET g == [f EXCEPT !.at = at, !.dur = dur]
                                         IN  g \in Frames /\ HiddenIn(g) = HiddenIn(f)
         /\ \A k \in Outputs, v \in LookValues :
              k \in editor.looks => LET g == [f EXCEPT !.looks = Put(@, k, v)]
                                    IN  g \in Frames /\ HiddenIn(g) = HiddenIn(f)
         /\ \A j \in editor.joints, v \in JointValues :
              LET g == [f EXCEPT !.joints = Put(@, j, v)]
              IN  g \in Frames /\ HiddenIn(g) = HiddenIn(f)
<1> DEFINE LooksSet == UNION {[K -> LookValues] : K \in SUBSET Outputs}
           JointsSet == UNION {[K -> JointValues] : K \in SUBSET JointIds}
<1>1. Frames = [at : Int, dur : Int, looks : LooksSet, joints : JointsSet]
  BY DEF Frames
<1> HIDE DEF LooksSet, JointsSet
<1>2. f.at \in Int /\ f.dur \in Int /\ f.looks \in LooksSet /\ f.joints \in JointsSet
  BY <1>1
<1>3. \A a, d \in Int, l \in LooksSet, j \in JointsSet :
         [at |-> a, dur |-> d, looks |-> l, joints |-> j] \in Frames
  BY <1>1
<1>4. f = [at |-> f.at, dur |-> f.dur, looks |-> f.looks, joints |-> f.joints]
  BY <1>1
<1>5. ASSUME NEW g \in Frames, g.looks = f.looks, g.joints = f.joints
      PROVE  HiddenIn(g) = HiddenIn(f)
  BY <1>5 DEF HiddenIn
<1>6. ASSUME NEW a \in Int, NEW d \in Int, NEW g, g = [f EXCEPT !.at = a, !.dur = d]
      PROVE  g \in Frames /\ HiddenIn(g) = HiddenIn(f)
  <2>1. g = [at |-> a, dur |-> d, looks |-> f.looks, joints |-> f.joints]
    BY <1>4, <1>6
  <2>2. g \in Frames /\ g.looks = f.looks /\ g.joints = f.joints
    BY <1>2, <1>3, <2>1
  <2>3. QED
    BY <1>5, <2>2
<1>7. ASSUME NEW after \in Int, NEW g, g = [f EXCEPT !.at = @ + after]
      PROVE  g \in Frames /\ HiddenIn(g) = HiddenIn(f)
  <2>1. g = [at |-> f.at + after, dur |-> f.dur, looks |-> f.looks, joints |-> f.joints]
    BY <1>4, <1>7
  <2>2. g \in Frames /\ g.looks = f.looks /\ g.joints = f.joints
    BY <1>2, <1>3, <2>1
  <2>3. QED
    BY <1>5, <2>2
<1>8. ASSUME NEW k \in Outputs, NEW v \in LookValues, k \in editor.looks,
             NEW g, g = [f EXCEPT !.looks = Put(@, k, v)]
      PROVE  g \in Frames /\ HiddenIn(g) = HiddenIn(f)
  <2>1. PICK l : l = Put(f.looks, k, v)
    OBVIOUS
  <2>2. l \in LooksSet
    <3>1. PICK x : x = f.looks
      OBVIOUS
    <3>2. x \in UNION {[K -> LookValues] : K \in SUBSET Outputs}
      BY <1>2, <3>1 DEF LooksSet
    <3>3. Put(x, k, v) \in UNION {[K -> LookValues] : K \in SUBSET Outputs}
      BY <3>2, PutInto
    <3>4. QED
      BY <2>1, <3>1, <3>3 DEF LooksSet
  <2>3. g = [at |-> f.at, dur |-> f.dur, looks |-> l, joints |-> f.joints]
    BY <1>4, <1>8, <2>1
  <2>4. g \in Frames /\ g.looks = l /\ g.joints = f.joints
    BY <1>2, <1>3, <2>2, <2>3
  <2>5. PICK E : E = editor.looks
    OBVIOUS
  <2>6. Restrict(l, DOMAIN l \ E) = Restrict(f.looks, DOMAIN f.looks \ E)
    BY <1>8, <2>1, <2>5, PutShown
  <2>7. QED
    BY <2>4, <2>5, <2>6 DEF HiddenIn
<1>9. ASSUME NEW k \in editor.joints, NEW v \in JointValues, NEW g, g = [f EXCEPT !.joints = Put(@, k, v)]
      PROVE  g \in Frames /\ HiddenIn(g) = HiddenIn(f)
  <2>1. PICK l : l = Put(f.joints, k, v)
    OBVIOUS
  <2>2. l \in JointsSet
    <3>1. PICK x : x = f.joints
      OBVIOUS
    <3>2. x \in UNION {[K -> JointValues] : K \in SUBSET JointIds}
      BY <1>2, <3>1 DEF JointsSet
    <3>3. k \in JointIds
      BY BehaviorsAssumption DEF LibraryInv
    <3>4. Put(x, k, v) \in UNION {[K -> JointValues] : K \in SUBSET JointIds}
      BY <3>2, <3>3, PutInto
    <3>5. QED
      BY <2>1, <3>1, <3>4 DEF JointsSet
  <2>3. g = [at |-> f.at, dur |-> f.dur, looks |-> f.looks, joints |-> l]
    BY <1>4, <1>9, <2>1
  <2>4. g \in Frames /\ g.looks = f.looks /\ g.joints = l
    BY <1>2, <1>3, <2>2, <2>3
  <2>5. PICK E : E = editor.joints
    OBVIOUS
  <2>6. Restrict(l, DOMAIN l \ E) = Restrict(f.joints, DOMAIN f.joints \ E)
    BY <1>9, <2>1, <2>5, PutShown
  <2>7. QED
    BY <2>4, <2>5, <2>6 DEF HiddenIn
<1>10. QED
  BY <1>6, <1>7, <1>8, <1>9

\* An edit of the selected behaviour: nothing hidden is made up, nor lost
\* unless a frame goes.
EditsTo(old, frames) ==
  /\ frames \in Seq(Frames) /\ frames # <<>>
  /\ HiddenOf(frames) \subseteq HiddenOf(old)
  /\ Len(frames) >= Len(old) => HiddenOf(old) \subseteq HiddenOf(frames)

\* One frame takes the place of another, or comes beside it.
LEMMA FrameReplaced ==
  ASSUME NEW old \in Seq(Frames), NEW i \in 1..Len(old), NEW new \in Frames,
         HiddenIn(new) = HiddenIn(old[i])
  PROVE  EditsTo(old, [old EXCEPT ![i] = new])
<1>1. PICK n \in Nat : n = Len(old)
  BY LenProperties
<1>2. PICK r : r = [old EXCEPT ![i] = new]
  OBVIOUS
<1>3. r \in Seq(Frames) /\ Len(r) = n /\ \A j \in 1..n : r[j] = IF j = i THEN new ELSE old[j]
  BY <1>1, <1>2, ExceptSeq
<1>4. DOMAIN old = 1..n /\ DOMAIN r = 1..n /\ i \in 1..n
  BY <1>1, <1>3, LenProperties
<1>5. r # <<>>
  BY <1>3, <1>4, EmptySeq
<1>6. \A j \in 1..n : HiddenIn(r[j]) = HiddenIn(old[j])
  BY <1>3
<1>7. HiddenOf(r) = HiddenOf(old)
  BY <1>4, <1>6 DEF HiddenOf, ToSet
<1>8. QED
  BY <1>2, <1>3, <1>5, <1>7 DEF EditsTo

\* A frame is put beside another, and the frames sorted.
LEMMA FrameInserted ==
  ASSUME NEW old \in Seq(Frames), NEW i \in 1..Len(old), NEW new \in Frames,
         HiddenIn(new) = HiddenIn(old[i])
  PROVE  EditsTo(old, SortFrames(Append(old, new)))
<1>1. PICK n \in Nat : n = Len(old)
  BY LenProperties
<1>2. PICK a : a = Append(old, new)
  OBVIOUS
<1>3. a \in Seq(Frames) /\ Len(a) = n + 1 /\ a[n + 1] = new /\ \A j \in 1..n : a[j] = old[j]
  BY <1>1, <1>2, AppendProperties
<1>4. DOMAIN old = 1..n /\ DOMAIN a = 1..(n + 1) /\ i \in 1..n
  BY <1>1, <1>3, LenProperties
<1>5. HiddenOf(a) = HiddenOf(old)
  <2>1. \A j \in 1..(n + 1) : \E k \in 1..n : HiddenIn(a[j]) = HiddenIn(old[k])
    BY <1>3, <1>4
  <2>2. \A k \in 1..n : \E j \in 1..(n + 1) : HiddenIn(a[j]) = HiddenIn(old[k])
    BY <1>3
  <2>3. QED
    <3>1. /\ HiddenOf(a) = {HiddenIn(a[j]) : j \in 1..(n + 1)}
          /\ HiddenOf(old) = {HiddenIn(old[k]) : k \in 1..n}
      BY <1>4 DEF HiddenOf, ToSet
    <3>2. QED
      BY <2>1, <2>2, <3>1
<1>6. PICK r : r = SortFrames(a)
  OBVIOUS
<1>7. r \in Seq(Frames) /\ Len(r) = n + 1 /\ ToSet(r) = ToSet(a)
  BY <1>3, <1>6, SortFramesWhole
<1>8. r # <<>> /\ HiddenOf(r) = HiddenOf(old)
  <2>1. Len(r) # 0
    BY <1>1, <1>7
  <2>2. HiddenOf(r) = HiddenOf(a)
    BY <1>7 DEF HiddenOf
  <2>3. QED
    BY <1>5, <2>1, <2>2, EmptySeq
<1>9. QED
  BY <1>2, <1>6, <1>7, <1>8 DEF EditsTo

\* A frame goes.
LEMMA FrameRemoved ==
  ASSUME NEW old \in Seq(Frames), NEW i \in 1..Len(old), Len(old) > 1
  PROVE  EditsTo(old, RemoveAt(old, i))
<1>1. PICK n \in Nat : n = Len(old)
  BY LenProperties
<1>2. PICK r : r = RemoveAt(old, i)
  OBVIOUS
<1>3. r \in Seq(Frames) /\ Len(r) = n - 1 /\ ToSet(r) \subseteq ToSet(old)
  BY <1>1, <1>2, Removed
<1>4. r # <<>> /\ HiddenOf(r) \subseteq HiddenOf(old) /\ ~(Len(r) >= n)
  BY <1>1, <1>3, EmptySeq DEF HiddenOf
<1>5. QED
  BY <1>1, <1>2, <1>3, <1>4 DEF EditsTo

\* What the edits of a behaviour do to its frames.
LEMMA EditOf ==
  ASSUME LibraryInv,
         \/ AddFrame \/ DuplicateFrame \/ DeleteFrame \/ Rename
         \/ \E at \in Times, dur \in Times : UpdateTiming(at, dur)
         \/ \E k \in Outputs, v \in LookValues : UpdateLook(k, v)
         \/ \E j \in editor.joints, v \in JointValues : UpdateJoint(j, v)
  PROVE  ~Empty /\ \E frames, i : /\ EditsTo(Current.frames, frames) /\ i \in Nat \ {0}
                                  /\ Update(frames, i)
<1>1. ~Empty
  BY DEF AddFrame, DuplicateFrame, DeleteFrame, Rename, UpdateTiming, UpdateLook, UpdateJoint
<1>2. PICK old \in Seq(Frames) : old = Current.frames
  BY <1>1, SomeBehavior
<1>3. PICK n \in Nat : n = Len(old)
  BY LenProperties
<1>4. frame \in 1..n /\ old[frame] \in Frames /\ frame \in Nat \ {0}
  BY <1>1, <1>2, <1>3, SomeBehavior
<1>5. PICK i : i = frame
  OBVIOUS
<1>6. PICK f \in Frames : f = old[i]
  BY <1>4, <1>5
<1> DEFINE Goal == \E frames, k : EditsTo(old, frames) /\ k \in Nat \ {0} /\ Update(frames, k)
<1>7. ASSUME NEW after \in Int, Inserted(after)
      PROVE  Goal
  <2>1. PICK new : new = [f EXCEPT !.at = @ + after]
    OBVIOUS
  <2>2. new \in Frames /\ HiddenIn(new) = HiddenIn(f)
    BY <2>1, FrameEdits
  <2>3. PICK k : k = Cardinality({x \in DOMAIN old : old[x].at <= new.at}) + 1
    OBVIOUS
  <2>4. k \in Nat \ {0}
    <3>1. PICK S : S = {x \in DOMAIN old : old[x].at <= new.at}
      OBVIOUS
    <3>2. S \in SUBSET (1..n)
      BY <1>3, <3>1, LenProperties
    <3>3. IsFiniteSet(S)
      <4>1. IsFiniteSet(1..n)
        BY FS_Interval
      <4>2. QED
        BY <3>2, <4>1, FS_Subset
    <3>4. Cardinality(S) \in Nat
      BY <3>3, FS_CardinalityType
    <3>5. QED
      BY <2>3, <3>1, <3>4
  <2>5. Update(SortFrames(Append(old, new)), k)
    BY <1>2, <1>5, <1>6, <1>7, <2>1, <2>3 DEF Inserted
  <2>6. EditsTo(old, SortFrames(Append(old, new)))
    BY <1>3, <1>4, <1>5, <1>6, <2>2, FrameInserted
  <2>7. QED
    BY <2>4, <2>5, <2>6
<1>8. ASSUME NEW new \in Frames, HiddenIn(new) = HiddenIn(f), UpdateFrame(new)
      PROVE  Goal
  <2>1. Update([old EXCEPT ![i] = new], i)
    BY <1>2, <1>5, <1>8 DEF UpdateFrame
  <2>2. EditsTo(old, [old EXCEPT ![i] = new])
    BY <1>3, <1>4, <1>5, <1>6, <1>8, FrameReplaced
  <2>3. QED
    BY <1>4, <1>5, <2>1, <2>2
<1>9. CASE AddFrame \/ DuplicateFrame
  <2>1. \E after : Inserted(after) /\ (after = 1 \/ after = f.dur)
    BY <1>2, <1>5, <1>6, <1>9 DEF AddFrame, DuplicateFrame
  <2>2. f.dur \in Int
    BY DEF Frames
  <2> HIDE DEF Goal
  <2>3. QED
    BY <1>1, <1>2, <1>7, <2>1, <2>2 DEF Goal
<1>10. CASE DeleteFrame
  <2>1. Update(RemoveAt(old, i), Min({i, n - 1})) /\ n > 1
    BY <1>2, <1>3, <1>5, <1>10 DEF DeleteFrame
  <2>2. EditsTo(old, RemoveAt(old, i))
    BY <1>3, <1>4, <1>5, <2>1, FrameRemoved
  <2>3. PICK m \in Nat \ {0} : m = n - 1
    BY <2>1
  <2>4. Min({i, m}) \in Nat \ {0}
    BY <1>4, <1>5, FrameWithin
  <2>5. QED
    BY <1>1, <1>2, <2>1, <2>2, <2>3, <2>4
<1>11. CASE Rename
  <2>1. Update(old, i)
    BY <1>2, <1>5, <1>11 DEF Rename
  <2>2. old # <<>>
    BY <1>3, <1>4, EmptySeq
  <2>3. EditsTo(old, old)
    BY <2>2 DEF EditsTo
  <2>4. QED
    BY <1>1, <1>2, <1>4, <1>5, <2>1, <2>3
<1>12. ASSUME NEW at \in Times, NEW dur \in Times, UpdateTiming(at, dur)
       PROVE  Goal
  <2>1. PICK new : new = [f EXCEPT !.at = at, !.dur = dur]
    OBVIOUS
  <2>2. at \in Int /\ dur \in Int
    BY BehaviorsAssumption
  <2>3. new \in Frames /\ HiddenIn(new) = HiddenIn(f)
    BY <2>1, <2>2, FrameEdits
  <2>4. UpdateFrame(new)
    BY <1>2, <1>5, <1>6, <1>12, <2>1 DEF UpdateTiming
  <2>5. QED
    BY <1>8, <2>3, <2>4
<1>13. ASSUME NEW k \in Outputs, NEW v \in LookValues, UpdateLook(k, v)
       PROVE  Goal
  <2>1. PICK new : new = [f EXCEPT !.looks = Put(@, k, v)]
    OBVIOUS
  <2>2. k \in editor.looks
    BY <1>13 DEF UpdateLook
  <2>3. new \in Frames /\ HiddenIn(new) = HiddenIn(f)
    BY <2>1, <2>2, FrameEdits
  <2>4. UpdateFrame(new)
    BY <1>2, <1>5, <1>6, <1>13, <2>1 DEF UpdateLook
  <2>5. QED
    BY <1>8, <2>3, <2>4
<1>14. ASSUME NEW k \in editor.joints, NEW v \in JointValues, UpdateJoint(k, v)
       PROVE  Goal
  <2>1. PICK new : new = [f EXCEPT !.joints = Put(@, k, v)]
    OBVIOUS
  <2>2. new \in Frames /\ HiddenIn(new) = HiddenIn(f)
    BY <2>1, FrameEdits
  <2>3. UpdateFrame(new)
    BY <1>2, <1>5, <1>6, <1>14, <2>1 DEF UpdateJoint
  <2>4. QED
    BY <1>8, <2>2, <2>3
<1>15. CASE \/ \E at \in Times, dur \in Times : UpdateTiming(at, dur)
            \/ \E k \in Outputs, v \in LookValues : UpdateLook(k, v)
            \/ \E j \in editor.joints, v \in JointValues : UpdateJoint(j, v)
  <2> HIDE DEF Goal
  <2>1. Goal
    BY <1>12, <1>13, <1>14, <1>15
  <2>2. QED
    BY <1>1, <1>2, <2>1 DEF Goal
<1>16. QED
  BY <1>9, <1>10, <1>11, <1>15

\* The steps that have nothing to do with the library.
LEMMA LibraryLeft ==
  ASSUME LibraryInv, profile \in Profiles, profile' \in Profiles, UNCHANGED library,
         editor' \in {editor, profile, profile'},
         \/ UNCHANGED <<selected, frame>>
         \/ UNCHANGED selected /\ frame' = 1
         \/ selected' \in DOMAIN library /\ frame' = 1
         \/ UNCHANGED selected /\ ~Empty /\ frame' \in 1..Len(Current.frames)
  PROVE  LibraryInv'
<1>1. PICK lib : lib = library
  OBVIOUS
<1>2. \A id \in DOMAIN lib : lib[id].frames \in Seq(Frames) /\ 1 <= Len(lib[id].frames)
  <2>1. \A id \in DOMAIN lib : lib[id].frames \in Seq(Frames) /\ lib[id].frames # <<>>
    BY <1>1 DEF LibraryInv, LibraryTyped
  <2>2. \A f \in Seq(Frames) : f # <<>> => 1 <= Len(f)
    BY NotEmpty
  <2>3. QED
    BY <2>1, <2>2
<1>3. frame' \in Nat \ {0}
  <2>1. frame' \in 1..Len(Current.frames) /\ ~Empty => frame' \in Nat \ {0}
    BY SomeBehavior
  <2>2. QED
    BY <2>1 DEF LibraryInv
<1>4. DOMAIN lib # {} => selected' \in DOMAIN lib /\ frame' <= Len(lib[selected'].frames)
  <2>1. SUFFICES ASSUME DOMAIN lib # {}
                 PROVE  selected' \in DOMAIN lib /\ frame' <= Len(lib[selected'].frames)
    OBVIOUS
  <2>2. selected \in DOMAIN lib /\ frame <= Len(lib[selected].frames)
    BY <1>1, <2>1 DEF LibraryInv, Current
  <2>3. frame' \in 1..Len(Current.frames) /\ ~Empty => frame' <= Len(lib[selected].frames)
    BY <1>1, SomeBehavior
  <2>4. QED
    BY <1>1, <1>2, <2>2, <2>3
<1>5. QED
  BY <1>1, <1>3, <1>4 DEF LibraryInv, Current

\* A behaviour is deleted.
LEMMA DeleteInv ==
  ASSUME LibraryInv, profile \in Profiles, DeleteBehavior
  PROVE  LibraryInv'
<1>1. PICK rest : rest = DOMAIN library \ {selected}
  OBVIOUS
<1>2. /\ library' = (IF rest = {} THEN library ELSE Restrict(library, rest))
      /\ selected' = (IF rest = {} THEN selected ELSE Min(rest))
      /\ frame' = (IF rest = {} THEN frame ELSE 1)
      /\ editor' = profile /\ UNCHANGED profile
  BY <1>1 DEF DeleteBehavior
<1>3. CASE rest = {}
  <2>1. UNCHANGED <<library, selected, frame>>
    BY <1>2, <1>3
  <2>2. QED
    BY <1>2, <2>1, LibraryLeft
<1>4. CASE rest # {}
  <2>1. rest \in SUBSET Nat
    BY <1>1, BehaviorsAssumption DEF LibraryInv, LibraryTyped
  <2>2. PICK id \in rest : id = Min(rest)
    BY <1>4, <2>1, MinOf
  <2>3. PICK lib : lib = Restrict(library, rest)
    OBVIOUS
  <2>4. LibraryTyped(lib) /\ id \in DOMAIN lib
    BY <1>1, <2>3 DEF LibraryInv, LibraryTyped, Restrict
  <2>5. lib[id].frames \in Seq(Frames) /\ lib[id].frames # <<>>
    BY <2>4 DEF LibraryTyped
  <2>6. PICK f \in Seq(Frames) : f = lib[id].frames
    BY <2>5
  <2>7. 1 <= Len(f)
    BY <2>5, <2>6, NotEmpty
  <2>8. library' = lib /\ selected' = id /\ frame' = 1
    BY <1>2, <1>4, <2>2, <2>3
  <2>9. QED
    BY <1>2, <2>4, <2>6, <2>7, <2>8 DEF LibraryInv, Current
<1>5. QED
  BY <1>3, <1>4

\* A file is loaded.
LEMMA ImportInv ==
  ASSUME LibraryInv, profile \in Profiles, NEW file \in Files, ImportFile(file)
  PROVE  LibraryInv'
<1>1. PICK lib : lib = LoadDefinitions(file)
  OBVIOUS
<1>2. file \in Seq(Ids \X Timelines) /\ Loadable(file) /\ library' = lib /\ UNCHANGED editor
  BY <1>1, BehaviorsAssumption DEF ImportFile
<1>3. LibraryTyped(lib) /\ (file # <<>> => DOMAIN lib # {})
  BY <1>1, <1>2, LoadedTyped
<1>4. CASE file = <<>>
  <2>1. DOMAIN file = {}
    BY <1>4
  <2>2. DOMAIN lib = {}
    BY <1>1, <2>1 DEF LoadDefinitions
  <2>3. UNCHANGED <<selected, frame>>
    BY <1>4 DEF ImportFile
  <2>4. QED
    BY <1>2, <1>3, <2>2, <2>3 DEF LibraryInv
<1>5. CASE file # <<>>
  <2>1. selected' = Min(DOMAIN lib) /\ frame' = Min({frame, Len(lib[selected'].frames)})
    BY <1>2, <1>5 DEF ImportFile
  <2>2. DOMAIN lib \in SUBSET Nat /\ DOMAIN lib # {}
    BY <1>3, <1>5, BehaviorsAssumption DEF LibraryTyped
  <2>3. PICK id \in DOMAIN lib : id = Min(DOMAIN lib)
    BY <2>2, MinOf
  <2>4. lib[id].frames \in Seq(Frames) /\ lib[id].frames # <<>>
    BY <1>3 DEF LibraryTyped
  <2>5. PICK f \in Seq(Frames) : f = lib[id].frames
    BY <2>4
  <2>6. PICK n \in Nat \ {0} : n = Len(f)
    BY <2>4, <2>5, NotEmpty
  <2>7. PICK i \in Nat \ {0} : i = frame
    BY DEF LibraryInv
  <2>8. Min({i, n}) \in Nat \ {0} /\ Min({i, n}) <= n
    BY FrameWithin
  <2>9. frame' = Min({i, n}) /\ selected' = id
    BY <2>1, <2>3, <2>5, <2>6, <2>7
  <2>10. QED
    BY <1>2, <1>3, <2>5, <2>6, <2>8, <2>9 DEF LibraryInv, Current
<1>6. QED
  BY <1>4, <1>5

\* The steps of the page, by what they do to the library.
LEMMA StepForLibrary ==
  ASSUME LibraryInv, profile \in Profiles, profile' \in Profiles, [Next]_vars
  PROVE  \/ UNCHANGED library /\ LibraryInv'
         \/ ~Empty /\ \E frames, i : /\ EditsTo(Current.frames, frames) /\ i \in Nat \ {0}
                                     /\ Update(frames, i)
         \/ \E id \in Ids, frames \in Seq(Frames) :
              id \notin DOMAIN library /\ frames # <<>> /\ Added(id, frames)
         \/ DeleteBehavior
         \/ \E file \in Files : ImportFile(file)
<1>1. CASE UNCHANGED vars
  <2>1. UNCHANGED <<library, selected, frame, editor>>
    BY <1>1 DEF vars, libVars
  <2>2. QED
    BY <2>1, LibraryLeft
<1>2. CASE Play \/ Stop \/ Animate \/ Sprites
  <2>1. UNCHANGED <<library, selected, frame, editor>>
    BY <1>2 DEF Play, Stop, Animate, Tick, Sprites, libVars
  <2>2. QED
    BY <2>1, LibraryLeft
<1>3. ASSUME NEW i \in 1..MaxFrames, SelectFrame(i)
      PROVE  UNCHANGED library /\ LibraryInv'
  <2>1. ~Empty /\ frame' = Min({i, Len(Current.frames)}) /\ editor' = profile
        /\ UNCHANGED <<library, selected>>
    BY <1>3 DEF SelectFrame
  <2>2. PICK n \in Nat \ {0} : n = Len(Current.frames)
    BY <2>1, SomeBehavior
  <2>3. i \in Nat \ {0}
    BY BehaviorsAssumption
  <2>4. Min({i, n}) \in 1..n
    BY <2>3, FrameWithin
  <2>5. frame' \in 1..Len(Current.frames)
    BY <2>1, <2>2, <2>4
  <2>6. QED
    BY <2>1, <2>5, LibraryLeft
<1>4. ASSUME NEW id \in DOMAIN library, SelectBehavior(id)
      PROVE  UNCHANGED library /\ LibraryInv'
  <2>1. selected' = id /\ frame' = 1 /\ editor' = profile /\ UNCHANGED library
    BY <1>4 DEF SelectBehavior
  <2>2. QED
    BY <2>1, LibraryLeft
<1>5. CASE \/ AddFrame \/ DuplicateFrame \/ DeleteFrame \/ Rename
           \/ \E at \in Times, dur \in Times : UpdateTiming(at, dur)
           \/ \E k \in Outputs, v \in LookValues : UpdateLook(k, v)
           \/ \E j \in editor.joints, v \in JointValues : UpdateJoint(j, v)
  BY <1>5, EditOf
<1>6. ASSUME NEW id \in Ids, NewBehavior(id)
      PROVE  \E frames \in Seq(Frames) : id \notin DOMAIN library /\ frames # <<>> /\ Added(id, frames)
  <2>1. PICK f \in Frames : f = DefaultFrame(profile)
    BY BehaviorsAssumption
  <2>2. <<f>> \in Seq(Frames) /\ <<f>> # <<>>
    OBVIOUS
  <2>3. QED
    BY <1>6, <2>1, <2>2 DEF NewBehavior
<1>7. ASSUME NEW id \in Ids, DuplicateBehavior(id)
      PROVE  \E frames \in Seq(Frames) : id \notin DOMAIN library /\ frames # <<>> /\ Added(id, frames)
  <2>1. ~Empty /\ id \notin DOMAIN library /\ Added(id, Current.frames)
    BY <1>7 DEF DuplicateBehavior
  <2>2. Current.frames \in Seq(Frames) /\ Current.frames # <<>>
    BY <2>1, SomeBehavior, EmptySeq
  <2>3. QED
    BY <2>1, <2>2
<1>8. ASSUME \/ \E p \in Profiles : SelectProfile(p)
             \/ \E m \in {"mock", "live"} : SelectMode(m)
             \/ \E u \in {"good", "bad", "empty"} : SetUrl(u)
      PROVE  UNCHANGED library /\ LibraryInv'
  <2>1. UNCHANGED <<library, selected>> /\ (frame' = 1 \/ UNCHANGED frame)
        /\ editor' \in {editor, profile, profile'}
    BY <1>8 DEF SelectProfile, SelectMode, SetUrl, libVars
  <2>2. QED
    BY <2>1, LibraryLeft
<1>9. ASSUME \/ Connect \/ Disconnect \/ SendTypedTurn \/ Ping \/ Interrupt
             \/ \E i \in DOMAIN clients : MockTimer(i)
             \/ \E s \in DOMAIN sockets : SocketOpens(s)
             \/ \E s \in DOMAIN sockets, error \in BOOLEAN : SocketEnds(s, error)
             \/ \E s \in DOMAIN sockets, kind \in HubFrames : SocketMessage(s, kind)
      PROVE  UNCHANGED library /\ LibraryInv'
  <2>1. UNCHANGED <<library, selected, frame, editor>>
    BY <1>9 DEF Connect, Disconnect, SendTypedTurn, Ping, Interrupt, MockTimer, SocketOpens, SocketEnds,
                SocketMessage, libVars
  <2>2. QED
    BY <2>1, LibraryLeft
<1>10. QED
  BY <1>1, <1>2, <1>3, <1>4, <1>5, <1>6, <1>7, <1>8, <1>9 DEF Next

\* The invariant of the editor is kept.
LEMMA LibraryStep ==
  ASSUME LibraryInv, profile \in Profiles, profile' \in Profiles, [Next]_vars
  PROVE  LibraryInv'
<1>1. ASSUME ~Empty, NEW frames, NEW i \in Nat \ {0}, EditsTo(Current.frames, frames), Update(frames, i)
      PROVE  LibraryInv'
  BY <1>1, UpdateInv DEF EditsTo
<1>2. QED
  BY <1>1, StepForLibrary, AddedInv, DeleteInv, ImportInv

\* What a step leaves of the hidden outputs and joints of a behaviour.
LEMMA HiddenStep ==
  ASSUME LibraryInv, profile \in Profiles, profile' \in Profiles, [Next]_vars,
         library' # origin', NEW id \in DOMAIN library \cap DOMAIN library'
  PROVE  /\ Hidden(library'[id]) \subseteq Hidden(library[id])
         /\ Len(library'[id].frames) >= Len(library[id].frames) =>
              Hidden(library[id]) \subseteq Hidden(library'[id])
<1>1. PICK lib : lib = library'
  OBVIOUS
<1>2. \A t : Hidden(t) = HiddenOf(t.frames)
  BY DEF Hidden, HiddenOf, HiddenIn
<1>3. CASE lib[id] = library[id]
  BY <1>1, <1>3
<1>4. CASE lib[id] # library[id]
  <2>1. library' # library
    BY <1>1, <1>4
  <2>2. ~\E file \in Files : ImportFile(file)
    BY DEF ImportFile
  <2>3. ~DeleteBehavior
    <3>1. SUFFICES ASSUME DeleteBehavior
                   PROVE  FALSE
      OBVIOUS
    <3>2. PICK rest : rest = DOMAIN library \ {selected}
      OBVIOUS
    <3>3. lib = library \/ lib = Restrict(library, rest)
      BY <1>1, <3>1, <3>2 DEF DeleteBehavior
    <3>4. lib = [k \in rest |-> library[k]]
      BY <1>1, <2>1, <3>3 DEF Restrict
    <3>5. lib[id] = library[id]
      BY <1>1, <3>4
    <3>6. QED
      BY <1>4, <3>5
  <2>4. ASSUME NEW k \in Ids, NEW frames \in Seq(Frames), k \notin DOMAIN library, Added(k, frames)
        PROVE  FALSE
    <3>1. PICK t : lib = Put(library, k, t)
      BY <1>1, <2>4 DEF Added
    <3>2. lib[id] = library[id]
      BY <2>4, <3>1 DEF Put
    <3>3. QED
      BY <1>4, <3>2
  <2>5. PICK frames, i : ~Empty /\ EditsTo(Current.frames, frames) /\ Update(frames, i)
    BY <2>1, <2>2, <2>3, <2>4, StepForLibrary
  <2>6. PICK t : t = Edited(frames)
    OBVIOUS
  <2>7. lib = [library EXCEPT ![selected] = t] /\ selected \in DOMAIN library
    BY <1>1, <2>5, <2>6, SomeBehavior DEF Update
  <2>8. id = selected /\ lib[id] = t /\ library[id] = Current
    BY <1>4, <2>7 DEF Current, LibraryInv, LibraryTyped
  <2>9. PICK old : old = Current.frames
    OBVIOUS
  <2>10. frames \in Seq(Frames) /\ EditsTo(old, frames)
    BY <2>5, <2>9 DEF EditsTo
  <2>11. Len(t.frames) = Len(frames) /\ ToSet(t.frames) = ToSet(frames)
    BY <2>6, <2>10, EditedFrames
  <2>12. HiddenOf(t.frames) = HiddenOf(frames)
    BY <2>11 DEF HiddenOf
  <2>13. Hidden(t) = HiddenOf(frames) /\ Hidden(library[id]) = HiddenOf(old)
         /\ library[id].frames = old
    BY <1>2, <2>8, <2>9, <2>12
  <2>14. /\ Hidden(t) \subseteq Hidden(library[id])
         /\ Len(t.frames) >= Len(library[id].frames) => Hidden(library[id]) \subseteq Hidden(t)
    BY <2>10, <2>11, <2>13 DEF EditsTo
  <2>15. library'[id] = t
    BY <1>1, <2>8
  <2>16. QED
    BY <2>14, <2>15
<1>5. QED
  BY <1>3, <1>4

\* The page starts with the fixtures.
LEMMA LibraryStart ==
  ASSUME Init
  PROVE  LibraryInv
<1>1. library = LoadDefinitions(Fixtures) /\ selected = Min(DOMAIN library) /\ frame = 1 /\ editor \in Profiles
  BY ProfilesAssumption DEF Init
<1>2. LibraryTyped(library) /\ DOMAIN library # {}
  BY <1>1, LoadedTyped, BehaviorsAssumption
<1>3. DOMAIN library \in SUBSET Nat
  BY <1>2, BehaviorsAssumption DEF LibraryTyped
<1>4. selected \in DOMAIN library
  BY <1>1, <1>2, <1>3, MinOf
<1>5. PICK f \in Seq(Frames) : f = Current.frames /\ f # <<>>
  BY <1>2, <1>4 DEF LibraryTyped, Current
<1>6. Len(f) >= 1
  BY <1>5, NotEmpty
<1>7. QED
  BY <1>1, <1>2, <1>4, <1>5, <1>6 DEF LibraryInv

\* An edit leaves the outputs and joints alone that the editor does not show: what
\* frames say of them is neither lost nor made up (main.ts updateSelectedFrame,
\* updateSelectedTimeline, the handlers of the frame editor).
THEOREM EditsKeepHidden == Spec => EditsKeepHiddenChannels
<1>1. SpriteInv => profile \in Profiles
  BY DEF SpriteInv, SpriteTypes
<1>2. Init => LibraryInv
  BY LibraryStart
<1>3. LibraryInv /\ SpriteInv /\ SpriteInv' /\ [Next]_vars => LibraryInv'
  BY LibraryStep DEF SpriteInv, SpriteTypes
<1>4. LibraryInv /\ SpriteInv /\ SpriteInv' /\ [Next]_vars =>
        [\A id \in DOMAIN library \cap DOMAIN library' :
            spent'["edits"] > spent["edits"] /\ library' # origin' =>
              /\ Hidden(library'[id]) \subseteq Hidden(library[id])
              /\ Len(library'[id].frames) >= Len(library[id].frames) =>
                    Hidden(library[id]) \subseteq Hidden(library'[id])]_vars
  BY HiddenStep DEF SpriteInv, SpriteTypes
<1>5. QED
  BY <1>2, <1>3, <1>4, SpriteInvHolds, PTL DEF Spec, EditsKeepHiddenChannels

-----------------------------------------------------------------------------
(* The preview *)

\* A stage has its six fields.
Staged(s) == \E pb, n, c, e, l, j :
  s = [playback |-> pb, loops |-> n, clock |-> c, elapsed |-> e, looks |-> l, joints |-> j]

\* At most one chain of callbacks, and it moves a playback on.
Looped(s) == s.loops \in {0, 1} /\ (s.loops = 1 => s.playback.on)

\* What plays on a stage, and what it shows.
Plays(s, t, p) == s.playback.profile = p /\ s.playback.timeline = t
Shows(s, t, p) == s.looks = LooksAt(t, s.elapsed, p) /\ s.joints = JointsAt(t, s.elapsed, p)

\* A stage for the library lib and the profile p.
StageOf(s, lib, p) ==
  /\ Staged(s) /\ Looped(s)
  /\ s.playback.on => \E id \in DOMAIN lib : Plays(s, lib[id], p)
  /\ lib # <<>> => \E id \in DOMAIN lib : Shows(s, lib[id], p)

LEMMA ShowShows ==
  ASSUME NEW s, Staged(s), NEW t, NEW r, NEW p, NEW s1, s1 = Show(s, Sample(t, r, p))
  PROVE  Staged(s1) /\ s1.playback = s.playback /\ s1.loops = s.loops /\ Shows(s1, t, p)
<1>1. PICK e, l, j : e = Clamped(t, r) /\ l = LooksAt(t, e, p) /\ j = JointsAt(t, e, p)
  OBVIOUS
<1>2. /\ Sample(t, r, p).elapsed = e /\ Sample(t, r, p).looks = l /\ Sample(t, r, p).joints = j
  BY <1>1 DEF Sample
<1>3. s1 = [s EXCEPT !.elapsed = e, !.looks = l, !.joints = j]
  BY <1>2 DEF Show
<1>4. PICK pb, n, c, e0, l0, j0 :
        s = [playback |-> pb, loops |-> n, clock |-> c, elapsed |-> e0, looks |-> l0, joints |-> j0]
  BY DEF Staged
<1>5. s1 = [playback |-> pb, loops |-> n, clock |-> c, elapsed |-> e, looks |-> l, joints |-> j]
  BY <1>3, <1>4
<1>6. Staged(s1)
  BY <1>5 DEF Staged
<1>7. s1.playback = s.playback /\ s1.loops = s.loops /\ s1.elapsed = e /\ s1.looks = l /\ s1.joints = j
  BY <1>4, <1>5
<1>8. QED
  BY <1>1, <1>6, <1>7 DEF Shows

LEMMA Unlooped ==
  ASSUME NEW s, s.loops = 0
  PROVE  Looped(s)
<1>1. 0 \in {0, 1} /\ 0 # 1
  OBVIOUS
<1>2. QED
  BY <1>1 DEF Looped

\* A stopped stage plays nothing; it shows what played, or what it showed.
LEMMA StopStops ==
  ASSUME NEW s, Staged(s), Looped(s), NEW emit \in BOOLEAN, NEW s1, s1 = StopPlayback(s, emit)
  PROVE  /\ Staged(s1) /\ ~s1.playback.on /\ s1.loops = 0
         /\ \/ s.playback.on /\ Shows(s1, s.playback.timeline, s.playback.profile)
            \/ s1.elapsed = s.elapsed /\ s1.looks = s.looks /\ s1.joints = s.joints
<1> DEFINE d == [s EXCEPT !.playback = NoPlayback, !.clock = NotYet,
                          !.loops = IF @ > 0 THEN @ - 1 ELSE 0]
<1>1. PICK pb, n, c, e, l, j :
        s = [playback |-> pb, loops |-> n, clock |-> c, elapsed |-> e, looks |-> l, joints |-> j]
  BY DEF Staged
<1> DEFINE m == IF n > 0 THEN n - 1 ELSE 0
<1>2. s.loops = n /\ s.elapsed = e /\ s.looks = l /\ s.joints = j
  BY <1>1
<1>3. m = 0
  BY <1>2 DEF Looped
<1>4. d = [playback |-> NoPlayback, loops |-> m, clock |-> NotYet, elapsed |-> e, looks |-> l, joints |-> j]
  <2>1. PICK x : x = [s EXCEPT !.playback = NoPlayback, !.clock = NotYet]
    OBVIOUS
  <2>2. x = [playback |-> NoPlayback, loops |-> n, clock |-> NotYet, elapsed |-> e, looks |-> l, joints |-> j]
    BY <1>1, <2>1
  <2>3. d = [x EXCEPT !.loops = IF x.loops > 0 THEN x.loops - 1 ELSE 0]
    BY <2>1
  <2>4. x.loops = n
    BY <2>2
  <2>5. d = [x EXCEPT !.loops = m]
    BY <2>3, <2>4
  <2>6. QED
    BY <2>2, <2>5
<1>5. d = [playback |-> NoPlayback, loops |-> 0, clock |-> NotYet, elapsed |-> e, looks |-> l, joints |-> j]
  BY <1>3, <1>4
<1>6. Staged(d)
  BY <1>5 DEF Staged
<1>7. d.playback = NoPlayback /\ d.loops = 0 /\ d.elapsed = e /\ d.looks = l /\ d.joints = j
  BY <1>5
<1>8. ~NoPlayback.on
  BY DEF NoPlayback
<1>9. Staged(d) /\ ~d.playback.on /\ d.loops = 0
      /\ d.elapsed = s.elapsed /\ d.looks = s.looks /\ d.joints = s.joints
  BY <1>2, <1>6, <1>7, <1>8
<1>10. s1 = IF s.playback.on /\ emit
           THEN Show(d, Sample(s.playback.timeline, s.elapsed, s.playback.profile)) ELSE d
  BY DEF StopPlayback
<1> HIDE DEF d
<1>11. CASE s.playback.on /\ emit
  <2>1. s1 = Show(d, Sample(s.playback.timeline, s.elapsed, s.playback.profile))
    BY <1>10, <1>11
  <2>2. /\ Staged(s1) /\ s1.playback = d.playback /\ s1.loops = d.loops
        /\ Shows(s1, s.playback.timeline, s.playback.profile)
    BY <1>9, <2>1, ShowShows
  <2>3. QED
    BY <1>9, <1>11, <2>2
<1>12. CASE ~(s.playback.on /\ emit)
  BY <1>9, <1>10, <1>12
<1>13. QED
  BY <1>11, <1>12

LEMMA StartStarts ==
  ASSUME NEW s, Staged(s), NEW t, NEW s1, s1 = StartPlayback(s, t)
  PROVE  /\ Staged(s1) /\ s1.loops = s.loops /\ s1.playback.on
         /\ Plays(s1, t, profile) /\ Shows(s1, t, profile)
<1> DEFINE q == [timeline |-> t, profile |-> profile, on |-> TRUE]
           d == [s EXCEPT !.playback = q]
<1>1. PICK pb, n, c, e, l, j :
        s = [playback |-> pb, loops |-> n, clock |-> c, elapsed |-> e, looks |-> l, joints |-> j]
  BY DEF Staged
<1>2. q.on /\ q.timeline = t /\ q.profile = profile
  OBVIOUS
<1>3. s1 = Show(d, Sample(t, 0, profile))
  BY DEF StartPlayback
<1> HIDE DEF q
<1>4. d = [playback |-> q, loops |-> n, clock |-> c, elapsed |-> e, looks |-> l, joints |-> j]
  BY <1>1
<1>5. Staged(d)
  BY <1>4 DEF Staged
<1>6. d.playback = q /\ d.loops = s.loops
  BY <1>1, <1>4
<1>7. Staged(d) /\ d.loops = s.loops /\ d.playback.on /\ Plays(d, t, profile)
  BY <1>2, <1>5, <1>6 DEF Plays
<1> HIDE DEF d
<1>8. Staged(s1) /\ s1.playback = d.playback /\ s1.loops = d.loops /\ Shows(s1, t, profile)
  BY <1>7, <1>3, ShowShows
<1>9. QED
  BY <1>7, <1>8 DEF Plays

\* A behaviour of the library is drawn, while another may play on.
LEMMA DrawnOf ==
  ASSUME NEW s, Staged(s), Looped(s), NEW lib, NEW p,
         s.playback.on => \E k \in DOMAIN lib : Plays(s, lib[k], p),
         NEW id \in DOMAIN lib, NEW r, NEW s1, s1 = Drawn(s, lib[id], r, p)
  PROVE  StageOf(s1, lib, p)
<1>1. PICK t : t = lib[id]
  OBVIOUS
<1>2. s1 = Show(s, Sample(t, r, p))
  BY <1>1 DEF Drawn
<1>3. Staged(s1) /\ s1.playback = s.playback /\ s1.loops = s.loops /\ Shows(s1, t, p)
  BY <1>2, ShowShows
<1>4. Looped(s1)
  BY <1>3 DEF Looped
<1>5. s1.playback.on => \E k \in DOMAIN lib : Plays(s1, lib[k], p)
  BY <1>3 DEF Plays
<1>6. \E k \in DOMAIN lib : Shows(s1, lib[k], p)
  BY <1>1, <1>3
<1>7. QED
  BY <1>3, <1>4, <1>5, <1>6 DEF StageOf

\* A stage that stops is still one of the same library.
LEMMA StoppedOf ==
  ASSUME NEW s, NEW lib, NEW p, StageOf(s, lib, p), NEW emit \in BOOLEAN,
         NEW s1, s1 = StopPlayback(s, emit)
  PROVE  StageOf(s1, lib, p)
<1>1. /\ Staged(s1) /\ ~s1.playback.on /\ s1.loops = 0
      /\ \/ s.playback.on /\ Shows(s1, s.playback.timeline, s.playback.profile)
         \/ s1.elapsed = s.elapsed /\ s1.looks = s.looks /\ s1.joints = s.joints
  BY StopStops DEF StageOf
<1>2. ASSUME s.playback.on, Shows(s1, s.playback.timeline, s.playback.profile)
      PROVE  \E id \in DOMAIN lib : Shows(s1, lib[id], p)
  BY <1>2 DEF StageOf, Plays
<1>3. ASSUME s1.elapsed = s.elapsed, s1.looks = s.looks, s1.joints = s.joints, lib # <<>>
      PROVE  \E id \in DOMAIN lib : Shows(s1, lib[id], p)
  BY <1>3 DEF StageOf, Shows
<1>4. Looped(s1)
  BY <1>1, Unlooped
<1>5. QED
  BY <1>1, <1>2, <1>3, <1>4 DEF StageOf

\* The page goes back to the start of what it shows.
LEMMA Rewound ==
  ASSUME NEW s, Staged(s), NEW e, NEW s1, s1 = [s EXCEPT !.elapsed = e]
  PROVE  Staged(s1) /\ s1.playback = s.playback /\ s1.loops = s.loops
<1>1. PICK pb, n, c, e0, l, j :
        s = [playback |-> pb, loops |-> n, clock |-> c, elapsed |-> e0, looks |-> l, joints |-> j]
  BY DEF Staged
<1>2. s1 = [playback |-> pb, loops |-> n, clock |-> c, elapsed |-> e, looks |-> l, joints |-> j]
  BY <1>1
<1>3. Staged(s1)
  BY <1>2 DEF Staged
<1>4. QED
  BY <1>1, <1>2, <1>3

\* A callback is asked for.
LEMMA Counted ==
  ASSUME NEW s, Staged(s), NEW m, NEW s1, s1 = [s EXCEPT !.loops = m]
  PROVE  /\ Staged(s1) /\ s1.playback = s.playback /\ s1.loops = m
         /\ s1.elapsed = s.elapsed /\ s1.looks = s.looks /\ s1.joints = s.joints
<1>1. PICK pb, n, c, e, l, j :
        s = [playback |-> pb, loops |-> n, clock |-> c, elapsed |-> e, looks |-> l, joints |-> j]
  BY DEF Staged
<1>2. s1 = [playback |-> pb, loops |-> m, clock |-> c, elapsed |-> e, looks |-> l, joints |-> j]
  BY <1>1
<1>3. Staged(s1)
  BY <1>2 DEF Staged
<1>4. QED
  BY <1>1, <1>2, <1>3

\* A behaviour of the library is played.
LEMMA PlayOf ==
  ASSUME NEW s, Staged(s), Looped(s), NEW lib, NEW id \in DOMAIN lib
  PROVE  StageOf([StartPlayback(StopPlayback(s, TRUE), lib[id]) EXCEPT !.loops = @ + 1], lib, profile)
<1>1. PICK t : t = lib[id]
  OBVIOUS
<1>2. PICK s0 : s0 = StopPlayback(s, TRUE)
  OBVIOUS
<1>3. Staged(s0) /\ s0.loops = 0
  BY <1>2, StopStops
<1>4. PICK d : d = StartPlayback(s0, t)
  OBVIOUS
<1>5. Staged(d) /\ d.loops = 0 /\ d.playback.on /\ Plays(d, t, profile) /\ Shows(d, t, profile)
  BY <1>3, <1>4, StartStarts
<1>6. PICK m : m = 1 /\ d.loops + 1 = m
  BY <1>5
<1>7. PICK s1 : s1 = [d EXCEPT !.loops = m]
  OBVIOUS
<1>8. /\ Staged(s1) /\ s1.playback = d.playback /\ s1.loops = 1
      /\ s1.elapsed = d.elapsed /\ s1.looks = d.looks /\ s1.joints = d.joints
  <2>1. Staged(d)
    BY <1>5
  <2>2. QED
    BY <1>6, <1>7, <2>1, Counted
<1>9. s1.playback.on /\ Plays(s1, t, profile) /\ Shows(s1, t, profile)
  BY <1>5, <1>8 DEF Plays, Shows
<1>10. Looped(s1)
  BY <1>8, <1>9 DEF Looped
<1>11. StageOf(s1, lib, profile)
  BY <1>1, <1>8, <1>9, <1>10 DEF StageOf
<1>12. s1 = [d EXCEPT !.loops = @ + 1]
  BY <1>6, <1>7
<1>13. QED
  BY <1>1, <1>2, <1>4, <1>11, <1>12

\* A playback of a behaviour of the library is drawn at a moment.
LEMMA SampledOf ==
  ASSUME NEW s, Staged(s), Looped(s), NEW lib, NEW p, s.playback.on,
         \E id \in DOMAIN lib : Plays(s, lib[id], p),
         NEW r, NEW s1, s1 = Show(s, Sample(s.playback.timeline, r, s.playback.profile))
  PROVE  StageOf(s1, lib, p) /\ s1.playback = s.playback /\ s1.loops = s.loops
<1>1. PICK id \in DOMAIN lib : Plays(s, lib[id], p)
  OBVIOUS
<1>2. s1 = Drawn(s, lib[id], r, p)
  BY <1>1 DEF Plays, Drawn
<1>3. StageOf(s1, lib, p)
  BY <1>2, DrawnOf
<1>4. QED
  BY <1>3, ShowShows

\* An animation frame draws a playback; the clock is not shown.
LEMMA Clocked ==
  ASSUME NEW s, NEW lib, NEW p, StageOf(s, lib, p), NEW t, NEW s1, s1 = [s EXCEPT !.clock = t]
  PROVE  StageOf(s1, lib, p)
<1>1. PICK pb, n, c, e, l, j :
        s = [playback |-> pb, loops |-> n, clock |-> c, elapsed |-> e, looks |-> l, joints |-> j]
  BY DEF StageOf, Staged
<1>2. s1 = [playback |-> pb, loops |-> n, clock |-> t, elapsed |-> e, looks |-> l, joints |-> j]
  BY <1>1
<1>3. Staged(s1)
  BY <1>2 DEF Staged
<1>4. s1.playback = s.playback /\ s1.loops = s.loops /\ s1.elapsed = s.elapsed /\ s1.looks = s.looks
      /\ s1.joints = s.joints
  BY <1>1, <1>2
<1>5. Looped(s1)
  BY <1>4 DEF StageOf, Looped
<1>6. s1.playback.on => \E id \in DOMAIN lib : Plays(s1, lib[id], p)
  BY <1>4 DEF StageOf, Plays
<1>7. lib # <<>> => \E id \in DOMAIN lib : Shows(s1, lib[id], p)
  BY <1>4 DEF StageOf, Shows
<1>8. QED
  BY <1>3, <1>5, <1>6, <1>7 DEF StageOf

\* A frame of a behaviour of the library is selected.
LEMMA AppliedOf ==
  ASSUME NEW s, NEW lib, StageOf(s, lib, profile), NEW id \in DOMAIN lib, NEW r,
         NEW s1, s1 = ApplyFrame(s, lib[id], r)
  PROVE  StageOf(s1, lib, profile)
<1>1. PICK t : t = lib[id]
  OBVIOUS
<1>2. PICK d : d = IF s.playback.on THEN s ELSE StartPlayback(s, t)
  OBVIOUS
<1>3. s1 = Show(d, Sample(d.playback.timeline, r, d.playback.profile))
  BY <1>1, <1>2 DEF ApplyFrame
<1>4. Staged(d) /\ d.loops = s.loops /\ d.playback.on /\ \E k \in DOMAIN lib : Plays(d, lib[k], profile)
  <2>1. CASE s.playback.on
    BY <1>2, <2>1 DEF StageOf
  <2>2. CASE ~s.playback.on
    <3>1. d = StartPlayback(s, t)
      BY <1>2, <2>2
    <3>2. Staged(s)
      BY DEF StageOf
    <3>3. Staged(d) /\ d.loops = s.loops /\ d.playback.on /\ Plays(d, t, profile)
      BY <3>1, <3>2, StartStarts
    <3>4. QED
      BY <1>1, <3>3
  <2>3. QED
    BY <2>1, <2>2
<1>5. Looped(d)
  BY <1>4 DEF StageOf, Looped
<1>6. QED
  BY <1>3, <1>4, <1>5, SampledOf

\* The steps that leave the library and the profile alone.
LEMMA StageMoves ==
  ASSUME LibraryInv, StageOf(stage, library, profile), UNCHANGED <<library, profile>>,
         \/ UNCHANGED stage
         \/ \E emit \in BOOLEAN : stage' = StopPlayback(stage, emit)
         \/ Play \/ \E t : Tick(t)
         \/ \E i : SelectFrame(i)
         \/ \E id \in DOMAIN library : SelectBehavior(id)
         \/ \E m : SelectMode(m)
  PROVE  StageOf(stage', library, profile)
<1>1. PICK s, s1, lib, p : s = stage /\ s1 = stage' /\ lib = library /\ p = profile
  OBVIOUS
<1>2. StageOf(s, lib, p) /\ Staged(s) /\ Looped(s)
  BY <1>1 DEF StageOf
<1>3. ~Empty => selected \in DOMAIN lib /\ Current = lib[selected]
  BY <1>1, SomeBehavior
<1>4. ASSUME NEW emit \in BOOLEAN, s1 = StopPlayback(s, emit)
      PROVE  StageOf(s1, lib, p)
  BY <1>2, <1>4, StoppedOf
<1>5. CASE Play
  <2>1. ~Empty /\ s1 = [StartPlayback(StopPlayback(s, TRUE), Current) EXCEPT !.loops = @ + 1]
    BY <1>1, <1>5 DEF Play
  <2>2. PICK id \in DOMAIN lib : Current = lib[id]
    BY <1>3, <2>1
  <2>3. s1 = [StartPlayback(StopPlayback(s, TRUE), lib[id]) EXCEPT !.loops = @ + 1]
    BY <2>1, <2>2
  <2>4. StageOf(s1, lib, profile)
    BY <1>2, <2>3, PlayOf
  <2>5. QED
    BY <1>1, <2>4
<1>6. ASSUME NEW t, Tick(t)
      PROVE  StageOf(s1, lib, p)
  <2>1. s.playback.on
    <3>1. s.loops > 0
      BY <1>1, <1>6 DEF Tick
    <3>2. s.loops = 1
      BY <1>2, <3>1 DEF Looped
    <3>3. QED
      BY <1>2, <3>2 DEF Looped
  <2>2. PICK sample : sample = Sample(s.playback.timeline, t, s.playback.profile)
    OBVIOUS
  <2>3. PICK d, e : d = Show(s, sample) /\ e = [d EXCEPT !.clock = t]
    OBVIOUS
  <2>4. s1 = IF sample.complete THEN StopPlayback(e, TRUE) ELSE e
    BY <1>1, <1>6, <2>1, <2>2, <2>3 DEF Tick
  <2>5. \E id \in DOMAIN lib : Plays(s, lib[id], p)
    BY <1>2, <2>1 DEF StageOf
  <2>6. StageOf(d, lib, p)
    BY <1>2, <2>1, <2>2, <2>3, <2>5, SampledOf
  <2>7. StageOf(e, lib, p)
    BY <2>3, <2>6, Clocked
  <2>8. \A x : x = StopPlayback(e, TRUE) => StageOf(x, lib, p)
    BY <2>7, StoppedOf
  <2>9. QED
    BY <2>4, <2>7, <2>8
<1>7. ASSUME NEW i, SelectFrame(i)
      PROVE  StageOf(s1, lib, p)
  <2>1. ~Empty /\ \E r : s1 = ApplyFrame(s, Current, r)
    BY <1>1, <1>7 DEF SelectFrame
  <2>2. PICK id \in DOMAIN lib : Current = lib[id]
    BY <1>3, <2>1
  <2>3. PICK r : s1 = ApplyFrame(s, lib[id], r)
    BY <2>1, <2>2
  <2>4. StageOf(s, lib, profile)
    BY <1>1, <1>2
  <2>5. StageOf(s1, lib, profile)
    BY <2>3, <2>4, AppliedOf
  <2>6. QED
    BY <1>1, <2>5
<1>8. ASSUME NEW id \in DOMAIN library, SelectBehavior(id)
      PROVE  StageOf(s1, lib, p)
  <2>1. PICK d : d = StopPlayback(s, TRUE)
    OBVIOUS
  <2>2. s1 = Drawn(d, lib[id], 0, p)
    BY <1>1, <1>8, <2>1 DEF SelectBehavior
  <2>3. Staged(d) /\ Looped(d) /\ ~d.playback.on
    BY <1>2, <2>1, StopStops, Unlooped
  <2>4. QED
    BY <1>1, <2>2, <2>3, DrawnOf
<1>9. ASSUME NEW m, SelectMode(m)
      PROVE  StageOf(s1, lib, p)
  <2>1. CASE Empty
    BY <1>1, <1>2, <1>9, <2>1 DEF SelectMode
  <2>2. CASE ~Empty
    <3>1. s1 = Drawn(s, Current, s.elapsed, p)
      BY <1>1, <1>9, <2>2 DEF SelectMode
    <3>2. PICK id \in DOMAIN lib : Current = lib[id]
      BY <1>3, <2>2
    <3>3. PICK r : r = s.elapsed
      OBVIOUS
    <3>4. s1 = Drawn(s, lib[id], r, p)
      BY <3>1, <3>2, <3>3
    <3>5. s.playback.on => \E k \in DOMAIN lib : Plays(s, lib[k], p)
      BY <1>2 DEF StageOf
    <3>6. QED
      BY <1>2, <3>4, <3>5, DrawnOf
  <2>3. QED
    BY <2>1, <2>2
<1>10. QED
  BY <1>1, <1>2, <1>4, <1>5, <1>6, <1>7, <1>8, <1>9

\* An edit of the selected behaviour, and a new one.
LEMMA StageEdits ==
  ASSUME LibraryInv, StageOf(stage, library, profile),
         \/ ~Empty /\ \E frames, i : Update(frames, i)
         \/ \E id \in Ids : \E frames : id \notin DOMAIN library /\ Added(id, frames)
  PROVE  StageOf(stage', library', profile')
<1>1. PICK s, s1, lib, lib1, p : s = stage /\ s1 = stage' /\ lib = library /\ lib1 = library' /\ p = profile
  OBVIOUS
<1>2. StageOf(s, lib, p) /\ Staged(s) /\ Looped(s)
  BY <1>1 DEF StageOf
<1>3. ASSUME ~Empty, NEW frames, NEW i, Update(frames, i)
      PROVE  StageOf(s1, lib1, p) /\ profile' = p
  <2>1. PICK d : d = StopPlayback(s, TRUE)
    OBVIOUS
  <2>2. Staged(d) /\ Looped(d) /\ ~d.playback.on
    BY <1>2, <2>1, StopStops, Unlooped
  <2>3. lib1 = [lib EXCEPT ![selected] = Edited(frames)] /\ selected \in DOMAIN lib
    BY <1>1, <1>3, SomeBehavior DEF Update
  <2>4. PICK id \in DOMAIN lib1 : id = selected
    BY <2>3
  <2>5. \E r : s1 = Drawn(d, lib1[id], r, p)
    BY <1>1, <1>3, <2>1, <2>4 DEF Update
  <2>6. StageOf(s1, lib1, p)
    BY <2>2, <2>5, DrawnOf
  <2>7. QED
    BY <1>1, <1>3, <2>6 DEF Update
<1>4. ASSUME NEW id \in Ids, NEW frames, id \notin DOMAIN library, Added(id, frames)
      PROVE  StageOf(s1, lib1, p) /\ profile' = p
  <2>1. PICK t : t = Edited(frames)
    OBVIOUS
  <2>2. lib1 = Put(lib, id, t) /\ profile' = p /\ s1 = Drawn(s, lib1[id], 0, p)
    BY <1>1, <1>4, <2>1 DEF Added
  <2>3. id \in DOMAIN lib1 /\ \A k \in DOMAIN lib : k \in DOMAIN lib1 /\ lib1[k] = lib[k]
    BY <1>1, <1>4, <2>2 DEF Put
  <2>4. s.playback.on => \E k \in DOMAIN lib1 : Plays(s, lib1[k], p)
    BY <1>2, <2>3 DEF StageOf
  <2>5. QED
    BY <1>2, <2>2, <2>3, <2>4, DrawnOf
<1>5. QED
  BY <1>1, <1>3, <1>4

\* The stage is rewound when a behaviour is deleted, a library loaded or another
\* device selected.
LEMMA StageRewinds ==
  ASSUME LibraryInv, LibraryInv', StageOf(stage, library, profile),
         \/ DeleteBehavior
         \/ \E file \in Files : ImportFile(file)
         \/ \E q \in Profiles : SelectProfile(q)
  PROVE  StageOf(stage', library', profile')
<1>1. PICK s, s1, lib1, p1 : s = stage /\ s1 = stage' /\ lib1 = library' /\ p1 = profile'
  OBVIOUS
<1>2. Staged(s) /\ Looped(s)
  BY <1>1 DEF StageOf
<1>3. PICK z : z = [s EXCEPT !.elapsed = 0]
  OBVIOUS
<1>4. Staged(z) /\ Looped(z)
  BY <1>2, <1>3, Rewound DEF Looped
<1>5. ASSUME NEW y, Staged(y), Looped(y), NEW d, d = StopPlayback(y, TRUE)
      PROVE  Staged(d) /\ Looped(d) /\ ~d.playback.on
  BY <1>5, StopStops, Unlooped
<1>6. ASSUME NEW d, Staged(d), Looped(d), ~d.playback.on, NEW id \in DOMAIN lib1, NEW r,
             s1 = Drawn(d, lib1[id], r, p1)
      PROVE  StageOf(s1, lib1, p1)
  BY <1>6, DrawnOf
<1>7. CASE DeleteBehavior
  <2>1. PICK x, d : (x = s \/ x = z) /\ d = StopPlayback(x, TRUE)
                   /\ s1 = Drawn(d, library'[selected'], d.elapsed, profile) /\ UNCHANGED profile
    BY <1>1, <1>3, <1>7 DEF DeleteBehavior
  <2>2. Staged(d) /\ Looped(d) /\ ~d.playback.on
    BY <1>2, <1>4, <1>5, <2>1
  <2>3. DOMAIN lib1 # {}
    <3>1. PICK rest : rest = DOMAIN library \ {selected}
      OBVIOUS
    <3>2. DOMAIN library # {}
      BY <1>7, SomeBehavior DEF DeleteBehavior
    <3>3. lib1 = IF rest = {} THEN library ELSE Restrict(library, rest)
      BY <1>1, <1>7, <3>1 DEF DeleteBehavior
    <3>4. QED
      BY <3>2, <3>3 DEF Restrict
  <2>4. selected' \in DOMAIN lib1
    BY <1>1, <2>3 DEF LibraryInv
  <2>5. PICK id, r : id \in DOMAIN lib1 /\ id = selected' /\ r = d.elapsed
    BY <2>4
  <2>6. s1 = Drawn(d, lib1[id], r, p1)
    BY <1>1, <2>1, <2>5
  <2>7. QED
    BY <1>1, <1>6, <2>2, <2>5, <2>6
<1>8. ASSUME NEW file \in Files, ImportFile(file)
      PROVE  StageOf(s1, lib1, p1)
  <2>1. PICK d : d = StopPlayback(z, TRUE)
    OBVIOUS
  <2>2. Staged(d) /\ Looped(d) /\ ~d.playback.on
    BY <1>4, <1>5, <2>1
  <2>3. /\ lib1 = LoadDefinitions(file) /\ UNCHANGED profile /\ Loadable(file)
        /\ file = <<>> => s1 = d
        /\ file # <<>> => s1 = Drawn(d, library'[selected'], d.elapsed, profile)
    BY <1>1, <1>3, <1>8, <2>1 DEF ImportFile
  <2>4. file \in Seq(Ids \X Timelines)
    BY BehaviorsAssumption
  <2>5. CASE file = <<>>
    <3>1. DOMAIN file = {}
      BY <2>5
    <3>2. lib1 = [id \in {} |-> lib1[id]]
      BY <2>3, <3>1 DEF LoadDefinitions
    <3>3. lib1 = <<>>
      <4>1. lib1 \in [{} -> Nat]
        BY <3>2
      <4>2. <<>> \in [{} -> Nat]
        OBVIOUS
      <4>3. QED
        BY <4>1, <4>2
    <3>4. QED
      BY <2>2, <2>3, <2>5, <3>3 DEF StageOf
  <2>6. CASE file # <<>>
    <3>1. DOMAIN lib1 # {}
      BY <2>3, <2>4, <2>6, LoadedTyped
    <3>2. selected' \in DOMAIN lib1
      BY <1>1, <3>1 DEF LibraryInv
    <3>3. PICK id, r : id \in DOMAIN lib1 /\ id = selected' /\ r = d.elapsed
      BY <3>2
    <3>4. s1 = Drawn(d, lib1[id], r, p1)
      BY <1>1, <2>3, <2>6, <3>3
    <3>5. QED
      BY <1>6, <2>2, <3>3, <3>4
  <2>7. QED
    BY <2>5, <2>6
<1>9. ASSUME NEW q \in Profiles, SelectProfile(q)
      PROVE  StageOf(s1, lib1, p1)
  <2>10. PICK x : x = StopPlayback(s, TRUE)
    OBVIOUS
  <2>11. PICK d : d = [x EXCEPT !.elapsed = 0]
    OBVIOUS
  <2>1. x = StopPlayback(s, TRUE) /\ d = [x EXCEPT !.elapsed = 0]
    BY <2>10, <2>11
  <2>2. Staged(x) /\ ~x.playback.on /\ x.loops = 0
    BY <1>2, <2>1, StopStops
  <2>12. Staged(x)
    BY <2>2
  <2>3. Staged(d) /\ d.playback = x.playback /\ d.loops = x.loops
    BY <2>11, <2>12, Rewound
  <2>4. Staged(d) /\ Looped(d) /\ ~d.playback.on
    BY <2>2, <2>3, Unlooped
  <2>5. /\ lib1 = library /\ selected' = selected /\ p1 = q
        /\ Empty => s1 = d
        /\ ~Empty => s1 = Drawn(d, Current, 0, q)
    BY <1>1, <1>9, <2>1 DEF SelectProfile
  <2>6. CASE Empty
    BY <2>4, <2>5, <2>6 DEF StageOf, Empty
  <2>7. CASE ~Empty
    <3>1. PICK id \in DOMAIN lib1 : Current = lib1[id]
      BY <2>5, <2>7, SomeBehavior
    <3>2. s1 = Drawn(d, lib1[id], 0, p1)
      BY <2>5, <2>7, <3>1
    <3>3. QED
      BY <1>6, <2>4, <3>2
  <2>8. QED
    BY <2>6, <2>7
<1>10. QED
  BY <1>1, <1>7, <1>8, <1>9

\* Every step keeps the stage one of the library and the profile.
LEMMA StageStep ==
  ASSUME LibraryInv, LibraryInv', profile \in Profiles, StageOf(stage, library, profile), [Next]_vars
  PROVE  StageOf(stage', library', profile')
<1> DEFINE Kept == UNCHANGED <<library, profile>>
           Stops == UNCHANGED stage \/ \E emit \in BOOLEAN : stage' = StopPlayback(stage, emit)
<1>1. ASSUME Kept, Stops
      PROVE  StageOf(stage', library', profile')
  BY <1>1, StageMoves
<1>2. \A i, kind : AppEvent(i, kind) => Stops
  BY DEF AppEvent
<1>3. CASE UNCHANGED vars
  <2>1. Kept /\ Stops
    BY <1>3 DEF vars, libVars
  <2>2. QED
    BY <1>1, <2>1
<1>4. CASE Stop \/ Interrupt
  <2>1. Kept /\ Stops
    BY <1>4 DEF Stop, Interrupt, libVars
  <2>2. QED
    BY <1>1, <2>1
<1>5. CASE Sprites
  <2>1. Kept /\ Stops
    BY <1>5 DEF Sprites, SpriteNext, libVars
  <2>2. QED
    BY <1>1, <2>1
<1>6. CASE Connect \/ Disconnect \/ Ping
  <2>1. Kept /\ Stops
    BY <1>6 DEF Connect, Disconnect, Ping, libVars
  <2>2. QED
    BY <1>1, <2>1
<1>7. CASE SendTypedTurn
  <2>1. Stops
    <3>1. UNCHANGED stage \/ \E c : TypedNow(c)
      BY <1>7 DEF SendTypedTurn
    <3>2. \A c : TypedNow(c) => Stops
      BY <1>2 DEF TypedNow
    <3>3. QED
      BY <3>1, <3>2
  <2>2. Kept
    BY <1>7 DEF SendTypedTurn, libVars
  <2>3. QED
    BY <1>1, <2>1, <2>2
<1>8. CASE \/ \E i \in DOMAIN clients : MockTimer(i)
           \/ \E s \in DOMAIN sockets, kind \in HubFrames : SocketMessage(s, kind)
  <2>1. Kept /\ \E i, kind : AppEvent(i, kind)
    BY <1>8 DEF MockTimer, SocketMessage, libVars
  <2>2. QED
    BY <1>1, <1>2, <2>1
<1>9. CASE \/ \E s \in DOMAIN sockets : SocketOpens(s)
           \/ \E s \in DOMAIN sockets, error \in BOOLEAN : SocketEnds(s, error)
           \/ \E u \in {"good", "bad", "empty"} : SetUrl(u)
  <2>1. Kept /\ Stops
    BY <1>9 DEF SocketOpens, SocketEnds, SetUrl, libVars
  <2>2. QED
    BY <1>1, <2>1
<1>10. CASE Play \/ Animate
  <2>1. Kept
    BY <1>10 DEF Play, Animate, Tick, libVars
  <2>2. Play \/ \E t : Tick(t)
    BY <1>10 DEF Animate
  <2>3. StageOf(stage', library, profile)
    BY <2>1, <2>2, StageMoves
  <2>4. QED
    BY <2>1, <2>3
<1>11. CASE \/ \E i \in 1..MaxFrames : SelectFrame(i)
            \/ \E id \in DOMAIN library : SelectBehavior(id)
            \/ \E m \in {"mock", "live"} : SelectMode(m)
  <2>1. Kept
    BY <1>11 DEF SelectFrame, SelectBehavior, SelectMode
  <2>2. StageOf(stage', library, profile)
    BY <1>11, <2>1, StageMoves
  <2>3. QED
    BY <2>1, <2>2
<1>12. CASE \/ AddFrame \/ DuplicateFrame \/ DeleteFrame \/ Rename
            \/ \E at \in Times, dur \in Times : UpdateTiming(at, dur)
            \/ \E k \in Outputs, v \in LookValues : UpdateLook(k, v)
            \/ \E j \in editor.joints, v \in JointValues : UpdateJoint(j, v)
  <2>1. ~Empty /\ \E frames, i : EditsTo(Current.frames, frames) /\ Update(frames, i)
    BY <1>12, EditOf
  <2>2. QED
    BY <2>1, StageEdits
<1>13. CASE \E id \in Ids : NewBehavior(id) \/ DuplicateBehavior(id)
  <2>1. \E id \in Ids : \E frames : id \notin DOMAIN library /\ Added(id, frames)
    BY <1>13 DEF NewBehavior, DuplicateBehavior
  <2>2. QED
    BY <2>1, StageEdits
<1>14. CASE \/ DeleteBehavior
            \/ \E file \in Files : ImportFile(file)
            \/ \E q \in Profiles : SelectProfile(q)
  BY <1>14, StageRewinds
<1>15. QED
  BY <1>3, <1>4, <1>5, <1>6, <1>7, <1>8, <1>9, <1>10, <1>11, <1>12, <1>13, <1>14 DEF Next

\* Whatever is edited, added, deleted, imported and selected while a behaviour
\* plays: what plays is a behaviour as the library now has it, for the device that
\* is selected and by one chain of animation frames, and the preview shows a
\* behaviour of the library on that device (main.ts stopActivePlayback,
\* schedulePlaybackTick, applyBehaviorFrame, updateSelectedTimeline).
THEOREM PreviewIsCurrent == Spec => []PreviewIsOfTheLibrary
<1> DEFINE Inv == StageOf(stage, library, profile)
<1>1. SpriteInv => profile \in Profiles
  BY DEF SpriteInv, SpriteTypes
<1>2. Init => LibraryInv
  BY LibraryStart
<1>3. Init => Inv
  <2>1. SUFFICES ASSUME Init
                 PROVE  Inv
    OBVIOUS
  <2>2. PICK s : s = [playback |-> NoPlayback, loops |-> 0, clock |-> NotYet,
                      elapsed |-> 0, looks |-> <<>>, joints |-> <<>>]
    OBVIOUS
  <2>3. Staged(s)
    BY <2>2 DEF Staged
  <2>4. s.loops = 0 /\ s.playback = NoPlayback
    BY <2>2
  <2>5. Looped(s)
    BY <2>4, Unlooped
  <2>6. ~s.playback.on
    BY <2>4 DEF NoPlayback
  <2>7. ~Empty
    <3>1. library = LoadDefinitions(Fixtures)
      BY <2>1 DEF Init
    <3>2. DOMAIN library # {}
      BY <3>1, BehaviorsAssumption, LoadedTyped
    <3>3. QED
      BY <3>2 DEF Empty
  <2>8. PICK id \in DOMAIN library : id = selected
    <3>1. LibraryInv
      BY <1>2, <2>1
    <3>2. QED
      BY <2>7, <3>1, SomeBehavior
  <2>9. stage = Drawn(s, library[id], 0, profile)
    <3>1. stage = Drawn([playback |-> NoPlayback, loops |-> 0, clock |-> NotYet,
                         elapsed |-> 0, looks |-> <<>>, joints |-> <<>>], library[selected], 0, profile)
      BY <2>1 DEF Init
    <3>2. QED
      BY <2>2, <2>8, <3>1
  <2>10. QED
    BY <2>3, <2>5, <2>6, <2>9, DrawnOf
<1>4. LibraryInv /\ SpriteInv /\ SpriteInv' /\ [Next]_vars => LibraryInv'
  BY LibraryStep DEF SpriteInv, SpriteTypes
<1>5. LibraryInv /\ LibraryInv' /\ SpriteInv /\ Inv /\ [Next]_vars => Inv'
  BY <1>1, StageStep
<1>6. Inv => PreviewIsOfTheLibrary
  BY DEF StageOf, Looped, Plays, Shows, PreviewIsOfTheLibrary, Empty
<1> HIDE DEF Inv
<1>7. QED
  BY <1>2, <1>3, <1>4, <1>5, <1>6, SpriteInvHolds, PTL DEF Spec
====
