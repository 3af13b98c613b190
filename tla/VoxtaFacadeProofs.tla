------------------------- MODULE VoxtaFacadeProofs --------------------------
(***************************************************************************)
(* Proofs about VoxtaFacade, for any number of connections, frames,        *)
(* sessions and deltas: its safety properties, from one inductive          *)
(* invariant, and that it implements VoxtaDialog. What the filters of the  *)
(* hub compute is proved by induction over the sequence they read.         *)
(***************************************************************************)
EXTENDS VoxtaFacade, SequenceTheorems, WellFoundedInduction, TLAPS

-----------------------------------------------------------------------------
(* Filters *)

\* Every set of numbers has a least one: the order of the numbers is well
\* founded, and the library's WFMin needs no operator as its parameter.
LEMMA LeastNumber ==
  ASSUME NEW S \in SUBSET Nat, S # {}
  PROVE  \E m \in S : \A k \in S : m <= k
<1> DEFINE R == OpToRel(<, Nat)
<1>1. IsWellFoundedOn(R, Nat)
  BY NatLessThanWellFounded
<1>2. \A k, m \in Nat : k < m => <<k, m>> \in R
  BY DEF OpToRel
<1> HIDE DEF R
<1>3. PICK m \in S : \A k \in S : ~ (<<k, m>> \in R)
  BY <1>1, WFMin
<1>4. \A k \in S : m <= k
  <2> SUFFICES ASSUME NEW k \in S
               PROVE  m <= k
    OBVIOUS
  <2>1. k \in Nat /\ m \in Nat /\ ~ (<<k, m>> \in R)
    BY <1>3
  <2>2. ~ (k < m)
    BY <1>2, <2>1
  <2>3. QED
    BY <2>1, <2>2
<1> QED BY <1>4

\* Induction up to n, for the set of numbers for which something holds.
LEMMA AllUpTo ==
  ASSUME NEW n \in Nat, NEW S, 0 \in S, \A k \in 0..(n - 1) : k \in S => k + 1 \in S
  PROVE  0..n \subseteq S
<1> DEFINE T == (0..n) \ S
<1> SUFFICES ASSUME T # {}
             PROVE  FALSE
  OBVIOUS
<1>1. PICK m \in T : \A k \in T : m <= k
  <2>1. T \in SUBSET Nat
    OBVIOUS
  <2> HIDE DEF T
  <2>2. QED
    BY <2>1, LeastNumber
<1>2. m # 0 /\ m - 1 \in 0..(n - 1) /\ m - 1 \notin T
  BY <1>1
<1>3. m - 1 \in S
  BY <1>2
<1>4. QED
  BY <1>1, <1>2, <1>3

\* What the filter does with the first elements of a sequence.
Step(seq, set, kept, n) ==
  IF n = 0 THEN <<>>
  ELSE IF seq[n] \in set THEN kept[n - 1] ELSE Append(kept[n - 1], seq[n])

\* There is a function that the recursion of the filter describes.
LEMMA KeptExists ==
  ASSUME NEW A, NEW seq \in Seq(A), NEW set
  PROVE  \E kept \in [0..Len(seq) -> Seq(A)] :
           \A n \in 0..Len(seq) : kept[n] = Step(seq, set, kept, n)
<1> DEFINE Good(k) == \E kept \in [0..k -> Seq(A)] :
                        \A n \in 0..k : kept[n] = Step(seq, set, kept, n)
           S == {k \in 0..Len(seq) : Good(k)}
<1>1. 0 \in S
  <2>1. [n \in 0..0 |-> <<>>] \in [0..0 -> Seq(A)]
    OBVIOUS
  <2>2. \A n \in 0..0 : [k \in 0..0 |-> <<>>][n] = Step(seq, set, [k \in 0..0 |-> <<>>], n)
    BY DEF Step
  <2>3. 0 \in 0..Len(seq)
    OBVIOUS
  <2>4. QED
    BY <2>1, <2>2, <2>3
<1>2. ASSUME NEW k \in 0..(Len(seq) - 1), k \in S
      PROVE  k + 1 \in S
  <2>1. PICK kept \in [0..k -> Seq(A)] : \A n \in 0..k : kept[n] = Step(seq, set, kept, n)
    BY <1>2
  <2>2. DEFINE last == IF seq[k + 1] \in set THEN kept[k] ELSE Append(kept[k], seq[k + 1])
               more == [n \in 0..(k + 1) |-> IF n = k + 1 THEN last ELSE kept[n]]
  <2>3. last \in Seq(A)
    BY <2>1
  <2>4. more \in [0..(k + 1) -> Seq(A)]
    BY <2>3
  <2>5. ASSUME NEW n \in 0..(k + 1)
        PROVE  more[n] = Step(seq, set, more, n)
    <3>1. CASE n = k + 1
      <4>1. more[n] = last /\ more[n - 1] = kept[k] /\ n # 0
        BY <3>1
      <4>2. QED
        BY <3>1, <4>1 DEF Step
    <3>2. CASE n # k + 1
      <4>1. n \in 0..k /\ more[n] = kept[n] /\ (n # 0 => more[n - 1] = kept[n - 1])
        BY <3>2
      <4>2. QED
        BY <2>1, <4>1 DEF Step
    <3>3. QED
      BY <3>1, <3>2
  <2> HIDE DEF more
  <2>6. Good(k + 1)
    BY <2>4, <2>5
  <2>7. k + 1 \in 0..Len(seq)
    OBVIOUS
  <2>8. QED
    BY <2>6, <2>7
<1>3. 0..Len(seq) \subseteq S
  <2> HIDE DEF S
  <2>1. QED
    BY <1>1, <1>2, AllUpTo, LenProperties
<1>4. Len(seq) \in S
  BY <1>3, LenProperties
<1>5. QED
  BY <1>4

\* What the filter returns is the last value of such a function.
LEMMA WithoutByKept ==
  ASSUME NEW A, NEW seq \in Seq(A), NEW set
  PROVE  \E kept \in [0..Len(seq) -> Seq(A)] :
           /\ \A n \in 0..Len(seq) : kept[n] = Step(seq, set, kept, n)
           /\ Without(seq, set) = kept[Len(seq)]
<1> DEFINE Body(g) == [n \in 0..Len(seq) |->
                         IF n = 0 THEN <<>>
                         ELSE IF seq[n] \in set THEN g[n - 1] ELSE Append(g[n - 1], seq[n])]
           kept == CHOOSE g : g = Body(g)
<1>1. PICK g \in [0..Len(seq) -> Seq(A)] : \A n \in 0..Len(seq) : g[n] = Step(seq, set, g, n)
  BY KeptExists
<1>2. g = Body(g)
  BY <1>1 DEF Step
<1>3. kept = Body(kept)
  BY <1>2
<1>4. Without(seq, set) = kept[Len(seq)]
  BY DEF Without
<1> HIDE DEF kept
<1>5. \A n \in 0..Len(seq) : kept[n] = Step(seq, set, kept, n)
  BY <1>3 DEF Step
<1>6. \A n \in 0..Len(seq) : kept[n] \in Seq(A)
  <2> DEFINE S == {n \in 0..Len(seq) : kept[n] \in Seq(A)}
  <2>1. 0 \in S
    <3>1. 0 \in 0..Len(seq)
      BY LenProperties
    <3>2. kept[0] = <<>>
      BY <1>5, <3>1 DEF Step
    <3>3. kept[0] \in Seq(A)
      BY <3>2, EmptySeq
    <3>4. QED
      BY <3>1, <3>3
  <2>2. ASSUME NEW k \in 0..(Len(seq) - 1), k \in S
        PROVE  k + 1 \in S
    <3>1. k + 1 \in 1..Len(seq) /\ (k + 1) - 1 = k
      BY LenProperties
    <3>2. kept[k + 1] = Step(seq, set, kept, k + 1)
      BY <1>5, <3>1
    <3>3. kept[k + 1] = IF seq[k + 1] \in set THEN kept[k] ELSE Append(kept[k], seq[k + 1])
      BY <3>1, <3>2 DEF Step
    <3>4. kept[k] \in Seq(A) /\ seq[k + 1] \in A
      BY <2>2, <3>1, ElementOfSeq
    <3>5. kept[k + 1] \in Seq(A)
      BY <3>3, <3>4, AppendProperties
    <3>6. QED
      BY <3>1, <3>5
  <2>3. 0..Len(seq) \subseteq S
    <3> HIDE DEF S
    <3>1. QED
      BY <2>1, <2>2, AllUpTo, LenProperties
  <2>4. QED
    BY <2>3
<1>7. kept \in [0..Len(seq) -> Seq(A)]
  BY <1>3, <1>6
<1>8. QED
  BY <1>4, <1>5, <1>7

\* r has the first n elements of a sequence that are not in a set, each as often.
Filtered(seq, set, n, r) ==
  /\ \A j \in 1..Len(r) : r[j] \notin set /\ \E i \in 1..n : seq[i] = r[j]
  /\ \A i \in 1..n : seq[i] \notin set => \E j \in 1..Len(r) : r[j] = seq[i]
  /\ (\A i, j \in 1..n : i # j => seq[i] # seq[j])
       => \A i, j \in 1..Len(r) : i # j => r[i] # r[j]

\* One more element of the sequence.
LEMMA StepFilters ==
  ASSUME NEW A, NEW seq \in Seq(A), NEW set, NEW k \in 0..(Len(seq) - 1), NEW r \in Seq(A),
         Filtered(seq, set, k, r)
  PROVE  Filtered(seq, set, k + 1, IF seq[k + 1] \in set THEN r ELSE Append(r, seq[k + 1]))
<1>1. k \in Nat /\ k + 1 \in 1..Len(seq) /\ seq[k + 1] \in A
  BY LenProperties, ElementOfSeq
<1>2. CASE seq[k + 1] \in set
  <2>1. \A j \in 1..Len(r) : r[j] \notin set /\ \E i \in 1..(k + 1) : seq[i] = r[j]
    <3> SUFFICES ASSUME NEW j \in 1..Len(r)
                 PROVE  r[j] \notin set /\ \E i \in 1..(k + 1) : seq[i] = r[j]
      OBVIOUS
    <3>1. r[j] \notin set /\ \E i \in 1..k : seq[i] = r[j]
      BY DEF Filtered
    <3>2. QED
      BY <1>1, <3>1
  <2>2. ASSUME NEW i \in 1..(k + 1), seq[i] \notin set
        PROVE  \E j \in 1..Len(r) : r[j] = seq[i]
    <3>1. i \in 1..k
      BY <1>1, <1>2, <2>2
    <3>2. QED
      BY <2>2, <3>1 DEF Filtered
  <2>3. ASSUME \A i, j \in 1..(k + 1) : i # j => seq[i] # seq[j]
        PROVE  \A i, j \in 1..Len(r) : i # j => r[i] # r[j]
    <3>1. \A i, j \in 1..k : i # j => seq[i] # seq[j]
      BY <1>1, <2>3
    <3>2. QED
      BY <3>1 DEF Filtered
  <2>4. Filtered(seq, set, k + 1, r)
    BY <2>1, <2>2, <2>3 DEF Filtered
  <2>5. QED
    BY <1>2, <2>4
<1>3. CASE seq[k + 1] \notin set
  <2> DEFINE more == Append(r, seq[k + 1])
  <2>1. /\ Len(more) = Len(r) + 1 /\ Len(r) \in Nat
        /\ \A j \in 1..Len(r) : more[j] = r[j]
        /\ more[Len(r) + 1] = seq[k + 1]
    BY <1>1, AppendProperties, LenProperties
  <2> HIDE DEF more
  <2>2. \A j \in 1..Len(more) : more[j] \notin set /\ \E i \in 1..(k + 1) : seq[i] = more[j]
    <3> SUFFICES ASSUME NEW j \in 1..Len(more)
                 PROVE  more[j] \notin set /\ \E i \in 1..(k + 1) : seq[i] = more[j]
      OBVIOUS
    <3>1. CASE j = Len(r) + 1
      BY <1>1, <1>3, <2>1, <3>1
    <3>2. CASE j # Len(r) + 1
      <4>1. j \in 1..Len(r)
        BY <2>1, <3>2
      <4>2. r[j] \notin set /\ \E i \in 1..k : seq[i] = r[j]
        BY <4>1 DEF Filtered
      <4>3. QED
        BY <1>1, <2>1, <4>1, <4>2
    <3>3. QED
      BY <3>1, <3>2
  <2>3. ASSUME NEW i \in 1..(k + 1), seq[i] \notin set
        PROVE  \E j \in 1..Len(more) : more[j] = seq[i]
    <3>1. CASE i = k + 1
      <4>1. Len(r) + 1 \in 1..Len(more)
        BY <2>1
      <4>2. QED
        BY <2>1, <3>1, <4>1
    <3>2. CASE i # k + 1
      <4>0. i \in 1..k
        BY <1>1, <3>2
      <4>1. PICK j \in 1..Len(r) : r[j] = seq[i]
        BY <2>3, <4>0 DEF Filtered
      <4>2. QED
        BY <2>1, <4>1
    <3>3. QED
      BY <3>1, <3>2
  <2>4. ASSUME \A i, j \in 1..(k + 1) : i # j => seq[i] # seq[j],
               NEW i \in 1..Len(more), NEW j \in 1..Len(more), i # j
        PROVE  more[i] # more[j]
    <3>1. ASSUME NEW m \in 1..Len(r)
          PROVE  r[m] # seq[k + 1]
      <4>1. PICK l \in 1..k : seq[l] = r[m]
        BY DEF Filtered
      <4>2. l \in 1..(k + 1) /\ k + 1 \in 1..(k + 1) /\ l # k + 1
        BY <1>1
      <4>3. QED
        BY <2>4, <4>1, <4>2
    <3>2. \A m, l \in 1..Len(r) : m # l => r[m] # r[l]
      BY <1>1, <2>4 DEF Filtered
    <3>3. QED
      BY <2>1, <2>4, <3>1, <3>2
  <2>5. Filtered(seq, set, k + 1, more)
    BY <2>2, <2>3, <2>4 DEF Filtered
  <2>6. QED
    BY <1>3, <2>5 DEF more
<1>4. QED
  BY <1>2, <1>3

\* The filters of attachSatellite and buildMessages, on a sequence of any length:
\* they keep what is not in the set, only that, and nothing twice that was not
\* there twice.
THEOREM WithoutFilters ==
  ASSUME NEW A, NEW seq \in Seq(A), NEW set
  PROVE  Without(seq, set) \in Seq(A) /\ Filtered(seq, set, Len(seq), Without(seq, set))
<1>1. PICK kept \in [0..Len(seq) -> Seq(A)] :
             /\ \A n \in 0..Len(seq) : kept[n] = Step(seq, set, kept, n)
             /\ Without(seq, set) = kept[Len(seq)]
  BY WithoutByKept
<1> DEFINE S == {n \in 0..Len(seq) : Filtered(seq, set, n, kept[n])}
<1>2. Len(seq) \in Nat /\ 0 \in 0..Len(seq) /\ Len(seq) \in 0..Len(seq)
  BY LenProperties
<1>3. 0 \in S
  <2>1. kept[0] = <<>>
    BY <1>1, <1>2 DEF Step
  <2>2. Filtered(seq, set, 0, kept[0])
    BY <2>1 DEF Filtered
  <2>3. QED
    BY <1>2, <2>2
<1>4. ASSUME NEW k \in 0..(Len(seq) - 1), k \in S
      PROVE  k + 1 \in S
  <2>1. k \in 0..Len(seq) /\ k + 1 \in 0..Len(seq) /\ (k + 1) - 1 = k /\ k + 1 # 0
    BY <1>2
  <2>2. kept[k + 1] = IF seq[k + 1] \in set THEN kept[k] ELSE Append(kept[k], seq[k + 1])
    BY <1>1, <2>1 DEF Step
  <2>3. kept[k] \in Seq(A) /\ Filtered(seq, set, k, kept[k])
    BY <1>1, <1>4, <2>1
  <2>4. Filtered(seq, set, k + 1, kept[k + 1])
    BY <2>2, <2>3, StepFilters
  <2>5. QED
    BY <2>1, <2>4
<1>5. 0..Len(seq) \subseteq S
  <2> HIDE DEF S
  <2>1. QED
    BY <1>2, <1>3, <1>4, AllUpTo
<1>6. Len(seq) \in S
  BY <1>2, <1>5
<1>7. QED
  BY <1>1, <1>2, <1>6

-----------------------------------------------------------------------------
(* The registry and the store *)

Has(map, s, x) == s \in DOMAIN map /\ \E i \in 1..Len(map[s]) : map[s][i] = x

RegistryOf(map) ==
  /\ DOMAIN map \subseteq SessionIds
  /\ \A s \in DOMAIN map :
       /\ map[s] \in Seq(Satellites)
       /\ \A i, j \in 1..Len(map[s]) : i # j => map[s][i] # map[s][j]

\* Attaching adds to what is attached, and lists nobody twice.
LEMMA AttachKeeps ==
  ASSUME RegistryOf(satellites), NEW s \in SessionIds, NEW x \in Satellites,
         attachSatellite(s, x)
  PROVE  /\ RegistryOf(satellites')
         /\ Has(satellites', s, x)
         /\ \A t, y : Has(satellites, t, y) => Has(satellites', t, y)
<1> DEFINE others == Without(SatellitesOf(s), {x})
           now == Append(others, x)
<1>1. /\ SatellitesOf(s) \in Seq(Satellites)
      /\ \A i, j \in 1..Len(SatellitesOf(s)) :
           i # j => SatellitesOf(s)[i] # SatellitesOf(s)[j]
  BY DEF RegistryOf, SatellitesOf, Embodied
<1>2. others \in Seq(Satellites)
      /\ Filtered(SatellitesOf(s), {x}, Len(SatellitesOf(s)), others)
  BY <1>1, WithoutFilters
<1>3. satellites' = [t \in DOMAIN satellites \union {s} |->
                       IF t = s THEN now ELSE satellites[t]]
  BY DEF attachSatellite, PutSatellites, Embodied
<1> HIDE DEF others
<1>4. /\ now \in Seq(Satellites) /\ Len(now) = Len(others) + 1 /\ Len(others) \in Nat
      /\ \A i \in 1..Len(others) : now[i] = others[i]
      /\ now[Len(others) + 1] = x
  BY <1>2, AppendProperties, LenProperties
<1>5. \A i, j \in 1..Len(others) : i # j => others[i] # others[j]
  BY <1>1, <1>2 DEF Filtered
<1>6. \A i \in 1..Len(others) : others[i] # x
  BY <1>2 DEF Filtered
<1> HIDE DEF now
<1>7. \A i, j \in 1..Len(now) : i # j => now[i] # now[j]
  BY <1>4, <1>5, <1>6
<1>8. RegistryOf(satellites')
  BY <1>3, <1>4, <1>7 DEF RegistryOf
<1>9. Has(satellites', s, x)
  <2>1. Len(now) \in 1..Len(now) /\ satellites'[s] = now /\ s \in DOMAIN satellites'
    BY <1>3, <1>4
  <2>2. QED
    BY <1>4, <2>1 DEF Has
<1>10. ASSUME NEW t, NEW y, Has(satellites, t, y)
       PROVE  Has(satellites', t, y)
  <2>1. CASE t # s
    BY <1>3, <1>10, <2>1 DEF Has
  <2>2. CASE t = s /\ y = x
    BY <1>9, <2>2
  <2>3. CASE t = s /\ y # x
    <3>1. PICK i \in 1..Len(SatellitesOf(s)) : SatellitesOf(s)[i] = y
      BY <1>10, <2>3 DEF Has, SatellitesOf, Embodied
    <3>2. SatellitesOf(s)[i] \notin {x}
      BY <2>3, <3>1
    <3>3. PICK j \in 1..Len(others) : others[j] = y
      BY <1>2, <3>1, <3>2 DEF Filtered
    <3>4. j \in 1..Len(now) /\ now[j] = y /\ satellites'[s] = now /\ s \in DOMAIN satellites'
      BY <1>3, <1>4, <3>3
    <3>5. QED
      BY <2>3, <3>4 DEF Has
  <2>4. QED
    BY <2>1, <2>2, <2>3
<1>11. QED
  BY <1>8, <1>9, <1>10

StoreTypes ==
  /\ InStore \subseteq SessionIds /\ old \subseteq InStore
  /\ \A s \in InStore : messages[s] \in Seq(Messages)

\* Where message j of session t stood before one was appended to s, when d were
\* dropped.
Before(j, t, s, d) == IF t = s THEN j + d ELSE j

\* The new message is the last of its session; all others keep their order.
LEMMA AppendKeeps ==
  ASSUME StoreTypes, NEW s \in SessionIds, NEW m \in Messages, append(s, m)
  PROVE  /\ StoreTypes'
         /\ \E d \in Nat : \A t \in DOMAIN messages' : \A j \in 1..Len(messages'[t]) :
              \/ t = s /\ j = Len(messages'[s]) /\ messages'[t][j] = m
              \/ /\ t \in InStore /\ (t = s => j < Len(messages'[s]))
                 /\ Before(j, t, s, d) \in 1..Len(messages[t])
                 /\ messages'[t][j] = messages[t][Before(j, t, s, d)]
<1> DEFINE kept == Append(MessagesOf(s), m)
           first == IF Len(kept) > MaxMessages THEN Len(kept) - MaxMessages + 1 ELSE 1
           now == SubSeq(kept, first, Len(kept))
<1>1. MessagesOf(s) \in Seq(Messages)
  BY DEF StoreTypes, MessagesOf
<1>2. /\ kept \in Seq(Messages) /\ Len(MessagesOf(s)) \in Nat
      /\ Len(kept) = Len(MessagesOf(s)) + 1
      /\ \A i \in 1..Len(MessagesOf(s)) : kept[i] = MessagesOf(s)[i]
      /\ kept[Len(kept)] = m
  BY <1>1, AppendProperties, LenProperties
<1>3. /\ DOMAIN messages' = InStore \union {s}
      /\ messages'[s] = now
      /\ \A t \in InStore : t # s => messages'[t] = messages[t]
      /\ old' = old \ {s}
  BY DEF append, Newest
<1> HIDE DEF kept
<1>4. first \in 1..Len(kept)
  BY <1>2, StoreAssumption
<1> HIDE DEF first
<1>5. /\ now \in Seq(Messages) /\ Len(now) = Len(kept) - first + 1
      /\ \A i \in 1..Len(now) : now[i] = kept[i + (first - 1)]
  BY <1>2, <1>4
<1> HIDE DEF now
<1>6. StoreTypes'
  BY <1>3, <1>5 DEF StoreTypes, InStore
<1>7. first - 1 \in Nat
  BY <1>2, <1>4
<1>8. ASSUME NEW t \in DOMAIN messages', NEW j \in 1..Len(messages'[t])
      PROVE  \/ t = s /\ j = Len(messages'[s]) /\ messages'[t][j] = m
             \/ /\ t \in InStore /\ (t = s => j < Len(messages'[s]))
                /\ Before(j, t, s, first - 1) \in 1..Len(messages[t])
                /\ messages'[t][j] = messages[t][Before(j, t, s, first - 1)]
  <2>1. CASE t # s
    BY <1>3, <1>8, <2>1 DEF Before
  <2>2. CASE t = s /\ j = Len(now)
    <3>1. j + (first - 1) = Len(kept)
      BY <1>2, <1>4, <1>5, <2>2
    <3>2. now[j] = m
      BY <1>2, <1>3, <1>5, <1>8, <2>2, <3>1
    <3>3. QED
      BY <1>3, <2>2, <3>2
  <2>3. CASE t = s /\ j # Len(now)
    <3>0. Len(now) \in Nat /\ j \in 1..Len(now)
      BY <1>3, <1>5, <1>8, <2>3, LenProperties
    <3>1. j \in 1..(Len(now) - 1) /\ j < Len(now)
      BY <2>3, <3>0
    <3>2. j + (first - 1) \in 1..Len(MessagesOf(s))
      BY <1>2, <1>4, <1>5, <3>1
    <3>3. now[j] = MessagesOf(s)[j + (first - 1)]
      BY <1>2, <1>5, <3>1, <3>2
    <3>4. s \in InStore /\ MessagesOf(s) = messages[s]
      BY <3>2 DEF MessagesOf
    <3>5. QED
      BY <1>3, <2>3, <3>1, <3>2, <3>3, <3>4 DEF Before
  <2>4. QED
    BY <1>3, <2>1, <2>2, <2>3
<1>9. QED
  BY <1>6, <1>7, <1>8

-----------------------------------------------------------------------------
(* The inductive invariant *)

Bursts == {"nothing", "answer", "userMessage", "replyStart", "replyChunk",
           "replyEnd", "replyCancelled", "error"}

ConnTypes ==
  /\ socket \in [Conns -> {"new", "open", "closed"}]
  /\ connectionId \in [Conns -> Uuids \union {Missing}]
  /\ sessionId \in [Conns -> SessionIds \union {Missing}]
  /\ chatId \in [Conns -> ChatIds \union {Missing}]
  /\ \A c \in Conns :
       IF socket[c] = "new" THEN sessionId[c] = Missing /\ chatId[c] = Missing
                            ELSE sessionId[c] \in SessionIds /\ chatId[c] \in ChatIds
FlagTypes ==
  /\ replyAbort \in [Conns -> BOOLEAN] /\ replySequence \in [Conns -> Nat]
HandlerTypes == handler \in [Conns -> [Links -> Handlers]]
RequestTypes == request \in [Conns -> Requests \union {Missing}]
HeardTypes == heard \in [Conns -> Bursts]
Types ==
  /\ StoreTypes /\ ConnTypes /\ FlagTypes /\ HandlerTypes /\ RequestTypes /\ HeardTypes
  /\ pendingConnections \subseteq Tokens /\ messageChain \in [Conns -> Seq(FrameRecords)]

\* A link of a chain begins when those before it are settled.
Idle == {"queued", "settled"}
Chained ==
  \A c \in Conns :
    /\ socket[c] = "new" => messageChain[c] = <<>>
    /\ \A n \in Links : handler[c][n].next # "queued" =>
         /\ n <= Len(messageChain[c])
         /\ \A m \in 1..(n - 1) : handler[c][m].next = "settled"

\* Only a handler that runs has something on its way.
Wires == \A c \in Conns, n \in Links : handler[c][n].next \in Idle => ~handler[c][n].onWire

\* The facade's satellite is attached to the session of every connection.
Attached ==
  /\ RegistryOf(satellites)
  /\ \A c \in Conns : socket[c] # "new" => Has(satellites, sessionId[c], Voxta)

Asked == PromptEndsWithQuestion /\ ContextNamesSource

\* Nothing is entered for a link before its question is, and while it is
\* answered nothing but that, in the session the connection still has.
Entered ==
  \A s \in InStore : \A i \in 1..Len(messages[s]) :
    LET m == messages[s][i]
        next == handler[m.by][m.in].next
    IN  /\ next \notin {"queued", "reply"}
        /\ next \in {"askAgent", "agent"} => m.role = "user" /\ s = sessionId[m.by]

\* The last burst a client got says how far the handler of its chain is.
Between == {"nothing", "answer", "replyEnd", "replyCancelled", "error"}
Hears ==
  \A c \in Conns : socket[c] # "closed" =>
    /\ (\A n \in Links : handler[c][n].next \in Idle \union {"settle"}) => heard[c] \in Between
    /\ \A n \in Links :
         /\ handler[c][n].next = "reply" => heard[c] = "userMessage"
         /\ handler[c][n].next = "askAgent" => heard[c] = "replyStart"
         /\ handler[c][n].next = "agent" => heard[c] \in {"replyStart", "replyChunk"}

IInv ==
  /\ Types /\ Chained /\ Wires /\ Attached /\ Asked /\ Entered /\ AnswerAfterQuestion /\ Hears

\* A link moves on, alone, and no other handler changes.
Moves(c, n, from, to) ==
  /\ handler[c][n].next \in from /\ handler'[c][n].next \in to
  /\ \A d \in Conns, m \in Links : d # c \/ m # n => handler'[d][m] = handler[d][m]

\* Handlers begin, or go on.
Starting(c, n) == CanStart(c, n)
Running(c, n) == handler[c][n].next \notin Idle

LEMMA Bounds == MaxFrames \in Nat /\ MaxDeltas \in Nat
  BY FacadeAssumption

\* While a link runs or begins, every other link of its chain is idle.
LEMMA Alone ==
  ASSUME Types, Chained, NEW c \in Conns, NEW n \in Links, Starting(c, n) \/ Running(c, n)
  PROVE  /\ n <= Len(messageChain[c]) /\ socket[c] # "new"
         /\ \A m \in Links : m # n => handler[c][m].next \in Idle
<1>1. n <= Len(messageChain[c]) /\ \A m \in 1..(n - 1) : handler[c][m].next = "settled"
  BY DEF Starting, Running, CanStart, Chained, Idle, Settled, Locals
<1>2. handler[c][n].next # "settled"
  BY DEF Starting, Running, CanStart, Idle, Queued, Locals
<1>3. ASSUME NEW m \in Links, m # n, handler[c][m].next # "queued"
      PROVE  handler[c][m].next = "settled"
  <2>1. CASE m < n
    BY <1>1, <2>1 DEF Links
  <2>2. CASE n < m
    <3>1. n \in 1..(m - 1)
      BY <2>2 DEF Links
    <3>2. QED
      BY <1>2, <1>3, <3>1 DEF Chained
  <2>3. QED
    BY <1>3, <2>1, <2>2 DEF Links
<1>4. socket[c] # "new"
  <2>1. Len(<<>>) = 0 /\ n # 0
    BY DEF Links
  <2>2. QED
    BY <1>1, <2>1 DEF Chained, Links
<1>5. QED
  BY <1>1, <1>3, <1>4 DEF Idle

\* A link that moves on leaves its chain in order.
LEMMA ChainedStep ==
  ASSUME Types, Chained, NEW c \in Conns, NEW n \in Links, Starting(c, n) \/ Running(c, n),
         NEW from, NEW to, Moves(c, n, from, to), UNCHANGED <<messageChain, socket>>
  PROVE  Chained'
<1>1. n <= Len(messageChain[c]) /\ \A m \in 1..(n - 1) : handler[c][m].next = "settled"
  BY DEF Starting, Running, CanStart, Chained, Idle, Settled, Locals
<1>2. handler[c][n].next # "settled"
  BY DEF Starting, Running, CanStart, Idle, Queued, Locals
<1>3. ASSUME NEW d \in Conns, NEW k \in Links, handler'[d][k].next # "queued"
      PROVE  /\ k <= Len(messageChain'[d])
             /\ \A m \in 1..(k - 1) : handler'[d][m].next = "settled"
  <2>1. CASE d = c /\ k = n
    <3>1. \A m \in 1..(n - 1) : m \in Links /\ m # n
      BY Bounds DEF Links
    <3>2. QED
      BY <1>1, <2>1, <3>1 DEF Moves
  <2>2. CASE d # c \/ k # n
    <3>1. handler[d][k].next # "queued"
      BY <1>3, <2>2 DEF Moves
    <3>2. k <= Len(messageChain[d]) /\ \A m \in 1..(k - 1) : handler[d][m].next = "settled"
      BY <3>1 DEF Chained
    <3>3. \A m \in 1..(k - 1) : m \in Links
      BY Bounds DEF Links
    <3>4. \A m \in 1..(k - 1) : d # c \/ m # n
      BY <1>2, <3>2
    <3>5. QED
      BY <3>2, <3>3, <3>4 DEF Moves
  <2>3. QED
    BY <2>1, <2>2
<1>4. \A d \in Conns : socket'[d] = "new" => messageChain'[d] = <<>>
  BY DEF Chained
<1>5. QED
  BY <1>3, <1>4 DEF Chained

\* handler' is handler but for one record.
Becomes(c, n, h) == handler' = [handler EXCEPT ![c] = [handler[c] EXCEPT ![n] = h]]

\* Replacing one record is a move of that link.
LEMMA BecomesMoves ==
  ASSUME Types, Wires, NEW c \in Conns, NEW n \in Links, NEW from, NEW to,
         handler[c][n].next \in from,
         NEW h \in Handlers, Becomes(c, n, h), h.next \in to, h.next \in Idle => ~h.onWire
  PROVE  /\ Moves(c, n, from, to) /\ Wires'
         /\ HandlerTypes' /\ handler'[c][n] = h
<1>1. handler \in [Conns -> [Links -> Handlers]]
  BY DEF Types, HandlerTypes
<1>2. HandlerTypes' /\ handler'[c][n] = h
  BY <1>1 DEF Becomes, HandlerTypes
<1>3. \A d \in Conns, m \in Links : d # c \/ m # n => handler'[d][m] = handler[d][m]
  BY <1>1 DEF Becomes
<1>4. Moves(c, n, from, to)
  BY <1>2, <1>3 DEF Moves
<1>5. Wires'
  BY <1>2, <1>3 DEF Wires
<1>6. QED
  BY <1>2, <1>4, <1>5

LEMMA EmitBecomes ==
  ASSUME Types, NEW c \in Conns, NEW n \in Links, NEW burst, NEW next, Emit(c, n, burst, next)
  PROVE  Becomes(c, n, [handler[c][n] EXCEPT !.next = next, !.onWire = IsOpen(c)])
<1>1. handler \in [Conns -> [Links -> Handlers]]
  BY DEF Types, HandlerTypes
<1>2. QED
  BY <1>1 DEF Emit, Becomes

Openers == {"settle", "settled", "reply"}
\* Every handler that begins leaves its link answered, or said.
LEMMA StartMoves ==
  ASSUME Types, Wires, NEW c \in Conns, NEW n \in Links, Start(c, n)
  PROVE  /\ Starting(c, n) /\ Wires' /\ HandlerTypes'
         /\ UNCHANGED messageChain
         /\ HandlePing(c, n) => Moves(c, n, {"queued"}, {"settled"})
         /\ HandleSend(c, n) => Moves(c, n, {"queued"}, {"reply"})
         /\ ~HandlePing(c, n) /\ ~HandleSend(c, n) => Moves(c, n, {"queued"}, {"settle"})
         /\ Moves(c, n, {"queued"}, Openers)
<1>1. Starting(c, n) /\ UNCHANGED messageChain
  BY DEF Start, HandleStateless, HandlePing, HandleStartChat, HandleResumeChat,
         HandleInterrupt, HandleSend, Starts, Starting
<1>2. handler[c][n].next = "queued" /\ handler[c][n] \in Handlers
  BY <1>1 DEF Starting, CanStart, Queued, Locals, Types, HandlerTypes
<1>3. ASSUME NEW burst, NEW next \in {"settle", "reply"}, Emit(c, n, burst, next)
      PROVE  /\ Moves(c, n, {"queued"}, {next}) /\ Wires'
             /\ HandlerTypes'
  <2> DEFINE h == [handler[c][n] EXCEPT !.next = next, !.onWire = IsOpen(c)]
  <2>1. h \in Handlers /\ h.next = next /\ h.next \notin Idle
    BY <1>2, <1>3 DEF Handlers, IsOpen, Idle
  <2>2. Becomes(c, n, h)
    BY <1>3, EmitBecomes
  <2> HIDE DEF h
  <2>3. QED
    BY <1>2, <2>1, <2>2, BecomesMoves
<1>4. ASSUME HandlePing(c, n)
      PROVE  /\ Moves(c, n, {"queued"}, {"settled"}) /\ Wires'
             /\ HandlerTypes'
  <2>1. Becomes(c, n, Settled)
    BY <1>4 DEF HandlePing, Becomes
  <2>2. Settled \in Handlers /\ Settled.next = "settled" /\ ~Settled.onWire
    BY Bounds DEF Settled, Locals, Handlers
  <2>3. QED
    BY <1>2, <2>1, <2>2, BecomesMoves
<1>5. CASE HandlePing(c, n)
  BY <1>1, <1>4, <1>5 DEF HandleSend, HandlePing, Starts, Moves, Openers
<1>6. CASE HandleSend(c, n)
  <2>1. Emit(c, n, "userMessage", "reply")
    BY <1>6 DEF HandleSend
  <2>2. QED
    BY <1>1, <1>3, <1>6, <2>1 DEF HandleSend, HandlePing, Starts, Moves, Openers
<1>7. CASE ~HandlePing(c, n) /\ ~HandleSend(c, n)
  <2>1. Emit(c, n, "answer", "settle")
    BY <1>7 DEF Start, HandleStateless, HandleStartChat, HandleResumeChat, HandleInterrupt
  <2>2. QED
    BY <1>1, <1>3, <1>7, <2>1 DEF Moves, Openers
<1>8. QED
  BY <1>5, <1>6, <1>7

\* What a step of a running handler does to the handlers.
Going(c, n, from, to) ==
  /\ Moves(c, n, from, to) /\ Running(c, n) /\ Wires'
  /\ HandlerTypes'
  /\ UNCHANGED <<messageChain, socket, sessionId, chatId, connectionId>>

\* Where running links go, action by action.
LEMMA SettlesMoves ==
  ASSUME Types, Wires, NEW c \in Conns, NEW n \in Links,
         handler' = [handler EXCEPT ![c][n] = Settled],
         NEW from, handler[c][n].next \in from, handler[c][n].next \notin Idle,
         UNCHANGED <<messageChain, socket, ids>>
  PROVE  Going(c, n, from, {"settled"})
<1>1. Becomes(c, n, Settled)
  BY DEF Becomes
<1>2. Settled \in Handlers /\ Settled.next = "settled" /\ ~Settled.onWire
  BY Bounds DEF Settled, Locals, Handlers
<1>3. QED
  BY <1>1, <1>2, BecomesMoves DEF Going, Running, ids

LEMMA EmitMoves ==
  ASSUME Types, Wires, NEW c \in Conns, NEW n \in Links, NEW burst, NEW next \in {"settle", "reply"},
         Emit(c, n, burst, next),
         NEW from, handler[c][n].next \in from, handler[c][n].next \notin Idle,
         UNCHANGED <<messageChain, socket, ids>>
  PROVE  Going(c, n, from, {next})
<1> DEFINE h == [handler[c][n] EXCEPT !.next = next, !.onWire = IsOpen(c)]
<1>1. handler[c][n] \in Handlers
  BY DEF Types, HandlerTypes
<1>2. h \in Handlers /\ h.next = next /\ h.next \notin Idle
  BY <1>1 DEF Handlers, IsOpen, Idle
<1>3. Becomes(c, n, h)
  BY EmitBecomes
<1> HIDE DEF h
<1>4. QED
  BY <1>2, <1>3, BecomesMoves DEF Going, Running, ids

LEMMA FlushMoves ==
  ASSUME Types, Wires, NEW c \in Conns, NEW n \in Links, FlushFails(c, n)
  PROVE  Going(c, n, {"settle", "reply", "askAgent", "agent"}, {"settled"})
<1>1. handler[c][n] \in Handlers
  BY DEF Types, HandlerTypes
<1>2. handler[c][n].next \in {"settle", "reply", "askAgent", "agent"}
      /\ handler[c][n].next \notin Idle
  BY <1>1 DEF FlushFails, Wires, Handlers, Idle
<1>3. QED
  BY <1>2, SettlesMoves DEF FlushFails

LEMMA SettleMoves ==
  ASSUME Types, Wires, NEW c \in Conns, NEW n \in Links, Settle(c, n)
  PROVE  Going(c, n, {"settle"}, {"settled"})
BY SettlesMoves DEF Settle, Awaits, Idle

LEMMA FailMoves ==
  ASSUME Types, Wires, NEW c \in Conns, NEW n \in Links, AgentFail(c, n)
  PROVE  Going(c, n, {"agent"}, {"settled"})
BY SettlesMoves DEF AgentFail, Awaits, Idle

LEMMA EndMoves ==
  ASSUME Types, Wires, NEW c \in Conns, NEW n \in Links, AgentEnd(c, n)
  PROVE  Going(c, n, {"agent"}, {"settle"})
BY EmitMoves DEF AgentEnd, Awaits, Idle

LEMMA ReplyMoves ==
  ASSUME Types, Wires, NEW c \in Conns, NEW n \in Links, StartReply(c, n)
  PROVE  Going(c, n, {"reply"}, {"askAgent"})
<1> DEFINE h == Locals("askAgent", IsOpen(c), replySequence'[c])
<1>1. replySequence'[c] \in Nat
  BY DEF StartReply, Types, FlagTypes
<1>2. h \in Handlers /\ h.next = "askAgent" /\ h.next \notin Idle
  BY <1>1, Bounds DEF Locals, Handlers, IsOpen, Idle
<1>3. Becomes(c, n, h)
  BY DEF StartReply, Becomes
<1>4. handler[c][n].next \in {"reply"}
  BY DEF StartReply, Awaits
<1> HIDE DEF h
<1>5. Moves(c, n, {"reply"}, {"askAgent"}) /\ Wires'
      /\ HandlerTypes'
  BY <1>2, <1>3, <1>4, BecomesMoves
<1>6. QED
  BY <1>4, <1>5 DEF Going, Running, Idle, StartReply, ids

LEMMA AskMoves ==
  ASSUME Types, Wires, NEW c \in Conns, NEW n \in Links, AskAgent(c, n)
  PROVE  Going(c, n, {"askAgent"}, {"agent"})
<1> DEFINE h == [handler[c][n] EXCEPT !.next = "agent", !.onWire = FALSE]
<1>1. handler[c][n] \in Handlers /\ handler \in [Conns -> [Links -> Handlers]]
  BY DEF Types, HandlerTypes
<1>2. h \in Handlers /\ h.next = "agent" /\ h.next \notin Idle
  BY <1>1 DEF Handlers, Idle
<1>3. Becomes(c, n, h)
  BY <1>1 DEF AskAgent, Becomes
<1>4. handler[c][n].next \in {"askAgent"}
  BY DEF AskAgent, Awaits
<1> HIDE DEF h
<1>5. Moves(c, n, {"askAgent"}, {"agent"}) /\ Wires'
      /\ HandlerTypes'
  BY <1>2, <1>3, <1>4, BecomesMoves
<1>6. QED
  BY <1>4, <1>5 DEF Going, Running, Idle, AskAgent, ids

\* A delta is sent, or found to come too late.
DeltaCancels(c, n) == AgentDelta(c, n) /\ Cancelled(c, n)
DeltaSent(c, n) == AgentDelta(c, n) /\ ~Cancelled(c, n)

LEMMA CancelMoves ==
  ASSUME Types, Wires, NEW c \in Conns, NEW n \in Links, DeltaCancels(c, n)
  PROVE  Going(c, n, {"agent"}, {"settle"})
BY EmitMoves DEF DeltaCancels, AgentDelta, Awaits, Idle

LEMMA DeltaMoves ==
  ASSUME Types, Wires, NEW c \in Conns, NEW n \in Links, DeltaSent(c, n)
  PROVE  Going(c, n, {"agent"}, {"agent"})
<1> DEFINE h == [handler[c][n] EXCEPT !.deltas = @ + 1, !.onWire = IsOpen(c)]
<1>1. handler[c][n] \in Handlers /\ handler \in [Conns -> [Links -> Handlers]]
  BY DEF Types, HandlerTypes
<1>2. handler[c][n].next \in {"agent"} /\ handler[c][n].deltas < MaxDeltas
  BY DEF DeltaSent, AgentDelta, Awaits
<1>3. h \in Handlers /\ h.next = "agent" /\ h.next \notin Idle
  <2>1. handler[c][n].deltas + 1 \in 0..MaxDeltas /\ IsOpen(c) \in BOOLEAN
    BY <1>1, <1>2, Bounds DEF Handlers, IsOpen
  <2>2. QED
    BY <1>1, <1>2, <2>1 DEF Handlers, Idle
<1>4. Becomes(c, n, h)
  BY <1>1 DEF DeltaSent, AgentDelta, Becomes
<1> HIDE DEF h
<1>5. Moves(c, n, {"agent"}, {"agent"}) /\ Wires'
      /\ HandlerTypes'
  BY <1>2, <1>3, <1>4, BecomesMoves
<1>6. QED
  BY <1>2, <1>5 DEF Going, Running, Idle, DeltaSent, AgentDelta, ids

-----------------------------------------------------------------------------
(* How the parts of the invariant are kept *)

\* Messages only go.
Shrinks ==
  DOMAIN messages' \subseteq InStore /\ \A t \in DOMAIN messages' : messages'[t] = messages[t]

LEMMA ShrinksKeeps ==
  ASSUME StoreTypes, AnswerAfterQuestion, Shrinks, old' \subseteq DOMAIN messages'
  PROVE  StoreTypes' /\ AnswerAfterQuestion'
BY DEF StoreTypes, AnswerAfterQuestion, Shrinks, InStore

\* Sessions of connections whose chain has not begun may change.
LEMMA EnteredIdle ==
  ASSUME StoreTypes, Entered, Shrinks, UNCHANGED handler,
         \A d \in Conns : sessionId'[d] = sessionId[d]
                         \/ \A n \in Links : handler[d][n].next = "queued"
  PROVE  Entered'
<1> SUFFICES ASSUME NEW s \in DOMAIN messages', NEW i \in 1..Len(messages'[s])
             PROVE  LET m == messages'[s][i]
                        next == handler'[m.by][m.in].next
                    IN  /\ next \notin {"queued", "reply"}
                        /\ next \in {"askAgent", "agent"} => m.role = "user" /\ s = sessionId'[m.by]
  BY DEF Entered, InStore
<1> DEFINE m == messages[s][i]
<1>1. s \in InStore /\ i \in 1..Len(messages[s]) /\ messages'[s][i] = m
  BY DEF Shrinks
<1>2. m.by \in Conns /\ m.in \in Links
  <2>1. m \in Messages
    BY <1>1, ElementOfSeq DEF StoreTypes
  <2>2. QED
    BY <2>1 DEF Messages
<1>3. /\ handler[m.by][m.in].next \notin {"queued", "reply"}
      /\ handler[m.by][m.in].next \in {"askAgent", "agent"} => m.role = "user" /\ s = sessionId[m.by]
  BY <1>1 DEF Entered
<1> HIDE DEF m
<1>4. QED
  BY <1>1, <1>2, <1>3

\* A link moves on, and what is entered for it stays so.
LEMMA EnteredMoves ==
  ASSUME Types, Chained, Entered, Shrinks, NEW c \in Conns, NEW n \in Links,
         Starting(c, n) \/ Running(c, n), NEW from, NEW to, Moves(c, n, from, to),
         \A d \in Conns : d # c => sessionId'[d] = sessionId[d],
         \/ from \subseteq {"queued", "reply"}
         \/ /\ to \cap {"queued", "reply"} = {}
            /\ UNCHANGED sessionId
            /\ to \cap {"askAgent", "agent"} = {} \/ from \subseteq {"askAgent", "agent"}
  PROVE  Entered'
<1> SUFFICES ASSUME NEW s \in DOMAIN messages', NEW i \in 1..Len(messages'[s])
             PROVE  LET m == messages'[s][i]
                        next == handler'[m.by][m.in].next
                    IN  /\ next \notin {"queued", "reply"}
                        /\ next \in {"askAgent", "agent"} => m.role = "user" /\ s = sessionId'[m.by]
  BY DEF Entered, InStore
<1> DEFINE m == messages[s][i]
<1>1. s \in InStore /\ i \in 1..Len(messages[s]) /\ messages'[s][i] = m
  BY DEF Shrinks
<1>2. m.by \in Conns /\ m.in \in Links
  <2>1. m \in Messages
    BY <1>1, ElementOfSeq DEF StoreTypes, Types
  <2>2. QED
    BY <2>1 DEF Messages
<1>3. /\ handler[m.by][m.in].next \notin {"queued", "reply"}
      /\ handler[m.by][m.in].next \in {"askAgent", "agent"} => m.role = "user" /\ s = sessionId[m.by]
  BY <1>1 DEF Entered
<1> HIDE DEF m
<1>4. CASE m.by = c /\ m.in = n
  BY <1>1, <1>3, <1>4 DEF Moves
<1>5. CASE m.by = c /\ m.in # n
  <2>1. handler[c][m.in].next \in Idle
    BY <1>2, <1>5, Alone
  <2>2. QED
    BY <1>1, <1>2, <1>3, <1>5, <2>1 DEF Moves, Idle
<1>6. CASE m.by # c
  BY <1>1, <1>2, <1>3, <1>6 DEF Moves
<1>7. QED
  BY <1>4, <1>5, <1>6

\* The requests that are there stay, or end.
LEMMA AskedKeeps ==
  ASSUME RequestTypes, Asked, NEW c \in Conns,
         UNCHANGED request \/ request' = [request EXCEPT ![c] = Missing]
  PROVE  RequestTypes' /\ Asked'
<1>1. \A d \in Conns : request'[d] # Missing => request'[d] = request[d]
  BY DEF RequestTypes
<1>2. RequestTypes'
  BY DEF RequestTypes
<1>3. QED
  BY <1>1, <1>2 DEF Asked, PromptEndsWithQuestion, ContextNamesSource

\* Attachments grow, and a session is attached before it is a connection's.
LEMMA AttachedKeeps ==
  ASSUME Attached, RegistryOf(satellites'),
         \A t, y : Has(satellites, t, y) => Has(satellites', t, y),
         \A d \in Conns : socket'[d] # "new" =>
           \/ Has(satellites', sessionId'[d], Voxta)
           \/ sessionId'[d] = sessionId[d] /\ socket[d] # "new"
  PROVE  Attached'
BY DEF Attached

\* What a client has heard when a handler stands there.
Fits(next, burst) ==
  /\ next \in Idle \union {"settle"} => burst \in Between
  /\ next = "reply" => burst = "userMessage"
  /\ next = "askAgent" => burst = "replyStart"
  /\ next = "agent" => burst \in {"replyStart", "replyChunk"}

\* A burst that fits where its link stands keeps Hears.
LEMMA HearsStep ==
  ASSUME Types, Chained, Hears, NEW c \in Conns, NEW n \in Links,
         Starting(c, n) \/ Running(c, n), NEW from, NEW to, Moves(c, n, from, to),
         UNCHANGED socket, \A d \in Conns : d # c => heard'[d] = heard[d],
         socket[c] # "closed" => Fits(handler'[c][n].next, heard'[c])
  PROVE  Hears'
<1> SUFFICES ASSUME NEW d \in Conns, socket[d] # "closed"
             PROVE  /\ (\A m \in Links : handler'[d][m].next \in Idle \union {"settle"})
                          => heard'[d] \in Between
                    /\ \A m \in Links :
                         /\ handler'[d][m].next = "reply" => heard'[d] = "userMessage"
                         /\ handler'[d][m].next = "askAgent" => heard'[d] = "replyStart"
                         /\ handler'[d][m].next = "agent" => heard'[d] \in {"replyStart", "replyChunk"}
  BY DEF Hears
<1>1. CASE d # c
  BY <1>1 DEF Hears, Moves
<1>2. CASE d = c
  <2>1. \A m \in Links : m # n => handler'[c][m].next \in Idle
    BY Alone DEF Moves
  <2>2. QED
    BY <1>2, <2>1 DEF Fits, Idle
<1>3. QED
  BY <1>1, <1>2

\* Before a handler begins its client has heard the end of an exchange.
LEMMA StartingHears ==
  ASSUME Types, Chained, Hears, NEW c \in Conns, NEW n \in Links, Starting(c, n),
         socket[c] # "closed"
  PROVE  heard[c] \in Between
<1>1. handler[c][n].next \in Idle
  BY DEF Starting, CanStart, Queued, Locals, Idle
<1>2. \A m \in Links : handler[c][m].next \in Idle \union {"settle"}
  BY <1>1, Alone
<1>3. QED
  BY <1>2 DEF Hears

LEMMA SendHears ==
  ASSUME HeardTypes, NEW c \in Conns, NEW burst \in Bursts, Send(c, burst)
  PROVE  /\ HeardTypes' /\ \A d \in Conns : d # c => heard'[d] = heard[d]
         /\ IsOpen(c) => heard'[c] = burst /\ heard' = [heard EXCEPT ![c] = burst]
         /\ ~IsOpen(c) => heard' = heard
BY DEF HeardTypes, Send

-----------------------------------------------------------------------------
(* One lemma for each action *)

LEMMA InitHolds == Init => IInv
<1> SUFFICES ASSUME Init
             PROVE  IInv
  OBVIOUS
<1> USE DEF Init
<1>1. StoreTypes
  BY DEF StoreInit, StoreTypes, InStore
<1>2. HandlerTypes
  <2>1. Queued \in Handlers
    BY Bounds DEF Queued, Locals, Handlers
  <2>2. QED
    BY <2>1 DEF HandlerTypes
<1>3. ConnTypes /\ FlagTypes /\ RequestTypes /\ HeardTypes
  BY DEF ConnTypes, FlagTypes, RequestTypes, HeardTypes, Bursts
<1>4. messageChain \in [Conns -> Seq(FrameRecords)]
  BY EmptySeq
<1>5. Types
  BY <1>1, <1>2, <1>3, <1>4 DEF Types
<1>6. \A c \in Conns, n \in Links : handler[c][n].next = "queued" /\ ~handler[c][n].onWire
  BY DEF Queued, Locals
<1>7. Chained /\ Wires /\ Hears
  BY <1>6 DEF Chained, Wires, Hears, Between
<1>8. Attached
  BY DEF RegistryInit, Attached, RegistryOf
<1>9. Asked
  BY DEF Asked, PromptEndsWithQuestion, ContextNamesSource
<1>10. Entered /\ AnswerAfterQuestion
  BY DEF StoreInit, InStore, Entered, AnswerAfterQuestion
<1>11. QED
  BY <1>5, <1>7, <1>8, <1>9, <1>10 DEF IInv

LEMMA SameStore ==
  ASSUME StoreTypes, UNCHANGED store
  PROVE  Shrinks /\ StoreTypes' /\ old' \subseteq DOMAIN messages'
BY DEF store, Shrinks, StoreTypes, InStore

\* Tokens are no part of any chain.
LEMMA NegotiateKeeps ==
  ASSUME IInv, NEW token \in Tokens, Negotiate(token)
  PROVE  IInv'
<1> USE DEF Negotiate, IInv, store, ids, flags
<1>1. Types'
  BY DEF Types, StoreTypes, InStore, ConnTypes, FlagTypes, HandlerTypes, RequestTypes, HeardTypes
<1>2. Chained' /\ Wires' /\ Attached' /\ Hears'
  BY DEF Chained, Wires, Attached, Hears
<1>3. Asked' /\ Entered' /\ AnswerAfterQuestion'
  BY DEF Asked, PromptEndsWithQuestion, ContextNamesSource, Entered, AnswerAfterQuestion, InStore
<1>4. QED
  BY <1>1, <1>2, <1>3

\* Whose chain is empty has no handler that has begun.
LEMMA NewIsIdle ==
  ASSUME Types, Chained, NEW c \in Conns, socket[c] = "new"
  PROVE  \A n \in Links : handler[c][n].next = "queued"
<1>1. Len(messageChain[c]) = 0
  BY DEF Chained
<1>2. QED
  BY <1>1 DEF Chained, Links

LEMMA ConnectKeeps ==
  ASSUME IInv, NEW c \in Conns, NEW token \in Tokens, Connect(c, token)
  PROVE  IInv'
<1> USE DEF IInv
<1> DEFINE u == [of |-> IF token \in pendingConnections THEN token ELSE c, nr |-> 0]
<1>1. u \in Uuids /\ NewSession(u) \in SessionIds
  BY Bounds DEF Uuids, NewSession, SessionIds
<1>2. /\ socket[c] = "new" /\ socket' = [socket EXCEPT ![c] = "open"]
      /\ connectionId' = [connectionId EXCEPT ![c] = u]
      /\ sessionId' = [sessionId EXCEPT ![c] = NewSession(u)]
      /\ chatId' = [chatId EXCEPT ![c] = u]
      /\ attachSatellite(NewSession(u), Voxta)
      /\ pendingConnections' \subseteq pendingConnections
      /\ UNCHANGED <<messages, old, messageChain, handler, replyAbort, replySequence,
                     request, heard>>
  BY DEF Connect, TokenUsed, store, flags
<1> HIDE DEF u
<1>3. ConnTypes'
  BY <1>1, <1>2 DEF Types, ConnTypes, ChatIds
<1>4. Types'
  BY <1>2, <1>3 DEF Types, StoreTypes, InStore, FlagTypes, HandlerTypes, RequestTypes, HeardTypes
<1>5. \A n \in Links : handler[c][n].next = "queued"
  BY <1>2, NewIsIdle
<1>6. Chained' /\ Wires' /\ Hears'
  <2>1. \A d \in Conns : (socket'[d] = "new" => socket[d] = "new")
                        /\ (socket'[d] # "closed" => socket[d] # "closed")
    BY <1>2 DEF Types, ConnTypes
  <2>2. QED
    BY <1>2, <2>1 DEF Chained, Wires, Hears
<1>7. Attached'
  <2>1. Voxta \in Satellites /\ RegistryOf(satellites)
    BY DEF Satellites, Attached
  <2>2. /\ RegistryOf(satellites') /\ Has(satellites', NewSession(u), Voxta)
        /\ \A t, y : Has(satellites, t, y) => Has(satellites', t, y)
    BY <1>1, <1>2, <2>1, AttachKeeps
  <2>3. \A d \in Conns : socket'[d] # "new" =>
           \/ Has(satellites', sessionId'[d], Voxta)
           \/ sessionId'[d] = sessionId[d] /\ socket[d] # "new"
    BY <1>2, <2>2 DEF Types, ConnTypes
  <2>4. QED
    BY <2>2, <2>3, AttachedKeeps
<1>8. Asked'
  BY <1>2 DEF Asked, PromptEndsWithQuestion, ContextNamesSource
<1>9. Entered' /\ AnswerAfterQuestion'
  <2>1. Shrinks /\ StoreTypes
    BY <1>2 DEF Shrinks, InStore, Types
  <2>2. \A d \in Conns : sessionId'[d] = sessionId[d]
                       \/ \A n \in Links : handler[d][n].next = "queued"
    BY <1>2, <1>5 DEF Types, ConnTypes
  <2>3. Entered'
    BY <1>2, <2>1, <2>2, EnteredIdle
  <2>4. QED
    BY <1>2, <2>3 DEF AnswerAfterQuestion, InStore
<1>10. QED
  BY <1>4, <1>6, <1>7, <1>8, <1>9

\* A frame more, at the end of a chain.
LEMMA ReceiveKeeps ==
  ASSUME IInv, NEW c \in Conns, Receive(c)
  PROVE  IInv'
<1> USE DEF IInv
<1>1. PICK scenario \in Scenarios :
        /\ Len(messageChain[c]) < Len(scenario[c])
        /\ messageChain' = [messageChain EXCEPT ![c] =
              Append(messageChain[c], scenario[c][Len(messageChain[c]) + 1])]
  BY DEF Receive
<1>2. /\ socket[c] = "open"
      /\ UNCHANGED <<messages, old, satellites, pendingConnections, socket, connectionId,
                     sessionId, chatId, handler, replyAbort, replySequence, request, heard>>
  BY DEF Receive, store, ids, flags
<1>3. /\ messageChain[c] \in Seq(FrameRecords) /\ scenario[c] \in Seq(FrameRecords)
      /\ messageChain \in [Conns -> Seq(FrameRecords)]
  BY FacadeAssumption DEF Types
<1>4. Len(messageChain[c]) + 1 \in 1..Len(scenario[c])
  BY <1>1, <1>3
<1>5. scenario[c][Len(messageChain[c]) + 1] \in FrameRecords
  BY <1>3, <1>4, ElementOfSeq
<1>6. /\ messageChain'[c] \in Seq(FrameRecords)
      /\ Len(messageChain'[c]) = Len(messageChain[c]) + 1
  BY <1>1, <1>3, <1>5, AppendProperties
<1>7. messageChain' \in [Conns -> Seq(FrameRecords)]
  BY <1>1, <1>3, <1>6
<1>8. Types'
  BY <1>2, <1>7
  DEF Types, StoreTypes, InStore, ConnTypes, FlagTypes, HandlerTypes, RequestTypes, HeardTypes
<1>9. Chained'
  <2>1. Len(messageChain[c]) \in Nat /\ Len(messageChain[c]) <= Len(messageChain'[c])
    BY <1>3, <1>6
  <2>2. \A d \in Conns : d # c => messageChain'[d] = messageChain[d]
    BY <1>1, <1>3
  <2>3. QED
    BY <1>2, <2>1, <2>2, <1>6 DEF Chained, Links
<1>10. Wires' /\ Attached' /\ Hears'
  BY <1>2 DEF Wires, Attached, Hears
<1>11. Asked' /\ Entered' /\ AnswerAfterQuestion'
  BY <1>2 DEF Asked, PromptEndsWithQuestion, ContextNamesSource, Entered, AnswerAfterQuestion, InStore
<1>12. QED
  BY <1>8, <1>9, <1>10, <1>11

LEMMA CloseKeeps ==
  ASSUME IInv, NEW c \in Conns, SocketClose(c)
  PROVE  IInv'
<1> USE DEF IInv, SocketClose, cancelReply, store, ids, flags
<1>1. ConnTypes' /\ FlagTypes'
  BY DEF Types, ConnTypes, FlagTypes
<1>2. Types'
  BY <1>1 DEF Types, StoreTypes, InStore, HandlerTypes, RequestTypes, HeardTypes
<1>3. \A d \in Conns : /\ socket'[d] = "new" <=> socket[d] = "new"
                      /\ socket'[d] # "closed" => socket[d] # "closed"
  BY DEF Types, ConnTypes
<1>4. Chained' /\ Wires' /\ Hears'
  BY <1>3 DEF Chained, Wires, Hears
<1>5. Attached'
  BY <1>3 DEF Attached
<1>6. Asked' /\ Entered' /\ AnswerAfterQuestion'
  BY DEF Asked, PromptEndsWithQuestion, ContextNamesSource, Entered, AnswerAfterQuestion, InStore
<1>7. QED
  BY <1>2, <1>4, <1>5, <1>6

LEMMA RealtimeAttachKeeps ==
  ASSUME IInv, NEW s \in Shared, NEW satellite \in Others, RealtimeAttach(s, satellite)
  PROVE  IInv'
<1> USE DEF IInv
<1>1. UNCHANGED <<messages, old, pendingConnections, socket, connectionId, sessionId, chatId,
                  messageChain, handler, replyAbort, replySequence, request, heard>>
  BY DEF RealtimeAttach, store, ids, flags
<1>2. Types'
  BY <1>1
  DEF Types, StoreTypes, InStore, ConnTypes, FlagTypes, HandlerTypes, RequestTypes, HeardTypes
<1>3. Attached'
  <2>1. s \in SessionIds /\ satellite \in Satellites /\ RegistryOf(satellites)
    BY FacadeAssumption DEF Satellites, Attached
  <2>2. attachSatellite(s, satellite)
    BY DEF RealtimeAttach
  <2>3. /\ RegistryOf(satellites')
        /\ \A t, y : Has(satellites, t, y) => Has(satellites', t, y)
    BY <2>1, <2>2, AttachKeeps
  <2>4. QED
    BY <1>1, <2>3, AttachedKeeps
<1>4. Chained' /\ Wires' /\ Hears'
  BY <1>1 DEF Chained, Wires, Hears
<1>5. Asked' /\ Entered' /\ AnswerAfterQuestion'
  BY <1>1 DEF Asked, PromptEndsWithQuestion, ContextNamesSource, Entered, AnswerAfterQuestion, InStore
<1>6. QED
  BY <1>2, <1>3, <1>4, <1>5

LEMMA ExpireKeeps ==
  ASSUME IInv, NEW s \in InStore, Expire(s)
  PROVE  IInv'
<1> USE DEF IInv
<1>1. /\ UNCHANGED <<messages, satellites, pendingConnections, socket, connectionId, sessionId,
                     chatId, messageChain, handler, replyAbort, replySequence, request, heard>>
      /\ old' = old \union {s}
  BY DEF Expire, GrowOld, ids, flags
<1>2. Types'
  BY <1>1
  DEF Types, StoreTypes, InStore, ConnTypes, FlagTypes, HandlerTypes, RequestTypes, HeardTypes
<1>3. Chained' /\ Wires' /\ Attached' /\ Hears'
  BY <1>1 DEF Chained, Wires, Attached, Hears
<1>4. Asked' /\ Entered' /\ AnswerAfterQuestion'
  BY <1>1 DEF Asked, PromptEndsWithQuestion, ContextNamesSource, Entered, AnswerAfterQuestion, InStore
<1>5. QED
  BY <1>2, <1>3, <1>4

LEMMA TypesStep ==
  ASSUME Types, StoreTypes', ConnTypes', FlagTypes', HandlerTypes', RequestTypes', HeardTypes',
         UNCHANGED <<pendingConnections, messageChain>>
  PROVE  Types'
BY DEF Types

\* Links that leave the sessions and the store alone.
LEMMA QuietKeeps ==
  ASSUME IInv, NEW c \in Conns, NEW n \in Links, Starting(c, n) \/ Running(c, n),
         NEW from, NEW to, Moves(c, n, from, to), Wires', HandlerTypes', FlagTypes', HeardTypes',
         UNCHANGED <<store, satellites, pendingConnections, socket, ids, messageChain>>,
         UNCHANGED request \/ request' = [request EXCEPT ![c] = Missing],
         \A d \in Conns : d # c => heard'[d] = heard[d],
         socket[c] # "closed" => Fits(handler'[c][n].next, heard'[c]),
         to \cap {"queued", "reply"} = {},
         to \cap {"askAgent", "agent"} = {} \/ from \subseteq {"askAgent", "agent"}
  PROVE  IInv'
<1> USE DEF IInv
<1>1. StoreTypes /\ RequestTypes /\ ConnTypes /\ UNCHANGED <<sessionId, chatId, connectionId>>
  BY DEF Types, ids
<1>2. Shrinks /\ StoreTypes' /\ old' \subseteq DOMAIN messages'
  BY <1>1, SameStore
<1>3. AnswerAfterQuestion'
  BY <1>1, <1>2, ShrinksKeeps
<1>4. RequestTypes' /\ Asked'
  BY <1>1, AskedKeeps
<1>5. ConnTypes'
  BY <1>1 DEF ConnTypes
<1>6. Types'
  BY <1>2, <1>4, <1>5, TypesStep
<1>7. Chained'
  BY ChainedStep
<1>8. Hears'
  BY HearsStep
<1>9. Entered'
  BY <1>1, <1>2, EnteredMoves
<1>10. Attached'
  BY <1>1 DEF Attached
<1>11. QED
  BY <1>3, <1>4, <1>6, <1>7, <1>8, <1>9, <1>10

\* What is sent on an open socket is what a client has heard.
LEMMA SendFits ==
  ASSUME Types, NEW c \in Conns, NEW n \in Links, NEW burst \in Bursts, Send(c, burst),
         socket[c] # "new", NEW next, handler'[c][n].next = next, Fits(next, burst)
  PROVE  /\ HeardTypes' /\ \A d \in Conns : d # c => heard'[d] = heard[d]
         /\ socket[c] # "closed" => Fits(handler'[c][n].next, heard'[c])
<1>1. HeardTypes /\ (socket[c] # "closed" => IsOpen(c))
  BY DEF Types, ConnTypes, IsOpen
<1>2. QED
  BY <1>1, SendHears

\* A link that attaches its session, which its connection has from then on.
LEMMA AttachingKeeps ==
  ASSUME IInv, NEW c \in Conns, NEW n \in Links, Starting(c, n), NEW to,
         Moves(c, n, {"queued"}, to), Wires', HandlerTypes', FlagTypes', HeardTypes', ConnTypes',
         UNCHANGED <<store, pendingConnections, socket, messageChain, request>>,
         \A d \in Conns : d # c => heard'[d] = heard[d],
         socket[c] # "closed" => Fits(handler'[c][n].next, heard'[c]),
         NEW s \in SessionIds, attachSatellite(s, Voxta),
         sessionId' = [sessionId EXCEPT ![c] = s]
  PROVE  IInv'
<1> USE DEF IInv
<1>1. StoreTypes /\ RequestTypes /\ ConnTypes
  BY DEF Types
<1>2. Shrinks /\ StoreTypes' /\ old' \subseteq DOMAIN messages'
  BY <1>1, SameStore
<1>3. AnswerAfterQuestion'
  BY <1>1, <1>2, ShrinksKeeps
<1>4. RequestTypes' /\ Asked'
  BY <1>1, AskedKeeps
<1>5. Types'
  BY <1>2, <1>4, TypesStep
<1>6. Chained'
  BY ChainedStep
<1>7. Hears'
  BY HearsStep
<1>8. sessionId'[c] = s /\ \A d \in Conns : d # c => sessionId'[d] = sessionId[d]
  BY <1>1 DEF ConnTypes
<1>9. Entered'
  BY <1>2, <1>8, EnteredMoves
<1>10. Attached'
  <2>1. Voxta \in Satellites /\ RegistryOf(satellites)
    BY DEF Satellites, Attached
  <2>2. /\ RegistryOf(satellites') /\ Has(satellites', s, Voxta)
        /\ \A t, y : Has(satellites, t, y) => Has(satellites', t, y)
    BY <2>1, AttachKeeps
  <2>3. QED
    BY <1>8, <2>2, AttachedKeeps
<1>11. QED
  BY <1>3, <1>4, <1>5, <1>6, <1>7, <1>9, <1>10

LEMMA StartQuietKeeps ==
  ASSUME IInv, NEW c \in Conns, NEW n \in Links,
         HandleStateless(c, n) \/ HandlePing(c, n) \/ HandleInterrupt(c, n)
  PROVE  IInv'
<1>1. Types /\ Wires /\ Chained /\ Hears /\ FlagTypes /\ HeardTypes
  BY DEF IInv, Types
<1>2. Start(c, n)
  BY DEF Start
<1>3. /\ Starting(c, n) /\ Wires' /\ HandlerTypes'
      /\ HandlePing(c, n) => Moves(c, n, {"queued"}, {"settled"})
      /\ ~HandlePing(c, n) /\ ~HandleSend(c, n) => Moves(c, n, {"queued"}, {"settle"})
  BY <1>1, <1>2, StartMoves
<1>4. UNCHANGED <<store, satellites, pendingConnections, socket, ids, messageChain, request>>
  BY DEF HandleStateless, HandlePing, HandleInterrupt
<1>5. socket[c] # "new"
  BY <1>1, <1>3, Alone
<1>6. CASE HandlePing(c, n)
  <2>1. UNCHANGED <<flags, heard>>
    BY <1>6 DEF HandlePing
  <2>2. FlagTypes' /\ HeardTypes'
    BY <1>1, <2>1 DEF flags, FlagTypes, HeardTypes
  <2>3. socket[c] # "closed" => heard[c] \in Between
    BY <1>1, <1>3, StartingHears
  <2>4. handler'[c][n].next = "settled"
    BY <1>3, <1>6 DEF Moves
  <2>5. socket[c] # "closed" => Fits(handler'[c][n].next, heard'[c])
    BY <2>1, <2>3, <2>4 DEF Fits, Idle
  <2>6. QED
    BY <1>3, <1>4, <1>6, <2>1, <2>2, <2>5, QuietKeeps
<1>7. CASE HandleStateless(c, n) \/ HandleInterrupt(c, n)
  <2>1. Send(c, "answer") /\ ~HandlePing(c, n) /\ ~HandleSend(c, n)
    BY <1>7 DEF HandleStateless, HandleInterrupt, HandlePing, HandleSend, Emit, Starts
  <2>2. FlagTypes'
    <3>1. CASE HandleStateless(c, n)
      BY <1>1, <3>1 DEF flags, FlagTypes, HandleStateless
    <3>2. CASE HandleInterrupt(c, n)
      BY <1>1, <3>2 DEF FlagTypes, HandleInterrupt, cancelReply
    <3>3. QED
      BY <1>7, <3>1, <3>2
  <2>3. Moves(c, n, {"queued"}, {"settle"})
    BY <1>3, <2>1
  <2>4. handler'[c][n].next = "settle" /\ Fits("settle", "answer") /\ "answer" \in Bursts
    BY <2>3 DEF Moves, Fits, Between, Idle, Bursts
  <2>5. /\ HeardTypes' /\ \A d \in Conns : d # c => heard'[d] = heard[d]
        /\ socket[c] # "closed" => Fits(handler'[c][n].next, heard'[c])
    BY <1>1, <1>5, <2>1, <2>4, SendFits
  <2>6. QED
    BY <1>3, <1>4, <2>2, <2>3, <2>5, QuietKeeps
<1>8. QED
  BY <1>6, <1>7

LEMMA StartChatKeeps ==
  ASSUME IInv, NEW c \in Conns, NEW n \in Links, HandleStartChat(c, n)
  PROVE  IInv'
<1>1. Types /\ Wires /\ Chained /\ FlagTypes /\ ConnTypes
  BY DEF IInv, Types
<1>2. Start(c, n) /\ ~HandlePing(c, n) /\ ~HandleSend(c, n)
  BY DEF Start, HandleStartChat, HandlePing, HandleSend, Starts
<1>3. /\ Starting(c, n) /\ Wires' /\ HandlerTypes' /\ Moves(c, n, {"queued"}, {"settle"})
  BY <1>1, <1>2, StartMoves
<1>4. socket[c] # "new"
  BY <1>1, <1>3, Alone
<1>5. Send(c, "answer") /\ FlagTypes'
  BY <1>1 DEF HandleStartChat, Emit, flags, FlagTypes
<1>6. handler'[c][n].next = "settle" /\ Fits("settle", "answer") /\ "answer" \in Bursts
  BY <1>3 DEF Moves, Fits, Between, Idle, Bursts
<1>7. /\ HeardTypes' /\ \A d \in Conns : d # c => heard'[d] = heard[d]
      /\ socket[c] # "closed" => Fits(handler'[c][n].next, heard'[c])
  BY <1>1, <1>4, <1>5, <1>6, SendFits
<1> DEFINE u == [of |-> c, nr |-> n]
<1>8. u \in Uuids /\ NewSession(u) \in SessionIds
  BY Bounds DEF Uuids, NewSession, SessionIds, Links
<1>9. /\ sessionId' = [sessionId EXCEPT ![c] = NewSession(u)]
      /\ chatId' = [chatId EXCEPT ![c] = u]
      /\ attachSatellite(NewSession(u), Voxta)
      /\ UNCHANGED <<store, pendingConnections, socket, connectionId, messageChain, request>>
  BY DEF HandleStartChat
<1> HIDE DEF u
<1>10. ConnTypes'
  BY <1>1, <1>4, <1>8, <1>9 DEF ConnTypes, ChatIds
<1>11. QED
  BY <1>3, <1>5, <1>7, <1>8, <1>9, <1>10, AttachingKeeps

\* What a frame asks for is of its type.
LEMMA FrameTypes ==
  ASSUME Types, Chained, NEW c \in Conns, NEW n \in Links, Starting(c, n) \/ Running(c, n)
  PROVE  Frame(c, n) \in FrameRecords
<1>1. n <= Len(messageChain[c]) /\ messageChain[c] \in Seq(FrameRecords)
  BY Alone DEF Types
<1>2. n \in 1..Len(messageChain[c])
  BY <1>1, LenProperties DEF Links
<1>3. QED
  BY <1>1, <1>2, ElementOfSeq DEF Frame

\* A message is one of the two roles, with or without a text, of its link.
LEMMA SaidTypes ==
  ASSUME NEW role \in {"user", "assistant"}, NEW c \in Conns, NEW n \in Links,
         NEW content \in Texts \union {Missing}
  PROVE  /\ Said(role, c, n, content) \in Messages
         /\ Said(role, c, n, content).by = c /\ Said(role, c, n, content).in = n
         /\ Said(role, c, n, content).role = role
  BY DEF Said, Messages

LEMMA QuestionTypes ==
  ASSUME Types, Chained, NEW c \in Conns, NEW n \in Links, Running(c, n)
  PROVE  /\ Question(c, n) \in Messages /\ Question(c, n).role = "user"
         /\ Question(c, n).by = c /\ Question(c, n).in = n
<1>1. Frame(c, n).text \in Texts \union {Missing}
  BY FrameTypes DEF FrameRecords
<1>2. QED
  BY <1>1, SaidTypes DEF Question

LEMMA ResumeKeeps ==
  ASSUME IInv, NEW c \in Conns, NEW n \in Links, HandleResumeChat(c, n)
  PROVE  IInv'
<1>1. Types /\ Wires /\ Chained /\ FlagTypes /\ ConnTypes
  BY DEF IInv, Types
<1>2. Start(c, n) /\ ~HandlePing(c, n) /\ ~HandleSend(c, n)
  BY DEF Start, HandleResumeChat, HandlePing, HandleSend, Starts
<1>3. /\ Starting(c, n) /\ Wires' /\ HandlerTypes' /\ Moves(c, n, {"queued"}, {"settle"})
  BY <1>1, <1>2, StartMoves
<1>4. socket[c] # "new"
  BY <1>1, <1>3, Alone
<1>5. Send(c, "answer") /\ FlagTypes'
  BY <1>1 DEF HandleResumeChat, Emit, flags, FlagTypes
<1>6. handler'[c][n].next = "settle" /\ Fits("settle", "answer") /\ "answer" \in Bursts
  BY <1>3 DEF Moves, Fits, Between, Idle, Bursts
<1>7. /\ HeardTypes' /\ \A d \in Conns : d # c => heard'[d] = heard[d]
      /\ socket[c] # "closed" => Fits(handler'[c][n].next, heard'[c])
  BY <1>1, <1>4, <1>5, <1>6, SendFits
<1>8. UNCHANGED <<store, pendingConnections, socket, connectionId, messageChain, request>>
  BY DEF HandleResumeChat
<1> DEFINE chat == Frame(c, n).chat
<1>9. chat \in ChatIds \union {Missing} /\ Resume(c, chat)
  BY <1>1, <1>3, FrameTypes DEF FrameRecords, HandleResumeChat
<1> HIDE DEF chat
<1>10. CASE chat = Missing
  <2>1. UNCHANGED <<chatId, sessionId, satellites>>
    BY <1>9, <1>10 DEF Resume
  <2>2. QED
    BY <1>3, <1>5, <1>7, <1>8, <2>1, QuietKeeps DEF ids
<1>11. CASE chat # Missing
  <2>1. chat \in ChatIds /\ ResumedSession(chat) \in SessionIds
    BY <1>9, <1>11 DEF ChatIds, ResumedSession, SessionIds
  <2>2. /\ sessionId' = [sessionId EXCEPT ![c] = ResumedSession(chat)]
        /\ chatId' = [chatId EXCEPT ![c] = chat]
        /\ attachSatellite(ResumedSession(chat), Voxta)
    BY <1>9, <1>11 DEF Resume
  <2>3. ConnTypes'
    BY <1>1, <1>4, <1>8, <2>1, <2>2 DEF ConnTypes
  <2>4. QED
    BY <1>3, <1>5, <1>7, <1>8, <2>1, <2>2, <2>3, AttachingKeeps
<1>12. QED
  BY <1>10, <1>11

\* A text is said in a session that is attached first.
LEMMA HandleSendKeeps ==
  ASSUME IInv, NEW c \in Conns, NEW n \in Links, HandleSend(c, n)
  PROVE  IInv'
<1>1. Types /\ Wires /\ Chained /\ FlagTypes /\ ConnTypes
  BY DEF IInv, Types
<1>2. Start(c, n)
  BY DEF Start
<1>3. Starting(c, n) /\ Wires' /\ HandlerTypes' /\ Moves(c, n, {"queued"}, {"reply"})
  BY <1>1, <1>2, StartMoves
<1>4. socket[c] # "new"
  BY <1>1, <1>3, Alone
<1>5. Send(c, "userMessage") /\ FlagTypes'
  BY <1>1 DEF HandleSend, Emit, flags, FlagTypes
<1>6. handler'[c][n].next = "reply" /\ Fits("reply", "userMessage") /\ "userMessage" \in Bursts
  BY <1>3 DEF Moves, Fits, Idle, Bursts
<1>7. /\ HeardTypes' /\ \A d \in Conns : d # c => heard'[d] = heard[d]
      /\ socket[c] # "closed" => Fits(handler'[c][n].next, heard'[c])
  BY <1>1, <1>4, <1>5, <1>6, SendFits
<1> DEFINE named == Frame(c, n).session
           s == IF named = Missing THEN sessionId[c] ELSE named
<1>8. named \in SessionIds \union {Missing} /\ sessionId[c] \in SessionIds
  BY <1>1, <1>3, <1>4, FrameTypes DEF FrameRecords, ConnTypes
<1>9. /\ sessionId' = [sessionId EXCEPT ![c] = s]
      /\ attachSatellite(s, Voxta)
      /\ UNCHANGED <<store, pendingConnections, socket, connectionId, chatId, messageChain, request>>
  BY DEF HandleSend
<1>10. s \in SessionIds
  BY <1>8
<1> HIDE DEF named, s
<1>11. ConnTypes'
  BY <1>1, <1>4, <1>9, <1>10 DEF ConnTypes
<1>12. QED
  BY <1>3, <1>5, <1>7, <1>9, <1>10, <1>11, AttachingKeeps

LEMMA QuietLinkKeeps ==
  ASSUME IInv, NEW c \in Conns, NEW n \in Links,
         \/ FlushFails(c, n) \/ Settle(c, n) \/ AgentFail(c, n)
         \/ DeltaCancels(c, n) \/ DeltaSent(c, n)
  PROVE  IInv'
<1>1. Types /\ Wires /\ Chained /\ Hears /\ FlagTypes /\ HeardTypes /\ HandlerTypes
  BY DEF IInv, Types
<1>2. UNCHANGED <<store, satellites, pendingConnections, socket, ids, messageChain, flags>>
  BY DEF FlushFails, Settle, AgentFail, DeltaCancels, DeltaSent, AgentDelta
<1>3. UNCHANGED request \/ request' = [request EXCEPT ![c] = Missing]
  BY DEF FlushFails, Settle, AgentFail, DeltaCancels, DeltaSent, AgentDelta
<1>4. FlagTypes'
  BY <1>1, <1>2 DEF FlagTypes, flags
<1>5. CASE FlushFails(c, n)
  <2>1. Going(c, n, {"settle", "reply", "askAgent", "agent"}, {"settled"})
    BY <1>1, <1>5, FlushMoves
  <2>2. socket[c] = "closed" /\ UNCHANGED heard /\ HeardTypes'
    BY <1>1, <1>5 DEF FlushFails, HeardTypes
  <2>3. QED
    BY <1>2, <1>3, <1>4, <2>1, <2>2, QuietKeeps DEF Going
<1>6. CASE Settle(c, n)
  <2>1. Going(c, n, {"settle"}, {"settled"})
    BY <1>1, <1>6, SettleMoves
  <2>2. UNCHANGED heard /\ HeardTypes'
    BY <1>1, <1>6 DEF Settle, HeardTypes
  <2>3. handler'[c][n].next = "settled" /\ handler[c][n].next = "settle"
    BY <2>1 DEF Going, Moves
  <2>4. socket[c] # "closed" => heard[c] \in Between
    <3>1. \A m \in Links : handler[c][m].next \in Idle \union {"settle"}
      BY <1>1, <2>1, <2>3, Alone DEF Going
    <3>2. QED
      BY <1>1, <3>1 DEF Hears
  <2>5. socket[c] # "closed" => Fits(handler'[c][n].next, heard'[c])
    BY <2>2, <2>3, <2>4 DEF Fits, Idle
  <2>6. QED
    BY <1>2, <1>3, <1>4, <2>1, <2>2, <2>5, QuietKeeps DEF Going
<1>7. CASE AgentFail(c, n)
  <2>1. Going(c, n, {"agent"}, {"settled"})
    BY <1>1, <1>7, FailMoves
  <2>2. Send(c, "error") /\ socket[c] # "new"
    BY <1>1, <1>7, <2>1, Alone DEF AgentFail, Going
  <2>3. handler'[c][n].next = "settled" /\ Fits("settled", "error") /\ "error" \in Bursts
    BY <2>1 DEF Going, Moves, Fits, Idle, Between, Bursts
  <2>4. /\ HeardTypes' /\ \A d \in Conns : d # c => heard'[d] = heard[d]
        /\ socket[c] # "closed" => Fits(handler'[c][n].next, heard'[c])
    BY <1>1, <2>2, <2>3, SendFits
  <2>5. QED
    BY <1>2, <1>3, <1>4, <2>1, <2>4, QuietKeeps DEF Going
<1>8. CASE DeltaCancels(c, n)
  <2>1. Going(c, n, {"agent"}, {"settle"})
    BY <1>1, <1>8, CancelMoves
  <2>2. Send(c, "replyCancelled") /\ socket[c] # "new"
    BY <1>1, <1>8, <2>1, Alone DEF DeltaCancels, AgentDelta, Emit, Going
  <2>3. handler'[c][n].next = "settle" /\ Fits("settle", "replyCancelled")
        /\ "replyCancelled" \in Bursts
    BY <2>1 DEF Going, Moves, Fits, Idle, Between, Bursts
  <2>4. /\ HeardTypes' /\ \A d \in Conns : d # c => heard'[d] = heard[d]
        /\ socket[c] # "closed" => Fits(handler'[c][n].next, heard'[c])
    BY <1>1, <2>2, <2>3, SendFits
  <2>5. QED
    BY <1>2, <1>3, <1>4, <2>1, <2>4, QuietKeeps DEF Going
<1>9. CASE DeltaSent(c, n)
  <2>1. Going(c, n, {"agent"}, {"agent"})
    BY <1>1, <1>9, DeltaMoves
  <2>2. Send(c, "replyChunk") /\ socket[c] # "new"
    BY <1>1, <1>9, <2>1, Alone DEF DeltaSent, AgentDelta, Going
  <2>3. handler'[c][n].next = "agent" /\ Fits("agent", "replyChunk") /\ "replyChunk" \in Bursts
    BY <2>1 DEF Going, Moves, Fits, Idle, Bursts
  <2>4. /\ HeardTypes' /\ \A d \in Conns : d # c => heard'[d] = heard[d]
        /\ socket[c] # "closed" => Fits(handler'[c][n].next, heard'[c])
    BY <1>1, <2>2, <2>3, SendFits
  <2>5. QED
    BY <1>2, <1>3, <1>4, <2>1, <2>4, QuietKeeps DEF Going
<1>10. QED
  BY <1>5, <1>6, <1>7, <1>8, <1>9

\* The prompt of a call ends with the text of its question, and is made of messages.
LEMMA PromptEnds ==
  ASSUME NEW history \in Seq(Messages), NEW q \in Messages
  PROVE  LET p == buildMessages(history, q)
         IN  p \in Seq(Messages) /\ p # <<>> /\ p[Len(p)].content = q.content
<1> DEFINE prompt == Without(history, Blank)
<1>1. prompt \in Seq(Messages)
  BY WithoutFilters
<1> HIDE DEF prompt
<1>2. CASE prompt # <<>> /\ prompt[Len(prompt)].content = q.content
  BY <1>1, <1>2 DEF buildMessages, prompt
<1>3. CASE ~(prompt # <<>> /\ prompt[Len(prompt)].content = q.content)
  <2>1. buildMessages(history, q) = Append(prompt, q)
    BY <1>3 DEF buildMessages, prompt
  <2>2. /\ Append(prompt, q) \in Seq(Messages) /\ Len(prompt) \in Nat
        /\ Len(Append(prompt, q)) = Len(prompt) + 1
        /\ Append(prompt, q)[Len(prompt) + 1] = q
    BY <1>1, AppendProperties, LenProperties
  <2>3. Append(prompt, q) # <<>>
    BY <2>2, EmptySeq
  <2>4. QED
    BY <2>1, <2>2, <2>3
<1>4. QED
  BY <1>2, <1>3

\* The context of a call is that of a session the source is attached to.
LEMMA ContextIs ==
  ASSUME RegistryOf(satellites'), NEW s, Has(satellites', s, Voxta)
  PROVE  LET context == Context(s, Voxta)
         IN  /\ context \in [source : Satellites, active : Seq(Satellites)]
             /\ context.source = Voxta
             /\ \A i, j \in 1..Len(context.active) :
                  i # j => context.active[i] # context.active[j]
<1>1. s \in DOMAIN satellites' /\ \E i \in 1..Len(satellites'[s]) : satellites'[s][i] = Voxta
  BY DEF Has
<1>2. Context(s, Voxta) = [source |-> Voxta, active |-> satellites'[s]]
  BY <1>1 DEF Context
<1>3. Voxta \in Satellites
  BY DEF Satellites
<1>4. QED
  BY <1>1, <1>2, <1>3 DEF RegistryOf

\* The call of the agent: the prompt and the context are those of its link.
LEMMA AskKeeps ==
  ASSUME IInv, NEW c \in Conns, NEW n \in Links, AskAgent(c, n)
  PROVE  IInv'
<1>1. /\ Types /\ Wires /\ Chained /\ FlagTypes /\ ConnTypes /\ StoreTypes /\ Hears /\ HeardTypes
      /\ RequestTypes /\ Attached /\ Asked /\ Entered /\ AnswerAfterQuestion
  BY DEF IInv, Types
<1>2. Going(c, n, {"askAgent"}, {"agent"})
  BY <1>1, AskMoves
<1>3. socket[c] # "new"
  BY <1>1, <1>2, Alone DEF Going
<1>4. Shrinks /\ old' \subseteq DOMAIN messages'
  BY DEF AskAgent, cleanup, Shrinks, InStore
<1>5. StoreTypes' /\ AnswerAfterQuestion'
  BY <1>1, <1>4, ShrinksKeeps
<1>6. /\ UNCHANGED <<pendingConnections, socket, ids, messageChain, flags, heard>>
      /\ getContext(sessionId[c], Voxta)
  BY DEF AskAgent
<1>7. FlagTypes' /\ HeardTypes' /\ ConnTypes'
  BY <1>1, <1>6 DEF flags, FlagTypes, HeardTypes, ids, ConnTypes
<1>8. UNCHANGED satellites
  <2>1. sessionId[c] \in Embodied
    BY <1>1, <1>3 DEF Attached, Has, Embodied
  <2>2. QED
    BY <1>6, <2>1 DEF getContext
<1>9. Attached'
  BY <1>1, <1>6, <1>8 DEF Attached, ids
<1>10. Hears'
  <2>1. handler[c][n].next = "askAgent" /\ handler'[c][n].next = "agent"
    BY <1>2 DEF Going, Moves
  <2>2. socket[c] # "closed" => heard[c] = "replyStart"
    BY <1>1, <2>1 DEF Hears
  <2>3. socket[c] # "closed" => Fits(handler'[c][n].next, heard'[c])
    BY <1>6, <2>1, <2>2 DEF Fits, Idle
  <2>4. QED
    BY <1>1, <1>2, <1>6, <2>3, HearsStep DEF Going
<1>11. Chained' /\ Entered'
  <2>1. Chained'
    BY <1>1, <1>2, ChainedStep DEF Going
  <2>2. Entered'
    BY <1>1, <1>2, <1>4, EnteredMoves DEF Going
  <2>3. QED
    BY <2>1, <2>2
<1> DEFINE q == Question(c, n)
           r == [question |-> q,
                 session |-> sessionId[c],
                 prompt |-> buildMessages(History(sessionId[c]), q),
                 context |-> Context(sessionId[c], Voxta)]
<1>12. request' = [request EXCEPT ![c] = r]
  BY DEF AskAgent
<1>13. r \in Requests /\ r # Missing /\ r.prompt # <<>>
       /\ r.prompt[Len(r.prompt)].content = r.question.content
       /\ r.context.source = Voxta
       /\ \A i, j \in 1..Len(r.context.active) : i # j => r.context.active[i] # r.context.active[j]
  <2>1. q \in Messages
    BY <1>1, <1>2, QuestionTypes DEF Going, Moves, Running, Idle
  <2>2. History(sessionId[c]) \in Seq(Messages)
    BY <1>5, EmptySeq DEF History, StoreTypes, InStore
  <2>3. RegistryOf(satellites') /\ Has(satellites', sessionId[c], Voxta)
    BY <1>1, <1>3, <1>8 DEF Attached
  <2>4. sessionId[c] \in SessionIds
    BY <1>1, <1>3 DEF ConnTypes
  <2> DEFINE h == History(sessionId[c])
             p == buildMessages(h, q)
             x == Context(sessionId[c], Voxta)
  <2>5. p \in Seq(Messages) /\ p # <<>> /\ p[Len(p)].content = q.content
    <3> HIDE DEF q, h
    <3>1. QED
      BY <2>1, <2>2, PromptEnds DEF h
  <2>6. /\ x \in [source : Satellites, active : Seq(Satellites)]
        /\ x.source = Voxta
        /\ \A i, j \in 1..Len(x.active) : i # j => x.active[i] # x.active[j]
    BY <2>3, ContextIs
  <2> HIDE DEF q, h, p, x
  <2>7. r = [question |-> q, session |-> sessionId[c], prompt |-> p, context |-> x]
    BY DEF p, h, x
  <2>8. [question |-> q, session |-> sessionId[c], prompt |-> p, context |-> x] \in Requests
    BY <2>1, <2>4, <2>5, <2>6 DEF Requests
  <2>9. r # Missing
    <3>1. r.question = q /\ DOMAIN r = {"question", "session", "prompt", "context"}
      OBVIOUS
    <3>2. DOMAIN Missing = {}
      BY DEF Missing
    <3>3. QED
      BY <3>1, <3>2
  <2>10. QED
    BY <2>5, <2>6, <2>7, <2>8, <2>9
<1> HIDE DEF r
<1>14. RequestTypes' /\ Asked'
  <2>1. request'[c] = r /\ \A d \in Conns : d # c => request'[d] = request[d]
    BY <1>1, <1>12 DEF RequestTypes
  <2>2. RequestTypes'
    BY <1>1, <1>12, <1>13 DEF RequestTypes
  <2>3. QED
    BY <1>1, <1>13, <2>1, <2>2 DEF Asked, PromptEndsWithQuestion, ContextNamesSource
<1>15. Types'
  BY <1>1, <1>2, <1>5, <1>6, <1>7, <1>14, TypesStep DEF Going
<1>16. QED
  BY <1>2, <1>5, <1>9, <1>10, <1>11, <1>14, <1>15 DEF IInv, Going

\* A message that is entered for a link keeps answers behind their questions:
\* what is there of that link is a question, in the session it is entered into.
LEMMA AppendOrders ==
  ASSUME StoreTypes, AnswerAfterQuestion, NEW s \in SessionIds, NEW m \in Messages, append(s, m),
         \A t \in InStore : \A i \in 1..Len(messages[t]) :
            messages[t][i].by = m.by /\ messages[t][i].in = m.in
              => t = s /\ m.role = "assistant" /\ messages[t][i].role = "user"
  PROVE  AnswerAfterQuestion'
<1>1. PICK d \in Nat : \A t \in DOMAIN messages' : \A j \in 1..Len(messages'[t]) :
              \/ t = s /\ j = Len(messages'[s]) /\ messages'[t][j] = m
              \/ /\ t \in InStore /\ (t = s => j < Len(messages'[s]))
                 /\ Before(j, t, s, d) \in 1..Len(messages[t])
                 /\ messages'[t][j] = messages[t][Before(j, t, s, d)]
  BY AppendKeeps
<1> SUFFICES ASSUME NEW t \in DOMAIN messages', NEW u \in DOMAIN messages',
                    NEW i \in 1..Len(messages'[t]), NEW j \in 1..Len(messages'[u]),
                    messages'[t][i].by = messages'[u][j].by,
                    messages'[t][i].in = messages'[u][j].in,
                    messages'[t][i].role = "user", messages'[u][j].role = "assistant"
             PROVE  t = u /\ i < j
  BY DEF AnswerAfterQuestion, InStore
<1> DEFINE New(x, k) == x = s /\ k = Len(messages'[s]) /\ messages'[x][k] = m
           Old(x, k) == /\ x \in InStore /\ (x = s => k < Len(messages'[s]))
                        /\ Before(k, x, s, d) \in 1..Len(messages[x])
                        /\ messages'[x][k] = messages[x][Before(k, x, s, d)]
<1>2. (New(t, i) \/ Old(t, i)) /\ (New(u, j) \/ Old(u, j))
  BY <1>1
<1>3. CASE Old(t, i) /\ Old(u, j)
  <2>1. t = u /\ Before(i, t, s, d) < Before(j, u, s, d)
    BY <1>3 DEF AnswerAfterQuestion
  <2>2. QED
    BY <2>1 DEF Before
<1>4. CASE New(t, i) /\ Old(u, j)
  <2>1. messages[u][Before(j, u, s, d)].by = m.by /\ messages[u][Before(j, u, s, d)].in = m.in
    BY <1>4
  <2>2. m.role = "assistant"
    BY <1>4, <2>1
  <2>3. QED
    BY <1>4, <2>2
<1>5. CASE Old(t, i) /\ New(u, j)
  <2>1. messages[t][Before(i, t, s, d)].by = m.by /\ messages[t][Before(i, t, s, d)].in = m.in
    BY <1>5
  <2>2. t = s
    BY <1>5, <2>1
  <2>3. QED
    BY <1>5, <2>2
<1>6. CASE New(t, i) /\ New(u, j)
  BY <1>6
<1>7. QED
  BY <1>2, <1>3, <1>4, <1>5, <1>6

\* What is entered for a link that runs belongs where the link then stands.
LEMMA AppendEnters ==
  ASSUME Types, Chained, Entered, NEW s \in SessionIds, NEW m \in Messages, append(s, m),
         NEW c \in Conns, NEW n \in Links, m.by = c, m.in = n,
         NEW from, NEW to, Moves(c, n, from, to), UNCHANGED sessionId,
         to \cap {"queued", "reply"} = {},
         to \cap {"askAgent", "agent"} # {} => m.role = "user" /\ s = sessionId[c],
         \/ to \cap {"askAgent", "agent"} = {} \/ from \subseteq {"queued", "reply"}
  PROVE  Entered'
<1>0. StoreTypes
  BY DEF Types
<1>1. PICK d \in Nat : \A t \in DOMAIN messages' : \A j \in 1..Len(messages'[t]) :
              \/ t = s /\ j = Len(messages'[s]) /\ messages'[t][j] = m
              \/ /\ t \in InStore /\ (t = s => j < Len(messages'[s]))
                 /\ Before(j, t, s, d) \in 1..Len(messages[t])
                 /\ messages'[t][j] = messages[t][Before(j, t, s, d)]
  BY <1>0, AppendKeeps
<1> SUFFICES ASSUME NEW t \in DOMAIN messages', NEW i \in 1..Len(messages'[t])
             PROVE  LET o == messages'[t][i]
                        next == handler'[o.by][o.in].next
                    IN  /\ next \notin {"queued", "reply"}
                        /\ next \in {"askAgent", "agent"} => o.role = "user" /\ t = sessionId'[o.by]
  BY DEF Entered, InStore
<1>2. CASE t = s /\ messages'[t][i] = m
  BY <1>2 DEF Moves
<1>3. CASE /\ t \in InStore /\ Before(i, t, s, d) \in 1..Len(messages[t])
           /\ messages'[t][i] = messages[t][Before(i, t, s, d)]
  <2> DEFINE o == messages[t][Before(i, t, s, d)]
  <2>1. o \in Messages
    BY <1>0, <1>3, ElementOfSeq DEF StoreTypes
  <2>2. o.by \in Conns /\ o.in \in Links
    BY <2>1 DEF Messages
  <2>3. /\ handler[o.by][o.in].next \notin {"queued", "reply"}
        /\ handler[o.by][o.in].next \in {"askAgent", "agent"} => o.role = "user" /\ t = sessionId[o.by]
    BY <1>3 DEF Entered
  <2>4. messages'[t][i] = o
    BY <1>3
  <2> HIDE DEF o
  <2>5. CASE o.by = c /\ o.in = n
    BY <2>3, <2>4, <2>5 DEF Moves
  <2>6. CASE o.by # c \/ o.in # n
    BY <2>2, <2>3, <2>4, <2>6 DEF Moves
  <2>7. QED
    BY <2>5, <2>6
<1>4. QED
  BY <1>1, <1>2, <1>3

\* The question is entered before anything else of its link.
LEMMA ReplyKeeps ==
  ASSUME IInv, NEW c \in Conns, NEW n \in Links, StartReply(c, n)
  PROVE  IInv'
<1>1. /\ Types /\ Wires /\ Chained /\ FlagTypes /\ ConnTypes /\ StoreTypes /\ Hears /\ HeardTypes
      /\ RequestTypes /\ Attached /\ Asked /\ Entered /\ AnswerAfterQuestion
  BY DEF IInv, Types
<1>2. Going(c, n, {"reply"}, {"askAgent"})
  BY <1>1, ReplyMoves
<1>3. socket[c] # "new"
  BY <1>1, <1>2, Alone DEF Going
<1> DEFINE m == Question(c, n)
           s == sessionId[c]
<1>4. /\ m \in Messages /\ m.by = c /\ m.in = n /\ m.role = "user"
      /\ s \in SessionIds /\ append(s, m)
  <2>1. Running(c, n)
    BY <1>2 DEF Going, Moves, Running, Idle
  <2>2. QED
    BY <1>1, <1>3, <2>1, QuestionTypes DEF ConnTypes, StartReply
<1>5. /\ UNCHANGED <<satellites, pendingConnections, socket, ids, messageChain, request>>
      /\ Send(c, "replyStart")
  BY DEF StartReply
<1>6. UNCHANGED sessionId
  BY <1>5 DEF ids
<1>7. \A t \in InStore : \A i \in 1..Len(messages[t]) :
        ~ (messages[t][i].by = c /\ messages[t][i].in = n)
  BY <1>1, <1>2 DEF Entered, Going, Moves
<1>8. StoreTypes' /\ AnswerAfterQuestion' /\ Entered'
  <2> HIDE DEF m, s
  <2>1. StoreTypes'
    BY <1>1, <1>4, AppendKeeps
  <2>2. AnswerAfterQuestion'
    BY <1>1, <1>4, <1>7, AppendOrders
  <2>3. Entered'
    BY <1>1, <1>2, <1>4, <1>6, AppendEnters DEF Going, s
  <2>4. QED
    BY <2>1, <2>2, <2>3
<1>9. FlagTypes' /\ ConnTypes'
  BY <1>1, <1>5 DEF StartReply, FlagTypes, ConnTypes, ids
<1>10. RequestTypes' /\ Asked'
  BY <1>1, <1>5, AskedKeeps
<1>11. Attached'
  BY <1>1, <1>5, <1>6 DEF Attached
<1>12. handler'[c][n].next = "askAgent" /\ Fits("askAgent", "replyStart") /\ "replyStart" \in Bursts
  BY <1>2 DEF Going, Moves, Fits, Idle, Bursts
<1>13. /\ HeardTypes' /\ \A d \in Conns : d # c => heard'[d] = heard[d]
       /\ socket[c] # "closed" => Fits(handler'[c][n].next, heard'[c])
  BY <1>1, <1>3, <1>5, <1>12, SendFits
<1>14. Hears' /\ Chained'
  BY <1>1, <1>2, <1>5, <1>13, HearsStep, ChainedStep DEF Going
<1>15. Types'
  BY <1>1, <1>2, <1>5, <1>8, <1>9, <1>10, <1>13, TypesStep DEF Going
<1>16. QED
  BY <1>2, <1>8, <1>10, <1>11, <1>14, <1>15 DEF IInv, Going

\* The answer is entered into the session of its question.
LEMMA EndKeeps ==
  ASSUME IInv, NEW c \in Conns, NEW n \in Links, AgentEnd(c, n)
  PROVE  IInv'
<1>1. /\ Types /\ Wires /\ Chained /\ FlagTypes /\ ConnTypes /\ StoreTypes /\ Hears /\ HeardTypes
      /\ RequestTypes /\ Attached /\ Asked /\ Entered /\ AnswerAfterQuestion
  BY DEF IInv, Types
<1>2. Going(c, n, {"agent"}, {"settle"})
  BY <1>1, EndMoves
<1>3. socket[c] # "new"
  BY <1>1, <1>2, Alone DEF Going
<1> DEFINE s == sessionId[c]
<1>a. PICK content \in Texts \union {Missing} : append(s, Said("assistant", c, n, content))
  BY DEF AgentEnd
<1> DEFINE m == Said("assistant", c, n, content)
<1>4. /\ m \in Messages /\ m.by = c /\ m.in = n /\ m.role = "assistant"
      /\ s \in SessionIds /\ append(s, m)
  BY <1>1, <1>3, <1>a, SaidTypes DEF ConnTypes
<1>5. /\ UNCHANGED <<satellites, pendingConnections, socket, ids, messageChain, flags>>
      /\ request' = [request EXCEPT ![c] = Missing]
      /\ Send(c, "replyEnd")
  BY DEF AgentEnd, Emit
<1>6. UNCHANGED sessionId
  BY <1>5 DEF ids
<1>7. \A t \in InStore : \A i \in 1..Len(messages[t]) :
        messages[t][i].by = c /\ messages[t][i].in = n
          => t = s /\ messages[t][i].role = "user"
  BY <1>1, <1>2 DEF Entered, Going, Moves
<1>8. StoreTypes' /\ AnswerAfterQuestion' /\ Entered'
  <2> HIDE DEF m, s
  <2>1. StoreTypes'
    BY <1>1, <1>4, AppendKeeps
  <2>2. AnswerAfterQuestion'
    BY <1>1, <1>4, <1>7, AppendOrders
  <2>3. Entered'
    <3>1. {"settle"} \cap {"queued", "reply"} = {} /\ {"settle"} \cap {"askAgent", "agent"} = {}
      OBVIOUS
    <3>2. Moves(c, n, {"agent"}, {"settle"})
      BY <1>2 DEF Going
    <3>3. QED
      BY <1>1, <1>4, <1>6, <3>1, <3>2, AppendEnters
  <2>4. QED
    BY <2>1, <2>2, <2>3
<1>9. FlagTypes' /\ ConnTypes'
  BY <1>1, <1>5 DEF flags, FlagTypes, ConnTypes, ids
<1>10. RequestTypes' /\ Asked'
  BY <1>1, <1>5, AskedKeeps
<1>11. Attached'
  BY <1>1, <1>5, <1>6 DEF Attached
<1>12. handler'[c][n].next = "settle" /\ Fits("settle", "replyEnd") /\ "replyEnd" \in Bursts
  BY <1>2 DEF Going, Moves, Fits, Idle, Between, Bursts
<1>13. /\ HeardTypes' /\ \A d \in Conns : d # c => heard'[d] = heard[d]
       /\ socket[c] # "closed" => Fits(handler'[c][n].next, heard'[c])
  BY <1>1, <1>3, <1>5, <1>12, SendFits
<1>14. Hears' /\ Chained'
  BY <1>1, <1>2, <1>5, <1>13, HearsStep, ChainedStep DEF Going
<1>15. Types'
  BY <1>1, <1>2, <1>5, <1>8, <1>9, <1>10, <1>13, TypesStep DEF Going
<1>16. QED
  BY <1>2, <1>8, <1>10, <1>11, <1>14, <1>15 DEF IInv, Going

LEMMA StutterKeeps ==
  ASSUME IInv, UNCHANGED vars
  PROVE  IInv'
<1> USE DEF IInv, vars, store, ids, flags
<1>1. Types'
  BY DEF Types, StoreTypes, InStore, ConnTypes, FlagTypes, HandlerTypes, RequestTypes, HeardTypes
<1>2. Chained' /\ Wires' /\ Attached' /\ Hears'
  BY DEF Chained, Wires, Attached, Hears
<1>3. Asked' /\ Entered' /\ AnswerAfterQuestion'
  BY DEF Asked, PromptEndsWithQuestion, ContextNamesSource, Entered, AnswerAfterQuestion, InStore
<1>4. QED
  BY <1>1, <1>2, <1>3

\* One link of a chain takes a step.
LinkStep(c, n) ==
  \/ Start(c, n) \/ Continue(c, n) \/ FlushFails(c, n)
  \/ AgentDelta(c, n) \/ Answers(c, n)

LEMMA LinkKeeps ==
  ASSUME IInv, NEW c \in Conns, NEW n \in Links, LinkStep(c, n)
  PROVE  IInv'
<1>1. CASE Start(c, n)
  BY <1>1, StartQuietKeeps, StartChatKeeps, ResumeKeeps, HandleSendKeeps DEF Start
<1>2. CASE Continue(c, n)
  BY <1>2, QuietLinkKeeps, ReplyKeeps, AskKeeps DEF Continue
<1>3. CASE FlushFails(c, n)
  BY <1>3, QuietLinkKeeps
<1>4. CASE AgentDelta(c, n)
  BY <1>4, QuietLinkKeeps DEF DeltaCancels, DeltaSent
<1>5. CASE Answers(c, n)
  BY <1>5, QuietLinkKeeps, EndKeeps DEF Answers
<1>6. QED
  BY <1>1, <1>2, <1>3, <1>4, <1>5 DEF LinkStep

LEMMA NextKeeps == IInv /\ [Next]_vars => IInv'
<1> SUFFICES ASSUME IInv, [Next]_vars
             PROVE  IInv'
  OBVIOUS
<1>1. CASE \E token \in Tokens : Negotiate(token) \/ \E c \in Conns : Connect(c, token)
  BY <1>1, NegotiateKeeps, ConnectKeeps
<1>2. CASE \E c \in Conns : Receive(c) \/ SocketClose(c)
  BY <1>2, ReceiveKeeps, CloseKeeps
<1>3. CASE \E c \in Conns, n \in Links : LinkStep(c, n)
  BY <1>3, LinkKeeps
<1>4. CASE \E s \in Shared, satellite \in Others : RealtimeAttach(s, satellite)
  BY <1>4, RealtimeAttachKeeps
<1>5. CASE \E s \in InStore : Expire(s)
  BY <1>5, ExpireKeeps
<1>6. CASE UNCHANGED vars
  BY <1>6, StutterKeeps
<1>7. QED
  BY <1>1, <1>2, <1>3, <1>4, <1>5, <1>6 DEF Next, LinkStep

-----------------------------------------------------------------------------
(* The theorems *)

\* The inductive invariant holds in every state.
LEMMA Invariant == Spec => []IInv
BY InitHolds, NextKeeps, PTL DEF Spec

\* Every state of the hub's Voxta side has the types of TypeOK.
THEOREM FacadeTypes == Spec => []TypeOK
<1>1. IInv => TypeOK
  BY DEF IInv, Types, StoreTypes, ConnTypes, FlagTypes, HandlerTypes, RequestTypes, Attached,
         RegistryOf, TypeOK, Embodied
<1>2. QED
  BY <1>1, Invariant, PTL

\* handleSend, streamAssistantReply and buildMessages: the prompt of a call ends
\* with the question, whatever else has been entered or has expired meanwhile.
THEOREM PromptsEndWithQuestion == Spec => []PromptEndsWithQuestion
<1>1. IInv => PromptEndsWithQuestion
  BY DEF IInv, Asked
<1>2. QED
  BY <1>1, Invariant, PTL

\* getContext: the context of a call has the facade's satellite as its source
\* and lists no satellite twice, however often they were attached.
THEOREM ContextsNameSource == Spec => []ContextNamesSource
<1>1. IInv => ContextNamesSource
  BY DEF IInv, Asked
<1>2. QED
  BY <1>1, Invariant, PTL

\* The promise chain of a connection: its answers are entered behind their
\* questions, in the session of the question.
THEOREM AnswersFollowQuestions == Spec => []AnswerAfterQuestion
<1>1. IInv => AnswerAfterQuestion
  BY DEF IInv
<1>2. QED
  BY <1>1, Invariant, PTL

-----------------------------------------------------------------------------
(* The dialog every client hears *)

\* A link's step is heard as the dialog allows it to be, or not at all.
LEMMA HearsNext ==
  ASSUME IInv, NEW c \in Conns, NEW burst, Send(c, burst), UNCHANGED socket,
         socket[c] = "open" => burst \in Dialog!Follows[heard[c]]
  PROVE  [Dialog!Next]_<<heard, socket>>
<1>1. CASE socket[c] = "open"
  <2>1. Dialog!Hear(c)
    BY <1>1 DEF Send, IsOpen, Dialog!Hear
  <2>2. QED
    BY <2>1 DEF Dialog!Next
<1>2. CASE socket[c] # "open"
  <2>1. heard' = heard
    BY <1>2 DEF Send, IsOpen, IInv, Types, HeardTypes
  <2>2. QED
    BY <2>1
<1>3. QED
  BY <1>1, <1>2

LEMMA OpensNext ==
  ASSUME IInv, NEW c \in Conns, NEW n \in Links, Starting(c, n),
         NEW burst \in {"answer", "userMessage"}, Send(c, burst), UNCHANGED socket
  PROVE  [Dialog!Next]_<<heard, socket>>
<1>1. socket[c] = "open" => heard[c] \in Between
  BY StartingHears DEF IInv
<1>2. \A b \in Between : burst \in Dialog!Follows[b]
  BY DEF Between, Dialog!Follows, Dialog!Openings
<1>3. QED
  BY <1>1, <1>2, HearsNext

\* A link's step is a step of the dialog, or is not heard.
LEMMA LinkSpeaks ==
  ASSUME IInv, NEW c \in Conns, NEW n \in Links, LinkStep(c, n)
  PROVE  [Dialog!Next]_<<heard, socket>>
<1>1. Types /\ Wires /\ Hears
  BY DEF IInv
<1>2. CASE Start(c, n)
  <2>1. Starting(c, n)
    BY <1>1, <1>2, StartMoves
  <2>2. CASE HandlePing(c, n)
    BY <2>2 DEF HandlePing
  <2>3. CASE ~HandlePing(c, n)
    <3>1. UNCHANGED socket /\ (Send(c, "answer") \/ Send(c, "userMessage"))
      BY <1>2, <2>3 DEF Start, HandleStateless, HandleStartChat, HandleResumeChat, HandleInterrupt,
                        HandleSend, Emit
    <3>2. QED
      BY <2>1, <3>1, OpensNext
  <2>4. QED
    BY <2>2, <2>3
<1>3. CASE Settle(c, n) \/ AskAgent(c, n) \/ FlushFails(c, n)
  BY <1>3 DEF Settle, AskAgent, FlushFails
<1>4. CASE StartReply(c, n)
  <2>1. /\ Send(c, "replyStart") /\ UNCHANGED socket
        /\ socket[c] = "open" => heard[c] = "userMessage"
    BY <1>1, <1>4 DEF StartReply, Awaits, Hears
  <2>2. "replyStart" \in Dialog!Follows["userMessage"]
    BY DEF Dialog!Follows
  <2>3. QED
    BY <2>1, <2>2, HearsNext
<1>5. CASE AgentDelta(c, n) \/ Answers(c, n)
  <2>1. \E burst \in {"replyChunk", "replyEnd", "replyCancelled", "error"} : Send(c, burst)
    BY <1>5 DEF AgentDelta, Answers, AgentEnd, AgentFail, Emit
  <2>2. UNCHANGED socket /\ (socket[c] = "open" => heard[c] \in {"replyStart", "replyChunk"})
    BY <1>1, <1>5 DEF AgentDelta, Answers, AgentEnd, AgentFail, Awaits, Hears
  <2>3. \A burst \in {"replyChunk", "replyEnd", "replyCancelled", "error"} :
          burst \in Dialog!Follows["replyStart"] /\ burst \in Dialog!Follows["replyChunk"]
    BY DEF Dialog!Follows, Dialog!ReplyGoesOn
  <2>4. QED
    BY <2>1, <2>2, <2>3, HearsNext
<1>6. QED
  BY <1>2, <1>3, <1>4, <1>5 DEF LinkStep, Continue

\* So is every step of the facade.
LEMMA StepSpeaks == IInv /\ [Next]_vars => [Dialog!Next]_<<heard, socket>>
<1> SUFFICES ASSUME IInv, [Next]_vars
             PROVE  [Dialog!Next]_<<heard, socket>>
  OBVIOUS
<1>1. CASE \E token \in Tokens : Negotiate(token)
  BY <1>1 DEF Negotiate
<1>2. CASE \E token \in Tokens, c \in Conns : Connect(c, token)
  <2>1. PICK c \in Conns : Dialog!PickUp(c)
    BY <1>2 DEF Connect, Dialog!PickUp
  <2>2. QED
    BY <2>1 DEF Dialog!Next
<1>3. CASE \E c \in Conns : Receive(c)
  BY <1>3 DEF Receive
<1>4. CASE \E c \in Conns : SocketClose(c)
  <2>1. PICK c \in Conns : Dialog!HangUp(c)
    BY <1>4 DEF SocketClose, Dialog!HangUp
  <2>2. QED
    BY <2>1 DEF Dialog!Next
<1>5. CASE \E c \in Conns, n \in Links : LinkStep(c, n)
  BY <1>5, LinkSpeaks
<1>6. CASE \E s \in Shared, satellite \in Others : RealtimeAttach(s, satellite)
  BY <1>6 DEF RealtimeAttach
<1>7. CASE \E s \in InStore : Expire(s)
  BY <1>7 DEF Expire
<1>8. CASE UNCHANGED vars
  BY <1>8 DEF vars
<1>9. QED
  BY <1>1, <1>2, <1>3, <1>4, <1>5, <1>6, <1>7, <1>8 DEF Next, LinkStep

\* The promise chain and the burst that each handler awaits: every client hears
\* whole exchanges, one after the other, and nothing after it has hung up.
THEOREM FacadeImplementsDialog == Spec => ImplementsDialog
<1>1. Init => Dialog!Init
  BY DEF Init, Dialog!Init
<1>2. QED
  BY <1>1, Invariant, StepSpeaks, PTL DEF Spec, ImplementsDialog, Dialog!Spec
=============================================================================
