-------------------------- MODULE ProvidersProofs ---------------------------
(***************************************************************************)
(* Proofs about the hub's two providers. DeepgramSession: for any number   *)
(* of segments and repeats, no final segment is moved or guessed again,    *)
(* and none is lost but an echo of the one before it.                      *)
(* ElevenLabsStream: for any callers, faults and bounds.                   *)
(***************************************************************************)
EXTENDS ElevenLabsStream, DeepgramSession, SequenceTheorems, TLAPS

(* Transcription *)

Segment == [words : Words, after : Nat]

TextTypes ==
  /\ finalSegments \in Seq(Nat) /\ interimText \in Nat
  /\ said \in Seq(Segment) /\ repeats \in Nat
  /\ uttered \in Seq(Nat) /\ guessed \subseteq Nat

LifeTypes ==
  /\ dgSocket \in {"connecting", "open", "closing", "closed"}
  /\ starting \in {"waiting", "running", "failed"}
  /\ ending \in {"no", "waiting", "done"}
  /\ keepAlive \in BOOLEAN /\ timing \in BOOLEAN

EchoIn(row, k) ==
  /\ k > 1 /\ row[k].words = row[k - 1].words
  /\ row[k].after = row[k - 1].after

\* Segment numbers that never fall, and hold all of a row but echoes.
Holds(s, row) ==
  /\ ToSet(s) \subseteq 1..Len(row)
  /\ \A k \in 1..Len(row) : k \in ToSet(s) \/ EchoIn(row, k)
  /\ \A i, j \in DOMAIN s : i < j => s[i] <= s[j]

\* What is being collected came in this utterance, and its latest words are those
\* said last.
Current(finals, row) ==
  finals # <<>> =>
    /\ Last(finals) \in 1..Len(row)
    /\ row[Last(finals)].words = row[Len(row)].words
    /\ row[Len(row)].after = Len(uttered)

Kept == OnlyEchoesAreLost /\ Current(finalSegments, said)

IInv == TextTypes /\ LifeTypes /\ Kept

-----------------------------------------------------------------------------
(* Rows of segments.                                                       *)

LEMMA MembersOf ==
  ASSUME NEW s \in Seq(Nat)
  PROVE  \A x : x \in ToSet(s) <=> \E i \in 1..Len(s) : s[i] = x
  BY DEF ToSet

LEMMA OneMore ==
  ASSUME NEW s \in Seq(Nat), NEW k \in Nat
  PROVE  /\ Append(s, k) \in Seq(Nat)
         /\ ToSet(Append(s, k)) = ToSet(s) \union {k}
         /\ DOMAIN Append(s, k) = 1..Len(s) + 1 /\ DOMAIN s = 1..Len(s) /\ Len(s) \in Nat
         /\ Append(s, k)[Len(s) + 1] = k
         /\ \A i \in 1..Len(s) : Append(s, k)[i] = s[i]
<1> DEFINE t == Append(s, k)
<1>1. /\ t \in Seq(Nat) /\ Len(t) = Len(s) + 1 /\ Len(s) \in Nat
      /\ t[Len(s) + 1] = k /\ \A i \in 1..Len(s) : t[i] = s[i]
  OBVIOUS
<1> HIDE DEF t
<1>2. \A x : x \in ToSet(t) <=> x \in ToSet(s) \/ x = k
  <2>1. ASSUME NEW x \in ToSet(t) PROVE x \in ToSet(s) \/ x = k
    <3>1. PICK i \in 1..Len(s) + 1 : t[i] = x
      BY <1>1, MembersOf
    <3>2. i \in 1..Len(s) \/ i = Len(s) + 1
      BY <1>1
    <3>3. QED
      BY <1>1, <3>1, <3>2, MembersOf
  <2>2. ASSUME NEW x \in ToSet(s) PROVE x \in ToSet(t)
    <3>1. PICK i \in 1..Len(s) : s[i] = x
      BY MembersOf
    <3>2. i \in 1..Len(t) /\ t[i] = x
      BY <1>1, <3>1
    <3>3. QED
      BY <1>1, <3>2, MembersOf
  <2>3. k \in ToSet(t)
    <3>1. Len(s) + 1 \in 1..Len(t)
      BY <1>1
    <3>2. QED
      BY <1>1, <3>1, MembersOf
  <2>4. QED
    BY <2>1, <2>2, <2>3
<1>3. QED
  BY <1>1, <1>2 DEF t

\* A row whose last segment is k, new or repeated, and k behind the others.
LEMMA HoldsOneMore ==
  ASSUME NEW s \in Seq(Nat), NEW row \in Seq(Segment), Holds(s, row),
         NEW longer \in Seq(Segment), NEW k \in Nat, Len(longer) = k,
         k = Len(row) + 1 \/ (k = Len(row) /\ k > 0),
         \A i \in 1..(k - 1) : longer[i] = row[i]
  PROVE  Holds(Append(s, k), longer)
<1> DEFINE t == Append(s, k)
<1>1. /\ t \in Seq(Nat) /\ ToSet(t) = ToSet(s) \union {k}
      /\ DOMAIN t = 1..Len(s) + 1 /\ DOMAIN s = 1..Len(s) /\ Len(s) \in Nat
      /\ t[Len(s) + 1] = k /\ \A i \in 1..Len(s) : t[i] = s[i]
  BY OneMore
<1> HIDE DEF t
<1>a. Len(row) \in Nat
  OBVIOUS
<1>2. ToSet(t) \subseteq 1..k
  BY <1>1, <1>a DEF Holds
<1>3. ASSUME NEW i \in 1..k
      PROVE  i \in ToSet(t) \/ EchoIn(longer, i)
  <2>1. CASE i = k
    BY <1>1, <2>1
  <2>2. CASE i # k
    <3>1. i \in 1..Len(row) /\ i \in 1..(k - 1)
      BY <1>a, <2>2
    <3>2. i \in ToSet(s) \/ EchoIn(row, i)
      BY <3>1 DEF Holds
    <3>3. EchoIn(row, i) => EchoIn(longer, i)
      BY <3>1 DEF EchoIn
    <3>4. QED
      BY <1>1, <3>2, <3>3
  <2>3. QED
    BY <2>1, <2>2
<1>4. \A i \in 1..Len(s) : s[i] \in Nat /\ s[i] <= k
  <2>1. \A i \in 1..Len(s) : s[i] \in ToSet(s)
    BY MembersOf
  <2>2. \A i \in 1..Len(s) : s[i] \in 1..Len(row)
    BY <2>1 DEF Holds
  <2>3. QED
    BY <1>a, <2>2
<1>5. ASSUME NEW i \in DOMAIN t, NEW j \in DOMAIN t, i < j PROVE t[i] <= t[j]
  <2>1. i \in 1..Len(s)
    BY <1>1, <1>5
  <2>2. CASE j = Len(s) + 1
    BY <2>1, <2>2, <1>1, <1>4
  <2>3. CASE j \in 1..Len(s)
    BY <2>1, <2>3, <1>1, <1>5 DEF Holds
  <2>4. QED
    BY <2>2, <2>3, <1>1
<1>6. QED
  BY <1>2, <1>3, <1>5 DEF Holds, t

\* One element of a row is changed.
LEMMA ChangedAt ==
  ASSUME NEW S, NEW s \in Seq(S), NEW n \in 1..Len(s), NEW x \in S
  PROVE  /\ [s EXCEPT ![n] = x] \in Seq(S) /\ Len([s EXCEPT ![n] = x]) = Len(s)
         /\ [s EXCEPT ![n] = x][n] = x
         /\ \A i \in 1..(n - 1) : [s EXCEPT ![n] = x][i] = s[i]
  OBVIOUS

LEMMA AppendedBehind ==
  ASSUME NEW s \in Seq(Nat), NEW t \in Seq(Nat), NEW k \in Nat
  PROVE  s \o Append(t, k) = Append(s \o t, k)
  OBVIOUS

-----------------------------------------------------------------------------
(* What a step does to the texts.                                          *)

\* A flush moves the final segments, and nothing is told or held twice.
LEMMA FlushKeepsTold ==
  ASSUME TextTypes, NEW finals \in Seq(Nat), NEW interim \in Nat,
         said' \in Seq(Segment), repeats' \in Nat, Holds(uttered \o finals, said'),
         flushUtterance(finals, interim)
  PROVE  TextTypes' /\ Kept'
<1>a. uttered \in Seq(Nat) /\ guessed \subseteq Nat
  BY DEF TextTypes
<1>1. uttered' = uttered \o finals /\ guessed' \subseteq Nat
  BY <1>a, ConcatEmptySeq DEF flushUtterance
<1>2. /\ finalSegments' = <<>> /\ interimText' = NoText /\ uttered' \in Seq(Nat)
  BY <1>a, <1>1 DEF flushUtterance, resetUtterance
<1>3. Told' = uttered \o finals
  BY <1>1, <1>2, ConcatEmptySeq DEF Told
<1>4. Rising(finalSegments') /\ Current(finalSegments, said)'
  BY <1>2 DEF Rising, Current
<1>5. TextTypes'
  BY <1>1, <1>2 DEF TextTypes, NoText
<1>6. QED
  BY <1>2, <1>3, <1>4, <1>5 DEF Kept, OnlyEchoesAreLost, Holds, Echo, EchoIn, finalised

LEMMA CollectedKeepsTold ==
  ASSUME TextTypes, NEW finals \in Seq(Nat), NEW interim \in Nat, NEW final \in BOOLEAN,
         said' \in Seq(Segment), repeats' \in Nat, Holds(uttered \o finals, said'),
         Rising(finals), Current(finals, said'), interim \in {NoText, Len(said') + 1},
         Collected(finals, interim, final)
  PROVE  TextTypes' /\ Kept'
<1>1. CASE final
  BY <1>1, FlushKeepsTold DEF Collected
<1>2. CASE ~final
  <2>1. /\ finalSegments' = finals /\ interimText' = interim
        /\ uttered' = uttered /\ guessed' = guessed
    BY <1>2 DEF Collected, dgTold
  <2>2. Told' = uttered \o finals
    BY <2>1 DEF Told
  <2>3. Current(finalSegments, said)'
    BY <2>1 DEF Current
  <2>4. QED
    BY <2>1, <2>2, <2>3
       DEF TextTypes, Kept, OnlyEchoesAreLost, Holds, Echo, EchoIn, finalised
<1>3. QED
  BY <1>1, <1>2

\* The segments that are collected are among those that are final.
LEMMA CollectedAreFinal ==
  ASSUME TextTypes, Kept
  PROVE  /\ Holds(uttered \o finalSegments, said)
         /\ \A i \in 1..Len(finalSegments) : finalSegments[i] \in 1..Len(said)
<1>1. Holds(Told, said)
  BY DEF Kept, OnlyEchoesAreLost, Holds, Echo, EchoIn, finalised
<1>2. ASSUME NEW i \in 1..Len(finalSegments)
      PROVE  finalSegments[i] \in ToSet(Told)
  <2>1. /\ Told \in Seq(Nat) /\ Len(uttered) + i \in 1..Len(Told)
        /\ Told[Len(uttered) + i] = finalSegments[i]
    BY DEF Told, TextTypes
  <2>2. QED
    BY <2>1, MembersOf
<1>3. QED
  BY <1>1, <1>2 DEF Holds, Told

\* A number above all others keeps a row rising.
LEMMA RisingOneMore ==
  ASSUME NEW f \in Seq(Nat), NEW k \in Nat, Rising(f), \A i \in 1..Len(f) : f[i] < k
  PROVE  Rising(Append(f, k))
<1> DEFINE t == Append(f, k)
<1>1. /\ DOMAIN t = 1..Len(f) + 1 /\ DOMAIN f = 1..Len(f) /\ Len(f) \in Nat
      /\ t[Len(f) + 1] = k /\ \A i \in 1..Len(f) : t[i] = f[i]
  BY OneMore
<1> HIDE DEF t
<1>2. ASSUME NEW i \in DOMAIN t, NEW j \in DOMAIN t, i < j PROVE t[i] < t[j]
  <2>1. i \in 1..Len(f)
    BY <1>1, <1>2
  <2>2. CASE j = Len(f) + 1
    BY <2>1, <2>2, <1>1
  <2>3. CASE j \in 1..Len(f)
    BY <2>1, <2>3, <1>1, <1>2 DEF Rising
  <2>4. QED
    BY <2>2, <2>3, <1>1
<1>3. QED
  BY <1>2 DEF Rising, t

\* A final result that is new, dropped as an echo or collected.
LEMMA FinalKept ==
  ASSUME TextTypes, Kept, NEW words \in Words, NEW row,
         row = Append(said, [words |-> words, after |-> Len(uttered)])
  PROVE  /\ row \in Seq(Segment) /\ Len(row) = finalised + 1
         /\ WithFinal(finalised + 1, words) \in Seq(Nat)
         /\ Holds(uttered \o WithFinal(finalised + 1, words), row)
         /\ Rising(WithFinal(finalised + 1, words))
         /\ Current(WithFinal(finalised + 1, words), row)
<1> DEFINE f == finalSegments
           n == Len(said)
           new == [words |-> words, after |-> Len(uttered)]
<1>1. /\ f \in Seq(Nat) /\ uttered \in Seq(Nat) /\ said \in Seq(Segment)
      /\ Holds(uttered \o f, said) /\ Rising(f) /\ Current(f, said)
      /\ \A i \in 1..Len(f) : f[i] \in 1..n
      /\ n = finalised
  BY CollectedAreFinal DEF TextTypes, Kept, OnlyEchoesAreLost, finalised
<1>2. new \in Segment /\ Len(uttered) \in Nat /\ n \in Nat
  BY <1>1 DEF Segment
<1>3. /\ row \in Seq(Segment) /\ Len(row) = n + 1 /\ row[n + 1] = new
      /\ \A i \in 1..n : row[i] = said[i]
  BY <1>1, <1>2
<1>4. new.words = words /\ new.after = Len(uttered)
  OBVIOUS
<1> HIDE DEF f, n, new
<1>5. CASE f # <<>> /\ said[Last(f)].words = words
  <2>1. WithFinal(n + 1, words) = f
    BY <1>5 DEF WithFinal, f
  <2>2. /\ Last(f) \in 1..n /\ said[n].words = words /\ said[n].after = Len(uttered)
    BY <1>1, <1>5 DEF Current, n
  <2>3. n \in 1..n /\ n + 1 > 1
    BY <1>2, <2>2
  <2>4. EchoIn(row, n + 1)
    <3>1. row[n + 1 - 1] = said[n]
      BY <1>2, <1>3, <2>3
    <3>2. QED
      BY <1>3, <1>4, <2>2, <2>3, <3>1 DEF EchoIn
  <2>5. Holds(uttered \o f, row)
    <3>1. \A i \in 1..n : EchoIn(said, i) => EchoIn(row, i)
      BY <1>2, <1>3 DEF EchoIn
    <3>2. ToSet(uttered \o f) \subseteq 1..n
      BY <1>1 DEF Holds, n
    <3>3. ToSet(uttered \o f) \subseteq 1..Len(row)
      BY <1>2, <1>3, <3>2
    <3>4. \A i \in 1..n : i \in ToSet(uttered \o f) \/ EchoIn(said, i)
      BY <1>1 DEF Holds, n
    <3>5. \A i \in 1..Len(row) : i \in ToSet(uttered \o f) \/ EchoIn(row, i)
      BY <1>2, <1>3, <2>4, <3>1, <3>4
    <3>6. QED
      BY <1>1, <3>3, <3>5 DEF Holds
  <2>6. Current(f, row)
    <3>1. row[Last(f)].words = row[n + 1].words /\ Last(f) \in 1..(n + 1)
      BY <1>2, <1>3, <1>4, <1>5, <2>2
    <3>2. QED
      BY <1>3, <1>4, <3>1 DEF Current
  <2>7. QED
    BY <1>1, <1>3, <2>1, <2>5, <2>6
<1>6. CASE ~(f # <<>> /\ said[Last(f)].words = words)
  <2>1. WithFinal(n + 1, words) = Append(f, n + 1)
    BY <1>6 DEF WithFinal, f
  <2>2. Append(f, n + 1) \in Seq(Nat) /\ uttered \o f \in Seq(Nat) /\ n + 1 \in Nat
    BY <1>1, <1>2
  <2>3. Holds(Append(uttered \o f, n + 1), row)
    <3>1. n + 1 = Len(said) + 1 /\ \A i \in 1..(n + 1 - 1) : row[i] = said[i]
      BY <1>2, <1>3 DEF n
    <3>2. Len(row) = n + 1
      BY <1>3
    <3> DEFINE k == n + 1
    <3>3. /\ k \in Nat /\ Len(row) = k /\ k = Len(said) + 1
          /\ \A i \in 1..(k - 1) : row[i] = said[i]
      BY <2>2, <3>1, <3>2
    <3> HIDE DEF k
    <3>4. Holds(Append(uttered \o f, k), row)
      BY <1>1, <1>3, <2>2, <3>3, HoldsOneMore
    <3>5. QED
      BY <3>4 DEF k
  <2>4. Holds(uttered \o Append(f, n + 1), row)
    BY <1>1, <2>2, <2>3, AppendedBehind
  <2>5. Rising(Append(f, n + 1))
    <3>1. \A i \in 1..Len(f) : f[i] < n + 1
      BY <1>1, <1>2
    <3>2. QED
      BY <1>1, <2>2, <3>1, RisingOneMore
  <2>6. Current(Append(f, n + 1), row)
    <3>1. Last(Append(f, n + 1)) = n + 1 /\ n + 1 \in 1..(n + 1)
      BY <1>1, <1>2 DEF Last
    <3>2. QED
      BY <1>3, <1>4, <3>1 DEF Current
  <2>7. QED
    BY <1>1, <1>3, <2>1, <2>2, <2>4, <2>5, <2>6
<1>7. QED
  BY <1>5, <1>6

\* A final result that is repeated: dropped in its utterance, and uttered again
\* after the end of it.
LEMMA RepeatKept ==
  ASSUME TextTypes, Kept, finalised > 0, NEW words, words = said[finalised].words, NEW row,
         row = [said EXCEPT ![finalised].after = Len(uttered)]
  PROVE  /\ row \in Seq(Segment) /\ Len(row) = finalised
         /\ WithFinal(finalised, words) \in Seq(Nat)
         /\ Holds(uttered \o WithFinal(finalised, words), row)
         /\ Rising(WithFinal(finalised, words))
         /\ Current(WithFinal(finalised, words), row)
<1> DEFINE f == finalSegments
           n == Len(said)
           again == [said[n] EXCEPT !.after = Len(uttered)]
<1>1. /\ f \in Seq(Nat) /\ uttered \in Seq(Nat) /\ said \in Seq(Segment)
      /\ Holds(uttered \o f, said) /\ Rising(f) /\ Current(f, said)
      /\ n = finalised
  BY CollectedAreFinal DEF TextTypes, Kept, OnlyEchoesAreLost, finalised
<1>2. Len(uttered) \in Nat /\ n \in Nat /\ n \in 1..n
  BY <1>1
<1>3. said[n] \in Segment
  BY <1>1, <1>2
<1>4. /\ again \in Segment /\ again.words = words /\ again.after = Len(uttered)
      /\ said[n].after = Len(uttered) => again = said[n]
  BY <1>1, <1>2, <1>3 DEF Segment
<1>5. /\ row \in Seq(Segment) /\ Len(row) = n /\ row[n] = again
      /\ \A i \in 1..(n - 1) : row[i] = said[i]
  <2>1. row = [said EXCEPT ![n] = again]
    BY <1>1 DEF finalised
  <2> HIDE DEF again
  <2>a. n = Len(said) /\ said \in Seq(Segment)
    BY <1>1
  <2> HIDE DEF n
  <2>b. n \in 1..Len(said) /\ again \in Segment
    BY <1>2, <1>4, <2>a
  <2> DEFINE changed == [said EXCEPT ![n] = again]
  <2>c. /\ changed \in Seq(Segment) /\ Len(changed) = Len(said) /\ changed[n] = again
        /\ \A i \in 1..(n - 1) : changed[i] = said[i]
    BY <2>a, <2>b, ChangedAt
  <2>d. row = changed
    BY <2>1
  <2> HIDE DEF changed
  <2>2. QED
    BY <2>a, <2>c, <2>d
<1> HIDE DEF f, n, again
<1>6. CASE f # <<>>
  <2>1. /\ said[Last(f)].words = words /\ said[n].after = Len(uttered)
    BY <1>1, <1>6 DEF Current, n
  <2>2. WithFinal(n, words) = f
    BY <1>6, <2>1 DEF WithFinal, f
  <2>3. row = said
    <3>1. row[n] = said[n]
      BY <1>4, <1>5, <2>1
    <3>2. \A i \in 1..n : row[i] = said[i]
      BY <1>2, <1>5, <3>1
    <3>3. QED
      BY <1>1, <1>5, <3>2, SeqEqual DEF n
  <2>4. QED
    BY <1>1, <1>5, <2>2, <2>3
<1>7. CASE f = <<>>
  <2>1. WithFinal(n, words) = Append(f, n)
    BY <1>7 DEF WithFinal, f
  <2>2. Append(f, n) \in Seq(Nat) /\ uttered \o f \in Seq(Nat)
    BY <1>1, <1>2
  <2>3. Holds(Append(uttered \o f, n), row)
    <3>1. n = Len(said) /\ n > 0
      BY <1>2 DEF n
    <3>2. QED
      BY <1>1, <1>2, <1>5, <2>2, <3>1, HoldsOneMore
  <2>4. Holds(uttered \o Append(f, n), row)
    BY <1>1, <1>2, <2>3, AppendedBehind
  <2>5. Rising(Append(f, n))
    <3>1. \A i \in 1..Len(f) : f[i] < n
      BY <1>7
    <3>2. QED
      BY <1>1, <1>2, <3>1, RisingOneMore
  <2>6. Current(Append(f, n), row)
    <3>1. Last(Append(f, n)) = n
      BY <1>1, <1>2 DEF Last
    <3>2. QED
      BY <1>2, <1>4, <1>5, <3>1 DEF Current
  <2>7. QED
    BY <1>1, <1>5, <2>1, <2>2, <2>4, <2>5, <2>6
<1>8. QED
  BY <1>6, <1>7

LEMMA TextStep ==
  ASSUME TextTypes, Kept, DeepgramNext
  PROVE  TextTypes' /\ Kept'
<1> DEFINE f == finalSegments
<1>1. /\ f \in Seq(Nat) /\ uttered \in Seq(Nat) /\ finalised \in Nat /\ repeats \in Nat
      /\ said \in Seq(Segment) /\ finalised = Len(said)
      /\ Holds(uttered \o f, said) /\ Rising(f) /\ Current(f, said)
      /\ interimText \in Nat /\ NoText \in Nat
      /\ finalised + 1 \in Nat
  BY CollectedAreFinal DEF TextTypes, Kept, OnlyEchoesAreLost, NoText, finalised
<1>2. CASE UtteranceEnd \/ EmptyResult
  BY <1>1, <1>2, FlushKeepsTold DEF UtteranceEnd, EmptyResult, dgSaid
<1>3. ASSUME NEW final \in BOOLEAN, InterimResult(final)
      PROVE  TextTypes' /\ Kept'
  <2>1. Collected(f, finalised + 1, final) /\ said' = said /\ repeats' = repeats
    BY <1>3 DEF InterimResult, dgSaid
  <2>2. QED
    BY <1>1, <2>1, CollectedKeepsTold
<1>4. ASSUME NEW final \in BOOLEAN, FinalResult(final)
      PROVE  TextTypes' /\ Kept'
  <2>1. PICK words \in Words :
          /\ said' = Append(said, [words |-> words, after |-> Len(uttered)])
          /\ Collected(WithFinal(finalised + 1, words), NoText, final)
    BY <1>4 DEF FinalResult
  <2>2. repeats' = repeats
    BY <1>4 DEF FinalResult
  <2> DEFINE row == Append(said, [words |-> words, after |-> Len(uttered)])
             finals == WithFinal(finalised + 1, words)
  <2>3. /\ row \in Seq(Segment) /\ finals \in Seq(Nat) /\ Holds(uttered \o finals, row)
        /\ Rising(finals) /\ Current(finals, row)
    BY FinalKept
  <2> HIDE DEF row, finals
  <2>4. said' = row /\ Collected(finals, NoText, final)
    BY <2>1 DEF row, finals
  <2>5. QED
    BY <1>1, <2>2, <2>3, <2>4, CollectedKeepsTold
<1>5. ASSUME NEW final \in BOOLEAN, RepeatedResult(final)
      PROVE  TextTypes' /\ Kept'
  <2>1. /\ finalised > 0 /\ repeats' = repeats + 1
        /\ said' = [said EXCEPT ![finalised].after = Len(uttered)]
        /\ Collected(WithFinal(finalised, said[finalised].words), NoText, final)
    BY <1>5 DEF RepeatedResult
  <2> DEFINE row == [said EXCEPT ![finalised].after = Len(uttered)]
             finals == WithFinal(finalised, said[finalised].words)
  <2>2. /\ row \in Seq(Segment) /\ finals \in Seq(Nat) /\ Holds(uttered \o finals, row)
        /\ Rising(finals) /\ Current(finals, row)
    BY <2>1, RepeatKept
  <2> HIDE DEF row, finals
  <2>3. said' = row /\ Collected(finals, NoText, final) /\ repeats' \in Nat
    BY <1>1, <2>1 DEF row, finals
  <2>4. QED
    BY <1>1, <2>2, <2>3, CollectedKeepsTold
<1>6. ASSUME UNCHANGED <<finalSegments, interimText, dgSaid, dgTold>>
      PROVE  TextTypes' /\ Kept'
  BY <1>6 DEF TextTypes, Kept, OnlyEchoesAreLost, Current, Echo, Told, Rising, finalised,
              dgSaid, dgTold
<1>7. QED
  BY <1>2, <1>3, <1>4, <1>5, <1>6
     DEF DeepgramNext, Results, SocketOpened, SessionRefused, SendAudio,
         CloseSession, SocketClosed,
         dgText

LEMMA LifeStep ==
  ASSUME LifeTypes, DeepgramNext
  PROVE  LifeTypes'
  BY DEF LifeTypes, DeepgramNext, SocketOpened, SessionRefused, SendAudio,
         CloseSession, SocketClosed,
         UtteranceEnd, Results, InterimResult, FinalResult, RepeatedResult, EmptyResult, Collected,
         flushUtterance, resetUtterance, dgLife, dgText

-----------------------------------------------------------------------------
(* The invariant, and what it says.                                        *)

LEMMA InitHolds == DeepgramInit => IInv
<1> SUFFICES ASSUME DeepgramInit PROVE IInv
  OBVIOUS
<1>a. LifeTypes
  BY DEF DeepgramInit, LifeTypes
<1>1. TextTypes
  <2>1. <<>> \in Seq(Nat) /\ {} \subseteq Nat /\ 0 \in Nat
    OBVIOUS
  <2>2. QED
    BY <2>1 DEF DeepgramInit, TextTypes, NoText
<1>2. Told = <<>> /\ finalised = 0
  BY ConcatEmptySeq DEF DeepgramInit, Told, finalised
<1>3. ToSet(Told) = {}
  BY <1>2 DEF ToSet
<1>4. Kept
  BY <1>2, <1>3 DEF DeepgramInit, Kept, OnlyEchoesAreLost, Rising, Current
<1>5. QED
  BY <1>a, <1>1, <1>4 DEF IInv

LEMMA SessionInvariant == DeepgramSpec => []IInv
<1>1. IInv /\ DeepgramNext => IInv'
  BY TextStep, LifeStep DEF IInv
<1>2. IInv /\ UNCHANGED dgVars => IInv'
  BY DEF IInv, TextTypes, LifeTypes, Kept, OnlyEchoesAreLost, Current, Echo, Told,
         Rising, finalised, dgVars, dgLife, dgText, dgSaid, dgTold
<1>3. QED
  BY InitHolds, <1>1, <1>2, PTL DEF DeepgramSpec

\* Every variable of a transcription session keeps its type.
THEOREM DeepgramTypes == DeepgramSpec => []DeepgramTypeOK
<1>1. IInv => DeepgramTypeOK
  BY DEF IInv, DeepgramTypeOK, TextTypes, LifeTypes, Segment
<1>2. QED
  BY SessionInvariant, <1>1, PTL

\* However final results, repeats, interim results and ends of the utterance
\* follow each other, any number of them, no final segment is moved, and none is
\* lost but one with the words of the segment before it in the same utterance.
THEOREM OnlyEchoes == DeepgramSpec => []OnlyEchoesAreLost
<1>1. IInv => OnlyEchoesAreLost
  BY DEF IInv, Kept
<1>2. QED
  BY SessionInvariant, <1>1, PTL

-----------------------------------------------------------------------------
(* Speech *)

USE DEF None

States == {"connecting", "open", "closed"}

\* A request that was sent went to a socket that had opened.
SentOnOpened ==
  \A c \in Callers :
    call[c] = "streaming" /\ socketOf[c] # None
      => sockets[socketOf[c]] \in {"open", "closed"}

Inv == TypeOK /\ SentOnOpened /\ ServedOnCurrentSocket

\* sockets is a function on its positions, and grows at the end.
LEMMA SocketsGrow ==
  ASSUME TypeOK, sockets' = Append(sockets, "connecting")
  PROVE  /\ Len(sockets) \in Nat
         /\ DOMAIN sockets = 1..Len(sockets) /\ DOMAIN sockets' = 1..(Len(sockets) + 1)
         /\ sockets' \in Seq(States)
         /\ \A s \in DOMAIN sockets : sockets'[s] = sockets[s]
         /\ sockets'[Len(sockets) + 1] = "connecting"
<1>1. sockets \in Seq(States) /\ "connecting" \in States
  BY DEF TypeOK, States
<1>2. QED
  BY <1>1, AppendProperties

\* Changing the state of one socket keeps the sequence.
LEMMA SocketChanges ==
  ASSUME TypeOK, NEW s \in DOMAIN sockets, NEW v \in States,
         sockets' = [sockets EXCEPT ![s] = v]
  PROVE  /\ sockets' \in Seq(States)
         /\ DOMAIN sockets' = DOMAIN sockets
         /\ \A t \in DOMAIN sockets : sockets'[t] = IF t = s THEN v ELSE sockets[t]
<1>1. sockets \in Seq(States)
  BY DEF TypeOK, States
<1>2. s \in 1..Len(sockets)
  BY <1>1
<1>3. QED
  BY <1>1, <1>2, ExceptSeq

LEMMA BoundsAreNatural == MaxCalls \in Nat /\ MaxChunks \in Nat
  BY StreamAssumption

LEMMA InitInv == Init => Inv
<1> SUFFICES ASSUME Init
             PROVE  Inv
  OBVIOUS
<1>1. <<>> \in Seq({"connecting", "open", "closed"})
  BY EmptySeq
<1>2. TypeOK
  BY <1>1, BoundsAreNatural DEF Init, TypeOK
<1>3. SentOnOpened /\ ServedOnCurrentSocket
  BY DEF Init, SentOnOpened, ServedOnCurrentSocket, Served
<1>4. QED
  BY <1>2, <1>3 DEF Inv

\* A step that leaves the sockets and at most ends calls.
LEMMA EndsKeep ==
  ASSUME Inv, UNCHANGED <<sockets, ws>>, TypeOK',
         \A c \in Callers : call'[c] = "streaming" =>
           call[c] = "streaming" /\ socketOf'[c] = socketOf[c]
  PROVE  Inv'
BY DEF Inv, SentOnOpened, ServedOnCurrentSocket, Served, IsOpen

\* Every step keeps a served call on the socket in this.ws.
LEMMA StepInv == Inv /\ [Next]_vars => Inv'
<1> SUFFICES ASSUME Inv, [Next]_vars
             PROVE  Inv'
  OBVIOUS
<1>0. /\ TypeOK /\ SentOnOpened /\ ServedOnCurrentSocket
      /\ sockets \in Seq(States)
      /\ DOMAIN sockets = 1..Len(sockets) /\ Len(sockets) \in Nat
  BY DEF Inv, TypeOK, States
<1>1. ASSUME NEW c \in Callers, StreamText(c)
      PROVE  Inv'
  <2>1. calls' \in [Callers -> 0..MaxCalls] /\ chunks' = chunks
    BY <1>0, <1>1, BoundsAreNatural DEF StreamText, TypeOK
  <2>2. CASE CallOnOpenSocket(c)
    <3>1. /\ UNCHANGED <<sockets, ws>>
          /\ ws # None /\ sockets[ws] = "open"
          /\ call' = [call EXCEPT ![c] = "streaming"]
          /\ socketOf' = [socketOf EXCEPT ![c] = ws]
      BY <2>2 DEF CallOnOpenSocket, Connected, Carrier, IsOpen
    <3>2. TypeOK'
      BY <1>0, <2>1, <3>1 DEF TypeOK
    <3>3. SentOnOpened'
      BY <1>0, <3>1 DEF TypeOK, SentOnOpened
    <3>4. ServedOnCurrentSocket'
      BY <1>0, <3>1 DEF TypeOK, ServedOnCurrentSocket, Served, IsOpen
    <3>5. QED
      BY <3>2, <3>3, <3>4 DEF Inv
  <2>3. CASE CallOpensSocket(c)
    <3>1. /\ sockets' = Append(sockets, "connecting")
          /\ ws' = Len(sockets) + 1
          /\ call' = [call EXCEPT ![c] = "connecting"]
          /\ socketOf' = [socketOf EXCEPT ![c] = Len(sockets) + 1]
          /\ ~Connected
      BY <2>3 DEF CallOpensSocket
    <3>2. /\ DOMAIN sockets' = 1..(Len(sockets) + 1)
          /\ sockets' \in Seq(States)
          /\ \A s \in DOMAIN sockets : sockets'[s] = sockets[s]
      BY <1>0, <3>1, SocketsGrow
    <3>3. TypeOK'
      BY <1>0, <2>1, <3>1, <3>2 DEF TypeOK, States
    <3>4. \A d \in Callers : call'[d] = "streaming" =>
            call[d] = "streaming" /\ socketOf'[d] = socketOf[d]
      BY <1>0, <3>1 DEF TypeOK
    <3>5. SentOnOpened'
      BY <1>0, <3>2, <3>4 DEF TypeOK, SentOnOpened
    <3>6. \A d \in Callers : ~Served(d)
      BY <1>0, <3>1 DEF Connected, ServedOnCurrentSocket, Served, IsOpen
    <3>7. ServedOnCurrentSocket'
      BY <1>0, <3>2, <3>4, <3>6 DEF TypeOK, ServedOnCurrentSocket, Served, IsOpen
    <3>8. QED
      BY <3>3, <3>5, <3>7 DEF Inv
  <2>4. QED
    BY <1>1, <2>2, <2>3 DEF StreamText
<1>2. ASSUME NEW c \in Callers, Audio(c)
      PROVE  Inv'
  <2>1. TypeOK'
    BY <1>0, <1>2, BoundsAreNatural DEF Audio, TypeOK
  <2>2. QED
    BY <1>2, <2>1, EndsKeep DEF Audio
<1>3. ASSUME NEW c \in Callers, IsFinal(c)
      PROVE  Inv'
  <2>1. TypeOK'
    BY <1>0, <1>3, BoundsAreNatural DEF IsFinal, End, TypeOK
  <2>2. QED
    BY <1>0, <1>3, <2>1, EndsKeep DEF IsFinal, End, TypeOK
<1>4. ASSUME NEW s \in DOMAIN sockets, SocketOpens(s)
      PROVE  Inv'
  <2> DEFINE Waits(c) == call[c] = "connecting" /\ socketOf[c] = s
  <2>1. /\ sockets[s] = "connecting"
        /\ sockets' = [sockets EXCEPT ![s] = "open"]
        /\ call' = [c \in Callers |-> IF Waits(c) THEN "streaming" ELSE call[c]]
        /\ socketOf' = [c \in Callers |->
                          IF Waits(c) THEN Carrier(sockets') ELSE socketOf[c]]
        /\ UNCHANGED <<ws, chunks, calls>>
    BY <1>4 DEF SocketOpens
  <2>2. /\ sockets' \in Seq(States) /\ DOMAIN sockets' = DOMAIN sockets
        /\ \A t \in DOMAIN sockets : sockets'[t] = IF t = s THEN "open" ELSE sockets[t]
    BY <1>0, <1>4, <2>1, SocketChanges DEF States
  <2>3. Carrier(sockets') = None \/ (Carrier(sockets') = ws /\ sockets'[ws] = "open")
    BY DEF Carrier, IsOpen
  <2>4. Carrier(sockets') \in {None} \union DOMAIN sockets
    BY <1>0, <2>3 DEF TypeOK
  <2>5. TypeOK'
    BY <1>0, <2>1, <2>2, <2>4 DEF TypeOK, States
  <2>6. ASSUME NEW c \in Callers, call'[c] = "streaming", socketOf'[c] # None
        PROVE  sockets'[socketOf'[c]] \in {"open", "closed"}
    <3>1. CASE Waits(c)
      <4>1. socketOf'[c] = Carrier(sockets')
        BY <2>1, <3>1
      <4>2. Carrier(sockets') = ws /\ sockets'[ws] = "open"
        BY <2>3, <2>6, <4>1
      <4>3. QED
        BY <4>1, <4>2
    <3>2. CASE ~Waits(c)
      BY <1>0, <2>1, <2>2, <2>6, <3>2 DEF TypeOK, SentOnOpened
    <3>3. QED
      BY <3>1, <3>2
  <2>7. ASSUME NEW c \in Callers, Served(c)'
        PROVE  socketOf'[c] = ws'
    <3>1. call'[c] = "streaming" /\ socketOf'[c] # None /\ sockets'[socketOf'[c]] = "open"
      BY <2>7 DEF Served, IsOpen
    <3>2. CASE Waits(c)
      BY <2>1, <2>3, <3>1, <3>2
    <3>3. CASE ~Waits(c)
      <4>1. call[c] = "streaming" /\ socketOf[c] = socketOf'[c] /\ socketOf[c] # None
        BY <2>1, <3>1, <3>3
      <4>2. socketOf[c] \in DOMAIN sockets /\ sockets[socketOf[c]] # "connecting"
        BY <1>0, <4>1 DEF TypeOK, SentOnOpened
      <4>3. Served(c)
        BY <2>1, <2>2, <3>1, <4>1, <4>2 DEF Served, IsOpen
      <4>4. QED
        BY <1>0, <2>1, <4>1, <4>3 DEF ServedOnCurrentSocket
    <3>4. QED
      BY <3>2, <3>3
  <2>8. QED
    BY <2>5, <2>6, <2>7 DEF Inv, SentOnOpened, ServedOnCurrentSocket
<1>5. ASSUME NEW s \in DOMAIN sockets, SocketRefused(s) \/ SocketCloses(s)
      PROVE  Inv'
  <2>1. /\ sockets' = [sockets EXCEPT ![s] = "closed"]
        /\ UNCHANGED <<ws, chunks, calls>>
    BY <1>5 DEF SocketRefused, SocketCloses
  <2>2. /\ sockets' \in Seq(States) /\ DOMAIN sockets' = DOMAIN sockets
        /\ \A t \in DOMAIN sockets : sockets'[t] = IF t = s THEN "closed" ELSE sockets[t]
    BY <1>0, <1>5, <2>1, SocketChanges DEF States
  <2>3. /\ call' \in [Callers -> {"idle", "connecting", "streaming"}]
        /\ socketOf' \in [Callers -> {None} \union DOMAIN sockets]
        /\ \A c \in Callers : call'[c] = "streaming" =>
             call[c] = "streaming" /\ socketOf'[c] = socketOf[c]
    BY <1>0, <1>5 DEF SocketRefused, RejectWaiting, SocketCloses, TypeOK
  <2>4. TypeOK'
    BY <1>0, <2>1, <2>2, <2>3 DEF TypeOK, States
  <2>5. SentOnOpened'
    BY <1>0, <2>2, <2>3 DEF TypeOK, SentOnOpened
  <2>6. ServedOnCurrentSocket'
    BY <1>0, <2>1, <2>2, <2>3 DEF TypeOK, ServedOnCurrentSocket, Served, IsOpen
  <2>7. QED
    BY <2>4, <2>5, <2>6 DEF Inv
<1>6. CASE Close
  <2>1. \A c \in Callers : call'[c] # "streaming"
    BY <1>6 DEF Close
  <2>2. sockets' \in Seq(States) /\ DOMAIN sockets' = DOMAIN sockets
    <3>1. CASE ws = None
      BY <1>0, <1>6, <3>1 DEF Close
    <3>2. CASE ws # None
      <4>1. ws \in DOMAIN sockets /\ sockets' = [sockets EXCEPT ![ws] = "closed"]
        BY <1>0, <1>6, <3>2 DEF Close, TypeOK
      <4>2. QED
        BY <1>0, <4>1, SocketChanges DEF States
    <3>3. QED
      BY <3>1, <3>2
  <2>3. /\ call' \in [Callers -> {"idle", "connecting", "streaming"}]
        /\ socketOf' \in [Callers -> {None} \union DOMAIN sockets]
        /\ chunks' \in [Callers -> 0..MaxChunks]
        /\ ws' = None /\ calls' = calls
    BY <1>0, <1>6, BoundsAreNatural DEF Close, TypeOK
  <2>4. TypeOK'
    BY <1>0, <2>2, <2>3 DEF TypeOK, States
  <2>5. SentOnOpened' /\ ServedOnCurrentSocket'
    BY <2>1 DEF SentOnOpened, ServedOnCurrentSocket, Served
  <2>6. QED
    BY <2>4, <2>5 DEF Inv
<1>7. CASE UNCHANGED vars
  BY <1>0, <1>7 DEF vars, Inv, TypeOK, SentOnOpened, ServedOnCurrentSocket, Served, IsOpen
<1>8. QED
  BY <1>1, <1>2, <1>3, <1>4, <1>5, <1>6, <1>7 DEF Next

\* Whatever overlaps and fails, a served call is on the socket in this.ws.
THEOREM ServedCallsAreCurrent == Spec => [](TypeOK /\ ServedOnCurrentSocket)
<1>1. Inv => TypeOK /\ ServedOnCurrentSocket
  BY DEF Inv
<1>2. QED
  BY <1>1, InitInv, StepInv, PTL DEF Spec

-----------------------------------------------------------------------------
(* Every call that waits does so for a socket of its own. The invariant     *)
(* Inv is not needed for it, but its typing is.                             *)

Pending(c) == call[c] = "connecting"

\* A step after which nobody waits who did not wait before, for that socket, and
\* that ends the wait of those whose socket it opens or closes.
LEMMA WaitsShrink ==
  ASSUME TypeOK, WaitsForPendingSocket,
         \A c \in Callers :
           call'[c] = "connecting" =>
             /\ Pending(c) /\ socketOf'[c] = socketOf[c]
             /\ sockets'[socketOf[c]] = sockets[socketOf[c]]
  PROVE  WaitsForPendingSocket'
<1>1. \A c \in Callers : call'[c] = "connecting" =>
        socketOf'[c] # None /\ sockets'[socketOf'[c]] = "connecting"
  BY DEF WaitsForPendingSocket, Pending
<1>2. \A c, d \in Callers :
        (c # d /\ call'[c] = "connecting" /\ call'[d] = "connecting")
          => socketOf'[c] # socketOf'[d]
  BY DEF WaitsForPendingSocket, Pending
<1>3. QED
  BY <1>1, <1>2 DEF WaitsForPendingSocket

LEMMA WaitsStep == TypeOK /\ WaitsForPendingSocket /\ [Next]_vars => WaitsForPendingSocket'
<1> SUFFICES ASSUME TypeOK, WaitsForPendingSocket, [Next]_vars
             PROVE  WaitsForPendingSocket'
  OBVIOUS
<1>0. /\ sockets \in Seq(States)
      /\ DOMAIN sockets = 1..Len(sockets) /\ Len(sockets) \in Nat
      /\ call \in [Callers -> {"idle", "connecting", "streaming"}]
      /\ socketOf \in [Callers -> {None} \union DOMAIN sockets]
      /\ ws \in {None} \union DOMAIN sockets
  BY DEF TypeOK, States
<1>1. ASSUME NEW c \in Callers, StreamText(c)
      PROVE  WaitsForPendingSocket'
  <2>1. CASE CallOnOpenSocket(c)
    <3>1. \A d \in Callers : call'[d] = "connecting" =>
            /\ Pending(d) /\ socketOf'[d] = socketOf[d]
            /\ sockets'[socketOf[d]] = sockets[socketOf[d]]
      BY <1>0, <2>1 DEF CallOnOpenSocket, Pending
    <3>2. QED
      BY <3>1, WaitsShrink
  <2>2. CASE CallOpensSocket(c)
    <3> DEFINE n == Len(sockets) + 1
    <3>1. /\ sockets' = Append(sockets, "connecting")
          /\ call' = [call EXCEPT ![c] = "connecting"]
          /\ socketOf' = [socketOf EXCEPT ![c] = n]
      BY <2>2 DEF CallOpensSocket
    <3>2. /\ \A s \in DOMAIN sockets : sockets'[s] = sockets[s]
          /\ sockets'[n] = "connecting" /\ n # None /\ n \notin DOMAIN sockets
      BY <1>0, <3>1, SocketsGrow
    <3> HIDE DEF n
    <3>3. \A d \in Callers :
            /\ d = c => socketOf'[d] = n
            /\ d # c => call'[d] = call[d] /\ socketOf'[d] = socketOf[d]
      BY <1>0, <3>1
    <3>4. ASSUME NEW d \in Callers, d # c, call[d] = "connecting"
          PROVE  socketOf[d] \in DOMAIN sockets /\ sockets'[socketOf[d]] = "connecting"
      BY <1>0, <3>2, <3>4 DEF WaitsForPendingSocket
    <3>5. QED
      BY <3>2, <3>3, <3>4 DEF WaitsForPendingSocket
  <2>3. QED
    BY <1>1, <2>1, <2>2 DEF StreamText
<1>2. ASSUME NEW c \in Callers, Audio(c) \/ IsFinal(c)
      PROVE  WaitsForPendingSocket'
  <2>1. \A d \in Callers : call'[d] = "connecting" =>
          /\ Pending(d) /\ socketOf'[d] = socketOf[d]
          /\ sockets'[socketOf[d]] = sockets[socketOf[d]]
    BY <1>0, <1>2 DEF Audio, IsFinal, End, Pending
  <2>2. QED
    BY <2>1, WaitsShrink
<1>3. ASSUME NEW s \in DOMAIN sockets, SocketOpens(s) \/ SocketRefused(s)
      PROVE  WaitsForPendingSocket'
  <2>1. \A d \in Callers :
          call'[d] = "connecting" => Pending(d) /\ socketOf[d] # s /\ socketOf'[d] = socketOf[d]
    BY <1>0, <1>3 DEF SocketOpens, SocketRefused, RejectWaiting, Pending
  <2>2. PICK v \in States : sockets' = [sockets EXCEPT ![s] = v]
    BY <1>3 DEF SocketOpens, SocketRefused, States
  <2>3. \A t \in DOMAIN sockets : t # s => sockets'[t] = sockets[t]
    BY <1>0, <2>2
  <2>4. \A d \in Callers : Pending(d) => socketOf[d] \in DOMAIN sockets
    BY <1>0 DEF WaitsForPendingSocket, Pending
  <2>5. QED
    BY <2>1, <2>3, <2>4, WaitsShrink
<1>4. ASSUME NEW s \in DOMAIN sockets, SocketCloses(s)
      PROVE  WaitsForPendingSocket'
  <2>1. /\ sockets[s] = "open" /\ sockets' = [sockets EXCEPT ![s] = "closed"]
        /\ call' = call /\ socketOf' = socketOf
    BY <1>4 DEF SocketCloses
  <2>2. \A d \in Callers : Pending(d) => socketOf[d] \in DOMAIN sockets /\ socketOf[d] # s
    BY <1>0, <2>1 DEF WaitsForPendingSocket, Pending
  <2>3. \A t \in DOMAIN sockets : t # s => sockets'[t] = sockets[t]
    BY <1>0, <2>1
  <2>4. QED
    BY <2>1, <2>2, <2>3, WaitsShrink DEF Pending
<1>5. CASE Close
  <2>1. \A d \in Callers :
          call'[d] = "connecting" => Pending(d) /\ socketOf[d] # ws /\ socketOf'[d] = socketOf[d]
    BY <1>0, <1>5 DEF Close, Pending
  <2>2. \A t \in DOMAIN sockets : t # ws => sockets'[t] = sockets[t]
    BY <1>0, <1>5 DEF Close
  <2>3. \A d \in Callers : Pending(d) => socketOf[d] \in DOMAIN sockets
    BY <1>0 DEF WaitsForPendingSocket, Pending
  <2>4. QED
    BY <2>1, <2>2, <2>3, WaitsShrink
<1>6. CASE UNCHANGED vars
  BY <1>6 DEF vars, WaitsForPendingSocket
<1>7. QED
  BY <1>1, <1>2, <1>3, <1>4, <1>5, <1>6 DEF Next

\* Whoever waits for a connection waits for a socket that is still connecting
\* and that nobody else waits for, however calls, failures and close() overlap.
THEOREM WaitersHaveTheirSocket == Spec => []WaitsForPendingSocket
<1>1. Init => WaitsForPendingSocket
  BY DEF Init, WaitsForPendingSocket
<1>2. Inv => TypeOK
  BY DEF Inv
<1>3. QED
  BY <1>1, <1>2, InitInv, StepInv, WaitsStep, PTL DEF Spec
=============================================================================
