------------------------ MODULE VehicleWindowProofs ------------------------
(***************************************************************************)
(* For any trips, shapes, stops, gap and number of feeds: the window of a  *)
(* vehicle stays contiguous, and a slow run never spans a reset; both      *)
(* follow from the upsert alone (IInv), whatever the match resolves to.    *)
(* Segments stay inside the window and in order, and the boundary crossed  *)
(* last never moves back: these need MeasureInv, which relates every       *)
(* segment to the boundary crossed last, and what a walk over the          *)
(* crossings of a cycle can make of it (CrossedFacts, SegmentFacts).       *)
(***************************************************************************)
EXTENDS VehicleWindow, TLAPS, SequenceTheorems, FiniteSetTheorems, WellFoundedInduction

(* The columns the upsert alone writes. *)
slid == <<window, opened, slowSince>>

(* The inductive invariant. *)
SlowType ==
  /\ slowSince \in Nat \cup {Nothing}
  /\ opened \in Nat

SlowInv ==
  /\ SlowType
  /\ SlowRunUnbroken
  /\ window # << >> => opened <= Latest.time
  /\ window = << >> => slowSince = Nothing
  /\ slowSince # Nothing => slowSince <= Latest.time

IInv == WindowType /\ WindowContiguous /\ SlowInv

(* What the upsert leaves of a longer list is its last three. *)
LEMMA LastThreeFacts ==
  ASSUME NEW S, NEW q \in Seq(S), q # << >>
  PROVE  LET kept == LastThree(q)
             cut == Len(q) - Len(kept)
         IN /\ kept \in Seq(S)
            /\ Len(kept) <= 3
            /\ kept # << >>
            /\ cut \in 0..(Len(q) - 1)
            /\ \A i \in 1..Len(kept) : kept[i] = q[i + cut]
<1>1. CASE Len(q) <= 3
  BY <1>1 DEF LastThree
<1>2. CASE Len(q) > 3
  <2>1. LastThree(q) = SubSeq(q, Len(q) - 2, Len(q))
    BY <1>2 DEF LastThree
  <2>2. SubSeq(q, Len(q) - 2, Len(q)) \in Seq(S)
    BY <1>2, SubSeqProperties
  <2>3. Len(SubSeq(q, Len(q) - 2, Len(q))) = 3
    BY <1>2, SubSeqProperties
  <2>4. \A i \in 1..3 : SubSeq(q, Len(q) - 2, Len(q))[i] = q[i + Len(q) - 3]
    BY <1>2
  <2>. QED  BY <2>1, <2>2, <2>3, <2>4, <1>2
<1>. QED  BY <1>1, <1>2

(* A step either leaves the upsert's columns alone or slides a sample in. *)
LEMMA StepSlides ==
  ASSUME WindowType, [Next]_vars
  PROVE  /\ feed' \in 1..Feeds
         /\ \/ UNCHANGED slid
            \/ \E s \in Samples : IncomingIsNewer(s.time) /\ Slide(s)
<1>1. CASE ReloadIndex
  BY <1>1, WindowAssumption DEF ReloadIndex, WindowType, slid
<1>2. ASSUME NEW time \in 1..MaxTime, Cycle(time)
      PROVE  /\ feed' \in 1..Feeds
             /\ \/ UNCHANGED slid
                \/ \E s \in Samples : IncomingIsNewer(s.time) /\ Slide(s)
  <2>1. PICK trip \in Trips \cup {NoTrip}, near \in Nears, slow \in BOOLEAN :
          LET s == Sample(time, trip, near, slow) IN Unresolved(s) \/ Resolved(s)
    BY <1>2 DEF Cycle
  <2>. DEFINE s == Sample(time, trip, near, slow)
  <2>2. s \in Samples /\ s.time = time
    BY DEF Sample, Samples, WindowType
  <2>3. CASE Unresolved(s)
    BY <2>2, <2>3, <1>2 DEF Unresolved, Cycle, WindowType
  <2>4. CASE Resolved(s)
    <3>. HIDE DEF s
    <3>1. PICK path \in MonotonePaths(LastThree(Append(window, s))) : Cross(s, path)
      BY <2>4 DEF Resolved
    <3>2. feed' = feed /\ (Slide(s) \/ UNCHANGED slid)
      BY <3>1 DEF Cross, slid
    <3>. QED  BY <3>2, <2>2, <1>2 DEF Cycle, WindowType
  <2>. QED  BY <2>1, <2>3, <2>4
<1>3. CASE UNCHANGED vars
  BY <1>3 DEF vars, WindowType, slid
<1>. QED  BY <1>1, <1>2, <1>3 DEF Next

(* The initial row keeps every part of the invariant. *)
LEMMA IInvInit == Init => IInv
  BY WindowAssumption DEF Init, IInv, WindowType, WindowContiguous, SlowInv, SlowType,
     SlowRunUnbroken

(* Sliding a newer sample in keeps the window contiguous. *)
LEMMA WindowStep ==
  ASSUME WindowType, WindowContiguous, NEW s \in Samples,
         IncomingIsNewer(s.time), Slide(s)
  PROVE  /\ window' \in Seq(Samples)
         /\ Len(window') <= 3
         /\ window' # << >>
         /\ window'[Len(window')] = s
         /\ WindowContiguous'
<1>1. CASE WindowMustReset(s)
  BY <1>1 DEF Slide, WindowContiguous
<1>2. CASE ~WindowMustReset(s)
  <2>. DEFINE q == Append(window, s)
              kept == LastThree(q)
              cut == Len(q) - Len(kept)
  <2>1. q \in Seq(Samples) /\ q # << >> /\ Len(q) = Len(window) + 1 /\ q[Len(q)] = s
    BY DEF WindowType
  <2>2. /\ kept \in Seq(Samples)
        /\ Len(kept) <= 3
        /\ kept # << >>
        /\ cut \in 0..(Len(q) - 1)
        /\ \A i \in 1..Len(kept) : kept[i] = q[i + cut]
    BY <2>1, LastThreeFacts
  <2>3. window' = kept
    BY <1>2 DEF Slide
  <2>4. window # << >> /\ Len(window) \in Nat /\ Len(window) >= 1
    BY <1>2 DEF WindowMustReset, WindowType
  <2>5. \A i \in 1..(Len(q) - 1) :
          /\ q[i].time < q[i + 1].time
          /\ q[i + 1].time - q[i].time <= MaxGap
          /\ q[i].trip = q[i + 1].trip
          /\ q[i].shape = q[i + 1].shape
    <3>. SUFFICES ASSUME NEW i \in 1..Len(window)
                  PROVE  /\ q[i].time < q[i + 1].time
                         /\ q[i + 1].time - q[i].time <= MaxGap
                         /\ q[i].trip = q[i + 1].trip
                         /\ q[i].shape = q[i + 1].shape
      BY <2>1
    <3>1. CASE i = Len(window)
      <4>1. q[i] = Latest /\ q[i + 1] = s
        BY <3>1, <2>1, <2>4 DEF Latest, WindowType
      <4>2. Latest \in Samples
        BY <2>4 DEF Latest, WindowType
      <4>. QED
        BY <4>1, <4>2, <1>2, <2>4, WindowAssumption
           DEF IncomingIsNewer, WindowMustReset, Samples
    <3>2. CASE i # Len(window)
      <4>1. i \in 1..(Len(window) - 1) /\ q[i] = window[i] /\ q[i + 1] = window[i + 1]
        BY <3>2, <2>1, <2>4 DEF WindowType
      <4>. QED  BY <4>1 DEF WindowContiguous
    <3>. QED  BY <3>1, <3>2
  <2>. HIDE DEF q, kept
  <2>6. kept[Len(kept)] = s
    BY <2>1, <2>2
  <2>7. \A i \in 1..(Len(kept) - 1) : /\ i + cut \in 1..(Len(q) - 1)
                                      /\ kept[i] = q[i + cut]
                                      /\ kept[i + 1] = q[(i + cut) + 1]
    <3>. Len(kept) \in Nat /\ Len(q) \in Nat
      BY <2>1, <2>2
    <3>. QED  BY <2>2
  <2>. QED  BY <2>2, <2>3, <2>5, <2>6, <2>7 DEF WindowContiguous
<1>. QED  BY <1>1, <1>2

(* Every sample of a contiguous window but the last is older than it. *)
LEMMA YoungestLast ==
  ASSUME NEW q \in Seq(Samples), Len(q) <= 3,
         \A i \in 1..(Len(q) - 1) : q[i].time < q[i + 1].time
  PROVE  \A i \in 1..(Len(q) - 1) : q[i].time < q[Len(q)].time
<1>1. \A i \in 1..Len(q) : q[i].time \in Nat
  <2>1. \A i \in 1..Len(q) : q[i] \in Samples
    OBVIOUS
  <2>2. \A x \in Samples : x.time \in Nat
    BY DEF Samples
  <2>. QED  BY <2>1, <2>2
<1>2. Len(q) \in {0, 1, 2, 3}
  <2>1. Len(q) \in Nat /\ Len(q) <= 3
    OBVIOUS
  <2>2. \A n \in Nat : n <= 3 => n \in {0, 1, 2, 3}
    OBVIOUS
  <2>. QED  BY <2>1, <2>2
<1>3. CASE Len(q) = 3
  <2>1. q[1].time < q[2].time /\ q[2].time < q[3].time
    BY <1>3
  <2>. QED  BY <2>1, <1>1, <1>3
<1>. QED  BY <1>2, <1>3

(* A slide adds s and nothing else. *)
LEMMA KeptOrNew ==
  ASSUME WindowType, NEW s \in Samples, Slide(s), ~WindowMustReset(s)
  PROVE  \A i \in 1..Len(window') :
           window'[i] = s \/ \E j \in 1..Len(window) : window'[i] = window[j]
<1>. DEFINE q == Append(window, s)
<1>1. q \in Seq(Samples) /\ q # << >> /\ Len(q) = Len(window) + 1
  BY AppendProperties DEF WindowType
<1>2. \A j \in 1..Len(q) : q[j] = s \/ (j \in 1..Len(window) /\ q[j] = window[j])
  BY DEF WindowType
<1>3. window' = LastThree(q)
  BY DEF Slide
<1>. HIDE DEF q
<1>4. \A i \in 1..Len(LastThree(q)) : \E j \in 1..Len(q) : LastThree(q)[i] = q[j]
  <2>. DEFINE cut == Len(q) - Len(LastThree(q))
  <2>1. /\ LastThree(q) \in Seq(Samples) /\ cut \in 0..(Len(q) - 1)
        /\ \A i \in 1..Len(LastThree(q)) : LastThree(q)[i] = q[i + cut]
    BY <1>1, LastThreeFacts
  <2>2. \A i \in 1..Len(LastThree(q)) : i + cut \in 1..Len(q)
    BY <2>1, <1>1
  <2>. QED  BY <2>1, <2>2
<1>. QED  BY <1>2, <1>3, <1>4

(* Sliding a sample in keeps a slow run unbroken and inside the window. *)
LEMMA SlowStep ==
  ASSUME IInv, NEW s \in Samples, IncomingIsNewer(s.time), Slide(s)
  PROVE  SlowInv'
<1>. USE DEF IInv
<1>1. /\ window' \in Seq(Samples) /\ window' # << >> /\ Latest' = s
  BY WindowStep DEF Latest
<1>2. s.time \in Nat /\ s.slow \in BOOLEAN /\ s.time # Nothing
  BY WindowAssumption DEF Samples
<1>3. CASE WindowMustReset(s)
  <2>1. window' = <<s>> /\ opened' = s.time /\ slowSince' = IF s.slow THEN s.time ELSE Nothing
    BY <1>3 DEF Slide, LowSpeedSince
  <2>. QED  BY <2>1, <1>1, <1>2 DEF SlowInv, SlowType, SlowRunUnbroken
<1>4. CASE ~WindowMustReset(s)
  <2>1. window # << >> /\ Latest \in Samples /\ Latest.time < s.time /\ Latest.time \in Nat
    <3>1. window # << >>
      BY <1>4 DEF WindowMustReset
    <3>2. Latest \in Samples
      BY <3>1 DEF WindowType, Latest
    <3>3. Latest.time \in Nat
      BY <3>2 DEF Samples
    <3>. QED  BY <3>1, <3>2, <3>3 DEF IncomingIsNewer
  <2>2. opened' = opened /\ opened <= Latest.time /\ opened \in Nat
    BY <1>4, <2>1 DEF Slide, SlowInv, SlowType
  <2>3. CASE ~s.slow
    <3>1. slowSince' = Nothing
      BY <2>3 DEF Slide, LowSpeedSince
    <3>. QED  BY <3>1, <2>1, <2>2, <2>3, <1>1, <1>2 DEF SlowInv, SlowType, SlowRunUnbroken
  <2>4. CASE s.slow /\ ~Latest.slow
    <3>1. slowSince' = s.time
      BY <2>4, <1>4 DEF Slide, LowSpeedSince
    <3>2. \A i \in 1..Len(window') : window'[i].time >= s.time => window'[i].slow
      <4>1. \A i \in 1..(Len(window') - 1) : window'[i].time < s.time
        BY YoungestLast, WindowStep DEF WindowContiguous
      <4>2. \A i \in 1..(Len(window') - 1) : window'[i].time \in Nat
        <5>1. \A x \in Samples : x.time \in Nat
          BY DEF Samples
        <5>. QED  BY <5>1, <1>1
      <4>3. window'[Len(window')] = s
        BY <1>1 DEF Latest
      <4>. QED  BY <4>1, <4>2, <4>3, <2>4, <1>1, <1>2
    <3>. QED  BY <3>1, <3>2, <2>1, <2>2, <2>4, <1>1, <1>2 DEF SlowInv, SlowType, SlowRunUnbroken
  <2>5. CASE s.slow /\ Latest.slow
    <3>1. slowSince' = slowSince /\ slowSince # Nothing /\ slowSince \in Nat
      BY <2>5, <1>4, <2>1 DEF Slide, LowSpeedSince, SlowInv, SlowType, SlowRunUnbroken
    <3>2. \A i \in 1..Len(window') :
            window'[i] = s \/ \E j \in 1..Len(window) : window'[i] = window[j]
      BY KeptOrNew, <1>4 
    <3>3. \A i \in 1..Len(window') : window'[i].time >= slowSince => window'[i].slow
      BY <3>1, <3>2, <2>5 DEF SlowInv, SlowRunUnbroken
    <3>. QED  BY <3>1, <3>3, <2>1, <2>2, <2>5, <1>1, <1>2 DEF SlowInv, SlowType, SlowRunUnbroken
  <2>. QED  BY <2>3, <2>4, <2>5, <1>2
<1>. QED  BY <1>3, <1>4

(* The invariant is inductive. *)
LEMMA IInvStep == IInv /\ [Next]_vars => IInv'
<1>. SUFFICES ASSUME IInv, [Next]_vars PROVE IInv'
  OBVIOUS
<1>1. feed' \in 1..Feeds
  BY StepSlides DEF IInv
<1>2. CASE UNCHANGED slid
  BY <1>1, <1>2 DEF slid, IInv, WindowType, WindowContiguous, SlowInv, SlowType,
     SlowRunUnbroken, Latest
<1>3. CASE \E s \in Samples : IncomingIsNewer(s.time) /\ Slide(s)
  <2>1. PICK s \in Samples : IncomingIsNewer(s.time) /\ Slide(s)
    BY <1>3
  <2>2. SlowInv'
    BY <2>1, SlowStep
  <2>. QED  BY <2>1, <2>2, <1>1, WindowStep DEF IInv, WindowType
<1>. QED  BY <1>2, <1>3, StepSlides DEF IInv

(* Whatever late, repeated, missing or uncorrelated samples the source     *)
(* sends, the samples a match compares are in order, no more than MaxGap   *)
(* apart, and of one trip on one shape.                                    *)
THEOREM Contiguous == Spec => []WindowContiguous
<1>1. IInv => WindowContiguous
  BY DEF IInv
<1>. QED  BY <1>1, IInvInit, IInvStep, PTL DEF Spec

(* low_speed_since never reaches back across a reset or a faster sample. *)
THEOREM SlowRun == Spec => []SlowRunUnbroken
<1>1. IInv => SlowRunUnbroken
  BY DEF IInv, SlowInv
<1>. QED  BY <1>1, IInvInit, IInvStep, PTL DEF Spec

-----------------------------------------------------------------------------
(* Induction over the numbers, for a property given as a set. *)
LEMMA Induction ==
  ASSUME NEW P \in SUBSET Nat, 0 \in P, \A n \in P : n + 1 \in P
  PROVE  P = Nat
<1>. SUFFICES ASSUME Nat \ P # {} PROVE FALSE
  OBVIOUS
<1>1. PICK least \in Nat \ P : \A n \in Nat \ P : ~(<<n, least>> \in OpToRel(<, Nat))
  BY NatLessThanWellFounded, WFMin
<1>2. \A n \in Nat \ P : ~(n < least)
  BY <1>1 DEF OpToRel
<1>3. least # 0
  OBVIOUS
<1>4. least - 1 \in P
  BY <1>2, <1>3
<1>5. (least - 1) + 1 \in P
  BY <1>4
<1>. QED  BY <1>5

(* How many boundaries of a set lie before one of them. *)
Rank(S, s) == Cardinality({z \in S : Ahead(z, s)})

LEMMA RankFacts ==
  ASSUME NEW S, IsFiniteSet(S),
         \A s \in S : s.progress \in Nat /\ s.seq \in Nat,
         \A s, z \in S : s.seq = z.seq => s = z
  PROVE  /\ Cardinality(S) \in Nat
         /\ \A s, z \in S : Rank(S, s) < Rank(S, z) => Ahead(s, z)
         /\ \A i \in 1..Cardinality(S) : \E s \in S : Rank(S, s) = i - 1
<1>. DEFINE before(s) == {z \in S : Ahead(z, s)}
            n == Cardinality(S)
<1>1. n \in Nat /\ \A s \in S : /\ IsFiniteSet(before(s)) /\ Rank(S, s) \in Nat
                                /\ Rank(S, s) = Cardinality(before(s))
  <2>1. \A s \in S : before(s) \in SUBSET S
    OBVIOUS
  <2>2. \A s \in S : IsFiniteSet(before(s))
    BY <2>1, FS_Subset
  <2>. QED  BY <2>2, FS_CardinalityType DEF Rank
<1>2. ASSUME NEW s \in S, NEW z \in S, Ahead(s, z) PROVE Rank(S, s) < Rank(S, z)
  <2>1. before(s) \cup {s} \subseteq before(z)
    BY <1>2 DEF Ahead
  <2>2. s \notin before(s)
    BY DEF Ahead
  <2>. HIDE DEF before
  <2>3. /\ IsFiniteSet(before(s) \cup {s})
        /\ Cardinality(before(s) \cup {s}) = Cardinality(before(s)) + 1
    BY <1>1, <2>2, FS_AddElement
  <2>4. Cardinality(before(s) \cup {s}) <= Cardinality(before(z))
    BY <1>1, <2>1, FS_Subset
  <2>. QED  BY <1>1, <2>3, <2>4
<1>3. \A s, z \in S : s = z \/ Ahead(s, z) \/ Ahead(z, s)
  BY DEF Ahead
<1>4. ASSUME NEW s \in S PROVE Rank(S, s) \in 0..(n - 1)
  <2>1. before(s) \in SUBSET (S \ {s})
    BY DEF Ahead
  <2>2. IsFiniteSet(S \ {s}) /\ Cardinality(S \ {s}) = n - 1
    BY FS_RemoveElement
  <2>3. Cardinality(before(s)) <= n - 1
    BY <2>1, <2>2, FS_Subset
  <2>. QED  BY <1>1, <2>3
<1>. DEFINE f == [s \in S |-> Rank(S, s)]
<1>5. f \in Injection(S, 0..(n - 1))
  <2>1. ASSUME NEW s \in S, NEW z \in S, Rank(S, s) = Rank(S, z) PROVE s = z
    <3>1. Rank(S, s) \in Nat /\ Rank(S, z) \in Nat
      BY <1>1
    <3>2. ~Ahead(s, z) /\ ~Ahead(z, s)
      BY <1>2, <2>1, <3>1
    <3>. QED  BY <1>3, <3>2
  <2>2. f \in [S -> 0..(n - 1)]
    BY <1>4
  <2>. QED  BY <2>1, <2>2 DEF Injection, IsInjective
<1>6. IsFiniteSet(0..(n - 1)) /\ Cardinality(0..(n - 1)) = n
  <2>. HIDE DEF n
  <2>1. 0 \in Int /\ n - 1 \in Int /\ (IF 0 > n - 1 THEN 0 ELSE (n - 1) - 0 + 1) = n
    BY <1>1
  <2>. QED  BY <2>1, FS_Interval
<1>7. f \in Surjection(S, 0..(n - 1))
  <2>. HIDE DEF f
  <2>. QED  BY <1>5, <1>6, FS_Injection
<1>8. \A i \in 1..n : \E s \in S : Rank(S, s) = i - 1
  <2>. SUFFICES ASSUME NEW i \in 1..n PROVE \E s \in S : Rank(S, s) = i - 1
    OBVIOUS
  <2>1. i - 1 \in 0..(n - 1)
    BY <1>1
  <2>2. \E s \in S : f[s] = i - 1
    BY <1>7, <2>1 DEF Surjection
  <2>. QED  BY <2>2
<1>9. \A s, z \in S : Rank(S, s) < Rank(S, z) => Ahead(s, z)
  <2>. SUFFICES ASSUME NEW s \in S, NEW z \in S, Rank(S, s) < Rank(S, z) PROVE Ahead(s, z)
    OBVIOUS
  <2>1. Rank(S, s) \in Nat /\ Rank(S, z) \in Nat
    BY <1>1
  <2>2. s # z /\ ~Ahead(z, s)
    BY <1>2, <2>1
  <2>. QED  BY <1>3, <2>2
<1>. QED  BY <1>1, <1>8, <1>9

(* The crossings of a cycle are boundaries of the trip, one after another. *)
Chronological(walk) ==
  \A i, j \in 1..Len(walk) : i < j => ~Earlier(walk[j], walk[i])

(* A boundary has a higher number than the one before it. *)
Sound(c) == c \in Crossings /\ c.previous < c.seq

LEMMA CrossedFacts ==
  ASSUME NEW f \in 1..Feeds, NEW trip \in Trips, NEW path, NEW time \in 1..MaxTime
  PROVE  LET walk == CrossedBoundaries(f, trip, path, time)
         IN /\ walk \in Seq(Crossings) /\ Chronological(walk)
            /\ \A i \in 1..Len(walk) : Sound(walk[i]) /\ walk[i].end = time
<1>. DEFINE passed == {s \in Stops[f][trip] : path[2] < s.progress /\ s.progress <= path[3]}
            n == Cardinality(passed)
            nth(i) == CHOOSE s \in passed : Cardinality({z \in passed : Ahead(z, s)}) = i - 1
            walk == CrossedBoundaries(f, trip, path, time)
<1>1. walk = [i \in 1..n |-> Crossing(nth(i), time)]
  BY DEF CrossedBoundaries
<1>2. /\ IsFiniteSet(Stops[f][trip])
      /\ \A s \in Stops[f][trip] :
           /\ s.seq \in Nat /\ s.previous \in -1..(s.seq - 1) /\ s.progress \in Nat
           /\ s.quality \in {"valid", "reduced", "fallback_required"}
      /\ \A s, z \in Stops[f][trip] : s.seq = z.seq => s = z
  BY WindowAssumption
<1>3. IsFiniteSet(passed)
  BY <1>2, FS_Subset
<1>4. /\ n \in Nat
      /\ \A s, z \in passed : Rank(passed, s) < Rank(passed, z) => Ahead(s, z)
      /\ \A i \in 1..n : \E s \in passed : Rank(passed, s) = i - 1
  <2>1. /\ \A s \in passed : s.progress \in Nat /\ s.seq \in Nat
        /\ \A s, z \in passed : s.seq = z.seq => s = z
    BY <1>2
  <2>. HIDE DEF passed
  <2>. QED  BY <1>3, <2>1, RankFacts
<1>5. \A i \in 1..n : nth(i) \in passed /\ Rank(passed, nth(i)) = i - 1
  <2>. HIDE DEF passed
  <2>. QED  BY <1>4 DEF Rank
<1>. HIDE DEF nth, n, walk
<1>6. ASSUME NEW i \in 1..n
      PROVE  /\ walk[i] = Crossing(nth(i), time)
             /\ Sound(walk[i]) /\ walk[i].end = time
             /\ walk[i].progress = nth(i).progress /\ nth(i).progress \in Nat
  <2>1. walk[i] = Crossing(nth(i), time) /\ nth(i) \in Stops[f][trip]
    BY <1>1, <1>5
  <2>2. /\ nth(i).seq \in Nat /\ nth(i).previous \in -1..(nth(i).seq - 1)
        /\ nth(i).progress \in Nat
        /\ nth(i).quality \in {"valid", "reduced", "fallback_required"}
    BY <1>2, <2>1
  <2>3. nth(i).previous \in Nat \cup {-1} /\ nth(i).previous < nth(i).seq
    BY <2>2
  <2>. QED  BY <2>1, <2>2, <2>3 DEF Crossing, Crossings, Sound
<1>7. walk \in Seq(Crossings) /\ Len(walk) = n
  <2>1. walk \in [1..n -> Crossings]
    BY <1>1, <1>6 DEF Sound
  <2>. QED  BY <1>4, <2>1
<1>8. ASSUME NEW i \in 1..n, NEW j \in 1..n, i < j PROVE ~Earlier(walk[j], walk[i])
  <2>1. i - 1 < j - 1
    BY <1>4, <1>8
  <2>2. Ahead(nth(i), nth(j))
    BY <1>4, <1>5, <2>1
  <2>3. nth(i).progress <= nth(j).progress
    BY <1>6, <2>2 DEF Ahead
  <2>4. walk[i].end = walk[j].end /\ time \in Int
    BY <1>6
  <2>. QED  BY <1>6, <2>3, <2>4 DEF Earlier
<1>. QED  BY <1>6, <1>7, <1>8 DEF Chronological, walk

LEMMA WalkTypes ==
  ASSUME NEW walk \in Seq(Crossings), NEW i \in 1..Len(walk)
  PROVE  /\ walk[i] \in Crossings
         /\ walk[i].seq \in Nat /\ walk[i].end \in Nat /\ walk[i].progress \in Nat
<1>1. walk[i] \in Crossings
  OBVIOUS
<1>2. \A c \in Crossings : c.seq \in Nat /\ c.end \in Nat /\ c.progress \in Nat
  BY WindowAssumption DEF Crossings
<1>. QED  BY <1>1, <1>2

(* The first boundary of the highest number among the first n of a walk.   *)
Foremost(walk, n, i) ==
  /\ i \in 1..n
  /\ \A j \in 1..n : walk[j].seq <= walk[i].seq
  /\ \A j \in 1..(i - 1) : walk[j].seq < walk[i].seq

LEMMA ForemostExists ==
  ASSUME NEW walk \in Seq(Crossings), NEW n \in 1..Len(walk)
  PROVE  \E i \in 1..n : Foremost(walk, n, i)
<1>. DEFINE P == {m \in Nat : m + 1 <= Len(walk) => \E i \in 1..(m + 1) : Foremost(walk, m + 1, i)}
<1>1. \A i \in 1..Len(walk) : walk[i].seq \in Nat
  BY WalkTypes
<1>2. Len(walk) \in Nat
  OBVIOUS
<1>3. 0 \in P
  <2>. SUFFICES ASSUME 1 <= Len(walk) PROVE Foremost(walk, 1, 1)
    OBVIOUS
  <2>1. walk[1].seq <= walk[1].seq /\ \A j \in 1..1 : j = 1
    BY <1>1, <1>2
  <2>. QED  BY <2>1 DEF Foremost
<1>4. ASSUME NEW m \in P PROVE m + 1 \in P
  <2>. SUFFICES ASSUME m + 2 <= Len(walk)
                PROVE  \E i \in 1..(m + 2) : Foremost(walk, m + 2, i)
    OBVIOUS
  <2>1. PICK i \in 1..(m + 1) : Foremost(walk, m + 1, i)
    BY <1>2
  <2>2. \A j \in 1..(m + 2) : walk[j].seq \in Nat /\ (j \in 1..(m + 1) \/ j = m + 2)
    BY <1>1, <1>2
  <2>3. CASE walk[m + 2].seq <= walk[i].seq
    BY <2>1, <2>2, <2>3 DEF Foremost
  <2>4. CASE walk[m + 2].seq > walk[i].seq
    <3>1. \A j \in 1..((m + 2) - 1) : j \in 1..(m + 1)
      OBVIOUS
    <3>2. \A j \in 1..(m + 1) : walk[j].seq <= walk[i].seq
      BY <2>1 DEF Foremost
    <3>3. \A j \in 1..(m + 1) : walk[j].seq < walk[m + 2].seq
      <4>. SUFFICES ASSUME NEW j \in 1..(m + 1) PROVE walk[j].seq < walk[m + 2].seq
        OBVIOUS
      <4>1. j \in 1..(m + 2) /\ i \in 1..(m + 2) /\ m + 2 \in 1..(m + 2)
        OBVIOUS
      <4>2. walk[j].seq \in Nat /\ walk[i].seq \in Nat /\ walk[m + 2].seq \in Nat
        BY <2>2, <4>1
      <4>. QED  BY <2>4, <3>2, <4>2
    <3>4. m + 2 \in 1..(m + 2) /\ walk[m + 2].seq \in Nat
      BY <2>2
    <3>. QED  BY <2>2, <3>1, <3>3, <3>4 DEF Foremost
  <2>. QED  BY <2>1, <2>2, <2>3, <2>4
<1>5. P = Nat
  <2>1. P \in SUBSET Nat
    OBVIOUS
  <2>. HIDE DEF P
  <2>. QED  BY <1>3, <1>4, <2>1, Induction
<1>6. n - 1 \in P /\ (n - 1) + 1 = n /\ n <= Len(walk)
  <2>. HIDE DEF P
  <2>1. n - 1 \in Nat /\ (n - 1) + 1 = n /\ n <= Len(walk)
    BY <1>2
  <2>. QED  BY <1>5, <2>1
<1>. QED  BY <1>6

LEMMA OriginFacts ==
  ASSUME NEW walk \in Seq(Crossings), NEW n \in 1..Len(walk)
  PROVE  \E i \in 1..n : Origin(walk, n) = walk[i] /\ Foremost(walk, n, i)
<1>. DEFINE First(c) == /\ c \in {walk[i] : i \in 1..n}
                        /\ \A i \in 1..n : walk[i].seq <= c.seq
                        /\ \E i \in 1..n : walk[i] = c /\ \A j \in 1..(i - 1) : walk[j].seq < c.seq
<1>1. \E c : First(c)
  BY ForemostExists DEF Foremost
<1>2. First(Origin(walk, n))
  BY <1>1 DEF Origin, Furthest
<1>. QED  BY <1>2 DEF Foremost

(* Where a segment ends the origin moves, or it has moved beyond already.  *)
LEMMA OriginAfter ==
  ASSUME NEW walk \in Seq(Crossings), Chronological(walk),
         NEW n \in 2..Len(walk), NEW m \in n..Len(walk),
         walk[n].previous = Origin(walk, n - 1).seq, Sound(walk[n])
  PROVE  /\ walk[n].seq <= Origin(walk, m).seq
         /\ ~Earlier(Origin(walk, m), walk[n])
<1>1. /\ Len(walk) \in Nat /\ n \in Nat /\ m \in Nat /\ n - 1 \in 1..Len(walk)
      /\ m \in 1..Len(walk) /\ n \in 1..m
  OBVIOUS
<1>2. PICK i \in 1..(n - 1) : Origin(walk, n - 1) = walk[i] /\ Foremost(walk, n - 1, i)
  BY <1>1, OriginFacts
<1>3. PICK k \in 1..m : Origin(walk, m) = walk[k] /\ Foremost(walk, m, k)
  BY <1>1, OriginFacts
<1>4. \A j \in 1..Len(walk) : walk[j].seq \in Nat /\ walk[j].end \in Int /\ walk[j].progress \in Nat
  BY WalkTypes
<1>5. walk[n].seq <= walk[k].seq
  BY <1>1, <1>3 DEF Foremost
<1>6. walk[i].seq < walk[n].seq
  BY <1>2 DEF Sound
<1>7. k >= n
  <2>. SUFFICES ASSUME k < n PROVE FALSE
    BY <1>1
  <2>1. k \in 1..(n - 1) /\ k \in 1..Len(walk) /\ i \in 1..Len(walk) /\ n \in 1..Len(walk)
    BY <1>1
  <2>2. walk[k].seq <= walk[i].seq
    BY <1>2, <2>1 DEF Foremost
  <2>. QED  BY <1>4, <1>5, <1>6, <2>1, <2>2
<1>8. ~Earlier(walk[k], walk[n])
  <2>1. k \in 1..Len(walk) /\ n \in 1..Len(walk)
    BY <1>1
  <2>2. CASE k = n
    BY <1>4, <2>1, <2>2 DEF Earlier
  <2>3. CASE n < k
    BY <2>1, <2>3 DEF Chronological
  <2>. QED  BY <1>1, <1>7, <2>2, <2>3
<1>. QED  BY <1>3, <1>5, <1>8

(* The origin is never behind the boundary the walk begins with.           *)
LEMMA OriginFromFirst ==
  ASSUME NEW walk \in Seq(Crossings), Chronological(walk), NEW n \in 1..Len(walk)
  PROVE  /\ walk[1].seq <= Origin(walk, n).seq /\ ~Earlier(Origin(walk, n), walk[1])
         /\ \E i \in 1..n : Origin(walk, n) = walk[i]
<1>1. Len(walk) \in Nat /\ 1 \in 1..n /\ 1 \in 1..Len(walk)
  OBVIOUS
<1>2. PICK i \in 1..n : Origin(walk, n) = walk[i] /\ Foremost(walk, n, i)
  BY OriginFacts
<1>3. walk[1].seq <= walk[i].seq
  BY <1>1, <1>2 DEF Foremost
<1>4. ~Earlier(walk[i], walk[1])
  <2>1. walk[1].end \in Int /\ walk[1].progress \in Nat
    BY <1>1, WalkTypes
  <2>2. CASE i = 1
    BY <2>1, <2>2 DEF Earlier
  <2>3. CASE 1 < i
    <3>1. i \in 1..Len(walk)
      BY <1>1
    <3>. QED  BY <1>1, <2>3, <3>1 DEF Chronological
  <2>. QED  BY <2>2, <2>3
<1>. QED  BY <1>2, <1>3, <1>4

(* The segments completed along a walk follow one another.                 *)
LEMMA SegmentFacts ==
  ASSUME NEW walk \in Seq(Crossings), Chronological(walk),
         \A i \in 1..Len(walk) : Sound(walk[i])
  PROVE  /\ \A c \in CompletedSegments(walk) :
              /\ c.from \in Crossings /\ c.to \in Crossings
              /\ c.confidence \in {"high", "reduced"}
              /\ \E i, j \in 1..Len(walk) : c.from = walk[i] /\ c.to = walk[j]
              /\ walk[1].seq <= c.from.seq /\ ~Earlier(c.from, walk[1])
              /\ c.to.seq <= Origin(walk, Len(walk)).seq
              /\ ~Earlier(Origin(walk, Len(walk)), c.to)
         /\ \A c, d \in CompletedSegments(walk) :
              c # d =>
                \/ c.to.seq <= d.from.seq /\ ~Earlier(d.from, c.to)
                \/ d.to.seq <= c.from.seq /\ ~Earlier(c.from, d.to)
<1>. DEFINE segment(n) == [from |-> Origin(walk, n - 1), to |-> walk[n],
                           confidence |-> Confidence(Origin(walk, n - 1), walk[n])]
            ends == {n \in 2..Len(walk) :
                       /\ walk[n].previous = Origin(walk, n - 1).seq
                       /\ Usable(Origin(walk, n - 1), walk[n])
                       /\ Earlier(Origin(walk, n - 1), walk[n])}
<1>1. CompletedSegments(walk) = {segment(n) : n \in ends}
  BY DEF CompletedSegments
<1>2. \A n \in ends : /\ segment(n).from = Origin(walk, n - 1) /\ segment(n).to = walk[n]
                      /\ segment(n).confidence \in {"high", "reduced"}
  BY DEF Confidence
<1>3. \A n \in ends : /\ n \in 2..Len(walk) /\ n - 1 \in 1..Len(walk) /\ n \in 1..Len(walk)
                      /\ Len(walk) \in n..Len(walk)
                      /\ walk[n].previous = Origin(walk, n - 1).seq /\ Sound(walk[n])
  OBVIOUS
<1>. HIDE DEF segment, ends
<1>4. ASSUME NEW n \in ends
      PROVE  /\ segment(n).from \in Crossings /\ segment(n).to \in Crossings
             /\ segment(n).confidence \in {"high", "reduced"}
             /\ \E i, j \in 1..Len(walk) : segment(n).from = walk[i] /\ segment(n).to = walk[j]
             /\ walk[1].seq <= segment(n).from.seq /\ ~Earlier(segment(n).from, walk[1])
             /\ segment(n).to.seq <= Origin(walk, Len(walk)).seq
             /\ ~Earlier(Origin(walk, Len(walk)), segment(n).to)
  <2>1. PICK i \in 1..(n - 1) : Origin(walk, n - 1) = walk[i]
    BY <1>3, OriginFromFirst
  <2>2. i \in 1..Len(walk) /\ n \in 1..Len(walk)
    BY <1>3
  <2>3. walk[1].seq <= Origin(walk, n - 1).seq /\ ~Earlier(Origin(walk, n - 1), walk[1])
    BY <1>3, OriginFromFirst
  <2>4. /\ walk[n].seq <= Origin(walk, Len(walk)).seq
        /\ ~Earlier(Origin(walk, Len(walk)), walk[n])
    BY <1>3, OriginAfter
  <2>5. walk[i] \in Crossings /\ walk[n] \in Crossings
    BY <2>2
  <2>. QED  BY <1>2, <2>1, <2>2, <2>3, <2>4, <2>5
<1>5. ASSUME NEW n \in ends, NEW m \in ends, n < m
      PROVE  /\ segment(n).to.seq <= segment(m).from.seq
             /\ ~Earlier(segment(m).from, segment(n).to)
  <2>1. n \in 2..Len(walk) /\ m - 1 \in n..Len(walk)
    BY <1>3, <1>5
  <2>2. walk[n].seq <= Origin(walk, m - 1).seq /\ ~Earlier(Origin(walk, m - 1), walk[n])
    BY <1>3, <2>1, OriginAfter
  <2>. QED  BY <1>2, <2>2
<1>6. ASSUME NEW n \in ends, NEW m \in ends, segment(n) # segment(m)
      PROVE  \/ /\ segment(n).to.seq <= segment(m).from.seq
                /\ ~Earlier(segment(m).from, segment(n).to)
             \/ /\ segment(m).to.seq <= segment(n).from.seq
                /\ ~Earlier(segment(n).from, segment(m).to)
  <2>1. n # m
    BY <1>6
  <2>2. n < m \/ m < n
    BY <1>3, <2>1
  <2>. QED  BY <1>5, <2>2
<1>. QED  BY <1>1, <1>4, <1>6, Zenon

(* What is known of the boundaries and segments: they were crossed inside  *)
(* the window, and no segment ends beyond the boundary crossed last.       *)
MeasureTypes ==
  /\ last \in Crossings \cup {Nothing}
  /\ opened \in 0..MaxTime
  /\ slowSince \in 1..MaxTime \cup {Nothing}
  /\ outcome \in {"ok", "constraint_violation"}
  /\ \A c \in completed :
       c.from \in Crossings /\ c.to \in Crossings /\ c.confidence \in {"high", "reduced"}

MeasureInv ==
  /\ MeasureTypes
  /\ window = << >> => last = Nothing
  /\ last # Nothing => Sound(last) /\ opened < last.end /\ last.end <= Latest.time
  /\ \A c \in completed :
       /\ last # Nothing
       /\ opened < c.from.end /\ c.to.end <= Latest.time
       /\ c.to.seq <= last.seq /\ ~Earlier(last, c.to)
  /\ SegmentsInOrder

LEMMA MeasureInit == Init => MeasureInv
  BY WindowAssumption DEF Init, MeasureInv, MeasureTypes, SegmentsInOrder

(* The walk of a cycle whose match crosses boundaries, and what it leaves. *)
LEMMA CrossStep ==
  ASSUME IInv, MeasureInv, NEW s \in Samples, IncomingIsNewer(s.time),
         ~WindowMustReset(s), s.trip # NoTrip, NEW path, Cross(s, path)
  PROVE  \/ UNCHANGED <<window, last, completed, opened, slowSince>>
         \/ /\ Slide(s) /\ opened' = opened /\ Latest' = s
            /\ last' \in Crossings /\ Sound(last') /\ opened < last'.end /\ last'.end <= s.time
            /\ last # Nothing => last.seq <= last'.seq /\ ~Earlier(last', last)
            /\ \E segments :
                 /\ completed' = completed \cup segments
                 /\ \A c \in segments :
                      /\ c.from \in Crossings /\ c.to \in Crossings
                      /\ c.confidence \in {"high", "reduced"}
                      /\ opened < c.from.end /\ c.to.end <= s.time
                      /\ c.to.seq <= last'.seq /\ ~Earlier(last', c.to)
                      /\ last # Nothing => last.seq <= c.from.seq /\ ~Earlier(c.from, last)
                 /\ \A c, d \in segments :
                      c # d =>
                        \/ c.to.seq <= d.from.seq /\ ~Earlier(d.from, c.to)
                        \/ d.to.seq <= c.from.seq /\ ~Earlier(c.from, d.to)
<1>. DEFINE crossings == CrossedBoundaries(feed, s.trip, path, s.time)
            walk == IF last = Nothing THEN crossings ELSE <<last>> \o crossings
            segments == CompletedSegments(walk)
            end == Origin(walk, Len(walk))
<1>1. CASE UNCHANGED <<window, last, completed, opened, slowSince>>
  BY <1>1
<1>2. CASE ~UNCHANGED <<window, last, completed, opened, slowSince>>
  <2>1. /\ crossings # << >> /\ Slide(s) /\ last' = end
        /\ completed' = completed \cup segments
    BY <1>2 DEF Cross
  <2>2. /\ s.time \in 1..MaxTime /\ s.trip \in Trips /\ feed \in 1..Feeds
        /\ MaxTime \in Nat
    BY WindowAssumption DEF IInv, WindowType, Samples
  <2>3. /\ crossings \in Seq(Crossings) /\ Chronological(crossings)
        /\ \A i \in 1..Len(crossings) : Sound(crossings[i]) /\ crossings[i].end = s.time
    BY <2>2, CrossedFacts
  <2>. HIDE DEF crossings
  <2>4. /\ window # << >> /\ opened' = opened /\ opened \in Nat
        /\ Latest.time \in Nat /\ opened <= Latest.time /\ Latest.time < s.time
    <3>1. window # << >>
      BY DEF WindowMustReset
    <3>2. Latest \in Samples
      BY <3>1 DEF IInv, WindowType, Latest
    <3>3. Latest.time \in Nat
      BY <3>2 DEF Samples
    <3>4. opened' = opened
      BY <2>1 DEF Slide
    <3>. QED  BY <3>1, <3>3, <3>4 DEF IncomingIsNewer, IInv, SlowInv, SlowType
  <2>5. Latest' = s
    BY <2>1, WindowStep DEF IInv, Latest
  <2>6. /\ walk \in Seq(Crossings) /\ Len(walk) \in Nat /\ Len(walk) # 0
        /\ Chronological(walk)
        /\ \A i \in 1..Len(walk) : Sound(walk[i]) /\ opened < walk[i].end /\ walk[i].end <= s.time
        /\ last # Nothing => walk[1] = last
    <3>1. CASE last = Nothing
      <4>1. walk = crossings
        BY <3>1
      <4>2. \A i \in 1..Len(crossings) : opened < crossings[i].end /\ crossings[i].end <= s.time
        BY <2>2, <2>3, <2>4
      <4>3. Len(crossings) \in Nat /\ Len(crossings) # 0
        BY <2>1, <2>3
      <4>. QED  BY <2>3, <3>1, <4>1, <4>2, <4>3
    <3>2. CASE last # Nothing
      <4>1. /\ last \in Crossings /\ Sound(last) /\ opened < last.end /\ last.end <= Latest.time
        BY <3>2 DEF MeasureInv, MeasureTypes
      <4>2. last.end \in Nat
        BY <4>1, WindowAssumption DEF Crossings
      <4>3. /\ walk = <<last>> \o crossings /\ walk \in Seq(Crossings)
            /\ Len(crossings) \in Nat /\ Len(walk) = 1 + Len(crossings) /\ walk[1] = last
            /\ \A i \in 1..Len(crossings) : walk[1 + i] = crossings[i]
        BY <2>3, <3>2, <4>1
      <4>. HIDE DEF walk
      <4>4. \A i \in 1..Len(walk) : i = 1 \/ (i - 1 \in 1..Len(crossings) /\ walk[i] = crossings[i - 1])
        <5>. SUFFICES ASSUME NEW i \in 1..Len(walk), i # 1
                      PROVE  i - 1 \in 1..Len(crossings) /\ walk[i] = crossings[i - 1]
          OBVIOUS
        <5>1. i - 1 \in 1..Len(crossings) /\ 1 + (i - 1) = i
          BY <4>3
        <5>. QED  BY <4>3, <5>1
      <4>5. \A i \in 1..Len(walk) : Sound(walk[i]) /\ opened < walk[i].end /\ walk[i].end <= s.time
        <5>. SUFFICES ASSUME NEW i \in 1..Len(walk)
                      PROVE  Sound(walk[i]) /\ opened < walk[i].end /\ walk[i].end <= s.time
          OBVIOUS
        <5>1. CASE i = 1
          BY <2>2, <2>4, <4>1, <4>2, <4>3, <5>1
        <5>2. CASE i - 1 \in 1..Len(crossings) /\ walk[i] = crossings[i - 1]
          BY <2>2, <2>3, <2>4, <5>2
        <5>. QED  BY <4>4, <5>1, <5>2
      <4>6. Chronological(walk)
        <5>. SUFFICES ASSUME NEW i \in 1..Len(walk), NEW j \in 1..Len(walk), i < j
                      PROVE  ~Earlier(walk[j], walk[i])
          BY DEF Chronological
        <5>1. j - 1 \in 1..Len(crossings) /\ walk[j] = crossings[j - 1]
          BY <4>3, <4>4
        <5>2. CASE i = 1
          <6>1. walk[j].end = s.time /\ walk[i].end < s.time /\ walk[i].end \in Nat
            BY <2>2, <2>3, <2>4, <4>1, <4>2, <4>3, <5>1, <5>2
          <6>. QED  BY <2>2, <6>1 DEF Earlier
        <5>3. CASE i - 1 \in 1..Len(crossings) /\ walk[i] = crossings[i - 1]
          <6>1. i - 1 < j - 1
            BY <4>3
          <6>. QED  BY <2>3, <5>1, <5>3, <6>1 DEF Chronological
        <5>. QED  BY <4>4, <5>2, <5>3
      <4>. QED  BY <4>3, <4>5, <4>6
    <3>. QED  BY <3>1, <3>2
  <2>. HIDE DEF walk, segments, end
  <2>7. Len(walk) \in 1..Len(walk) /\ 1 \in 1..Len(walk)
    BY <2>6
  <2>8. PICK k \in 1..Len(walk) : end = walk[k]
    BY <2>6, <2>7, OriginFromFirst DEF end
  <2>9. /\ end \in Crossings /\ Sound(end) /\ opened < end.end /\ end.end <= s.time
        /\ last # Nothing => last.seq <= end.seq /\ ~Earlier(end, last)
    <3>1. end \in Crossings
      BY <2>6, <2>8
    <3>2. walk[1].seq <= end.seq /\ ~Earlier(end, walk[1])
      BY <2>6, <2>7, OriginFromFirst DEF end
    <3>. QED  BY <2>6, <2>8, <3>1, <3>2
  <2>10. /\ \A c \in segments :
              /\ c.from \in Crossings /\ c.to \in Crossings
              /\ c.confidence \in {"high", "reduced"}
              /\ \E i, j \in 1..Len(walk) : c.from = walk[i] /\ c.to = walk[j]
              /\ walk[1].seq <= c.from.seq /\ ~Earlier(c.from, walk[1])
              /\ c.to.seq <= end.seq /\ ~Earlier(end, c.to)
         /\ \A c, d \in segments :
              c # d =>
                \/ c.to.seq <= d.from.seq /\ ~Earlier(d.from, c.to)
                \/ d.to.seq <= c.from.seq /\ ~Earlier(c.from, d.to)
    BY <2>6, SegmentFacts DEF segments, end
  <2>11. \A c \in segments :
           /\ opened < c.from.end /\ c.to.end <= s.time
           /\ last # Nothing => last.seq <= c.from.seq /\ ~Earlier(c.from, last)
    BY <2>6, <2>10
  <2>. QED  BY <2>1, <2>4, <2>5, <2>9, <2>10, <2>11
<1>. QED  BY <1>1, <1>2

(* The columns a cycle writes beside the feed and its outcome. *)
row == <<window, last, completed, opened, slowSince>>

(* What a cycle that gets to its end makes of the row. *)
Resets(s) == WindowMustReset(s) /\ Slide(s) /\ last' = Nothing /\ completed' = {}
Keeps(s) == ~WindowMustReset(s) /\ Slide(s) /\ last' = last /\ completed' = completed
Crosses(s) == ~WindowMustReset(s) /\ s.trip # NoTrip /\ \E path : Cross(s, path)

LEMMA StepMeasures ==
  ASSUME WindowType, outcome \in {"ok", "constraint_violation"}, [Next]_vars
  PROVE  /\ outcome' \in {"ok", "constraint_violation"}
         /\ \/ UNCHANGED row
            \/ \E s \in Samples : IncomingIsNewer(s.time) /\ (Resets(s) \/ Keeps(s) \/ Crosses(s))
<1>1. CASE ReloadIndex
  BY <1>1 DEF ReloadIndex, row
<1>2. ASSUME NEW time \in 1..MaxTime, Cycle(time)
      PROVE  /\ outcome' \in {"ok", "constraint_violation"}
             /\ \E s \in Samples : IncomingIsNewer(s.time) /\ (Resets(s) \/ Keeps(s) \/ Crosses(s))
  <2>1. PICK trip \in Trips \cup {NoTrip}, near \in Nears, slow \in BOOLEAN :
          LET s == Sample(time, trip, near, slow) IN Unresolved(s) \/ Resolved(s)
    BY <1>2 DEF Cycle
  <2>. DEFINE s == Sample(time, trip, near, slow)
  <2>2. s \in Samples /\ s.time = time /\ IncomingIsNewer(time)
    BY <1>2 DEF Sample, Samples, WindowType, Cycle
  <2>. HIDE DEF s
  <2>3. CASE Unresolved(s)
    BY <2>2, <2>3 DEF Unresolved, BoundaryAfter, Resets, Keeps
  <2>4. CASE Resolved(s)
    <3>1. PICK path : Cross(s, path)
      BY <2>4 DEF Resolved
    <3>2. outcome' \in {"ok", "constraint_violation"}
      BY <3>1 DEF Cross
    <3>3. ~WindowMustReset(s) /\ s.trip # NoTrip
      BY <2>4 DEF Resolved
    <3>. QED  BY <2>2, <3>1, <3>2, <3>3 DEF Crosses
  <2>. QED  BY <2>1, <2>3, <2>4 DEF s
<1>3. CASE UNCHANGED vars
  BY <1>3 DEF vars, row
<1>. QED  BY <1>1, <1>2, <1>3 DEF Next

(* A time that is not earlier than one that is not earlier. *)
LEMMA NotEarlier ==
  ASSUME NEW a \in Crossings, NEW b \in Crossings, NEW c \in Crossings,
         ~Earlier(b, a), ~Earlier(c, b)
  PROVE  ~Earlier(c, a)
<1>1. \A x \in Crossings : x.end \in Nat /\ x.progress \in Nat
  BY WindowAssumption DEF Crossings
<1>. QED  BY <1>1 DEF Earlier

(* A slow run starts with a sample of a cycle. *)
LEMMA SlowTyped ==
  ASSUME slowSince \in 1..MaxTime \cup {Nothing}, NEW s \in Samples, Slide(s)
  PROVE  slowSince' \in 1..MaxTime \cup {Nothing}
  BY DEF Slide, LowSpeedSince, Samples

LEMMA MeasureStep ==
  ASSUME IInv, MeasureInv, [Next]_vars
  PROVE  MeasureInv'
<1>. /\ outcome' \in {"ok", "constraint_violation"}
     /\ \/ UNCHANGED row
        \/ \E s \in Samples : IncomingIsNewer(s.time) /\ (Resets(s) \/ Keeps(s) \/ Crosses(s))
  BY StepMeasures DEF IInv, MeasureInv, MeasureTypes
<1>1. CASE UNCHANGED row
  BY <1>1 DEF row, MeasureInv, MeasureTypes, SegmentsInOrder, Latest
<1>2. ASSUME NEW s \in Samples, IncomingIsNewer(s.time), Resets(s) \/ Keeps(s) \/ Crosses(s)
      PROVE  MeasureInv'
  <2>1. s.time \in 1..MaxTime /\ s.time \in Nat /\ MaxTime \in Nat
    BY WindowAssumption DEF Samples
  <2>2. CASE Resets(s)
    BY <2>1, <2>2, <1>2, SlowTyped, WindowStep
       DEF Resets, Slide, MeasureInv, MeasureTypes, SegmentsInOrder, IInv
  <2>3. ASSUME ~WindowMustReset(s) PROVE Latest.time \in Nat /\ Latest.time < s.time
    <3>1. window # << >> /\ Latest \in Samples
      BY <2>3 DEF IInv, WindowType, Latest, WindowMustReset
    <3>. QED  BY <3>1, <1>2 DEF IncomingIsNewer, Samples
  <2>4. CASE Keeps(s)
    <3>1. /\ Slide(s) /\ last' = last /\ completed' = completed /\ opened' = opened
          /\ Latest.time \in Nat /\ Latest.time < s.time
      BY <2>3, <2>4 DEF Keeps, Slide
    <3>2. Latest' = s /\ window' # << >>
      BY <1>2, <3>1, WindowStep DEF IInv, Latest
    <3>3. slowSince' \in 1..MaxTime \cup {Nothing}
      BY <3>1, SlowTyped DEF MeasureInv, MeasureTypes
    <3>4. \A c \in Crossings : c.end \in Nat
      BY <2>1 DEF Crossings
    <3>5. MeasureTypes'
      BY <3>1, <3>3 DEF MeasureInv, MeasureTypes
    <3>6. last' # Nothing => Sound(last') /\ opened' < last'.end /\ last'.end <= Latest'.time
      BY <2>1, <3>1, <3>2, <3>4 DEF MeasureInv, Sound
    <3>7. \A c \in completed' :
            /\ last' # Nothing
            /\ opened' < c.from.end /\ c.to.end <= Latest'.time
            /\ c.to.seq <= last'.seq /\ ~Earlier(last', c.to)
      BY <2>1, <3>1, <3>2, <3>4 DEF MeasureInv, MeasureTypes
    <3>8. SegmentsInOrder'
      BY <3>1 DEF MeasureInv, SegmentsInOrder
    <3>. QED  BY <3>2, <3>5, <3>6, <3>7, <3>8 DEF MeasureInv
  <2>5. CASE Crosses(s)
    <3>1. PICK path : Cross(s, path)
      BY <2>5 DEF Crosses
    <3>2. ~WindowMustReset(s) /\ s.trip # NoTrip
      BY <2>5 DEF Crosses
    <3>3. CASE UNCHANGED row
      BY <3>3 DEF row, MeasureInv, MeasureTypes, SegmentsInOrder, Latest
    <3>4. CASE ~UNCHANGED row
      <4>0. /\ Slide(s) /\ opened' = opened /\ Latest' = s
            /\ last' \in Crossings /\ Sound(last') /\ opened < last'.end /\ last'.end <= s.time
            /\ last # Nothing => last.seq <= last'.seq /\ ~Earlier(last', last)
            /\ \E segments :
                 /\ completed' = completed \cup segments
                 /\ \A c \in segments :
                      /\ c.from \in Crossings /\ c.to \in Crossings
                      /\ c.confidence \in {"high", "reduced"}
                      /\ opened < c.from.end /\ c.to.end <= s.time
                      /\ c.to.seq <= last'.seq /\ ~Earlier(last', c.to)
                      /\ last # Nothing => last.seq <= c.from.seq /\ ~Earlier(c.from, last)
                 /\ \A c, d \in segments :
                      c # d =>
                        \/ c.to.seq <= d.from.seq /\ ~Earlier(d.from, c.to)
                        \/ d.to.seq <= c.from.seq /\ ~Earlier(c.from, d.to)
        BY <1>2, <3>1, <3>2, <3>4, CrossStep DEF row
      <4>1. PICK segments :
              /\ completed' = completed \cup segments
              /\ \A c \in segments :
                   /\ c.from \in Crossings /\ c.to \in Crossings
                   /\ c.confidence \in {"high", "reduced"}
                   /\ opened < c.from.end /\ c.to.end <= s.time
                   /\ c.to.seq <= last'.seq /\ ~Earlier(last', c.to)
                   /\ last # Nothing => last.seq <= c.from.seq /\ ~Earlier(c.from, last)
              /\ \A c, d \in segments :
                   c # d =>
                     \/ c.to.seq <= d.from.seq /\ ~Earlier(d.from, c.to)
                     \/ d.to.seq <= c.from.seq /\ ~Earlier(c.from, d.to)
        BY <4>0
      <4>2. slowSince' \in 1..MaxTime \cup {Nothing}
        BY <4>0, SlowTyped DEF MeasureInv, MeasureTypes
      <4>3. last' # Nothing
        BY <4>0, WindowAssumption
      <4>4. \A c \in Crossings : c.end \in Nat /\ c.seq \in Nat
        BY <2>1 DEF Crossings
      <4>5. ASSUME NEW c \in completed
            PROVE  /\ last # Nothing /\ c.from \in Crossings /\ c.to \in Crossings
                   /\ c.confidence \in {"high", "reduced"} /\ last \in Crossings
                   /\ opened < c.from.end /\ c.to.end <= s.time
                   /\ c.to.seq <= last.seq /\ ~Earlier(last, c.to)
                   /\ c.to.seq <= last'.seq /\ ~Earlier(last', c.to)
        <5>1. /\ last # Nothing /\ c.from \in Crossings /\ c.to \in Crossings
              /\ c.confidence \in {"high", "reduced"} /\ last \in Crossings
              /\ opened < c.from.end /\ c.to.end <= Latest.time
              /\ c.to.seq <= last.seq /\ ~Earlier(last, c.to)
          BY DEF MeasureInv, MeasureTypes
        <5>2. ~Earlier(last', c.to)
          BY <4>0, <5>1, NotEarlier
        <5>3. c.to.seq <= last'.seq /\ c.to.end <= s.time
          BY <2>1, <2>3, <3>2, <4>0, <4>4, <5>1
        <5>. QED  BY <5>1, <5>2, <5>3
      <4>6. MeasureTypes'
        BY <4>0, <4>1, <4>2, <4>5 DEF MeasureInv, MeasureTypes
      <4>7. \A c \in completed' :
              /\ last' # Nothing
              /\ opened' < c.from.end /\ c.to.end <= Latest'.time
              /\ c.to.seq <= last'.seq /\ ~Earlier(last', c.to)
        BY <4>0, <4>1, <4>3, <4>5
      <4>8. ASSUME NEW c \in completed, NEW d \in segments
            PROVE  c.to.seq <= d.from.seq /\ ~Earlier(d.from, c.to)
        <5>1. /\ c.to \in Crossings /\ last \in Crossings /\ d.from \in Crossings
              /\ c.to.seq <= last.seq /\ ~Earlier(last, c.to)
              /\ last.seq <= d.from.seq /\ ~Earlier(d.from, last)
          BY <4>1, <4>5
        <5>. QED  BY <4>4, <5>1, NotEarlier
      <4>9. SegmentsInOrder'
        <5>. SUFFICES ASSUME NEW c \in completed', NEW d \in completed', c # d
                      PROVE  \/ c.to.seq <= d.from.seq /\ ~Earlier(d.from, c.to)
                             \/ d.to.seq <= c.from.seq /\ ~Earlier(c.from, d.to)
          BY DEF SegmentsInOrder, Earlier
        <5>1. (c \in completed \/ c \in segments) /\ (d \in completed \/ d \in segments)
          BY <4>1
        <5>2. CASE c \in completed /\ d \in completed
          BY <5>2 DEF MeasureInv, SegmentsInOrder
        <5>3. CASE c \in completed /\ d \in segments
          BY <4>8, <5>3
        <5>4. CASE c \in segments /\ d \in completed
          BY <4>8, <5>4
        <5>5. CASE c \in segments /\ d \in segments
          BY <4>1, <5>5
        <5>. QED  BY <5>1, <5>2, <5>3, <5>4, <5>5
      <4>10. window' # << >>
        BY <1>2, <4>0, WindowStep DEF IInv
      <4>. QED  BY <4>0, <4>3, <4>6, <4>7, <4>9, <4>10 DEF MeasureInv
    <3>. QED  BY <3>3, <3>4
  <2>. QED  BY <1>2, <2>2, <2>4, <2>5
<1>. QED  BY <1>1, <1>2

(* A cycle that keeps the window keeps the boundary, or moves it forward. *)
LEMMA BoundaryStep ==
  ASSUME IInv, MeasureInv, [Next]_vars, opened' = opened, last # Nothing
  PROVE  last' # Nothing /\ last'.seq >= last.seq /\ ~Earlier(last', last)
<1>. /\ outcome' \in {"ok", "constraint_violation"}
     /\ \/ UNCHANGED row
        \/ \E s \in Samples : IncomingIsNewer(s.time) /\ (Resets(s) \/ Keeps(s) \/ Crosses(s))
  BY StepMeasures DEF IInv, MeasureInv, MeasureTypes
<1>0. /\ last \in Crossings /\ last.seq \in Nat /\ last.end \in Nat /\ last.progress \in Nat
      /\ opened < last.end /\ last.end <= Latest.time /\ window # << >>
      /\ ~Earlier(last, last)
  <2>1. last \in Crossings /\ opened < last.end /\ last.end <= Latest.time /\ window # << >>
    BY DEF MeasureInv, MeasureTypes
  <2>2. last.seq \in Nat /\ last.end \in Nat /\ last.progress \in Nat
    BY <2>1, WindowAssumption DEF Crossings
  <2>. QED  BY <2>1, <2>2 DEF Earlier
<1>1. CASE last' = last
  BY <1>0, <1>1 DEF Earlier
<1>2. ASSUME NEW s \in Samples, IncomingIsNewer(s.time), Resets(s)
      PROVE  FALSE
  <2>1. opened' = s.time /\ Latest.time < s.time
    BY <1>0, <1>2 DEF Resets, Slide, IncomingIsNewer
  <2>2. Latest \in Samples
    BY <1>0 DEF IInv, WindowType, Latest
  <2>3. Latest.time \in Nat /\ s.time \in Nat /\ opened \in Nat
    BY <2>2 DEF Samples, IInv, SlowInv, SlowType
  <2>. QED  BY <1>0, <2>1, <2>3
<1>3. ASSUME NEW s \in Samples, IncomingIsNewer(s.time), Crosses(s), last' # last
      PROVE  last' # Nothing /\ last'.seq >= last.seq /\ ~Earlier(last', last)
  <2>1. PICK path : Cross(s, path)
    BY <1>3 DEF Crosses
  <2>2. ~WindowMustReset(s) /\ s.trip # NoTrip
    BY <1>3 DEF Crosses
  <2>3. ~UNCHANGED <<window, last, completed, opened, slowSince>>
    BY <1>3
  <2>4. last' \in Crossings /\ last.seq <= last'.seq /\ ~Earlier(last', last)
    BY <1>3, <2>1, <2>2, <2>3, CrossStep
  <2>5. last'.seq \in Nat /\ last' # Nothing
    BY <2>4, WindowAssumption DEF Crossings
  <2>. QED  BY <1>0, <2>4, <2>5
<1>. QED  BY <1>1, <1>2, <1>3 DEF row, Keeps

(* For every feed, the columns of a row keep their types, and its window   *)
(* holds no more than the three samples a match compares.                  *)
THEOREM RowTypes == Spec => []TypeOK
<1>1. IInv /\ MeasureInv => TypeOK
  BY DEF IInv, MeasureInv, MeasureTypes, TypeOK
<1>. QED  BY <1>1, IInvInit, IInvStep, MeasureInit, MeasureStep, PTL DEF Spec

(* No segment is measured across a reset of the window, whichever paths    *)
(* the matches resolve to.                                                 *)
THEOREM MeasuredInside == Spec => []SegmentsInsideWindow
<1>1. MeasureInv => SegmentsInsideWindow
  BY DEF MeasureInv, SegmentsInsideWindow
<1>. QED  BY <1>1, IInvInit, IInvStep, MeasureInit, MeasureStep, PTL DEF Spec

(* Segments completed in a window follow one another in time and along the *)
(* trip, although matched positions go back and boundaries are crossed     *)
(* again.                                                                  *)
THEOREM MeasuredInOrder == Spec => []SegmentsInOrder
<1>1. MeasureInv => SegmentsInOrder
  BY DEF MeasureInv
<1>. QED  BY <1>1, IInvInit, IInvStep, MeasureInit, MeasureStep, PTL DEF Spec

(* The boundary crossed last never moves back while its window lasts. *)
THEOREM BoundaryAdvances == Spec => BoundaryNeverRecedes
<1>. DEFINE A == opened' = opened /\ last # Nothing
                   => /\ last' # Nothing
                      /\ last'.seq >= last.seq
                      /\ ~Earlier(last', last)
<1>1. IInv /\ MeasureInv /\ [Next]_vars => [A]_vars
  BY BoundaryStep
<1>. HIDE DEF A
<1>2. Spec => [][A]_vars
  BY <1>1, IInvInit, IInvStep, MeasureInit, MeasureStep, PTL DEF Spec
<1>. QED  BY <1>2 DEF BoundaryNeverRecedes, A
=============================================================================
