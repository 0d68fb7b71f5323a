---------------------- MODULE PipelineControllerProofs ----------------------
(* What the operations of a pipeline controller return, for every choice of *)
(* the bounds and of the fixed-point unit.                                   *)
EXTENDS PipelineController, WellFoundedInduction, TLAPS

\* Scaling by the unit keeps the order of the bounds.
LEMMA ScaledBounds ==
    ASSUME NEW a \in Nat, NEW b \in Nat, NEW u \in Nat
    PROVE  /\ a * u \in Nat
           /\ a <= b => a * u <= b * u
           /\ a < b /\ u > 0 => a * u < b * u
           /\ a > 0 /\ u > 0 => a * u > 0
  OBVIOUS

\* The bounds on the stored depth are positive numbers in order.
LEMMA DepthsBounds ==
    /\ MinDepth * Unit \in Nat \ {0}
    /\ MaxDepth * Unit \in Nat
    /\ MinDepth * Unit <= MaxDepth * Unit
    /\ DefaultDepth * Unit \in Depths
    /\ DefaultSsthresh * Unit \in Nat
    /\ DefaultDepth * Unit < DefaultSsthresh * Unit
  <1>1. /\ MinDepth \in Nat /\ MaxDepth \in Nat /\ Unit \in Nat
        /\ DefaultDepth \in Nat /\ DefaultSsthresh \in Nat
        /\ MinDepth > 0 /\ Unit > 0
        /\ MinDepth <= MaxDepth
        /\ MinDepth <= DefaultDepth /\ DefaultDepth <= MaxDepth
        /\ DefaultDepth < DefaultSsthresh
    BY DepthAssumption
  <1>2. /\ MinDepth * Unit \in Nat /\ MinDepth * Unit > 0
        /\ MaxDepth * Unit \in Nat /\ MinDepth * Unit <= MaxDepth * Unit
    BY <1>1, ScaledBounds
  <1>3. /\ DefaultDepth * Unit \in Nat /\ DefaultSsthresh * Unit \in Nat
        /\ MinDepth * Unit <= DefaultDepth * Unit
        /\ DefaultDepth * Unit <= MaxDepth * Unit
        /\ DefaultDepth * Unit < DefaultSsthresh * Unit
    BY <1>1, ScaledBounds
  <1> QED
    BY <1>2, <1>3 DEF Depths

\* A fresh controller is well formed.
LEMMA ResetType == Reset \in Controller
  BY DepthsBounds DEF Reset, Controller, Phase

\* One success keeps the depth within its bounds, in both phases.
LEMMA RecordSuccessType ==
    ASSUME NEW c \in Controller
    PROVE  RecordSuccess(c) \in Controller
  <1> DEFINE lo == MinDepth * Unit
             hi == MaxDepth * Unit
             gain == (Unit * Unit) \div c.depth
  <1>1. lo \in Nat \ {0} /\ hi \in Nat /\ lo <= hi
    BY DepthsBounds
  <1>2. c.depth \in lo .. hi /\ c.ssthresh \in Nat /\ c.phase \in Phase
    BY DEF Controller, Depths
  <1>3. gain \in Nat
    <2>1. Unit * Unit \in Nat
      BY DepthAssumption
    <2> QED
      BY <1>1, <1>2, <2>1
  <1>4. AtMost(hi, 2 * c.depth) \in lo .. hi
    BY <1>1, <1>2 DEF AtMost
  <1>5. AtMost(hi, c.depth + gain) \in lo .. hi
    BY <1>1, <1>2, <1>3 DEF AtMost
  <1> QED
    BY <1>2, <1>4, <1>5 DEF RecordSuccess, Controller, Depths, Phase

\* One failure halves the depth, within its bounds.
LEMMA RecordFailureType ==
    ASSUME NEW c \in Controller
    PROVE  RecordFailure(c) \in Controller
  <1> DEFINE lo == MinDepth * Unit
             hi == MaxDepth * Unit
  <1>1. lo \in Nat \ {0} /\ hi \in Nat /\ lo <= hi
    BY DepthsBounds
  <1>2. c.depth \in lo .. hi
    BY DEF Controller, Depths
  <1>3. AtLeast(lo, c.depth \div 2) \in lo .. hi
    BY <1>1, <1>2 DEF AtLeast
  <1> QED
    BY <1>1, <1>3 DEF RecordFailure, Controller, Depths, Phase

\* The pipeline has at least minDepth slots, hence one, and at most maxDepth.
LEMMA EffectiveDepthType ==
    ASSUME NEW c \in Controller
    PROVE  EffectiveDepth(c) \in Nat /\ EffectiveDepth(c) \in MinDepth .. MaxDepth
  <1>1. MinDepth \in Nat /\ MaxDepth \in Nat /\ MinDepth <= MaxDepth
    BY DepthAssumption
  <1>2. c.depth \div Unit \in Int
    <2>1. c.depth \in Int /\ Unit \in Nat \ {0}
      BY DepthsBounds, DepthAssumption DEF Controller, Depths
    <2> QED
      BY <2>1
  <1> DEFINE d == c.depth \div Unit
  <1> HIDE DEF d
  <1>3. AtLeast(MinDepth, AtMost(MaxDepth, d)) \in MinDepth .. MaxDepth
    BY <1>1, <1>2 DEF AtLeast, AtMost, d
  <1> QED
    BY <1>1, <1>3 DEF EffectiveDepth, d

\* One completion, whatever its outcome.
LEMMA RecordType ==
    ASSUME NEW c \in Controller, NEW success
    PROVE  Record(c, success) \in Controller
  BY RecordSuccessType, RecordFailureType DEF Record

-----------------------------------------------------------------------------
(* The arithmetic of the quotients.                                         *)

\* What the quotients of recordSuccess and effectiveDepth come to.
LEMMA DivFacts ==
    ASSUME NEW a \in Nat, NEW b \in Nat \ {0}
    PROVE  a \div b \in Nat /\ b * (a \div b) <= a /\ a < b * (a \div b) + b
  OBVIOUS

\* A larger divisor gives no larger a quotient.
LEMMA DivShrinks ==
    ASSUME NEW a \in Nat, NEW b \in Nat \ {0}, NEW d \in Nat \ {0}, b <= d
    PROVE  a \div d <= a \div b
  OBVIOUS

-----------------------------------------------------------------------------
(* Additive increase: what one success of the steady phase adds.            *)

\* In range, effectiveDepth is the whole slots of the depth: the clamp is idle.
LEMMA EffectiveDepthInRange ==
    ASSUME NEW c \in Controller
    PROVE  EffectiveDepth(c) \in Nat /\ EffectiveDepth(c) * Unit <= c.depth
  <1> DEFINE q == c.depth \div Unit
  <1>1. /\ Unit \in Nat \ {0} /\ MinDepth \in Nat /\ MaxDepth \in Nat /\ MinDepth <= MaxDepth
    BY DepthAssumption
  <1>2. c.depth \in Nat /\ MinDepth * Unit <= c.depth /\ c.depth <= MaxDepth * Unit
    BY DepthsBounds DEF Controller, Depths
  <1>3. q \in Nat /\ Unit * q <= c.depth /\ c.depth < Unit * q + Unit
    BY <1>1, <1>2, DivFacts
  <1>4. EffectiveDepth(c) = AtLeast(MinDepth, AtMost(MaxDepth, q))
    BY DEF EffectiveDepth
  <1> HIDE DEF q
  <1>5. q >= MinDepth
    <2>1. SUFFICES ASSUME q + 1 <= MinDepth PROVE FALSE
      BY <1>1, <1>3
    <2>2. (q + 1) * Unit <= MinDepth * Unit
      BY <1>1, <1>3, <2>1, ScaledBounds
    <2>3. (q + 1) * Unit = Unit * q + Unit
      BY <1>1, <1>3
    <2> QED
      BY <1>1, <1>2, <1>3, <2>2, <2>3, DepthsBounds
  <1>6. q <= MaxDepth
    <2>1. SUFFICES ASSUME MaxDepth < q PROVE FALSE
      BY <1>1, <1>3
    <2>2. MaxDepth * Unit < q * Unit
      BY <1>1, <1>3, <2>1, ScaledBounds
    <2>3. q * Unit = Unit * q
      BY <1>1, <1>3
    <2> QED
      BY <1>1, <1>2, <1>3, <2>2, <2>3, DepthsBounds
  <1>7. EffectiveDepth(c) = q
    BY <1>1, <1>3, <1>4, <1>5, <1>6 DEF AtLeast, AtMost
  <1> QED
    BY <1>1, <1>3, <1>7

\* One success in the steady phase adds at most a reciprocal of the depth.
LEMMA SteadySuccess ==
    ASSUME NEW c \in Controller, c.phase = "steady", NEW d \in Nat \ {0}, d <= c.depth
    PROVE  /\ RecordSuccess(c) \in Controller
           /\ RecordSuccess(c).phase = "steady"
           /\ d <= RecordSuccess(c).depth
           /\ RecordSuccess(c).depth <= c.depth + (Unit * Unit) \div d
  <1>1. /\ c.depth \in Nat \ {0} /\ Unit * Unit \in Nat /\ MaxDepth * Unit \in Nat
        /\ c.depth <= MaxDepth * Unit
    BY DepthsBounds, DepthAssumption DEF Controller, Depths
  <1> DEFINE gain == (Unit * Unit) \div c.depth
             most == (Unit * Unit) \div d
  <1>2. gain \in Nat /\ most \in Nat /\ gain <= most
    BY <1>1, DivFacts, DivShrinks
  <1>3. /\ RecordSuccess(c).depth = AtMost(MaxDepth * Unit, c.depth + gain)
        /\ RecordSuccess(c).phase = "steady"
    BY DEF RecordSuccess, Controller
  <1>4. RecordSuccess(c) \in Controller
    BY RecordSuccessType
  <1> HIDE DEF gain, most
  <1>5. d <= RecordSuccess(c).depth /\ RecordSuccess(c).depth <= c.depth + most
    BY <1>1, <1>2, <1>3 DEF AtMost
  <1> QED
    BY <1>3, <1>4, <1>5 DEF most

\* As many reciprocals of the depth as it has whole slots make at most one slot.
LEMMA WindowOfReciprocals ==
    ASSUME NEW u \in Nat \ {0}, NEW d \in Nat \ {0}, NEW n \in Nat, n * u <= d
    PROVE  n * ((u * u) \div d) <= u
  <1> DEFINE q == (u * u) \div d
  <1>1. u * u \in Nat
    OBVIOUS
  <1>2. q \in Nat /\ d * q <= u * u
    BY <1>1, DivFacts
  <1> HIDE DEF q
  <1>3. n * u \in Nat /\ n * q \in Nat /\ d * q \in Nat
    BY <1>2
  <1>4. (n * u) * q <= d * q
    BY <1>2, <1>3, ScaledBounds
  <1>5. (n * u) * q = (n * q) * u
    BY <1>2
  <1>6. (n * q) * u <= u * u
    BY <1>1, <1>2, <1>3, <1>4, <1>5
  <1>7. SUFFICES ASSUME u < n * q PROVE FALSE
    BY <1>3 DEF q
  <1>8. u * u < (n * q) * u
    BY <1>3, <1>7, ScaledBounds
  <1> QED
    BY <1>1, <1>3, <1>6, <1>8

-----------------------------------------------------------------------------
(* Several completions in a row.                                            *)

\* Induction over the natural numbers, for a set of them.
LEMMA NatSetInduction ==
    ASSUME NEW S \in SUBSET Nat, 0 \in S, \A n \in S : n + 1 \in S
    PROVE  S = Nat
  <1> DEFINE R == OpToRel(<, Nat)
             T == Nat \ S
  <1>1. IsWellFoundedOn(R, Nat)
    BY NatLessThanWellFounded
  <1>2. \A m, n \in Nat : m < n => <<m, n>> \in R
    BY DEF OpToRel
  <1> HIDE DEF R
  <1>3. SUFFICES ASSUME T # {} PROVE FALSE
    OBVIOUS
  <1>4. PICK x \in T : \A y \in T : <<y, x>> \notin R
    BY <1>1, <1>3, WFMin
  <1>5. x \in Nat /\ x # 0 /\ x - 1 \in Nat /\ x - 1 < x
    BY <1>4
  <1>6. x - 1 \in S
    BY <1>2, <1>4, <1>5
  <1> QED
    BY <1>4, <1>5, <1>6

\* f is what n completions with one outcome, from c on, lead through.
Run(f, c, success, n) == f = [i \in 0 .. n |-> IF i = 0 THEN c ELSE Record(f[i - 1], success)]

\* Such a sequence exists, for every number of completions.
LEMMA RunExists ==
    ASSUME NEW c, NEW success, NEW n \in Nat
    PROVE  \E f : Run(f, c, success, n)
  <1> DEFINE S == {m \in Nat : \E f : Run(f, c, success, m)}
  <1>1. 0 \in S
    <2> DEFINE f == [i \in 0 .. 0 |-> c]
    <2>1. f = [i \in 0 .. 0 |-> IF i = 0 THEN c ELSE Record(f[i - 1], success)]
      OBVIOUS
    <2> QED
      BY <2>1 DEF Run
  <1>2. ASSUME NEW m \in S PROVE m + 1 \in S
    <2>1. m \in Nat /\ m + 1 \in Nat
      OBVIOUS
    <2>2. PICK f : Run(f, c, success, m)
      OBVIOUS
    <2> DEFINE g == [i \in 0 .. m + 1 |-> IF i = m + 1 THEN Record(f[m], success) ELSE f[i]]
    <2>3. f = [i \in 0 .. m |-> IF i = 0 THEN c ELSE Record(f[i - 1], success)]
      BY <2>2 DEF Run
    <2>4. ASSUME NEW i \in 0 .. m + 1
          PROVE  g[i] = IF i = 0 THEN c ELSE Record(g[i - 1], success)
      <3>1. CASE i = 0
        BY <2>1, <2>3, <3>1
      <3>2. CASE i # 0 /\ i # m + 1
        <4>1. i \in 0 .. m /\ i - 1 \in 0 .. m /\ i - 1 \in 0 .. m + 1 /\ i - 1 # m + 1
          BY <2>1, <3>2
        <4>2. f[i] = Record(f[i - 1], success)
          BY <2>3, <3>2, <4>1
        <4>3. g[i] = f[i] /\ g[i - 1] = f[i - 1]
          BY <3>2, <4>1
        <4> QED
          BY <3>2, <4>2, <4>3
      <3>3. CASE i = m + 1
        <4>1. g[m] = f[m] /\ g[i] = Record(f[m], success) /\ i - 1 = m /\ i # 0
          BY <2>1, <3>3
        <4> QED
          BY <4>1
      <3> QED
        BY <3>1, <3>2, <3>3
    <2>5. g = [i \in 0 .. m + 1 |-> IF i = 0 THEN c ELSE Record(g[i - 1], success)]
      BY <2>4
    <2> QED
      BY <2>1, <2>5 DEF Run
  <1>3. S = Nat
    <2> HIDE DEF S
    <2>1. S \in SUBSET Nat
      BY DEF S
    <2> QED
      BY <1>1, <1>2, <2>1, NatSetInduction
  <1> QED
    BY <1>3

\* RecordRepeatedly ends such a sequence.
LEMMA RepeatedRun ==
    ASSUME NEW c, NEW success, NEW n \in Nat
    PROVE  \E f : Run(f, c, success, n) /\ RecordRepeatedly(c, success, n) = f[n]
  <1> DEFINE g == CHOOSE f : f = [i \in 0 .. n |-> IF i = 0 THEN c ELSE Record(f[i - 1], success)]
  <1>1. g = [i \in 0 .. n |-> IF i = 0 THEN c ELSE Record(g[i - 1], success)]
    BY RunExists DEF Run
  <1>2. RecordRepeatedly(c, success, n) = g[n]
    BY DEF RecordRepeatedly
  <1> HIDE DEF g
  <1> QED
    BY <1>1, <1>2 DEF Run

\* No completion changes nothing, and one is one call of record.
LEMMA RepeatedUnrolls ==
    ASSUME NEW c, NEW success
    PROVE  /\ RecordRepeatedly(c, success, 0) = c
           /\ RecordRepeatedly(c, success, 1) = Record(c, success)
  <1>1. RecordRepeatedly(c, success, 0) = c
    <2>1. PICK f : Run(f, c, success, 0) /\ RecordRepeatedly(c, success, 0) = f[0]
      BY RepeatedRun
    <2> QED
      BY <2>1 DEF Run
  <1>2. RecordRepeatedly(c, success, 1) = Record(c, success)
    <2>1. PICK f : Run(f, c, success, 1) /\ RecordRepeatedly(c, success, 1) = f[1]
      BY RepeatedRun
    <2>2. f = [i \in 0 .. 1 |-> IF i = 0 THEN c ELSE Record(f[i - 1], success)]
      BY <2>1 DEF Run
    <2>3. f[0] = c /\ f[1] = Record(f[0], success)
      BY <2>2
    <2> QED
      BY <2>1, <2>3
  <1> QED
    BY <1>1, <1>2

\* Any number of completions keeps the controller well formed.
LEMMA RepeatedType ==
    ASSUME NEW c \in Controller, NEW success, NEW n \in Nat
    PROVE  RecordRepeatedly(c, success, n) \in Controller
  <1>1. PICK f : Run(f, c, success, n) /\ RecordRepeatedly(c, success, n) = f[n]
    BY RepeatedRun
  <1> DEFINE S == {i \in Nat : i <= n => f[i] \in Controller}
  <1>2. f = [i \in 0 .. n |-> IF i = 0 THEN c ELSE Record(f[i - 1], success)]
    BY <1>1 DEF Run
  <1>3. 0 \in S
    BY <1>2
  <1>4. ASSUME NEW i \in S PROVE i + 1 \in S
    <2>1. SUFFICES ASSUME i + 1 <= n PROVE f[i + 1] \in Controller
      OBVIOUS
    <2>2. i \in Nat /\ f[i] \in Controller /\ f[i + 1] = Record(f[i], success)
      BY <1>2, <2>1
    <2> QED
      BY <2>2, RecordType
  <1>5. S = Nat
    <2> HIDE DEF S
    <2>1. S \in SUBSET Nat
      BY DEF S
    <2> QED
      BY <1>3, <1>4, <2>1, NatSetInduction
  <1> QED
    BY <1>1, <1>5

\* Each further completion is one call of record more.
LEMMA RepeatedOnceMore ==
    ASSUME NEW c, NEW success, NEW n \in Nat
    PROVE  RecordRepeatedly(c, success, n + 1) = Record(RecordRepeatedly(c, success, n), success)
  <1>1. PICK f : Run(f, c, success, n) /\ RecordRepeatedly(c, success, n) = f[n]
    BY RepeatedRun
  <1>2. n + 1 \in Nat
    OBVIOUS
  <1>3. PICK g : Run(g, c, success, n + 1) /\ RecordRepeatedly(c, success, n + 1) = g[n + 1]
    BY <1>2, RepeatedRun
  <1>4. f = [i \in 0 .. n |-> IF i = 0 THEN c ELSE Record(f[i - 1], success)]
    BY <1>1 DEF Run
  <1>5. g = [i \in 0 .. n + 1 |-> IF i = 0 THEN c ELSE Record(g[i - 1], success)]
    BY <1>3 DEF Run
  <1> DEFINE S == {i \in Nat : i <= n => f[i] = g[i]}
  <1>6. 0 \in S
    BY <1>4, <1>5
  <1>7. ASSUME NEW i \in S PROVE i + 1 \in S
    <2>1. SUFFICES ASSUME i + 1 <= n PROVE f[i + 1] = g[i + 1]
      OBVIOUS
    <2>2. i \in Nat /\ f[i] = g[i]
      BY <2>1
    <2>3. f[i + 1] = Record(f[i], success)
      BY <1>4, <2>1, <2>2
    <2>4. g[i + 1] = Record(g[i], success)
      BY <1>5, <2>1, <2>2
    <2> QED
      BY <2>2, <2>3, <2>4
  <1>8. S = Nat
    <2> HIDE DEF S
    <2>1. S \in SUBSET Nat
      BY DEF S
    <2> QED
      BY <1>6, <1>7, <2>1, NatSetInduction
  <1>9. f[n] = g[n]
    BY <1>8
  <1>10. g[n + 1] = Record(g[n], success)
    BY <1>5
  <1> QED
    BY <1>1, <1>3, <1>9, <1>10

\* Completions may be recorded in two batches.
LEMMA RepeatedInTwo ==
    ASSUME NEW c, NEW success, NEW m \in Nat, NEW n \in Nat
    PROVE  RecordRepeatedly(RecordRepeatedly(c, success, m), success, n)
               = RecordRepeatedly(c, success, m + n)
  <1> DEFINE d == RecordRepeatedly(c, success, m)
             S == {i \in Nat : RecordRepeatedly(d, success, i)
                                   = RecordRepeatedly(c, success, m + i)}
  <1> HIDE DEF d
  <1>1. 0 \in S
    BY RepeatedUnrolls DEF d
  <1>2. ASSUME NEW i \in S PROVE i + 1 \in S
    <2>1. i \in Nat /\ m + i \in Nat /\ m + (i + 1) = (m + i) + 1
      OBVIOUS
    <2>2. RecordRepeatedly(d, success, i) = RecordRepeatedly(c, success, m + i)
      OBVIOUS
    <2>3. RecordRepeatedly(d, success, i + 1) = Record(RecordRepeatedly(d, success, i), success)
      BY <2>1, RepeatedOnceMore
    <2>4. RecordRepeatedly(c, success, (m + i) + 1)
              = Record(RecordRepeatedly(c, success, m + i), success)
      BY <2>1, RepeatedOnceMore
    <2> QED
      BY <2>1, <2>2, <2>3, <2>4
  <1>3. S = Nat
    <2> HIDE DEF S
    <2>1. S \in SUBSET Nat
      BY DEF S
    <2> QED
      BY <1>1, <1>2, <2>1, NatSetInduction
  <1> QED
    BY <1>3 DEF d
=============================================================================
