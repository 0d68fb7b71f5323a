------------------------ MODULE AdaptiveDepthProofs ------------------------
(* The depth controller, for every choice of its bounds.                    *)
EXTENDS AdaptiveDepth, PipelineControllerProofs

\* The controller stays well formed, its depth between minDepth and maxDepth,
\* and slow start is left no later than at ssthresh.
DepthInv == TypeOK /\ SlowStartBelowThreshold

\* A fresh controller satisfies it.
LEMMA DepthInvInit == Init => DepthInv
  BY ResetType, DepthsBounds DEF Init, DepthInv, TypeOK, SlowStartBelowThreshold, Reset

\* Every success, failure and reset preserves it.
LEMMA DepthInvStep == DepthInv /\ [Next]_ctl => DepthInv'
  <1> SUFFICES ASSUME DepthInv, [Next]_ctl
               PROVE  DepthInv'
    OBVIOUS
  <1> USE DEF DepthInv, TypeOK, SlowStartBelowThreshold
  <1>1. CASE Succeed
    <2>1. ctl' \in Controller
      BY <1>1, RecordSuccessType DEF Succeed
    <2>2. ctl.depth \in Nat /\ ctl.ssthresh \in Nat /\ MaxDepth * Unit \in Nat
      BY DepthsBounds DEF Controller, Depths
    <2>3. ASSUME ctl'.phase = "slowStart"
          PROVE  ctl'.depth < ctl'.ssthresh
      <3>1. ctl.phase = "slowStart" /\ ~(2 * ctl.depth >= ctl.ssthresh)
        BY <1>1, <2>3 DEF Succeed, RecordSuccess, Controller, Phase
      <3>2. /\ ctl'.depth = AtMost(MaxDepth * Unit, 2 * ctl.depth)
            /\ ctl'.ssthresh = ctl.ssthresh
        BY <1>1, <3>1 DEF Succeed, RecordSuccess, Controller
      <3> QED
        BY <2>2, <3>1, <3>2 DEF AtMost
    <2> QED
      BY <2>1, <2>3
  <1>2. CASE Fail
    BY <1>2, RecordFailureType DEF Fail, RecordFailure
  <1>3. CASE Restart
    BY <1>3, ResetType, DepthsBounds DEF Restart, Reset
  <1>4. CASE UNCHANGED ctl
    BY <1>4
  <1> QED
    BY <1>1, <1>2, <1>3, <1>4 DEF Next

\* Type correctness, which bounds the stored depth by minDepth and maxDepth.
THEOREM DepthTypeCorrect == Spec => []TypeOK
  <1>1. DepthInv => TypeOK
    BY DEF DepthInv
  <1> QED
    BY DepthInvInit, DepthInvStep, <1>1, PTL DEF Spec

\* Slow start ends no later than at ssthresh (recordSuccess).
THEOREM DepthSlowStart == Spec => []SlowStartBelowThreshold
  <1>1. DepthInv => SlowStartBelowThreshold
    BY DEF DepthInv
  <1> QED
    BY DepthInvInit, DepthInvStep, <1>1, PTL DEF Spec

\* recordSuccess and recordFailure never lead from steady back to slow start.
THEOREM DepthNeverReentersSlowStart == Spec => NeverReentersSlowStart
  <1>1. DepthInv /\ [Next]_ctl =>
          [ctl.phase = "steady" /\ ctl'.phase = "slowStart" => ctl' = Reset]_ctl
    <2> SUFFICES ASSUME DepthInv, Next,
                        ctl.phase = "steady", ctl'.phase = "slowStart"
                 PROVE  ctl' = Reset
      OBVIOUS
    <2>1. ~Succeed
      BY DEF Succeed, RecordSuccess, DepthInv, TypeOK, Controller
    <2>2. ~Fail
      BY DEF Fail, RecordFailure
    <2> QED
      BY <2>1, <2>2 DEF Next, Restart
  <1> QED
    BY DepthInvInit, DepthInvStep, <1>1, PTL DEF Spec, NeverReentersSlowStart

-----------------------------------------------------------------------------
(* A window of successes.                                                   *)

\* n successes in a row add at most n reciprocals of the depth they started from.
LEMMA RunGrows ==
    ASSUME NEW c \in Controller, c.phase = "steady", NEW n \in Nat, NEW f, Run(f, c, TRUE, n)
    PROVE  /\ f[n] \in Controller
           /\ f[n].depth <= c.depth + n * ((Unit * Unit) \div c.depth)
  <1> DEFINE most == (Unit * Unit) \div c.depth
             Grown(i) == /\ f[i] \in Controller /\ f[i].phase = "steady"
                         /\ c.depth <= f[i].depth /\ f[i].depth <= c.depth + i * most
             S == {i \in Nat : i <= n => Grown(i)}
  <1>1. f = [i \in 0 .. n |-> IF i = 0 THEN c ELSE Record(f[i - 1], TRUE)]
    BY DEF Run
  <1>2. c.depth \in Nat \ {0} /\ most \in Nat
    <2>1. c.depth \in Nat \ {0} /\ Unit * Unit \in Nat
      BY DepthsBounds, DepthAssumption DEF Controller, Depths
    <2> QED
      BY <2>1, DivFacts
  <1>3. 0 \in S
    <2>1. f[0] = c
      BY <1>1
    <2> QED
      BY <1>2, <2>1
  <1>4. ASSUME NEW i \in S PROVE i + 1 \in S
    <2>1. SUFFICES ASSUME i + 1 <= n PROVE Grown(i + 1)
      OBVIOUS
    <2>2. i \in Nat /\ Grown(i)
      BY <2>1
    <2>3. f[i + 1] = RecordSuccess(f[i])
      BY <1>1, <2>1, <2>2 DEF Record
    <2>4. /\ f[i + 1] \in Controller /\ f[i + 1].phase = "steady"
          /\ c.depth <= f[i + 1].depth /\ f[i + 1].depth <= f[i].depth + most
      BY <1>2, <2>2, <2>3, SteadySuccess
    <2>5. f[i].depth \in Nat /\ f[i + 1].depth \in Nat
      BY <2>2, <2>4, DepthsBounds DEF Controller, Depths
    <2>6. (i + 1) * most = i * most + most /\ i * most \in Nat
      BY <1>2, <2>2
    <2>7. f[i + 1].depth <= c.depth + (i + 1) * most
      <3> HIDE DEF most
      <3>1. f[i].depth <= c.depth + i * most
        BY <2>2
      <3> QED
        BY <1>2, <2>2, <2>4, <2>5, <2>6, <3>1
    <2> QED
      BY <2>4, <2>7
  <1>5. S = Nat
    <2> HIDE DEF S
    <2>1. S \in SUBSET Nat
      BY DEF S
    <2> QED
      BY <1>3, <1>4, <2>1, NatSetInduction
  <1>6. Grown(n)
    BY <1>5
  <1> QED
    BY <1>6

\* Additive increase, for every choice of the bounds and of the fixed-point unit.
THEOREM DepthWindowGrowsByOne == Spec => []WindowGrowsByOne
  <1>1. DepthInv => WindowGrowsByOne
    <2> SUFFICES ASSUME ctl \in Controller, ctl.phase = "steady"
                 PROVE  RecordRepeatedly(ctl, TRUE, EffectiveDepth(ctl)).depth <= ctl.depth + Unit
      BY DEF DepthInv, TypeOK, WindowGrowsByOne
    <2> DEFINE n == EffectiveDepth(ctl)
               q == (Unit * Unit) \div ctl.depth
    <2>1. n \in Nat /\ n * Unit <= ctl.depth
      BY EffectiveDepthInRange
    <2> HIDE DEF n
    <2>2. ctl.depth \in Nat \ {0} /\ Unit \in Nat \ {0}
      BY DepthsBounds, DepthAssumption DEF Controller, Depths
    <2>3. PICK f : Run(f, ctl, TRUE, n) /\ RecordRepeatedly(ctl, TRUE, n) = f[n]
      BY <2>1, RepeatedRun
    <2>4. f[n] \in Controller /\ f[n].depth <= ctl.depth + n * q
      BY <2>1, <2>3, RunGrows
    <2>5. n * q <= Unit
      BY <2>1, <2>2, WindowOfReciprocals
    <2>6. f[n].depth \in Int /\ n * q \in Int
      <3>1. Unit * Unit \in Nat
        BY <2>2
      <3>2. q \in Nat
        BY <2>2, <3>1, DivFacts
      <3> QED
        BY <2>1, <2>4, <3>2, DepthsBounds DEF Controller, Depths
    <2> HIDE DEF q
    <2>7. f[n].depth <= ctl.depth + Unit
      BY <2>2, <2>4, <2>5, <2>6
    <2> QED
      BY <2>3, <2>7 DEF n
  <1> QED
    BY DepthInvInit, DepthInvStep, <1>1, PTL DEF Spec

============================================================================
