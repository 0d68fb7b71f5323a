------------------------- MODULE PipelineController -------------------------
(***************************************************************************)
(* The AIMD depth controller of Sources/NFSKit/PipelineController.swift.   *)
(* The Swift struct is a value type with three mutable fields; here it is  *)
(* a record and every mutating method is an operator from record to        *)
(* record, so that the event loop can keep one controller per category.    *)
(*                                                                         *)
(* The code keeps depth and ssthresh as Double.  The model keeps them in   *)
(* fixed point, as a number of parts of size 1/Unit: halving and the       *)
(* reciprocal are rounded down to a part where the code rounds to 53 bits. *)
(***************************************************************************)
EXTENDS Integers

CONSTANTS
    Unit,             \* parts per whole pipeline slot
    MinDepth,         \* minDepth: floor of the effective depth
    MaxDepth,         \* maxDepth: ceiling of the effective depth
    DefaultDepth,     \* defaultDepth
    DefaultSsthresh   \* defaultSsthresh

ASSUME DepthAssumption ==
    /\ Unit \in Nat \ {0}
    /\ MinDepth \in Nat \ {0}
    /\ MaxDepth \in Nat /\ MinDepth <= MaxDepth
    /\ DefaultDepth \in MinDepth .. MaxDepth
    /\ DefaultSsthresh \in Nat /\ DefaultDepth < DefaultSsthresh

Phase == {"slowStart", "steady"}

\* The stored depth itself, not only effectiveDepth, lies in [minDepth, maxDepth].
Depths == MinDepth * Unit .. MaxDepth * Unit
Controller == [depth : Depths, ssthresh : Nat, phase : Phase]

\* reset(), and the default arguments of init: the values of a fresh connection.
Reset == [depth    |-> DefaultDepth * Unit,
          ssthresh |-> DefaultSsthresh * Unit,
          phase    |-> "slowStart"]

AtLeast(floor, x) == IF x < floor THEN floor ELSE x
AtMost(ceiling, x) == IF x > ceiling THEN ceiling ELSE x

\* effectiveDepth: Int(depth) truncates, then the clamp to [minDepth, maxDepth].
EffectiveDepth(c) == AtLeast(MinDepth, AtMost(MaxDepth, c.depth \div Unit))

-----------------------------------------------------------------------------
(* recordSuccess and recordFailure.  Before each definition stand the slips *)
(* of the code (a missing clamp, a missing transition...) that the runs are *)
(* known to notice; nothing uses them otherwise.                            *)

RecordSuccessNoReciprocal(c) ==
    IF c.phase = "slowStart"
    THEN [c EXCEPT !.depth = AtMost(MaxDepth * Unit, 2 * @), !.phase = "steady"]
    ELSE [c EXCEPT !.depth = AtMost(MaxDepth * Unit, @ + Unit)]

RecordSuccessUnclamped(c) ==
    IF c.phase = "slowStart"
    THEN [c EXCEPT !.depth = 2 * @,
                   !.phase = IF 2 * c.depth >= c.ssthresh THEN "steady" ELSE @]
    ELSE [c EXCEPT !.depth = AtMost(2 * MaxDepth * Unit, @ + (Unit * Unit) \div @)]

RecordSuccessNoIncrease(c) ==
    IF c.phase = "slowStart"
    THEN [c EXCEPT !.depth = AtMost(MaxDepth * Unit, 2 * @),
                   !.phase = IF 2 * c.depth >= c.ssthresh THEN "steady" ELSE @]
    ELSE c

RecordSuccess(c) ==
    IF c.phase = "slowStart"
    THEN [c EXCEPT !.depth = AtMost(MaxDepth * Unit, 2 * @),
                   !.phase = IF 2 * c.depth >= c.ssthresh THEN "steady" ELSE @]
    ELSE [c EXCEPT !.depth = AtMost(MaxDepth * Unit, @ + (Unit * Unit) \div @)]

RecordFailure(c) ==
    LET half == AtLeast(MinDepth * Unit, c.depth \div 2)
    IN  [depth |-> half, ssthresh |-> half, phase |-> "steady"]

\* One completion reported to the controller.
Record(c, success) == IF success THEN RecordSuccess(c) ELSE RecordFailure(c)

\* k completions with the same outcome reported one after the other.
RecordRepeatedly(c, success, k) ==
    LET after[i \in 0 .. k] == IF i = 0 THEN c ELSE Record(after[i - 1], success)
    IN  after[k]
=============================================================================
