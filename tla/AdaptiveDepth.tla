---------------------------- MODULE AdaptiveDepth ----------------------------
(***************************************************************************)
(* One pipeline controller driven by any sequence of completions and       *)
(* resets: what the event loop may do to it over the life of a connection. *)
(***************************************************************************)
EXTENDS PipelineController

VARIABLE ctl   \* bulkController or metadataController

Init == ctl = Reset

Succeed == ctl' = RecordSuccess(ctl)
Fail    == ctl' = RecordFailure(ctl)
Restart == ctl' = Reset

Next == Succeed \/ Fail \/ Restart

\* A pipeline that keeps being used keeps completing operations.
Spec == Init /\ [][Next]_ctl /\ WF_ctl(Succeed)

-----------------------------------------------------------------------------
\* Type correctness.  It includes that the fractional depth, and not only
\* effectiveDepth, stays within [minDepth, maxDepth]: a depth that drifted
\* outside would take many completions to come back.
TypeOK == ctl \in Controller

\* Slow start is left no later than at ssthresh.
SlowStartBelowThreshold == ctl.phase = "slowStart" => ctl.depth < ctl.ssthresh

\* "never re-enter slow start after failure": only a reset leads from steady
\* back to slow start.
NeverReentersSlowStart ==
    [][ctl.phase = "steady" /\ ctl'.phase = "slowStart" => ctl' = Reset]_ctl

\* Additive increase: in the steady phase a full window of successes (as many
\* as the pipeline is deep) never widens the pipeline by more than one slot.
WindowGrowsByOne ==
    ctl.phase = "steady" =>
        RecordRepeatedly(ctl, TRUE, EffectiveDepth(ctl)).depth <= ctl.depth + Unit

\* Once failures and resets cease, the pipeline opens up to maxDepth and stays
\* there, however often the depth was halved before.
Recovers ==
    <>[][Succeed]_ctl => <>[](EffectiveDepth(ctl) = MaxDepth)
=============================================================================
