---------------------------- MODULE MCEventLoop ----------------------------
(* The event loop on small sets of calls.                                  *)
EXTENDS EventLoop, TLC

\* Calls of one kind are interchangeable.
Symmetry == Permutations(SubmitOps) \cup Permutations(HandleOps)
=============================================================================
