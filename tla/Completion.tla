----------------------------- MODULE Completion -----------------------------
(***************************************************************************)
(* What the event loop promises to its callers, without any of its         *)
(* machinery: a call is made, may have to wait, and returns one result,    *)
(* once and for good.  One block of the queue starts at most one call but  *)
(* may return many (a shutdown, a scan for timeouts, a completion that     *)
(* issues pending operations which libnfs refuses).                        *)
(***************************************************************************)
CONSTANTS Ops, Results

VARIABLE reply   \* per call: "idle", "waiting", or its result

Init == reply = [o \in Ops |-> "idle"]

Starting == {o \in Ops : reply[o] = "idle" /\ reply'[o] # "idle"}
Returning == {o \in Ops : reply[o] # reply'[o] /\ reply'[o] # "waiting"}

Next ==
    /\ reply' \in [Ops -> Results \cup {"idle", "waiting"}]
    /\ \A o, p \in Starting : o = p
    /\ \A o \in Returning : reply[o] \in {"idle", "waiting"} /\ reply'[o] \in Results
    /\ \A o \in Ops : reply'[o] = "waiting" => reply[o] \in {"idle", "waiting"}

Spec == Init /\ [][Next]_reply
=============================================================================
