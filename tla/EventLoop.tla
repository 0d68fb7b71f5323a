------------------------------ MODULE EventLoop ------------------------------
(***************************************************************************)
(* The event loop of Sources/NFSKit/NFSEventLoop.swift: how a call made    *)
(* from a Swift task becomes an RPC of libnfs, waits for a pipeline slot,  *)
(* is answered, times out or is cut short, and resumes its caller.         *)
(*                                                                         *)
(* Every block that touches this state runs on one serial DispatchQueue,   *)
(* so a block (the body of a queue.async, a DispatchSource or timer        *)
(* handler, shutdown's queue.sync) is one action.  Within a block the code *)
(* nests: a libnfs callback completes an operation, which issues pending   *)
(* operations, whose failure resumes further callers.  The part of the     *)
(* state such nesting passes through is the record `loop', and each        *)
(* function of the source that works on it is an operator from that record *)
(* to a record, or to the set of records libnfs's answers allow.           *)
(*                                                                         *)
(* libnfs is external.  It may refuse a request (rc < 0: its callback will *)
(* not run), accept it and run its callback later from nfs_service, run it *)
(* before the call returns (nfs_close_async on a file that is not dirty,   *)
(* nfs_lseek_async), or run it with a cancel status while the context is   *)
(* being destroyed.                                                        *)
(***************************************************************************)
EXTENDS PipelineController, FiniteSets, Sequences

CONSTANTS
    SubmitOps,             \* calls made through submit(): stat ... unmount, open, opendir
    BulkOps,               \* readFile, writeFile, preadFile, preadIntoBuffer, pwriteFile
    HandleOps,             \* closeFile, fsync, fstat, ftruncate, lseek
    MountOps,              \* mount
    ExportOps,             \* getexports
    MaxPendingOperations,  \* maxPendingOperations
    TimeoutEnabled         \* timeout > 0

ASSUME LoopAssumption ==
    /\ IsFiniteSet(SubmitOps \cup BulkOps \cup HandleOps \cup MountOps \cup ExportOps)
    /\ MaxPendingOperations \in Nat
    /\ TimeoutEnabled \in BOOLEAN
    /\ SubmitOps \cap (BulkOps \cup HandleOps \cup MountOps \cup ExportOps) = {}
    /\ BulkOps \cap (HandleOps \cup MountOps \cup ExportOps) = {}
    /\ HandleOps \cap (MountOps \cup ExportOps) = {}
    /\ MountOps \cap ExportOps = {}

NfsOps == SubmitOps \cup BulkOps \cup HandleOps \cup MountOps
Ops == NfsOps \cup ExportOps

\* OperationType.category, for the types each group of calls uses.
Categories == {"bulk", "metadata"}
Category(o) == IF o \in BulkOps THEN "bulk" ELSE "metadata"
InCategory(S, c) == {o \in S : Category(o) = c}

\* What a caller can be told.  "cancelled" is libnfs's cancel status turned
\* into a POSIXError by the callback; "error" any other error of libnfs.
Results == {"ok", "error", "cancelled", "ETIMEDOUT", "ENOTCONN",
            "ENOBUFS", "EBUSY", "EBADF"}

VARIABLES
    context,        \* context != nil
    timeoutTimer,   \* timeoutTimer != nil
    readSource,     \* readSource != nil: socket events reach handleIOEvent
    rpcExports,     \* the getexports call that owns rpcExportsCtx, {} when it is nil
    exportsSource,  \* rpcExportsReadSource != nil
    process,        \* "live", "freed" after deinit, "trapped" by a failed precondition
    loop,           \* the bookkeeping the nested handlers pass through, below
    startedBefore   \* the order of CallbackData.startTime among active calls

vars == <<context, timeoutTimer, readSource, rpcExports, exportsSource,
          process, loop, startedBefore>>

(***************************************************************************)
(* loop.active      the calls in activeContinuations                       *)
(* loop.resumed     the calls whose CallbackData has hasResumed            *)
(* loop.reply       the caller: idle, waiting, or resumed with a result;   *)
(*                  "trap" is a CheckedContinuation resumed twice          *)
(* loop.retained    the calls whose CallbackData is kept by passRetained   *)
(* loop.pending     pendingOperations                                      *)
(* loop.inFlight    _inFlightCount                                         *)
(* loop.controller  bulkController and metadataController                  *)
(* loop.rpc         libnfs's view of the request: none, sent (its callback *)
(*                  is owed), done (its callback ran), dropped (the        *)
(*                  context was destroyed without running it)              *)
(***************************************************************************)
LoopType ==
    [active     : SUBSET Ops,
     resumed    : SUBSET Ops,
     reply      : [Ops -> Results \cup {"idle", "waiting", "trap"}],
     retained   : SUBSET Ops,
     pending    : Seq(SubmitOps),
     inFlight   : [Categories -> Nat],
     controller : [Categories -> Controller],
     rpc        : [Ops -> {"none", "sent", "done", "dropped"}]]

\* f with the value of x replaced.
Override(f, x, v) == [y \in DOMAIN f |-> IF y = x THEN v ELSE f[y]]

Sent(s) == {o \in Ops : s.rpc[o] = "sent"}
Waiting(s) == {o \in Ops : s.reply[o] = "waiting"}

-----------------------------------------------------------------------------
(* CallbackData and the continuations it guards.                            *)

\* continuation.resume of every call in S.
ContinuationResume(s, S, result) ==
    [s EXCEPT !.reply = [o \in Ops |-> IF o \notin S THEN s.reply[o]
                                       ELSE IF s.reply[o] = "waiting" THEN result
                                       ELSE "trap"]]

ResumeUnguarded(s, S, result) ==
    [ContinuationResume(s, S, result) EXCEPT !.resumed = @ \cup S]

\* CallbackData.resume: only the first call per CallbackData gets through.
Resume(s, S, result) ==
    [ContinuationResume(s, S \ s.resumed, result) EXCEPT !.resumed = @ \cup S]

\* The caller enters withCheckedThrowingContinuation.
Call(s, o) == [s EXCEPT !.reply = Override(s.reply, o, "waiting")]

\* A guard at the top of a block resumes the caller without any CallbackData.
Refuse(s, o, result) == ContinuationResume(Call(s, o), {o}, result)

\* A CallbackData is created and entered in activeContinuations.
Register(s, o) == [Call(s, o) EXCEPT !.active = @ \cup {o}]

\* nfs_*_async accepts the request and keeps the retained CallbackData.
Accept(s, o) == [s EXCEPT !.rpc = Override(s.rpc, o, "sent"), !.retained = @ \cup {o}]

-----------------------------------------------------------------------------
(* Pipeline slot management.                                                *)

HasSlot(s, c) == s.inFlight[c] < EffectiveDepth(s.controller[c])

AddInFlight(s, c, n) == [s EXCEPT !.inFlight = Override(s.inFlight, c, s.inFlight[c] + n)]

RecordCompletionUnfloored(s, c, success) ==
    [s EXCEPT !.inFlight = Override(s.inFlight, c, s.inFlight[c] - 1),
              !.controller = Override(s.controller, c, Record(s.controller[c], success))]

RecordCompletionKeepsSlot(s, c, success) ==
    [s EXCEPT !.controller = Override(s.controller, c, Record(s.controller[c], success))]

\* recordCompletion: free a slot, never below zero, and adapt the depth.
RecordCompletion(s, c, success) ==
    [s EXCEPT !.inFlight = Override(s.inFlight, c, AtLeast(0, s.inFlight[c] - 1)),
              !.controller = Override(s.controller, c, Record(s.controller[c], success))]

RecordFailedOncePerScan(s, S) ==
    [s EXCEPT
        !.inFlight = [c \in Categories |->
            AtLeast(0, s.inFlight[c] - Cardinality(InCategory(S, c)))],
        !.controller = [c \in Categories |->
            IF InCategory(S, c) = {} THEN s.controller[c] ELSE RecordFailure(s.controller[c])]]

\* recordCompletion(success: false) once for each call in S.
RecordFailed(s, S) ==
    [s EXCEPT
        !.inFlight = [c \in Categories |->
            AtLeast(0, s.inFlight[c] - Cardinality(InCategory(S, c)))],
        !.controller = [c \in Categories |->
            RecordRepeatedly(s.controller[c], FALSE, Cardinality(InCategory(S, c)))]]

\* The operations at the head of the pending queue.
Taken(p, k) == {p[i] : i \in 1 .. k}

(***************************************************************************)
(* One pass of issuePendingOperations over the queue: how many operations  *)
(* are taken from its head, and which of them libnfs refuses.  An          *)
(* operation is taken when the slots in use, counting the accepted ones of *)
(* this pass, are below the depth; a refused one gives its slot back.  The *)
(* queue only ever holds metadata operations (all submit() callers are),   *)
(* so the scan past a full category to one with room never happens.        *)
(***************************************************************************)
Passes(s) ==
    LET p == s.pending
        used(k, failed) == s.inFlight["metadata"] + Cardinality(Taken(p, k) \ failed)
        depth == EffectiveDepth(s.controller["metadata"])
    IN  {b \in [taken : 0 .. Len(p), failed : SUBSET Taken(p, Len(p))] :
            /\ b.failed \subseteq Taken(p, b.taken)
            /\ \A k \in 0 .. b.taken - 1 : used(k, b.failed) < depth
            /\ b.taken = Len(p) \/ used(b.taken, b.failed) >= depth}

\* What such a pass leaves: accepted operations are with libnfs; for a refused
\* one failureCleanup releases the CallbackData, drops the call and resumes it.
IssuePassForgetsRefused(s, b) ==
    LET issued == Taken(s.pending, b.taken) \ b.failed
    IN  [AddInFlight(s, "metadata", Cardinality(issued)) EXCEPT
            !.pending = SubSeq(s.pending, b.taken + 1, Len(s.pending)),
            !.rpc = [o \in Ops |-> IF o \in issued THEN "sent" ELSE s.rpc[o]],
            !.retained = @ \ b.failed,
            !.active = @ \ b.failed]

IssuePassKeepsQueue(s, b) ==
    LET issued == Taken(s.pending, b.taken) \ b.failed
    IN  Resume([AddInFlight(s, "metadata", Cardinality(issued)) EXCEPT
                    !.rpc = [o \in Ops |-> IF o \in issued THEN "sent" ELSE s.rpc[o]],
                    !.active = @ \ b.failed],
               b.failed, "error")

IssuePass(s, b) ==
    LET issued == Taken(s.pending, b.taken) \ b.failed
    IN  Resume([AddInFlight(s, "metadata", Cardinality(issued)) EXCEPT
                    !.pending = SubSeq(s.pending, b.taken + 1, Len(s.pending)),
                    !.rpc = [o \in Ops |-> IF o \in issued THEN "sent" ELSE s.rpc[o]],
                    !.retained = @ \ b.failed,
                    !.active = @ \ b.failed],
               b.failed, "error")

\* issuePendingOperations; without a context it returns at once.
IssuePendingOperations(s, hasContext) ==
    IF hasContext THEN {IssuePass(s, b) : b \in Passes(s)} ELSE {s}

\* handleCallbackCompletion, the completionHook of every CallbackData.
HandleCallbackCompletion(s, o, success, hasContext) ==
    IssuePendingOperations(
        RecordCompletion([s EXCEPT !.active = @ \ {o}], Category(o), success),
        hasContext)

\* nfsCallback and rpcCallback: take the CallbackData back from libnfs, run the
\* completionHook, then resume the caller.
NfsCallback(s, o, success, result, hasContext) ==
    {Resume(t, {o}, result) :
        t \in HandleCallbackCompletion(
                [s EXCEPT !.rpc = Override(s.rpc, o, "done"), !.retained = @ \ {o}],
                o, success, hasContext)}

\* A callback with the status and data of an answer: the result is ok, or an
\* error (a negative status, or a dataHandler that cannot use the data).
Answer(s, o, hasContext) ==
    NfsCallback(s, o, TRUE, "ok", hasContext)
        \cup NfsCallback(s, o, FALSE, "error", hasContext)

IssueOperationIgnoresRefusal(s, o) ==
    {AddInFlight(Accept(s, o), Category(o), 1),
     Resume([s EXCEPT !.active = @ \ {o}], {o}, "ok")}

IssueOperationUncounted(s, o) ==
    {Accept(s, o), Resume([s EXCEPT !.active = @ \ {o}], {o}, "error")}

\* issueOperation: the slot is taken after libnfs has accepted the request.
IssueOperation(s, o) ==
    {AddInFlight(Accept(s, o), Category(o), 1),
     Resume([s EXCEPT !.active = @ \ {o}], {o}, "error")}

-----------------------------------------------------------------------------
(* Teardown.                                                                *)

\* Destroying a context runs, with a cancel status, the callbacks of the
\* requests in its queues.  A mount or an export query that is still
\* connecting has no request queued and its callback is never run.
Cancelled(s, S, dropped) ==
    Resume(RecordFailed([s EXCEPT
                !.rpc = [o \in Ops |-> IF o \in S THEN "done"
                                       ELSE IF o \in dropped THEN "dropped" ELSE s.rpc[o]],
                !.retained = @ \ S], S),
           S, "cancelled")

\* nfs_destroy_context, after context = nil: the hooks find no context to issue
\* pending operations to.
DestroyContext(s) ==
    LET sent == Sent(s) \cap NfsOps
    IN  {Cancelled(s, sent \ dropped, dropped) : dropped \in SUBSET (sent \cap MountOps)}

\* cleanupRpcExports, for the call e that owns the RPC context: the callback
\* that rpc_destroy_context runs is a full completion, issuing included.
CleanupRpcExports(s, e, hasContext) ==
    IF s.rpc[e] = "sent"
    THEN NfsCallback(s, e, FALSE, "cancelled", hasContext)
            \cup {[s EXCEPT !.rpc = Override(s.rpc, e, "dropped")]}
    ELSE {s}

CleanupExports(s, hasContext) ==
    IF rpcExports = {} THEN {s}
    ELSE UNION {CleanupRpcExports(s, e, hasContext) : e \in rpcExports}

TearDownKeepsPending(s, S) ==
    {Resume(t, S, "ENOTCONN") : t \in DestroyContext([s EXCEPT !.active = {}])}

TearDownForgetsSnapshot(s, S) == DestroyContext([s EXCEPT !.active = {}, !.pending = <<>>])

\* The end shared by performShutdown and shutdownWithError: the registry is
\* snapshotted (S) and cleared, the queue dropped, the context destroyed, and
\* the snapshot resumed afterwards.
TearDown(s, S) ==
    {Resume(t, S, "ENOTCONN") :
        t \in DestroyContext([s EXCEPT !.active = {}, !.pending = <<>>])}

\* performShutdown.
PerformShutdown(s) ==
    {[u EXCEPT !.controller = [c \in Categories |-> Reset],
               !.inFlight = [c \in Categories |-> 0]] :
        u \in UNION {TearDown(t, t.active) : t \in CleanupExports(s, context)}}

-----------------------------------------------------------------------------
(* The blocks that run on the queue.                                        *)

Init ==
    /\ context = TRUE
    /\ timeoutTimer = FALSE
    /\ readSource = FALSE
    /\ rpcExports = {}
    /\ exportsSource = FALSE
    /\ process = "live"
    /\ loop = [active     |-> {},
               resumed    |-> {},
               reply      |-> [o \in Ops |-> "idle"],
               retained   |-> {},
               pending    |-> <<>>,
               inFlight   |-> [c \in Categories |-> 0],
               controller |-> [c \in Categories |-> Reset],
               rpc        |-> [o \in Ops |-> "none"]]
    /\ startedBefore = {}

\* Each member of Ops is one call, made at most once; a call has a fresh ID.
Called(o) == process = "live" /\ loop.reply[o] = "idle"

lifecycle == <<context, timeoutTimer, readSource, rpcExports, exportsSource, process>>

\* startTime is set when the CallbackData is created: a call that has just
\* become active is younger than all the others.
AgeOrder ==
    LET active == loop.active
    IN  startedBefore' = {p \in startedBefore \cup (active \X (loop'.active \ active)) :
                             p[1] \in loop'.active /\ p[2] \in loop'.active}

\* submit() and submitWithStatus().
Submit(o) ==
    /\ Called(o)
    /\ LET s == Register(loop, o)
       IN  \/ /\ ~context
              /\ loop' = Refuse(loop, o, "ENOTCONN")
           \/ /\ context
              /\ HasSlot(loop, "metadata")
              /\ loop' \in IssueOperation(s, o)
           \/ /\ context
              /\ ~HasSlot(loop, "metadata")
              /\ Len(loop.pending) >= MaxPendingOperations
              /\ loop' = ContinuationResume([s EXCEPT !.active = @ \ {o}], {o}, "ENOBUFS")
           \/ /\ context
              /\ ~HasSlot(loop, "metadata")
              /\ Len(loop.pending) < MaxPendingOperations
              /\ loop' = [s EXCEPT !.retained = @ \cup {o}, !.pending = Append(@, o)]
    /\ UNCHANGED lifecycle
    /\ AgeOrder

\* The guards every operation on an open handle starts with: an unknown handle
\* ID, then a closed context.
HandleOpRefused(o) ==
    /\ Called(o)
    /\ \/ loop' = Refuse(loop, o, "EBADF")
       \/ ~context /\ loop' = Refuse(loop, o, "ENOTCONN")
    /\ UNCHANGED lifecycle
    /\ AgeOrder

\* An operation on an open handle goes to libnfs whatever the depth; the slot is
\* counted once libnfs has accepted the request.
HandleOp(o) ==
    /\ Called(o)
    /\ context
    /\ LET s == Register(loop, o)
       IN  \/ loop' = ContinuationResume([s EXCEPT !.active = @ \ {o}], {o}, "error")
           \/ loop' = AddInFlight(Accept(s, o), Category(o), 1)
    /\ UNCHANGED lifecycle
    /\ AgeOrder

\* The same block when libnfs runs the callback before the call returns, as
\* nfs_close_async and nfs_lseek_async do.
HandleOpAnsweredInline(o) ==
    /\ Called(o)
    /\ context
    /\ loop' \in {AddInFlight(t, Category(o), 1) :
                     t \in Answer(Accept(Register(loop, o), o), o, TRUE)}
    /\ UNCHANGED lifecycle
    /\ AgeOrder

\* mount: no slot is counted.  hasFd is whether nfs_get_fd knows a socket yet.
Mount(o) ==
    /\ Called(o)
    /\ \/ /\ ~context
          /\ loop' = Refuse(loop, o, "ENOTCONN")
          /\ UNCHANGED <<timeoutTimer, readSource>>
       \/ /\ context
          /\ loop' = Refuse(loop, o, "error")
          /\ UNCHANGED <<timeoutTimer, readSource>>
       \/ /\ context
          /\ loop' = Accept(Register(loop, o), o)
          /\ \E hasFd \in BOOLEAN : readSource' = (readSource \/ hasFd)
          /\ timeoutTimer' = (timeoutTimer \/ TimeoutEnabled)
    /\ UNCHANGED <<context, rpcExports, exportsSource, process>>
    /\ AgeOrder

GetExportsUnguarded(o) ==
    /\ Called(o)
    /\ context
    /\ loop' = Accept(Register(loop, o), o)
    /\ rpcExports' = {o}
    /\ exportsSource' \in BOOLEAN
    /\ timeoutTimer' = (timeoutTimer \/ TimeoutEnabled)
    /\ UNCHANGED <<context, readSource, process>>
    /\ AgeOrder

\* getexports: one query at a time, on an RPC context of its own.
GetExports(o) ==
    /\ Called(o)
    /\ \/ /\ \/ ~context /\ loop' = Refuse(loop, o, "ENOTCONN")
             \/ context /\ rpcExports # {} /\ loop' = Refuse(loop, o, "EBUSY")
             \/ context /\ rpcExports = {} /\ loop' = Refuse(loop, o, "error")
          /\ UNCHANGED <<timeoutTimer, rpcExports, exportsSource>>
       \/ /\ context
          /\ rpcExports = {}
          /\ loop' = Accept(Register(loop, o), o)
          /\ rpcExports' = {o}
          /\ exportsSource' \in BOOLEAN
          /\ timeoutTimer' = (timeoutTimer \/ TimeoutEnabled)
    /\ UNCHANGED <<context, readSource, process>>
    /\ AgeOrder

\* handleIOEvent: nfs_service delivers the answer of o.
HandleIOEvent(o) ==
    /\ process = "live"
    /\ context /\ readSource
    /\ o \in Sent(loop)
    /\ loop' \in UNION {IssuePendingOperations(t, TRUE) : t \in Answer(loop, o, TRUE)}
    /\ UNCHANGED lifecycle
    /\ AgeOrder

\* handleIOEvent: nfs_service has nothing to deliver; pending operations are
\* still issued.
HandleIOEventIdle ==
    /\ process = "live"
    /\ context /\ readSource
    /\ loop' \in IssuePendingOperations(loop, TRUE)
    /\ UNCHANGED lifecycle
    /\ AgeOrder

\* handleIOEvent: nfs_service fails, and shutdownWithError follows.
ShutdownWithError ==
    /\ process = "live"
    /\ context /\ readSource
    /\ loop' \in TearDown(loop, loop.active)
    /\ context' = FALSE
    /\ readSource' = FALSE
    /\ timeoutTimer' = FALSE
    /\ UNCHANGED <<rpcExports, exportsSource, process>>
    /\ AgeOrder

\* handleRpcExportsEvent: the callback runs and the RPC context is cleaned up,
\* or rpc_service fails and it is cleaned up without an answer.
HandleRpcExportsEvent(e) ==
    /\ process = "live"
    /\ e \in rpcExports
    /\ exportsSource
    /\ \/ e \in Sent(loop) /\ loop' \in Answer(loop, e, context)
       \/ loop' \in CleanupRpcExports(loop, e, context)
    /\ rpcExports' = {}
    /\ exportsSource' = FALSE
    /\ UNCHANGED <<context, timeoutTimer, readSource, process>>
    /\ AgeOrder

ScanKeepsExports(T) ==
    /\ process = "live"
    /\ timeoutTimer
    /\ T # {}
    /\ T \subseteq loop.active
    /\ \A p \in startedBefore : p[2] \in T => p[1] \in T
    /\ loop' = Resume(RecordFailed([loop EXCEPT !.active = @ \ T], T), T, "ETIMEDOUT")
    /\ rpcExports' = rpcExports
    /\ UNCHANGED <<context, timeoutTimer, readSource, exportsSource, process>>
    /\ AgeOrder

ScanReleasesCallbackData(T) ==
    /\ process = "live"
    /\ timeoutTimer
    /\ T # {}
    /\ T \subseteq loop.active
    /\ \A p \in startedBefore : p[2] \in T => p[1] \in T
    /\ loop' = Resume(RecordFailed([loop EXCEPT !.active = @ \ T, !.retained = @ \ T], T),
                      T, "ETIMEDOUT")
    /\ UNCHANGED lifecycle
    /\ AgeOrder

\* scanForTimeouts, when the calls older than the deadline are T; the export
\* query's RPC context is cleaned up when its call is no longer active.
ScanForTimeouts(T) ==
    /\ process = "live"
    /\ timeoutTimer
    /\ T # {}
    /\ T \subseteq loop.active
    /\ \A p \in startedBefore : p[2] \in T => p[1] \in T
    /\ LET s == Resume(RecordFailed([loop EXCEPT !.active = @ \ T], T), T, "ETIMEDOUT")
       IN  IF rpcExports \subseteq s.active
           THEN loop' = s /\ UNCHANGED <<rpcExports, exportsSource>>
           ELSE /\ loop' \in CleanupExports(s, context)
                /\ rpcExports' = {}
                /\ exportsSource' = FALSE
    /\ UNCHANGED <<context, timeoutTimer, readSource, process>>
    /\ AgeOrder

\* shutdown().
Shutdown ==
    /\ process = "live"
    /\ context \/ loop.active # {}
    /\ loop' \in PerformShutdown(loop)
    /\ context' = FALSE
    /\ timeoutTimer' = FALSE
    /\ readSource' = FALSE
    /\ rpcExports' = {}
    /\ exportsSource' = FALSE
    /\ UNCHANGED process
    /\ AgeOrder

DeinitWhileWaiting(onQueue) ==
    /\ process = "live"
    /\ IF context \/ loop.active # {}
       THEN loop' \in PerformShutdown(loop)
       ELSE loop' = loop
    /\ process' = IF ~onQueue /\ \E o \in Sent(loop) : loop'.rpc[o] = "done"
                  THEN "trapped" ELSE "freed"
    /\ context' = FALSE
    /\ timeoutTimer' = FALSE
    /\ readSource' = FALSE
    /\ UNCHANGED <<rpcExports, exportsSource>>
    /\ AgeOrder

\* deinit: no call is waiting (a waiting call keeps the loop alive), and the
\* thread that drops the last reference runs performShutdown, on the queue or
\* not.  A callback that nfs_destroy_context runs off the queue fails the
\* dispatchPrecondition in CallbackData.resume.
Deinit(onQueue) ==
    /\ process = "live"
    /\ Waiting(loop) = {}
    /\ IF context \/ loop.active # {}
       THEN loop' \in PerformShutdown(loop)
       ELSE loop' = loop
    /\ process' = IF ~onQueue /\ \E o \in Sent(loop) : loop'.rpc[o] = "done"
                  THEN "trapped" ELSE "freed"
    /\ context' = FALSE
    /\ timeoutTimer' = FALSE
    /\ readSource' = FALSE
    /\ UNCHANGED <<rpcExports, exportsSource>>
    /\ AgeOrder

Next ==
    \/ \E o \in SubmitOps : Submit(o)
    \/ \E o \in BulkOps \cup HandleOps : HandleOpRefused(o)
    \/ \E o \in BulkOps \cup HandleOps : HandleOp(o)
    \/ \E o \in HandleOps : HandleOpAnsweredInline(o)
    \/ \E o \in MountOps : Mount(o)
    \/ \E o \in ExportOps : GetExports(o)
    \/ \E o \in NfsOps : HandleIOEvent(o)
    \/ HandleIOEventIdle
    \/ ShutdownWithError
    \/ \E e \in ExportOps : HandleRpcExportsEvent(e)
    \/ \E T \in SUBSET loop.active : ScanForTimeouts(T)
    \/ Shutdown
    \/ \E onQueue \in BOOLEAN : Deinit(onQueue)

Spec == Init /\ [][Next]_vars

\* The repeating timer keeps firing while it exists: as long as calls are
\* active, a scan comes that finds the oldest of them overdue.  This is weak
\* fairness of \E T : ScanForTimeouts(T), written out: the action is enabled
\* when Scannable holds, and its steps are the ones that time a call out.
Scannable == process = "live" /\ timeoutTimer /\ loop.active # {}
TimesOut == \E o \in Ops : loop.reply[o] # "ETIMEDOUT" /\ loop'.reply[o] = "ETIMEDOUT"
TimedSpec == Spec /\ ([]<>~Scannable \/ []<><<TimesOut>>_vars)

\* The server answers every request and the socket events that carry the
\* answers reach the loop.
ResponsiveSpec == Spec /\ \A o \in NfsOps : WF_vars(HandleIOEvent(o))

-----------------------------------------------------------------------------
(* Properties.                                                              *)

PendingSet(s) == Taken(s.pending, Len(s.pending))

\* Type correctness; the in-flight counts never go below zero and the pending
\* queue never exceeds its capacity.
TypeOK ==
    /\ context \in BOOLEAN
    /\ timeoutTimer \in BOOLEAN
    /\ readSource \in BOOLEAN
    /\ exportsSource \in BOOLEAN
    /\ rpcExports \in SUBSET ExportOps
    /\ process \in {"live", "freed", "trapped"}
    /\ startedBefore \in SUBSET (Ops \X Ops)
    /\ loop \in LoopType
    /\ Len(loop.pending) <= MaxPendingOperations

\* activeContinuations holds exactly the calls whose caller is suspended: no
\* path (refusal, full queue, timeout, callback, late callback, shutdown)
\* forgets a caller or leaves an entry behind for one that was resumed.
WaitingIsActive == loop.active = Waiting(loop)

\* The CallbackData that libnfs or a pending operation points to by a raw
\* pointer is alive until the callback or failureCleanup has used it, even when
\* the call has timed out meanwhile.
CallbackDataAlive == Sent(loop) \cup PendingSet(loop) \subseteq loop.retained

\* The queue holds distinct operations that libnfs has never seen.
PendingUnsent ==
    /\ \A i, j \in 1 .. Len(loop.pending) :
          i # j => loop.pending[i] # loop.pending[j]
    /\ \A o \in PendingSet(loop) : loop.rpc[o] = "none"

\* Once the context is gone nothing waits, nothing is queued, and libnfs owes no
\* callback on it.
ClosedIsQuiet ==
    ~context => /\ loop.active = {}
                /\ loop.pending = <<>>
                /\ Sent(loop) \cap NfsOps = {}

\* At most one export query is with libnfs, and rpcExportsCtx is its context.
ExportsExclusive ==
    /\ Sent(loop) \cap ExportOps \subseteq rpcExports
    /\ \A d, e \in rpcExports : d = e

\* getexports is turned away with EBUSY only on behalf of a query that is with
\* libnfs and whose caller waits for it: the RPC context is given up as soon as
\* the query is over, however it ends.
ExportsReleased == context => rpcExports \subseteq Sent(loop) \cap Waiting(loop)

\* A caller told "ok" had its request answered; a caller turned away with
\* ENOBUFS, EBUSY or EBADF never reached libnfs, now or later.
DefiniteOutcomes ==
    \A o \in Ops :
        /\ loop.reply[o] = "ok" => loop.rpc[o] = "done"
        /\ loop.reply[o] \in {"ENOBUFS", "EBUSY", "EBADF"} =>
              loop.rpc[o] = "none" /\ o \notin PendingSet(loop)

\* No request is handed to libnfs a second time, and none returns from the dead.
NeverSentTwice ==
    [][\A o \in Ops : loop.rpc[o] \in {"done", "dropped"} => loop'.rpc[o] = loop.rpc[o]]_vars

\* The requests that hold a pipeline slot: mount and getexports take none.
Slotted(s, c) == InCategory(Sent(s) \cap (SubmitOps \cup BulkOps \cup HandleOps), c)

\* A callback that runs inline makes the loop count one request too many, but
\* the error does not accumulate: the in-flight count exceeds the requests with
\* libnfs by at most one, and for bulk operations, never inline, not at all.
OvercountAtMostOne ==
    context =>
        /\ loop.inFlight["metadata"] <= Cardinality(Slotted(loop, "metadata")) + 1
        /\ loop.inFlight["bulk"] <= Cardinality(Slotted(loop, "bulk"))

\* The calls of category c whose completion gave back a slot that libnfs still
\* holds or that was never taken: one that timed out, and a mount or export query
\* that was answered.
Overpaid(s, c) == {o \in InCategory(Ops, c) : s.reply[o] = "ETIMEDOUT"}
Unslotted(s, c) == {o \in InCategory(MountOps \cup ExportOps, c) : s.rpc[o] = "done"}

\* The loop counts too few requests only for those: each of them lets one request
\* more than the depth into the pipeline, and no other path loses count.
UndercountExplained ==
    context =>
        \A c \in Categories :
            Cardinality(Slotted(loop, c)) <=
                loop.inFlight[c] + Cardinality(Overpaid(loop, c))
                                 + Cardinality(Unslotted(loop, c))

\* Until a call times out, an operation is only kept waiting in the queue while
\* the pipeline is full but for the one slot an inline callback may have cost.
WorkConserving ==
    /\ context
    /\ loop.pending # <<>>
    /\ \A o \in Ops : loop.reply[o] # "ETIMEDOUT"
    => Cardinality(Slotted(loop, "metadata")) + 1
          >= EffectiveDepth(loop.controller["metadata"])

\* A request still with libnfs whose call has returned without its answer: the
\* call timed out, or is an export query that shutdownWithError cut short.
Overdue(o) == loop.rpc[o] = "sent" /\ loop.reply[o] # "waiting"

\* The completions of category c that one block records: the requests whose
\* callback runs in it, and the calls it times out.
Answered(c) == {o \in InCategory(Ops, c) : loop.rpc[o] # "done" /\ loop'.rpc[o] = "done"}
TimedOut(c) ==
    {o \in InCategory(Ops, c) : loop.reply[o] # "ETIMEDOUT" /\ loop'.reply[o] = "ETIMEDOUT"}

\* What a block does to a depth: one record for each of these, with the outcome
\* the caller is told, or the reset that ends a shutdown.
RecordsCounted ==
    \A c \in Categories :
        \/ ~context' /\ loop'.controller[c] = Reset
        \/ \E success \in BOOLEAN :
              /\ loop'.controller[c] =
                    RecordRepeatedly(loop.controller[c], success,
                                     Cardinality(Answered(c)) + Cardinality(TimedOut(c)))
              /\ TimedOut(c) # {} => ~success
              /\ \A o \in Answered(c) : ~Overdue(o) => (success <=> loop'.reply[o] = "ok")

\* The depth of a pipeline moves once for each callback of its category and once
\* for each of its calls that times out, and for nothing else: not for a refusal,
\* a full queue or a call of the other category.  A call that times out and is
\* answered later is counted by both, so it halves the depth and then moves it
\* again.
OneRecordPerEvent == [][RecordsCounted]_vars

\* "all `resume` calls execute on `NFSEventLoop.queue`": a deinit on another
\* thread can break this only for the request of a call that timed out, as all
\* others keep the loop alive.
ResumesOnQueue == process = "trapped" => \E o \in Ops : loop.reply[o] = "ETIMEDOUT"

\* Each call is resumed once with one result, whatever races it.
Promise == INSTANCE Completion WITH reply <- loop.reply
CompletesOnce == Promise!Spec

\* Once the timeout timer runs, every waiting call returns: it is answered, or
\* timed out, or cut short by a shutdown.
TimedCallsReturn ==
    \A o \in Ops :
        timeoutTimer /\ loop.reply[o] = "waiting" ~> loop.reply[o] # "waiting"

-----------------------------------------------------------------------------
(* The inductive invariant.  It is stated on the record, so that it can be   *)
(* carried through the handlers that nest within one block: between taking a *)
(* call out of the registry and resuming it the call is detached.            *)

Idle(s) == {o \in Ops : s.reply[o] = "idle"}
Detached(s) == Waiting(s) \ s.active

\* What the reply to a call says about its request: a request on the context or
\* in the queue belongs to a call that waits or has timed out, so that no other
\* result can be overtaken by a later answer.
Told(s, o) ==
    /\ s.reply[o] = "ok" => s.rpc[o] = "done"
    /\ s.reply[o] \in {"ENOBUFS", "EBUSY", "EBADF"} => s.rpc[o] = "none"
    /\ s.reply[o] \notin {"waiting", "ETIMEDOUT"} =>
          o \notin (Sent(s) \cap NfsOps) \cup PendingSet(s)

\* A CallbackData guards a continuation exactly while its caller waits; whoever
\* still points to a CallbackData finds it alive, and finds that it guards a
\* waiting caller or has been resumed.
Consistent(s) ==
    /\ s.active \subseteq Waiting(s)
    /\ Waiting(s) \cap s.resumed = {}
    /\ Idle(s) \cap s.resumed = {}
    /\ Sent(s) \cup PendingSet(s) \subseteq Waiting(s) \cup s.resumed
    /\ Sent(s) \cup PendingSet(s) \subseteq s.retained
    /\ \A i, j \in 1 .. Len(s.pending) : i # j => s.pending[i] # s.pending[j]
    /\ \A o \in PendingSet(s) \cup Idle(s) : s.rpc[o] = "none"
    /\ \A o \in Ops : s.reply[o] # "trap"
    /\ \A o \in Ops : Told(s, o)

\* The in-flight counts run ahead of the requests with libnfs by at most n for
\* metadata and not at all for bulk operations.
Counted(s, n) ==
    /\ s.inFlight["metadata"] <= Cardinality(Slotted(s, "metadata")) + n
    /\ s.inFlight["bulk"] <= Cardinality(Slotted(s, "bulk"))

\* Until a call times out, the queue holds an operation only while the counted
\* slots are all in use.
QueuedWhenFull ==
    /\ context
    /\ loop.pending # <<>>
    /\ \A o \in Ops : loop.reply[o] # "ETIMEDOUT"
    => ~HasSlot(loop, "metadata")

Inv ==
    /\ TypeOK
    /\ Consistent(loop)
    /\ Detached(loop) = {}
    /\ ClosedIsQuiet
    /\ ExportsExclusive

\* The second layer, inductive together with Inv: what the counts, the queue and
\* the export query are like while the context is open.
OpenInv ==
    /\ ExportsReleased
    /\ context => Counted(loop, 1)
    /\ QueuedWhenFull
    /\ ResumesOnQueue

-----------------------------------------------------------------------------
(* What the documentation says and the code does not do.                    *)

\* "After each operation completes, issuePendingOperations() drains the queue":
\* with a server that answers everything, every call returns.
CallsReturn ==
    \A o \in SubmitOps :
        readSource /\ loop.reply[o] = "waiting" ~> loop.reply[o] # "waiting"
=============================================================================
