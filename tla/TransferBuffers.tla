--------------------------- MODULE TransferBuffers ---------------------------
(***************************************************************************)
(* Who owns the memory of a bulk transfer, and until when.  libnfs reads   *)
(* from and writes to the buffer it was given by raw pointer until the     *)
(* request's callback runs, but the call that gave it may be over long     *)
(* before: it timed out.                                                   *)
(*                                                                         *)
(* A read (readFile, preadFile) and a write (writeFile, pwriteFile)        *)
(* allocate a buffer of their own, freed by dataHandler, by the cleanup    *)
(* closure or on refusal.  The chunks of                                   *)
(* NFSClient.contentsUsingPreallocatedBuffer (preadIntoBuffer) share one   *)
(* ReadBuffer, freed by its deinit unless it was handed to Data.           *)
(*                                                                         *)
(* Pipeline slots, timers and sockets are the matter of EventLoop; here    *)
(* the loop is reduced to what reaches a buffer: a request is refused,     *)
(* answered, cancelled by teardown, and its caller may be timed out first. *)
(***************************************************************************)
CONSTANTS
    Reads,      \* readFile and preadFile calls
    Writes,     \* writeFile and pwriteFile calls
    Chunks,     \* the preadIntoBuffer calls of one contents(atPath:)
    Timeouts    \* timeout > 0

ASSUME BuffersAssumption ==
    /\ Reads \cap Writes = {}
    /\ (Reads \cup Writes) \cap Chunks = {}
    /\ Timeouts \in BOOLEAN

Owners == Reads \cup Writes
Ops == Owners \cup Chunks

VARIABLES
    context,    \* context != nil
    caller,     \* per call: idle, waiting, or how it returned
    request,    \* per call: none, sent (libnfs holds the buffer), over
    buffer,     \* readBuf or writeBuf of each read and write
    readBuffer, \* the ReadBuffer of contents(atPath:)
    filled,     \* per chunk: how much of its slice libnfs has written
    contents,   \* contentsUsingPreallocatedBuffer
    tasks       \* the chunks its task group was given

vars == <<context, caller, request, buffer, readBuffer, filled, contents, tasks>>

\* "data": owned by a Data value that will deallocate it.  "corrupt": freed
\* twice, handed over after it was freed, or written to after it was freed.
Memory == {"none", "allocated", "data", "freed", "corrupt"}

Deallocate(m) == IF m \in {"allocated", "data"} THEN "freed" ELSE "corrupt"
HandToData(m) == IF m = "allocated" THEN "data" ELSE "corrupt"
WriteInto(m)  == IF m \in {"allocated", "data"} THEN m ELSE "corrupt"

\* The status a callback reports: all bytes asked for, some, none (EOF), < 0.
Statuses == {"full", "partial", "zero", "error"}

\* f with the value of x replaced.
Override(f, x, v) == [y \in DOMAIN f |-> IF y = x THEN v ELSE f[y]]

-----------------------------------------------------------------------------
(* The callback of a read or a write.                                       *)

\* dataHandler, for a status >= 0: a read hands its buffer to Data, or frees it
\* at EOF; a write only reports the count.
DataHandler(o, status, m) ==
    IF o \in Writes THEN m
    ELSE IF status = "zero" THEN Deallocate(m) ELSE HandToData(m)

\* The Data goes to the caller; a call that was resumed before drops it.
Deliver(m, stillWaiting) == IF m = "data" /\ ~stillWaiting THEN Deallocate(m) ELSE m

NfsCallbackCleansUpAlways(o, status, m, stillWaiting) ==
    IF status = "error" THEN Deallocate(m)
    ELSE Deallocate(Deliver(DataHandler(o, status, m), stillWaiting))

NfsCallbackNoCleanup(o, status, m, stillWaiting) ==
    IF status = "error" THEN m
    ELSE Deliver(DataHandler(o, status, m), stillWaiting)

\* nfsCallback: cleanup runs on the error path only.
NfsCallback(o, status, m, stillWaiting) ==
    IF status = "error" THEN Deallocate(m)
    ELSE Deliver(DataHandler(o, status, m), stillWaiting)

\* What resume tells the caller; a second resume is ignored.
Result(o, status) ==
    IF caller[o] # "waiting" THEN caller[o]
    ELSE IF status = "error" THEN "failed" ELSE "ok"

-----------------------------------------------------------------------------
(* Actions.                                                                 *)

Init ==
    /\ context = TRUE
    /\ caller = [o \in Ops |-> "idle"]
    /\ request = [o \in Ops |-> "none"]
    /\ buffer = [o \in Owners |-> "none"]
    /\ readBuffer = "none"
    /\ filled = [c \in Chunks |-> "zero"]
    /\ contents = "idle"
    /\ tasks = {}

sharedVars == <<readBuffer, filled, contents, tasks>>

\* readFile, preadFile, writeFile, pwriteFile: an unknown handle or a closed
\* context is turned away before anything is allocated; a request libnfs
\* refuses frees its buffer; an accepted one leaves it with libnfs.
Transfer(o) ==
    /\ caller[o] = "idle"
    /\ \/ /\ caller' = Override(caller, o, "failed")
          /\ UNCHANGED <<request, buffer>>
       \/ /\ context
          /\ caller' = Override(caller, o, "failed")
          /\ buffer' = Override(buffer, o, Deallocate("allocated"))
          /\ UNCHANGED request
       \/ /\ context
          /\ caller' = Override(caller, o, "waiting")
          /\ buffer' = Override(buffer, o, "allocated")
          /\ request' = Override(request, o, "sent")
    /\ UNCHANGED context
    /\ UNCHANGED sharedVars

\* The callback of a read or a write, in time or late.
Answer(o, status) ==
    /\ context
    /\ request[o] = "sent"
    /\ request' = Override(request, o, "over")
    /\ buffer' = Override(buffer, o, NfsCallback(o, status, buffer[o], caller[o] = "waiting"))
    /\ caller' = Override(caller, o, Result(o, status))
    /\ UNCHANGED context
    /\ UNCHANGED sharedVars

\* The caller of a read lets go of the Data it was given.
DropData(o) ==
    /\ caller[o] = "ok"
    /\ buffer[o] = "data"
    /\ buffer' = Override(buffer, o, Deallocate(buffer[o]))
    /\ UNCHANGED <<context, caller, request>>
    /\ UNCHANGED sharedVars

ScanForTimeoutsFrees(o) ==
    /\ Timeouts
    /\ caller[o] = "waiting"
    /\ caller' = Override(caller, o, "failed")
    /\ buffer' = IF o \in Owners THEN Override(buffer, o, Deallocate(buffer[o])) ELSE buffer
    /\ UNCHANGED <<context, request>>
    /\ UNCHANGED sharedVars

\* scanForTimeouts: the caller is resumed, the request stays with libnfs.
ScanForTimeouts(o) ==
    /\ Timeouts
    /\ caller[o] = "waiting"
    /\ caller' = Override(caller, o, "failed")
    /\ UNCHANGED <<context, request, buffer>>
    /\ UNCHANGED sharedVars

\* performShutdown and shutdownWithError: nfs_destroy_context runs the callback
\* of every request with a cancel status, then the callers are resumed.
TearDown ==
    /\ context
    /\ context' = FALSE
    /\ request' = [o \in Ops |-> IF request[o] = "sent" THEN "over" ELSE request[o]]
    /\ buffer' = [o \in Owners |->
                    IF request[o] = "sent"
                    THEN NfsCallback(o, "error", buffer[o], caller[o] = "waiting")
                    ELSE buffer[o]]
    /\ caller' = [o \in Ops |-> IF caller[o] = "waiting" THEN "failed" ELSE caller[o]]
    /\ UNCHANGED sharedVars

-----------------------------------------------------------------------------
(* contentsUsingPreallocatedBuffer.                                         *)

\* getReadMax throws, or the ReadBuffer is allocated and the task group filled;
\* cancellation of the task may cut the filling short.
Contents ==
    /\ contents = "idle"
    /\ \/ /\ ~context
          /\ contents' = "threw"
          /\ UNCHANGED <<readBuffer, tasks>>
       \/ /\ context
          /\ readBuffer' = "allocated"
          /\ \/ tasks' = Chunks /\ contents' = "running"
             \/ tasks' \in SUBSET Chunks /\ contents' = "cancelled"
    /\ UNCHANGED <<context, caller, request, buffer, filled>>

\* preadIntoBuffer, in a child task: nothing is allocated, the slice goes to
\* libnfs as it is.
PreadIntoBuffer(c) ==
    /\ c \in tasks
    /\ caller[c] = "idle"
    /\ \/ /\ caller' = Override(caller, c, "failed")
          /\ UNCHANGED request
       \/ /\ context
          /\ caller' = Override(caller, c, "waiting")
          /\ request' = Override(request, c, "sent")
    /\ UNCHANGED <<context, buffer>>
    /\ UNCHANGED sharedVars

\* libnfs fills the slice, then runs the callback, in time or late.
AnswerChunk(c, status) ==
    /\ context
    /\ request[c] = "sent"
    /\ request' = Override(request, c, "over")
    /\ IF status \in {"full", "partial"}
       THEN /\ readBuffer' = WriteInto(readBuffer)
            /\ filled' = Override(filled, c, status)
       ELSE UNCHANGED <<readBuffer, filled>>
    /\ caller' = Override(caller, c, Result(c, status))
    /\ UNCHANGED <<context, buffer, contents, tasks>>

\* The progress handler, called after each chunk, says stop.
ProgressCancels ==
    /\ contents = "running"
    /\ \E c \in tasks : caller[c] = "ok"
    /\ contents' = "cancelled"
    /\ UNCHANGED <<context, caller, request, buffer, readBuffer, filled, tasks>>

ContentsReturnUndrained ==
    /\ contents \in {"running", "cancelled"}
    /\ \/ \A c \in tasks : caller[c] \in {"ok", "failed"}
       \/ \E c \in tasks : caller[c] = "failed"
    /\ IF contents = "running" /\ \A c \in tasks : caller[c] = "ok"
       THEN readBuffer' = HandToData(readBuffer) /\ contents' = "returned"
       ELSE readBuffer' = Deallocate(readBuffer) /\ contents' = "threw"
    /\ UNCHANGED <<context, caller, request, buffer, filled, tasks>>

ContentsReturnIgnoresFailures ==
    /\ contents \in {"running", "cancelled"}
    /\ \A c \in tasks : caller[c] \in {"ok", "failed"}
    /\ IF contents = "running"
       THEN readBuffer' = HandToData(readBuffer) /\ contents' = "returned"
       ELSE readBuffer' = Deallocate(readBuffer) /\ contents' = "threw"
    /\ UNCHANGED <<context, caller, request, buffer, filled, tasks>>

\* The task group awaits every child before it returns or throws: then disown()
\* and Data(bytesNoCopy:), or ReadBuffer.deinit.
ContentsReturn ==
    /\ contents \in {"running", "cancelled"}
    /\ \A c \in tasks : caller[c] \in {"ok", "failed"}
    /\ IF contents = "running" /\ \A c \in tasks : caller[c] = "ok"
       THEN readBuffer' = HandToData(readBuffer) /\ contents' = "returned"
       ELSE readBuffer' = Deallocate(readBuffer) /\ contents' = "threw"
    /\ UNCHANGED <<context, caller, request, buffer, filled, tasks>>

\* The caller of contents(atPath:) lets go of the file's Data.
DropContents ==
    /\ contents = "returned"
    /\ readBuffer = "data"
    /\ readBuffer' = Deallocate(readBuffer)
    /\ UNCHANGED <<context, caller, request, buffer, filled, contents, tasks>>

Next ==
    \/ \E o \in Owners : Transfer(o)
    \/ \E o \in Owners, status \in Statuses : Answer(o, status)
    \/ \E o \in Reads : DropData(o)
    \/ \E o \in Ops : ScanForTimeouts(o)
    \/ TearDown
    \/ Contents
    \/ \E c \in Chunks : PreadIntoBuffer(c)
    \/ \E c \in Chunks, status \in Statuses : AnswerChunk(c, status)
    \/ ProgressCancels
    \/ ContentsReturn
    \/ DropContents

Spec == Init /\ [][Next]_vars

-----------------------------------------------------------------------------
(* Properties.                                                              *)

\* Type correctness; no caller is resumed a second time by a late callback.
TypeOK ==
    /\ context \in BOOLEAN
    /\ caller \in [Ops -> {"idle", "waiting", "ok", "failed"}]
    /\ request \in [Ops -> {"none", "sent", "over"}]
    /\ buffer \in [Owners -> Memory]
    /\ readBuffer \in Memory
    /\ filled \in [Chunks -> {"zero", "partial", "full"}]
    /\ contents \in {"idle", "running", "cancelled", "returned", "threw"}
    /\ tasks \in SUBSET Chunks

\* However refusal, EOF, error, timeout, late callback and teardown interleave,
\* dataHandler and cleanup never free a transfer's own buffer twice and Data
\* never takes over a freed one.
FreedOnce == \A o \in Owners : buffer[o] # "corrupt"

\* While libnfs holds the pointer to a transfer's own buffer the memory is
\* there, also after the call has timed out.
OwnBufferAlive ==
    \A o \in Owners : request[o] = "sent" => buffer[o] = "allocated"

\* A read whose request is over leaks nothing: the buffer is freed, or belongs
\* to a Data value that reached the caller.
ReadReleased ==
    \A o \in Reads :
        request[o] = "over" =>
            \/ buffer[o] = "freed"
            \/ buffer[o] = "data" /\ caller[o] = "ok"

\* The Data contents(atPath:) returned is the caller's alone: every chunk was
\* answered and no request of libnfs points into it any more.
ReturnedIsQuiescent ==
    contents = "returned" =>
        \A c \in Chunks : request[c] = "over" /\ caller[c] = "ok"

\* Awaiting the children of the task group protects the ReadBuffer: unless a
\* timeout has resumed a chunk whose request is still out, the buffer outlives
\* the requests that write into it, whether chunks fail, the caller cancels or
\* the loop is torn down.
DrainProtectsReadBuffer ==
    (\A c \in Chunks : request[c] = "sent" => caller[c] = "waiting") =>
        \A c \in Chunks : request[c] = "sent" => readBuffer = "allocated"

-----------------------------------------------------------------------------
(* The inductive invariant.  A buffer changes hands with its request: none   *)
(* before it, allocated during it; what it becomes afterwards depends on who *)
(* was told.                                                                 *)

\* The state of one transfer.
OwnerInv(o) ==
    /\ request[o] = "none" => buffer[o] \in {"none", "freed"} /\ caller[o] # "waiting"
    /\ request[o] = "sent" => buffer[o] = "allocated" /\ caller[o] \in {"waiting", "failed"}
    /\ request[o] = "over" => caller[o] \in {"ok", "failed"}
    /\ request[o] = "over" /\ o \in Reads =>
          buffer[o] = "freed" \/ (buffer[o] = "data" /\ caller[o] = "ok")
    /\ request[o] = "over" /\ o \in Writes => buffer[o] \in {"allocated", "freed"}
    /\ caller[o] = "idle" => request[o] = "none" /\ buffer[o] = "none"

\* The state of one chunk: told "ok" only by its answer.
ChunkInv(c) ==
    /\ request[c] = "sent" => caller[c] \in {"waiting", "failed"}
    /\ caller[c] \in {"ok", "waiting"} => request[c] # "none"
    /\ request[c] # "none" => c \in tasks

\* The state of contentsUsingPreallocatedBuffer: every chunk of a file that was
\* returned said "ok", none is awaited once it is over.
ContentsInv ==
    /\ contents \in {"running", "returned"} => tasks = Chunks
    /\ contents = "returned" => \A c \in Chunks : caller[c] = "ok"
    /\ contents = "idle" => tasks = {}
    /\ contents \in {"running", "cancelled"} => readBuffer = "allocated"
    /\ contents = "threw" => \A c \in tasks : caller[c] \in {"ok", "failed"}

Inv ==
    /\ TypeOK
    /\ \A o \in Owners : OwnerInv(o)
    /\ \A c \in Chunks : ChunkInv(c)
    /\ ContentsInv

-----------------------------------------------------------------------------
(* What the documentation says and the code does not do.                    *)

\* "We must not deallocate `buffer` while libnfs still holds those pointers": the
\* ReadBuffer outlives every request that writes into it.
ReadBufferAlive ==
    \A c \in Chunks : request[c] = "sent" => readBuffer = "allocated"

\* "Reads the entire contents of a file": the Data it returns holds only bytes
\* that were read.
ReturnedWasRead == contents = "returned" => \A c \in Chunks : filled[c] = "full"
=============================================================================
