--------------------------- MODULE HandleRegistry ---------------------------
(***************************************************************************)
(* What NFSKit keeps against its libnfs context: open files behind handle  *)
(* IDs, open directories, the boxed log handler (handleRegistry, opendir   *)
(* and readdirAll, logHandlerBoxPtr of NFSEventLoop.swift), and the        *)
(* NFSFileHandle tokens through which clients hold the files.              *)
(*                                                                         *)
(* An open call is answered on the queue, but the pointer it yields is put *)
(* in the registry (or read and closed, for a directory) by a second block *)
(* that the caller queues later.  A timeout returns the caller while       *)
(* libnfs keeps the request.  The token's deinit queues a block that runs  *)
(* the synchronous nfs_close, which holds the queue while libnfs goes on   *)
(* running callbacks.                                                      *)
(***************************************************************************)
EXTENDS Integers, FiniteSets

CONSTANTS
    Files,        \* openFile calls; the nfsfh a call yields has its name
    Dirs,         \* opendir calls, likewise
    Ops,          \* concurrent calls of handle operations (read, fstat, lseek ...)
    Handlers,     \* log handler boxes
    MaxHandleID,  \* bound: handle IDs given out
    None

Opens == Files \cup Dirs
IDs == 1 .. MaxHandleID

ASSUME RegistryAssumption ==
    /\ MaxHandleID \in Nat
    /\ Files \cap Dirs = {}
    /\ None \notin Opens \cup Handlers

VARIABLES
    context,           \* "live", or "destroyed" (nil)
    stage,             \* how far each open call and its token have come
    unanswered,        \* open requests that libnfs, or the pending queue, holds
    fh,                \* what libnfs has for each call
    handleRegistry, nextHandleID,
    handleID,          \* the ID each token holds, 0 before there is one
    opStage, opOn,     \* handle operations, and the handle each is about
    closeStage,        \* calls of closeFile
    closing,           \* the handle whose nfs_close is running on the queue
    logHandlerBoxPtr,
    logCallback,       \* the box libnfs would call
    boxes,             \* boxes that are allocated
    releases,          \* history: how often each handle was given up to libnfs
    explicit,          \* history: handles closeFile closed
    lost               \* history: handles nobody can close any more

logVars == <<logHandlerBoxPtr, logCallback, boxes>>
registryVars == <<handleRegistry, nextHandleID, handleID>>
opVars == <<opStage, opOn>>
vars == <<context, stage, unanswered, fh, registryVars, opVars, closeStage, closing,
          logVars, releases, explicit, lost>>

\* No block is running on the queue.
Idle == closing = None

\* What a token's ID leads to: handleRegistry[handleID].
Entry(o) == IF handleID[o] \in IDs THEN handleRegistry[handleID[o]] ELSE None

Init ==
    /\ context = "live"
    /\ stage = [o \in Opens |-> "idle"]
    /\ unanswered = {}
    /\ fh = [o \in Opens |-> "none"]
    /\ handleRegistry = [i \in IDs |-> None]
    /\ nextHandleID = 1
    /\ handleID = [o \in Opens |-> 0]
    /\ opStage = [c \in Ops |-> "idle"]
    /\ opOn = [c \in Ops |-> None]
    /\ closeStage = [o \in Opens |-> "idle"]
    /\ closing = None
    /\ logHandlerBoxPtr = None
    /\ logCallback = None
    /\ boxes = {}
    /\ releases = [o \in Opens |-> 0]
    /\ explicit = {}
    /\ lost = {}

-----------------------------------------------------------------------------
(* Opening.                                                                 *)

\* openFile and opendir: the request is submitted; without a context, with the
\* pending queue full or refused by libnfs the caller gets an error.
SubmitOpen(o) ==
    /\ Idle
    /\ stage[o] = "idle"
    /\ \/ /\ context = "live"
          /\ stage' = [stage EXCEPT ![o] = "opening"]
          /\ unanswered' = unanswered \cup {o}
       \/ /\ stage' = [stage EXCEPT ![o] = "done"]
          /\ UNCHANGED unanswered
    /\ UNCHANGED <<context, fh, registryVars, opVars, closeStage, closing, logVars,
                   releases, explicit, lost>>

\* libnfs answers the open; its callback runs on the queue, in handleIOEvent or
\* inside a synchronous nfs_close.  The caller takes the pointer away, unless it
\* has timed out: then resume does nothing and the handle is nobody's.
AnswerOpen(o) ==
    /\ o \in unanswered
    /\ unanswered' = unanswered \ {o}
    /\ \E s \in {"none", "open"} :
          /\ fh' = [fh EXCEPT ![o] = s]
          /\ stage' = IF stage[o] # "opening" THEN stage
                      ELSE [stage EXCEPT ![o] = IF s = "open" THEN "opened" ELSE "done"]
          /\ lost' = IF stage[o] # "opening" /\ s = "open" THEN lost \cup {o} ELSE lost
    /\ UNCHANGED <<context, registryVars, opVars, closeStage, closing, logVars, releases,
                   explicit>>

\* scanForTimeouts, on an open call.
TimeOutOpen(o) ==
    /\ Idle
    /\ stage[o] = "opening"
    /\ stage' = [stage EXCEPT ![o] = "done"]
    /\ UNCHANGED <<context, unanswered, fh, registryVars, opVars, closeStage, closing,
                   logVars, releases, explicit, lost>>

RegisterHandleReusesID(o) ==
    /\ Idle
    /\ stage[o] = "opened"
    /\ nextHandleID \in IDs
    /\ handleRegistry' = [handleRegistry EXCEPT ![nextHandleID] = o]
    /\ handleID' = [handleID EXCEPT ![o] = nextHandleID]
    /\ stage' = [stage EXCEPT ![o] = "token"]
    /\ UNCHANGED <<context, unanswered, fh, nextHandleID, opVars, closeStage, closing,
                   logVars, releases, explicit, lost>>

\* The second block of openFile: the pointer goes into the registry, whatever
\* became of the context, and the caller wraps the ID in a token.
RegisterHandle(o) ==
    /\ Idle
    /\ stage[o] = "opened"
    /\ nextHandleID \in IDs
    /\ handleRegistry' = [handleRegistry EXCEPT ![nextHandleID] = o]
    /\ nextHandleID' = nextHandleID + 1
    /\ handleID' = [handleID EXCEPT ![o] = nextHandleID]
    /\ stage' = [stage EXCEPT ![o] = "token"]
    /\ UNCHANGED <<context, unanswered, fh, opVars, closeStage, closing, logVars,
                   releases, explicit, lost>>

\* readdirAll: the entries are read and the directory closed in one block, or
\* the block finds no context.
ReaddirAll(o) ==
    /\ Idle
    /\ stage[o] = "opened"
    /\ stage' = [stage EXCEPT ![o] = "done"]
    /\ IF context = "live"
       THEN /\ fh' = [fh EXCEPT ![o] = "closed"]
            /\ releases' = [releases EXCEPT ![o] = @ + 1]
       ELSE UNCHANGED <<fh, releases>>
    /\ UNCHANGED <<context, unanswered, registryVars, opVars, closeStage, closing,
                   logVars, explicit, lost>>

-----------------------------------------------------------------------------
(* Operations on a handle.                                                  *)

\* A method of NFSFileHandle: its block is queued and the token retained.
CallOp(c, o) ==
    /\ opStage[c] = "idle"
    /\ stage[o] = "token"
    /\ opStage' = [opStage EXCEPT ![c] = "queued"]
    /\ opOn' = [opOn EXCEPT ![c] = o]
    /\ UNCHANGED <<context, stage, unanswered, fh, registryVars, closeStage, closing,
                   logVars, releases, explicit, lost>>

RunOpUnchecked(c) ==
    /\ Idle
    /\ opStage[c] = "queued"
    /\ opStage' = [opStage EXCEPT ![c] = "waiting"]
    /\ UNCHANGED <<context, stage, unanswered, fh, registryVars, opOn, closeStage,
                   closing, logVars, releases, explicit, lost>>

\* The block of a handle operation: EBADF, ENOTCONN, an error of libnfs, or a
\* request about the handle found under the ID.
RunOp(c) ==
    /\ Idle
    /\ opStage[c] = "queued"
    /\ LET handle == Entry(opOn[c])
       IN  \/ /\ handle # None
              /\ context = "live"
              /\ opStage' = [opStage EXCEPT ![c] = "waiting"]
              /\ opOn' = [opOn EXCEPT ![c] = handle]
           \/ /\ opStage' = [opStage EXCEPT ![c] = "idle"]
              /\ opOn' = [opOn EXCEPT ![c] = None]
    /\ UNCHANGED <<context, stage, unanswered, fh, registryVars, closeStage, closing,
                   logVars, releases, explicit, lost>>

\* libnfs answers a handle operation, in time or late.
AnswerOp(c) ==
    /\ opStage[c] \in {"waiting", "late"}
    /\ opStage' = [opStage EXCEPT ![c] = "idle"]
    /\ opOn' = [opOn EXCEPT ![c] = None]
    /\ UNCHANGED <<context, stage, unanswered, fh, registryVars, closeStage, closing,
                   logVars, releases, explicit, lost>>

TimeOutOpNotResumed(c) ==
    /\ Idle
    /\ opStage[c] = "waiting"
    /\ UNCHANGED vars

\* scanForTimeouts, on a handle operation: the caller returns, and with it goes
\* the reference to the token; libnfs keeps the request.
TimeOutOp(c) ==
    /\ Idle
    /\ opStage[c] = "waiting"
    /\ opStage' = [opStage EXCEPT ![c] = "late"]
    /\ UNCHANGED <<context, stage, unanswered, fh, registryVars, opOn, closeStage,
                   closing, logVars, releases, explicit, lost>>

-----------------------------------------------------------------------------
(* Closing.                                                                 *)

\* A call of closeFile, by anybody who has the ID; it does not retain the token.
CallCloseFile(o) ==
    /\ handleID[o] # 0
    /\ closeStage[o] = "idle"
    /\ closeStage' = [closeStage EXCEPT ![o] = "queued"]
    /\ UNCHANGED <<context, stage, unanswered, fh, registryVars, opVars, closing,
                   logVars, releases, explicit, lost>>

Forget(o) == handleRegistry' = [handleRegistry EXCEPT ![handleID[o]] = None]

RunCloseFileKeepsID(o) ==
    /\ Idle
    /\ closeStage[o] = "queued"
    /\ \/ /\ closeStage' = [closeStage EXCEPT ![o] = "idle"]
          /\ UNCHANGED <<fh, handleRegistry, releases, explicit, lost>>
       \/ /\ Entry(o) # None
          /\ context = "live"
          /\ closeStage' = [closeStage EXCEPT ![o] = "waiting"]
          /\ fh' = [fh EXCEPT ![Entry(o)] = "closing"]
          /\ releases' = [releases EXCEPT ![Entry(o)] = @ + 1]
          /\ explicit' = explicit \cup {Entry(o)}
          /\ UNCHANGED <<handleRegistry, lost>>
    /\ UNCHANGED <<context, stage, unanswered, nextHandleID, handleID, opVars, closing,
                   logVars>>

\* The block of closeFile: EBADF or ENOTCONN; otherwise the ID is forgotten, and
\* then libnfs refuses the close, or takes it.
RunCloseFile(o) ==
    /\ Idle
    /\ closeStage[o] = "queued"
    /\ \/ /\ Entry(o) = None \/ context = "destroyed"
          /\ closeStage' = [closeStage EXCEPT ![o] = "idle"]
          /\ UNCHANGED <<fh, handleRegistry, releases, explicit, lost>>
       \/ /\ Entry(o) # None
          /\ context = "live"
          /\ Forget(o)
          /\ \/ /\ closeStage' = [closeStage EXCEPT ![o] = "idle"]
                /\ lost' = lost \cup {Entry(o)}
                /\ UNCHANGED <<fh, releases, explicit>>
             \/ /\ closeStage' = [closeStage EXCEPT ![o] = "waiting"]
                /\ fh' = [fh EXCEPT ![Entry(o)] = "closing"]
                /\ releases' = [releases EXCEPT ![Entry(o)] = @ + 1]
                /\ explicit' = explicit \cup {Entry(o)}
                /\ UNCHANGED lost
    /\ UNCHANGED <<context, stage, unanswered, nextHandleID, handleID, opVars, closing,
                   logVars>>

\* libnfs answers nfs_close_async, in time or late.
AnswerClose(o) ==
    /\ closeStage[o] \in {"waiting", "late"}
    /\ closeStage' = [closeStage EXCEPT ![o] = "idle"]
    /\ fh' = [fh EXCEPT ![o] = "closed"]
    /\ UNCHANGED <<context, stage, unanswered, registryVars, opVars, closing, logVars,
                   releases, explicit, lost>>

TimeOutClose(o) ==
    /\ Idle
    /\ closeStage[o] = "waiting"
    /\ closeStage' = [closeStage EXCEPT ![o] = "late"]
    /\ UNCHANGED <<context, stage, unanswered, fh, registryVars, opVars, closing,
                   logVars, releases, explicit, lost>>

\* The last reference to the token goes: none of its methods is being awaited.
\* deinit queues the fire-and-forget close.
DropToken(o) ==
    /\ stage[o] = "token"
    /\ \A c \in Ops : opStage[c] \in {"queued", "waiting"} => opOn[c] # o
    /\ stage' = [stage EXCEPT ![o] = "dropped"]
    /\ UNCHANGED <<context, unanswered, fh, registryVars, opVars, closeStage, closing,
                   logVars, releases, explicit, lost>>

CloseFileFireAndForgetUnlessBusy(o) ==
    /\ Idle
    /\ stage[o] = "dropped"
    /\ stage' = [stage EXCEPT ![o] = "done"]
    /\ IF Entry(o) # None /\ context = "live" /\ \A c \in Ops : opOn[c] # o
       THEN /\ Forget(o)
            /\ closing' = Entry(o)
            /\ fh' = [fh EXCEPT ![Entry(o)] = "closing"]
            /\ releases' = [releases EXCEPT ![Entry(o)] = @ + 1]
       ELSE UNCHANGED <<handleRegistry, closing, fh, releases>>
    /\ UNCHANGED <<context, unanswered, nextHandleID, handleID, opVars, closeStage,
                   logVars, explicit, lost>>

\* closeFileFireAndForget: the ID is forgotten first; a handle that was there is
\* closed with nfs_close if there is a context.  A refused nfs_close goes
\* unnoticed, and leaves the handle open.
CloseFileFireAndForget(o) ==
    /\ Idle
    /\ stage[o] = "dropped"
    /\ stage' = [stage EXCEPT ![o] = "done"]
    /\ IF Entry(o) # None THEN Forget(o) ELSE UNCHANGED handleRegistry
    /\ \/ /\ Entry(o) = None \/ context = "destroyed"
          /\ UNCHANGED <<closing, fh, releases, lost>>
       \/ /\ Entry(o) # None
          /\ context = "live"
          /\ lost' = lost \cup {Entry(o)}
          /\ UNCHANGED <<closing, fh, releases>>
       \/ /\ Entry(o) # None
          /\ context = "live"
          /\ closing' = Entry(o)
          /\ fh' = [fh EXCEPT ![Entry(o)] = "closing"]
          /\ releases' = [releases EXCEPT ![Entry(o)] = @ + 1]
          /\ UNCHANGED lost
    /\ UNCHANGED <<context, unanswered, nextHandleID, handleID, opVars, closeStage,
                   logVars, explicit>>

\* nfs_close returns to the block, which ends; its result is not looked at.  The
\* handle is closed, or nfs_close has given up on its socket with the request
\* still out.
NfsCloseReturns ==
    /\ closing # None
    /\ closing' = None
    /\ \/ /\ fh' = [fh EXCEPT ![closing] = "closed"]
          /\ UNCHANGED lost
       \/ /\ lost' = lost \cup {closing}
          /\ UNCHANGED fh
    /\ UNCHANGED <<context, stage, unanswered, registryVars, opVars, closeStage,
                   logVars, releases, explicit>>

-----------------------------------------------------------------------------
(* The log handler.                                                         *)

SetLogHandlerKeepsCallback(h) ==
    /\ Idle
    /\ h \notin boxes
    /\ logHandlerBoxPtr' = IF context = "live" THEN h ELSE None
    /\ boxes' = (boxes \ {logHandlerBoxPtr}) \cup ({logHandlerBoxPtr'} \ {None})
    /\ logCallback' = IF context = "live" /\ h # None THEN h ELSE logCallback
    /\ UNCHANGED <<context, stage, unanswered, fh, registryVars, opVars, closeStage,
                   closing, releases, explicit, lost>>

\* setLogHandler: the old box is released; a new one is made and registered if
\* there is a context and a handler, else the callback is deregistered.
SetLogHandler(h) ==
    /\ Idle
    /\ h \notin boxes
    /\ logHandlerBoxPtr' = IF context = "live" THEN h ELSE None
    /\ boxes' = (boxes \ {logHandlerBoxPtr}) \cup ({logHandlerBoxPtr'} \ {None})
    /\ logCallback' = logHandlerBoxPtr'
    /\ UNCHANGED <<context, stage, unanswered, fh, registryVars, opVars, closeStage,
                   closing, releases, explicit, lost>>

-----------------------------------------------------------------------------
(* The end of the context.                                                  *)

\* nfs_destroy_context, and every outstanding call resumed: all handles still
\* open go with the context.
DestroyContext ==
    /\ context' = "destroyed"
    /\ unanswered' = {}
    /\ stage' = [o \in Opens |-> IF stage[o] = "opening" THEN "done" ELSE stage[o]]
    /\ fh' = [o \in Opens |-> IF fh[o] \in {"open", "closing"} THEN "freed" ELSE fh[o]]
    /\ releases' = [o \in Opens |-> IF fh[o] = "open" THEN releases[o] + 1 ELSE releases[o]]
    /\ opStage' = [c \in Ops |-> IF opStage[c] = "queued" THEN "queued" ELSE "idle"]
    /\ opOn' = [c \in Ops |-> IF opStage[c] = "queued" THEN opOn[c] ELSE None]
    /\ closeStage' = [o \in Opens |-> IF closeStage[o] = "queued" THEN "queued" ELSE "idle"]
    /\ logCallback' = None
    /\ UNCHANGED <<nextHandleID, handleID, closing, explicit, lost>>

\* performShutdown: the log handler box is released and the registry dropped.
PerformShutdown ==
    /\ Idle
    /\ context = "live"
    /\ boxes' = boxes \ {logHandlerBoxPtr}
    /\ logHandlerBoxPtr' = None
    /\ handleRegistry' = [i \in IDs |-> None]
    /\ DestroyContext

\* shutdownWithError, after nfs_service has failed: box and registry stay, and a
\* later performShutdown finds nothing to do.
ShutdownWithError ==
    /\ Idle
    /\ context = "live"
    /\ DestroyContext
    /\ UNCHANGED <<handleRegistry, logHandlerBoxPtr, boxes>>

-----------------------------------------------------------------------------
\* The blocks that callers and tokens have queued.
QueueBlock(o) ==
    \/ o \in Files /\ RegisterHandle(o)
    \/ o \in Dirs /\ ReaddirAll(o)
    \/ RunCloseFile(o)
    \/ CloseFileFireAndForget(o)

Next ==
    \/ \E o \in Opens : SubmitOpen(o) \/ AnswerOpen(o) \/ TimeOutOpen(o)
    \/ \E o \in Opens : QueueBlock(o)
    \/ \E o \in Files : CallCloseFile(o) \/ AnswerClose(o) \/ TimeOutClose(o) \/ DropToken(o)
    \/ \E c \in Ops : RunOp(c) \/ AnswerOp(c) \/ TimeOutOp(c) \/ \E o \in Files : CallOp(c, o)
    \/ NfsCloseReturns
    \/ \E h \in Handlers \cup {None} : SetLogHandler(h)
    \/ PerformShutdown
    \/ ShutdownWithError

Spec == Init /\ [][Next]_vars

\* The queue runs every block handed to it and the timer scans, whenever no
\* nfs_close holds the queue.  Nothing is assumed of the server's answers, and so
\* nothing of nfs_close, which waits for one: it may hold the queue for ever.
Fairness ==
    /\ \A o \in Opens : WF_vars(QueueBlock(o)) /\ WF_vars(TimeOutOpen(o) \/ TimeOutClose(o))
    /\ \A c \in Ops : WF_vars(RunOp(c)) /\ WF_vars(TimeOutOp(c))

FairSpec == Spec /\ Fairness

-----------------------------------------------------------------------------
(* Properties.                                                              *)

\* Type correctness.
TypeOK ==
    /\ context \in {"live", "destroyed"}
    /\ stage \in [Opens -> {"idle", "opening", "opened", "token", "dropped", "done"}]
    /\ unanswered \subseteq Opens
    /\ fh \in [Opens -> {"none", "open", "closing", "closed", "freed"}]
    /\ handleRegistry \in [IDs -> Files \cup {None}]
    /\ nextHandleID \in 1 .. MaxHandleID + 1
    /\ handleID \in [Opens -> 0 .. MaxHandleID]
    /\ opStage \in [Ops -> {"idle", "queued", "waiting", "late"}]
    /\ opOn \in [Ops -> Files \cup {None}]
    /\ closeStage \in [Opens -> {"idle", "queued", "waiting", "late"}]
    /\ closing \in Files \cup {None}
    /\ logHandlerBoxPtr \in Handlers \cup {None}
    /\ logCallback \in Handlers \cup {None}
    /\ boxes \subseteq Handlers
    /\ releases \in [Opens -> Nat]
    /\ explicit \subseteq Opens
    /\ lost \subseteq Opens

\* Every nfsfh and nfsdir is given up at most once, by whichever of closeFile,
\* the token's deinit, readdirAll and nfs_destroy_context comes first: no double
\* close and no close of what a destroyed context took along.
ReleasedOnce == \A o \in Opens : releases[o] <= 1

\* While the context lives the registry holds open handles only, each under the
\* one ID its token holds; a stale token never reaches another's handle.
RegistryIsOpen ==
    /\ \A o \in Opens : Entry(o) \in {None, o}
    /\ \A i \in IDs : handleRegistry[i] # None =>
          /\ handleID[handleRegistry[i]] = i
          /\ context = "live" => fh[handleRegistry[i]] = "open"

\* As long as a caller awaits an operation its context lives, and its handle is
\* open, unless somebody closed it with closeFile in the meantime; only a request
\* given up on by a timeout can outlive its handle.
AwaitedHandleIsOpen ==
    \A c \in Ops : opStage[c] = "waiting" =>
        /\ context = "live"
        /\ fh[opOn[c]] = "open" \/ opOn[c] \in explicit

\* No open handle is orphaned while the context lives, other than by the reply to
\* an open that came after its timeout and by libnfs refusing a close, be it that
\* of closeFile or the nfs_close of a token's deinit: it is on its way to its
\* opener, or in the registry for a token that exists or whose close is queued.
NoOrphans ==
    \A o \in Opens \ lost : context = "live" /\ fh[o] = "open" =>
        \/ stage[o] = "opened"
        \/ stage[o] \in {"token", "dropped"} /\ Entry(o) = o

\* The callback libnfs holds always leads to a live box: a log message never
\* reaches a released handler, whatever setLogHandler and the shutdowns did.
LogCallbackAlive == logCallback # None => logCallback \in boxes

\* A dropped token's handle does not stay open: its close is handed to libnfs, or
\* its context goes, however late the answers of the server are.  What libnfs
\* refuses to close stays open, and what is queued behind an nfs_close that never
\* comes back stays queued.
DroppedIsClosed ==
    \A o \in Files :
        stage[o] = "dropped" ~> (fh[o] # "open" \/ o \in lost \/ [](closing # None))

\* Every operation on a handle returns to its caller, however many closes hold up
\* the queue in turn, unless one of them holds it for ever: no timeout reaches a
\* caller then.
OpsReturn ==
    \A c \in Ops :
        opStage[c] = "queued" ~> (opStage[c] \in {"idle", "late"} \/ [](closing # None))

-----------------------------------------------------------------------------
(* The inductive invariant.                                                 *)

\* An open call, from its request to what it leaves behind: a handle is open only
\* in a live context, and has not been released while it is.
OpenInv(o) ==
    /\ stage[o] = "idle" => o \notin unanswered /\ fh[o] = "none"
    /\ stage[o] = "opening" => o \in unanswered
    /\ o \in unanswered => /\ context = "live"
                           /\ stage[o] \in {"opening", "done"}
                           /\ fh[o] = "none"
    /\ stage[o] = "opened" /\ context = "live" => fh[o] = "open"
    /\ stage[o] = "opened" => o \notin unanswered
    /\ stage[o] \in {"idle", "opening", "opened"} => handleID[o] = 0
    /\ stage[o] \in {"token", "dropped"} => handleID[o] # 0
    /\ fh[o] = "open" => context = "live"
    /\ fh[o] \in {"none", "open"} => releases[o] = 0
    /\ releases[o] <= 1

\* IDs are never given out twice, and an entry belongs to a token that is alive
\* or whose close is queued.
IDInv ==
    /\ \A o \in Opens : handleID[o] < nextHandleID
    /\ \A o, p \in Opens : handleID[o] = handleID[p] /\ handleID[o] # 0 => o = p
    /\ \A i \in IDs : handleRegistry[i] # None =>
          /\ i < nextHandleID
          /\ handleID[handleRegistry[i]] = i
          /\ stage[handleRegistry[i]] \in {"token", "dropped"}
          /\ context = "live" => fh[handleRegistry[i]] = "open"

\* At most one close of a handle is with libnfs.
CloseInv ==
    /\ \A o \in Opens : closeStage[o] # "idle" => handleID[o] # 0
    /\ \A o \in Opens : closeStage[o] \in {"waiting", "late"} =>
          fh[o] = "closing" /\ o \in explicit /\ o # closing
    /\ closing # None => fh[closing] = "closing" /\ stage[closing] = "done"

\* A call that is awaited keeps its token.
OpInv ==
    \A c \in Ops :
        /\ opStage[c] \in {"queued", "waiting"} =>
              opOn[c] \in Files /\ stage[opOn[c]] = "token"
        /\ opStage[c] = "waiting" =>
              context = "live" /\ (fh[opOn[c]] = "open" \/ opOn[c] \in explicit)

\* libnfs knows no box but the loop's, which the loop keeps.
LogInv ==
    /\ logCallback \in {None, logHandlerBoxPtr}
    /\ logHandlerBoxPtr # None => logHandlerBoxPtr \in boxes

Inv ==
    /\ TypeOK
    /\ \A o \in Opens : OpenInv(o)
    /\ IDInv
    /\ CloseInv
    /\ OpInv
    /\ LogInv
    /\ NoOrphans
=============================================================================
