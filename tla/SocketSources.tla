---------------------------- MODULE SocketSources ----------------------------
(***************************************************************************)
(* The DispatchSources of Sources/NFSKit/NFSEventLoop.swift: how the loop  *)
(* keeps listening to the socket libnfs currently uses, and asks to write  *)
(* exactly when libnfs has something to send.  There are two pairs of      *)
(* sources, one for the NFS context and one for the RPC context of an      *)
(* export query.                                                           *)
(*                                                                         *)
(* libnfs replaces its socket on its own while it is being serviced        *)
(* (portmapper, then mountd, then nfsd; reconnects).  The new socket may   *)
(* get the number of the old one.  The kernel drops a registration with    *)
(* the socket it was made for, so a source whose socket is gone never      *)
(* fires.  handleIOEvent looks for a replaced socket; the synchronous      *)
(* nfs_close, which services libnfs too, is not followed by such a test.   *)
(***************************************************************************)
EXTENDS Integers

CONSTANTS
    Fds,          \* file descriptor numbers
    MaxSockets,   \* bound: how many sockets libnfs opens in a behaviour
    Opaque        \* sockets for which fstat reports inode 0

ASSUME SourcesAssumption ==
    /\ Fds \subseteq Nat
    /\ MaxSockets \in Nat
    /\ Opaque \subseteq 1 .. MaxSockets

VARIABLES
    context,      \* context != nil
    socket,       \* the socket of the NFS context
    wantsWrite,   \* nfs_which_events has POLLOUT
    sources,      \* readSource, writeSource and what is recorded of their socket
    exportsCtx,   \* rpcExportsCtx != nil
    exSocket,     \* the socket of the RPC context
    exWantsWrite, \* rpc_which_events has POLLOUT
    exSources,    \* rpcExportsReadSource and rpcExportsWriteSource
    opened,       \* how many sockets libnfs has opened
    freed,        \* the loop has been deallocated
    unseen        \* history: 1 when nfs_close changed the NFS context's socket or
                  \* interest and no handler has looked at them since

mainVars == <<socket, wantsWrite, sources, unseen>>
exportsVars == <<exportsCtx, exSocket, exWantsWrite, exSources>>
vars == <<context, socket, wantsWrite, sources, exportsCtx, exSocket,
          exWantsWrite, exSources, opened, freed, unseen>>

\* A socket is known by its number of opening; 0 and -1 when there is none.
Sockets == [id : 0 .. MaxSockets, fd : Fds \cup {-1}]
NoSocket == [id |-> 0, fd |-> -1]

\* What libnfs may do to a socket s: keep it, close it, or open another one under
\* any number that is free once s is closed.  A socket that is being connected
\* waits to be writable.
Serviced(s, other) ==
    {s, NoSocket} \cup
        (IF opened < MaxSockets
         THEN {[id |-> opened + 1, fd |-> f] : f \in Fds \ {other.fd}} ELSE {})
Interests(s, t) == IF t.id # 0 /\ s # t THEN {TRUE} ELSE BOOLEAN

\* socketIno.
SocketIno(s) == IF s.id \in Opaque THEN 0 ELSE s.id

(***************************************************************************)
(* A pair of sources.  read and write are the sockets the two sources were *)
(* registered for, 0 for nil; flag is writeSourceSuspended (1 for true),   *)
(* the code's record of the write source, and suspensions is its real      *)
(* suspension count.                                                       *)
(* libdispatch traps a source resumed too often or released while          *)
(* suspended.                                                              *)
(***************************************************************************)
Pairs == [read : 0 .. MaxSockets, write : 0 .. MaxSockets, flag : {0, 1},
          suspensions : {0, 1}, fd : Fds \cup {-1}, ino : 0 .. MaxSockets,
          fault : {"none", "trap"}]

ResumeWrite(p) ==
    IF p.suspensions = 0 THEN [p EXCEPT !.fault = "trap"]
    ELSE [p EXCEPT !.suspensions = @ - 1]

SuspendWrite(p) == [p EXCEPT !.suspensions = @ + 1]

\* cancel() on both sources, and the references dropped.
Release(p) ==
    [read |-> 0, write |-> 0, flag |-> p.flag, suspensions |-> 0, fd |-> -1, ino |-> 0,
     fault |-> IF p.write # 0 /\ p.suspensions > 0 THEN "trap" ELSE p.fault]

CancelSourcesStillSuspended(p) == Release(p)

\* cancelSources: a suspended write source is resumed before it is cancelled.
CancelSources(p) ==
    Release(IF p.write # 0 /\ p.flag = 1 THEN [ResumeWrite(p) EXCEPT !.flag = 0] ELSE p)

\* setupSources: a fresh pair, the write source not yet resumed.
SetupSources(p, s) ==
    [read |-> s.id, write |-> s.id, flag |-> 1, suspensions |-> 1,
     fd |-> s.fd, ino |-> SocketIno(s), fault |-> CancelSources(p).fault]

\* cancelRpcExportsSources.
CancelRpcExportsSources(p) ==
    [Release(IF p.write # 0 /\ p.flag = 1 THEN ResumeWrite(p) ELSE p) EXCEPT !.flag = 1]

\* setupRpcExportsSources: a fresh pair, the write source active; nothing is
\* recorded of the socket.
SetupRpcExportsSources(p, s) ==
    [read |-> s.id, write |-> s.id, flag |-> 0, suspensions |-> 0,
     fd |-> -1, ino |-> 0, fault |-> CancelRpcExportsSources(p).fault]

\* updateWriteSource and updateRpcExportsWriteSource.
UpdateWriteSource(p, wants) ==
    IF p.write = 0 THEN p
    ELSE IF wants /\ p.flag = 1 THEN [ResumeWrite(p) EXCEPT !.flag = 0]
    ELSE IF ~wants /\ p.flag = 0 THEN [SuspendWrite(p) EXCEPT !.flag = 1]
    ELSE p

NewSources == [read |-> 0, write |-> 0, flag |-> 1, suspensions |-> 0,
               fd |-> -1, ino |-> 0, fault |-> "none"]

\* A source of the pair can fire: its socket is the one in use, and the write
\* source is not suspended.
Fires(p, s) ==
    /\ s.id # 0
    /\ p.read = s.id \/ (p.write = s.id /\ p.suspensions = 0)

ChangedTrustsInode(p, s) ==
    /\ s.fd >= 0
    /\ s.fd # p.fd \/ SocketIno(s) # p.ino

\* handleIOEvent's test for a replaced socket: another number, or the same
\* number with another inode or with one that cannot be trusted.
Changed(p, s) ==
    /\ s.fd >= 0
    /\ s.fd # p.fd \/ p.ino = 0 \/ SocketIno(s) # p.ino

-----------------------------------------------------------------------------
Init ==
    /\ context = TRUE
    /\ socket = NoSocket
    /\ wantsWrite = FALSE
    /\ sources = NewSources
    /\ exportsCtx = FALSE
    /\ exSocket = NoSocket
    /\ exWantsWrite = FALSE
    /\ exSources = NewSources
    /\ opened = 0
    /\ freed = FALSE
    /\ unseen = 0

Opens(t) == opened' = IF t.id > opened THEN t.id ELSE opened

\* mount, accepted by libnfs: sources are made for the socket it knows, if any.
Mount ==
    /\ context
    /\ \E t \in Serviced(socket, exSocket) : \E w \in Interests(socket, t) :
          /\ socket' = t
          /\ wantsWrite' = w
          /\ sources' = IF t.fd >= 0 THEN UpdateWriteSource(SetupSources(sources, t), w)
                        ELSE sources
          /\ Opens(t)
    /\ unseen' = 0
    /\ UNCHANGED <<context, exportsVars, freed>>

\* A request is handed to libnfs, which queues it for sending or, in
\* issuePendingOperations, refuses it; updateWriteSource follows.
Issue ==
    /\ context
    /\ \E w \in {wantsWrite, TRUE} :
          /\ wantsWrite' = w
          /\ sources' = UpdateWriteSource(sources, w)
    /\ UNCHANGED <<socket, unseen>>

IssueRequest ==
    /\ Issue
    /\ UNCHANGED <<context, exportsVars, opened, freed>>

HandleIOEventNoUpdate ==
    /\ context
    /\ Fires(sources, socket)
    /\ \E t \in Serviced(socket, exSocket) : \E w \in Interests(socket, t) :
          /\ socket' = t
          /\ wantsWrite' = w
          /\ sources' = IF Changed(sources, t) THEN SetupSources(sources, t)
                        ELSE UpdateWriteSource(sources, w)
          /\ Opens(t)
    /\ unseen' = 0
    /\ UNCHANGED <<context, exportsVars, freed>>

\* handleIOEvent: nfs_service, the test for a replaced socket, updateWriteSource.
\* The pending operations issued at its end only add to what libnfs wants to
\* send and call updateWriteSource again; w is the interest after them.
HandleIOEvent ==
    /\ context
    /\ Fires(sources, socket)
    /\ \E t \in Serviced(socket, exSocket) : \E w \in Interests(socket, t) :
          /\ socket' = t
          /\ wantsWrite' = w
          /\ sources' = UpdateWriteSource(
                            IF Changed(sources, t) THEN SetupSources(sources, t) ELSE sources,
                            w)
          /\ Opens(t)
    /\ unseen' = 0
    /\ UNCHANGED <<context, exportsVars, freed>>

\* closeFileFireAndForget: the synchronous nfs_close services libnfs until the
\* close is answered.  Callbacks it runs may issue pending operations, and with
\* them call updateWriteSource for the interest v of that moment; nothing is done
\* about the sources afterwards.
CloseFileFireAndForget ==
    /\ context
    /\ \E t \in Serviced(socket, exSocket) : \E w \in Interests(socket, t) :
          /\ socket' = t
          /\ wantsWrite' = w
          /\ sources' \in {sources} \cup {UpdateWriteSource(sources, v) : v \in BOOLEAN}
          /\ unseen' = IF t = socket /\ w = wantsWrite /\ sources' = sources THEN unseen
                       ELSE 1
          /\ Opens(t)
    /\ UNCHANGED <<context, exportsVars, freed>>

\* shutdownWithError: nfs_service has failed; the export query is left alone.
ShutdownWithError ==
    /\ context
    /\ Fires(sources, socket)
    /\ context' = FALSE
    /\ socket' = NoSocket
    /\ wantsWrite' = FALSE
    /\ sources' = CancelSources(sources)
    /\ unseen' = 0
    /\ UNCHANGED <<exportsVars, opened, freed>>

\* getexports, accepted by libnfs: an RPC context with a socket of its own.
GetExports ==
    /\ context
    /\ ~exportsCtx
    /\ exportsCtx' = TRUE
    /\ \E t \in Serviced(NoSocket, socket) :
          /\ exSocket' = t
          /\ exWantsWrite' = TRUE
          /\ exSources' = IF t.fd >= 0 THEN SetupRpcExportsSources(exSources, t) ELSE exSources
          /\ Opens(t)
    /\ UNCHANGED <<context, mainVars, freed>>

\* handleRpcExportsEvent, with the query still going on after rpc_service: the
\* sources are made anew whatever became of the socket.
HandleRpcExportsEvent ==
    /\ ~freed
    /\ exportsCtx
    /\ Fires(exSources, exSocket)
    /\ \E t \in Serviced(exSocket, socket) : \E w \in Interests(exSocket, t) :
          /\ exSocket' = t
          /\ exWantsWrite' = w
          /\ exSources' = UpdateWriteSource(
                              IF t.fd >= 0 THEN SetupRpcExportsSources(exSources, t)
                              ELSE exSources,
                              w)
          /\ Opens(t)
    /\ UNCHANGED <<context, mainVars, exportsCtx, freed>>

\* cleanupRpcExports: from handleRpcExportsEvent when the query is done or
\* rpc_service fails, or from scanForTimeouts, whose timer goes with the context.
\* The query's callback may issue pending operations.
CleanupRpcExports ==
    /\ ~freed
    /\ exportsCtx
    /\ context \/ Fires(exSources, exSocket)
    /\ exportsCtx' = FALSE
    /\ exSocket' = NoSocket
    /\ exWantsWrite' = FALSE
    /\ exSources' = CancelRpcExportsSources(exSources)
    /\ Issue \/ UNCHANGED mainVars
    /\ UNCHANGED <<context, opened, freed>>

\* The body of performShutdown, behind its guard.
TearDown ==
    /\ context
    /\ context' = FALSE
    /\ socket' = NoSocket
    /\ wantsWrite' = FALSE
    /\ sources' = CancelSources(sources)
    /\ unseen' = 0
    /\ exportsCtx' = FALSE
    /\ exSocket' = NoSocket
    /\ exWantsWrite' = FALSE
    /\ exSources' = CancelRpcExportsSources(exSources)
    /\ UNCHANGED opened

\* shutdown().
PerformShutdown ==
    /\ TearDown
    /\ UNCHANGED freed

\* deinit: performShutdown, and then the loop's references to its sources go.
\* Without a context, and so without a caller who waits, performShutdown returns
\* at its guard: what shutdownWithError has left is released as it is, and nobody
\* services the RPC context any more.
Deinit ==
    /\ ~freed
    /\ freed' = TRUE
    /\ \/ TearDown
       \/ /\ ~context
          /\ sources' = Release(sources)
          /\ exSources' = Release(exSources)
          /\ UNCHANGED <<context, socket, wantsWrite, unseen, exportsCtx, exSocket,
                         exWantsWrite, opened>>

Next ==
    \/ Mount
    \/ IssueRequest
    \/ HandleIOEvent
    \/ CloseFileFireAndForget
    \/ ShutdownWithError
    \/ GetExports
    \/ HandleRpcExportsEvent
    \/ CleanupRpcExports
    \/ PerformShutdown
    \/ Deinit

Spec == Init /\ [][Next]_vars

-----------------------------------------------------------------------------
(* Properties.                                                              *)

\* Type correctness; a write source is never suspended twice over, which a
\* single resume would not undo.
TypeOK ==
    /\ context \in BOOLEAN
    /\ socket \in Sockets
    /\ wantsWrite \in BOOLEAN
    /\ sources \in Pairs
    /\ exportsCtx \in BOOLEAN
    /\ exSocket \in Sockets
    /\ exWantsWrite \in BOOLEAN
    /\ exSources \in Pairs
    /\ opened \in 0 .. MaxSockets
    /\ freed \in BOOLEAN
    /\ unseen \in {0, 1}

\* Suspensions and resumptions of the write sources balance over every sequence
\* of set-ups, updates and cancellations, so that libdispatch does not trap.  One
\* way remains: a loop is deallocated after shutdownWithError with an export query
\* still out, whose write source is suspended while its reply is awaited.
SuspensionsBalance ==
    /\ sources.fault = "none"
    /\ exSources.fault = "trap" => freed /\ exportsCtx /\ ~exWantsWrite

\* The loop is never deaf: both sources of a pair watch the socket libnfs uses,
\* however often it was replaced under the same number; only a socket replaced
\* during a synchronous nfs_close escapes it.
WatchesSocket ==
    /\ socket.id # 0 /\ unseen = 0 =>
          sources.read = socket.id /\ sources.write = socket.id
    /\ exSocket.id # 0 /\ ~freed =>
          exSources.read = exSocket.id /\ exSources.write = exSocket.id

\* When libnfs has something to send its write source is active, so that the
\* request does not sit there; when it has not, the source is suspended, so that
\* a writable socket does not spin the queue.  Again what nfs_close leaves behind
\* is excepted.
WriteInterestServed ==
    /\ socket.id # 0 /\ unseen = 0 => (sources.suspensions = 0 <=> wantsWrite)
    /\ exSocket.id # 0 /\ ~freed => (exSources.suspensions = 0 <=> exWantsWrite)

-----------------------------------------------------------------------------
(* The inductive invariant.                                                 *)

\* The flag agrees with libdispatch as long as there is a write source; without
\* one nothing is suspended.
PairOK(p) ==
    /\ p \in Pairs
    /\ p.read = p.write
    /\ p.write # 0 => p.flag = p.suspensions
    /\ p.write = 0 => p.suspensions = 0
    /\ p.fault = "none"

\* A recorded inode is that of a socket opened earlier, so that it can never be
\* mistaken for the next one's.
SocketInv(p, s, n) ==
    /\ PairOK(p)
    /\ p.ino <= n
    /\ s.id <= n
    /\ s.id = 0 => s.fd = -1
    /\ s.id # 0 => s.fd \in Fds

\* The pair serves the socket.
PairInv(p, s, wants, n) ==
    /\ SocketInv(p, s, n)
    /\ s.id # 0 => /\ p.read = s.id
                   /\ p.write = s.id
                   /\ (p.suspensions = 0 <=> wants)

\* The same for the export query: while no socket is known the pair of the last
\* one stays, in line with the interest, and there is none without a query.
QueryInv(p, s, wants, going, n) ==
    /\ PairInv(p, s, wants, n)
    /\ p.write # 0 => going /\ (p.suspensions = 0 <=> wants)

Inv ==
    /\ TypeOK
    /\ SocketInv(sources, socket, opened)
    /\ unseen = 0 => PairInv(sources, socket, wantsWrite, opened)
    /\ ~context => sources.write = 0
    /\ IF freed THEN ~context /\ SuspensionsBalance
                ELSE QueryInv(exSources, exSocket, exWantsWrite, exportsCtx, opened)
=============================================================================
