# NFSKit: verification of the event loop and the client

NFSKit is a Swift NFS client. Swift tasks call an `async` API; one serial
`DispatchQueue` per connection drives libnfs, a C library with callbacks, through
dispatch sources on its socket. What can go wrong is where these two worlds meet: every
caller must be resumed exactly once, memory that crosses by raw pointer must outlive its
users, the queue must neither go deaf nor starve an operation, and a timeout, a late
answer, a broken socket or a shutdown may come between any two steps. Above it, a few
client operations take many requests, while other clients of the server change what they
work on.

The TLA+ modules here model that core and these operations. TLC checks them on small
instances, TLAPS proves the most important invariants for every value of the constants.

## The system

| Part | Source (`Sources/NFSKit`) | State | Operations |
|---|---|---|---|
| Adaptive depth | `PipelineController.swift` | depth, threshold, phase; one controller per category | `recordSuccess`, `recordFailure`, `reset` |
| Event loop | `NFSEventLoop.swift` | registry of continuations, pending queue, in-flight counts, the libnfs context, timer, export query | `submit`, operations on handles, `mount`, `getexports`, I/O events, `scanForTimeouts`, `shutdown`, `deinit` |
| Dispatch sources | `NFSEventLoop.swift` | read and write source, recorded descriptor and inode, suspension flag; the same for the export query | `setupSources`, `cancelSources`, `updateWriteSource`, `handleIOEvent` |
| Transfers | `NFSEventLoop.swift`, `NFSClient.swift`, `ReadBuffer.swift` | buffers lent to libnfs, a `ReadBuffer` shared by the chunks of one file | `readFile`, `preadFile`, `writeFile`, `pwriteFile`, `preadIntoBuffer`, `contents(atPath:)` |
| Handle registry | `NFSEventLoop.swift`, `NFSFileHandle.swift` | `nfsfh` pointers by ID; the log handler's box | `openFile`, `opendir`, `readdirAll`, operations on handles, `closeFile`, close on `deinit`, `setLogHandler`, shutdown |
| Batch | `OperationBatch.swift` | a window of child tasks | used by tests only |
| Client | `NFSClient.swift` | what a running call keeps between its requests | `contents(atPath:)`, `write(data:toPath:)`, `removeItem(atPath:)`; the others forward one call |
| Configuration, conversions | `NFSEventLoop.swift`, `NFSStats.swift`, `NFSSecurity.swift`, `Extensions.swift`, `Parser.swift` | none | setters, getters, formatting |

How they interact. A caller suspends in `withCheckedThrowingContinuation` and its block
is enqueued. The block registers a `CallbackData`, hands a retained pointer to libnfs
together with the request, and counts a slot in the pipeline of the request's category;
a submitted call that finds the pipeline full is queued instead. libnfs runs the
callback from `nfs_service` (inside `handleIOEvent`), sometimes before the request
function returns, or from `nfs_destroy_context`. The callback takes the `CallbackData`
back, runs the completion hook (registry, slot, depth, pending operations) and resumes
the caller. A one-second timer resumes overdue callers but cannot take a request back
from libnfs. libnfs replaces its socket when it likes. An open file is a pointer in the
loop's registry and an ID in an `NFSFileHandle`, whose `deinit` queues a block that runs
the synchronous `nfs_close`: libnfs then services its socket, and runs callbacks, inside
that block.

What is hard: the nesting of callbacks within a block, late callbacks of calls that are
long over, teardown that runs callbacks half way through, sockets replaced under the
same descriptor number, buffers and handles whose owner has given up, removals and
writes that strike after their caller has gone on, and trees that change while they are
being removed. `PROJECT.json` lists these hazards at their lines.

What makes each part correct: a depth that stays in bounds and recovers; a call that
returns once, and does return; bookkeeping that agrees with libnfs; sources that watch
the socket in use and whose suspensions balance; buffers freed once, and not while
libnfs points into them; handles closed once, none lost and none closed under an
operation that is awaited; a removal that is complete when it says so and touches
nothing else; a file that holds what was written although attempts failed before.

## The modules

* `PipelineController` - the controller as a record and operators on it. The code's
  `Double` is fixed point here, in parts of `1/Unit`; halving and the reciprocal round
  down to a part. `RecordRepeatedly` is the code's loop over several completions.
  `AdaptiveDepth` drives one controller by any sequence of results and resets.
* `EventLoop` extends `PipelineController`. Everything the loop keeps is touched on one
  serial queue only, so each block that runs there is one action. What nests within a
  block goes through the record `loop`, and each function of the source that works on it
  is an operator from records to (sets of) records, so that `HandleIOEvent` reads like
  the call chain `nfs_service` - `nfsCallback` - `handleCallbackCompletion` -
  `issuePendingOperations`. libnfs is the environment: it refuses a request, accepts it,
  answers later, answers inline (close and seek), cancels on destruction, or drops a
  mount or export query that is still connecting. A call is a member of `SubmitOps`,
  `BulkOps`, `HandleOps`, `MountOps` or `ExportOps` and is made at most once. Time is
  the order in which active calls started: a scan times out a set of calls closed under
  "older". An `nfs_service` that delivers several answers is several steps.
* `Completion` - the abstract promise: a call may wait and then returns one result, once
  and for good; one block starts at most one call. `EventLoop` implements it with `reply
  <- loop.reply` (property `CompletesOnce`).
* `SocketSources` - two pairs of sources. A socket is its number of opening and a
  descriptor number; a source only fires while its own socket is in use. The code's flag
  and libdispatch's suspension count are kept apart, and a source resumed too often or
  released while suspended is a trap. Sockets in `Opaque` report inode 0. `Deinit` drops
  whatever references are left, also those that `shutdownWithError` has passed over.
  `CloseFileFireAndForget` is the synchronous `nfs_close`, which may change the socket
  with no test for it afterwards; callbacks it runs may still adjust the write source.
  `unseen` remembers that something changed.
* `TransferBuffers` - memory as `none, allocated, data, freed, corrupt` for each read
  and write, and for the buffer of one `contents(atPath:)`. The loop is reduced to what
  reaches a buffer: refused, answered, timed out, torn down.
* `HandleRegistry` - the life of a handle: `SubmitOpen`, `AnswerOpen`, the second block
  of `openFile` (`RegisterHandle`), the token in its caller's hands (`CallOp`,
  `CallCloseFile`, `DropToken`) and the blocks these queue. Unlike in `EventLoop`, a
  caller's steps and the blocks it queues are separate actions, so that timeouts and
  shutdowns fall between them. While `nfs_close` runs (`closing`), no other block does,
  but libnfs goes on answering; it may be refused, give up, or never return. `releases`
  counts how often a handle was given up to libnfs, `lost` holds the handles on which
  the code gives up: an open answered after its timeout, and a close that libnfs refuses
  or abandons, be it `closeFile`'s or the unchecked `nfs_close` of a token's `deinit`. A
  token can be dropped while its `closeFile`, which takes only the ID, is under way. The
  log handler's box is here too, since it shares the fate of the registry at shutdown. A
  file's pointer is known by the call that opened it. The pipeline is left out; a
  request is refused, answered, answered late or cut short.
* `RemoveItem` - `removeItem(atPath:)` as an explicit stack of listings (`depth`,
  `dirs`, `items`), one action per awaited request, and the server's tree, which other
  clients change at any time. An entry stands for a name in a directory, so a path is
  the sequence of entries it leads through, and `Found` is its look-up. `stat` and
  `opendir` follow a link at the end of the path, `unlink` and `rmdir` do not. A removal
  that timed out stays in `late` and may strike at any later time; it names its entry,
  so a path that leads elsewhere by then is not modelled. Other clients make no links.
* `WholeFiles` - the loops of `write(data:toPath:)` and of the sequential read, on one
  file of `Size` units of which unit i belongs at place i. The write is retried with the
  same data, and requests of attempts that timed out land whenever they like. The
  position libnfs keeps in the handle (`wpos`) and the loop's `offset` are kept apart,
  because the code does not look at the count a write returns, which may be zero. Each
  turn of the read loop is a test (`LoopTest`) and an answer: some units (`ReadChunk`)
  or none (`EmptyChunk`, which ends it).
* `MCEventLoop`, `MCTransferBuffers` - symmetry for model checking; `MCRemoveItem` - the
  tree. The other modules are checked as they are.
* `PipelineControllerProofs`, `AdaptiveDepthProofs`, `EventLoopProofs`,
  `SocketSourcesProofs`, `TransferBuffersProofs`, `HandleRegistryProofs`,
  `RemoveItemProofs`, `WholeFilesProofs` - the proofs.

`HandleRegistry`, `RemoveItem` and `WholeFiles` rely on what `EventLoop` promises a
caller (`Completion`: one result per call, and, with the timer, some result), and not on
its inside; their timeouts are `EventLoop`'s `ScanForTimeouts`, and the requests they
leave behind are its calls with reply `ETIMEDOUT` and rpc `sent`.

An operator named after a definition with a suffix (`ResumeUnguarded`,
`RecordCompletionKeepsSlot`, `ChangedTrustsInode` ...) is a plausible slip in that code.
Nothing uses it; replacing the definition by it must break the property that
`PROJECT.json` pairs it with.

## What the runs check

| Run | Checks |
|---|---|
| `adaptive_depth` | The controller with the code's defaults (1..32, 2, 16) in thirty-seconds of a slot: bounds, a window of successes adds at most one slot, and once only successes come the depth reaches its maximum and stays there. |
| `event_loop` | Two submitted calls, two handle operations and a mount on a pipeline of depth 1 to 3 with a queue of 1, and a bulk operation. The registry holds exactly the suspended callers; callback data is alive; a closed loop is quiet; results mean what they say; the in-flight count is too high by at most one, though two callbacks may run inline, and too low only by calls that timed out and mounts that were answered; queued work waits only while the pipeline is full but for that one; nothing is sent twice; `Completion` is implemented; a deinit off the queue never meets a callback unless a call timed out. |
| `event_loop_exports` | Two export queries with their own RPC context, a submitted call, a bulk operation and a mount, with the timer: one query at a time, its context released however it ends, the depths adapted once for each callback and each timeout and for nothing else, and every waiting call returns. |
| `socket_sources` | Five sockets on two descriptor numbers, two of them without an inode: no trap, but for a `deinit` after a socket failure with an export query out; never deaf and write interest served, unless an `nfs_close` on the queue changed the socket since. |
| `transfer_buffers` | Two reads, a write, and a file of two chunks: no double free, no early free, reads leak nothing, a returned file is no longer written to, and awaiting all chunks protects their buffer as long as no timeout has resumed one early. |
| `handle_registry` | Two files, a directory, an operation at a time, two log handlers: every handle is given up once, IDs lead to their own open handles, an awaited operation keeps its handle unless `closeFile` took it, no handle is orphaned but by a late open or a refused close, a log message never reaches a released box; the handle of a dropped token is closed and every operation returns, unless an `nfs_close` never comes back. |
| `remove_item` | A tree of three levels with a link out of it to a directory, one to a file and one back to its root; others create and remove three of the entries. Only what can be walked to is removed; a normal return means all is gone at that moment; the call ends even when links lead in circles. |
| `whole_files` | A file of two chunks, the second a short one, written in up to three attempts, and read meanwhile: a write that returns is complete whatever earlier attempts left behind, a read misplaces nothing and sees an earlier write whole, both end. |

Four runs show where the code does not do what its comments or documentation say:

| Run | Shows |
|---|---|
| `inline_close` | A callback run inline costs a slot for good; at depth one a later submitted call never returns although the server answers everything. |
| `read_buffer_timed` | A timed-out chunk lets the shared `ReadBuffer` be freed while libnfs still points into it. |
| `short_contents` | `contents(atPath:)` returns bytes that were never read when a chunk comes back short. |
| `remove_through_link` | `removeItem` of a tree with a symbolic link to a directory empties the directory the link leads to, then fails on the link. |

Other differences between code and documentation show as an exception in a property that
holds, or were met while modelling (lines of `NFSEventLoop.swift` where no file is
named):

* Operations on handles go to libnfs whatever the depth of their pipeline (:1150);
  `openspec/changes/nfs-pipelining/specs/pipelining/spec.md:13-15` has one at a time at
  depth one. `EventLoop` models it so; `OvercountAtMostOne` is about the count.
* A call that times out and is answered later adapts the depth twice and gives back two
  slots (:418, :539-543); a mount or an export query gives back one it never took; an
  export query that `shutdownWithError` cut short is recorded when it is answered
  (:482). `OneRecordPerEvent` counts these records, and `UndercountExplained` the slots:
  each lets one request more than the depth into the pipeline, and nothing else does.
* `shutdownWithError` leaves the export query's context and sources alone, and the
  `performShutdown` of a later `deinit` returns at its guard (:191). The query's write
  source, suspended while its reply is awaited (:369-371), is then released suspended,
  which libdispatch traps; the comment at :129-130 has the context "destroyed when the
  callback fires or on timeout/shutdown". The exception in `SuspensionsBalance`, which
  shows that no other order of steps traps.
* `deinit` may run a callback off the queue and fail its precondition, if the request of
  a timed-out call is still out (:166, against the comment at :62-65): the exception in
  `ResumesOnQueue`, which shows that nothing else can lead there.
* A write that succeeds never frees its buffer: `cleanup` runs on errors only (:739-740,
  against :70-72). `ReadReleased` is therefore about reads.
* The synchronous `nfs_close` (:1686) may replace the socket; no test for it follows,
  and the sources then watch a socket that is gone until something else makes them anew.
  `docs/ARCHITECTURE.md:102` and `:191-198` describe the test after every `nfs_service`
  of the loop. The exception in `WatchesSocket` and `WriteInterestServed`.
  `docs/ARCHITECTURE.md:336` has `nfs_close_async` in its place.
* `closeFile` and `deinit` take the ID out of the registry before the close, not after
  it as in `openspec/changes/nfs-pipelining/specs/async-api/spec.md:40-43`. The code is
  right: `RunCloseFileKeepsID` breaks `ReleasedOnce`.
* A handle whose close libnfs refuses (:1069, and :1686, where the result of `nfs_close`
  is dropped), or whose open is answered after the timeout, stays open until the context
  goes: the exception `lost` in `NoOrphans` and `DroppedIsClosed`.
* `nfs_close` blocks the queue until it is answered (:1686; the comment at :218-220
  gives that as the reason not to call it in `performShutdown`). If no answer comes, no
  block runs any more, the timeout scan included, and every caller waits for ever: the
  exception `[](closing # None)` in `DroppedIsClosed` and `OpsReturn`.
* `shutdownWithError` (:482) releases neither the log handler's box nor the registry,
  and no later shutdown does; both are harmless (`LogCallbackAlive`, `ReleasedOnce`).
* `write(data:toPath:)` drops the count of a write (`NFSClient.swift:303`): a chunk
  taken in part leaves the rest misplaced. And the `O_TRUNC` of an open that timed out
  may empty a file that a retry has finished. The exceptions in `RetryIsSafe`.

**Bounds.** In `event_loop` the two handle operations, which heed no depth, fill the
pipeline for the two submitted calls, so that waiting, a full queue (`ENOBUFS`) and
issuing from every handler happen; three slots let a freed slot be refused, refilled and
overcounted; two handle operations let two callbacks run inline, so that a second
miscount would show, one mount starts sources and timer, and the bulk operation fills
the other pipeline. A pass over a queue of two operations is beyond this run and left to
the theorems. `Unit = 2` is the coarsest resolution with a fractional depth.
`event_loop_exports` needs two queries for `EBUSY` and for a query after one that timed
out; its depth reaches 4, so that two failures at once differ from one. In
`socket_sources` both contexts compete for two numbers, so that the other's old number
is reused too; five sockets leave three replacements after the first socket of each. In
`transfer_buffers` two reads differ in how they end, and two chunks are the least with
one outstanding when the other fails. In `handle_registry` two files are the least that
could get each other's ID, and one operation, which may be made again and again, the
least to be overtaken by a close; two log handlers let one replace the other.
`remove_item` allows four nested listings, so that the link back to the root is walked
and the tree entered again before the path is too long. `whole_files` has a whole and a
partial chunk, and three attempts, so that leftovers of two may meet the third. Symmetry
is used only where no liveness property is checked. Deadlock is not an error in any run
but `adaptive_depth`, as all these systems do stop: the calls have been made, or the
loop is closed or freed.

**Fairness.** `AdaptiveDepth` assumes that operations keep completing; `Recovers` is
about the behaviours in which from some time on they succeed. `TimedSpec` assumes that
the repeating timer keeps firing while it exists and that an active call becomes overdue
eventually; nothing is assumed of server or socket, but tacitly that no `nfs_close`
holds the queue for ever, which `EventLoop` does not model and `HandleRegistry` does.
`ResponsiveSpec`, used by `inline_close`, assumes more than any server gives (every
request is answered): the starvation it shows is not for want of fairness.
`HandleRegistry`'s `FairSpec` assumes that a serial queue runs every block and that the
timer goes on (it runs since the mount, and `timeout` is not 0), whenever no `nfs_close`
is running. Nothing is assumed of the server's answers, and so not that `nfs_close`
returns: NFSKit sets no RPC timeout of its own. `RemoveItem` and `WholeFiles` assume
that each awaited request is answered or times out, which is `TimedCallsReturn`. Safety
needs none.

## What is proved

Type correctness of every module is proved and not repeated in every run; so are
`PendingUnsent`, `SlowStartBelowThreshold` and `NeverReentersSlowStart`, parts of the
inductive invariants or their consequences. For all finite sets of calls, all
capacities, depth limits and resolutions allowed by `LoopAssumption`, `DepthAssumption`,
`SourcesAssumption`, `BuffersAssumption`, `RegistryAssumption`, `TreeAssumption` and
`FilesAssumption`:

* `AdaptiveDepthProofs` and `PipelineControllerProofs`: the depth stays in its bounds,
  slow start is below the threshold, only a reset returns to it. The invariant is the
  conjunction of the first two; it is inductive because a failure sets the phase with
  the threshold. `WindowGrowsByOne` holds for a window of any size: along a run of
  successes the depth only grows, each of which then adds at most a window's share of
  one slot (`WindowOfReciprocals`). That the run exists, and what holds along it, is
  shown by induction in the form of a set of numbers (`NatSetInduction`), which needs no
  operator as a parameter; in the same way it is shown that reporting m and then n
  completions is reporting m + n (`RepeatedInTwo`), on which the event loop's proofs
  rest.
* `EventLoopProofs`: type correctness, `WaitingIsActive`, `CallbackDataAlive`,
  `PendingUnsent`, `ClosedIsQuiet`, `ExportsExclusive`, `NeverSentTwice`, and that the
  loop implements `Completion`. None of them is inductive alone. `Consistent` adds what
  a late callback needs: whoever still points to a `CallbackData` finds that it guards a
  waiting caller or has been resumed. It is stated on the record, so that it can be
  carried through the handlers that nest within one block, during which a call may be
  out of the registry but not yet resumed (`Detached`). There is one lemma per operator
  of the model (it keeps a record consistent and never revives a call), one per action,
  and the refinement comes out of the same step lemma. `DefiniteOutcomes` follows from
  what `Consistent` says of a call's result, of its request and of the queue (`Told`). A
  second layer, `OpenInv`, is inductive together with `Inv` and gives `ExportsReleased`,
  `OvercountAtMostOne`, `WorkConserving` and `ResumesOnQueue`. The counts are compared
  with the requests libnfs holds by `Counted(s, n)`, n being the lead the counts may
  have: the lead is 1 at most, because only a callback that runs inline, with the count
  at 0, loses its decrement, and every nested handler keeps the lead it starts with
  (`Records`). `WorkConserving` needs, beside the lead, that until a call times out the
  queue holds an operation only while the counted slots are all in use
  (`QueuedWhenFull`): every pass over the queue ends so. The step lemmas of this layer
  also say what a block settles (`Settled`): it answers a set A of requests and times
  out a set T of calls, each reported once to its controller (`Advances`), and loses
  count of no more than T and the mounts and export queries of A (`Loses`). Both compose
  along nested handlers, and give `OneRecordPerEvent` and `UndercountExplained`.
* `SocketSourcesProofs`: all properties of the run, `SuspensionsBalance` with its one
  exception. The heart is `ReplacedSocketNoticed`: a recorded inode belongs to an
  earlier socket, so the test in `handleIOEvent` finds every replaced socket, also one
  that reuses the number and one without an inode. This rests on libnfs's sockets having
  inodes not used before on this connection, or inode 0, which is how sockets are
  modelled. An `nfs_close` suspends the invariant on the main pair until the sources are
  set up again; that inodes are old and suspensions balance holds throughout.
* `TransferBuffersProofs`: all properties of the run. A buffer changes hands with its
  request; the call that reads a file is over only when none of its chunks waits.
* `HandleRegistryProofs`: all invariants of the run. `Inv` adds what each stage of an
  open call implies for libnfs's side (`OpenInv`), that IDs are given out once and an
  entry belongs to a token that still has to be closed (`IDInv`), that at most one close
  of a handle is with libnfs (`CloseInv`), and that an awaited call keeps its token
  alive (`OpInv`): the last is why a `deinit` cannot close a handle under a caller.
* `RemoveItemProofs`: the invariant of the run and the action property
  `SuccessMeansGone`, for every tree, every set of links and every depth.
  `OnlyReachable` follows by showing that the stack, the listings and the late removals
  never leave any set that is closed under walking (`WalkInv`). `SuccessMeansGone` needs
  `TreeInv`: what exists is in a directory, so nothing hangs beneath an entry that is
  gone. `QuietAfterSuccess` adds that a removal that returned has left no late request
  behind.
* `WholeFilesProofs`: all invariants of the run. As long as the server takes whole
  chunks, every request, the late ones included, puts each unit where it belongs
  (`PlaceInv`); a late write therefore never undoes what a retry has written
  (`WrittenInv`), and only a late `O_TRUNC` can.

Every safety property that a passing run checks is thus proved, the invariants and the
action properties. Only model-checked are `TimedCallsReturn`, `Recovers`,
`DroppedIsClosed`, `OpsReturn`, `Terminates` and `BothEnd`, since liveness and `ENABLED`
are out of the provers' reach. No proved module uses a `RECURSIVE` operator, for which
the SMT backend is lost.

## What is not modelled, and the plan

Not modelled: configuration setters and getters (one libnfs call under `queue.sync`),
statistics, security flavours, attribute and date formatting, the attributes of listed
entries, client calls that forward a single request, and libnfs itself beyond the
behaviour named above. `submitWithStatus` is the same as `submit`. `OperationBatch`, a
window of child tasks that only its own tests use, keeps no state between calls. Nothing
is persisted, so there is no restart to model: a new connection is a new loop.

The state of every component that keeps any is modelled and every safety property of the
runs is proved. What is left: `nfs_close` as a block of `EventLoop` that may hold the
queue, so that `TimedCallsReturn` states its exception; and facts towards the liveness
properties that are themselves safety (a waiting call of a mounted loop always has its
timer; a nested listing leaves fewer steps to go), so that what TLC alone shows becomes
smaller.
