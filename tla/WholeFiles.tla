----------------------------- MODULE WholeFiles -----------------------------
(***************************************************************************)
(* The loops of Sources/NFSKit/NFSClient.swift that move a file chunk by   *)
(* chunk through one handle: write(data:toPath:) and the sequential read   *)
(* of contents(atPath:) for files past the buffer threshold.               *)
(*                                                                         *)
(* A client writes a file, and writes the same data again when an attempt  *)
(* fails; a request whose caller has timed out stays with libnfs and       *)
(* reaches the server at any later time.  Meanwhile somebody reads.        *)
(***************************************************************************)
EXTENDS Integers

CONSTANTS
    Size,         \* units of data to write
    ChunkSize,    \* units the loops move at a time
    MaxAttempts   \* bound: calls of write

ASSUME FilesAssumption ==
    /\ Size \in Nat \ {0}
    /\ ChunkSize \in Nat \ {0}
    /\ MaxAttempts \in Nat

Places == 1 .. Size
Beyond == -1

VARIABLES
    file,      \* what the server has at each place: a unit of the data, 0, or Beyond
    late,      \* requests given up on by a timeout that libnfs still holds
    wpc,       \* the await the writer is at, or its outcome
    attempts,  \* attempts begun
    woffset,   \* offset in write(data:toPath:)
    wpos,      \* the file position libnfs keeps for the writer's handle
    doubts,    \* history: "short" when the server took less of a chunk than it was
               \* given, "open" when an open timed out
    rpc,       \* the await the reader is at, the top of its loop, or its outcome
    fileSize, roffset,
    result,    \* data, as far as it was read; Beyond past its end
    fresh      \* history: the read began when the write had returned

writerVars == <<wpc, attempts, woffset, wpos, doubts>>
readerVars == <<rpc, fileSize, roffset, result, fresh>>
vars == <<file, late, writerVars, readerVars>>

Least(a, b) == IF a < b THEN a ELSE b

\* The server's file after n units from the data's offset have been put at pos;
\* what lies between the end of the file and pos reads as zeros.
Put(pos, offset, n) ==
    [i \in Places |->
        IF i \in pos + 1 .. pos + n THEN i - pos + offset
        ELSE IF n > 0 /\ i <= pos /\ file[i] = Beyond THEN 0
        ELSE file[i]]

\* How long the server's file is, as fstat has it.
IsLength(n) ==
    /\ n \in 0 .. Size
    /\ \A i \in Places : i <= n <=> file[i] # Beyond

Init ==
    /\ file = [i \in Places |-> Beyond]
    /\ late = {}
    /\ wpc = "open"
    /\ attempts = 1
    /\ woffset = 0
    /\ wpos = 0
    /\ doubts = {}
    /\ rpc = "stat"
    /\ fileSize = 0
    /\ roffset = 0
    /\ result = [i \in Places |-> Beyond]
    /\ fresh = FALSE

-----------------------------------------------------------------------------
(* write(data:toPath:).                                                     *)

\* openFile with O_TRUNC, and the handle starts at the beginning; or the request
\* fails, and when that is a timeout libnfs still holds it.
Open ==
    /\ wpc = "open"
    /\ woffset' = 0
    /\ wpos' = 0
    /\ \/ /\ wpc' = "write"
          /\ file' = [i \in Places |-> Beyond]
          /\ UNCHANGED <<late, doubts>>
       \/ /\ wpc' = "failed"
          /\ UNCHANGED <<file, late, doubts>>
       \/ /\ wpc' = "failed"
          /\ late' = late \cup {[op |-> "open", pos |-> 0, offset |-> 0, n |-> 0]}
          /\ doubts' = doubts \cup {"open"}
          /\ UNCHANGED file
    /\ UNCHANGED <<attempts, readerVars>>

\* The chunk of this round of the loop.
Chunk == Least(ChunkSize, Size - woffset)

WriteChunkFromStart(n) ==
    /\ wpc = "write"
    /\ woffset < Size
    /\ n \in 0 .. Chunk
    /\ file' = Put(wpos, 0, n)
    /\ wpos' = wpos + n
    /\ woffset' = woffset + Chunk
    /\ doubts' = IF n < Chunk THEN doubts \cup {"short"} ELSE doubts
    /\ wpc' \in {"write", "failed"}
    /\ UNCHANGED <<late, attempts, readerVars>>

\* A round of the loop: the chunk goes to the handle's position and the server
\* takes n units of it, if any.  The count is not looked at: offset moves past the
\* chunk.
\* The progress handler may stop the call.
WriteChunk(n) ==
    /\ wpc = "write"
    /\ woffset < Size
    /\ n \in 0 .. Chunk
    /\ file' = Put(wpos, woffset, n)
    /\ wpos' = wpos + n
    /\ woffset' = woffset + Chunk
    /\ doubts' = IF n < Chunk THEN doubts \cup {"short"} ELSE doubts
    /\ wpc' \in {"write", "failed"}
    /\ UNCHANGED <<late, attempts, readerVars>>

\* The task is cancelled, or the request fails; when that is a timeout libnfs
\* still holds it.
WriteFails ==
    /\ wpc = "write"
    /\ woffset < Size
    /\ wpc' = "failed"
    /\ \/ UNCHANGED late
       \/ late' = late \cup {[op |-> "write", pos |-> wpos, offset |-> woffset, n |-> Chunk]}
    /\ UNCHANGED <<file, attempts, woffset, wpos, doubts, readerVars>>

\* The loop has ended: fsync.
Fsync ==
    /\ wpc = "write"
    /\ woffset >= Size
    /\ wpc' \in {"returned", "failed"}
    /\ UNCHANGED <<file, late, attempts, woffset, wpos, doubts, readerVars>>

\* The caller tries again with the same data.
Retry ==
    /\ wpc = "failed"
    /\ attempts < MaxAttempts
    /\ attempts' = attempts + 1
    /\ wpc' = "open"
    /\ UNCHANGED <<file, late, woffset, wpos, doubts, readerVars>>

\* A request whose caller has timed out reaches the server after all; the
\* O_TRUNC of an open takes effect then.
LateRequest(r) ==
    /\ r \in late
    /\ late' = late \ {r}
    /\ file' = IF r.op = "open" THEN [i \in Places |-> Beyond] ELSE Put(r.pos, r.offset, r.n)
    /\ UNCHANGED <<writerVars, readerVars>>

-----------------------------------------------------------------------------
(* contents(atPath:), and contentsUsingLegacyChunkedRead.                   *)

\* openFile and fstat; an empty file is returned at once.
Fstat ==
    /\ rpc = "stat"
    /\ \E n \in 0 .. Size :
          /\ IsLength(n)
          /\ fileSize' = n
          /\ rpc' \in {IF n = 0 THEN "returned" ELSE "loop", "failed"}
    /\ fresh' = (wpc = "returned")
    /\ UNCHANGED <<file, late, writerVars, roffset, result>>

\* The top of the loop: cancellation is looked for, and the next chunk asked for;
\* or everything fstat promised is there.
LoopTest ==
    /\ rpc = "loop"
    /\ IF roffset < fileSize THEN rpc' \in {"read", "failed"} ELSE rpc' = "returned"
    /\ UNCHANGED <<file, late, writerVars, fileSize, roffset, result, fresh>>

ReadChunkCountsRequested ==
    /\ rpc = "read"
    /\ \E m \in 1 .. Least(ChunkSize, fileSize - roffset) :
          /\ file[roffset + m] # Beyond
          /\ result' = [i \in Places |-> IF i \in roffset + 1 .. roffset + m THEN file[i]
                                         ELSE result[i]]
          /\ roffset' = roffset + Least(ChunkSize, fileSize - roffset)
          /\ rpc' \in {"loop", "failed"}
    /\ UNCHANGED <<file, late, writerVars, fileSize, fresh>>

\* The server answers with what it has at the handle's position, maybe with less
\* than was asked for.  The progress handler may stop the call.
ReadChunk ==
    /\ rpc = "read"
    /\ \E m \in 1 .. Least(ChunkSize, fileSize - roffset) :
          /\ file[roffset + m] # Beyond
          /\ result' = [i \in Places |-> IF i \in roffset + 1 .. roffset + m THEN file[i]
                                         ELSE result[i]]
          /\ roffset' = roffset + m
          /\ rpc' \in {"loop", "failed"}
    /\ UNCHANGED <<file, late, writerVars, fileSize, fresh>>

EmptyChunkGoesOn ==
    /\ rpc = "read"
    /\ file[roffset + 1] = Beyond
    /\ rpc' = "loop"
    /\ UNCHANGED <<file, late, writerVars, fileSize, roffset, result, fresh>>

\* An empty chunk, which breaks the loop.
EmptyChunk ==
    /\ rpc = "read"
    /\ file[roffset + 1] = Beyond
    /\ rpc' = "returned"
    /\ UNCHANGED <<file, late, writerVars, fileSize, roffset, result, fresh>>

\* The request fails.
ReadFails ==
    /\ rpc = "read"
    /\ rpc' = "failed"
    /\ UNCHANGED <<file, late, writerVars, fileSize, roffset, result, fresh>>

-----------------------------------------------------------------------------
Writer == Open \/ (\E n \in 0 .. Size : WriteChunk(n)) \/ WriteFails \/ Fsync
Reader == Fstat \/ LoopTest \/ ReadChunk \/ EmptyChunk \/ ReadFails

Next == Writer \/ Retry \/ (\E r \in late : LateRequest(r)) \/ Reader

\* Every request of the two is answered or times out.
Spec == Init /\ [][Next]_vars /\ WF_vars(Writer) /\ WF_vars(Reader)

-----------------------------------------------------------------------------
(* Properties.                                                              *)

\* Type correctness; the handle's position never overtakes the loop's.
TypeOK ==
    /\ file \in [Places -> (0 .. Size) \cup {Beyond}]
    /\ late \subseteq [op : {"open", "write"}, pos : 0 .. Size, offset : 0 .. Size, n : 0 .. Size]
    /\ wpc \in {"open", "write", "returned", "failed"}
    /\ attempts \in Nat
    /\ woffset \in 0 .. Size
    /\ wpos \in 0 .. woffset
    /\ doubts \subseteq {"short", "open"}
    /\ rpc \in {"stat", "loop", "read", "returned", "failed"}
    /\ fileSize \in 0 .. Size
    /\ roffset \in 0 .. fileSize
    /\ result \in [Places -> (0 .. Size) \cup {Beyond}]
    /\ fresh \in BOOLEAN

\* A write that returns has left the whole of the data in the file, in spite of
\* earlier attempts that timed out and whose requests reach the server before,
\* between and after its own.  Two things void this: a chunk the server takes only
\* in part, which the loop does not look at, and an attempt whose open timed out,
\* whose O_TRUNC may strike the finished file.
RetryIsSafe == wpc = "returned" /\ doubts = {} => \A i \in Places : file[i] = i

\* The units a place may hold: its own or, once the server has taken less of a
\* chunk than it was given, a later one, which has moved up to close the gap.
MayHold(i) == IF "short" \in doubts THEN i .. Size ELSE {i}

\* A read that goes on while the file is written, and while leftovers of failed
\* attempts land in it, never puts a unit where it does not belong: at every
\* place there is the unit written there, or a hole.  A chunk the server takes only
\* in part displaces what follows it, but towards the front only.
ReadInPlace == \A i \in 1 .. roffset : result[i] \in {0} \cup MayHold(i)

\* A read begun after the write has returned yields the whole file, however
\* little the server sends at a time.
ReadYourWrites ==
    rpc = "returned" /\ fresh /\ doubts = {} => roffset = Size /\ \A i \in Places : result[i] = i

\* Both calls end, although the file the read loop follows may shrink under it and
\* never get as long as fstat said.
BothEnd == <>[](wpc \in {"returned", "failed"} /\ rpc \in {"returned", "failed"})

-----------------------------------------------------------------------------
(* The inductive invariant.                                                 *)

\* A file has no place beyond its end before one within it, and no request
\* carries more than there is.
FileInv ==
    /\ \A i, j \in Places : i <= j /\ file[j] # Beyond => file[i] # Beyond
    /\ \A r \in late : r.pos <= r.offset /\ r.offset + r.n <= Size

\* No request, late ones included, puts a unit behind its own place, and as long
\* as the server takes whole chunks each puts it there.
PlaceInv ==
    /\ "short" \notin doubts => wpos = woffset /\ \A r \in late : r.pos = r.offset
    /\ \A i \in Places : file[i] \in {0, Beyond} \cup MayHold(i)
    /\ ReadInPlace

\* As long as no open is overdue either, what an attempt has written stays.
WrittenInv ==
    /\ wpc = "returned" => woffset = Size
    /\ doubts = {} =>
          /\ \A r \in late : r.op = "write"
          /\ wpc \in {"write", "returned"} => \A i \in 1 .. woffset : file[i] = i

\* A read begun after the write sees the whole file.
FreshInv ==
    /\ rpc = "stat" => roffset = 0
    /\ rpc = "read" => roffset < fileSize
    /\ fresh => wpc = "returned"
    /\ fresh /\ doubts = {} /\ rpc \in {"loop", "read", "returned"} =>
          /\ fileSize = Size
          /\ \A i \in 1 .. roffset : result[i] = i
          /\ rpc = "returned" => roffset = Size

Inv ==
    /\ TypeOK
    /\ FileInv
    /\ PlaceInv
    /\ WrittenInv
    /\ FreshInv
=============================================================================
