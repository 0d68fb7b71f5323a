--------------------------- MODULE WholeFilesProofs ---------------------------
(***************************************************************************)
(* A retried write is safe and a read sees what was written, for any size  *)
(* of file and chunk and any number of attempts.  The argument: a request  *)
(* carries its own place, so it may reach the server at any time and any   *)
(* number of attempts may overlap; after a chunk taken in part it carries  *)
(* a place nearer to the front.                                            *)
(***************************************************************************)
EXTENDS WholeFiles, TLAPS

USE FilesAssumption DEF Places, Beyond

-----------------------------------------------------------------------------
(* The server's file.                                                       *)

\* What a write makes of the file.
LEMMA PutFile ==
    ASSUME TypeOK, FileInv, NEW pos \in 0 .. Size, NEW offset \in 0 .. Size,
           NEW n \in 0 .. Size, offset + n <= Size, file' = Put(pos, offset, n)
    PROVE  /\ file' \in [Places -> (0 .. Size) \cup {Beyond}]
           /\ \A i, j \in Places : i <= j /\ file'[j] # Beyond => file'[i] # Beyond
           /\ pos = offset =>
                 \A i \in Places :
                     /\ file[i] = i => file'[i] = i
                     /\ i \in pos + 1 .. pos + n => file'[i] = i
                     /\ file[i] \in {0, Beyond, i} => file'[i] \in {0, Beyond, i}
           /\ pos <= offset =>
                 \A i \in Places :
                     file[i] \in {0, Beyond} \cup i .. Size =>
                         file'[i] \in {0, Beyond} \cup i .. Size
<1>1. \A i \in Places :
         file'[i] = IF i \in pos + 1 .. pos + n THEN i - pos + offset
                    ELSE IF n > 0 /\ i <= pos /\ file[i] = Beyond THEN 0
                    ELSE file[i]
  BY DEF Put
<1>2. file \in [Places -> (0 .. Size) \cup {Beyond}]
  BY DEF TypeOK
<1>3. ASSUME NEW i \in Places, i \in pos + 1 .. pos + n
      PROVE  i - pos + offset \in 1 .. Size
  BY <1>3
<1>4. file' \in [Places -> (0 .. Size) \cup {Beyond}]
  <2>1. \A i \in Places : file'[i] \in (0 .. Size) \cup {Beyond}
    BY <1>1, <1>2, <1>3
  <2>2. file' = [i \in Places |-> file'[i]]
    BY DEF Put
  <2> QED BY <2>1, <2>2
<1>5. ASSUME NEW i \in Places, NEW j \in Places, i <= j, file'[j] # Beyond
      PROVE  file'[i] # Beyond
  <2>1. CASE i \in pos + 1 .. pos + n
    BY <1>1, <1>3, <2>1
  <2>2. CASE i <= pos /\ n > 0
    BY <1>1, <2>2
  <2>3. CASE i > pos + n \/ n = 0
    <3>1. file'[j] = file[j] /\ file'[i] = file[i]
      BY <1>1, <1>5, <2>3
    <3> QED BY <1>5, <3>1 DEF FileInv
  <2> QED BY <2>1, <2>2, <2>3
<1>6. ASSUME pos = offset, NEW i \in Places
      PROVE  /\ file[i] = i => file'[i] = i
             /\ i \in pos + 1 .. pos + n => file'[i] = i
             /\ file[i] \in {0, Beyond, i} => file'[i] \in {0, Beyond, i}
  <2>1. CASE i \in pos + 1 .. pos + n
    <3>1. file'[i] = i - pos + offset
      BY <1>1, <2>1
    <3> QED BY <1>6, <3>1
  <2>2. CASE i \notin pos + 1 .. pos + n
    BY <1>1, <2>2
  <2> QED BY <2>1, <2>2
<1>7. ASSUME pos <= offset, NEW i \in Places, file[i] \in {0, Beyond} \cup i .. Size
      PROVE  file'[i] \in {0, Beyond} \cup i .. Size
  <2>1. CASE i \in pos + 1 .. pos + n
    <3>1. file'[i] = i - pos + offset
      BY <1>1, <2>1
    <3>2. i - pos + offset \in i .. Size
      BY <1>3, <1>7, <2>1
    <3> QED BY <3>1, <3>2
  <2>2. CASE i \notin pos + 1 .. pos + n
    BY <1>1, <1>7, <2>2
  <2> QED BY <2>1, <2>2
<1> QED BY <1>4, <1>5, <1>6, <1>7

\* An emptied file.
LEMMA EmptyFile ==
    ASSUME file' = [i \in Places |-> Beyond]
    PROVE  /\ file' \in [Places -> (0 .. Size) \cup {Beyond}]
           /\ \A i, j \in Places : i <= j /\ file'[j] # Beyond => file'[i] # Beyond
           /\ \A i \in Places : file'[i] = Beyond
OBVIOUS

\* Units are only ever displaced towards the front.
LEMMA MayHoldBounds ==
    ASSUME NEW i \in Places
    PROVE  i \in MayHold(i) /\ MayHold(i) \subseteq i .. Size
BY DEF MayHold

\* The chunk of a round that is still to be made.
LEMMA ChunkBounds ==
    ASSUME TypeOK, woffset < Size
    PROVE  /\ Chunk \in 1 .. Size
           /\ woffset + Chunk \in 1 .. Size
BY DEF TypeOK, Chunk, Least

-----------------------------------------------------------------------------
(* The writer.                                                              *)

\* The initial state satisfies the invariant.
LEMMA InvInit == Init => Inv
<1> SUFFICES ASSUME Init PROVE Inv
  OBVIOUS
<1>1. TypeOK
  <2>1. fresh \in BOOLEAN
    BY DEF Init
  <2>2. /\ file \in [Places -> (0 .. Size) \cup {Beyond}]
        /\ result \in [Places -> (0 .. Size) \cup {Beyond}]
    BY DEF Init
  <2>3. attempts \in Nat /\ woffset \in 0 .. Size /\ wpos \in 0 .. woffset
    BY DEF Init
  <2>4. fileSize \in 0 .. Size /\ roffset \in 0 .. fileSize
    BY DEF Init
  <2> QED BY <2>1, <2>2, <2>3, <2>4 DEF Init, TypeOK
<1>2. FileInv /\ PlaceInv
  BY DEF Init, FileInv, PlaceInv, ReadInPlace, MayHold
<1>3. WrittenInv /\ FreshInv
  BY DEF Init, WrittenInv, FreshInv
<1> QED BY <1>1, <1>2, <1>3 DEF Inv

\* An open that succeeds starts from an empty file; one that times out is on
\* record.
LEMMA OpenStep == Inv /\ Open => Inv'
<1> SUFFICES ASSUME Inv, Open PROVE Inv'
  OBVIOUS
<1> USE DEF readerVars
<1> DEFINE r0 == [op |-> "open", pos |-> 0, offset |-> 0, n |-> 0]
<1>1. /\ wpc = "open" /\ woffset' = 0 /\ wpos' = 0 /\ UNCHANGED <<attempts, readerVars>>
      /\ \/ wpc' = "write" /\ file' = [i \in Places |-> Beyond] /\ UNCHANGED <<late, doubts>>
         \/ wpc' = "failed" /\ UNCHANGED <<file, late, doubts>>
         \/ /\ wpc' = "failed" /\ late' = late \cup {r0}
            /\ doubts' = doubts \cup {"open"} /\ UNCHANGED file
  BY DEF Open
<1>2. /\ r0 \in [op : {"open", "write"}, pos : 0 .. Size, offset : 0 .. Size, n : 0 .. Size]
      /\ r0.pos = 0 /\ r0.offset = 0 /\ r0.n = 0
  OBVIOUS
<1> HIDE DEF r0
<1>3. file' \in [Places -> (0 .. Size) \cup {Beyond}]
  BY <1>1, EmptyFile DEF Inv, TypeOK
<1>4. /\ late' \subseteq [op : {"open", "write"}, pos : 0 .. Size, offset : 0 .. Size, n : 0 .. Size]
      /\ doubts' \subseteq {"short", "open"}
  BY <1>1, <1>2 DEF Inv, TypeOK
<1>5. TypeOK'
  BY <1>1, <1>3, <1>4 DEF Inv, TypeOK
<1>6. FileInv'
  BY <1>1, <1>2, EmptyFile DEF Inv, FileInv
<1>7. PlaceInv'
  <2>1. "short" \in doubts' <=> "short" \in doubts
    BY <1>1
  <2>2. \A i \in Places : MayHold(i)' = MayHold(i)
    BY <2>1 DEF MayHold
  <2>3. \A i \in Places : file'[i] \in {0, Beyond} \cup MayHold(i)
    BY <1>1, EmptyFile DEF Inv, PlaceInv
  <2>4. ReadInPlace'
    BY <1>1, <2>1 DEF Inv, PlaceInv, ReadInPlace, MayHold
  <2> QED BY <1>1, <1>2, <2>1, <2>2, <2>3, <2>4 DEF Inv, PlaceInv
<1>8. WrittenInv'
  BY <1>1 DEF Inv, WrittenInv
<1>9. FreshInv'
  BY <1>1 DEF Inv, FreshInv
<1> QED BY <1>5, <1>6, <1>7, <1>8, <1>9 DEF Inv

\* A round of the loop extends what is in place by its chunk.
LEMMA WriteChunkStep == ASSUME Inv, NEW n \in 0 .. Size, WriteChunk(n) PROVE Inv'
<1> USE DEF readerVars
<1>1. /\ wpc = "write" /\ woffset < Size /\ n \in 0 .. Chunk /\ file' = Put(wpos, woffset, n)
      /\ wpos' = wpos + n /\ woffset' = woffset + Chunk
      /\ doubts' = IF n < Chunk THEN doubts \cup {"short"} ELSE doubts
      /\ wpc' \in {"write", "failed"} /\ UNCHANGED <<late, attempts, readerVars>>
  BY DEF WriteChunk
<1>2. /\ TypeOK /\ FileInv /\ woffset \in 0 .. Size /\ wpos \in 0 .. woffset
      /\ Chunk \in 1 .. Size /\ woffset + Chunk \in 1 .. Size
  BY <1>1, ChunkBounds DEF Inv, TypeOK
<1> HIDE DEF Chunk
<1>3. wpos \in 0 .. Size /\ n \in 0 .. Size /\ woffset + n <= Size
  BY <1>1, <1>2
<1>4. /\ file' \in [Places -> (0 .. Size) \cup {Beyond}]
      /\ \A i, j \in Places : i <= j /\ file'[j] # Beyond => file'[i] # Beyond
      /\ wpos = woffset =>
            \A i \in Places :
                /\ file[i] = i => file'[i] = i
                /\ i \in wpos + 1 .. wpos + n => file'[i] = i
                /\ file[i] \in {0, Beyond, i} => file'[i] \in {0, Beyond, i}
      /\ \A i \in Places :
            file[i] \in {0, Beyond} \cup i .. Size => file'[i] \in {0, Beyond} \cup i .. Size
  BY <1>1, <1>2, <1>3, PutFile
<1>5. doubts \subseteq doubts' /\ doubts' \subseteq {"short", "open"}
  BY <1>1, <1>2 DEF TypeOK
<1>6. TypeOK'
  <2>1. woffset' \in 0 .. Size /\ wpos' \in 0 .. woffset'
    BY <1>1, <1>2
  <2> QED BY <1>1, <1>2, <1>4, <1>5, <2>1 DEF TypeOK
<1>7. FileInv'
  BY <1>1, <1>4 DEF Inv, FileInv
<1>8. "short" \notin doubts' => n = Chunk
  BY <1>1, <1>2
<1>9. PlaceInv'
  <2>1. UNCHANGED <<late, roffset, result>> /\ roffset \in 0 .. Size
    BY <1>1, <1>2 DEF TypeOK
  <2>2. CASE "short" \in doubts'
    <3>1. \A i \in Places : MayHold(i)' = i .. Size
      BY <2>2 DEF MayHold
    <3>2. \A i \in Places : file[i] \in {0, Beyond} \cup i .. Size
      BY MayHoldBounds DEF Inv, PlaceInv
    <3>3. \A i \in 1 .. roffset : i \in Places /\ result[i] \in {0} \cup i .. Size
      BY <2>1, MayHoldBounds DEF Inv, PlaceInv, ReadInPlace
    <3> QED BY <1>4, <2>1, <2>2, <3>1, <3>2, <3>3 DEF PlaceInv, ReadInPlace
  <2>3. CASE "short" \notin doubts'
    <3>1. "short" \notin doubts /\ n = Chunk /\ wpos = woffset
      BY <1>5, <1>8, <2>3 DEF Inv, PlaceInv
    <3>2. \A i : MayHold(i)' = {i} /\ MayHold(i) = {i}
      BY <2>3, <3>1 DEF MayHold
    <3>3. \A i \in Places : file'[i] \in {0, Beyond} \cup {i}
      BY <1>4, <3>1, <3>2 DEF Inv, PlaceInv
    <3>4. wpos' = woffset' /\ \A r \in late : r.pos = r.offset
      BY <1>1, <3>1 DEF Inv, PlaceInv
    <3> QED BY <2>1, <3>1, <3>2, <3>3, <3>4 DEF Inv, PlaceInv, ReadInPlace
  <2> QED BY <2>2, <2>3
<1>10. WrittenInv'
  <2>1. ASSUME doubts' = {} PROVE \A i \in 1 .. woffset' : file'[i] = i
    <3>1. doubts = {} /\ n = Chunk /\ wpos = woffset
      BY <1>5, <1>8, <2>1 DEF Inv, PlaceInv
    <3>2. \A i \in 1 .. woffset : file[i] = i
      BY <1>1, <3>1 DEF Inv, WrittenInv
    <3>3. \A i \in 1 .. woffset' : /\ i \in Places
                                   /\ i \in 1 .. woffset \/ i \in wpos + 1 .. wpos + n
      BY <1>1, <1>2, <3>1
    <3> QED BY <1>4, <3>1, <3>2, <3>3
  <2> QED BY <1>1, <1>5, <2>1 DEF Inv, WrittenInv
<1>11. FreshInv'
  BY <1>1, <1>5 DEF Inv, FreshInv
<1> QED BY <1>6, <1>7, <1>9, <1>10, <1>11 DEF Inv

\* A write that times out leaves a request that carries its own place.
LEMMA WriteFailsStep == Inv /\ WriteFails => Inv'
<1> SUFFICES ASSUME Inv, WriteFails PROVE Inv'
  OBVIOUS
<1> USE DEF readerVars
<1> DEFINE r0 == [op |-> "write", pos |-> wpos, offset |-> woffset, n |-> Chunk]
<1>1. /\ wpc = "write" /\ woffset < Size /\ wpc' = "failed" /\ late' \subseteq late \cup {r0}
      /\ UNCHANGED <<file, attempts, woffset, wpos, doubts, readerVars>>
  BY DEF WriteFails
<1>2. /\ TypeOK /\ woffset \in 0 .. Size /\ wpos \in 0 .. woffset
      /\ Chunk \in 1 .. Size /\ woffset + Chunk \in 1 .. Size
  BY <1>1, ChunkBounds DEF Inv, TypeOK
<1> HIDE DEF Chunk
<1>3. /\ r0 \in [op : {"open", "write"}, pos : 0 .. Size, offset : 0 .. Size, n : 0 .. Size]
      /\ r0.pos = wpos /\ r0.offset = woffset /\ r0.offset + r0.n <= Size /\ r0.op = "write"
      /\ r0.pos <= r0.offset
  BY <1>2
<1> HIDE DEF r0
<1>4. late' \subseteq [op : {"open", "write"}, pos : 0 .. Size, offset : 0 .. Size, n : 0 .. Size]
  BY <1>1, <1>2, <1>3 DEF TypeOK
<1>5. TypeOK'
  BY <1>1, <1>4 DEF Inv, TypeOK
<1>6. FileInv' /\ PlaceInv'
  BY <1>1, <1>3 DEF Inv, FileInv, PlaceInv, ReadInPlace, MayHold
<1>7. WrittenInv' /\ FreshInv'
  BY <1>1, <1>3 DEF Inv, WrittenInv, FreshInv
<1> QED BY <1>5, <1>6, <1>7 DEF Inv

\* The loop has ended, and all of the data is in place.
LEMMA FsyncStep == Inv /\ Fsync => Inv'
<1> SUFFICES ASSUME Inv, Fsync PROVE Inv'
  OBVIOUS
<1> USE DEF readerVars, Fsync
<1>1. TypeOK'
  BY DEF Inv, TypeOK
<1>2. FileInv' /\ PlaceInv'
  BY DEF Inv, FileInv, PlaceInv, ReadInPlace, MayHold
<1>3. WrittenInv'
  BY DEF Inv, TypeOK, WrittenInv
<1>4. FreshInv'
  BY DEF Inv, FreshInv
<1> QED BY <1>1, <1>2, <1>3, <1>4 DEF Inv

\* Another attempt begins.
LEMMA RetryStep == Inv /\ Retry => Inv'
<1> SUFFICES ASSUME Inv, Retry PROVE Inv'
  OBVIOUS
<1> USE DEF readerVars, Retry
<1>1. TypeOK'
  BY DEF Inv, TypeOK
<1>2. FileInv' /\ PlaceInv'
  BY DEF Inv, FileInv, PlaceInv, ReadInPlace, MayHold
<1>3. WrittenInv' /\ FreshInv'
  BY DEF Inv, WrittenInv, FreshInv
<1> QED BY <1>1, <1>2, <1>3 DEF Inv

\* A late write can only confirm what is in place; a late open is on record.
LEMMA LateRequestStep == ASSUME Inv, NEW r \in late, LateRequest(r) PROVE Inv'
<1> USE DEF readerVars, writerVars
<1>1. /\ late' = late \ {r} /\ UNCHANGED <<writerVars, readerVars>>
      /\ file' = IF r.op = "open" THEN [i \in Places |-> Beyond] ELSE Put(r.pos, r.offset, r.n)
  BY DEF LateRequest
<1>2. /\ TypeOK /\ FileInv /\ r.pos \in 0 .. Size /\ r.offset \in 0 .. Size /\ r.n \in 0 .. Size
      /\ r.offset + r.n <= Size /\ r.pos <= r.offset
  BY DEF Inv, TypeOK, FileInv
<1>3. /\ file' \in [Places -> (0 .. Size) \cup {Beyond}]
      /\ \A i, j \in Places : i <= j /\ file'[j] # Beyond => file'[i] # Beyond
      /\ r.pos = r.offset =>
            \A i \in Places : file[i] \in {0, Beyond, i} => file'[i] \in {0, Beyond, i}
      /\ \A i \in Places :
            file[i] \in {0, Beyond} \cup i .. Size => file'[i] \in {0, Beyond} \cup i .. Size
      /\ r.pos = r.offset /\ r.op # "open" => \A i \in Places : file[i] = i => file'[i] = i
  <2>1. CASE r.op = "open"
    BY <1>1, <2>1, EmptyFile
  <2>2. CASE r.op # "open"
    <3>1. file' = Put(r.pos, r.offset, r.n)
      BY <1>1, <2>2
    <3> QED BY <1>2, <3>1, PutFile
  <2> QED BY <2>1, <2>2
<1>4. TypeOK'
  BY <1>1, <1>3 DEF Inv, TypeOK
<1>5. FileInv'
  BY <1>1, <1>3 DEF Inv, FileInv
<1>6. PlaceInv'
  <2>1. UNCHANGED <<doubts, wpos, woffset, roffset, result>>
    BY <1>1
  <2>2. \A i \in Places : file'[i] \in {0, Beyond} \cup MayHold(i)
    BY <1>3 DEF Inv, PlaceInv, MayHold
  <2> QED BY <1>1, <2>1, <2>2 DEF Inv, PlaceInv, ReadInPlace, MayHold
<1>7. WrittenInv'
  <2>1. ASSUME doubts = {}, wpc \in {"write", "returned"}
        PROVE  \A i \in 1 .. woffset : file'[i] = i
    <3>1. r.op = "write" /\ r.pos = r.offset
      BY <2>1 DEF Inv, WrittenInv, PlaceInv
    <3>2. \A i \in 1 .. woffset : i \in Places /\ file[i] = i
      BY <2>1 DEF Inv, WrittenInv, TypeOK
    <3> QED BY <1>3, <3>1, <3>2
  <2> QED BY <1>1, <2>1 DEF Inv, WrittenInv
<1>8. FreshInv'
  BY <1>1 DEF Inv, FreshInv
<1> QED BY <1>4, <1>5, <1>6, <1>7, <1>8 DEF Inv

-----------------------------------------------------------------------------
(* The reader.                                                              *)

\* After the write has returned fstat reports the whole length.
LEMMA FstatStep == Inv /\ Fstat => Inv'
<1> SUFFICES ASSUME Inv, Fstat PROVE Inv'
  OBVIOUS
<1> USE DEF writerVars
<1>1. PICK n \in 0 .. Size :
         /\ IsLength(n) /\ fileSize' = n
         /\ rpc' \in {IF n = 0 THEN "returned" ELSE "loop", "failed"}
  BY DEF Fstat
<1>2. rpc = "stat" /\ fresh' = (wpc = "returned") /\ UNCHANGED <<file, late, writerVars, roffset, result>>
  BY DEF Fstat
<1>3. roffset = 0
  BY <1>2 DEF Inv, FreshInv
<1>4. fresh' \in BOOLEAN /\ rpc' \in {"loop", "returned", "failed"}
  BY <1>1, <1>2
<1>5. TypeOK'
  BY <1>1, <1>2, <1>3, <1>4 DEF Inv, TypeOK
<1>6. FileInv' /\ PlaceInv' /\ WrittenInv'
  BY <1>2 DEF Inv, FileInv, PlaceInv, ReadInPlace, MayHold, WrittenInv
<1>7. FreshInv'
  <2>1. ASSUME wpc = "returned", doubts = {} PROVE n = Size
    <3>1. \A i \in Places : file[i] # Beyond
      BY <2>1 DEF Inv, WrittenInv
    <3>2. Size \in Places
      OBVIOUS
    <3> QED BY <1>1, <3>1, <3>2 DEF IsLength
  <2>2. UNCHANGED <<wpc, doubts>> /\ (fresh' => wpc = "returned")
    BY <1>2
  <2>3. ASSUME fresh', doubts = {} PROVE n = Size /\ n # 0
    BY <2>1, <2>2, <2>3
  <2>4. roffset' = 0 /\ fileSize' = n /\ (n # 0 => rpc' # "returned")
    BY <1>1, <1>2, <1>3
  <2> HIDE DEF Fstat
  <2> QED BY <1>4, <2>2, <2>3, <2>4 DEF FreshInv
<1> QED BY <1>5, <1>6, <1>7 DEF Inv

\* A round of the loop reads what the file holds, place by place.
LEMMA ReadChunkStep == Inv /\ ReadChunk => Inv'
<1> SUFFICES ASSUME Inv, ReadChunk PROVE Inv'
  OBVIOUS
<1> USE DEF writerVars
<1>1. PICK m \in 1 .. Least(ChunkSize, fileSize - roffset) :
         /\ file[roffset + m] # Beyond
         /\ result' = [i \in Places |-> IF i \in roffset + 1 .. roffset + m THEN file[i]
                                        ELSE result[i]]
         /\ roffset' = roffset + m
         /\ rpc' \in {"loop", "failed"}
  BY DEF ReadChunk
<1>2. rpc = "read" /\ roffset < fileSize /\ UNCHANGED <<file, late, writerVars, fileSize, fresh>>
  BY DEF ReadChunk, Inv, FreshInv
<1>3. /\ roffset \in 0 .. Size /\ fileSize \in 0 .. Size /\ roffset < fileSize
      /\ file \in [Places -> (0 .. Size) \cup {Beyond}]
      /\ result \in [Places -> (0 .. Size) \cup {Beyond}]
  BY <1>2 DEF Inv, TypeOK
<1>4. roffset' \in 0 .. fileSize /\ roffset + m \in Places
  BY <1>1, <1>3 DEF Least
<1>5. \A i \in 1 .. roffset' : /\ i \in Places
                               /\ \/ i \in 1 .. roffset /\ result'[i] = result[i]
                                  \/ i <= roffset + m /\ result'[i] = file[i]
  BY <1>1, <1>3, <1>4
<1>6. \A i \in Places : i <= roffset + m => file[i] # Beyond
  BY <1>1, <1>4 DEF Inv, FileInv
<1>7. TypeOK'
  <2>1. result' \in [Places -> (0 .. Size) \cup {Beyond}]
    BY <1>1, <1>3
  <2> QED BY <1>1, <1>2, <1>3, <1>4, <2>1 DEF Inv, TypeOK
<1>8. FileInv' /\ WrittenInv'
  BY <1>2 DEF Inv, FileInv, WrittenInv
<1>9. PlaceInv'
  BY <1>2, <1>5, <1>6 DEF Inv, PlaceInv, ReadInPlace, MayHold
<1>10. FreshInv'
  <2>1. ASSUME fresh, doubts = {} PROVE \A i \in Places : file[i] = i
    BY <2>1 DEF Inv, FreshInv, WrittenInv
  <2> QED BY <1>1, <1>2, <1>5, <2>1 DEF Inv, FreshInv
<1> QED BY <1>7, <1>8, <1>9, <1>10 DEF Inv

\* The loop ends at the size fstat has reported.
LEMMA LoopTestStep == Inv /\ LoopTest => Inv'
<1> SUFFICES ASSUME Inv, LoopTest PROVE Inv'
  OBVIOUS
<1> USE DEF writerVars, LoopTest
<1>1. TypeOK'
  BY DEF Inv, TypeOK
<1>2. FileInv' /\ PlaceInv' /\ WrittenInv'
  BY DEF Inv, FileInv, PlaceInv, ReadInPlace, MayHold, WrittenInv
<1>3. FreshInv'
  BY DEF Inv, TypeOK, FreshInv
<1> QED BY <1>1, <1>2, <1>3 DEF Inv

\* A read of a finished file never meets its end before that.
LEMMA EmptyChunkStep == Inv /\ EmptyChunk => Inv'
<1> SUFFICES ASSUME Inv, EmptyChunk PROVE Inv'
  OBVIOUS
<1> USE DEF writerVars, EmptyChunk
<1>1. TypeOK'
  BY DEF Inv, TypeOK
<1>2. FileInv' /\ PlaceInv' /\ WrittenInv'
  BY DEF Inv, FileInv, PlaceInv, ReadInPlace, MayHold, WrittenInv
<1>3. FreshInv'
  <2>1. ASSUME fresh, doubts = {} PROVE FALSE
    <3>1. fileSize = Size /\ \A i \in Places : file[i] = i
      BY <2>1 DEF Inv, FreshInv, WrittenInv
    <3>2. roffset \in 0 .. Size /\ roffset < Size
      BY <3>1 DEF Inv, TypeOK, FreshInv
    <3>3. roffset + 1 \in Places
      BY <3>2
    <3> QED BY <3>1, <3>3
  <2> QED BY <2>1 DEF Inv, FreshInv
<1> QED BY <1>1, <1>2, <1>3 DEF Inv

\* A read that fails yields nothing.
LEMMA ReadFailsStep == Inv /\ ReadFails => Inv'
<1> SUFFICES ASSUME Inv, ReadFails PROVE Inv'
  OBVIOUS
<1> USE DEF writerVars, ReadFails
<1>1. TypeOK'
  BY DEF Inv, TypeOK
<1>2. FileInv' /\ PlaceInv' /\ WrittenInv'
  BY DEF Inv, FileInv, PlaceInv, ReadInPlace, MayHold, WrittenInv
<1>3. FreshInv'
  BY DEF Inv, FreshInv
<1> QED BY <1>1, <1>2, <1>3 DEF Inv

\* Every step preserves the invariant.
LEMMA InvStep == Inv /\ [Next]_vars => Inv'
<1> SUFFICES ASSUME Inv, [Next]_vars PROVE Inv'
  OBVIOUS
<1>1. CASE UNCHANGED vars
  BY <1>1 DEF vars, writerVars, readerVars, Inv, TypeOK, FileInv, PlaceInv, ReadInPlace,
     MayHold, WrittenInv, FreshInv
<1>2. CASE Writer
  BY <1>2, OpenStep, WriteChunkStep, WriteFailsStep, FsyncStep DEF Writer
<1>3. CASE Reader
  BY <1>3, FstatStep, LoopTestStep, ReadChunkStep, EmptyChunkStep, ReadFailsStep DEF Reader
<1>4. CASE Retry \/ \E r \in late : LateRequest(r)
  BY <1>4, RetryStep, LateRequestStep
<1> QED BY <1>1, <1>2, <1>3, <1>4 DEF Next

-----------------------------------------------------------------------------
(* What follows for every behaviour.                                        *)

\* The inductive invariant of the two loops.
THEOREM FilesInvariant == Spec => []Inv
<1> QED BY InvInit, InvStep, PTL DEF Spec

\* Type correctness; the handle's position never overtakes the loop's.
THEOREM FilesTypeCorrect == Spec => []TypeOK
<1>1. Inv => TypeOK
  BY DEF Inv
<1> QED BY <1>1, FilesInvariant, PTL

\* A write that returns has written its data, whatever its failed predecessors
\* left with libnfs.
THEOREM RetriedWriteIsSafe == Spec => []RetryIsSafe
<1>1. Inv => RetryIsSafe
  BY DEF Inv, WrittenInv, RetryIsSafe
<1> QED BY <1>1, FilesInvariant, PTL

\* No read puts a unit where it does not belong; after a short write it may come
\* before its place and never after it.
THEOREM ReadsStayInPlace == Spec => []ReadInPlace
<1>1. Inv => ReadInPlace
  BY DEF Inv, PlaceInv, ReadInPlace
<1> QED BY <1>1, FilesInvariant, PTL

\* A read that follows the write returns all of it.
THEOREM ReadsSeeWrites == Spec => []ReadYourWrites
<1>1. Inv => ReadYourWrites
  BY DEF Inv, FreshInv, ReadYourWrites
<1> QED BY <1>1, FilesInvariant, PTL
===============================================================================
