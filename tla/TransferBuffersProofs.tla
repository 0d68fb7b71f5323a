------------------------ MODULE TransferBuffersProofs ------------------------
(***************************************************************************)
(* Buffers are freed once and live as long as libnfs points into them, for *)
(* any number of transfers and chunks.  A step touches one transfer, or    *)
(* one chunk, or the call that reads the file, except TearDown, which      *)
(* touches all of them; the lemmas say what it leaves alone.               *)
(***************************************************************************)
EXTENDS TransferBuffers, TLAPS

USE BuffersAssumption

\* Replacing what is known of one caller, request or buffer.
LEMMA OverrideCaller ==
    ASSUME TypeOK, NEW o \in Ops, NEW v \in {"idle", "waiting", "ok", "failed"}
    PROVE  /\ Override(caller, o, v) \in [Ops -> {"idle", "waiting", "ok", "failed"}]
           /\ Override(caller, o, v)[o] = v
           /\ \A p \in Ops : p # o => Override(caller, o, v)[p] = caller[p]
BY DEF TypeOK, Override

\* The same for a request.
LEMMA OverrideRequest ==
    ASSUME TypeOK, NEW o \in Ops, NEW v \in {"none", "sent", "over"}
    PROVE  /\ Override(request, o, v) \in [Ops -> {"none", "sent", "over"}]
           /\ Override(request, o, v)[o] = v
           /\ \A p \in Ops : p # o => Override(request, o, v)[p] = request[p]
BY DEF TypeOK, Override

\* The same for a buffer.
LEMMA OverrideBuffer ==
    ASSUME TypeOK, NEW o \in Owners, NEW v \in Memory
    PROVE  /\ Override(buffer, o, v) \in [Owners -> Memory]
           /\ Override(buffer, o, v)[o] = v
           /\ \A p \in Owners : p # o => Override(buffer, o, v)[p] = buffer[p]
BY DEF TypeOK, Override

\* The transfers and the chunks are different calls.
LEMMA OwnersNotChunks ==
    /\ Owners \subseteq Ops /\ Chunks \subseteq Ops
    /\ \A o \in Owners, c \in Chunks : o # c
BY DEF Owners, Ops

\* What one callback makes of a transfer's buffer and caller.
LEMMA CallbackSettles ==
    ASSUME TypeOK, NEW o \in Owners, OwnerInv(o), request[o] = "sent",
           NEW status \in Statuses
    PROVE  LET m == NfsCallback(o, status, buffer[o], caller[o] = "waiting")
               r == Result(o, status)
           IN  /\ r \in {"ok", "failed"}
               /\ m \in {"allocated", "data", "freed"}
               /\ o \in Reads => m = "freed" \/ (m = "data" /\ r = "ok")
               /\ o \in Writes => m \in {"allocated", "freed"}
               /\ status = "error" => m = "freed"
<1>1. buffer[o] = "allocated" /\ caller[o] \in {"waiting", "failed"}
  BY DEF OwnerInv
<1>2. Result(o, status) \in {"ok", "failed"}
  BY <1>1 DEF Result
<1>3. Deallocate("allocated") = "freed" /\ Deallocate("data") = "freed"
      /\ HandToData("allocated") = "data"
  BY DEF Deallocate, HandToData
<1>4. CASE status = "error"
  BY <1>1, <1>2, <1>3, <1>4 DEF NfsCallback
<1>5. CASE status # "error" /\ o \in Writes
  <2>1. DataHandler(o, status, buffer[o]) = "allocated"
    BY <1>1, <1>5 DEF DataHandler
  <2>2. NfsCallback(o, status, buffer[o], caller[o] = "waiting") = "allocated"
    BY <1>5, <2>1 DEF NfsCallback, Deliver
  <2> QED BY <1>2, <1>5, <2>2
<1>6. CASE status # "error" /\ o \in Reads
  <2>1. DataHandler(o, status, buffer[o]) \in {"freed", "data"}
    BY <1>1, <1>3, <1>6 DEF DataHandler
  <2>2. CASE caller[o] = "waiting"
    <3>1. Result(o, status) = "ok"
      BY <1>6, <2>2 DEF Result
    <3>2. NfsCallback(o, status, buffer[o], caller[o] = "waiting") \in {"freed", "data"}
      BY <1>3, <1>6, <2>1, <2>2 DEF NfsCallback, Deliver
    <3> QED BY <1>6, <3>1, <3>2
  <2>3. CASE caller[o] # "waiting"
    <3>1. NfsCallback(o, status, buffer[o], caller[o] = "waiting") = "freed"
      BY <1>3, <1>6, <2>1, <2>3 DEF NfsCallback, Deliver
    <3> QED BY <1>2, <1>6, <3>1
  <2> QED BY <2>2, <2>3
<1> QED BY <1>4, <1>5, <1>6 DEF Owners

-----------------------------------------------------------------------------
(* What a step leaves alone.                                                *)

\* A transfer whose caller, request and buffer stay as they are.
LEMMA OwnerUntouched ==
    ASSUME NEW o, OwnerInv(o), caller'[o] = caller[o], request'[o] = request[o],
           buffer'[o] = buffer[o]
    PROVE  OwnerInv(o)'
BY DEF OwnerInv

\* A step that touches no chunk and nothing of the call that reads the file.
LEMMA ChunksUntouched ==
    ASSUME Inv, UNCHANGED sharedVars,
           \A c \in Chunks : caller'[c] = caller[c] /\ request'[c] = request[c]
    PROVE  (\A c \in Chunks : ChunkInv(c))' /\ ContentsInv'
<1>1. \A c \in Chunks : ChunkInv(c)'
  BY DEF Inv, ChunkInv, sharedVars
<1>2. ContentsInv'
  <2>1. tasks \subseteq Chunks
    BY DEF Inv, TypeOK
  <2> QED BY <2>1 DEF Inv, ContentsInv, sharedVars
<1> QED BY <1>1, <1>2

\* A step of one transfer.
LEMMA OneOwner ==
    ASSUME Inv, NEW o \in Owners, UNCHANGED sharedVars, TypeOK',
           \A p \in Ops : p # o => caller'[p] = caller[p] /\ request'[p] = request[p],
           \A p \in Owners : p # o => buffer'[p] = buffer[p],
           OwnerInv(o)'
    PROVE  Inv'
<1>1. \A p \in Owners : OwnerInv(p)'
  <2> SUFFICES ASSUME NEW p \in Owners, p # o PROVE OwnerInv(p)'
    OBVIOUS
  <2>1. OwnerInv(p)
    BY DEF Inv
  <2>2. caller'[p] = caller[p] /\ request'[p] = request[p] /\ buffer'[p] = buffer[p]
    BY OwnersNotChunks
  <2> QED BY <2>1, <2>2, OwnerUntouched
<1>2. \A c \in Chunks : caller'[c] = caller[c] /\ request'[c] = request[c]
  BY OwnersNotChunks
<1>3. (\A c \in Chunks : ChunkInv(c))' /\ ContentsInv'
  BY <1>2, ChunksUntouched
<1> QED BY <1>1, <1>3 DEF Inv

\* A step that touches no transfer.
LEMMA OwnersUntouched ==
    ASSUME Inv, UNCHANGED buffer,
           \A o \in Owners : caller'[o] = caller[o] /\ request'[o] = request[o]
    PROVE  (\A o \in Owners : OwnerInv(o))'
<1>1. \A o \in Owners : OwnerInv(o)'
  <2> TAKE o \in Owners
  <2>1. OwnerInv(o)
    BY DEF Inv
  <2> QED BY <2>1, OwnerUntouched
<1> QED BY <1>1

-----------------------------------------------------------------------------
(* The actions.                                                             *)

\* The initial state satisfies the invariant.
LEMMA InvInit == Init => Inv
<1> SUFFICES ASSUME Init PROVE Inv
  OBVIOUS
<1>1. TypeOK
  <2>1. context \in BOOLEAN
    BY DEF Init
  <2> QED BY <2>1 DEF Init, TypeOK, Memory
<1>2. \A o \in Owners : OwnerInv(o)
  BY OwnersNotChunks DEF Init, OwnerInv
<1>3. \A c \in Chunks : ChunkInv(c)
  BY OwnersNotChunks DEF Init, ChunkInv
<1>4. ContentsInv
  BY DEF Init, ContentsInv
<1> QED BY <1>1, <1>2, <1>3, <1>4 DEF Inv

\* Transfer preserves the invariant.
LEMMA TransferStep ==
    ASSUME Inv, NEW o \in Owners, Transfer(o)
    PROVE  Inv'
<1>1. TypeOK /\ OwnerInv(o) /\ o \in Ops
  BY OwnersNotChunks DEF Inv
<1>2. caller[o] = "idle" /\ request[o] = "none" /\ buffer[o] = "none"
  BY <1>1 DEF Transfer, OwnerInv
<1>3. UNCHANGED sharedVars /\ UNCHANGED context
  BY DEF Transfer
<1>4. PICK r \in {"none", "sent"}, b \in {"none", "freed", "allocated"},
           w \in {"failed", "waiting"} :
        /\ caller' = Override(caller, o, w)
        /\ request' = Override(request, o, r)
        /\ buffer' = Override(buffer, o, b)
        /\ r = "none" => b \in {"none", "freed"} /\ w = "failed"
        /\ r = "sent" => b = "allocated"
  <2>1. request = Override(request, o, "none") /\ buffer = Override(buffer, o, "none")
    BY <1>1, <1>2 DEF Override, TypeOK
  <2>2. Deallocate("allocated") = "freed"
    BY DEF Deallocate
  <2> QED BY <2>1, <2>2 DEF Transfer
<1>5. /\ caller' \in [Ops -> {"idle", "waiting", "ok", "failed"}]
      /\ caller'[o] = w
      /\ \A p \in Ops : p # o => caller'[p] = caller[p]
  BY <1>1, <1>4, OverrideCaller
<1>6. /\ request' \in [Ops -> {"none", "sent", "over"}]
      /\ request'[o] = r
      /\ \A p \in Ops : p # o => request'[p] = request[p]
  BY <1>1, <1>4, OverrideRequest
<1>7. /\ buffer' \in [Owners -> Memory]
      /\ buffer'[o] = b
      /\ \A p \in Owners : p # o => buffer'[p] = buffer[p]
  BY <1>1, <1>4, OverrideBuffer DEF Memory
<1>8. TypeOK'
  BY <1>1, <1>3, <1>5, <1>6, <1>7 DEF TypeOK, sharedVars
<1>9. OwnerInv(o)'
  BY <1>4, <1>5, <1>6, <1>7 DEF OwnerInv
<1> QED BY <1>3, <1>5, <1>6, <1>7, <1>8, <1>9, OneOwner

\* Answer preserves the invariant.
LEMMA AnswerStep ==
    ASSUME Inv, NEW o \in Owners, NEW status \in Statuses, Answer(o, status)
    PROVE  Inv'
<1>1. TypeOK /\ OwnerInv(o) /\ o \in Ops
  BY OwnersNotChunks DEF Inv
<1> DEFINE m == NfsCallback(o, status, buffer[o], caller[o] = "waiting")
           r == Result(o, status)
<1>2. /\ request[o] = "sent" /\ UNCHANGED context /\ UNCHANGED sharedVars
      /\ request' = Override(request, o, "over")
      /\ buffer' = Override(buffer, o, m)
      /\ caller' = Override(caller, o, r)
  BY DEF Answer
<1>3. /\ r \in {"ok", "failed"}
      /\ m \in {"allocated", "data", "freed"}
      /\ o \in Reads => m = "freed" \/ (m = "data" /\ r = "ok")
      /\ o \in Writes => m \in {"allocated", "freed"}
  BY <1>1, <1>2, CallbackSettles
<1> HIDE DEF m, r
<1>4. /\ caller' \in [Ops -> {"idle", "waiting", "ok", "failed"}]
      /\ caller'[o] = r
      /\ \A p \in Ops : p # o => caller'[p] = caller[p]
  BY <1>1, <1>2, <1>3, OverrideCaller
<1>5. /\ request' \in [Ops -> {"none", "sent", "over"}]
      /\ request'[o] = "over"
      /\ \A p \in Ops : p # o => request'[p] = request[p]
  BY <1>1, <1>2, OverrideRequest
<1>6. /\ buffer' \in [Owners -> Memory]
      /\ buffer'[o] = m
      /\ \A p \in Owners : p # o => buffer'[p] = buffer[p]
  BY <1>1, <1>2, <1>3, OverrideBuffer DEF Memory
<1>7. TypeOK'
  BY <1>1, <1>2, <1>4, <1>5, <1>6 DEF TypeOK, sharedVars
<1>8. OwnerInv(o)'
  BY <1>3, <1>4, <1>5, <1>6 DEF OwnerInv
<1> QED BY <1>2, <1>4, <1>5, <1>6, <1>7, <1>8, OneOwner

\* DropData preserves the invariant.
LEMMA DropDataStep ==
    ASSUME Inv, NEW o \in Reads, DropData(o)
    PROVE  Inv'
<1>1. TypeOK /\ o \in Owners /\ OwnerInv(o) /\ o \in Ops
  BY OwnersNotChunks DEF Inv, Owners
<1>2. /\ caller[o] = "ok" /\ buffer[o] = "data" /\ UNCHANGED <<context, caller, request>>
      /\ UNCHANGED sharedVars /\ buffer' = Override(buffer, o, "freed")
  BY DEF DropData, Deallocate
<1>3. /\ buffer' \in [Owners -> Memory]
      /\ buffer'[o] = "freed"
      /\ \A p \in Owners : p # o => buffer'[p] = buffer[p]
  BY <1>1, <1>2, OverrideBuffer DEF Memory
<1>4. TypeOK'
  BY <1>1, <1>2, <1>3 DEF TypeOK, sharedVars
<1>5. request[o] = "over"
  BY <1>1, <1>2 DEF OwnerInv, TypeOK
<1>6. OwnerInv(o)'
  BY <1>2, <1>3, <1>5 DEF OwnerInv
<1> QED BY <1>1, <1>2, <1>3, <1>4, <1>6, OneOwner

\* ScanForTimeouts preserves the invariant.
LEMMA ScanForTimeoutsStep ==
    ASSUME Inv, NEW o \in Ops, ScanForTimeouts(o)
    PROVE  Inv'
<1>1. TypeOK
  BY DEF Inv
<1>2. /\ caller[o] = "waiting" /\ UNCHANGED <<context, request, buffer>>
      /\ UNCHANGED sharedVars /\ caller' = Override(caller, o, "failed")
  BY DEF ScanForTimeouts
<1>3. /\ caller' \in [Ops -> {"idle", "waiting", "ok", "failed"}]
      /\ caller'[o] = "failed"
      /\ \A p \in Ops : p # o => caller'[p] = caller[p]
  BY <1>1, <1>2, OverrideCaller
<1>4. TypeOK'
  BY <1>1, <1>2, <1>3 DEF TypeOK, sharedVars
<1>5. CASE o \in Owners
  <2>1. OwnerInv(o)'
    BY <1>2, <1>3, <1>5 DEF OwnerInv, Inv
  <2> QED BY <1>2, <1>3, <1>4, <1>5, <2>1, OneOwner
<1>6. CASE o \in Chunks
  <2>1. (\A p \in Owners : OwnerInv(p))'
    BY <1>2, <1>3, <1>6, OwnersNotChunks, OwnersUntouched
  <2>2. \A c \in Chunks : ChunkInv(c)'
    <3> TAKE c \in Chunks
    <3>1. ChunkInv(c)
      BY DEF Inv
    <3>2. c = o \/ caller'[c] = caller[c]
      BY <1>3, OwnersNotChunks
    <3> QED BY <1>2, <1>3, <3>1, <3>2 DEF ChunkInv, sharedVars
  <2>3. \A c \in Chunks :
            caller'[c] = caller[c] \/ (caller[c] = "waiting" /\ caller'[c] = "failed")
    BY <1>2, <1>3, OwnersNotChunks
  <2>4. tasks \subseteq Chunks /\ UNCHANGED sharedVars
    BY <1>1, <1>2 DEF TypeOK
  <2>5. ContentsInv'
    BY <2>3, <2>4 DEF Inv, ContentsInv, sharedVars
  <2> QED BY <1>4, <2>1, <2>2, <2>5 DEF Inv
<1> QED BY <1>5, <1>6 DEF Ops

\* TearDown preserves the invariant.
LEMMA TearDownStep == Inv /\ TearDown => Inv'
<1> SUFFICES ASSUME Inv, TearDown PROVE Inv'
  OBVIOUS
<1>1. TypeOK /\ "error" \in Statuses
  BY DEF Inv, Statuses
<1>2. \A o \in Ops :
        /\ request'[o] = IF request[o] = "sent" THEN "over" ELSE request[o]
        /\ caller'[o] = IF caller[o] = "waiting" THEN "failed" ELSE caller[o]
  BY DEF TearDown
<1>3. \A o \in Owners : buffer'[o] = IF request[o] = "sent" THEN "freed" ELSE buffer[o]
  <2> TAKE o \in Owners
  <2>1. OwnerInv(o)
    BY DEF Inv
  <2>2. buffer'[o] = IF request[o] = "sent"
                     THEN NfsCallback(o, "error", buffer[o], caller[o] = "waiting")
                     ELSE buffer[o]
    BY DEF TearDown
  <2> QED BY <1>1, <2>1, <2>2, CallbackSettles
<1>4. TypeOK'
  <2>1. /\ request' \in [Ops -> {"none", "sent", "over"}]
        /\ caller' \in [Ops -> {"idle", "waiting", "ok", "failed"}]
    BY <1>1 DEF TearDown, TypeOK
  <2>2. DOMAIN buffer' = Owners /\ buffer' = [o \in Owners |-> buffer'[o]]
    BY DEF TearDown
  <2>3. \A o \in Owners : buffer'[o] \in Memory
    BY <1>1, <1>3 DEF TypeOK, Memory
  <2>4. buffer' \in [Owners -> Memory]
    BY <2>2, <2>3
  <2>5. context' \in BOOLEAN
    BY DEF TearDown
  <2> QED BY <1>1, <2>1, <2>4, <2>5 DEF TearDown, TypeOK, sharedVars
<1>5. \A o \in Owners : OwnerInv(o)'
  <2> TAKE o \in Owners
  <2>1. OwnerInv(o) /\ o \in Ops
    BY OwnersNotChunks DEF Inv
  <2>2. /\ request'[o] = IF request[o] = "sent" THEN "over" ELSE request[o]
        /\ caller'[o] = IF caller[o] = "waiting" THEN "failed" ELSE caller[o]
        /\ buffer'[o] = IF request[o] = "sent" THEN "freed" ELSE buffer[o]
    BY <1>2, <1>3, <2>1
  <2> QED BY <2>1, <2>2 DEF OwnerInv
<1>6. \A c \in Chunks : ChunkInv(c)'
  <2> TAKE c \in Chunks
  <2>1. ChunkInv(c) /\ c \in Ops
    BY OwnersNotChunks DEF Inv
  <2> QED BY <1>2, <2>1 DEF ChunkInv, TearDown, sharedVars
<1>7. ContentsInv'
  <2>1. \A c \in Chunks : caller'[c] = IF caller[c] = "waiting" THEN "failed" ELSE caller[c]
    BY <1>2, OwnersNotChunks
  <2>2. tasks \subseteq Chunks
    BY <1>1 DEF TypeOK
  <2> QED BY <2>1, <2>2 DEF Inv, ContentsInv, TearDown, sharedVars
<1> QED BY <1>4, <1>5, <1>6, <1>7 DEF Inv

\* Contents preserves the invariant.
LEMMA ContentsStep == Inv /\ Contents => Inv'
<1> SUFFICES ASSUME Inv, Contents PROVE Inv'
  OBVIOUS
<1>1. /\ TypeOK /\ contents = "idle" /\ tasks = {}
      /\ UNCHANGED <<context, caller, request, buffer, filled>>
  BY DEF Inv, ContentsInv, Contents
<1>2. \/ contents' = "threw" /\ readBuffer' = readBuffer /\ tasks' = tasks
      \/ readBuffer' = "allocated" /\ tasks' = Chunks /\ contents' = "running"
      \/ readBuffer' = "allocated" /\ tasks' \subseteq Chunks /\ contents' = "cancelled"
  BY DEF Contents
<1>3. TypeOK'
  BY <1>1, <1>2 DEF TypeOK, Memory
<1>4. (\A o \in Owners : OwnerInv(o))'
  BY <1>1, OwnersUntouched
<1>5. \A c \in Chunks : ChunkInv(c)'
  BY <1>1 DEF Inv, ChunkInv
<1>6. ContentsInv'
  BY <1>1, <1>2 DEF ContentsInv
<1> QED BY <1>3, <1>4, <1>5, <1>6 DEF Inv

\* PreadIntoBuffer preserves the invariant.
LEMMA PreadIntoBufferStep ==
    ASSUME Inv, NEW c \in Chunks, PreadIntoBuffer(c)
    PROVE  Inv'
<1>1. TypeOK /\ c \in Ops /\ ChunkInv(c) /\ ContentsInv
  BY OwnersNotChunks DEF Inv
<1>2. /\ c \in tasks /\ caller[c] = "idle"
      /\ UNCHANGED <<context, buffer>> /\ UNCHANGED sharedVars
  BY DEF PreadIntoBuffer
<1>3. PICK w \in {"failed", "waiting"}, r \in {"none", "sent", "over"} :
        /\ caller' = Override(caller, c, w)
        /\ request' = Override(request, c, r)
        /\ \/ w = "waiting" /\ r = "sent"
           \/ w = "failed" /\ r = request[c]
  <2>1. request = Override(request, c, request[c])
    BY <1>1 DEF Override, TypeOK
  <2>2. request[c] \in {"none", "sent", "over"}
    BY <1>1 DEF TypeOK
  <2> QED BY <2>1, <2>2 DEF PreadIntoBuffer
<1>4. /\ caller' \in [Ops -> {"idle", "waiting", "ok", "failed"}]
      /\ caller'[c] = w
      /\ \A p \in Ops : p # c => caller'[p] = caller[p]
  BY <1>1, <1>3, OverrideCaller
<1>5. /\ request' \in [Ops -> {"none", "sent", "over"}]
      /\ request'[c] = r
      /\ \A p \in Ops : p # c => request'[p] = request[p]
  BY <1>1, <1>3, OverrideRequest
<1>6. TypeOK'
  BY <1>1, <1>2, <1>4, <1>5 DEF TypeOK, sharedVars
<1>7. (\A o \in Owners : OwnerInv(o))'
  BY <1>2, <1>4, <1>5, OwnersNotChunks, OwnersUntouched
<1>8. \A d \in Chunks : ChunkInv(d)'
  <2> TAKE d \in Chunks
  <2>1. ChunkInv(d)
    BY DEF Inv
  <2>2. d = c \/ (caller'[d] = caller[d] /\ request'[d] = request[d])
    BY <1>4, <1>5, OwnersNotChunks
  <2> QED BY <1>2, <1>3, <1>4, <1>5, <2>1, <2>2 DEF ChunkInv, sharedVars
<1>9. contents \in {"running", "cancelled"}
  BY <1>1, <1>2 DEF ContentsInv, TypeOK
<1>10. ContentsInv'
  BY <1>1, <1>2, <1>9 DEF ContentsInv, sharedVars
<1> QED BY <1>6, <1>7, <1>8, <1>10 DEF Inv

\* AnswerChunk preserves the invariant.
LEMMA AnswerChunkStep ==
    ASSUME Inv, NEW c \in Chunks, NEW status \in Statuses, AnswerChunk(c, status)
    PROVE  Inv'
<1>1. TypeOK /\ c \in Ops /\ ChunkInv(c) /\ ContentsInv
  BY OwnersNotChunks DEF Inv
<1> DEFINE r == Result(c, status)
<1>2. /\ request[c] = "sent" /\ UNCHANGED <<context, buffer, contents, tasks>>
      /\ request' = Override(request, c, "over") /\ caller' = Override(caller, c, r)
      /\ \/ readBuffer' = WriteInto(readBuffer) /\ filled' = Override(filled, c, status)
            /\ status \in {"full", "partial"}
         \/ UNCHANGED <<readBuffer, filled>>
  BY DEF AnswerChunk
<1>3. r \in {"ok", "failed"} /\ c \in tasks /\ caller[c] # "ok"
  BY <1>1, <1>2 DEF Result, ChunkInv
<1> HIDE DEF r
<1>4. /\ caller' \in [Ops -> {"idle", "waiting", "ok", "failed"}]
      /\ caller'[c] = r
      /\ \A p \in Ops : p # c => caller'[p] = caller[p]
  BY <1>1, <1>2, <1>3, OverrideCaller
<1>5. /\ request' \in [Ops -> {"none", "sent", "over"}]
      /\ request'[c] = "over"
      /\ \A p \in Ops : p # c => request'[p] = request[p]
  BY <1>1, <1>2, OverrideRequest
<1>6. /\ filled' \in [Chunks -> {"zero", "partial", "full"}]
      /\ readBuffer' \in Memory
      /\ readBuffer = "allocated" => readBuffer' = "allocated"
  BY <1>1, <1>2 DEF TypeOK, Override, WriteInto, Memory
<1>7. TypeOK'
  BY <1>1, <1>2, <1>4, <1>5, <1>6 DEF TypeOK
<1>8. (\A o \in Owners : OwnerInv(o))'
  BY <1>2, <1>4, <1>5, OwnersNotChunks, OwnersUntouched
<1>9. \A d \in Chunks : ChunkInv(d)'
  <2> TAKE d \in Chunks
  <2>1. ChunkInv(d)
    BY DEF Inv
  <2>2. d = c \/ (caller'[d] = caller[d] /\ request'[d] = request[d])
    BY <1>4, <1>5, OwnersNotChunks
  <2> QED BY <1>2, <1>3, <1>4, <1>5, <2>1, <2>2 DEF ChunkInv
<1>10. ContentsInv'
  <2>1. \A d \in Chunks : d = c \/ caller'[d] = caller[d]
    BY <1>4, OwnersNotChunks
  <2>2. tasks \subseteq Chunks
    BY <1>1 DEF TypeOK
  <2> QED BY <1>1, <1>2, <1>3, <1>4, <1>6, <2>1, <2>2 DEF ContentsInv
<1> QED BY <1>7, <1>8, <1>9, <1>10 DEF Inv

\* The steps of contents(atPath:) after its chunks were started.
LEMMA ContentsLaterStep ==
    Inv /\ (ProgressCancels \/ ContentsReturn \/ DropContents) => Inv'
<1> SUFFICES ASSUME Inv, ProgressCancels \/ ContentsReturn \/ DropContents PROVE Inv'
  OBVIOUS
<1>1. TypeOK /\ ContentsInv /\ tasks \subseteq Chunks
  BY DEF Inv, TypeOK
<1>2. UNCHANGED <<context, caller, request, buffer, filled, tasks>>
  BY DEF ProgressCancels, ContentsReturn, DropContents
<1>3. (\A o \in Owners : OwnerInv(o))'
  BY <1>2, OwnersUntouched
<1>4. \A c \in Chunks : ChunkInv(c)'
  BY <1>2 DEF Inv, ChunkInv
<1>5. CASE ProgressCancels
  <2>1. TypeOK'
    BY <1>1, <1>2, <1>5 DEF TypeOK, ProgressCancels
  <2>2. ContentsInv'
    BY <1>1, <1>2, <1>5 DEF ContentsInv, ProgressCancels
  <2> QED BY <1>3, <1>4, <2>1, <2>2 DEF Inv
<1>6. CASE ContentsReturn
  <2>1. readBuffer = "allocated" /\ \A c \in tasks : caller[c] \in {"ok", "failed"}
    BY <1>1, <1>6 DEF ContentsInv, ContentsReturn
  <2>2. \/ /\ readBuffer' = "data" /\ contents' = "returned"
           /\ tasks = Chunks /\ \A c \in tasks : caller[c] = "ok"
        \/ readBuffer' = "freed" /\ contents' = "threw"
    BY <1>1, <1>6, <2>1 DEF ContentsInv, ContentsReturn, HandToData, Deallocate
  <2>3. TypeOK'
    BY <1>1, <1>2, <2>2 DEF TypeOK, Memory
  <2>4. ContentsInv'
    BY <1>1, <1>2, <2>1, <2>2 DEF ContentsInv
  <2> QED BY <1>3, <1>4, <2>3, <2>4 DEF Inv
<1>7. CASE DropContents
  <2>1. contents = "returned" /\ contents' = contents /\ readBuffer' = "freed"
    BY <1>7 DEF DropContents, Deallocate
  <2>2. TypeOK'
    BY <1>1, <1>2, <2>1 DEF TypeOK, Memory
  <2>3. ContentsInv'
    BY <1>1, <1>2, <2>1 DEF ContentsInv
  <2> QED BY <1>3, <1>4, <2>2, <2>3 DEF Inv
<1> QED BY <1>5, <1>6, <1>7

\* Every step preserves the invariant.
LEMMA InvStep == Inv /\ [Next]_vars => Inv'
<1> SUFFICES ASSUME Inv, [Next]_vars PROVE Inv'
  OBVIOUS
<1>1. CASE UNCHANGED vars
  BY <1>1 DEF vars, Inv, TypeOK, OwnerInv, ChunkInv, ContentsInv
<1>2. CASE Next
  BY <1>2, TransferStep, AnswerStep, DropDataStep, ScanForTimeoutsStep, TearDownStep,
     ContentsStep, PreadIntoBufferStep, AnswerChunkStep, ContentsLaterStep DEF Next
<1> QED BY <1>1, <1>2

-----------------------------------------------------------------------------
(* What follows for every behaviour.                                        *)

\* A buffer changes hands with its request.
THEOREM BuffersInvariant == Spec => []Inv
<1> QED BY InvInit, InvStep, PTL DEF Spec

\* Type correctness; a late callback resumes no caller again.
THEOREM BuffersTypeCorrect == Spec => []TypeOK
<1>1. Inv => TypeOK
  BY DEF Inv
<1> QED BY <1>1, BuffersInvariant, PTL

\* nfsCallback, dataHandler and cleanup never free a transfer's buffer twice.
THEOREM NoDoubleFree == Spec => []FreedOnce
<1>1. Inv => FreedOnce
  <2> SUFFICES ASSUME Inv, NEW o \in Owners PROVE buffer[o] # "corrupt"
    BY DEF FreedOnce
  <2>1. OwnerInv(o) /\ request[o] \in {"none", "sent", "over"}
    BY OwnersNotChunks DEF Inv, TypeOK
  <2> QED BY <2>1 DEF OwnerInv, Owners
<1> QED BY <1>1, BuffersInvariant, PTL

\* libnfs never reads or writes a freed buffer of a single read or write, not
\* even when the callback comes after a timeout.
THEOREM TransferBufferOutlivesRequest == Spec => []OwnBufferAlive
<1>1. Inv => OwnBufferAlive
  BY DEF Inv, OwnerInv, OwnBufferAlive
<1> QED BY <1>1, BuffersInvariant, PTL

\* readFile and preadFile leak no buffer, whichever way their request ended.
THEOREM ReadsLeakNothing == Spec => []ReadReleased
<1>1. Inv => ReadReleased
  BY DEF Inv, OwnerInv, ReadReleased, Owners
<1> QED BY <1>1, BuffersInvariant, PTL

\* The Data contents(atPath:) returns is written to by nobody any more.
THEOREM ReturnedFileIsQuiescent == Spec => []ReturnedIsQuiescent
<1>1. Inv => ReturnedIsQuiescent
  <2> SUFFICES ASSUME Inv, contents = "returned", NEW c \in Chunks
               PROVE  request[c] = "over" /\ caller[c] = "ok"
    BY DEF ReturnedIsQuiescent
  <2>1. caller[c] = "ok" /\ ChunkInv(c) /\ request[c] \in {"none", "sent", "over"}
    BY OwnersNotChunks DEF Inv, ContentsInv, TypeOK
  <2> QED BY <2>1 DEF ChunkInv
<1> QED BY <1>1, BuffersInvariant, PTL

\* Awaiting the task group's children protects the ReadBuffer unless a timeout
\* has resumed a chunk early.
THEOREM DrainingIsEnough == Spec => []DrainProtectsReadBuffer
<1>1. Inv => DrainProtectsReadBuffer
  <2> SUFFICES ASSUME Inv, NEW c \in Chunks, request[c] = "sent", caller[c] = "waiting"
               PROVE  readBuffer = "allocated"
    BY DEF DrainProtectsReadBuffer
  <2>1. c \in tasks
    BY DEF Inv, ChunkInv
  <2> QED BY <2>1 DEF Inv, ContentsInv, TypeOK
<1> QED BY <1>1, BuffersInvariant, PTL
=============================================================================
