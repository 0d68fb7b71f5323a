------------------------- MODULE HandleRegistryProofs -------------------------
(***************************************************************************)
(* No handle is closed twice, none is orphaned and none is used after its  *)
(* close, for any number of files, directories, operations and IDs.  One   *)
(* lemma per action; the two closes of a file, which meet in the registry, *)
(* need the fact that a token's ID leads to its own handle or nowhere.     *)
(***************************************************************************)
EXTENDS HandleRegistry, TLAPS

USE RegistryAssumption DEF Opens, IDs

\* A token's ID leads to the token's own handle or nowhere, because no ID is
\* given out twice.
LEMMA EntryIsOwn ==
    ASSUME Inv, NEW o \in Opens
    PROVE  /\ Entry(o) \in {None, o}
           /\ Entry(o) # None =>
                 /\ o \in Files
                 /\ handleID[o] \in IDs
                 /\ handleRegistry[handleID[o]] = o
                 /\ stage[o] \in {"token", "dropped"}
                 /\ context = "live" => fh[o] = "open"
<1> SUFFICES ASSUME Entry(o) # None
             PROVE  /\ Entry(o) = o /\ o \in Files /\ handleID[o] \in IDs
                    /\ handleRegistry[handleID[o]] = o
                    /\ stage[o] \in {"token", "dropped"}
                    /\ context = "live" => fh[o] = "open"
  OBVIOUS
<1>1. handleID[o] \in IDs /\ Entry(o) = handleRegistry[handleID[o]]
  BY DEF Entry
<1>2. Entry(o) \in Files
  BY <1>1 DEF Inv, TypeOK
<1>3. handleID[Entry(o)] = handleID[o] /\ handleID[o] # 0
  BY <1>1 DEF Inv, IDInv
<1>4. Entry(o) = o
  BY <1>2, <1>3 DEF Inv, IDInv
<1>5. o \in Files /\ handleRegistry[handleID[o]] = o /\ o # None
  BY <1>1, <1>2, <1>4
<1> QED BY <1>1, <1>4, <1>5 DEF Inv, IDInv

\* The initial state satisfies the invariant.
LEMMA InvInit == Init => Inv
<1> SUFFICES ASSUME Init PROVE Inv
  OBVIOUS
<1>1. TypeOK
  BY DEF Init, TypeOK
<1>2. \A o \in Opens : OpenInv(o)
  BY DEF Init, OpenInv
<1>3. IDInv /\ CloseInv /\ OpInv /\ LogInv
  BY DEF Init, IDInv, CloseInv, OpInv, LogInv
<1>4. NoOrphans
  BY DEF Init, NoOrphans
<1> QED BY <1>1, <1>2, <1>3, <1>4 DEF Inv

-----------------------------------------------------------------------------
(* The actions.                                                             *)

\* An open is submitted.
LEMMA SubmitOpenStep ==
    ASSUME Inv, NEW o \in Opens, SubmitOpen(o)
    PROVE  Inv'
<1> USE DEF SubmitOpen, registryVars, opVars, logVars
<1>1. TypeOK'
  BY DEF Inv, TypeOK
<1>2. (\A x \in Opens : OpenInv(x))'
  BY DEF Inv, TypeOK, OpenInv
<1>3. IDInv'
  <2>1. \A x \in Opens : stage[x] \in {"token", "dropped"} => stage'[x] = stage[x]
    BY DEF Inv, TypeOK
  <2> QED BY <2>1 DEF Inv, TypeOK, IDInv
<1>4. CloseInv'
  BY DEF Inv, TypeOK, OpenInv, IDInv, CloseInv
<1>5. OpInv'
  BY DEF Inv, TypeOK, OpInv
<1>6. LogInv'
  BY DEF Inv, LogInv
<1>7. NoOrphans'
  BY DEF Inv, TypeOK, OpenInv, NoOrphans, Entry
<1> QED BY <1>1, <1>2, <1>3, <1>4, <1>5, <1>6, <1>7 DEF Inv

\* An open is answered: the handle goes to a caller that waits, or is lost.
LEMMA AnswerOpenStep ==
    ASSUME Inv, NEW o \in Opens, AnswerOpen(o)
    PROVE  Inv'
<1> USE DEF AnswerOpen, registryVars, opVars, logVars
<1>1. TypeOK'
  BY DEF Inv, TypeOK
<1>2. (\A x \in Opens : OpenInv(x))'
  BY DEF Inv, TypeOK, OpenInv
<1>3. IDInv'
  BY DEF Inv, TypeOK, OpenInv, IDInv
<1>4. CloseInv'
  BY DEF Inv, TypeOK, OpenInv, IDInv, CloseInv
<1>5. OpInv'
  BY DEF Inv, TypeOK, OpenInv, OpInv
<1>6. LogInv'
  BY DEF Inv, LogInv
<1>7. NoOrphans'
  BY DEF Inv, TypeOK, OpenInv, NoOrphans, Entry
<1> QED BY <1>1, <1>2, <1>3, <1>4, <1>5, <1>6, <1>7 DEF Inv

\* An open times out.
LEMMA TimeOutOpenStep ==
    ASSUME Inv, NEW o \in Opens, TimeOutOpen(o)
    PROVE  Inv'
<1> USE DEF TimeOutOpen, registryVars, opVars, logVars
<1>1. TypeOK'
  BY DEF Inv, TypeOK
<1>2. (\A x \in Opens : OpenInv(x))'
  BY DEF Inv, TypeOK, OpenInv
<1>3. IDInv'
  BY DEF Inv, TypeOK, OpenInv, IDInv
<1>4. CloseInv'
  BY DEF Inv, TypeOK, OpenInv, IDInv, CloseInv
<1>5. OpInv'
  BY DEF Inv, TypeOK, OpInv
<1>6. LogInv'
  BY DEF Inv, LogInv
<1>7. NoOrphans'
  BY DEF Inv, TypeOK, OpenInv, NoOrphans, Entry
<1> QED BY <1>1, <1>2, <1>3, <1>4, <1>5, <1>6, <1>7 DEF Inv

\* A handle enters the registry under an ID nobody has had.
LEMMA RegisterHandleStep ==
    ASSUME Inv, NEW o \in Files, RegisterHandle(o)
    PROVE  Inv'
<1> USE DEF RegisterHandle, registryVars, opVars, logVars
<1>1. TypeOK'
  BY DEF Inv, TypeOK
<1>2. (\A x \in Opens : OpenInv(x))'
  BY DEF Inv, TypeOK, OpenInv
<1>3. IDInv'
  BY DEF Inv, TypeOK, OpenInv, IDInv
<1>4. CloseInv'
  BY DEF Inv, TypeOK, OpenInv, IDInv, CloseInv
<1>5. OpInv'
  BY DEF Inv, TypeOK, OpInv
<1>6. LogInv'
  BY DEF Inv, LogInv
<1>7. NoOrphans'
  <2>1. \A x \in Opens \ {o} : handleID[x] # nextHandleID
    BY DEF Inv, TypeOK, IDInv
  <2>2. \A x \in Opens \ {o} : Entry(x)' = Entry(x)
    BY <2>1 DEF Inv, TypeOK, Entry
  <2>3. Entry(o)' = o /\ stage'[o] = "token"
    BY DEF Inv, TypeOK, Entry
  <2> QED BY <2>2, <2>3 DEF Inv, TypeOK, NoOrphans
<1> QED BY <1>1, <1>2, <1>3, <1>4, <1>5, <1>6, <1>7 DEF Inv

\* A directory is read and closed; no operation is about it.
LEMMA ReaddirAllStep ==
    ASSUME Inv, NEW o \in Dirs, ReaddirAll(o)
    PROVE  Inv'
<1> USE DEF ReaddirAll, registryVars, opVars, logVars
<1>1. TypeOK'
  <2>1. releases' \in [Opens -> Nat]
    BY DEF Inv, TypeOK
  <2> QED BY <2>1 DEF Inv, TypeOK
<1>2. (\A x \in Opens : OpenInv(x))'
  BY DEF Inv, TypeOK, OpenInv
<1>3. IDInv'
  BY DEF Inv, TypeOK, OpenInv, IDInv
<1>4. CloseInv'
  BY DEF Inv, TypeOK, OpenInv, IDInv, CloseInv
<1>5. OpInv'
  BY DEF Inv, TypeOK, OpInv
<1>6. LogInv'
  BY DEF Inv, LogInv
<1>7. NoOrphans'
  BY DEF Inv, TypeOK, OpenInv, NoOrphans, Entry
<1> QED BY <1>1, <1>2, <1>3, <1>4, <1>5, <1>6, <1>7 DEF Inv

\* An operation is called.
LEMMA CallOpStep ==
    ASSUME Inv, NEW c \in Ops, NEW o \in Files, CallOp(c, o)
    PROVE  Inv'
<1> USE DEF CallOp, registryVars, opVars, logVars
<1>1. TypeOK'
  BY DEF Inv, TypeOK
<1>2. (\A x \in Opens : OpenInv(x))'
  BY DEF Inv, TypeOK, OpenInv
<1>3. IDInv'
  BY DEF Inv, TypeOK, OpenInv, IDInv
<1>4. CloseInv'
  BY DEF Inv, TypeOK, OpenInv, IDInv, CloseInv
<1>5. OpInv'
  BY DEF Inv, TypeOK, OpInv
<1>6. LogInv'
  BY DEF Inv, LogInv
<1>7. NoOrphans'
  BY DEF Inv, TypeOK, OpenInv, NoOrphans, Entry
<1> QED BY <1>1, <1>2, <1>3, <1>4, <1>5, <1>6, <1>7 DEF Inv

\* An operation reaches the head of the queue and looks its handle up.
LEMMA RunOpStep ==
    ASSUME Inv, NEW c \in Ops, RunOp(c)
    PROVE  Inv'
<1> USE DEF RunOp, registryVars, opVars, logVars
<1>1. TypeOK'
  <2>1. Entry(opOn[c]) \in Files \cup {None}
    BY DEF Inv, TypeOK, Entry
  <2>2. opOn' \in [Ops -> Files \cup {None}]
    BY <2>1 DEF Inv, TypeOK
  <2>3. opStage' \in [Ops -> {"idle", "queued", "waiting", "late"}]
    BY DEF Inv, TypeOK
  <2> QED BY <2>2, <2>3 DEF Inv, TypeOK
<1>2. (\A x \in Opens : OpenInv(x))'
  BY DEF Inv, TypeOK, OpenInv
<1>3. IDInv'
  BY DEF Inv, TypeOK, OpenInv, IDInv
<1>4. CloseInv'
  BY DEF Inv, TypeOK, OpenInv, IDInv, CloseInv
<1>5. OpInv'
  <2>1. opOn[c] \in Files /\ stage[opOn[c]] = "token"
    BY DEF Inv, OpInv
  <2>2. Entry(opOn[c]) \in {None, opOn[c]}
    BY <2>1, EntryIsOwn
  <2>3. Entry(opOn[c]) # None /\ context = "live" => fh[opOn[c]] = "open"
    BY <2>1, <2>2, EntryIsOwn
  <2>4. \A x \in Ops \ {c} : opStage'[x] = opStage[x] /\ opOn'[x] = opOn[x]
    BY DEF Inv, TypeOK
  <2>5. \/ opStage'[c] = "idle"
        \/ /\ opStage'[c] = "waiting" /\ opOn'[c] = opOn[c]
           /\ context = "live" /\ fh[opOn[c]] = "open"
    BY <2>2, <2>3 DEF Inv, TypeOK
  <2> HIDE DEF RunOp
  <2>6. UNCHANGED <<context, stage, fh, explicit>>
    BY DEF RunOp
  <2> QED BY <2>1, <2>4, <2>5, <2>6 DEF Inv, OpInv
<1>6. LogInv'
  BY DEF Inv, LogInv
<1>7. NoOrphans'
  BY DEF Inv, TypeOK, OpenInv, NoOrphans, Entry
<1> QED BY <1>1, <1>2, <1>3, <1>4, <1>5, <1>6, <1>7 DEF Inv

\* An operation is answered.
LEMMA AnswerOpStep ==
    ASSUME Inv, NEW c \in Ops, AnswerOp(c)
    PROVE  Inv'
<1> USE DEF AnswerOp, registryVars, opVars, logVars
<1>1. TypeOK'
  BY DEF Inv, TypeOK
<1>2. (\A x \in Opens : OpenInv(x))'
  BY DEF Inv, TypeOK, OpenInv
<1>3. IDInv'
  BY DEF Inv, TypeOK, OpenInv, IDInv
<1>4. CloseInv'
  BY DEF Inv, TypeOK, OpenInv, IDInv, CloseInv
<1>5. OpInv'
  BY DEF Inv, TypeOK, OpInv
<1>6. LogInv'
  BY DEF Inv, LogInv
<1>7. NoOrphans'
  BY DEF Inv, TypeOK, OpenInv, NoOrphans, Entry
<1> QED BY <1>1, <1>2, <1>3, <1>4, <1>5, <1>6, <1>7 DEF Inv

\* An operation times out.
LEMMA TimeOutOpStep ==
    ASSUME Inv, NEW c \in Ops, TimeOutOp(c)
    PROVE  Inv'
<1> USE DEF TimeOutOp, registryVars, opVars, logVars
<1>1. TypeOK'
  BY DEF Inv, TypeOK
<1>2. (\A x \in Opens : OpenInv(x))'
  BY DEF Inv, TypeOK, OpenInv
<1>3. IDInv'
  BY DEF Inv, TypeOK, OpenInv, IDInv
<1>4. CloseInv'
  BY DEF Inv, TypeOK, OpenInv, IDInv, CloseInv
<1>5. OpInv'
  BY DEF Inv, TypeOK, OpInv
<1>6. LogInv'
  BY DEF Inv, LogInv
<1>7. NoOrphans'
  BY DEF Inv, TypeOK, OpenInv, NoOrphans, Entry
<1> QED BY <1>1, <1>2, <1>3, <1>4, <1>5, <1>6, <1>7 DEF Inv

\* closeFile is called.
LEMMA CallCloseFileStep ==
    ASSUME Inv, NEW o \in Files, CallCloseFile(o)
    PROVE  Inv'
<1> USE DEF CallCloseFile, registryVars, opVars, logVars
<1>1. TypeOK'
  BY DEF Inv, TypeOK
<1>2. (\A x \in Opens : OpenInv(x))'
  BY DEF Inv, TypeOK, OpenInv
<1>3. IDInv'
  BY DEF Inv, TypeOK, OpenInv, IDInv
<1>4. CloseInv'
  BY DEF Inv, TypeOK, OpenInv, IDInv, CloseInv
<1>5. OpInv'
  BY DEF Inv, TypeOK, OpInv
<1>6. LogInv'
  BY DEF Inv, LogInv
<1>7. NoOrphans'
  BY DEF Inv, TypeOK, OpenInv, NoOrphans, Entry
<1> QED BY <1>1, <1>2, <1>3, <1>4, <1>5, <1>6, <1>7 DEF Inv

\* closeFile reaches the head of the queue.
LEMMA RunCloseFileStep ==
    ASSUME Inv, NEW o \in Opens, RunCloseFile(o)
    PROVE  Inv'
<1> USE DEF registryVars, opVars, logVars
<1>1. CASE Entry(o) = None \/ context = "destroyed"
  <2>1. /\ closeStage' = [closeStage EXCEPT ![o] = "idle"]
        /\ UNCHANGED <<context, stage, unanswered, fh, registryVars, opVars, closing, logVars,
                       releases, explicit, lost>>
    BY <1>1 DEF RunCloseFile
  <2>2. TypeOK' /\ CloseInv'
    BY <2>1 DEF Inv, TypeOK, CloseInv
  <2>3. (\A x \in Opens : OpenInv(x))' /\ OpInv' /\ LogInv'
    BY <2>1 DEF Inv, OpenInv, OpInv, LogInv
  <2>4. IDInv' /\ NoOrphans'
    BY <2>1 DEF Inv, IDInv, NoOrphans, Entry
  <2> QED BY <2>2, <2>3, <2>4 DEF Inv
<1>2. CASE Entry(o) # None /\ context = "live"
  <2>1. /\ Entry(o) = o /\ o \in Files /\ handleID[o] \in IDs /\ handleRegistry[handleID[o]] = o
        /\ fh[o] = "open" /\ stage[o] \in {"token", "dropped"}
    BY <1>2, EntryIsOwn
  <2>2. /\ handleRegistry' = [handleRegistry EXCEPT ![handleID[o]] = None]
        /\ UNCHANGED <<context, stage, unanswered, nextHandleID, handleID, opVars, closing, logVars>>
        /\ Idle /\ closeStage[o] = "queued"
    BY <1>2 DEF RunCloseFile, Forget
  <2>3. \/ /\ closeStage' = [closeStage EXCEPT ![o] = "idle"]
           /\ lost' = lost \cup {o}
           /\ UNCHANGED <<fh, releases, explicit>>
        \/ /\ closeStage' = [closeStage EXCEPT ![o] = "waiting"]
           /\ fh' = [fh EXCEPT ![o] = "closing"]
           /\ releases' = [releases EXCEPT ![o] = releases[o] + 1]
           /\ explicit' = explicit \cup {o}
           /\ UNCHANGED lost
    BY <1>2, <2>1 DEF RunCloseFile
  <2>4. releases[o] = 0
    BY <2>1 DEF Inv, OpenInv
  <2>5. TypeOK'
    <3>1. handleRegistry' \in [IDs -> Files \cup {None}]
      BY <2>1, <2>2 DEF Inv, TypeOK
    <3>2. closeStage' \in [Opens -> {"idle", "queued", "waiting", "late"}]
      BY <2>3 DEF Inv, TypeOK
    <3>3. releases' \in [Opens -> Nat]
      BY <2>3, <2>4 DEF Inv, TypeOK
    <3>4. fh' \in [Opens -> {"none", "open", "closing", "closed", "freed"}]
      BY <2>3 DEF Inv, TypeOK
    <3>5. explicit' \subseteq Opens /\ lost' \subseteq Opens
      BY <2>3 DEF Inv, TypeOK
    <3> QED BY <2>2, <3>1, <3>2, <3>3, <3>4, <3>5 DEF Inv, TypeOK
  <2>6. (\A x \in Opens : OpenInv(x))'
    BY <2>1, <2>2, <2>3, <2>4 DEF Inv, TypeOK, OpenInv
  <2>7. IDInv'
    BY <2>1, <2>2, <2>3 DEF Inv, TypeOK, IDInv
  <2>8. CloseInv'
    BY <2>1, <2>2, <2>3 DEF Inv, TypeOK, CloseInv, Idle
  <2>9. OpInv' /\ LogInv'
    BY <2>1, <2>2, <2>3 DEF Inv, TypeOK, OpInv, LogInv
  <2>10. NoOrphans'
    <3>1. \A x \in Opens \ {o} : Entry(x)' = Entry(x)
      <4>1. \A x \in Opens \ {o} : handleID[x] # handleID[o]
        BY <2>1 DEF Inv, IDInv
      <4> QED BY <2>2, <4>1 DEF Inv, TypeOK, Entry
    <3>2. fh'[o] # "open" \/ o \in lost'
      BY <2>3 DEF Inv, TypeOK
    <3>3. \A x \in Opens \ {o} : fh'[x] = fh[x] /\ (x \in lost' <=> x \in lost)
      BY <2>3 DEF Inv, TypeOK
    <3> QED BY <2>2, <3>1, <3>2, <3>3 DEF Inv, NoOrphans
  <2> QED BY <2>5, <2>6, <2>7, <2>8, <2>9, <2>10 DEF Inv
<1>3. context \in {"live", "destroyed"}
  BY DEF Inv, TypeOK
<1> QED BY <1>1, <1>2, <1>3

\* A close is answered.
LEMMA AnswerCloseStep ==
    ASSUME Inv, NEW o \in Files, AnswerClose(o)
    PROVE  Inv'
<1> USE DEF AnswerClose, registryVars, opVars, logVars
<1>1. TypeOK'
  BY DEF Inv, TypeOK
<1>2. (\A x \in Opens : OpenInv(x))'
  BY DEF Inv, TypeOK, OpenInv, CloseInv
<1>3. IDInv'
  BY DEF Inv, TypeOK, OpenInv, IDInv, CloseInv
<1>4. CloseInv'
  BY DEF Inv, TypeOK, OpenInv, IDInv, CloseInv
<1>5. OpInv'
  BY DEF Inv, TypeOK, OpInv, CloseInv
<1>6. LogInv'
  BY DEF Inv, LogInv
<1>7. NoOrphans'
  BY DEF Inv, TypeOK, OpenInv, NoOrphans, Entry
<1> QED BY <1>1, <1>2, <1>3, <1>4, <1>5, <1>6, <1>7 DEF Inv

\* A close times out.
LEMMA TimeOutCloseStep ==
    ASSUME Inv, NEW o \in Files, TimeOutClose(o)
    PROVE  Inv'
<1> USE DEF TimeOutClose, registryVars, opVars, logVars
<1>1. TypeOK'
  BY DEF Inv, TypeOK
<1>2. (\A x \in Opens : OpenInv(x))'
  BY DEF Inv, TypeOK, OpenInv
<1>3. IDInv'
  BY DEF Inv, TypeOK, OpenInv, IDInv
<1>4. CloseInv'
  BY DEF Inv, TypeOK, OpenInv, IDInv, CloseInv
<1>5. OpInv'
  BY DEF Inv, TypeOK, OpInv
<1>6. LogInv'
  BY DEF Inv, LogInv
<1>7. NoOrphans'
  BY DEF Inv, TypeOK, OpenInv, NoOrphans, Entry
<1> QED BY <1>1, <1>2, <1>3, <1>4, <1>5, <1>6, <1>7 DEF Inv

\* A token goes.
LEMMA DropTokenStep ==
    ASSUME Inv, NEW o \in Files, DropToken(o)
    PROVE  Inv'
<1> USE DEF DropToken, registryVars, opVars, logVars
<1>1. TypeOK'
  BY DEF Inv, TypeOK
<1>2. (\A x \in Opens : OpenInv(x))'
  BY DEF Inv, TypeOK, OpenInv
<1>3. IDInv'
  BY DEF Inv, TypeOK, OpenInv, IDInv
<1>4. CloseInv'
  BY DEF Inv, TypeOK, OpenInv, IDInv, CloseInv
<1>5. OpInv'
  BY DEF Inv, TypeOK, OpInv
<1>6. LogInv'
  BY DEF Inv, LogInv
<1>7. NoOrphans'
  BY DEF Inv, TypeOK, OpenInv, NoOrphans, Entry
<1> QED BY <1>1, <1>2, <1>3, <1>4, <1>5, <1>6, <1>7 DEF Inv

\* The close of a dropped token reaches the head of the queue.
LEMMA CloseFileFireAndForgetStep ==
    ASSUME Inv, NEW o \in Opens, CloseFileFireAndForget(o)
    PROVE  Inv'
<1> USE DEF registryVars, opVars, logVars
<1>1. /\ stage[o] = "dropped" /\ stage' = [stage EXCEPT ![o] = "done"] /\ closing = None
      /\ UNCHANGED <<context, unanswered, nextHandleID, handleID, opVars, closeStage, logVars,
                     explicit>>
  BY DEF CloseFileFireAndForget, Idle
<1>2. handleID[o] # 0
  BY <1>1 DEF Inv, OpenInv
<1>3. CASE Entry(o) = None
  <2>1. UNCHANGED <<handleRegistry, closing, fh, releases, lost>>
    BY <1>3 DEF CloseFileFireAndForget
  <2>2. \A i \in IDs : handleRegistry[i] # o
    BY <1>3 DEF Inv, TypeOK, IDInv, Entry
  <2>3. TypeOK' /\ (\A x \in Opens : OpenInv(x))'
    BY <1>1, <1>2, <2>1 DEF Inv, TypeOK, OpenInv
  <2>4. IDInv'
    BY <1>1, <2>1, <2>2 DEF Inv, TypeOK, IDInv
  <2>5. CloseInv' /\ OpInv' /\ LogInv'
    BY <1>1, <2>1 DEF Inv, TypeOK, CloseInv, OpInv, LogInv
  <2>6. NoOrphans'
    BY <1>1, <1>3, <2>1 DEF Inv, TypeOK, NoOrphans, Entry
  <2> QED BY <2>3, <2>4, <2>5, <2>6 DEF Inv
<1>4. CASE Entry(o) # None
  <2>1. /\ Entry(o) = o /\ o \in Files /\ handleID[o] \in IDs /\ handleRegistry[handleID[o]] = o
        /\ context = "live" => fh[o] = "open"
    BY <1>4, EntryIsOwn
  <2>2. handleRegistry' = [handleRegistry EXCEPT ![handleID[o]] = None]
    BY <1>4 DEF CloseFileFireAndForget, Forget
  <2>3. \/ /\ context = "live"
           /\ closing' = o
           /\ fh' = [fh EXCEPT ![o] = "closing"]
           /\ releases' = [releases EXCEPT ![o] = releases[o] + 1]
           /\ UNCHANGED lost
        \/ /\ context = "live"
           /\ lost' = lost \cup {o}
           /\ UNCHANGED <<closing, fh, releases>>
        \/ context # "live" /\ UNCHANGED <<closing, fh, releases, lost>>
    BY <1>4, <2>1 DEF CloseFileFireAndForget
  <2>4. context = "live" => releases[o] = 0
    BY <2>1 DEF Inv, OpenInv
  <2>5. TypeOK'
    <3>1. stage' \in [Opens -> {"idle", "opening", "opened", "token", "dropped", "done"}]
      BY <1>1 DEF Inv, TypeOK
    <3>2. handleRegistry' \in [IDs -> Files \cup {None}]
      BY <2>1, <2>2 DEF Inv, TypeOK
    <3>3. /\ fh' \in [Opens -> {"none", "open", "closing", "closed", "freed"}]
          /\ closing' \in Files \cup {None}
          /\ releases' \in [Opens -> Nat]
          /\ lost' \subseteq Opens
      <4>1. /\ fh \in [Opens -> {"none", "open", "closing", "closed", "freed"}]
            /\ closing \in Files \cup {None} /\ releases \in [Opens -> Nat]
            /\ lost \subseteq Opens
        BY DEF Inv, TypeOK
      <4>2. CASE context = "live"
        BY <2>1, <2>3, <4>1, <4>2
      <4>3. CASE context # "live"
        BY <2>3, <4>1, <4>3
      <4> QED BY <4>2, <4>3
    <3> QED BY <1>1, <3>1, <3>2, <3>3 DEF Inv, TypeOK
  <2>6. (\A x \in Opens : OpenInv(x))'
    BY <1>1, <1>2, <2>1, <2>3, <2>4 DEF Inv, TypeOK, OpenInv
  <2>7. IDInv'
    BY <1>1, <2>1, <2>2, <2>3 DEF Inv, TypeOK, IDInv
  <2>8. CloseInv'
    BY <1>1, <2>1, <2>3 DEF Inv, TypeOK, CloseInv
  <2>9. OpInv' /\ LogInv'
    BY <1>1, <2>1, <2>3 DEF Inv, TypeOK, OpInv, LogInv
  <2>10. NoOrphans'
    <3>1. \A x \in Opens \ {o} : Entry(x)' = Entry(x)
      <4>1. \A x \in Opens \ {o} : handleID[x] # handleID[o]
        BY <2>1 DEF Inv, IDInv
      <4> QED BY <1>1, <2>2, <4>1 DEF Inv, TypeOK, Entry
    <3>2. context = "live" => fh'[o] # "open" \/ o \in lost'
      BY <2>3 DEF Inv, TypeOK
    <3>3. \A x \in Opens \ {o} : /\ fh'[x] = fh[x] /\ stage'[x] = stage[x]
                                 /\ x \in lost' <=> x \in lost
      BY <1>1, <2>3 DEF Inv, TypeOK
    <3> QED BY <1>1, <3>1, <3>2, <3>3 DEF Inv, NoOrphans
  <2> QED BY <2>5, <2>6, <2>7, <2>8, <2>9, <2>10 DEF Inv
<1> QED BY <1>3, <1>4

\* nfs_close returns.
LEMMA NfsCloseReturnsStep ==
    ASSUME Inv, NfsCloseReturns
    PROVE  Inv'
<1> USE DEF NfsCloseReturns, registryVars, opVars, logVars
<1>1. TypeOK'
  BY DEF Inv, TypeOK
<1>2. (\A x \in Opens : OpenInv(x))'
  BY DEF Inv, TypeOK, OpenInv, CloseInv
<1>3. IDInv'
  BY DEF Inv, TypeOK, OpenInv, IDInv, CloseInv
<1>4. CloseInv'
  BY DEF Inv, TypeOK, OpenInv, IDInv, CloseInv
<1>5. OpInv'
  BY DEF Inv, TypeOK, OpInv, CloseInv
<1>6. LogInv'
  BY DEF Inv, LogInv
<1>7. NoOrphans'
  BY DEF Inv, TypeOK, OpenInv, NoOrphans, Entry
<1> QED BY <1>1, <1>2, <1>3, <1>4, <1>5, <1>6, <1>7 DEF Inv

\* The log handler is replaced.
LEMMA SetLogHandlerStep ==
    ASSUME Inv, NEW h \in Handlers \cup {None}, SetLogHandler(h)
    PROVE  Inv'
<1> USE DEF SetLogHandler, registryVars, opVars, logVars
<1>1. TypeOK'
  BY DEF Inv, TypeOK
<1>2. (\A x \in Opens : OpenInv(x))'
  BY DEF Inv, TypeOK, OpenInv
<1>3. IDInv'
  BY DEF Inv, TypeOK, OpenInv, IDInv
<1>4. CloseInv'
  BY DEF Inv, TypeOK, OpenInv, IDInv, CloseInv
<1>5. OpInv'
  BY DEF Inv, TypeOK, OpInv
<1>6. LogInv'
  BY DEF Inv, LogInv
<1>7. NoOrphans'
  BY DEF Inv, TypeOK, OpenInv, NoOrphans, Entry
<1> QED BY <1>1, <1>2, <1>3, <1>4, <1>5, <1>6, <1>7 DEF Inv

\* performShutdown destroys the context.
LEMMA PerformShutdownStep ==
    ASSUME Inv, PerformShutdown
    PROVE  Inv'
<1> USE DEF PerformShutdown, DestroyContext, registryVars, opVars, logVars
<1>1. TypeOK'
  BY DEF Inv, TypeOK
<1>2. (\A x \in Opens : OpenInv(x))'
  BY DEF Inv, TypeOK, OpenInv
<1>3. IDInv'
  BY DEF Inv, TypeOK, OpenInv, IDInv
<1>4. CloseInv'
  BY DEF Inv, TypeOK, CloseInv, Idle
<1>5. OpInv'
  BY DEF Inv, TypeOK, OpInv
<1>6. LogInv'
  BY DEF Inv, LogInv
<1>7. NoOrphans'
  BY DEF Inv, TypeOK, OpenInv, NoOrphans, Entry
<1> QED BY <1>1, <1>2, <1>3, <1>4, <1>5, <1>6, <1>7 DEF Inv

\* shutdownWithError destroys the context and leaves the registry.
LEMMA ShutdownWithErrorStep ==
    ASSUME Inv, ShutdownWithError
    PROVE  Inv'
<1> USE DEF ShutdownWithError, DestroyContext, registryVars, opVars, logVars
<1>1. TypeOK'
  BY DEF Inv, TypeOK
<1>2. (\A x \in Opens : OpenInv(x))'
  BY DEF Inv, TypeOK, OpenInv
<1>3. IDInv'
  BY DEF Inv, TypeOK, OpenInv, IDInv
<1>4. CloseInv'
  BY DEF Inv, TypeOK, CloseInv, Idle
<1>5. OpInv'
  BY DEF Inv, TypeOK, OpInv
<1>6. LogInv'
  BY DEF Inv, LogInv
<1>7. NoOrphans'
  BY DEF Inv, TypeOK, OpenInv, NoOrphans, Entry
<1> QED BY <1>1, <1>2, <1>3, <1>4, <1>5, <1>6, <1>7 DEF Inv

\* Every step preserves the invariant.
LEMMA InvStep == Inv /\ [Next]_vars => Inv'
<1> SUFFICES ASSUME Inv, [Next]_vars PROVE Inv'
  OBVIOUS
<1>1. CASE UNCHANGED vars
  BY <1>1 DEF vars, registryVars, opVars, logVars, Inv, TypeOK, OpenInv, IDInv, CloseInv,
     OpInv, LogInv, NoOrphans, Entry
<1>2. ASSUME NEW o \in Opens, SubmitOpen(o) \/ AnswerOpen(o) \/ TimeOutOpen(o)
      PROVE  Inv'
  BY <1>2, SubmitOpenStep, AnswerOpenStep, TimeOutOpenStep
<1>3. ASSUME NEW o \in Opens, QueueBlock(o)
      PROVE  Inv'
  BY <1>3, RegisterHandleStep, ReaddirAllStep, RunCloseFileStep, CloseFileFireAndForgetStep
     DEF QueueBlock
<1>4. ASSUME NEW o \in Files,
             CallCloseFile(o) \/ AnswerClose(o) \/ TimeOutClose(o) \/ DropToken(o)
      PROVE  Inv'
  BY <1>4, CallCloseFileStep, AnswerCloseStep, TimeOutCloseStep, DropTokenStep
<1>5. ASSUME NEW c \in Ops,
             RunOp(c) \/ AnswerOp(c) \/ TimeOutOp(c) \/ \E o \in Files : CallOp(c, o)
      PROVE  Inv'
  BY <1>5, RunOpStep, AnswerOpStep, TimeOutOpStep, CallOpStep
<1>6. ASSUME NEW h \in Handlers \cup {None}, SetLogHandler(h)
      PROVE  Inv'
  BY <1>6, SetLogHandlerStep
<1>7. CASE NfsCloseReturns \/ PerformShutdown \/ ShutdownWithError
  BY <1>7, NfsCloseReturnsStep, PerformShutdownStep, ShutdownWithErrorStep
<1> QED BY <1>1, <1>2, <1>3, <1>4, <1>5, <1>6, <1>7 DEF Next

-----------------------------------------------------------------------------
(* What follows for every behaviour.                                        *)

\* The inductive invariant of the registry.
THEOREM RegistryInvariant == Spec => []Inv
<1> QED BY InvInit, InvStep, PTL DEF Spec

\* Type correctness; only files enter the registry.
THEOREM RegistryTypeCorrect == Spec => []TypeOK
<1>1. Inv => TypeOK
  BY DEF Inv
<1> QED BY <1>1, RegistryInvariant, PTL

\* closeFile, the token's deinit, readdirAll and nfs_destroy_context never give up
\* the same handle twice.
THEOREM NoDoubleClose == Spec => []ReleasedOnce
<1>1. Inv => ReleasedOnce
  BY DEF Inv, OpenInv, ReleasedOnce
<1> QED BY <1>1, RegistryInvariant, PTL

\* The registry of a live context holds open handles, each under its token's ID.
THEOREM RegistryHoldsOpenHandles == Spec => []RegistryIsOpen
<1>1. Inv => RegistryIsOpen
  <2> SUFFICES ASSUME Inv PROVE RegistryIsOpen
    OBVIOUS
  <2>1. \A o \in Opens : Entry(o) \in {None, o}
    BY EntryIsOwn
  <2> QED BY <2>1 DEF Inv, IDInv, RegistryIsOpen
<1> QED BY <1>1, RegistryInvariant, PTL

\* An operation somebody awaits works on an open handle of a live context, unless
\* the handle was closed with closeFile.
THEOREM NoUseAfterClose == Spec => []AwaitedHandleIsOpen
<1>1. Inv => AwaitedHandleIsOpen
  BY DEF Inv, OpInv, AwaitedHandleIsOpen
<1> QED BY <1>1, RegistryInvariant, PTL

\* No open handle is orphaned but by a late open and a close that libnfs refuses,
\* closeFile's or the token's own nfs_close.
THEOREM NoHandleOrphaned == Spec => []NoOrphans
<1>1. Inv => NoOrphans
  BY DEF Inv
<1> QED BY <1>1, RegistryInvariant, PTL

\* The log callback libnfs holds leads to a live box.
THEOREM LogHandlerOutlivesCallback == Spec => []LogCallbackAlive
<1>1. Inv => LogCallbackAlive
  BY DEF Inv, LogInv, LogCallbackAlive
<1> QED BY <1>1, RegistryInvariant, PTL
===============================================================================
