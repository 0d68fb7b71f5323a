--------------------------- MODULE RemoveItemProofs ---------------------------
(***************************************************************************)
(* removeItem removes only what can be walked to from the item, and has    *)
(* removed all of the item when it returns, for any tree, any links and    *)
(* any interference.  First what each step does to the part of the         *)
(* invariant it disturbs, then one lemma per action.                       *)
(***************************************************************************)
EXTENDS RemoveItem, TLAPS

USE TreeAssumption

-----------------------------------------------------------------------------
(* The server's tree.                                                       *)

\* A removal the server carries out leaves a tree: a directory that goes has
\* nothing in it, and nothing is in a file or a link.
LEMMA RemovalKeepsTree ==
    ASSUME TypeOK, TreeInv, NEW e \in Entries,
           Removable("unlink", e) \/ Removable("rmdir", e),
           kind' = [kind EXCEPT ![e] = "absent"]
    PROVE  TreeInv' /\ kind' \in [Entries -> {"absent", "file", "dir", "link"}]
<1>1. \A x \in Entries : kind'[x] = IF x = e THEN "absent" ELSE kind[x]
  BY DEF TypeOK
<1>2. \A x \in Entries : kind[x] # "absent" => Parent[x] # e
  <2> SUFFICES ASSUME NEW x \in Entries, kind[x] # "absent", Parent[x] = e
               PROVE  FALSE
    OBVIOUS
  <2>1. kind[e] = "dir"
    BY DEF TreeInv
  <2>2. Children(e) = {}
    BY <2>1 DEF Removable
  <2> QED BY <2>2 DEF Children
<1> QED BY <1>1, <1>2 DEF TreeInv, TypeOK

\* So does an entry created in a directory.
LEMMA CreationKeepsTree ==
    ASSUME TypeOK, TreeInv, NEW e \in Entries, kind[e] = "absent",
           Parent[e] = None \/ kind[Parent[e]] = "dir",
           NEW k \in {"file", "dir"}, kind' = [kind EXCEPT ![e] = k]
    PROVE  TreeInv' /\ kind' \in [Entries -> {"absent", "file", "dir", "link"}]
<1>1. \A x \in Entries : kind'[x] = IF x = e THEN k ELSE kind[x]
  BY DEF TypeOK
<1>2. \A x \in Entries : kind[x] # "absent" => Parent[x] # e
  BY DEF TreeInv
<1>3. Parent[e] # None => Parent[e] # e
  OBVIOUS
<1> QED BY <1>1, <1>2, <1>3 DEF TreeInv, TypeOK

\* A walk through a directory that was walked to, or through a link that was,
\* stays within every closed set.
LEMMA ListingIsReachable ==
    ASSUME TreeInv, NEW Z \in ClosedSets, NEW e \in Z
    PROVE  Children(Followed(e)) \subseteq Z
<1>1. Closed(Z) /\ e \in Entries
  BY DEF ClosedSets
<1>2. CASE kind[e] = "link"
  <2>1. e \in Links /\ Followed(e) = LinkTo[e]
    BY <1>1, <1>2 DEF TreeInv, Followed
  <2> QED BY <1>1, <2>1 DEF Closed, Children
<1>3. CASE kind[e] # "link"
  BY <1>1, <1>3 DEF Closed, Children, Followed
<1> QED BY <1>2, <1>3

-----------------------------------------------------------------------------
(* The steps of the call.                                                   *)

\* The initial state satisfies the invariant.
LEMMA InvInit == Init => Inv
<1> SUFFICES ASSUME Init PROVE Inv
  OBVIOUS
<1>1. TypeOK
  BY DEF Init, TypeOK
<1>2. TreeInv
  BY DEF Init, TreeInv
<1>3. ASSUME NEW Z \in ClosedSets PROVE WalkInv(Z)
  BY <1>3 DEF Init, WalkInv, ClosedSets, Closed
<1>4. StackInv /\ late = {}
  BY DEF Init, StackInv
<1> QED BY <1>1, <1>2, <1>3, <1>4 DEF Inv

\* stat decides between a directory and anything else.
LEMMA StatStep == Inv /\ Stat => Inv'
<1> SUFFICES ASSUME Inv, Stat PROVE Inv'
  OBVIOUS
<1> USE DEF serverVars
<1>1. TypeOK'
  BY DEF Inv, TypeOK, Stat
<1>2. TreeInv' /\ StackInv'
  BY DEF Inv, TreeInv, StackInv, Stat
<1>3. ASSUME NEW Z \in ClosedSets PROVE WalkInv(Z)'
  BY <1>3 DEF Inv, WalkInv, Stat
<1> QED BY <1>1, <1>2, <1>3 DEF Inv, Stat, ClosedSets, Closed

\* A listing is reachable.
LEMMA ListStep == Inv /\ List => Inv'
<1> SUFFICES ASSUME Inv, List PROVE Inv'
  OBVIOUS
<1> USE DEF serverVars
<1>1. /\ depth \in 0 .. MaxDepth /\ depth < MaxDepth /\ depth' = depth + 1 /\ cur \in Entries
      /\ dirs \in [1 .. MaxDepth -> Entries \cup {None}]
      /\ items \in [1 .. MaxDepth -> SUBSET Entries]
      /\ dirs' = [dirs EXCEPT ![depth + 1] = cur]
      /\ items' = [items EXCEPT ![depth + 1] = Children(Followed(cur))]
      /\ pc' = "items" /\ UNCHANGED <<cur, serverVars>> /\ pc = "list"
  BY DEF Inv, TypeOK, List
<1>2. Children(Followed(cur)) \subseteq Entries
  BY DEF Children
<1>3. /\ dirs' \in [1 .. MaxDepth -> Entries \cup {None}]
      /\ items' \in [1 .. MaxDepth -> SUBSET Entries]
      /\ depth' \in 1 .. MaxDepth
      /\ dirs'[depth'] = cur /\ items'[depth'] = Children(Followed(cur))
      /\ \A i \in 1 .. depth : dirs'[i] = dirs[i] /\ items'[i] = items[i]
  BY <1>1, <1>2
<1>4. \A i \in 1 .. depth' : i \in 1 .. depth \/ i = depth'
  BY <1>1
<1>5. TypeOK'
  BY <1>1, <1>3, <1>4 DEF Inv, TypeOK
<1>6. TreeInv'
  BY <1>1 DEF Inv, TreeInv
<1>7. ASSUME NEW Z \in ClosedSets PROVE WalkInv(Z)'
  <2>1. WalkInv(Z)
    BY DEF Inv
  <2>2. Children(Followed(cur)) \subseteq Z
    BY <2>1, ListingIsReachable DEF Inv, WalkInv
  <2> QED BY <1>1, <1>3, <1>4, <2>1, <2>2 DEF WalkInv
<1>8. StackInv'
  <2>1. CASE depth = 0
    <3>1. cur = Root
      BY <1>1, <2>1 DEF Inv, StackInv
    <3> QED BY <1>1, <1>3, <2>1, <3>1 DEF StackInv
  <2>2. CASE depth > 0
    BY <1>1, <1>3, <2>2 DEF Inv, StackInv
  <2> QED BY <1>1, <2>1, <2>2
<1> QED BY <1>1, <1>5, <1>6, <1>7, <1>8 DEF Inv, ClosedSets, Closed

\* The loop takes the next item of its listing.
LEMMA NextItemStep == ASSUME Inv, NEW e \in Entries, NextItem(e) PROVE Inv'
<1> USE DEF serverVars
<1>1. /\ depth \in 1 .. MaxDepth /\ e \in items[depth]
      /\ items \in [1 .. MaxDepth -> SUBSET Entries]
      /\ items' = [items EXCEPT ![depth] = items[depth] \ {e}]
      /\ cur' = e /\ pc' = "stat" /\ UNCHANGED <<depth, dirs, serverVars>> /\ pc = "items"
  BY DEF Inv, TypeOK, NextItem
<1>2. /\ items' \in [1 .. MaxDepth -> SUBSET Entries]
      /\ \A i \in 1 .. depth : items'[i] \subseteq items[i]
  BY <1>1
<1>3. TypeOK'
  BY <1>1, <1>2 DEF Inv, TypeOK
<1>4. TreeInv' /\ StackInv'
  BY <1>1 DEF Inv, TreeInv, StackInv
<1>5. ASSUME NEW Z \in ClosedSets PROVE WalkInv(Z)'
  <2>1. WalkInv(Z)
    BY DEF Inv
  <2> QED BY <1>1, <1>2, <2>1 DEF WalkInv
<1> QED BY <1>1, <1>3, <1>4, <1>5 DEF Inv, ClosedSets, Closed

\* unlink removes the entry the call was made for.
LEMMA UnlinkStep == Inv /\ Unlink => Inv'
<1> SUFFICES ASSUME Inv, Unlink PROVE Inv'
  OBVIOUS
<1>1. /\ pc = "unlink" /\ Removable("unlink", cur) /\ cur \in Entries
      /\ kind' = [kind EXCEPT ![cur] = "absent"] /\ removed' = removed \cup {cur}
      /\ pc' = IF depth = 0 THEN "returned" ELSE "items"
      /\ UNCHANGED <<cur, depth, dirs, items, late>> /\ depth \in 0 .. MaxDepth
  BY DEF Inv, TypeOK, Unlink, Remove, ReturnTo
<1>2. TreeInv' /\ kind' \in [Entries -> {"absent", "file", "dir", "link"}]
  BY <1>1, RemovalKeepsTree DEF Inv
<1>3. TypeOK'
  BY <1>1, <1>2 DEF Inv, TypeOK
<1>4. StackInv' /\ late' = {}
  BY <1>1 DEF Inv, StackInv
<1>5. ASSUME NEW Z \in ClosedSets PROVE WalkInv(Z)'
  <2>1. WalkInv(Z)
    BY DEF Inv
  <2> QED BY <1>1, <2>1 DEF WalkInv
<1> QED BY <1>2, <1>3, <1>4, <1>5 DEF Inv, ClosedSets, Closed

\* rmdir removes the directory that was emptied.
LEMMA RmdirStep == Inv /\ Rmdir => Inv'
<1> SUFFICES ASSUME Inv, Rmdir PROVE Inv'
  OBVIOUS
<1>1. /\ pc = "items" /\ Removable("rmdir", dirs[depth]) /\ dirs[depth] \in Entries
      /\ kind' = [kind EXCEPT ![dirs[depth]] = "absent"]
      /\ removed' = removed \cup {dirs[depth]}
      /\ depth' = depth - 1 /\ depth \in 1 .. MaxDepth
      /\ pc' = IF depth - 1 = 0 THEN "returned" ELSE "items"
      /\ UNCHANGED <<cur, dirs, items, late>>
  BY DEF Inv, TypeOK, Rmdir, Remove, ReturnTo
<1>2. TreeInv' /\ kind' \in [Entries -> {"absent", "file", "dir", "link"}]
  BY <1>1, RemovalKeepsTree DEF Inv
<1>3. TypeOK'
  BY <1>1, <1>2 DEF Inv, TypeOK
<1>4. StackInv' /\ late' = {}
  BY <1>1 DEF Inv, StackInv
<1>5. ASSUME NEW Z \in ClosedSets PROVE WalkInv(Z)'
  <2>1. WalkInv(Z)
    BY DEF Inv
  <2> QED BY <1>1, <2>1 DEF WalkInv
<1> QED BY <1>2, <1>3, <1>4, <1>5 DEF Inv, ClosedSets, Closed

\* A failed request ends the call; a timed-out removal of what was in hand stays.
LEMMA FailStep == Inv /\ Fail => Inv'
<1> SUFFICES ASSUME Inv, Fail PROVE Inv'
  OBVIOUS
<1>1. /\ pc' = "failed" /\ late' \subseteq late \cup Awaited
      /\ UNCHANGED <<kind, removed, cur, depth, dirs, items>>
  BY DEF Fail
<1>2. \A r \in Awaited : /\ r \in {"unlink", "rmdir"} \X Entries
                         /\ r[2] = cur \/ (depth \in 1 .. depth /\ r[2] = dirs[depth])
  BY DEF Awaited, Inv, TypeOK
<1>3. TypeOK'
  <2>1. late' \subseteq {"unlink", "rmdir"} \X Entries
    BY <1>1, <1>2 DEF Inv, TypeOK
  <2> QED BY <1>1, <2>1 DEF Inv, TypeOK
<1>4. TreeInv' /\ StackInv'
  BY <1>1 DEF Inv, TreeInv, StackInv
<1>5. ASSUME NEW Z \in ClosedSets PROVE WalkInv(Z)'
  <2>1. WalkInv(Z)
    BY DEF Inv
  <2>2. \A r \in late' : r[2] \in Z
    BY <1>1, <1>2, <2>1 DEF WalkInv
  <2> QED BY <1>1, <2>1, <2>2 DEF WalkInv
<1> QED BY <1>1, <1>3, <1>4, <1>5 DEF Inv, ClosedSets, Closed

-----------------------------------------------------------------------------
(* The server and its other clients.                                        *)

\* A late removal strikes an entry the call had in hand.
LEMMA LateRemovalStep == ASSUME Inv, NEW r \in late, LateRemoval(r) PROVE Inv'
<1>1. /\ late' = late \ {r} /\ UNCHANGED <<pc, cur, depth, dirs, items>>
      /\ \/ /\ Removable(r[1], r[2])
            /\ kind' = [kind EXCEPT ![r[2]] = "absent"] /\ removed' = removed \cup {r[2]}
         \/ UNCHANGED <<kind, removed>>
  BY DEF LateRemoval, Remove, callVars
<1>2. r[1] \in {"unlink", "rmdir"} /\ r[2] \in Entries
  BY DEF Inv, TypeOK
<1>3. TreeInv' /\ kind' \in [Entries -> {"absent", "file", "dir", "link"}]
  <2>1. CASE UNCHANGED <<kind, removed>>
    BY <2>1 DEF Inv, TypeOK, TreeInv
  <2>2. CASE Removable(r[1], r[2]) /\ kind' = [kind EXCEPT ![r[2]] = "absent"]
    BY <1>2, <2>2, RemovalKeepsTree DEF Inv
  <2> QED BY <1>1, <2>1, <2>2
<1>4. TypeOK'
  BY <1>1, <1>2, <1>3 DEF Inv, TypeOK
<1>5. StackInv'
  BY <1>1 DEF Inv, StackInv
<1>6. ASSUME NEW Z \in ClosedSets PROVE WalkInv(Z)'
  <2>1. WalkInv(Z)
    BY DEF Inv
  <2>2. r[2] \in Z
    BY <2>1 DEF WalkInv
  <2> QED BY <1>1, <2>1, <2>2 DEF WalkInv
<1> QED BY <1>1, <1>3, <1>4, <1>5, <1>6 DEF Inv, ClosedSets, Closed

\* What others do changes nothing but the tree.
LEMMA OtherStep ==
    ASSUME Inv, NEW e \in Entries, OtherCreates(e) \/ OtherRemoves(e)
    PROVE  Inv'
<1>1. UNCHANGED <<pc, cur, depth, dirs, items, late, removed>>
  BY DEF OtherCreates, OtherRemoves, callVars
<1>2. TreeInv' /\ kind' \in [Entries -> {"absent", "file", "dir", "link"}]
  <2>1. CASE OtherCreates(e)
    BY <2>1, CreationKeepsTree DEF Inv, OtherCreates
  <2>2. CASE OtherRemoves(e)
    BY <2>2, RemovalKeepsTree DEF Inv, OtherRemoves
  <2> QED BY <2>1, <2>2
<1>3. TypeOK' /\ StackInv'
  BY <1>1, <1>2 DEF Inv, TypeOK, StackInv
<1>4. ASSUME NEW Z \in ClosedSets PROVE WalkInv(Z)'
  BY <1>1, <1>4 DEF Inv, WalkInv
<1> QED BY <1>1, <1>2, <1>3, <1>4 DEF Inv, ClosedSets, Closed

\* Every step preserves the invariant.
LEMMA InvStep == Inv /\ [Next]_vars => Inv'
<1> SUFFICES ASSUME Inv, [Next]_vars PROVE Inv'
  OBVIOUS
<1>1. CASE UNCHANGED vars
  BY <1>1 DEF vars, Inv, TypeOK, TreeInv, WalkInv, StackInv, ClosedSets, Closed
<1>2. CASE Step
  BY <1>2, StatStep, ListStep, NextItemStep, UnlinkStep, RmdirStep, FailStep DEF Step
<1>3. CASE Others
  BY <1>3, LateRemovalStep, OtherStep DEF Others
<1> QED BY <1>1, <1>2, <1>3 DEF Next

-----------------------------------------------------------------------------
(* What follows for every behaviour.                                        *)

\* The inductive invariant of the removal.
THEOREM RemoveInvariant == Spec => []Inv
<1> QED BY InvInit, InvStep, PTL DEF Spec

\* Type correctness; a loop over a listing belongs to a directory on the stack.
THEOREM RemoveTypeCorrect == Spec => []TypeOK
<1>1. Inv => TypeOK
  BY DEF Inv
<1> QED BY <1>1, RemoveInvariant, PTL

\* removeItem removes nothing that cannot be walked to from the item.
THEOREM RemovesOnlyReachable == Spec => []OnlyReachable
<1>1. Inv => OnlyReachable
  BY DEF Inv, WalkInv, OnlyReachable
<1> QED BY <1>1, RemoveInvariant, PTL

\* A removeItem that has returned leaves no request with libnfs.
THEOREM NothingPendingAfterSuccess == Spec => []QuietAfterSuccess
<1>1. Inv => QuietAfterSuccess
  BY DEF Inv, QuietAfterSuccess
<1> QED BY <1>1, RemoveInvariant, PTL

\* The step with which removeItem returns has removed the item itself.
LEMMA ReturnRemovesRoot ==
    ASSUME Inv, Next, pc' = "returned", pc # "returned"
    PROVE  kind'[Root] = "absent"
<1>1. CASE Unlink
  <2>1. depth = 0 /\ kind' = [kind EXCEPT ![cur] = "absent"] /\ pc = "unlink"
    BY <1>1 DEF Unlink, Remove, ReturnTo
  <2> QED BY <2>1 DEF Inv, TypeOK, StackInv
<1>2. CASE Rmdir
  <2>1. depth - 1 = 0 /\ kind' = [kind EXCEPT ![dirs[depth]] = "absent"]
    BY <1>2 DEF Rmdir, Remove, ReturnTo
  <2>2. depth = 1 /\ dirs[1] = Root
    BY <2>1 DEF Inv, TypeOK, StackInv
  <2> QED BY <2>1, <2>2 DEF Inv, TypeOK
<1>3. CASE Stat \/ List \/ (\E e \in Entries : NextItem(e)) \/ Fail
  BY <1>3 DEF Stat, List, NextItem, Fail
<1>4. CASE Others
  BY <1>4 DEF Others, LateRemoval, OtherCreates, OtherRemoves, callVars
<1> QED BY <1>1, <1>2, <1>3, <1>4 DEF Next, Step

\* Whatever others add meanwhile, nothing of the item is left when removeItem
\* returns: rmdir fails on a directory that is not empty, and in a tree nothing
\* hangs beneath an entry that is gone.
THEOREM NothingLeftOnSuccess == Spec => SuccessMeansGone
<1>1. Inv /\ Inv' /\ [Next]_vars =>
         [pc' = "returned" => \A e \in Beneath(Root) : kind'[e] = "absent"]_pc
  <2> SUFFICES ASSUME Inv, Inv', Next, pc' = "returned", pc # "returned",
                      NEW e \in Beneath(Root)
               PROVE  kind'[e] = "absent"
    BY DEF vars
  <2> DEFINE Z == {x \in Entries : kind'[x] = "absent"}
  <2>1. Root \in Z
    BY ReturnRemovesRoot
  <2>2. \A x \in Entries : Parent[x] \in Z => x \in Z
    BY DEF Inv, TreeInv
  <2>3. Z \in SUBSET Entries
    OBVIOUS
  <2>4. e \in Z
    BY <2>1, <2>2, <2>3 DEF Beneath
  <2> QED BY <2>4
<1> QED BY <1>1, RemoveInvariant, PTL DEF Spec, SuccessMeansGone
===============================================================================
