----------------------------- MODULE RemoveItem -----------------------------
(***************************************************************************)
(* removeItem(atPath:) of Sources/NFSKit/NFSClient.swift: a recursive      *)
(* removal made of one stat, listing, unlink and rmdir after another, each *)
(* an await during which other clients of the server go on changing the    *)
(* tree.                                                                   *)
(*                                                                         *)
(* An entry stands for a name in a directory, so a path is known by the    *)
(* entries it leads through.  stat and opendir follow a symbolic link at   *)
(* the end of the path, unlink and rmdir do not.                           *)
(***************************************************************************)
EXTENDS Integers

CONSTANTS
    Entries,      \* names in directories
    Parent,       \* the directory each entry is in; None for an export's root
    Root,         \* the item to remove
    Links,        \* the entries that are symbolic links to begin with
    LinkTo,       \* what each of them leads to
    Directories,  \* the entries that are directories to begin with
    Shared,       \* the entries other clients create and remove
    MaxDepth,     \* bound: nested listings; beyond it libnfs refuses the path
    None

ASSUME TreeAssumption ==
    /\ None \notin Entries
    /\ Directories \subseteq Entries \ Links
    /\ Parent \in [Entries -> Directories \cup {None}]
    /\ Root \in Entries
    /\ Links \subseteq Entries
    /\ LinkTo \in [Links -> Entries \ Links]
    /\ Shared \subseteq Entries
    /\ MaxDepth \in Nat

VARIABLES
    kind,     \* what the server has under each name
    pc,       \* the await the call is at, or its outcome
    cur,      \* the entry removeItem was called for last
    depth,    \* how many directories are being emptied
    dirs,     \* the entries they were reached by, outermost first
    items,    \* what is left of their listings
    late,     \* removals given up on by a timeout that libnfs still holds
    removed   \* history: the entries this call has removed

serverVars == <<kind, late, removed>>
callVars == <<pc, cur, depth, dirs, items>>
vars == <<kind, pc, cur, depth, dirs, items, late, removed>>

Children(e) == {x \in Entries : Parent[x] = e /\ kind[x] # "absent"}

\* Where stat and opendir of an entry lead.
Followed(e) == IF kind[e] = "link" THEN LinkTo[e] ELSE e

\* The path through the first d directories still leads to the entry e.
Found(e, d) ==
    /\ kind[e] # "absent"
    /\ \A i \in 1 .. d :
          /\ kind[Followed(dirs[i])] = "dir"
          /\ Parent[IF i = d THEN e ELSE dirs[i + 1]] = Followed(dirs[i])

\* What unlink and rmdir of the server ask of an entry.
Removable(op, e) ==
    IF op = "unlink" THEN kind[e] \in {"file", "link"}
    ELSE kind[e] = "dir" /\ Children(e) = {}

Init ==
    /\ kind = [e \in Entries |-> IF e \in Links THEN "link"
                                 ELSE IF e \in Directories THEN "dir" ELSE "file"]
    /\ pc = "stat"
    /\ cur = Root
    /\ depth = 0
    /\ dirs = [i \in 1 .. MaxDepth |-> None]
    /\ items = [i \in 1 .. MaxDepth |-> {}]
    /\ late = {}
    /\ removed = {}

-----------------------------------------------------------------------------
(* The call.                                                                *)

\* removeItem: stat, which tells a directory from anything else.
Stat ==
    /\ pc = "stat"
    /\ Found(cur, depth)
    /\ kind[Followed(cur)] # "absent"
    /\ pc' = IF kind[Followed(cur)] = "dir" THEN "list" ELSE "unlink"
    /\ UNCHANGED <<cur, depth, dirs, items, serverVars>>

\* removeDirectoryRecursive: contentsOfDirectory.
List ==
    /\ pc = "list"
    /\ Found(cur, depth)
    /\ kind[Followed(cur)] = "dir"
    /\ depth < MaxDepth
    /\ depth' = depth + 1
    /\ dirs' = [dirs EXCEPT ![depth + 1] = cur]
    /\ items' = [items EXCEPT ![depth + 1] = Children(Followed(cur))]
    /\ pc' = "items"
    /\ UNCHANGED <<cur, serverVars>>

\* The loop over the listing: the next item, whatever order the server lists in.
NextItem(e) ==
    /\ pc = "items"
    /\ e \in items[depth]
    /\ items' = [items EXCEPT ![depth] = @ \ {e}]
    /\ cur' = e
    /\ pc' = "stat"
    /\ UNCHANGED <<depth, dirs, serverVars>>

\* The server carries out a removal.
Remove(e) ==
    /\ kind' = [kind EXCEPT ![e] = "absent"]
    /\ removed' = removed \cup {e}

\* An inner removeItem returns to the loop of its caller.
ReturnTo(d) == pc' = IF d = 0 THEN "returned" ELSE "items"

UnlinkResolvesLink ==
    /\ pc = "unlink"
    /\ Found(cur, depth)
    /\ Removable("unlink", Followed(cur))
    /\ Remove(Followed(cur))
    /\ ReturnTo(depth)
    /\ UNCHANGED <<cur, depth, dirs, items, late>>

\* removeItem: unlink.
Unlink ==
    /\ pc = "unlink"
    /\ Found(cur, depth)
    /\ Removable("unlink", cur)
    /\ Remove(cur)
    /\ ReturnTo(depth)
    /\ UNCHANGED <<cur, depth, dirs, items, late>>

RmdirUnchecked ==
    /\ pc = "items"
    /\ items[depth] = {}
    /\ IF Found(dirs[depth], depth - 1) /\ Removable("rmdir", dirs[depth])
       THEN Remove(dirs[depth])
       ELSE UNCHANGED <<kind, removed>>
    /\ depth' = depth - 1
    /\ ReturnTo(depth - 1)
    /\ UNCHANGED <<cur, dirs, items, late>>

RmdirListsAgain ==
    /\ pc = "items"
    /\ items[depth] = {}
    /\ IF Children(dirs[depth]) # {}
       THEN /\ items' = [items EXCEPT ![depth] = Children(dirs[depth])]
            /\ UNCHANGED <<pc, depth, kind, removed>>
       ELSE /\ Found(dirs[depth], depth - 1)
            /\ Removable("rmdir", dirs[depth])
            /\ Remove(dirs[depth])
            /\ depth' = depth - 1
            /\ ReturnTo(depth - 1)
            /\ UNCHANGED items
    /\ UNCHANGED <<cur, dirs, late>>

\* The loop has ended: rmdir.
Rmdir ==
    /\ pc = "items"
    /\ items[depth] = {}
    /\ Found(dirs[depth], depth - 1)
    /\ Removable("rmdir", dirs[depth])
    /\ Remove(dirs[depth])
    /\ depth' = depth - 1
    /\ ReturnTo(depth - 1)
    /\ UNCHANGED <<cur, dirs, items, late>>

\* The removal the call is waiting for, if it is waiting for one.
Awaited ==
    IF pc = "unlink" THEN {<<"unlink", cur>>}
    ELSE IF pc = "items" /\ items[depth] = {} THEN {<<"rmdir", dirs[depth]>>}
    ELSE {}

\* Any of the requests fails: the entry is gone or is of another kind, the
\* directory is not empty, the path too long, the connection lost.  The error
\* leaves every removeItem on the stack.  When it is a timeout libnfs keeps the
\* request.
Fail ==
    /\ pc \in {"stat", "list", "unlink"} \/ (pc = "items" /\ items[depth] = {})
    /\ pc' = "failed"
    /\ \/ late' = late
       \/ late' = late \cup Awaited
    /\ UNCHANGED <<kind, removed, cur, depth, dirs, items>>

Step == Stat \/ List \/ (\E e \in Entries : NextItem(e)) \/ Unlink \/ Rmdir \/ Fail

-----------------------------------------------------------------------------
(* The server and its other clients.                                        *)

\* A removal whose caller has timed out reaches the server after all.
LateRemoval(r) ==
    /\ r \in late
    /\ late' = late \ {r}
    /\ IF Removable(r[1], r[2]) THEN Remove(r[2]) ELSE UNCHANGED <<kind, removed>>
    /\ UNCHANGED callVars

OtherCreates(e) ==
    /\ kind[e] = "absent"
    /\ Parent[e] = None \/ kind[Parent[e]] = "dir"
    /\ \E k \in {"file", "dir"} : kind' = [kind EXCEPT ![e] = k]
    /\ UNCHANGED <<callVars, late, removed>>

OtherRemoves(e) ==
    /\ Removable("unlink", e) \/ Removable("rmdir", e)
    /\ kind' = [kind EXCEPT ![e] = "absent"]
    /\ UNCHANGED <<callVars, late, removed>>

Others ==
    \/ \E r \in late : LateRemoval(r)
    \/ \E e \in Shared : OtherCreates(e) \/ OtherRemoves(e)

Next == Step \/ Others

\* Every request is answered or times out.
Spec == Init /\ [][Next]_vars /\ WF_vars(Step)

-----------------------------------------------------------------------------
(* Properties.                                                              *)

\* The entries beneath an entry, itself included: in every set that contains it
\* and the contents of each of its directories.
Beneath(top) ==
    {e \in Entries : \A Z \in SUBSET Entries :
        (top \in Z /\ \A x \in Entries : Parent[x] \in Z => x \in Z) => e \in Z}

\* A set of entries that a walk from the root never leaves, following links.
Closed(Z) ==
    /\ Root \in Z
    /\ \A x \in Entries :
          Parent[x] \in Z \/ (\E l \in Links \cap Z : Parent[x] = LinkTo[l]) => x \in Z

\* Type correctness; a loop over a listing belongs to a directory on the stack.
TypeOK ==
    /\ kind \in [Entries -> {"absent", "file", "dir", "link"}]
    /\ pc \in {"stat", "list", "items", "unlink", "returned", "failed"}
    /\ cur \in Entries
    /\ depth \in 0 .. MaxDepth
    /\ dirs \in [1 .. MaxDepth -> Entries \cup {None}]
    /\ items \in [1 .. MaxDepth -> SUBSET Entries]
    /\ late \subseteq {"unlink", "rmdir"} \X Entries
    /\ removed \subseteq Entries
    /\ pc = "items" => depth > 0
    /\ \A i \in 1 .. depth : dirs[i] \in Entries

ClosedSets == {Z \in SUBSET Entries : Closed(Z)}

\* Whatever the other clients do meanwhile, a removal never touches an entry
\* that cannot be walked to from the item, late removals included; in particular
\* not what a link to a file leads to.
OnlyReachable == \A Z \in ClosedSets : removed \subseteq Z

\* removeItem removes the item and what is beneath it, and nothing else on the
\* share.
OnlyBeneath == removed \subseteq Beneath(Root)

\* When removeItem returns without an error nothing of the item is left, even
\* if others were adding to it: the rmdir of a directory somebody has put a file
\* in fails, and the error is passed on.
SuccessMeansGone ==
    [][pc' = "returned" => \A e \in Beneath(Root) : kind'[e] = "absent"]_pc

\* After a normal return none of its requests is left to strike later: what
\* others create at the same place is safe.
QuietAfterSuccess == pc = "returned" => late = {}

\* The call ends, although others keep adding entries and links may lead back to
\* a directory it is in.
Terminates == <>(pc \in {"returned", "failed"})

-----------------------------------------------------------------------------
(* The inductive invariant.                                                 *)

\* The server keeps a tree: what exists is in a directory; links are not made.
TreeInv ==
    /\ \A e \in Entries : kind[e] = "link" => e \in Links
    /\ \A e \in Entries : kind[e] # "absent" /\ Parent[e] # None => kind[Parent[e]] = "dir"

\* Everything the call has in hand can be walked to from the item.
WalkInv(Z) ==
    /\ cur \in Z
    /\ \A i \in 1 .. depth : dirs[i] \in Z /\ items[i] \subseteq Z
    /\ \A r \in late : r[2] \in Z
    /\ removed \subseteq Z

\* The outermost removal is that of the item itself.
StackInv ==
    /\ depth = 0 /\ pc \in {"stat", "list", "unlink"} => cur = Root
    /\ depth > 0 => dirs[1] = Root

Inv ==
    /\ TypeOK
    /\ TreeInv
    /\ \A Z \in ClosedSets : WalkInv(Z)
    /\ StackInv
    /\ late # {} => pc = "failed"
=============================================================================
