------------------------------ MODULE Nesting ------------------------------
(***************************************************************************)
(* Subvolumes nested inside a slate or checkpoint, and how the hook's      *)
(* delete_subvol and btrfsDeleteRecursive of the Go code delete it         *)
(* together with them: `delete -R', and where that fails, or is not known, *)
(* one after another, failures ignored.                                    *)
(*                                                                         *)
(* A path is the sequence of the places where its components end, below    *)
(* the subvolume to delete, which is itself the path <<>>.                 *)
(***************************************************************************)
EXTENDS Integers, SequencesExt, FiniteSetsExt

CONSTANT Nested \* paths where a subvolume may be nested

IsPath(p) ==
  p \in Seq(Nat \ {0}) /\ \A i, j \in DOMAIN p : i < j => p[i] < p[j]

ASSUME NestedAssumption == \A p \in Nested : IsPath(p) /\ p # <<>>

Parent == <<>>

VARIABLES tree,  \* the subvolumes when the busy ones last changed
          busy,  \* paths that cannot be deleted (mounted, or in use as a root)
          left,  \* the subvolumes now
          todo,  \* those listed and not yet tried
          deep,  \* does `list -o' show what is nested in the nested?
          phase  \* "idle", "deleting", "done"

vars == <<tree, busy, left, todo, deep, phase>>

Inside(p, q) == IsStrictPrefix(q, p)

(***************************************************************************)
(* `btrfs subvolume list -o': the subvolumes below the parent, all of them *)
(* or (deep = FALSE) only those in no other subvolume below it, as         *)
(* versions of btrfs-progs have it.                                        *)
(***************************************************************************)
Below(subvols) ==
  {p \in subvols \ {Parent} : deep \/ \A q \in subvols \ {Parent} : ~Inside(p, q)}

\* `btrfs subvolume delete' of p: it fails while p is busy or holds others.
btrfsDelete(p) ==
  left' = IF p \in busy \/ \E q \in left : Inside(q, p) THEN left ELSE left \ {p}

PathLength(p) == IF p = <<>> THEN 0 ELSE p[Len(p)]

\* Seeded fault: the shortest path first.
Deepest_Shortest(paths) == {p \in paths : \A q \in paths : PathLength(p) <= PathLength(q)}

\* The longest path comes first; two of one length come in any order.
Deepest(paths) == {p \in paths : \A q \in paths : PathLength(p) >= PathLength(q)}

-----------------------------------------------------------------------------
Init ==
  /\ \E subvols \in SUBSET Nested : tree = subvols \cup {Parent}
  /\ busy \in SUBSET (Nested \cup {Parent})
  /\ left = tree /\ todo = {}
  /\ deep \in BOOLEAN
  /\ phase = "idle"

\* What `delete -R' may have deleted when it ends, well or not: nothing busy,
\* and nothing in which something is left.
Recursively(gone) ==
  \A p \in gone : p \notin busy /\ \A q \in left : Inside(q, p) => q \in gone

\* Seeded fault: the list is made before `delete -R' was tried.
DeleteRecursive_StaleList ==
  /\ phase # "deleting" /\ Parent \in left
  /\ \E gone \in SUBSET left :
       /\ Recursively(gone)
       /\ left' = left \ gone
       /\ IF Parent \in gone THEN phase' = "done" /\ todo' = {}
          ELSE phase' = "deleting" /\ todo' = Below(left)
  /\ UNCHANGED <<tree, busy, deep>>

\* `delete -R', and after a failure the list of what is left.
DeleteRecursive ==
  /\ phase # "deleting" /\ Parent \in left
  /\ \E gone \in SUBSET left :
       /\ Recursively(gone)
       /\ left' = left \ gone
       /\ IF Parent \in gone THEN phase' = "done" /\ todo' = {}
          ELSE phase' = "deleting" /\ todo' = Below(left \ gone)
  /\ UNCHANGED <<tree, busy, deep>>

DeleteNested ==
  /\ phase = "deleting"
  /\ \E p \in Deepest(todo) : btrfsDelete(p) /\ todo' = todo \ {p}
  /\ UNCHANGED <<tree, busy, deep, phase>>

DeleteParent ==
  /\ phase = "deleting" /\ todo = {}
  /\ btrfsDelete(Parent)
  /\ phase' = "done"
  /\ UNCHANGED <<tree, busy, todo, deep>>

\* A kill, the power goes, or the list cannot be had: at the next boot, or by
\* hand, it starts anew.
Interrupt ==
  /\ phase = "deleting"
  /\ phase' = "idle" /\ todo' = {}
  /\ UNCHANGED <<tree, busy, left, deep>>

\* Between two deletions something is mounted or let go.
BusyChanges ==
  /\ phase # "deleting"
  /\ busy' \in SUBSET (Nested \cup {Parent}) /\ tree' = left
  /\ phase' = "idle"
  /\ UNCHANGED <<left, todo, deep>>

Next ==
  \/ DeleteRecursive \/ DeleteNested \/ DeleteParent
  \/ Interrupt \/ BusyChanges

Spec == Init /\ [][Next]_vars

-----------------------------------------------------------------------------
Subvolumes == Nested \cup {Parent}

TypeOK ==
  /\ tree \in SUBSET Subvolumes /\ busy \in SUBSET Subvolumes
  /\ left \in SUBSET tree /\ todo \in SUBSET (left \ {Parent})
  /\ deep \in BOOLEAN
  /\ phase \in {"idle", "deleting", "done"}

\* p is busy or holds what is busy.
Held(p) == \E b \in busy \cap tree : IsPrefix(p, b)

Flat(subvols) == \A p, q \in subvols \ {Parent} : ~Inside(p, q)

(***************************************************************************)
(* However often it was interrupted before, a deletion that ran to its end *)
(* leaves what is busy and what it lies in, and nothing else, if the       *)
(* listing is deep or the nesting is not: with nothing busy the slate is   *)
(* gone (delete_subvol, btrfsDeleteRecursive).                             *)
(***************************************************************************)
DeletionIsWhole ==
  phase = "done" /\ (deep \/ Flat(tree)) => left = {p \in tree : Held(p)}
=============================================================================
