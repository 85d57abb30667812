--------------------------- MODULE NestingProofs ---------------------------
(***************************************************************************)
(* What the recursive deletion leaves, for any nesting, however often it   *)
(* is interrupted: what is busy and what holds it stays, and a path that   *)
(* was tried while nothing was left in it stays only for that reason.      *)
(***************************************************************************)
EXTENDS Nesting, SequenceTheorems, TLAPS

(***************************************************************************)
(* Paths: a path is inside another that is a proper part of it, and then   *)
(* it is longer, in components and in characters.                          *)
(***************************************************************************)
LEMMA PrefixMeans ==
  ASSUME NEW p \in Seq(Nat), NEW q \in Seq(Nat)
  PROVE  IsPrefix(p, q) <=> Len(p) <= Len(q) /\ \A i \in 1..Len(p) : p[i] = q[i]
<1>1. SubSeq(p, 1, Len(p)) = p
  OBVIOUS
<1>2. IsPrefix(p, q) <=> Len(p) <= Len(q) /\ p = SubSeq(q, 1, Len(p))
  BY <1>1 DEF IsPrefix
<1>3. ASSUME Len(p) <= Len(q)
      PROVE  p = SubSeq(q, 1, Len(p)) <=> \A i \in 1..Len(p) : p[i] = q[i]
  <2> DEFINE s == SubSeq(q, 1, Len(p))
  <2>1. s \in Seq(Nat) /\ Len(s) = Len(p) /\ \A i \in 1..Len(p) : s[i] = q[i]
    BY <1>3
  <2> HIDE DEF s
  <2>2. (\A i \in 1..Len(p) : p[i] = s[i]) => p = s
    BY <2>1, SeqEqual
  <2>3. p = s <=> \A i \in 1..Len(p) : p[i] = q[i]
    BY <2>1, <2>2
  <2> QED
    BY <2>3 DEF s
<1> QED
  BY <1>2, <1>3

LEMMA PrefixOfItself == ASSUME NEW p \in Seq(Nat) PROVE IsPrefix(p, p)
BY PrefixMeans

LEMMA PrefixOfPrefix ==
  ASSUME NEW p \in Seq(Nat), NEW q \in Seq(Nat), NEW r \in Seq(Nat),
         IsPrefix(p, q), IsPrefix(q, r)
  PROVE  IsPrefix(p, r)
BY PrefixMeans

LEMMA InsideIsLonger ==
  ASSUME NEW p \in Seq(Nat), NEW q \in Seq(Nat), Inside(p, q)
  PROVE  Len(q) < Len(p) /\ IsPrefix(q, p)
<1>1. IsPrefix(q, p) /\ p # q
  BY DEF Inside, IsStrictPrefix
<1>2. Len(q) = Len(p) => p = q
  BY <1>1, PrefixMeans
<1> QED
  BY <1>1, <1>2, PrefixMeans

LEMMA PathsAreSequences ==
  Subvolumes \subseteq Seq(Nat) /\ \A p \in Subvolumes : IsPath(p)
<1>1. \A p : IsPath(p) => p \in Seq(Nat)
  BY DEF IsPath
<1>2. IsPath(Parent)
  BY DEF IsPath, Parent
<1> QED
  BY <1>1, <1>2, NestedAssumption DEF Subvolumes

LEMMA InsideHasLongerName ==
  ASSUME NEW p \in Subvolumes, NEW q \in Subvolumes, Inside(p, q)
  PROVE  PathLength(q) < PathLength(p) /\ PathLength(q) \in Nat /\ PathLength(p) \in Nat
<1>1. p \in Seq(Nat) /\ q \in Seq(Nat) /\ IsPath(p) /\ IsPath(q)
  BY PathsAreSequences
<1>2. Len(q) < Len(p) /\ \A i \in 1..Len(q) : q[i] = p[i]
  BY <1>1, InsideIsLonger, PrefixMeans
<1>3. p # <<>> /\ PathLength(p) = p[Len(p)] /\ p[Len(p)] \in Nat \ {0}
  BY <1>1, <1>2 DEF IsPath, PathLength
<1>4. CASE q = <<>>
  BY <1>3, <1>4 DEF PathLength
<1>5. CASE q # <<>>
  <2>1. Len(q) \in DOMAIN q /\ Len(q) \in DOMAIN p /\ Len(p) \in DOMAIN p
    BY <1>1, <1>2, <1>5
  <2>2. PathLength(q) = p[Len(q)]
    BY <1>2, <2>1, <1>5, <1>1 DEF PathLength
  <2>3. p[Len(q)] < p[Len(p)]
    BY <1>1, <1>2, <2>1 DEF IsPath
  <2> QED
    BY <1>1, <1>3, <2>1, <2>2, <2>3
<1> QED
  BY <1>4, <1>5

-----------------------------------------------------------------------------
(***************************************************************************)
(* The inductive invariant.                                                *)
(***************************************************************************)
HeldInv == \A p \in tree : Held(p) => p \in left

TriedInv ==
  phase = "deleting" /\ (deep \/ Flat(tree)) =>
    \A p \in left \ todo : p = Parent \/ Held(p)

ListInv == phase # "deleting" => todo = {}

WholeInv == TypeOK /\ HeldInv /\ ListInv /\ TriedInv /\ DeletionIsWhole

LEMMA WholeInit == Init => WholeInv
<1> SUFFICES ASSUME Init PROVE WholeInv
  OBVIOUS
<1>1. TypeOK
  BY DEF Init, TypeOK, Subvolumes
<1>2. HeldInv /\ ListInv /\ TriedInv /\ DeletionIsWhole
  BY DEF Init, HeldInv, ListInv, TriedInv, DeletionIsWhole
<1> QED
  BY <1>1, <1>2 DEF WholeInv

(***************************************************************************)
(* Taking away what is not held, one path or many, keeps what is held.     *)
(***************************************************************************)
LEMMA HeldStays ==
  ASSUME WholeInv, NEW gone \in SUBSET left, Recursively(gone)
  PROVE  \A p \in tree : Held(p) => p \in left \ gone
<1> SUFFICES ASSUME NEW p \in tree, NEW b \in busy \cap tree, IsPrefix(p, b), p \in gone
             PROVE  FALSE
  BY DEF WholeInv, HeldInv, Held
<1>1. p \in Seq(Nat) /\ b \in Seq(Nat)
  BY PathsAreSequences DEF WholeInv, TypeOK
<1>2. Held(b)
  BY <1>1, PrefixOfItself DEF Held
<1>3. b \in left /\ b \notin gone
  BY <1>2 DEF WholeInv, HeldInv, Recursively
<1>4. p # b => Inside(b, p)
  BY DEF Inside, IsStrictPrefix
<1> QED
  BY <1>3, <1>4 DEF Recursively

LEMMA OneIsRecursive ==
  ASSUME WholeInv, NEW p \in Subvolumes, btrfsDelete(p)
  PROVE  \E gone \in SUBSET left : Recursively(gone) /\ left' = left \ gone
<1>1. CASE p \in busy \/ \E q \in left : Inside(q, p)
  <2>1. Recursively({}) /\ left' = left \ {}
    BY <1>1 DEF Recursively, btrfsDelete
  <2> QED
    BY <2>1
<1>2. CASE ~(p \in busy \/ \E q \in left : Inside(q, p))
  <2>1. left' = left \ {p}
    BY <1>2 DEF btrfsDelete
  <2>2. Recursively(left \cap {p})
    BY <1>2 DEF Recursively
  <2> QED
    BY <2>1, <2>2
<1> QED
  BY <1>1, <1>2

(***************************************************************************)
(* A path that stays although all inside it was tried is held.             *)
(***************************************************************************)
LEMMA StaysIfHeld ==
  ASSUME WholeInv, phase = "deleting", deep \/ Flat(tree),
         NEW p \in left, p \in busy \/ \E q \in left : Inside(q, p),
         \A q \in todo : ~Inside(q, p)
  PROVE  Held(p)
<1>1. p \in Seq(Nat) /\ left \subseteq tree /\ tree \subseteq Seq(Nat)
  BY PathsAreSequences DEF WholeInv, TypeOK
<1>2. CASE p \in busy
  BY <1>1, <1>2, PrefixOfItself DEF Held
<1>3. CASE \E q \in left : Inside(q, p)
  <2>1. PICK q \in left : Inside(q, p)
    BY <1>3
  <2>2. q # Parent
    <3>1. Len(p) < Len(q) /\ Len(p) \in Nat
      BY <1>1, <2>1, InsideIsLonger
    <3> QED
      BY <3>1 DEF Parent
  <2>3. Held(q)
    BY <2>1, <2>2 DEF WholeInv, TriedInv
  <2>4. PICK b \in busy \cap tree : IsPrefix(q, b)
    BY <2>3 DEF Held
  <2>5. IsPrefix(p, q)
    BY <1>1, <2>1, InsideIsLonger
  <2>6. IsPrefix(p, b)
    BY <1>1, <2>4, <2>5, PrefixOfPrefix
  <2> QED
    BY <2>4, <2>6 DEF Held
<1> QED
  BY <1>2, <1>3

LEMMA TypeStep == ASSUME TypeOK, [Next]_vars PROVE TypeOK'
<1>1. CASE DeleteRecursive
  BY <1>1 DEF TypeOK, DeleteRecursive, Below
<1>2. CASE DeleteNested
  <2>1. PICK p \in Deepest(todo) : btrfsDelete(p) /\ todo' = todo \ {p}
    BY <1>2 DEF DeleteNested
  <2>2. left' \in SUBSET left /\ left \ {p} \subseteq left'
    BY <2>1 DEF btrfsDelete
  <2> QED
    BY <1>2, <2>1, <2>2 DEF TypeOK, DeleteNested
<1>3. CASE DeleteParent
  <2>1. left' \in SUBSET left /\ todo = {}
    BY <1>3 DEF DeleteParent, btrfsDelete
  <2> QED
    BY <1>3, <2>1 DEF TypeOK, DeleteParent
<1>4. CASE Interrupt
  BY <1>4 DEF TypeOK, Interrupt
<1>5. CASE BusyChanges
  BY <1>5 DEF TypeOK, BusyChanges, Subvolumes
<1>6. CASE UNCHANGED vars
  BY <1>6 DEF TypeOK, vars
<1> QED
  BY <1>1, <1>2, <1>3, <1>4, <1>5, <1>6 DEF Next

LEMMA HeldStep ==
  ASSUME WholeInv, TypeOK', [Next]_vars PROVE HeldInv' /\ ListInv'
<1>1. CASE DeleteRecursive
  <2>1. PICK gone \in SUBSET left :
          /\ Recursively(gone) /\ left' = left \ gone
          /\ IF Parent \in gone THEN phase' = "done" /\ todo' = {}
             ELSE phase' = "deleting" /\ todo' = Below(left \ gone)
    BY <1>1 DEF DeleteRecursive
  <2>2. \A p \in tree : Held(p) => p \in left'
    BY <2>1, HeldStays
  <2> QED
    BY <1>1, <2>1, <2>2 DEF DeleteRecursive, HeldInv, ListInv, Held
<1>2. ASSUME NEW p \in Subvolumes, btrfsDelete(p), UNCHANGED <<tree, busy>> PROVE HeldInv'
  <2>1. PICK gone \in SUBSET left : Recursively(gone) /\ left' = left \ gone
    BY <1>2, OneIsRecursive
  <2>2. \A q \in tree : Held(q) => q \in left'
    BY <2>1, HeldStays
  <2> QED
    BY <1>2, <2>2 DEF HeldInv, Held
<1>3. CASE DeleteNested
  <2>1. PICK p \in Deepest(todo) : btrfsDelete(p)
    BY <1>3 DEF DeleteNested
  <2>2. p \in Subvolumes
    BY <2>1 DEF Deepest, WholeInv, TypeOK
  <2> QED
    BY <1>2, <1>3, <2>1, <2>2 DEF DeleteNested, ListInv
<1>4. CASE DeleteParent
  <2>1. Parent \in Subvolumes
    BY DEF Subvolumes
  <2> QED
    BY <1>2, <1>4, <2>1 DEF DeleteParent, ListInv
<1>5. CASE Interrupt
  BY <1>5 DEF Interrupt, WholeInv, HeldInv, ListInv, Held
<1>6. CASE BusyChanges
  BY <1>6 DEF BusyChanges, WholeInv, HeldInv, ListInv, Held
<1>7. CASE UNCHANGED vars
  BY <1>7 DEF vars, WholeInv, HeldInv, ListInv, Held
<1> QED
  BY <1>1, <1>3, <1>4, <1>5, <1>6, <1>7 DEF Next

(***************************************************************************)
(* What was tried, or never listed, stays only if it is held.              *)
(***************************************************************************)
LEMMA TriedStep ==
  ASSUME WholeInv, TypeOK', [Next]_vars PROVE TriedInv'
<1> SUFFICES ASSUME phase' = "deleting", deep' \/ Flat(tree'), NEW p \in left' \ todo',
                    p # Parent
             PROVE  Held(p)'
  BY DEF TriedInv
<1>1. CASE DeleteRecursive
  <2>1. todo' = Below(left') /\ UNCHANGED <<tree, busy, deep>>
    BY <1>1 DEF DeleteRecursive
  <2>2. left' \subseteq tree
    BY <2>1 DEF TypeOK
  <2>3. p \in Below(left')
    BY <2>1, <2>2 DEF Below, Flat
  <2> QED
    BY <2>1, <2>3
<1>2. CASE DeleteNested
  <2>1. PICK t \in Deepest(todo) : btrfsDelete(t) /\ todo' = todo \ {t}
    BY <1>2 DEF DeleteNested
  <2>2. UNCHANGED <<tree, busy, deep, phase>> /\ phase = "deleting" /\ (deep \/ Flat(tree))
    BY <1>2 DEF DeleteNested
  <2>3. left' \subseteq left
    BY <2>1 DEF btrfsDelete
  <2>4. CASE p # t
    BY <2>1, <2>2, <2>3, <2>4 DEF WholeInv, TriedInv, Held
  <2>5. CASE p = t
    <3>1. p \in left /\ (p \in busy \/ \E q \in left : Inside(q, p))
      BY <2>1, <2>3, <2>5 DEF btrfsDelete
    <3>2. \A q \in todo : ~Inside(q, p)
      <4> SUFFICES ASSUME NEW q \in todo, Inside(q, p) PROVE FALSE
        OBVIOUS
      <4>1. q \in Subvolumes /\ p \in Subvolumes
        BY <2>1, <2>5 DEF Deepest, WholeInv, TypeOK
      <4>2. PathLength(p) >= PathLength(q)
        BY <2>1, <2>5 DEF Deepest
      <4> QED
        BY <4>1, <4>2, InsideHasLongerName
    <3> QED
      BY <2>2, <3>1, <3>2, StaysIfHeld DEF Held
  <2> QED
    BY <2>4, <2>5
<1>3. CASE DeleteParent \/ Interrupt \/ BusyChanges
  BY <1>3 DEF DeleteParent, Interrupt, BusyChanges, WholeInv
<1>4. CASE UNCHANGED vars
  BY <1>4 DEF vars, WholeInv, TriedInv, Held, Flat
<1> QED
  BY <1>1, <1>2, <1>3, <1>4 DEF Next

LEMMA WholeStep ==
  ASSUME WholeInv, TypeOK', HeldInv', [Next]_vars PROVE DeletionIsWhole'
<1> SUFFICES ASSUME phase' = "done", deep' \/ Flat(tree'), NEW p \in left'
             PROVE  Held(p)'
  BY DEF DeletionIsWhole, HeldInv, TypeOK
<1>1. CASE DeleteRecursive
  <2>1. PICK gone \in SUBSET left :
          Recursively(gone) /\ left' = left \ gone /\ Parent \in gone
    BY <1>1 DEF DeleteRecursive
  <2>2. p \in Seq(Nat) /\ p # Parent
    BY <2>1, PathsAreSequences DEF WholeInv, TypeOK
  <2>3. Inside(p, Parent)
    <3>1. Parent \in Seq(Nat) /\ Len(Parent) = 0
      BY DEF Parent
    <3>2. IsPrefix(Parent, p)
      <4>1. Len(p) \in Nat /\ 1..Len(Parent) = {}
        BY <2>2, <3>1
      <4>2. Len(Parent) <= Len(p) /\ \A i \in 1..Len(Parent) : Parent[i] = p[i]
        BY <3>1, <4>1
      <4> QED
        BY <2>2, <3>1, <4>2, PrefixMeans
    <3> QED
      BY <2>2, <3>2 DEF Inside, IsStrictPrefix
  <2> QED
    BY <2>1, <2>3 DEF Recursively
<1>2. CASE DeleteParent
  <2>1. /\ phase = "deleting" /\ todo = {} /\ btrfsDelete(Parent)
        /\ UNCHANGED <<tree, busy, deep>>
    BY <1>2 DEF DeleteParent
  <2>2. left' \subseteq left
    BY <2>1 DEF btrfsDelete
  <2>3. CASE p # Parent
    BY <2>1, <2>2, <2>3 DEF WholeInv, TriedInv, Held
  <2>4. CASE p = Parent
    <3>1. p \in busy \/ \E q \in left : Inside(q, p)
      BY <2>1, <2>4 DEF btrfsDelete
    <3> QED
      BY <2>1, <2>2, <3>1, StaysIfHeld DEF Held
  <2> QED
    BY <2>3, <2>4
<1>3. CASE DeleteNested \/ Interrupt \/ BusyChanges
  BY <1>3 DEF DeleteNested, Interrupt, BusyChanges, WholeInv
<1>4. CASE UNCHANGED vars
  BY <1>4 DEF vars, WholeInv, DeletionIsWhole, Held, Flat
<1> QED
  BY <1>1, <1>2, <1>3, <1>4 DEF Next

LEMMA WholeAlways == Spec => []WholeInv
<1>1. WholeInv /\ [Next]_vars => WholeInv'
  BY TypeStep, HeldStep, TriedStep, WholeStep DEF WholeInv
<1> QED
  BY <1>1, WholeInit, PTL DEF Spec

(***************************************************************************)
(* Every reachable state of a deletion is well typed: what is listed is    *)
(* there, and what is there was there.                                     *)
(***************************************************************************)
THEOREM TypeCorrect == Spec => []TypeOK
<1>1. WholeInv => TypeOK
  BY DEF WholeInv
<1> QED
  BY <1>1, WholeAlways, PTL

(***************************************************************************)
(* Whatever is nested how deep, and however often it was interrupted, a    *)
(* deletion that ran to its end leaves what is busy and what that lies in, *)
(* and nothing else, if the listing is deep or the nesting is not          *)
(* (delete_subvol, btrfsDeleteRecursive).                                  *)
(***************************************************************************)
THEOREM WholeDeletion == Spec => []DeletionIsWhole
<1>1. WholeInv => DeletionIsWhole
  BY DEF WholeInv
<1> QED
  BY <1>1, WholeAlways, PTL
=============================================================================
