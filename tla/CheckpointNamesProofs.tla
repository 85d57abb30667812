----------------------- MODULE CheckpointNamesProofs -----------------------
(***************************************************************************)
(* What the numbering of checkpoints guarantees for any set of numbers.    *)
(***************************************************************************)
EXTENDS CheckpointNames, FiniteSetTheorems, TLAPS

(***************************************************************************)
(* The shell reads the numbers one to seven as what they are.              *)
(***************************************************************************)
LEMMA ShellReadsSmall == ASSUME NEW n \in 0..7 PROVE ShellValue(n) = n
  BY DEF ShellValue

LEMMA SameLatest ==
  ASSUME NEW S \in SUBSET (1..7)
  PROVE  Latest(S \ {Blank}) = Latest(S) /\ Latest(S) \subseteq 0..7
  <1>1. S \ {Blank} = S
    BY DEF Blank
  <1>2. ASSUME NEW n \in Latest(S) PROVE n \in 0..7
    <2>1. n \in S \cup {0}
      BY DEF Latest
    <2>2. \A k \in S : k \in 0..7
      OBVIOUS
    <2> QED
      BY <2>1, <2>2
  <1> QED
    BY <1>1, <1>2

(***************************************************************************)
(* As long as a slate's numbers stay below eight, next_seq of the hook and *)
(* nextSeq of the Go code agree, whatever has been pruned.                 *)
(***************************************************************************)
THEOREM NumberingAgreesBelowEight ==
  ASSUME NEW S \in SUBSET (1..7) PROVE ShellNext(S) = GoNext(S)
  <1>1. \A n \in Latest(S) : ShellValue(n) = n
    BY SameLatest, ShellReadsSmall
  <1>2. \A n \in Latest(S) : n # Illegal
    <2>1. Illegal \notin 0..7
      BY DEF Illegal
    <2> QED
      BY <2>1, SameLatest
  <1>3. ShellNext(S) = {n + 1 : n \in Latest(S)}
    BY <1>1, <1>2 DEF ShellNext
  <1> QED
    BY <1>3, SameLatest DEF GoNext

(***************************************************************************)
(* nextSeq of the Go code is above every number in use, blank names and    *)
(* gaps left by pruning included, so a snapshot it makes never collides.   *)
(***************************************************************************)
THEOREM GoNumberIsNew ==
  ASSUME NEW S \in SUBSET Nat, NEW n \in GoNext(S)
  PROVE  \A k \in S : k < n
  <1>1. PICK last \in Latest(S \ {Blank}) : n = last + 1
    BY DEF GoNext
  <1>2. last \in Nat /\ \A k \in (S \ {Blank}) \cup {0} : k <= last
    BY <1>1 DEF Latest
  <1> QED
    BY <1>1, <1>2 DEF Blank

(***************************************************************************)
(* Below ten thousand the hook's text order of names is their numeric      *)
(* order.                                                                  *)
(***************************************************************************)
THEOREM NamesSortNumerically ==
  ASSUME NEW a \in 0..9999, NEW b \in 0..9999 PROVE NameLess(a, b) <=> a < b
  BY DEF NameLess, Head4

LEMMA MoreInSuperset ==
  ASSUME NEW B, IsFiniteSet(B), NEW A \in SUBSET B, NEW keep \in Nat,
         Cardinality(A) >= keep
  PROVE  Cardinality(B) >= keep
  <1>1. IsFiniteSet(A) /\ Cardinality(A) <= Cardinality(B)
    BY FS_Subset
  <1>2. Cardinality(A) \in Nat
    BY <1>1, FS_CardinalityType
  <1>3. Cardinality(B) \in Nat
    BY FS_CardinalityType
  <1> QED
    BY <1>1, <1>2, <1>3

LEMMA NamesAfter ==
  ASSUME NEW S \in SUBSET Nat, NEW a \in Nat,
         \A y \in S : NameLess(a, y) <=> a < y
  PROVE  {y \in S : NameLess(a, y)} = {y \in S : a < y}
  BY Zenon

(***************************************************************************)
(* What sorts after a name is what has a larger number, so a smaller       *)
(* number is followed by no fewer names.                                   *)
(***************************************************************************)
LEMMA SortedAfter ==
  ASSUME NEW S \in SUBSET Nat, \A y \in S : y < 10000, NEW a, a \in S
  PROVE  \A y \in S : NameLess(a, y) <=> a < y
  <1> SUFFICES ASSUME NEW y \in S PROVE NameLess(a, y) <=> a < y
    OBVIOUS
  <1>1. a \in Nat /\ a < 10000
    OBVIOUS
  <1>2. y \in Nat /\ y < 10000
    OBVIOUS
  <1> QED
    BY <1>1, <1>2 DEF NameLess, Head4

LEMMA LaterThanSmaller ==
  ASSUME NEW S \in SUBSET Nat, NEW a \in Nat, NEW b \in Nat, b < a
  PROVE  {y \in S : a < y} \subseteq {y \in S : b < y}
  <1> SUFFICES ASSUME NEW y \in S, a < y PROVE b < y
    BY Zenon
  <1>1. y \in Nat
    OBVIOUS
  <1> QED
    BY <1>1

(***************************************************************************)
(* Pruning takes the oldest: below ten thousand, with a checkpoint it      *)
(* takes every older one.                                                  *)
(***************************************************************************)
THEOREM PruneTakesInitialSegment ==
  ASSUME NEW S \in SUBSET Nat, IsFiniteSet(S), \A y \in S : y < 10000,
         NEW keep \in Nat, NEW a \in Nat, NEW b \in Nat,
         a \in Victims(S, keep), b \in S, b < a
  PROVE  b \in Victims(S, keep)
  <1>1. a \in S /\ Cardinality({y \in S : NameLess(a, y)}) >= keep
    BY DEF Victims
  <1>2. Cardinality({y \in S : a < y}) >= keep
    <2>1. \A y \in S : NameLess(a, y) <=> a < y
      BY <1>1, SortedAfter
    <2>2. {y \in S : NameLess(a, y)} = {y \in S : a < y}
      BY <2>1, NamesAfter
    <2> QED
      BY <1>1, <2>2
  <1>3. {y \in S : a < y} \subseteq {y \in S : b < y}
    BY LaterThanSmaller
  <1>4. IsFiniteSet({y \in S : b < y})
    BY FS_Subset
  <1>5. Cardinality({y \in S : b < y}) >= keep
    BY <1>2, <1>3, <1>4, MoreInSuperset
  <1>6. Cardinality({y \in S : NameLess(b, y)}) >= keep
    <2>1. \A y \in S : NameLess(b, y) <=> b < y
      BY SortedAfter
    <2>2. {y \in S : NameLess(b, y)} = {y \in S : b < y}
      BY <2>1, NamesAfter
    <2> QED
      BY <1>5, <2>2
  <1> QED
    BY <1>6 DEF Victims
=============================================================================
