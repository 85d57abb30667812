----------------------------- MODULE LawsProofs -----------------------------
(***************************************************************************)
(* Machine-checked proofs of laws TLC checks on samples: of the numbering  *)
(* and the pruning order for every set of numbers, of the words of a       *)
(* command line for every listing of subvolumes, of the text files for     *)
(* every content.                                                          *)
(***************************************************************************)
EXTENDS Laws, CheckpointNamesProofs, NaturalsInduction, WellFoundedInduction

(***************************************************************************)
(* What induction there is: every set of numbers has a least one.          *)
(***************************************************************************)
LEMMA Least == ASSUME NEW T \in SUBSET Nat, T # {} PROVE \E x \in T : \A y \in T : x <= y
<1> DEFINE R == {ss \in Nat \X Nat : ss[1] < ss[2]}
<1>1. IsWellFoundedOn(R, Nat)
  BY NatLessThanWellFounded, Zenon DEF OpToRel
<1>2. PICK x \in T : \A y \in T : ~(<<y, x>> \in R)
  BY <1>1, WFMin
<1>3. ASSUME NEW y \in T PROVE x <= y
  <2>1. x \in Nat /\ y \in Nat /\ ~(y < x)
    BY <1>2
  <2> QED
    BY <2>1
<1> QED
  BY <1>3

-----------------------------------------------------------------------------
(***************************************************************************)
(* Names sort in a strict total order, whatever their numbers.             *)
(***************************************************************************)
LEMMA Head4Type == ASSUME NEW n \in Nat PROVE Head4(n) \in Nat
BY DEF Head4

LEMMA First ==
  ASSUME NEW S \in SUBSET Nat, S # {}
  PROVE  \E f \in S : \A a \in S \ {f} : NameLess(f, a) /\ ~NameLess(a, f)
<1> DEFINE heads == {Head4(a) : a \in S}
<1>1. heads \in SUBSET Nat /\ heads # {}
  BY Head4Type
<1>2. PICK h \in heads : \A k \in heads : h <= k
  BY <1>1, Least
<1>3. \A a \in S : h <= Head4(a)
  BY <1>2
<1> DEFINE low == {a \in S : Head4(a) = h}
<1>4. low \in SUBSET Nat /\ low # {}
  BY <1>2
<1>5. PICK f \in low : \A a \in low : f <= a
  BY <1>4, Least
<1>6. f \in S /\ Head4(f) = h
  BY <1>5
<1>7. ASSUME NEW a \in S, a # f PROVE NameLess(f, a) /\ ~NameLess(a, f)
  <2>1. a \in Nat /\ f \in Nat /\ h \in Nat /\ Head4(a) \in Nat /\ h <= Head4(a)
    BY <1>1, <1>3, <1>6, Head4Type
  <2>2. Head4(a) = h => f <= a
    BY <1>5
  <2> QED
    BY <1>6, <1>7, <2>1, <2>2 DEF NameLess
<1> QED
  BY <1>6, <1>7

\* What pruning leaves.
Left(S, keep) == S \ Victims(S, keep)

Fewer(a, b) == IF a < b THEN a ELSE b

(***************************************************************************)
(* With the first name of the listing gone, the others are pruned alike.   *)
(***************************************************************************)
LEMMA LeftWithoutFirst ==
  ASSUME NEW S \in SUBSET Nat, IsFiniteSet(S), NEW keep \in Nat, NEW f \in S,
         \A a \in S \ {f} : NameLess(f, a) /\ ~NameLess(a, f)
  PROVE  Left(S, keep) = Left(S \ {f}, keep)
                           \cup (IF Cardinality(S) - 1 < keep THEN {f} ELSE {})
<1>1. \A a \in S \ {f} : {b \in S : NameLess(a, b)} = {b \in S \ {f} : NameLess(a, b)}
  OBVIOUS
<1>2. \A a \in S \ {f} : a \in Victims(S, keep) <=> a \in Victims(S \ {f}, keep)
  BY <1>1 DEF Victims
<1>3. {b \in S : NameLess(f, b)} = S \ {f}
  <2>1. ~NameLess(f, f)
    <3>1. f \in Nat /\ Head4(f) \in Nat
      BY Head4Type
    <3> QED
      BY <3>1 DEF NameLess
  <2> QED
    BY <2>1
<1>4. Cardinality(S \ {f}) = Cardinality(S) - 1 /\ Cardinality(S) \in Nat
  BY FS_RemoveElement, FS_CardinalityType
<1>5. f \in Victims(S, keep) <=> ~(Cardinality(S) - 1 < keep)
  BY <1>3, <1>4 DEF Victims
<1> QED
  BY <1>2, <1>5 DEF Left

LEMMA PruneLeaves ==
  ASSUME NEW keep \in Nat
  PROVE  \A S \in SUBSET Nat : IsFiniteSet(S) =>
           Cardinality(Left(S, keep)) = Fewer(keep, Cardinality(S))
<1> DEFINE Fine(S) == Cardinality(Left(S, keep)) = Fewer(keep, Cardinality(S))
           bad == {n \in Nat : \E S \in SUBSET Nat : IsFiniteSet(S) /\ Cardinality(S) = n
                                                     /\ ~Fine(S)}
<1>1. bad = {}
  <2> SUFFICES ASSUME bad # {} PROVE FALSE
    OBVIOUS
  <2>1. PICK n \in bad : \A k \in bad : n <= k
    BY Least
  <2>2. PICK S \in SUBSET Nat : IsFiniteSet(S) /\ Cardinality(S) = n /\ ~Fine(S)
    BY <2>1
  <2>3. S # {}
    <3> SUFFICES ASSUME S = {} PROVE Fine(S)
      BY <2>2
    <3>1. Left(S, keep) = {} /\ Cardinality({}) = 0
      BY FS_EmptySet DEF Left
    <3> QED
      BY <3>1 DEF Fewer
  <2>4. PICK f \in S : \A a \in S \ {f} : NameLess(f, a) /\ ~NameLess(a, f)
    BY <2>3, First
  <2>5. /\ IsFiniteSet(S \ {f}) /\ Cardinality(S \ {f}) = n - 1 /\ n \in Nat
        /\ n - 1 \in Nat
    <3>1. IsFiniteSet(S \ {f}) /\ Cardinality(S \ {f}) = Cardinality(S) - 1
      BY <2>2, FS_RemoveElement
    <3> QED
      BY <2>2, <3>1, FS_CardinalityType
  <2>6. Fine(S \ {f})
    <3>1. n - 1 \notin bad
      BY <2>1, <2>5
    <3> QED
      BY <2>5, <3>1
  <2>7. /\ Left(S \ {f}, keep) \subseteq S \ {f} /\ IsFiniteSet(Left(S \ {f}, keep))
        /\ f \notin Left(S \ {f}, keep)
    <3>1. Left(S \ {f}, keep) \subseteq S \ {f}
      BY DEF Left
    <3> QED
      BY <2>5, <3>1, FS_Subset
  <2>8. Left(S, keep) = Left(S \ {f}, keep) \cup (IF n - 1 < keep THEN {f} ELSE {})
    BY <2>2, <2>4, LeftWithoutFirst
  <2>9. CASE n - 1 < keep
    <3>1. Left(S, keep) = Left(S \ {f}, keep) \cup {f}
      BY <2>8, <2>9
    <3>2. Cardinality(Left(S, keep)) = Cardinality(Left(S \ {f}, keep)) + 1
      BY <2>7, <3>1, FS_AddElement
    <3>3. Fewer(keep, n) = n /\ Fewer(keep, n - 1) = n - 1
      BY <2>5, <2>9 DEF Fewer
    <3> QED
      BY <2>2, <2>5, <2>6, <3>2, <3>3
  <2>10. CASE ~(n - 1 < keep)
    <3>1. Left(S, keep) = Left(S \ {f}, keep)
      BY <2>8, <2>10
    <3>2. Fewer(keep, n) = keep /\ Fewer(keep, n - 1) = keep
      BY <2>5, <2>10 DEF Fewer
    <3> QED
      BY <2>2, <2>5, <2>6, <3>1, <3>2
  <2> QED
    BY <2>5, <2>9, <2>10
<1> SUFFICES ASSUME NEW S \in SUBSET Nat, IsFiniteSet(S) PROVE Fine(S)
  OBVIOUS
<1>2. Cardinality(S) \in Nat
  BY FS_CardinalityType
<1> QED
  BY <1>1, <1>2

-----------------------------------------------------------------------------
(***************************************************************************)
(* What a sample is drawn from.                                            *)
(***************************************************************************)
NumbersInv == first \in Nat /\ second \in Nat

DrawnInv ==
  \/ sample = NoSample
  \/ \E x \in Files : sample = [kind |-> "file", of |-> x]
  \/ \E x \in Stagings : sample = [kind |-> "staging", of |-> x]
  \/ \E x \in Lines : sample = [kind |-> "line", of |-> x]
  \/ \E x \in Stores : sample = [kind |-> "store", of |-> x]

LEMMA NumbersDrawn == LawsSpec => []NumbersInv
<1>1. Samples \subseteq Nat /\ Blank \in Nat
  BY SamplesAssumption DEF Blank
<1>2. LawsInit => NumbersInv
  BY <1>1 DEF LawsInit, Init, NumbersInv
<1>3. NumbersInv /\ [LawsNext]_<<first, second, sample>> => NumbersInv'
  BY <1>1 DEF LawsNext, Next, NumbersInv
<1> QED
  BY <1>2, <1>3, PTL DEF LawsSpec

LEMMA SamplesDrawn == LawsSpec => []DrawnInv
<1>1. LawsInit => DrawnInv
  BY DEF LawsInit, DrawnInv
<1>2. ASSUME DrawnInv, [LawsNext]_<<first, second, sample>> PROVE DrawnInv'
  <2>1. CASE sample' = sample
    BY <1>2, <2>1 DEF DrawnInv
  <2>2. CASE sample' = NoSample
    BY <2>2 DEF DrawnInv
  <2>3. CASE Draw("file", Files) \/ Draw("staging", Stagings) \/ Draw("line", Lines)
             \/ Draw("store", Stores)
    BY <2>3, Zenon DEF Draw, DrawnInv
  <2> QED
    BY <1>2, <2>1, <2>2, <2>3 DEF LawsNext
<1> QED
  BY <1>1, <1>2, PTL DEF LawsSpec

(***************************************************************************)
(* Up to its seventh checkpoint a slate is numbered alike by the hook and  *)
(* by the Go code, and the Go number is always a new one, whichever two    *)
(* checkpoints pruning left (next_seq, nextSeq).                           *)
(***************************************************************************)
THEOREM NumberingLaw == LawsSpec => []NumberingAgrees
<1>1. NumbersInv => NumberingAgrees
  <2> SUFFICES ASSUME NumbersInv PROVE NumberingAgrees
    OBVIOUS
  <2> DEFINE S == {first, second} \ {Blank}
  <2>1. first \in Nat /\ second \in Nat /\ S \subseteq Nat
    BY DEF NumbersInv
  <2>2. S \subseteq 1..7 => ShellNext(S) = GoNext(S)
    BY NumberingAgreesBelowEight
  <2>3. \A n \in GoNext(S) : n > first /\ n > second
    <3> SUFFICES ASSUME NEW n \in GoNext(S), NEW k \in {first, second} PROVE n > k
      OBVIOUS
    <3>1. PICK last \in Latest(S \ {Blank}) : n = last + 1
      BY DEF GoNext
    <3>2. last \in Nat /\ 0 <= last /\ \A m \in S : m <= last
      BY <2>1, <3>1 DEF Latest, Blank
    <3> QED
      BY <2>1, <3>1, <3>2 DEF Blank
  <2> QED
    BY <2>2, <2>3 DEF NumberingAgrees
<1> QED
  BY <1>1, NumbersDrawn, PTL

(***************************************************************************)
(* Pruning leaves exactly `keep' checkpoints, or all if there are no more, *)
(* however the names sort.                                                 *)
(***************************************************************************)
THEOREM PruneLeavesKeep ==
  ASSUME NEW keep \in Nat, NEW S \in SUBSET Nat, IsFiniteSet(S)
  PROVE  Cardinality(S \ Victims(S, keep)) =
           IF keep < Cardinality(S) THEN keep ELSE Cardinality(S)
BY PruneLeaves DEF Left, Fewer

LEMMA PrunesInOrder ==
  ASSUME NEW keep \in Nat, NEW S \in SUBSET Nat,
         \A a \in S : \A b \in S : NameLess(a, b) <=> a < b
  PROVE  Victims(S, keep) = GoPruned(S, keep)
<1>1. ASSUME NEW a \in S PROVE {b \in S : NameLess(a, b)} = {b \in S : b > a}
  <2>1. {b \in S : NameLess(a, b)} = {b \in S : a < b}
    BY NamesAfter
  <2>2. {b \in S : a < b} = {b \in S : b > a}
    OBVIOUS
  <2> QED
    BY <2>1, <2>2
<1> QED
  BY <1>1, Zenon DEF Victims, GoPruned

(***************************************************************************)
(* Below ten thousand the hook prunes what PruneAuto of the Go code would. *)
(***************************************************************************)
LEMMA PrunesAlike ==
  ASSUME NEW keep \in Nat, NEW S \in SUBSET Nat, \A y \in S : y < 10000
  PROVE  Victims(S, keep) = GoPruned(S, keep)
<1>1. \A a \in S : \A b \in S : NameLess(a, b) <=> a < b
  BY SortedAfter
<1> QED
  BY <1>1, PrunesInOrder

LEMMA PrunesOldest ==
  ASSUME NEW keep \in Nat, NEW S \in SUBSET Nat, IsFiniteSet(S), \A y \in S : y < 10000
  PROVE  \A a \in S \ Victims(S, keep), b \in S \ (S \ Victims(S, keep)) : b < a
<1> SUFFICES ASSUME NEW a \in S, a \notin Victims(S, keep),
                    NEW b \in S, b \in Victims(S, keep)
             PROVE  b < a
  OBVIOUS
<1>1. a \in Nat /\ b \in Nat /\ a # b
  OBVIOUS
<1>2. ~(a < b)
  BY <1>1, PruneTakesInitialSegment
<1> QED
  BY <1>1, <1>2

(***************************************************************************)
(* What prune_auto deletes is all but the `keep' highest numbers, as with  *)
(* PruneAuto of the Go code; above ten thousand the number left is still   *)
(* right (prune_auto, PruneAuto).                                          *)
(***************************************************************************)
THEOREM PruneLaw == LawsSpec => []PruneTakesOldest
<1>1. ASSUME NumbersInv PROVE PruneTakesOldest
  <2> DEFINE S == {first, second, first + 1, second + 1} \ {Blank}
  <2>1. S \in SUBSET Nat
    BY <1>1 DEF NumbersInv
  <2>2. IsFiniteSet(S)
    <3>1. \A x, y : IsFiniteSet({x} \cup {y})
      BY FS_Singleton, FS_Union
    <3>2. IsFiniteSet(({first} \cup {second}) \cup ({first + 1} \cup {second + 1}))
      BY <3>1, FS_Union
    <3>3. S \subseteq ({first} \cup {second}) \cup ({first + 1} \cup {second + 1})
      OBVIOUS
    <3> QED
      BY <3>2, <3>3, FS_Subset
  <2>3. ASSUME NEW keep \in 0..4
        PROVE  Cardinality(S \ Victims(S, keep)) =
                 IF keep < Cardinality(S) THEN keep ELSE Cardinality(S)
    <3>1. keep \in Nat
      OBVIOUS
    <3> HIDE DEF S
    <3> QED
      BY <2>1, <2>2, <3>1, PruneLeavesKeep
  <2>4. ASSUME NEW keep \in 0..4, \A n \in S : n <= 9999
        PROVE  /\ Victims(S, keep) = GoPruned(S, keep)
               /\ \A a \in S \ Victims(S, keep), b \in S \ (S \ Victims(S, keep)) : b < a
    <3>1. \A y \in S : y < 10000
      BY <2>1, <2>4
    <3>2. keep \in Nat
      OBVIOUS
    <3> HIDE DEF S
    <3> QED
      BY <2>1, <2>2, <3>1, <3>2, PrunesAlike, PrunesOldest
  <2> QED
    BY <2>3, <2>4 DEF PruneTakesOldest
<1> QED
  BY <1>1, NumbersDrawn, PTL

-----------------------------------------------------------------------------
(***************************************************************************)
(* Among the subvolumes with one slate's name none is before another.      *)
(***************************************************************************)
LEMMA RankType == ASSUME NEW s PROVE Rank(s) \in Int
<1> DEFINE I == {i \in 1..Len(Alphabetic) : Alphabetic[i] = s}
<1>1. Rank(s) = IF I # {} THEN Min(I) ELSE 0
  BY DEF Rank, SelectInSeq
<1>2. I \in SUBSET Nat
  <2>1. Alphabetic \in Seq(STRING)
    BY AlphabeticAssumption, Zenon
  <2>2. Len(Alphabetic) \in Nat
    BY <2>1
  <2> QED
    BY <2>2
<1>3. I # {} => Min(I) \in I
  <2> HIDE DEF I
  <2>1. I # {} => \E x \in I : \A y \in I : x <= y
    BY <1>2, Least
  <2> QED
    BY <2>1 DEF Min
<1> QED
  BY <1>1, <1>2, <1>3

LEMMA SameSlateNotBefore ==
  ASSUME NEW p, NEW q, p[1].name = q[1].name, Len(p) = 1, Len(q) = 1
  PROVE  ~Before(q, p)
<1>1. Rank(p[1].name) \in Int
  BY RankType
<1> QED
  BY <1>1 DEF Before

LEMMA NumeralsDiffer ==
  \A m, n \in DOMAIN Numeral : Numeral[m] = Numeral[n] => m = n
<1>1. /\ DOMAIN Numeral = 1..3
      /\ Numeral[1] = "1" /\ Numeral[2] = "2" /\ Numeral[3] = "3"
  BY DEF Numeral
<1>2. 1..3 = {1, 2, 3}
  OBVIOUS
<1> QED
  BY <1>1, <1>2

LEMMA OneName ==
  ASSUME NEW C, NEW p \in Seq(C), NEW s
  PROVE  SlateOf(p) = <<s>> <=> Len(p) = 1 /\ p[1].name = s
<1>1. DOMAIN p = 1..Len(p) /\ Len(p) \in Nat
  OBVIOUS
<1>2. DOMAIN SlateOf(p) = DOMAIN p /\ \A i \in DOMAIN p : SlateOf(p)[i] = p[i].name
  BY DEF SlateOf
<1>3. DOMAIN <<s>> = 1..1 /\ <<s>>[1] = s
  OBVIOUS
<1>4. ASSUME SlateOf(p) = <<s>> PROVE Len(p) = 1 /\ p[1].name = s
  <2>1. DOMAIN p = 1..1
    BY <1>2, <1>3, <1>4
  <2>2. Len(p) = 1
    BY <2>1
  <2>3. p[1].name = s
    BY <1>2, <1>3, <1>4, <2>1
  <2> QED
    BY <2>2, <2>3
<1>5. ASSUME Len(p) = 1, p[1].name = s PROVE SlateOf(p) = <<s>>
  <2>1. DOMAIN p = 1..1
    BY <1>1, <1>5
  <2>2. SlateOf(p) = [i \in 1..1 |-> s]
    BY <1>5, <2>1 DEF SlateOf
  <2>3. [i \in 1..1 |-> s] = <<s>>
    OBVIOUS
  <2> QED
    BY <2>2, <2>3
<1> QED
  BY <1>4, <1>5

(***************************************************************************)
(* The checkpoints of a slate lie at the top of the filesystem: what lies  *)
(* inside a slate has a path no slate's name is.                           *)
(***************************************************************************)
IsName(s) == s # ""

LEMMA CheckpointsOfSlate ==
  ASSUME NEW store, IsListing(store), NEW s, IsName(s)
  PROVE  ListCheckpoints(store, s) =
           {p \in store : Len(p) = 1 /\ IsCheckpoint(p) /\ p[1].name = s}
<1>1. ListCheckpoints(store, s) = {p \in store : IsCheckpoint(p) /\ SlateOf(p) = <<s>>}
  BY DEF ListCheckpoints, IsName
<1>2. \A p \in store : SlateOf(p) = <<s>> <=> Len(p) = 1 /\ p[1].name = s
  <2>1. \A p \in store : p \in Seq(Component)
    BY DEF IsListing
  <2> QED
    BY <2>1, OneName
<1> QED
  BY <1>1, <1>2

(***************************************************************************)
(* The checkpoints of slate s with number n, all that a word can mean.     *)
(***************************************************************************)
Numbered(store, s, n) ==
  {p \in store : Len(p) = 1 /\ IsCheckpoint(p) /\ p[1].name = s /\ p[1].seq = n}

MeantSlate(ref, default) == IF ref.slate = "" THEN default ELSE ref.slate

LEMMA FoundByNumber ==
  ASSUME NEW store, IsListing(store), NEW s, IsName(s), NEW n \in DOMAIN Numeral,
         NEW ref, ref.last = Numeral[n], NEW default,
         s = MeantSlate(ref, default)
  PROVE  FindCheckpoint(store, ref, default) = Numbered(store, s, n)
<1> DEFINE hits == {p \in ListCheckpoints(store, s) :
                      \E m \in DOMAIN Numeral : Numeral[m] = ref.last /\ Last(p).seq = m}
<1>1. FindCheckpoint(store, ref, default) = {p \in hits : \A q \in hits : ~Before(q, p)}
  BY DEF FindCheckpoint, MeantSlate
<1>2. hits = Numbered(store, s, n)
  <2>1. \A p : (\E m \in DOMAIN Numeral : Numeral[m] = ref.last /\ Last(p).seq = m)
                 <=> Last(p).seq = n
    BY NumeralsDiffer
  <2>2. hits = {p \in ListCheckpoints(store, s) : Last(p).seq = n}
    BY <2>1
  <2>3. ListCheckpoints(store, s) =
          {p \in store : Len(p) = 1 /\ IsCheckpoint(p) /\ p[1].name = s}
    BY CheckpointsOfSlate
  <2>4. \A p \in ListCheckpoints(store, s) : Last(p) = p[1]
    BY <2>3 DEF Last
  <2> HIDE DEF hits
  <2>5. \A p : p \in hits <=> p \in Numbered(store, s, n)
    BY <2>2, <2>3, <2>4 DEF Numbered
  <2> QED
    BY <2>5
<1>3. \A p, q \in Numbered(store, s, n) : ~Before(q, p)
  BY SameSlateNotBefore DEF Numbered
<1> HIDE DEF hits
<1> QED
  BY <1>1, <1>2, <1>3

(***************************************************************************)
(* A word that is no number finds no checkpoint.                           *)
(***************************************************************************)
LEMMA NotFoundByName ==
  ASSUME NEW store, NEW ref, NEW default, ref.last \notin ToSet(Numeral)
  PROVE  FindCheckpoint(store, ref, default) = {}
BY DEF FindCheckpoint, ToSet

LEMMA ListedCheckpoint ==
  ASSUME NEW store, IsListing(store), NEW p \in store, Len(p) = 1, IsCheckpoint(p)
  PROVE  IsName(p[1].name) /\ p[1].seq \in DOMAIN Numeral
<1>1. p[1].kind = "ckpt"
  BY DEF IsCheckpoint, Last
<1>2. \A i \in DOMAIN p : IsNumbered(p[i])
  BY DEF IsListing
<1>3. DOMAIN p = 1..Len(p)
  BY DEF IsListing
<1>4. IsNumbered(p[1])
  BY <1>2, <1>3
<1> QED
  BY <1>1, <1>4 DEF IsNumbered, IsName

LEMMA MeantSlates ==
  ASSUME NEW s, NEW w, NEW default
  PROVE  /\ IsName(s) => MeantSlate(Dotted(s, w), default) = s
         /\ MeantSlate(Bare(w), default) = default
BY DEF MeantSlate, Dotted, Bare, IsName

LEMMA LastWords == ASSUME NEW s, NEW w PROVE Dotted(s, w).last = w /\ Bare(w).last = w
BY DEF Dotted, Bare

IsDotted(ref) == ref.slate # "" /\ ref # Bare("baseline")

LEMMA DottedWord == ASSUME NEW s, NEW w, IsName(s) PROVE IsDotted(Dotted(s, w))
BY DEF Dotted, Bare, IsName, IsDotted

LEMMA CheckpointWords ==
  ASSUME NEW store, IsListing(store), NEW p \in store, Len(p) = 1, IsCheckpoint(p),
         NEW ref, ref = Dotted(p[1].name, Numeral[p[1].seq]),
         NEW same, same = Numbered(store, p[1].name, p[1].seq)
  PROVE  /\ \A s : FindCheckpoint(store, ref, s) = same
         /\ FindCheckpoint(store, Bare(Numeral[p[1].seq]), p[1].name) = same
         /\ \A running : resolveForkSource(store, ref, running) = same
<1>1. PICK s, n : s = p[1].name /\ n = p[1].seq
  OBVIOUS
<1>2. IsName(s) /\ n \in DOMAIN Numeral
  BY <1>1, ListedCheckpoint
<1>3. \A default : FindCheckpoint(store, ref, default) = same
  BY <1>1, <1>2, FoundByNumber, MeantSlates, LastWords
<1>4. FindCheckpoint(store, Bare(Numeral[n]), s) = same
  BY <1>1, <1>2, FoundByNumber, MeantSlates, LastWords
<1>5. p \in same
  BY DEF Numbered
<1>6. \A running : resolveForkSource(store, ref, running) = same
  <2>1. IsDotted(ref)
    BY <1>1, <1>2, DottedWord
  <2> QED
    BY <1>3, <1>5, <2>1 DEF resolveForkSource, IsDotted
<1> QED
  BY <1>1, <1>3, <1>4, <1>6

LEMMA SlateWord ==
  ASSUME NEW store, NEW s, IsName(s), <<Named(s)>> \in store,
         s \notin ToSet(Numeral), s # "current"
  PROVE  resolveForkSource(store, Bare(s), <<Named("baseline")>>) = {<<Named(s)>>}
<1>1. FindCheckpoint(store, Bare(s), "") = {}
  BY NotFoundByName, LastWords
<1>2. Bare(s).slate = "" /\ Bare(s).last = s
  BY DEF Bare
<1>3. s # ""
  BY DEF IsName
<1>4. CASE Bare(s) = Bare("baseline")
  <2>1. s = "baseline"
    BY <1>4, <1>2 DEF Bare
  <2> QED
    BY <1>2, <1>3, <1>4, <2>1 DEF resolveForkSource
<1>5. CASE Bare(s) # Bare("baseline")
  BY <1>1, <1>2, <1>3, <1>5 DEF resolveForkSource
<1> QED
  BY <1>4, <1>5

LEMMA ListedSlateIsName == ASSUME NEW s \in ToSet(Alphabetic) PROVE IsName(s)
<1>1. "" \notin ToSet(Alphabetic)
  BY AlphabeticAssumption, Zenon
<1> QED
  BY <1>1 DEF IsName

(***************************************************************************)
(* Whatever lists of subvolumes there are, also with copies that a race of *)
(* forks left inside a slate, a checkpoint's reference, its full name and, *)
(* on its own slate, its bare number find a checkpoint of that slate and   *)
(* number; and a fork from a slate's name copies that slate, if the name   *)
(* is not a number nor `current' (FindCheckpoint, resolveForkSource).      *)
(***************************************************************************)
THEOREM ReferencesLaw == LawsSpec => []ReferencesAreExact
<1>1. ASSUME DrawnInv PROVE ReferencesAreExact
  <2> SUFFICES ASSUME sample.kind = "store" PROVE ReferencesAreExact
    BY DEF ReferencesAreExact
  <2>1. PICK store \in Stores : sample.of = store
    BY <1>1 DEF DrawnInv, NoSample
  <2>2. IsListing(store)
    BY StoresAssumption
  <2> DEFINE slates == {s \in ToSet(Alphabetic) : <<Named(s)>> \in store}
             Same(c) == {q \in store : Len(q) = 1 /\ IsCheckpoint(q)
                                       /\ q[1].name = c.name /\ q[1].seq = c.seq}
  <2>3. ASSUME NEW p \in {q \in store : Len(q) = 1 /\ IsCheckpoint(q)}
        PROVE  LET c   == p[1]
                   ref == Dotted(c.name, Numeral[c.seq])
               IN  /\ \A s \in slates : FindCheckpoint(store, ref, s) = Same(c)
                   /\ FindCheckpoint(store, Bare(Numeral[c.seq]), c.name) = Same(c)
                   /\ resolveForkSource(store, ref, <<Named("main")>>) = Same(c)
    <3>1. Same(p[1]) = Numbered(store, p[1].name, p[1].seq)
      BY DEF Numbered
    <3> QED
      BY <2>2, <3>1, CheckpointWords
  <2>4. \A s \in slates \ (ToSet(Numeral) \cup {"current"}) :
          resolveForkSource(store, Bare(s), <<Named("baseline")>>) = {<<Named(s)>>}
    BY SlateWord, ListedSlateIsName
  <2> QED
    BY <2>1, <2>3, <2>4 DEF ReferencesAreExact
<1> QED
  BY <1>1, SamplesDrawn, PTL

-----------------------------------------------------------------------------
(***************************************************************************)
(* The first and the last line of a kind are lines of that kind.           *)
(***************************************************************************)
LEMMA MinIn == ASSUME NEW S \in SUBSET Nat, S # {} PROVE Min(S) \in S
<1>1. \E x \in S : \A y \in S : x <= y
  BY Least
<1> QED
  BY <1>1 DEF Min

LEMMA MaxIn ==
  ASSUME NEW n \in Nat, NEW S \in SUBSET (1..n), S # {} PROVE Max(S) \in S
<1> DEFINE rest == {n - x : x \in S}
<1>1. rest \in SUBSET Nat /\ rest # {}
  <2>1. \A x \in S : n - x \in Nat
    OBVIOUS
  <2> QED
    BY <2>1
<1>2. PICK r \in rest : \A y \in rest : r <= y
  BY <1>1, Least
<1>3. PICK x \in S : r = n - x
  BY <1>2
<1>4. \A y \in S : x >= y
  <2> SUFFICES ASSUME NEW y \in S PROVE x >= y
    OBVIOUS
  <2>1. r <= n - y
    BY <1>2
  <2>2. x \in 1..n /\ y \in 1..n
    OBVIOUS
  <2> QED
    BY <1>3, <2>1, <2>2
<1> QED
  BY <1>3, <1>4 DEF Max

LEMMA FileLines ==
  ASSUME NEW file, IsFile(file)
  PROVE  /\ Len(file) \in Nat /\ DOMAIN file = 1..Len(file)
         /\ \A i \in DOMAIN file : file[i].value \in Value
<1>1. Len(file) \in Nat /\ DOMAIN file = 1..Len(file)
  BY DEF IsFile
<1>2. \A i \in DOMAIN file : file[i] \in FileLine
  BY DEF IsFile
<1>3. \A l \in FileLine : l.value \in Value
  BY DEF FileLine
<1> QED
  BY <1>1, <1>2, <1>3

(***************************************************************************)
(* Of the lines of a plain file with one key, the first says what the last *)
(* says.                                                                   *)
(***************************************************************************)
LEMMA FirstSaysLast ==
  ASSUME NEW file, IsFile(file), Plain(file), NEW key, NEW read,
         read \in SUBSET {i \in DOMAIN file : file[i].key = key}, read # {}
  PROVE  /\ Max(read) \in read /\ Min(read) \in read
         /\ \A i \in read : file[i].value = file[Max(read)].value
<1>1. read \in SUBSET (1..Len(file)) /\ Len(file) \in Nat /\ read \in SUBSET Nat
  BY FileLines
<1>2. Max(read) \in read /\ Min(read) \in read
  BY <1>1, MaxIn, MinIn
<1>3. \A i, j \in read : file[i].value = file[j].value
  BY Zenon DEF Plain
<1> QED
  BY <1>2, <1>3

LEMMA PlainNumber ==
  ASSUME NEW v \in Value PROVE v.kind = "number" => v.n \in Int /\ (v.plain => v.n >= 0)
<1>1. CASE v \in [kind : {"number"}, n : Nat, plain : {TRUE}]
  BY <1>1
<1>2. CASE v \in [kind : {"number"}, n : Int, plain : {FALSE}]
  BY <1>2
<1>3. CASE v \in [kind : {"word"}, n : {0}, plain : {FALSE}, word : STRING]
  <2>1. v.kind = "word"
    BY <1>3
  <2> QED
    BY <2>1
<1> QED
  BY <1>1, <1>2, <1>3 DEF Value

LEMMA PlainLine ==
  ASSUME NEW file, IsFile(file), Plain(file), NEW i \in DOMAIN file
  PROVE  /\ ~file[i].lead /\ ~file[i].trail
         /\ file[i].value.kind = "number" => file[i].value.plain /\ file[i].value.n >= 0
<1>1. /\ ~file[i].lead /\ ~file[i].trail
      /\ file[i].value.kind = "number" => file[i].value.plain
  BY Zenon DEF Plain
<1>2. PICK v \in Value : v = file[i].value
  BY FileLines
<1>3. v.kind = "number" => (v.plain => v.n >= 0)
  BY PlainNumber
<1> QED
  BY <1>1, <1>2, <1>3, Zenon

LEMMA RetainAgrees ==
  ASSUME NEW file, IsFile(file), Plain(file) PROVE ShellRetain(file) = RetainAuto(file)
<1> DEFINE shell == {i \in DOMAIN file : /\ file[i].key = "retain_auto"
                                         /\ ~file[i].lead /\ ~file[i].trail
                                         /\ file[i].value.kind = "number"
                                         /\ file[i].value.plain}
           go == {i \in DOMAIN file : /\ file[i].key = "retain_auto"
                                      /\ file[i].value.kind = "number"
                                      /\ file[i].value.n >= 0}
<1>1. \A i \in DOMAIN file : i \in shell <=> i \in go
  BY PlainLine, Zenon
<1>2. shell = go
  BY <1>1, Zenon
<1>3. go # {} => /\ Max(go) \in go /\ Min(go) \in go
                 /\ \A i \in go : file[i].value = file[Max(go)].value
  <2>1. go \in SUBSET {i \in DOMAIN file : file[i].key = "retain_auto"}
    BY Zenon
  <2> HIDE DEF go
  <2> QED
    BY <2>1, FirstSaysLast
<1>4. ShellRetain(file) = IF go = {} THEN RetainDefault ELSE file[Max(go)].value.n
  BY <1>2, Zenon DEF ShellRetain
<1>5. RetainAuto(file) = IF go = {} THEN RetainDefault ELSE file[Min(go)].value.n
  BY Zenon DEF RetainAuto
<1> HIDE DEF go, shell
<1> QED
  BY <1>3, <1>4, <1>5, Zenon

LEMMA EnabledAgrees ==
  ASSUME NEW file, IsFile(file), Plain(file)
  PROVE  ShellAutoEnabled(file) = AutoCheckpointEnabled(file)
<1> DEFINE shell == {i \in DOMAIN file : file[i].key = "auto_checkpoint" /\ ~file[i].lead}
           go    == {i \in DOMAIN file : file[i].key = "auto_checkpoint"}
<1>1. shell = go
  BY PlainLine, Zenon
<1>2. go # {} => /\ Max(go) \in go /\ Min(go) \in go
                 /\ \A i \in go : file[i].value = file[Max(go)].value
  <2>1. go \in SUBSET {i \in DOMAIN file : file[i].key = "auto_checkpoint"}
    BY Zenon
  <2> HIDE DEF go
  <2> QED
    BY <2>1, FirstSaysLast
<1>3. ShellAutoEnabled(file) <=> go = {} \/ file[Max(go)].trail \/ ~Off(file[Max(go)].value)
  BY <1>1, Zenon DEF ShellAutoEnabled
<1>4. AutoCheckpointEnabled(file) <=> \A i \in go : ~Off(file[i].value)
  BY Zenon DEF AutoCheckpointEnabled
<1>5. go # {} => Max(go) \in DOMAIN file /\ ~file[Max(go)].trail
  BY <1>2, PlainLine, Zenon
<1>6. ShellAutoEnabled(file) <=> AutoCheckpointEnabled(file)
  <2> HIDE DEF go
  <2>1. CASE go = {}
    BY <1>3, <1>4, <2>1, Zenon
  <2>2. CASE go # {}
    BY <1>2, <1>3, <1>4, <1>5, <2>2, Zenon
  <2> QED
    BY <2>1, <2>2
<1> QED
  BY <1>6, Zenon DEF ShellAutoEnabled, AutoCheckpointEnabled

(***************************************************************************)
(* Whatever .cleanslate/config holds, as long as no key is given two       *)
(* values, no blanks surround a line and no number has a sign, both        *)
(* programs read the same configuration (retain_auto and RetainAuto,       *)
(* auto_checkpoint_enabled and AutoCheckpointEnabled).                     *)
(***************************************************************************)
THEOREM ReadersLaw == LawsSpec => []ReadersAgree
<1>1. ASSUME DrawnInv PROVE ReadersAgree
  <2> SUFFICES ASSUME sample.kind = "file", Plain(sample.of)
               PROVE  /\ ShellRetain(sample.of) = RetainAuto(sample.of)
                      /\ ShellAutoEnabled(sample.of) = AutoCheckpointEnabled(sample.of)
    BY DEF ReadersAgree
  <2>1. PICK file \in Files : sample.of = file
    BY <1>1 DEF DrawnInv, NoSample
  <2>2. IsFile(file)
    BY FilesAssumption
  <2> QED
    BY <2>1, <2>2, RetainAgrees, EnabledAgrees
<1> QED
  BY <1>1, SamplesDrawn, PTL

-----------------------------------------------------------------------------
LEMMA LastOfNone ==
  ASSUME NEW key, NEW none PROVE LastOf(<<>>, key, none) = none
<1>1. DOMAIN <<>> = {}
  OBVIOUS
<1> QED
  BY <1>1, Zenon DEF LastOf

LEMMA BodyLines ==
  ASSUME NEW p
  PROVE  /\ DOMAIN PendingBody(p) = {1, 2, 3}
         /\ PendingBody(p)[1].key = "slate" /\ PendingBody(p)[1].value = p.slate
         /\ PendingBody(p)[2].key = "source" /\ PendingBody(p)[2].value = p.source
         /\ PendingBody(p)[3].key = "reason"
<1>1. 1..3 = {1, 2, 3}
  OBVIOUS
<1> QED
  BY <1>1 DEF PendingBody, Line

LEMMA BodyRead ==
  ASSUME NEW p
  PROVE  /\ LastOf(PendingBody(p), "slate", "") = p.slate
         /\ LastOf(PendingBody(p), "source", "") = p.source
<1> DEFINE body == PendingBody(p)
<1>1. "slate" # "source" /\ "slate" # "reason" /\ "source" # "reason"
  OBVIOUS
<1>2. {i \in DOMAIN body : body[i].key = "slate"} = {1}
  BY <1>1, BodyLines, Zenon
<1>3. {i \in DOMAIN body : body[i].key = "source"} = {2}
  BY <1>1, BodyLines, Zenon
<1>4. Max({1}) = 1 /\ Max({2}) = 2
  BY DEF Max
<1>5. LastOf(body, "slate", "") = body[1].value
  BY <1>2, <1>4, Zenon DEF LastOf
<1>6. LastOf(body, "source", "") = body[2].value
  BY <1>3, <1>4, Zenon DEF LastOf
<1> QED
  BY <1>5, <1>6, BodyLines, Zenon

(***************************************************************************)
(* Whatever is staged, for whatever reason, the hook, in a boot of that    *)
(* slate and of no other, and `status' read back the slate and the source; *)
(* a file cut to nothing stages nothing (StagePending, ReadPending,        *)
(* apply_pending).                                                         *)
(***************************************************************************)
THEOREM StagedLaw == LawsSpec => []StagedIsRead
<1>1. ASSUME DrawnInv PROVE StagedIsRead
  <2> SUFFICES ASSUME sample.kind = "staging" PROVE StagedIsRead
    BY DEF StagedIsRead
  <2>1. PICK p \in Stagings : sample.of = p
    BY <1>1 DEF DrawnInv, NoSample
  <2>2. p.slate # "" /\ p.source # ""
    BY StagingsAssumption
  <2> DEFINE said == [slate |-> p.slate, source |-> p.source]
             body == PendingBody(p)
  <2>3. ReadPending(body) = said
    BY <2>2, BodyRead, Zenon DEF ReadPending
  <2>4. \A t : StagedFor(t, body) = IF t = p.slate THEN said ELSE Nothing
    BY <2>2, BodyRead, Zenon DEF StagedFor
  <2>5. ReadPending(<<>>) = Nothing /\ \A t : StagedFor(t, <<>>) = Nothing
    BY LastOfNone, Zenon DEF ReadPending, StagedFor
  <2> QED
    BY <2>1, <2>3, <2>4, <2>5, Zenon DEF StagedIsRead
<1> QED
  BY <1>1, SamplesDrawn, PTL

-----------------------------------------------------------------------------
LEMMA Appended ==
  ASSUME NEW s, IsSeq(s), NEW e
  PROVE  /\ Len(s) \in Nat /\ DOMAIN s = 1..Len(s)
         /\ DOMAIN Append(s, e) = 1..(Len(s) + 1)
         /\ Append(s, e)[Len(s) + 1] = e
         /\ \A i \in 1..Len(s) : Append(s, e)[i] = s[i]
<1> DEFINE C == ToSet(s) \cup {e}
<1>1. s \in Seq(ToSet(s)) /\ Len(s) \in Nat /\ DOMAIN s = 1..Len(s)
  BY DEF IsSeq
<1>2. \A i \in 1..Len(s) : s[i] \in C
  BY <1>1 DEF ToSet
<1>3. s \in Seq(C)
  <2> HIDE DEF C
  <2> QED
    BY <1>1, <1>2
<1>4. e \in C
  OBVIOUS
<1> HIDE DEF C
<1> QED
  BY <1>1, <1>3, <1>4

(***************************************************************************)
(* A field with a subvolume at most once has exactly the given one         *)
(* afterwards, and its other parts as they were.                           *)
(***************************************************************************)
LEMMA FieldRewritten ==
  ASSUME NEW f, IsSeq(f.parts), NEW t, \A j, k \in SubvolParts(f) : j = k
  PROVE  LET g == replaceSubvolToken(f, t)
         IN  /\ IsRootflags(g)
             /\ \E p \in Nat : SubvolParts(g) = {p} /\ g.parts[p] = Subvol(t)
             /\ \A j \in DOMAIN f.parts :
                  \/ IsSubvol(f.parts[j])
                  \/ j \in DOMAIN g.parts /\ g.parts[j] = f.parts[j]
             /\ \A j \in DOMAIN g.parts :
                  \/ IsSubvol(g.parts[j])
                  \/ j \in DOMAIN f.parts /\ f.parts[j] = g.parts[j]
<1> DEFINE g == replaceSubvolToken(f, t)
           given == SubvolParts(f)
           s == f.parts
<1>1. Len(s) \in Nat /\ DOMAIN s = 1..Len(s)
  BY DEF IsSeq
<1>2. given \in SUBSET Nat
  BY <1>1 DEF SubvolParts
<1>3. IsSubvol(Subvol(t))
  BY DEF IsSubvol, Subvol
<1>4. \A r : IsRootflags(Rootflags(r)) /\ Rootflags(r).parts = r
  BY DEF IsRootflags, Rootflags
<1>5. CASE given = {}
  <2>1. g = Rootflags(Append(s, Subvol(t)))
    BY <1>5 DEF replaceSubvolToken
  <2>2. g.parts = Append(s, Subvol(t)) /\ IsRootflags(g)
    BY <2>1, <1>4
  <2>3. \A j \in 1..Len(s) : g.parts[j] = s[j] /\ ~IsSubvol(s[j])
    BY <2>2, <1>5, <1>1, Appended DEF SubvolParts
  <2>4. DOMAIN g.parts = 1..(Len(s) + 1) /\ g.parts[Len(s) + 1] = Subvol(t)
    BY <2>2, Appended
  <2>5. SubvolParts(g) = {Len(s) + 1}
    BY <2>3, <2>4, <1>1, <1>3 DEF SubvolParts
  <2>6. \A j \in DOMAIN g.parts : j \in 1..Len(s) \/ j = Len(s) + 1
    BY <2>4, <1>1
  <2>7. Len(s) + 1 \in Nat /\ \A j \in 1..Len(s) : j \in DOMAIN g.parts
    BY <2>4, <1>1
  <2> QED
    BY <2>2, <2>3, <2>4, <2>5, <2>6, <2>7, <1>1, <1>3, Zenon
<1>6. CASE given # {}
  <2> DEFINE m == Min(given)
  <2>1. m \in given /\ m \in DOMAIN s /\ m \in Nat /\ \A j \in given : j = m
    BY <1>2, <1>6, MinIn DEF SubvolParts
  <2>2. g = Rootflags([s EXCEPT ![m] = Subvol(t)])
    BY <1>6 DEF replaceSubvolToken
  <2>3. g.parts = [s EXCEPT ![m] = Subvol(t)] /\ IsRootflags(g)
    BY <2>2, <1>4
  <2> HIDE DEF m
  <2>4. DOMAIN g.parts = DOMAIN s /\ g.parts[m] = Subvol(t)
        /\ \A j \in DOMAIN s : j # m => g.parts[j] = s[j]
    BY <2>1, <2>3 DEF IsSeq
  <2>5. \A j \in DOMAIN s : j # m => ~IsSubvol(s[j])
    BY <2>1 DEF SubvolParts
  <2>6. IsSubvol(s[m])
    BY <2>1 DEF SubvolParts
  <2>7. SubvolParts(g) = {m}
    BY <2>1, <2>4, <2>5, <1>3, Zenon DEF SubvolParts
  <2> QED
    BY <2>1, <2>3, <2>4, <2>5, <2>6, <2>7, <1>3, Zenon
<1> QED
  BY <1>5, <1>6

(***************************************************************************)
(* A line all of whose subvolumes are t boots t, whoever reads it.         *)
(***************************************************************************)
LEMMA OneSubvolRead ==
  ASSUME NEW line, NEW n \in Nat, DOMAIN line = 1..n, NEW t, SubvolFields(line) # {},
         \A i \in SubvolFields(line) :
           \E p \in Nat : SubvolParts(line[i]) = {p} /\ line[i].parts[p] = Subvol(t)
  PROVE  HookSubvol(line) = Meant(t, TRUE) /\ parseCmdlineSubvol(line) = Meant(t, TRUE)
<1> DEFINE fields == SubvolFields(line)
<1>1. fields \in SUBSET (1..n) /\ fields \in SUBSET Nat
  BY DEF SubvolFields
<1>2. Max(fields) \in fields /\ Min(fields) \in fields
  BY <1>1, MaxIn, MinIn
<1>3. \A p \in Nat : Max({p}) = p /\ Min({p}) = p
  BY DEF Max, Min
<1>4. \A i \in fields : /\ line[i].parts[Max(SubvolParts(line[i]))] = Subvol(t)
                        /\ line[i].parts[Min(SubvolParts(line[i]))] = Subvol(t)
  BY <1>3, Zenon
<1>5. Subvol(t).name = t /\ Subvol(t).at = TRUE
  BY DEF Subvol
<1>6. HookSubvol(line) = Meant(t, TRUE)
  BY <1>2, <1>4, <1>5, Zenon DEF HookSubvol
<1>7. parseCmdlineSubvol(line) = Meant(t, TRUE)
  BY <1>2, <1>4, <1>5, Zenon DEF parseCmdlineSubvol
<1> QED
  BY <1>6, <1>7

(***************************************************************************)
(* The rewritten options line: one subvolume wherever there is a field for *)
(* it, in at least one place, and every other option as it was.            *)
(***************************************************************************)
LEMMA LineRewritten ==
  ASSUME NEW line, IsOptions(line), NamesAtMostOne(line), NEW t
  PROVE  LET out == rewriteOptionsLine(line, t)
         IN  /\ HookSubvol(out) = Meant(t, TRUE)
             /\ parseCmdlineSubvol(out) = Meant(t, TRUE)
             /\ SameOptions(line, out)
<1> DEFINE out   == rewriteOptionsLine(line, t)
           given == [i \in DOMAIN line |-> IF IsRootflags(line[i])
                                           THEN replaceSubvolToken(line[i], t) ELSE line[i]]
           added == Rootflags(<<Subvol(t)>>)
           Right(i) == \E p \in Nat : /\ SubvolParts(out[i]) = {p}
                                      /\ out[i].parts[p] = Subvol(t)
<1>1. IsSeq(line) /\ Len(line) \in Nat /\ DOMAIN line = 1..Len(line)
  BY Appended DEF IsOptions
<1>2. \A i \in DOMAIN line : IsRootflags(line[i]) =>
         LET g == given[i]
         IN  /\ IsRootflags(g)
             /\ \E p \in Nat : SubvolParts(g) = {p} /\ g.parts[p] = Subvol(t)
             /\ \A j \in DOMAIN line[i].parts :
                  \/ IsSubvol(line[i].parts[j])
                  \/ j \in DOMAIN g.parts /\ g.parts[j] = line[i].parts[j]
             /\ \A j \in DOMAIN g.parts :
                  \/ IsSubvol(g.parts[j])
                  \/ j \in DOMAIN line[i].parts /\ line[i].parts[j] = g.parts[j]
  <2> SUFFICES ASSUME NEW i \in DOMAIN line, IsRootflags(line[i])
               PROVE  LET g == replaceSubvolToken(line[i], t)
                      IN  /\ IsRootflags(g)
                          /\ \E p \in Nat : SubvolParts(g) = {p} /\ g.parts[p] = Subvol(t)
                          /\ \A j \in DOMAIN line[i].parts :
                               \/ IsSubvol(line[i].parts[j])
                               \/ j \in DOMAIN g.parts /\ g.parts[j] = line[i].parts[j]
                          /\ \A j \in DOMAIN g.parts :
                               \/ IsSubvol(g.parts[j])
                               \/ j \in DOMAIN line[i].parts /\ line[i].parts[j] = g.parts[j]
    BY Zenon
  <2>1. IsSeq(line[i].parts) /\ \A j, k \in SubvolParts(line[i]) : j = k
    BY Zenon DEF IsOptions, NamesAtMostOne
  <2> QED
    BY <2>1, FieldRewritten
<1>3. \A i \in DOMAIN line : ~IsRootflags(line[i]) =>
         given[i] = line[i] /\ SubvolParts(line[i]) = {}
  <2>1. DOMAIN <<>> = {}
    OBVIOUS
  <2> QED
    BY <2>1, Zenon DEF IsOptions, SubvolParts
<1>4. CASE \E i \in DOMAIN line : IsRootflags(line[i])
  <2>1. out = given /\ DOMAIN out = DOMAIN line
    BY <1>4 DEF rewriteOptionsLine
  <2> HIDE DEF out, given
  <2>2. SubvolFields(out) # {} /\ \A i \in SubvolFields(out) : Right(i)
    <3>1. PICK i \in DOMAIN line : IsRootflags(line[i])
      BY <1>4
    <3>2. SubvolParts(out[i]) # {}
      BY <1>2, <2>1, <3>1, Zenon
    <3>3. \A k \in DOMAIN line : IsRootflags(line[k]) \/ SubvolParts(out[k]) = {}
      BY <1>3, <2>1, Zenon
    <3> QED
      BY <1>2, <2>1, <3>1, <3>2, <3>3, Zenon DEF SubvolFields
  <2>3. HookSubvol(out) = Meant(t, TRUE) /\ parseCmdlineSubvol(out) = Meant(t, TRUE)
    <3>1. DOMAIN out = 1..Len(line)
      BY <1>1, <2>1
    <3> QED
      BY <1>1, <2>2, <3>1, OneSubvolRead
  <2>4. OptionsIn(line, out) /\ OptionsIn(out, line)
    BY <1>2, <1>3, <2>1, Zenon DEF OptionsIn
  <2>5. \A i \in DOMAIN line : out[i].key = line[i].key
    BY <1>2, <1>3, <2>1, Zenon DEF IsRootflags
  <2>6. SameOptions(line, out)
    BY <2>1, <2>4, <2>5, Zenon DEF SameOptions
  <2> QED
    BY <2>3, <2>6 DEF out
<1>5. CASE ~\E i \in DOMAIN line : IsRootflags(line[i])
  <2> DEFINE n == Len(line) + 1
  <2>1. given = line
    BY <1>1, <1>3, <1>5 DEF IsSeq
  <2>2. out = Append(line, added)
    <3>1. out = Append(given, added)
      BY <1>5, Zenon DEF rewriteOptionsLine
    <3> HIDE DEF given, out, added
    <3> QED
      BY <2>1, <3>1
  <2>3. /\ DOMAIN out = 1..n /\ out[n] = added /\ n \in Nat
        /\ \A i \in 1..Len(line) : out[i] = line[i]
    BY <1>1, <2>2, Appended
  <2>4. SubvolParts(added) = {1} /\ added.parts = <<Subvol(t)>> /\ IsRootflags(added)
    <3>1. DOMAIN <<Subvol(t)>> = {1} /\ <<Subvol(t)>>[1] = Subvol(t)
      <4>1. 1..1 = {1}
        OBVIOUS
      <4> QED
        BY <4>1
    <3>2. IsSubvol(Subvol(t))
      BY DEF IsSubvol, Subvol
    <3>3. added.parts = <<Subvol(t)>> /\ IsRootflags(added)
      BY DEF Rootflags, IsRootflags
    <3> QED
      BY <3>1, <3>2, <3>3, Zenon DEF SubvolParts
  <2> HIDE DEF out, given, added
  <2>5. SubvolFields(out) = {n}
    <3>1. \A i \in 1..n : i \in 1..Len(line) \/ i = n
      BY <1>1
    <3>2. n \in 1..n
      BY <1>1
    <3>3. \A i \in 1..Len(line) : SubvolParts(out[i]) = {} 
      BY <1>1, <1>3, <1>5, <2>3, Zenon
    <3>4. SubvolParts(out[n]) # {}
      BY <2>3, <2>4, Zenon
    <3> HIDE DEF n
    <3>5. \A i \in DOMAIN out : SubvolParts(out[i]) # {} <=> i = n
      BY <2>3, <3>1, <3>3, <3>4
    <3>6. n \in DOMAIN out
      BY <2>3, <3>2
    <3> QED
      BY <3>5, <3>6 DEF SubvolFields
  <2>6. Right(n)
    <3>1. added.parts[1] = Subvol(t)
      BY <2>4
    <3> QED
      BY <2>3, <2>4, <3>1
  <2> HIDE DEF n
  <2>7. HookSubvol(out) = Meant(t, TRUE) /\ parseCmdlineSubvol(out) = Meant(t, TRUE)
    BY <2>3, <2>5, <2>6, OneSubvolRead
  <2>8. OptionsIn(line, out)
    <3>1. \A i \in DOMAIN line : i \in DOMAIN out
      BY <1>1, <2>3 DEF n
    <3> QED
      BY <1>1, <2>3, <3>1, Zenon DEF OptionsIn
  <2>9. OptionsIn(out, line) /\ \A i \in DOMAIN out \ DOMAIN line : IsRootflags(out[i])
    <3>1. \A i \in DOMAIN out : (i \in DOMAIN line /\ out[i] = line[i]) \/ i = n
      BY <1>1, <2>3 DEF n
    <3>2. \A j \in DOMAIN added.parts : IsSubvol(added.parts[j])
      <4>1. DOMAIN <<Subvol(t)>> = {1} /\ <<Subvol(t)>>[1] = Subvol(t)
        <5>1. 1..1 = {1}
          OBVIOUS
        <5> QED
          BY <5>1
      <4> QED
        BY <2>4, <4>1 DEF IsSubvol, Subvol
    <3> QED
      BY <2>3, <2>4, <3>1, <3>2, Zenon DEF OptionsIn
  <2>10. \A i \in DOMAIN line : i \in DOMAIN out /\ out[i] = line[i]
    BY <1>1, <2>3 DEF n
  <2>11. SameOptions(line, out)
    BY <2>8, <2>9, <2>10, Zenon DEF SameOptions
  <2> QED
    BY <2>7, <2>11 DEF out
<1> QED
  BY <1>4, <1>5

(***************************************************************************)
(* The entry written for any slate from any template boots that slate, as  *)
(* the hook and the Go code read it, if no field of the template names two *)
(* subvolumes; every other option stays in its place and none is made up   *)
(* (rewriteBLSEntry, parseCmdlineSubvol).                                  *)
(***************************************************************************)
THEOREM EntryLaw == LawsSpec => []EntryBootsItsSlate
<1>1. ASSUME DrawnInv PROVE EntryBootsItsSlate
  <2> SUFFICES ASSUME sample.kind = "line", NamesAtMostOne(sample.of), NEW t \in Targets
               PROVE LET entry  == <<EntryLine("title", "@main"), EntryLine("linux", "vmlinuz"),
                                     EntryLine("options", sample.of)>>
                         result == rewriteBLSEntry(entry, t)
                         out    == result[3].of
                     IN  /\ result[1].of = t /\ result[2] = entry[2]
                         /\ HookSubvol(out) = Meant(t, TRUE)
                         /\ parseCmdlineSubvol(out) = Meant(t, TRUE)
                         /\ SameOptions(sample.of, out)
    BY Zenon DEF EntryBootsItsSlate
  <2> DEFINE entry  == <<EntryLine("title", "@main"), EntryLine("linux", "vmlinuz"),
                         EntryLine("options", sample.of)>>
             result == rewriteBLSEntry(entry, t)
  <2>1. IsOptions(sample.of)
    <3>1. PICK line \in Lines : sample.of = line
      BY <1>1 DEF DrawnInv, NoSample
    <3> QED
      BY <3>1, LinesAssumption
  <2>2. DOMAIN entry = {1, 2, 3} /\ entry[1].key = "title" /\ entry[2].key = "linux"
        /\ entry[3].key = "options" /\ entry[3].of = sample.of
    <3>1. 1..3 = {1, 2, 3} /\ DOMAIN entry = 1..3
      OBVIOUS
    <3>2. entry[1] = EntryLine("title", "@main") /\ entry[2] = EntryLine("linux", "vmlinuz")
          /\ entry[3] = EntryLine("options", sample.of)
      OBVIOUS
    <3>3. \A key, of : EntryLine(key, of).key = key /\ EntryLine(key, of).of = of
      BY DEF EntryLine
    <3> HIDE DEF entry
    <3> QED
      BY <3>1, <3>2, <3>3
  <2> HIDE DEF entry
  <2>3. /\ result[1] = EntryLine("title", t)
        /\ result[2] = entry[2]
        /\ result[3] = EntryLine("options", rewriteOptionsLine(sample.of, t))
    <3>1. "linux" # "title" /\ "linux" # "options" /\ "options" # "title"
      OBVIOUS
    <3>2. 1 \in DOMAIN entry /\ 2 \in DOMAIN entry /\ 3 \in DOMAIN entry
      BY <2>2
    <3> QED
      BY <2>2, <3>1, <3>2 DEF rewriteBLSEntry
  <2>4. result[1].of = t /\ result[3].of = rewriteOptionsLine(sample.of, t)
    BY <2>3 DEF EntryLine
  <2> QED
    BY <2>1, <2>3, <2>4, LineRewritten DEF entry
<1> QED
  BY <1>1, SamplesDrawn, PTL

-----------------------------------------------------------------------------
(***************************************************************************)
(* Digits: what the printed field consists of, and what it is worth.       *)
(***************************************************************************)
Digit == 0..9

LEMMA DigitTypes ==
  ASSUME NEW n \in Nat
  PROVE  /\ Thousands(n) \in Digit /\ Hundreds(n) \in Digit
         /\ Tens(n) \in Digit /\ Units(n) \in Digit
BY SMT DEF Thousands, Hundreds, Tens, Units, Digit

LEMMA FourDigits ==
  ASSUME NEW n \in Nat, n <= 9999
  PROVE  n = 1000 * Thousands(n) + 100 * Hundreds(n) + 10 * Tens(n) + Units(n)
BY SMT DEF Thousands, Hundreds, Tens, Units

LEMMA FiveDigits ==
  ASSUME NEW n \in Nat, n >= 10000, n <= 99999
  PROVE  LET m == n \div 10
         IN  /\ m \in Nat /\ m >= 1000 /\ m <= 9999 /\ n = 10 * m + Units(n)
             /\ n \div 10000 = Thousands(m) /\ Thousands(n) = Hundreds(m)
             /\ Hundreds(n) = Tens(m) /\ Tens(n) = Units(m)
BY SMT DEF Thousands, Hundreds, Tens, Units

\* The digits of a field, one by one.
Has4(f, a, b, c, d) ==
  /\ f \in Seq(Digit) /\ Len(f) = 4
  /\ f[1] = a /\ f[2] = b /\ f[3] = c /\ f[4] = d

Has5(f, a, b, c, d, e) ==
  /\ f \in Seq(Digit) /\ Len(f) = 5
  /\ f[1] = a /\ f[2] = b /\ f[3] = c /\ f[4] = d /\ f[5] = e

LEMMA FourLong ==
  ASSUME NEW a \in Digit, NEW b \in Digit, NEW c \in Digit, NEW d \in Digit
  PROVE  Has4(<<a, b, c, d>>, a, b, c, d)
BY SMT DEF Has4

LEMMA FiveLong ==
  ASSUME NEW a \in Digit, NEW b \in Digit, NEW c \in Digit, NEW d \in Digit,
         NEW e \in Digit
  PROVE  Has5(<<a>> \o <<b, c, d, e>>, a, b, c, d, e)
<1>1. <<a>> \in Seq(Digit) /\ <<b, c, d, e>> \in Seq(Digit)
  BY SMT
<1> QED
  BY <1>1, SMT DEF Has5

LEMMA ShortField ==
  ASSUME NEW n \in Nat, n <= 9999
  PROVE  Has4(Printed(n), Thousands(n), Hundreds(n), Tens(n), Units(n))
<1>1. Printed(n) = <<Thousands(n), Hundreds(n), Tens(n), Units(n)>>
  BY SMT DEF Printed, LastFour
<1> QED
  BY <1>1, DigitTypes, FourLong, SMT

LEMMA LongField ==
  ASSUME NEW n \in Nat, n >= 10000, n <= 99999
  PROVE  LET m == n \div 10
         IN  Has5(Printed(n), Thousands(m), Hundreds(m), Tens(m), Units(m), Units(n))
<1> DEFINE m == n \div 10
<1>1. Printed(n) = <<n \div 10000>> \o <<Thousands(n), Hundreds(n), Tens(n), Units(n)>>
  BY SMT DEF Printed, LastFour
<1>2. n \div 10000 = Thousands(m) /\ Thousands(n) = Hundreds(m)
             /\ Hundreds(n) = Tens(m) /\ Tens(n) = Units(m) /\ m \in Nat
  BY FiveDigits, SMT
<1> HIDE DEF m
<1>3. /\ Thousands(m) \in Digit /\ Hundreds(m) \in Digit /\ Tens(m) \in Digit
      /\ Units(m) \in Digit /\ Units(n) \in Digit
  BY <1>2, DigitTypes, SMT
<1>4. Printed(n) = <<Thousands(m)>> \o <<Hundreds(m), Tens(m), Units(m), Units(n)>>
  BY <1>1, <1>2, SMT
<1>5. Has5(Printed(n), Thousands(m), Hundreds(m), Tens(m), Units(m), Units(n))
  BY <1>3, <1>4, FiveLong, SMT
<1> QED
  BY <1>5 DEF m

LEMMA FourInBase ==
  ASSUME NEW f, NEW a \in Digit, NEW b \in Digit, NEW c \in Digit, NEW d \in Digit,
         NEW base \in Nat, Has4(f, a, b, c, d)
  PROVE  /\ InBase(base, f) = Horner(base, a, b, c, d)
         /\ Head(f) = a
         /\ (\E i \in DOMAIN f : f[i] > 7) <=> a > 7 \/ b > 7 \/ c > 7 \/ d > 7
<1>1. /\ Len(f) = 4 /\ DOMAIN f = 1..4 /\ Head(f) = a
      /\ f[1] = a /\ f[2] = b /\ f[3] = c /\ f[4] = d
  BY SMT DEF Has4
<1>2. InBase(base, f) = Horner(base, a, b, c, d)
  BY <1>1, SMT DEF InBase
<1>3. (\E i \in DOMAIN f : f[i] > 7) <=> a > 7 \/ b > 7 \/ c > 7 \/ d > 7
  BY <1>1, SMT
<1> QED
  BY <1>1, <1>2, <1>3

LEMMA FiveInBase ==
  ASSUME NEW f, NEW a \in Digit, NEW b \in Digit, NEW c \in Digit, NEW d \in Digit,
         NEW e \in Digit, NEW base \in Nat, Has5(f, a, b, c, d, e)
  PROVE  InBase(base, f) = Horner(base, a * base + b, c, d, e) /\ Head(f) = a
BY SMT DEF Has5, InBase

LEMMA SmallRead ==
  ASSUME NEW n \in Nat, n <= 999
  PROVE  /\ Thousands(n) = 0
         /\ ShellValue(n) = IF Hundreds(n) > 7 \/ Tens(n) > 7 \/ Units(n) > 7 THEN Illegal
                            ELSE 64 * Hundreds(n) + 8 * Tens(n) + Units(n)
<1>1. /\ Thousands(n) = 0 /\ Hundreds(n) = n \div 100
      /\ Tens(n) = (n \div 10) % 10 /\ Units(n) = n % 10
  BY SMT DEF Thousands, Hundreds, Tens, Units
<1>2. \A h, t, u \in Digit : (h < 8 /\ t < 8 /\ u < 8) <=> ~(h > 7 \/ t > 7 \/ u > 7)
  BY SMT DEF Digit
<1>3. (Hundreds(n) < 8 /\ Tens(n) < 8 /\ Units(n) < 8)
        <=> ~(Hundreds(n) > 7 \/ Tens(n) > 7 \/ Units(n) > 7)
  BY <1>2, DigitTypes
<1>4. ~(n >= 1000)
  BY SMT
<1>5. ShellValue(n) = IF Hundreds(n) < 8 /\ Tens(n) < 8 /\ Units(n) < 8
                      THEN 64 * Hundreds(n) + 8 * Tens(n) + Units(n) ELSE Illegal
  BY <1>1, <1>4, SMT DEF ShellValue
<1> QED
  BY <1>1, <1>3, <1>5

LEMMA ReadsOctal ==
  ASSUME NEW n \in Nat, n <= 999
  PROVE  Head(Printed(n)) = 0
         /\ ShellValue(n) = IF \E i \in DOMAIN Printed(n) : Printed(n)[i] > 7 THEN Illegal
                            ELSE InBase(8, Printed(n))
<1> DEFINE f == Printed(n)
<1>1. Has4(f, Thousands(n), Hundreds(n), Tens(n), Units(n))
  BY ShortField, SMT
<1>2. /\ Thousands(n) \in Digit /\ Hundreds(n) \in Digit
      /\ Tens(n) \in Digit /\ Units(n) \in Digit
  BY DigitTypes
<1> HIDE DEF f
<1>3. /\ InBase(8, f) = Horner(8, Thousands(n), Hundreds(n), Tens(n), Units(n))
      /\ Head(f) = Thousands(n)
      /\ (\E i \in DOMAIN f : f[i] > 7) <=>
           Thousands(n) > 7 \/ Hundreds(n) > 7 \/ Tens(n) > 7 \/ Units(n) > 7
  BY <1>1, <1>2, FourInBase, SMT
<1>4. Thousands(n) = 0
  BY SmallRead
<1>5. Horner(8, 0, Hundreds(n), Tens(n), Units(n)) = 64 * Hundreds(n) + 8 * Tens(n) + Units(n)
  BY <1>2, SMT DEF Horner, Digit
<1>6. 0 > 7 <=> FALSE
  BY SMT
<1> QED
  BY <1>3, <1>4, <1>5, <1>6, SmallRead DEF f

LEMMA ReadsDecimal ==
  ASSUME NEW n \in Nat, n >= 1000, n <= 99999
  PROVE  Head(Printed(n)) # 0 /\ InBase(10, Printed(n)) = n
<1>1. CASE n <= 9999
  <2>1. Has4(Printed(n), Thousands(n), Hundreds(n), Tens(n), Units(n))
    BY <1>1, ShortField, SMT
  <2>2. /\ Thousands(n) \in Digit /\ Hundreds(n) \in Digit
        /\ Tens(n) \in Digit /\ Units(n) \in Digit
    BY DigitTypes
  <2>3. InBase(10, Printed(n)) = Horner(10, Thousands(n), Hundreds(n), Tens(n), Units(n))
        /\ Head(Printed(n)) = Thousands(n)
    BY <2>1, <2>2, FourInBase, SMT
  <2>4. n = 1000 * Thousands(n) + 100 * Hundreds(n) + 10 * Tens(n) + Units(n)
    BY <1>1, FourDigits, SMT
  <2>5. Horner(10, Thousands(n), Hundreds(n), Tens(n), Units(n)) = n /\ Thousands(n) # 0
    BY <2>2, <2>4, SMT DEF Horner, Digit
  <2> QED
    BY <2>3, <2>5, SMT
<1>2. CASE n >= 10000
  <2> DEFINE m == n \div 10
  <2>1. Has5(Printed(n), Thousands(m), Hundreds(m), Tens(m), Units(m), Units(n))
    BY <1>2, LongField, SMT
  <2>2. m \in Nat /\ m >= 1000 /\ m <= 9999 /\ n = 10 * m + Units(n)
    BY <1>2, FiveDigits, SMT
  <2> HIDE DEF m
  <2>3. /\ Thousands(m) \in Digit /\ Hundreds(m) \in Digit /\ Tens(m) \in Digit
        /\ Units(m) \in Digit /\ Units(n) \in Digit
    BY <2>2, DigitTypes, SMT
  <2>4. InBase(10, Printed(n))
          = Horner(10, Thousands(m) * 10 + Hundreds(m), Tens(m), Units(m), Units(n))
        /\ Head(Printed(n)) = Thousands(m)
    BY <2>1, <2>3, FiveInBase, SMT
  <2>5. m = 1000 * Thousands(m) + 100 * Hundreds(m) + 10 * Tens(m) + Units(m)
    BY <2>2, FourDigits, SMT
  <2>6. /\ Horner(10, Thousands(m) * 10 + Hundreds(m), Tens(m), Units(m), Units(n)) = n
        /\ Thousands(m) # 0
    BY <2>2, <2>3, <2>5, SMT DEF Horner, Digit
  <2> QED
    BY <2>4, <2>6, SMT
<1> QED
  BY <1>1, <1>2, SMT

(***************************************************************************)
(* Every number drawn prints in four digits or five.                       *)
(***************************************************************************)
RangeInv == first <= 99999 /\ second <= 99999

LEMMA RangeDrawn == LawsSpec => []RangeInv
<1>1. \A n \in Samples : n <= 99999
  BY SamplesAssumption, SMT
<1>2. Blank <= 99999
  BY SMT DEF Blank
<1>3. LawsInit => RangeInv
  BY <1>1, <1>2, SMT DEF LawsInit, Init, RangeInv
<1>4. RangeInv /\ [LawsNext]_<<first, second, sample>> => RangeInv'
  BY <1>1, SMT DEF LawsNext, Next, RangeInv
<1> QED
  BY <1>3, <1>4, PTL DEF LawsSpec

(***************************************************************************)
(* The shell reads a printed field in base eight when it starts with a     *)
(* zero, and not at all if one of its digits is then too large, for every  *)
(* number below a hundred thousand (`$(( ))' in next_seq).                 *)
(***************************************************************************)
THEOREM ShellLaw == LawsSpec => []ShellReadsOctal
<1>1. ASSUME NumbersInv, RangeInv PROVE ShellReadsOctal
  <2>1. first \in Nat /\ first <= 99999
    BY <1>1, SMT DEF NumbersInv, RangeInv
  <2>2. CASE first <= 999
    <3>1. /\ Head(Printed(first)) = 0
          /\ ShellValue(first) =
               IF \E i \in DOMAIN Printed(first) : Printed(first)[i] > 7 THEN Illegal
               ELSE InBase(8, Printed(first))
      BY <2>1, <2>2, ReadsOctal, SMT
    <3> QED
      BY <3>1, Zenon DEF ShellReadsOctal
  <2>3. CASE first >= 1000
    <3>1. Head(Printed(first)) # 0 /\ InBase(10, Printed(first)) = first
      BY <2>1, <2>3, ReadsDecimal, SMT
    <3>2. ShellValue(first) = first
      BY <2>1, <2>3, SMT DEF ShellValue
    <3> QED
      BY <3>1, <3>2, SMT DEF ShellReadsOctal
  <2> QED
    BY <2>1, <2>2, <2>3, SMT
<1> QED
  BY <1>1, NumbersDrawn, RangeDrawn, PTL

(***************************************************************************)
(* Order: four digits compare as the number they print, a field as text by *)
(* its first difference.                                                   *)
(***************************************************************************)
\* The text of a field starts with the four digits of m.
Starts(f, m) ==
  f[1] = Thousands(m) /\ f[2] = Hundreds(m) /\ f[3] = Tens(m) /\ f[4] = Units(m)

LEMMA Terminated ==
  ASSUME NEW s \in Seq(Digit), NEW k \in Nat, Len(s) = k
  PROVE  DOMAIN Append(s, Dot) = 1..(k + 1) /\ Append(s, Dot)[k + 1] = Dot
         /\ \A i \in 1..k : Append(s, Dot)[i] = s[i]
<1>1. s \in Seq(Int) /\ Dot \in Int
  BY SMT DEF Digit, Dot
<1> QED
  BY <1>1, SMT

LEMMA FieldOf ==
  ASSUME NEW n \in Nat, n # Blank, n <= 99999
  PROVE  LET f == Field(n)
         IN  /\ Starts(f, Head4(n)) /\ Head4(n) \in Nat /\ Head4(n) <= 9999
             /\ n <= 9999 => DOMAIN f = 1..5 /\ f[5] = Dot /\ Head4(n) = n
             /\ n >= 10000 => /\ DOMAIN f = 1..6 /\ f[5] = Units(n) /\ f[6] = Dot
                              /\ Head4(n) >= 1000 /\ n = 10 * Head4(n) + Units(n)
<1>1. CASE n <= 9999
  <2>1. Head4(n) = n /\ Field(n) = Append(Printed(n), Dot)
    BY <1>1, SMT DEF Head4, Field
  <2>2. Has4(Printed(n), Thousands(n), Hundreds(n), Tens(n), Units(n))
    BY <1>1, ShortField, SMT
  <2>3. /\ DOMAIN Field(n) = 1..5 /\ Field(n)[5] = Dot
        /\ \A i \in 1..4 : Field(n)[i] = Printed(n)[i]
    <3>1. 4 + 1 = 5 /\ 4 \in Nat
      BY SMT
    <3> QED
      BY <2>1, <2>2, <3>1, Terminated DEF Has4
  <2>4. Starts(Field(n), n)
    BY <2>2, <2>3, SMT DEF Starts, Has4
  <2> QED
    BY <1>1, <2>1, <2>3, <2>4, SMT
<1>2. CASE n >= 10000
  <2> DEFINE m == n \div 10
  <2>1. m \in Nat /\ m >= 1000 /\ m <= 9999 /\ n = 10 * m + Units(n)
    BY <1>2, FiveDigits, SMT
  <2>2. Has5(Printed(n), Thousands(m), Hundreds(m), Tens(m), Units(m), Units(n))
    BY <1>2, LongField, SMT
  <2>3. Head4(n) = m /\ Field(n) = Append(Printed(n), Dot)
    BY <1>2, SMT DEF Head4, Field
  <2> HIDE DEF m
  <2>4. /\ DOMAIN Field(n) = 1..6 /\ Field(n)[6] = Dot
        /\ \A i \in 1..5 : Field(n)[i] = Printed(n)[i]
    <3>1. 5 + 1 = 6 /\ 5 \in Nat
      BY SMT
    <3> QED
      BY <2>2, <2>3, <3>1, Terminated DEF Has5
  <2>5. Starts(Field(n), m) /\ Field(n)[5] = Units(n)
    BY <2>2, <2>4, SMT DEF Starts, Has5
  <2> QED
    BY <1>2, <2>1, <2>3, <2>4, <2>5, SMT
<1> QED
  BY <1>1, <1>2, SMT

LexLess(a, b, c, d, p, q, r, s) ==
  \/ a < p
  \/ a = p /\ b < q
  \/ a = p /\ b = q /\ c < r
  \/ a = p /\ b = q /\ c = r /\ d < s

LexSame(a, b, c, d, p, q, r, s) == a = p /\ b = q /\ c = r /\ d = s

Decimal(a, b, c, d) == Horner(10, a, b, c, d)

LEMMA Lexicographic ==
  ASSUME NEW a \in Digit, NEW b \in Digit, NEW c \in Digit, NEW d \in Digit,
         NEW p \in Digit, NEW q \in Digit, NEW r \in Digit, NEW s \in Digit
  PROVE  /\ (Decimal(a, b, c, d) < Decimal(p, q, r, s)) <=> LexLess(a, b, c, d, p, q, r, s)
         /\ (Decimal(a, b, c, d) = Decimal(p, q, r, s)) <=> LexSame(a, b, c, d, p, q, r, s)
BY SMT DEF Digit, Horner, Decimal, LexLess, LexSame

ValueOf(n) == Decimal(Thousands(n), Hundreds(n), Tens(n), Units(n))

SameDigits(m, k) ==
  LexSame(Thousands(m), Hundreds(m), Tens(m), Units(m),
          Thousands(k), Hundreds(k), Tens(k), Units(k))

DigitsLess(m, k) ==
  LexLess(Thousands(m), Hundreds(m), Tens(m), Units(m),
          Thousands(k), Hundreds(k), Tens(k), Units(k))

LEMMA ValueOrder ==
  ASSUME NEW m \in Nat, NEW k \in Nat
  PROVE  /\ (ValueOf(m) < ValueOf(k)) <=> DigitsLess(m, k)
         /\ (ValueOf(m) = ValueOf(k)) <=> SameDigits(m, k)
<1>3. /\ Thousands(m) \in Digit /\ Hundreds(m) \in Digit /\ Tens(m) \in Digit /\ Units(m) \in Digit
      /\ Thousands(k) \in Digit /\ Hundreds(k) \in Digit /\ Tens(k) \in Digit /\ Units(k) \in Digit
  BY DigitTypes
<1>4. (ValueOf(m) < ValueOf(k)) <=> DigitsLess(m, k)
  BY <1>3, Lexicographic, Zenon DEF DigitsLess, ValueOf
<1>5. (ValueOf(m) = ValueOf(k)) <=> SameDigits(m, k)
  BY <1>3, Lexicographic, Zenon DEF SameDigits, ValueOf
<1> QED
  BY <1>4, <1>5

LEMMA FourCharacters ==
  ASSUME NEW m \in Nat, m <= 9999, NEW k \in Nat, k <= 9999
  PROVE  (m < k <=> DigitsLess(m, k)) /\ (m = k <=> SameDigits(m, k))
<1>1. \A n \in Nat : n <= 9999 => n = ValueOf(n)
  BY FourDigits, DigitTypes, SMT DEF Horner, Digit, ValueOf, Decimal
<1>2. m = ValueOf(m) /\ k = ValueOf(k)
  BY <1>1, SMT
<1> QED
  BY <1>2, ValueOrder, SMT

TextRule(s, t, k, l) ==
  TextLess(s, t) <=>
    \/ LexLess(s[1], s[2], s[3], s[4], t[1], t[2], t[3], t[4])
    \/ /\ LexSame(s[1], s[2], s[3], s[4], t[1], t[2], t[3], t[4])
       /\ s[5] < t[5] \/ (s[5] = t[5] /\ k = 6 /\ l = 6 /\ s[6] < t[6])

Long(s, k) == DOMAIN s = 1..k

LEMMA TextOrder ==
  ASSUME NEW s, NEW t, NEW k \in {5, 6}, NEW l \in {5, 6}, Long(s, k), Long(t, l)
  PROVE  TextRule(s, t, k, l)
<1> SUFFICES TextLess(s, t) <=>
      \/ s[1] < t[1]
      \/ s[1] = t[1] /\ s[2] < t[2]
      \/ s[1] = t[1] /\ s[2] = t[2] /\ s[3] < t[3]
      \/ s[1] = t[1] /\ s[2] = t[2] /\ s[3] = t[3] /\ s[4] < t[4]
      \/ s[1] = t[1] /\ s[2] = t[2] /\ s[3] = t[3] /\ s[4] = t[4] /\ s[5] < t[5]
      \/ /\ s[1] = t[1] /\ s[2] = t[2] /\ s[3] = t[3] /\ s[4] = t[4] /\ s[5] = t[5]
         /\ k = 6 /\ l = 6 /\ s[6] < t[6]
  BY Zenon DEF TextRule, LexLess, LexSame
<1> DEFINE Same(i) == \A j \in 1..(i - 1) : s[j] = t[j]
<1>1. Same(1) /\ (Same(2) <=> s[1] = t[1]) /\ (Same(3) <=> Same(2) /\ s[2] = t[2])
      /\ (Same(4) <=> Same(3) /\ s[3] = t[3]) /\ (Same(5) <=> Same(4) /\ s[4] = t[4])
      /\ (Same(6) <=> Same(5) /\ s[5] = t[5])
  BY SMT
<1>2. TextLess(s, t) <=> \E i \in DOMAIN s \cap DOMAIN t : s[i] < t[i] /\ Same(i)
  BY Zenon DEF TextLess
<1> HIDE DEF Same
<1>3. \A i : i \in DOMAIN s \cap DOMAIN t <=>
         i = 1 \/ i = 2 \/ i = 3 \/ i = 4 \/ i = 5 \/ (i = 6 /\ k = 6 /\ l = 6)
  BY SMT DEF Long
<1>4. TextLess(s, t) <=>
        \/ s[1] < t[1] /\ Same(1)
        \/ s[2] < t[2] /\ Same(2)
        \/ s[3] < t[3] /\ Same(3)
        \/ s[4] < t[4] /\ Same(4)
        \/ s[5] < t[5] /\ Same(5)
        \/ k = 6 /\ l = 6 /\ s[6] < t[6] /\ Same(6)
  BY <1>2, <1>3
<1> QED
  BY <1>1, <1>4

LEMMA SameStart ==
  ASSUME NEW f, NEW g, NEW m, NEW k, Starts(f, m), Starts(g, k)
  PROVE  /\ LexSame(f[1], f[2], f[3], f[4], g[1], g[2], g[3], g[4]) <=> SameDigits(m, k)
         /\ LexLess(f[1], f[2], f[3], f[4], g[1], g[2], g[3], g[4]) <=> DigitsLess(m, k)
BY Zenon DEF Starts, SameDigits, DigitsLess

LEMMA NamesCompared ==
  ASSUME NEW a \in Nat, a # Blank, a <= 99999, NEW b \in Nat, b # Blank, b <= 99999
  PROVE  NameLess(a, b) <=> TextLess(Field(a), Field(b))
<1> DEFINE s == Field(a)
           t == Field(b)
           m == Head4(a)
           k == Head4(b)
           la == IF a <= 9999 THEN 5 ELSE 6
           lb == IF b <= 9999 THEN 5 ELSE 6
<1>1. /\ Starts(s, m) /\ m \in Nat /\ m <= 9999
      /\ a <= 9999 => DOMAIN s = 1..5 /\ s[5] = Dot /\ m = a
      /\ a >= 10000 => DOMAIN s = 1..6 /\ s[5] = Units(a) /\ s[6] = Dot
                       /\ m >= 1000 /\ a = 10 * m + Units(a)
  BY FieldOf, SMT
<1>2. /\ Starts(t, k) /\ k \in Nat /\ k <= 9999
      /\ b <= 9999 => DOMAIN t = 1..5 /\ t[5] = Dot /\ k = b
      /\ b >= 10000 => DOMAIN t = 1..6 /\ t[5] = Units(b) /\ t[6] = Dot
                       /\ k >= 1000 /\ b = 10 * k + Units(b)
  BY FieldOf, SMT
<1>3. NameLess(a, b) <=> m < k \/ (m = k /\ a < b)
  BY SMT DEF NameLess
<1> HIDE DEF s, t, m, k
<1>4. (m < k <=> DigitsLess(m, k)) /\ (m = k <=> SameDigits(m, k))
  BY <1>1, <1>2, FourCharacters, SMT
<1>5. DOMAIN s = 1..la /\ DOMAIN t = 1..lb /\ la \in {5, 6} /\ lb \in {5, 6}
  <2>1. la \in {5, 6} /\ lb \in {5, 6}
    BY SMT
  <2>2. DOMAIN s = 1..la
    <3>1. CASE a <= 9999
      BY <1>1, <3>1, SMT
    <3>2. CASE a >= 10000
      <4>1. la = 6
        BY <3>2, SMT
      <4> QED
        BY <1>1, <3>2, <4>1, SMT
    <3> QED
      BY <3>1, <3>2, SMT
  <2>3. DOMAIN t = 1..lb
    <3>1. CASE b <= 9999
      BY <1>2, <3>1, SMT
    <3>2. CASE b >= 10000
      <4>1. lb = 6
        BY <3>2, SMT
      <4> QED
        BY <1>2, <3>2, <4>1, SMT
    <3> QED
      BY <3>1, <3>2, SMT
  <2> QED
    BY <2>1, <2>2, <2>3
<1>6. TextLess(s, t) <=>
        \/ LexLess(s[1], s[2], s[3], s[4], t[1], t[2], t[3], t[4])
        \/ /\ LexSame(s[1], s[2], s[3], s[4], t[1], t[2], t[3], t[4])
           /\ s[5] < t[5] \/ (s[5] = t[5] /\ la = 6 /\ lb = 6 /\ s[6] < t[6])
  <2> HIDE DEF la, lb
  <2> QED
    <3>1. Long(s, la) /\ Long(t, lb)
      BY <1>5, SMT DEF Long
    <3>2. TextRule(s, t, la, lb)
      BY <1>5, <3>1, TextOrder, SMT
    <3> QED
      BY <3>2, SMT DEF TextRule
<1>7. TextLess(s, t) <=>
        \/ m < k
        \/ m = k /\ (s[5] < t[5] \/ (s[5] = t[5] /\ la = 6 /\ lb = 6 /\ s[6] < t[6]))
  BY <1>1, <1>2, <1>4, <1>6, SameStart, SMT
<1>8. m = k => (a < b <=> s[5] < t[5] \/ (s[5] = t[5] /\ la = 6 /\ lb = 6 /\ s[6] < t[6]))
  <2>1. Units(a) \in 0..9 /\ Units(b) \in 0..9
    BY DigitTypes, SMT DEF Digit
  <2>2. CASE a <= 9999 /\ b <= 9999
    BY <2>1, <2>2, <1>1, <1>2, SMT DEF Dot
  <2>3. CASE a <= 9999 /\ b >= 10000
    BY <2>1, <2>3, <1>1, <1>2, SMT DEF Dot
  <2>4. CASE a >= 10000 /\ b <= 9999
    BY <2>1, <2>4, <1>1, <1>2, SMT DEF Dot
  <2>5. CASE a >= 10000 /\ b >= 10000
    BY <2>1, <2>5, <1>1, <1>2, SMT DEF Dot
  <2> QED
    BY <2>2, <2>3, <2>4, <2>5, SMT
<1>9. NameLess(a, b) <=> TextLess(s, t)
  BY <1>3, <1>7, <1>8, SMT
<1> QED
  BY <1>9, SMT DEF s, t

LEMMA OneCharacter ==
  ASSUME NEW s, NEW t, DOMAIN s = {1} \/ DOMAIN t = {1}
  PROVE  TextLess(s, t) <=> 1 \in DOMAIN s /\ 1 \in DOMAIN t /\ s[1] < t[1]
<1>1. \A j \in 1..(1 - 1) : s[j] = t[j]
  BY SMT
<1>2. \A i : i \in DOMAIN s \cap DOMAIN t => i = 1
  BY SMT
<1> QED
  BY <1>1, <1>2, Zenon DEF TextLess

LEMMA BlankFirst ==
  ASSUME NEW a \in Nat, a <= 99999, NEW b \in Nat, b <= 99999, a = Blank \/ b = Blank
  PROVE  NameLess(a, b) <=> TextLess(Field(a), Field(b))
<1>1. DOMAIN Field(Blank) = {1} /\ Field(Blank)[1] = Dot /\ Dot = -1
  <2>1. Field(Blank) = <<Dot>>
    BY SMT DEF Field
  <2>2. DOMAIN <<Dot>> = {1} /\ <<Dot>>[1] = Dot
    BY SMT
  <2> QED
    BY <2>1, <2>2, SMT DEF Dot
<1>2. \A n \in Nat : n # Blank /\ n <= 99999 =>
        1 \in DOMAIN Field(n) /\ Field(n)[1] \in Digit /\ Head4(n) \in Nat /\ Head4(n) > 0
  <2> SUFFICES ASSUME NEW n \in Nat, n # Blank, n <= 99999
               PROVE  1 \in DOMAIN Field(n) /\ Field(n)[1] \in Digit
                      /\ Head4(n) \in Nat /\ Head4(n) > 0
    BY SMT
  <2>1. Starts(Field(n), Head4(n)) /\ Head4(n) \in Nat
    BY FieldOf, SMT
  <2>2. Field(n)[1] \in Digit
    BY <2>1, DigitTypes, SMT DEF Starts
  <2>3. CASE n <= 9999
    BY <2>1, <2>2, <2>3, FieldOf, SMT DEF Blank
  <2>4. CASE n >= 10000
    BY <2>1, <2>2, <2>4, FieldOf, SMT
  <2> QED
    BY <2>3, <2>4, SMT
<1>4. TextLess(Field(a), Field(b)) <=>
        1 \in DOMAIN Field(a) /\ 1 \in DOMAIN Field(b) /\ Field(a)[1] < Field(b)[1]
  BY <1>1, OneCharacter, SMT
<1>5. CASE a = Blank /\ b = Blank
  BY <1>1, <1>4, <1>5, SMT DEF NameLess, Head4, Blank
<1>6. CASE a = Blank /\ b # Blank
  <2>1. Head4(a) = 0
    BY <1>6, SMT DEF Head4, Blank
  <2> QED
    BY <1>1, <1>2, <1>4, <1>6, <2>1, SMT DEF NameLess, Digit
<1>7. CASE a # Blank /\ b = Blank
  <2>1. Head4(b) = 0
    BY <1>7, SMT DEF Head4, Blank
  <2> QED
    BY <1>1, <1>2, <1>4, <1>7, <2>1, SMT DEF NameLess, Digit
<1> QED
  BY <1>5, <1>6, <1>7, SMT

(***************************************************************************)
(* The order NameLess gives two checkpoints is that of the text of their   *)
(* names, for every two numbers below a hundred thousand and the name      *)
(* without one (`ls | sort' in prune_auto).                                *)
(***************************************************************************)
THEOREM NamesLaw == LawsSpec => []NamesSortAsText
<1>1. ASSUME NumbersInv, RangeInv PROVE NamesSortAsText
  <2>1. first \in Nat /\ second \in Nat /\ first <= 99999 /\ second <= 99999
    BY <1>1, SMT DEF NumbersInv, RangeInv
  <2>2. CASE first = Blank \/ second = Blank
    BY <2>1, <2>2, BlankFirst, SMT DEF NamesSortAsText
  <2>3. CASE first # Blank /\ second # Blank
    BY <2>1, <2>3, NamesCompared, SMT DEF NamesSortAsText
  <2> QED
    BY <2>2, <2>3, Zenon
<1> QED
  BY <1>1, NumbersDrawn, RangeDrawn, PTL
=============================================================================
