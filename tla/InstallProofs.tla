--------------------------- MODULE InstallProofs ---------------------------
(***************************************************************************)
(* Machine-checked proofs about Install, for any names, any devices and    *)
(* any mounts.                                                             *)
(***************************************************************************)
EXTENDS Install, TLAPS

(***************************************************************************)
(* What the looks at the mount table rest on: names show what they share.  *)
(* A device that shares an extent with the source of a mount has a name    *)
(* the source's begins with, the root's own or that of its disk, and a     *)
(* file shares none.                                                       *)
(***************************************************************************)
NamesShow ==
  \A p \in Path, m \in Mount :
    Holds[p] \cap Holds[m.source] # {} =>
      /\ p \in Device /\ IsPrefix(p, m.source)
      /\ m.where = "/" => p \in {m.source, stripPartitionSuffix(m.source)}

Looked  == {"root", "confirm", "direct", "buffered"}
Writing == {"direct", "buffered"}

SeenInv ==
  /\ target \in Path
  /\ mounts \subseteq Mount /\ seen \subseteq Mount
  /\ pc = "start" => seen = {}
  /\ pc \in Looked => \A m \in seen : Holds[target] \cap Holds[m.source] = {}

-----------------------------------------------------------------------------
(***************************************************************************)
(* Type correctness, for every choice of the constants.                    *)
(***************************************************************************)
THEOREM TypeCorrect == Spec => []TypeOK
<1>1. Init => TypeOK
  BY DEF Init, TypeOK
<1>2. TypeOK /\ [Next]_vars => TypeOK'
  <2> SUFFICES ASSUME TypeOK, [Next]_vars PROVE TypeOK'
    OBVIOUS
  <2>1. ASSUME NEW what \in {"old", "part", "image"}, Fill(what)
        PROVE  disk' \in [Extent -> {"old", "part", "image"}]
    BY <2>1 DEF TypeOK, Fill
  <2>2. CASE Look \/ Answer
    BY <2>2 DEF Look, NoImage, TargetIsFile, LookForMounts, LookForRoot, Answer, Tables,
                Roots, TypeOK, Ended
  <2>3. CASE WriteDirect \/ WriteBuffered
    BY <2>1, <2>3 DEF WriteDirect, WriteBuffered, TypeOK, Ended
  <2>4. CASE Interrupt
    BY <2>1, <2>4 DEF Interrupt, TypeOK, Ended
  <2>5. CASE Again \/ MountsChange \/ UNCHANGED vars
    BY <2>5 DEF Again, MountsChange, vars, TypeOK, Ended
  <2> QED
    BY <2>2, <2>3, <2>4, <2>5 DEF Next, Write
<1> QED
  BY <1>1, <1>2, PTL DEF Spec

(***************************************************************************)
(* A run past a look at the mount table has a target that shares nothing   *)
(* with what the look showed it.                                           *)
(***************************************************************************)
LEMMA SeenIsElsewhere == ASSUME NamesShow PROVE Spec => []SeenInv
<1>1. Init => SeenInv
  BY DEF Init, SeenInv, Writing
<1>2. SeenInv /\ [Next]_vars => SeenInv'
  <2> SUFFICES ASSUME SeenInv, [Next]_vars PROVE SeenInv'
    OBVIOUS
  <2>1. CASE LookForMounts
    <3>1. PICK table \in Tables :
            \/ pc' = "refused" /\ UNCHANGED seen
            \/ ~isMounted(target, table) /\ pc' = "root" /\ seen' = table
      BY <2>1 DEF LookForMounts
    <3>2. table \subseteq Mount
      BY DEF SeenInv, Tables
    <3>3. ~isMounted(target, table) =>
            \A m \in table : Holds[target] \cap Holds[m.source] = {}
      BY <3>2, NamesShow DEF isMounted, SeenInv, NamesShow
    <3> QED
      BY <2>1, <3>1, <3>2, <3>3 DEF LookForMounts, SeenInv, Looked
  <2>2. CASE LookForRoot
    <3>1. PICK table \in Tables :
            \/ pc' = "refused" /\ UNCHANGED seen
            \/ /\ ~isRootDevice(target, table) /\ pc' \in {"confirm", "direct"}
               /\ seen' = seen \cup Roots(table)
      BY <2>2 DEF LookForRoot
    <3>2. Roots(table) \subseteq Mount
      BY DEF SeenInv, Tables, Roots
    <3>3. ~isRootDevice(target, table) =>
            \A m \in Roots(table) : Holds[target] \cap Holds[m.source] = {}
      BY <3>2, NamesShow DEF isRootDevice, Roots, SeenInv, NamesShow
    <3> QED
      BY <2>2, <3>1, <3>2, <3>3 DEF LookForRoot, SeenInv, Looked
  <2>3. CASE NoImage \/ TargetIsFile \/ Answer \/ Write \/ Interrupt \/ Again
    BY <2>3 DEF NoImage, TargetIsFile, Answer, Write, WriteDirect, WriteBuffered,
                Interrupt, Again, SeenInv, Looked, Ended
  <2>5. CASE MountsChange
    BY <2>5 DEF MountsChange, SeenInv
  <2>6. CASE UNCHANGED vars
    BY <2>6 DEF vars, SeenInv
  <2> QED
    BY <2>1, <2>2, <2>3, <2>5, <2>6 DEF Next, Look
<1> QED
  BY <1>1, <1>2, PTL DEF Spec

(***************************************************************************)
(* If names show what devices share, nothing a look showed mounted is      *)
(* written over (isMounted, isRootDevice).                                 *)
(***************************************************************************)
THEOREM MountedSpared == ASSUME NamesShow PROVE Spec => MountedIsSpared
<1> DEFINE Spares == \A x \in Extent : disk'[x] # disk[x] =>
                       \A m \in seen : x \notin Holds[m.source]
<1>1. TypeOK /\ SeenInv /\ [Next]_vars => [Spares]_vars
  <2> SUFFICES ASSUME TypeOK, SeenInv, [Next]_vars, NEW x \in Extent,
                      disk'[x] # disk[x], NEW m \in seen
               PROVE  x \notin Holds[m.source]
    BY DEF vars
  <2>1. ASSUME NEW what, Fill(what) PROVE x \in Holds[target]
    BY <2>1 DEF Fill
  <2>2. pc \in Writing /\ x \in Holds[target]
    BY <2>1 DEF Next, Look, NoImage, TargetIsFile, LookForMounts, LookForRoot, Answer,
                Write, WriteDirect, WriteBuffered, Interrupt, Again, MountsChange, vars, Writing
  <2> QED
    BY <2>2 DEF SeenInv, Looked, Writing
<1> QED
  BY <1>1, TypeCorrect, SeenIsElsewhere, PTL DEF Spec, MountedIsSpared

(***************************************************************************)
(* A run that ends well has written the whole image, whatever became of    *)
(* the first dd or of earlier runs (Run's second dd).                      *)
(***************************************************************************)
THEOREM DoneWhole == Spec => []DoneIsWhole
<1>1. Init => DoneIsWhole
  BY DEF Init, DoneIsWhole
<1>2. TypeOK /\ DoneIsWhole /\ [Next]_vars => DoneIsWhole'
  <2> SUFFICES ASSUME TypeOK, DoneIsWhole, [Next]_vars PROVE DoneIsWhole'
    OBVIOUS
  <2>1. ASSUME Fill("image"), UNCHANGED target PROVE DoneIsWhole'
    BY <2>1 DEF Fill, DoneIsWhole, TypeOK, Extent
  <2>2. CASE WriteDirect \/ WriteBuffered
    BY <2>1, <2>2 DEF WriteDirect, WriteBuffered, DoneIsWhole
  <2>3. CASE Look \/ Answer \/ Interrupt \/ Again
    BY <2>3 DEF Look, NoImage, TargetIsFile, LookForMounts, LookForRoot, Answer, Interrupt,
                Again, DoneIsWhole
  <2>4. CASE MountsChange \/ UNCHANGED vars
    BY <2>4 DEF MountsChange, vars, DoneIsWhole
  <2> QED
    BY <2>2, <2>3, <2>4 DEF Next, Write
<1> QED
  BY <1>1, <1>2, TypeCorrect, PTL DEF Spec
=============================================================================
