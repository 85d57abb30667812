----------------------------- MODULE BootProofs -----------------------------
(***************************************************************************)
(* Machine-checked proofs about the checkpoints of Machine and about what  *)
(* a boot hands over, for every set of slates, every configuration and     *)
(* every choice of what may fail.  What depends on how the hook computes   *)
(* with numbers says up to which number it holds.                          *)
(***************************************************************************)
EXTENDS MachineProofs, CheckpointNamesProofs

(***************************************************************************)
(* The root of a running boot stays.                                       *)
(***************************************************************************)
LEMMA SameTarget == ASSUME [Next]_vars, pc # "off", pc' # "off" PROVE cmdline' = cmdline
<1> USE DEF hookVars, fsVars, diskVars
<1>1. CASE BootAny
  BY <1>1 DEF BootAny, BootScratch, BootRescue, BootSlate, PowerOn
<1>2. CASE HookStep
  BY <1>2 DEF HookStep, Mount, MountFails, SlateExists, CreateSlate, NothingStaged,
     DropStaged, PreCheckpoint, PreCheckpointFails, Unstage, RemoveSlate,
     RestoreSlate, TakeCheckpoint, CheckpointFails, AutoCheckpointOff, PruneAuto,
     ClearScratch, CopyBasis, WriteFacts
<1>3. CASE EditSlate \/ EditScratch \/ Configure \/ PowerOff \/ UNCHANGED vars
  BY <1>3 DEF EditSlate, EditScratch, Configure, PowerOff, vars
<1>4. CASE RunCommand
  BY <1>4 DEF RunCommand, Command, CreateCheckpoint, Rollback, Reset, StagePending,
     Fork, ForkTop, Discard, DiscardStopsEarly
<1> QED
  BY <1>1, <1>2, <1>3, <1>4 DEF Next

(***************************************************************************)
(* Checkpoints are made one at a time, under a name that was free.         *)
(***************************************************************************)
LEMMA HookCheckpoints ==
  ASSUME HookStep
  PROVE  \/ /\ pc = "pending" /\ pc' = "unstage"
            /\ \E n \in PreName(Target) : SnapshotTo(Target, n)
         \/ /\ pc = "checkpoint" /\ pc' = "prune"
            /\ \E n \in AutoName(Target) : SnapshotTo(Target, n)
         \/ PruneAuto
         \/ ckpts' = ckpts
<1> USE DEF fsVars, diskVars
<1>1. CASE PreCheckpoint
  BY <1>1 DEF PreCheckpoint
<1>2. CASE TakeCheckpoint
  BY <1>2 DEF TakeCheckpoint
<1>3. CASE PruneAuto
  BY <1>3
<1>4. CASE \/ Mount \/ MountFails \/ SlateExists \/ CreateSlate \/ NothingStaged
           \/ DropStaged \/ PreCheckpointFails \/ Unstage \/ RemoveSlate
           \/ RestoreSlate \/ CheckpointFails \/ AutoCheckpointOff
           \/ ClearScratch \/ CopyBasis \/ WriteFacts
  BY <1>4 DEF Mount, MountFails, SlateExists, CreateSlate, NothingStaged,
     DropStaged, PreCheckpointFails, Unstage, RemoveSlate, RestoreSlate,
     CheckpointFails, AutoCheckpointOff, ClearScratch, CopyBasis, WriteFacts
<1> QED
  BY <1>1, <1>2, <1>3, <1>4 DEF HookStep

LEMMA CommandCheckpoints ==
  ASSUME Command
  PROVE  CreateCheckpoint \/ ckpts' \subseteq ckpts
BY DEF Command, Rollback, Reset, StagePending, Fork, ForkTop, Discard, DiscardStopsEarly

LEMMA OtherCheckpoints ==
  ASSUME BootAny \/ EditSlate \/ EditScratch \/ Configure \/ PowerOff \/ UNCHANGED vars
  PROVE  ckpts' = ckpts
BY DEF BootAny, BootScratch, BootRescue, BootSlate, PowerOn, EditSlate, EditScratch,
   Configure, PowerOff, vars, fsVars, diskVars

LEMMA CheckpointsChange ==
  ASSUME TypeInv, [Next]_vars
  PROVE  \/ ckpts' \subseteq ckpts
         \/ \E s \in Slate, n \in Name : n.slate = s /\ SnapshotTo(s, n)
<1>0. TypeOK
  BY DEF TypeInv
<1>1. CASE HookStep
  <2>1. PruneAuto => ckpts' \subseteq ckpts
    BY DEF PruneAuto, PruneSet, AutosOf, Of
  <2>2. pc \in {"pending", "checkpoint"} => Target \in Slate
    BY DEF TypeInv, RootInv, SlateSteps
  <2>3. Target \in Slate => /\ \A n \in PreName(Target) : n \in Name /\ n.slate = Target
                            /\ \A n \in AutoName(Target) : n \in Name /\ n.slate = Target
    BY <1>0, PreNameType, AutoNameType DEF PreName, AutoName
  <2> QED
    BY <1>1, <2>1, <2>2, <2>3, HookCheckpoints
<1>2. CASE RunCommand
  <2>1. CASE CreateCheckpoint
    <3>1. Booted.name \in Slate
      BY <1>2, <2>1, BootedRoot DEF RunCommand, CreateCheckpoint
    <3>2. \A n \in GoNext(Seqs(Listed(Booted.name))) : n \in Nat
      BY <1>0, GoNextType DEF TypeOK, Seqs, Listed, Of, Checkpoint
    <3>3. \A n \in Nat : /\ [slate |-> Booted.name, seq |-> n, class |-> "keep"] \in Name
                         /\ [slate |-> Booted.name, seq |-> n, class |-> "keep"].slate
                              = Booted.name
      BY <3>1 DEF Name, Class
    <3> QED
      BY <2>1, <3>1, <3>2, <3>3 DEF CreateCheckpoint
  <2> QED
    BY <1>2, <2>1, CommandCheckpoints DEF RunCommand
<1> QED
  BY <1>1, <1>2, OtherCheckpoints DEF Next

(***************************************************************************)
(* There are finitely many checkpoints, and no two with one name.          *)
(***************************************************************************)
NamesInv ==
  /\ IsFiniteSet(ckpts)
  /\ \A c, d \in ckpts : NameOf(c) = NameOf(d) => c = d

LEMMA InitNames == Init => NamesInv
<1> SUFFICES ASSUME Init PROVE NamesInv
  OBVIOUS
<1> DEFINE K == {k \in 1..Aged : config.auto /\ k > Aged - config.retain}
           ckpt(n) == [slate |-> Main, seq |-> n, class |-> "auto", work |-> Pristine]
<1>1. ckpts = {ckpt(n) : n \in K}
  BY DEF Init, FsInit
<1>2. IsFiniteSet(K)
  <2>1. IsFiniteSet(1..Aged)
    BY FS_Interval, BoundsAssumption
  <2> QED
    BY <2>1, FS_Subset
<1>3. IsFiniteSet(ckpts)
  <2> DEFINE f == [n \in K |-> ckpt(n)]
  <2>1. \A n \in K : f[n] = ckpt(n)
    OBVIOUS
  <2>2. f \in Surjection(K, ckpts)
    BY <1>1, <2>1 DEF Surjection
  <2> QED
    BY <1>2, <2>2, FS_Surjection
<1>4. \A c, d \in ckpts : NameOf(c) = NameOf(d) => c = d
  BY <1>1 DEF NameOf
<1> QED
  BY <1>1, <1>3, <1>4 DEF NamesInv

LEMMA NextNames == TypeInv /\ NamesInv /\ [Next]_vars => NamesInv'
<1> SUFFICES ASSUME TypeInv, NamesInv, [Next]_vars PROVE NamesInv'
  OBVIOUS
<1>1. CASE ckpts' \subseteq ckpts
  BY <1>1, FS_Subset DEF NamesInv, NameOf
<1>2. ASSUME NEW s \in Slate, NEW n \in Name, SnapshotTo(s, n) PROVE NamesInv'
  <2> DEFINE new == [slate |-> n.slate, seq |-> n.seq, class |-> n.class, work |-> live[s]]
  <2>1. ckpts' = ckpts \cup {new} /\ ~Taken(n)
    BY <1>2 DEF SnapshotTo
  <2>2. \A c \in ckpts : NameOf(c) # NameOf(new)
    BY <2>1 DEF Taken, NameOf, Name
  <2> HIDE DEF new
  <2>3. IsFiniteSet(ckpts')
    BY <2>1, FS_AddElement DEF NamesInv
  <2>4. \A c, d \in ckpts' : NameOf(c) = NameOf(d) => c = d
    BY <2>1, <2>2 DEF NamesInv
  <2> QED
    BY <2>3, <2>4 DEF NamesInv, NameOf
<1> QED
  BY <1>1, <1>2, CheckpointsChange

-----------------------------------------------------------------------------
(***************************************************************************)
(* What a replacement starts from is the baseline or a checkpoint, so its  *)
(* content does not depend on what becomes of slates and scratch root.     *)
(***************************************************************************)
LEMMA SourceContents ==
  ASSUME NEW v \in Source
  PROVE  Contents(v) = IF v = Baseline THEN {Pristine} ELSE {c.work : c \in Named(v)}
BY PathsAssumption DEF Source, Contents

LEMMA SourceContentsNext ==
  ASSUME NEW v \in Source
  PROVE  Contents(v)' = IF v = Baseline THEN {Pristine} ELSE {c.work : c \in Named(v)'}
BY PathsAssumption DEF Source, Contents

(***************************************************************************)
(* A staged rollback goes to a checkpoint of the slate it is staged for,   *)
(* and once a boot removes or prunes anything of its slate, nothing is     *)
(* staged for that slate any more, or the staged file is stuck.            *)
(***************************************************************************)
StagedInv ==
  /\ pending # None =>
       \/ pending.source = Baseline
       \/ pending.source \in Name /\ pending.source.slate = pending.slate
  /\ pc \in {"remove", "restore", "checkpoint", "prune"} =>
       ~Mine(Target) \/ boot.stuck

LEMMA InitStaged == Init => StagedInv
BY DEF Init, FsInit, StagedInv

LEMMA HookStaged == ASSUME TypeInv, StagedInv, HookStep PROVE StagedInv'
<1> USE DEF StagedInv, Mine, Target, fsVars, diskVars
<1>0. boot \in BootRecord
  BY DEF TypeInv, TypeOK
<1>1. CASE Mount
  <2>1. pc' \in {"clear", "facts", "ensure"}
    BY <1>1 DEF Mount
  <2> QED
    BY <1>1, <2>1 DEF Mount
<1>2. CASE MountFails \/ SlateExists \/ NothingStaged
  BY <1>2 DEF MountFails, SlateExists, NothingStaged, Panic
<1>3. CASE CreateSlate
  BY <1>3 DEF CreateSlate, Panic
<1>4. CASE PreCheckpoint
  BY <1>4 DEF PreCheckpoint
<1>4a. CASE DropStaged \/ PreCheckpointFails \/ Unstage
  <2>1. PICK b \in {boot, Failed} : RemoveStaged(b)
    BY <1>4a DEF DropStaged, PreCheckpointFails, Unstage
  <2>2. pending' = None \/ (pending' = pending /\ boot'.stuck)
    BY <1>0, <2>1 DEF RemoveStaged, Failed, BootRecord
  <2>3. cmdline' = cmdline
    BY <1>4a DEF DropStaged, PreCheckpointFails, Unstage
  <2> QED
    BY <2>2, <2>3
<1>5. CASE RemoveSlate \/ RestoreSlate
  <2>1. pending' = pending /\ cmdline' = cmdline /\ boot'.stuck = boot.stuck
    BY <1>0, <1>5 DEF RemoveSlate, RestoreSlate, Panic, Failed, BootRecord
  <2> QED
    BY <1>5, <2>1 DEF RemoveSlate, RestoreSlate
<1>6. CASE TakeCheckpoint \/ CheckpointFails \/ AutoCheckpointOff \/ PruneAuto
  <2>1. pending' = pending /\ cmdline' = cmdline /\ boot'.stuck = boot.stuck
    BY <1>0, <1>6 DEF TakeCheckpoint, CheckpointFails, AutoCheckpointOff, PruneAuto,
       Failed, BootRecord
  <2> QED
    BY <1>6, <2>1 DEF TakeCheckpoint, CheckpointFails, AutoCheckpointOff, PruneAuto
<1>7. CASE ClearScratch \/ CopyBasis \/ WriteFacts
  BY <1>7 DEF ClearScratch, CopyBasis, WriteFacts, Panic
<1> QED
  BY <1>1, <1>2, <1>3, <1>4, <1>4a, <1>5, <1>6, <1>7 DEF HookStep

LEMMA CommandStaged ==
  ASSUME TypeInv, StagedInv, pc = "up", Command, UNCHANGED hookVars PROVE StagedInv'
<1> USE DEF StagedInv, hookVars
<1>1. CASE pending' = pending
  BY <1>1
<1>2. ASSUME NEW s \in Slate, StagePending(s, Baseline) PROVE StagedInv'
  BY <1>2 DEF StagePending
<1>3. ASSUME NEW s \in Slate, NEW c \in Listed(s), StagePending(s, NameOf(c))
      PROVE  StagedInv'
  <2>1. c \in Checkpoint /\ c.slate = s
    BY DEF TypeInv, TypeOK, Listed, Of
  <2>2. NameOf(c) \in Name /\ NameOf(c).slate = s
    BY <2>1, NameOfType DEF NameOf
  <2> QED
    BY <1>3, <2>2 DEF StagePending
<1> QED
  BY <1>1, <1>2, <1>3 DEF Command, CreateCheckpoint, Rollback, Reset, Fork, ForkTop,
     Discard, DiscardStopsEarly

LEMMA NextStaged == TypeInv /\ StagedInv /\ [Next]_vars => StagedInv'
<1> SUFFICES ASSUME TypeInv, StagedInv, [Next]_vars PROVE StagedInv'
  OBVIOUS
<1>1. CASE HookStep
  BY <1>1, HookStaged
<1>2. CASE RunCommand
  BY <1>2, CommandStaged DEF RunCommand
<1>3. CASE BootAny \/ EditSlate \/ EditScratch \/ Configure \/ PowerOff \/ UNCHANGED vars
  BY <1>3 DEF BootAny, BootScratch, BootRescue, BootSlate, PowerOn, EditSlate,
     EditScratch, Configure, PowerOff, vars, fsVars, diskVars, hookVars, StagedInv,
     Mine, Target
<1> QED
  BY <1>1, <1>2, <1>3 DEF Next

(***************************************************************************)
(* Outside commands, only the pruning of the slate being booted removes    *)
(* checkpoints.                                                            *)
(***************************************************************************)
LEMMA BootRemoves ==
  ASSUME [Next]_vars, pc # "up", NEW c \in ckpts, c \notin ckpts'
  PROVE  PruneAuto /\ c \in PruneSet(Target)
<1>1. CASE HookStep
  BY <1>1, HookCheckpoints DEF SnapshotTo, PruneAuto
<1> QED
  BY <1>1, OtherCheckpoints DEF Next, RunCommand

LEMMA StagedSpared ==
  ASSUME TypeInv, StagedInv, [Next]_vars, pc # "up", ~boot.stuck, pending # None,
         pending' = pending, Exists(pending.source)
  PROVE  Exists(pending.source)'
<1>1. PICK v \in Source : v = pending.source
  BY DEF StagedInv, Source
<1>2. CASE v = Baseline
  BY <1>1, <1>2, SourceContentsNext DEF Exists
<1>3. CASE v # Baseline
  <2>1. v \in Name /\ v.slate = pending.slate
    BY <1>1, <1>3 DEF StagedInv
  <2>2. PICK c \in ckpts : NameOf(c) = v
    BY <1>1, <1>3, SourceContents DEF Exists, Named
  <2>3. c.slate = pending.slate
    BY <2>1, <2>2 DEF NameOf
  <2>4. c \in ckpts'
    <3> SUFFICES ASSUME c \notin ckpts' PROVE FALSE
      OBVIOUS
    <3>1. PruneAuto /\ c.slate = Target
      BY BootRemoves DEF PruneSet, AutosOf, Of
    <3> QED
      BY <2>3, <3>1 DEF StagedInv, Mine, PruneAuto
  <2>5. c \in Named(v)'
    BY <2>2, <2>4 DEF Named
  <2>6. Contents(v)' # {}
    BY <1>3, <2>5, SourceContentsNext
  <2> QED
    BY <1>1, <2>6 DEF Exists
<1> QED
  BY <1>2, <1>3

(***************************************************************************)
(* No boot removes the checkpoint a staged rollback still waits to use,    *)
(* unless the staged file is stuck after its use: prune_auto comes after   *)
(* apply_pending has dealt with what is staged for the slate, and takes    *)
(* checkpoints of no other slate.                                          *)
(***************************************************************************)
THEOREM StagedSourceSpared == Spec => BootSparesStagedSource
<1>1. Init => TypeInv /\ StagedInv
  BY InitType, InitStaged
<1>2. TypeInv /\ StagedInv /\ [Next]_vars => (TypeInv /\ StagedInv)'
  BY NextType, NextStaged
<1>3. TypeInv /\ StagedInv /\ [Next]_vars =>
        [pc # "up" /\ ~boot.stuck /\ pending # None /\ pending' = pending
                  /\ Exists(pending.source)
           => (Exists(pending.source))']_vars
  BY StagedSpared
<1> QED
  BY <1>1, <1>2, <1>3, PTL DEF Spec, BootSparesStagedSource

-----------------------------------------------------------------------------
(***************************************************************************)
(* Read as octal a number is never larger than it is, so the hook's next   *)
(* number is at most one above the largest in use.                         *)
(***************************************************************************)
LEMMA ShellReadsNoMore == ASSUME NEW n \in Nat PROVE ShellValue(n) <= n
<1> DEFINE h == n \div 100
           t == (n \div 10) % 10
           u == n % 10
<1>1. h \in Nat /\ t \in Nat /\ u \in Nat
  OBVIOUS
<1>2. n = 100 * h + 10 * t + u
  OBVIOUS
<1>3. 64 * h + 8 * t + u <= n
  <2> HIDE DEF h, t, u
  <2> QED
    BY <1>1, <1>2
<1> QED
  BY <1>3 DEF ShellValue, Illegal

LEMMA ShellNextBound ==
  ASSUME NEW S \in SUBSET Nat, NEW k \in Nat, \A x \in S : x <= k, NEW n \in ShellNext(S)
  PROVE  n <= k + 1
<1>1. PICK last \in Latest(S) :
        n = IF ShellValue(last) = Illegal THEN Blank ELSE ShellValue(last) + 1
  BY DEF ShellNext
<1>2. last \in Nat /\ last <= k
  BY DEF Latest
<1>3. ShellValue(last) <= last /\ ShellValue(last) \in Int
  BY <1>2, ShellReadsNoMore DEF ShellValue, Illegal
<1> QED
  BY <1>1, <1>2, <1>3 DEF Blank

LEMMA HookNumberBound ==
  ASSUME TypeOK, NEW s, NEW k \in Nat, \A c \in Of(s) : c.seq <= k,
         NEW n \in ShellNext(Seqs(Of(s)))
  PROVE  n \in Nat /\ n <= k + 1
<1>1. Seqs(Of(s)) \subseteq Nat /\ \A x \in Seqs(Of(s)) : x <= k
  BY SeqsType DEF Seqs
<1> QED
  BY <1>1, ShellNextType, ShellNextBound

(***************************************************************************)
(* The numbers stay within the bound: a boot starts with room for the two  *)
(* checkpoints it may take, and takes no more.                             *)
(***************************************************************************)
UpTo(k) == Aged <= MaxSeq /\ 2 <= MaxSeq /\ MaxSeq <= k

BoundInv ==
  /\ \A c \in ckpts : c.seq <= MaxSeq
  /\ pc \in {"mount", "ensure", "pending"} /\ Target \in Slate =>
       \A c \in Of(Target) : c.seq + 2 <= MaxSeq
  /\ pc \in {"unstage", "remove", "restore", "checkpoint"} =>
       \A c \in Of(Target) : c.seq + 1 <= MaxSeq

LEMMA InitBound == ASSUME Aged <= MaxSeq PROVE Init => BoundInv
BY BoundsAssumption DEF Init, FsInit, BoundInv

LEMMA HookBound ==
  ASSUME 2 <= MaxSeq, TypeInv, BoundInv, HookStep PROVE BoundInv'
<1> USE DEF Target, fsVars, diskVars
<1>0. /\ MaxSeq \in Nat
      /\ \A c \in ckpts : c.seq \in Nat
      /\ pc \in SlateSteps => Target \in Slate
      /\ TypeOK
  BY BoundsAssumption DEF TypeInv, TypeOK, RootInv, Checkpoint
<1>1. CASE Mount
  <2>1. pc' \in {"clear", "facts", "ensure"}
    BY <1>1 DEF Mount
  <2> QED
    BY <1>1, <2>1 DEF Mount, BoundInv, Of
<1>2. CASE MountFails \/ SlateExists \/ CreateSlate
  BY <1>2 DEF MountFails, SlateExists, CreateSlate, Panic, BoundInv, Of
<1>3. CASE NothingStaged \/ DropStaged \/ PreCheckpointFails
  <2>1. ckpts' = ckpts /\ pc = "pending" /\ pc' = "checkpoint" /\ cmdline' = cmdline
    BY <1>3 DEF NothingStaged, DropStaged, PreCheckpointFails
  <2>2. \A c \in Of(Target) : c.seq + 1 <= MaxSeq
    BY <1>0, <2>1 DEF SlateSteps, BoundInv, Of
  <2> QED
    BY <2>1, <2>2 DEF BoundInv, Of
<1>4. CASE PreCheckpoint
  <2>1. Target \in Slate /\ \A c \in Of(Target) : c.seq + 2 <= MaxSeq
    BY <1>0, <1>4 DEF PreCheckpoint, SlateSteps, BoundInv
  <2>2. PICK n \in ShellNext(Seqs(Of(Target))) :
          ckpts' = ckpts \cup {[slate |-> Target, seq |-> n, class |-> "keep",
                                work |-> live[Target]]}
    BY <1>4 DEF PreCheckpoint, PreName, SnapshotTo
  <2>3. MaxSeq - 2 \in Nat /\ \A c \in Of(Target) : c.seq <= MaxSeq - 2
    BY <1>0, <2>1 DEF Of
  <2>4. n \in Nat /\ n <= MaxSeq - 1
    BY <1>0, <2>3, HookNumberBound
  <2>5. \A c \in ckpts' : \/ c \in ckpts
                          \/ c.seq = n
    BY <2>2
  <2>6. \A c \in ckpts' : c.seq <= MaxSeq
    BY <1>0, <2>4, <2>5 DEF BoundInv
  <2>7. \A c \in ckpts' : c.slate = Target => c.seq + 1 <= MaxSeq
    BY <1>0, <2>1, <2>4, <2>5 DEF Of
  <2> QED
    BY <1>4, <2>6, <2>7 DEF PreCheckpoint, BoundInv, Of
<1>5. CASE Unstage
  BY <1>5 DEF Unstage, BoundInv, Of
<1>6. CASE RemoveSlate \/ RestoreSlate
  BY <1>6 DEF RemoveSlate, RestoreSlate, Panic, BoundInv, Of
<1>7. CASE TakeCheckpoint
  <2>1. \A c \in Of(Target) : c.seq + 1 <= MaxSeq
    BY <1>7 DEF TakeCheckpoint, BoundInv
  <2>2. PICK n \in ShellNext(Seqs(Of(Target))) :
          ckpts' = ckpts \cup {[slate |-> Target, seq |-> n, class |-> "auto",
                                work |-> live[Target]]}
    BY <1>7 DEF TakeCheckpoint, AutoName, SnapshotTo
  <2>3. MaxSeq - 1 \in Nat /\ \A c \in Of(Target) : c.seq <= MaxSeq - 1
    BY <1>0, <2>1 DEF Of
  <2>4. n \in Nat /\ n <= MaxSeq
    BY <1>0, <2>3, HookNumberBound
  <2>5. \A c \in ckpts' : c.seq <= MaxSeq
    BY <2>2, <2>4 DEF BoundInv
  <2> QED
    BY <1>7, <2>5 DEF TakeCheckpoint, BoundInv
<1>8. CASE CheckpointFails \/ AutoCheckpointOff \/ PruneAuto
  <2>1. pc' \in {"prune", "facts"} /\ ckpts' \subseteq ckpts
    BY <1>8 DEF CheckpointFails, AutoCheckpointOff, PruneAuto, PruneSet, AutosOf, Of
  <2> QED
    BY <2>1 DEF BoundInv
<1>9. CASE ClearScratch \/ CopyBasis \/ WriteFacts
  BY <1>9 DEF ClearScratch, CopyBasis, WriteFacts, Panic, BoundInv
<1> QED
  BY <1>1, <1>2, <1>3, <1>4, <1>5, <1>6, <1>7, <1>8, <1>9 DEF HookStep

LEMMA NextBound ==
  ASSUME 2 <= MaxSeq, TypeInv, BoundInv, [Next]_vars PROVE BoundInv'
<1>1. CASE HookStep
  BY <1>1, HookBound
<1>2. CASE BootAny
  <2>1. pc' = "mount" /\ ckpts' = ckpts
    BY <1>2 DEF BootAny, BootScratch, BootRescue, BootSlate, PowerOn, diskVars
  <2>2. Target' \in Slate => \A c \in Of(Target') : c.seq + 2 <= MaxSeq
    BY NamesAssumption, <1>2
    DEF BootAny, BootScratch, BootRescue, BootSlate, PowerOn, Room, Target
  <2> QED
    BY <2>1, <2>2 DEF BoundInv, Of
<1>3. CASE RunCommand
  <2>1. pc' = "up"
    BY <1>3 DEF RunCommand, hookVars
  <2>2. \A c \in ckpts' : c.seq <= MaxSeq
    <3>1. CASE CreateCheckpoint
      <4>1. PICK n : n <= MaxSeq /\ SnapshotTo(Booted.name, [slate |-> Booted.name,
                                             seq |-> n, class |-> "keep"])
        BY <3>1 DEF CreateCheckpoint
      <4>2. \A c \in ckpts' : c \in ckpts \/ c.seq = n
        BY <4>1 DEF SnapshotTo
      <4> QED
        BY <4>1, <4>2 DEF BoundInv
    <3>2. CASE ckpts' \subseteq ckpts
      BY <3>2 DEF BoundInv
    <3> QED
      BY <1>3, <3>1, <3>2, CommandCheckpoints DEF RunCommand
  <2> QED
    BY <2>1, <2>2 DEF BoundInv
<1>4. CASE EditSlate \/ EditScratch \/ Configure \/ PowerOff \/ UNCHANGED vars
  BY <1>4 DEF EditSlate, EditScratch, Configure, PowerOff, vars, fsVars, diskVars,
     hookVars, BoundInv, Of, Target
<1> QED
  BY <1>1, <1>2, <1>3, <1>4 DEF Next

(***************************************************************************)
(* There are at least as many newer automatic checkpoints as newer         *)
(* numbers.                                                                *)
(***************************************************************************)
LEMMA NewerCheckpoints ==
  ASSUME TypeOK, IsFiniteSet(ckpts), NEW s, NEW a \in Nat
  PROVE  Cardinality({d \in AutosOf(s) : d.seq > a})
           >= Cardinality({b \in Seqs(AutosOf(s)) : a < b})
<1> DEFINE D == {d \in AutosOf(s) : d.seq > a}
           B == {b \in Seqs(AutosOf(s)) : a < b}
           f == [d \in D |-> d.seq]
<1>1. IsFiniteSet(D)
  BY FS_Subset DEF AutosOf, Of
<1>2. \A d \in D : d.seq \in Nat
  BY DEF TypeOK, AutosOf, Of, Checkpoint
<1>3. f \in Surjection(D, B)
  <2>1. \A d \in D : f[d] \in B
    BY <1>2 DEF Seqs
  <2>2. \A b \in B : \E d \in D : f[d] = b
    BY <1>2 DEF Seqs
  <2> QED
    BY <2>1, <2>2 DEF Surjection
<1>4. IsFiniteSet(B) /\ Cardinality(B) <= Cardinality(D)
  BY <1>1, <1>3, FS_Surjection
<1>5. Cardinality(B) \in Nat /\ Cardinality(D) \in Nat
  BY <1>1, <1>4, FS_CardinalityType
<1> QED
  BY <1>4, <1>5

LEMMA PrunedIsOld ==
  ASSUME TypeInv, NamesInv, BoundInv, MaxSeq < 10000, [Next]_vars, pc # "up",
         NEW c \in ckpts, c \notin ckpts'
  PROVE  /\ c.slate = Target /\ c.class = "auto"
         /\ Cardinality({d \in AutosOf(Target) : d.seq > c.seq}) >= config.retain
<1> DEFINE S == Seqs(AutosOf(Target))
           After == {b \in S : c.seq < b}
<1>1. c \in AutosOf(Target) /\ c.seq \in Victims(S, config.retain)
  BY BootRemoves DEF PruneSet
<1>2. TypeOK /\ config.retain \in Nat
  BY DEF TypeInv, TypeOK
<1>3. S \in SUBSET Nat /\ \A y \in S : y < 10000
  BY BoundsAssumption, <1>2 DEF TypeOK, BoundInv, Seqs, AutosOf, Of, Checkpoint
<1>4. c.seq \in S
  BY <1>1 DEF Seqs
<1>5. {b \in S : NameLess(c.seq, b)} = After
  <2> HIDE DEF S
  <2>1. \A y \in S : NameLess(c.seq, y) <=> c.seq < y
    BY <1>3, <1>4, SortedAfter
  <2>2. c.seq \in Nat
    BY <1>2 DEF TypeOK, Checkpoint
  <2>3. {y \in S : NameLess(c.seq, y)} = {y \in S : c.seq < y}
    BY <1>3, <2>1, <2>2, NamesAfter
  <2> QED
    BY <2>3
<1>6. Cardinality(After) >= config.retain
  BY <1>1, <1>5 DEF Victims
<1>7. IsFiniteSet({d \in AutosOf(Target) : d.seq > c.seq}) /\ IsFiniteSet(ckpts)
  BY FS_Subset DEF NamesInv, AutosOf, Of
<1>8. Cardinality({d \in AutosOf(Target) : d.seq > c.seq}) >= Cardinality(After)
  <2>1. c.seq \in Nat
    BY <1>3, <1>4
  <2> QED
    BY <1>2, <1>7, <2>1, NewerCheckpoints
<1>9. Cardinality({d \in AutosOf(Target) : d.seq > c.seq}) \in Nat
  BY <1>7, FS_CardinalityType
<1>10. Cardinality(After) \in Nat
  <2>1. IsFiniteSet(S)
    <3> DEFINE f == [d \in AutosOf(Target) |-> d.seq]
    <3>1. f \in Surjection(AutosOf(Target), S)
      BY DEF Seqs, Surjection
    <3>2. IsFiniteSet(AutosOf(Target))
      BY <1>7, FS_Subset DEF AutosOf, Of
    <3> QED
      BY <3>1, <3>2, FS_Surjection
  <2>2. IsFiniteSet(After)
    BY <2>1, FS_Subset
  <2> QED
    BY <2>2, FS_CardinalityType
<1> HIDE DEF S, After
<1>11. Cardinality({d \in AutosOf(Target) : d.seq > c.seq}) >= config.retain
  BY <1>2, <1>6, <1>8, <1>9, <1>10
<1> QED
  BY <1>1, <1>11 DEF AutosOf, Of

(***************************************************************************)
(* As long as numbers have four digits, a boot prunes only automatic       *)
(* checkpoints of its own slate, and none that is among the `retain'       *)
(* newest, whatever the configuration says by then: prune_auto sorts the   *)
(* names as text, which up to 9999 is by number.                           *)
(***************************************************************************)
THEOREM NewestSpared == ASSUME UpTo(9999) PROVE Spec => PruneSparesNewest
<1> DEFINE Inv == TypeInv /\ NamesInv /\ BoundInv
<1>1. Init => Inv
  BY InitType, InitNames, InitBound DEF UpTo
<1>2. Inv /\ [Next]_vars => Inv'
  BY NextType, NextNames, NextBound DEF UpTo
<1>3. Inv /\ [Next]_vars =>
        [\A c \in ckpts \ ckpts' : pc # "up" =>
           /\ c.slate = Target /\ c.class = "auto"
           /\ Cardinality({d \in AutosOf(Target) : d.seq > c.seq}) >= config.retain]_vars
  BY BoundsAssumption, PrunedIsOld DEF UpTo
<1> QED
  BY <1>1, <1>2, <1>3, PTL DEF Spec, PruneSparesNewest

-----------------------------------------------------------------------------
(***************************************************************************)
(* Up to eight, the hook numbers checkpoints as the Go code does: above    *)
(* all numbers in use.  (Beyond, it may come back to a number in use.)     *)
(***************************************************************************)
NumberInv ==
  /\ \A c \in ckpts : 1 <= c.seq
  /\ UnambiguousRefs

LEMMA InitNumber == Init => NumberInv
BY BoundsAssumption DEF Init, FsInit, NumberInv, UnambiguousRefs

LEMMA HookNumberAbove ==
  ASSUME TypeOK, NEW s, \A c \in Of(s) : 1 <= c.seq /\ c.seq <= 7,
         NEW n \in ShellNext(Seqs(Of(s)))
  PROVE  n \in Nat /\ 1 <= n /\ \A c \in Of(s) : c.seq < n
<1> DEFINE S == Seqs(Of(s))
<1>1. S \in SUBSET (1..7) /\ S \in SUBSET Nat
  <2>1. \A c \in Of(s) : c.seq \in Nat
    BY DEF TypeOK, Of, Checkpoint
  <2> QED
    BY <2>1 DEF Seqs
<1>2. \A c \in Of(s) : c.seq \in S
  BY DEF Seqs
<1> HIDE DEF S
<1>3. n \in GoNext(S)
  BY <1>1, NumberingAgreesBelowEight DEF S
<1>4. \A k \in S : k < n
  BY <1>1, <1>3, GoNumberIsNew
<1>5. n \in Nat /\ 1 <= n
  <2>1. PICK last \in Latest(S \ {Blank}) : n = last + 1
    BY <1>3 DEF GoNext
  <2>2. last \in Nat
    BY <1>1, <2>1 DEF Latest
  <2> QED
    BY <2>1, <2>2
<1> QED
  BY <1>2, <1>4, <1>5

(***************************************************************************)
(* So both checkpoints of a boot get a number above all others.            *)
(***************************************************************************)
LEMMA BootNumbers ==
  ASSUME MaxSeq <= 8, TypeInv, BoundInv, NumberInv, pc \in {"pending", "checkpoint"},
         NEW n \in ShellNext(Seqs(Of(Target)))
  PROVE  n \in Nat /\ 1 <= n /\ \A c \in Of(Target) : c.seq < n
<1>1. Target \in Slate /\ TypeOK
  BY DEF TypeInv, RootInv, SlateSteps
<1>2. \A c \in Of(Target) : c.seq \in Nat
  BY <1>1 DEF TypeOK, Of, Checkpoint
<1>3. \A c \in Of(Target) : c.seq + 2 <= MaxSeq \/ c.seq + 1 <= MaxSeq
  BY <1>1 DEF BoundInv
<1>4. \A c \in Of(Target) : 1 <= c.seq /\ c.seq <= 7
  BY BoundsAssumption, <1>2, <1>3 DEF NumberInv, Of
<1> QED
  BY <1>1, <1>4, HookNumberAbove

LEMMA BootNamesFree ==
  ASSUME MaxSeq <= 8, TypeInv, BoundInv, NumberInv, pc \in {"pending", "checkpoint"},
         NEW n \in PreName(Target) \cup AutoName(Target)
  PROVE  ~Taken(n)
<1>1. n.seq \in ShellNext(Seqs(Of(Target))) /\ n.slate = Target
  BY DEF PreName, AutoName
<1>2. n.seq \in Nat /\ \A c \in Of(Target) : c.seq < n.seq /\ c.seq \in Nat
  BY <1>1, BootNumbers DEF TypeInv, TypeOK, Of, Checkpoint
<1> QED
  BY <1>1, <1>2 DEF Taken, NameOf, Of

LEMMA CommandNumber ==
  ASSUME TypeOK, NumberInv, NEW s, NEW n \in GoNext(Seqs(Listed(s)))
  PROVE  n \in Nat /\ 1 <= n /\ \A c \in Of(s) : c.seq < n
<1> DEFINE S == Seqs(Listed(s))
<1>1. S \in SUBSET Nat
  BY DEF TypeOK, Seqs, Listed, Of, Checkpoint
<1>2. \A c \in Of(s) : c.seq \in S
  BY DEF NumberInv, Seqs, Listed, Of, Blank
<1> HIDE DEF S
<1>3. n \in GoNext(S)
  BY DEF S
<1>4. \A k \in S : k < n
  BY <1>1, <1>3, GoNumberIsNew
<1>5. n \in Nat /\ 1 <= n
  <2>1. PICK last \in Latest(S \ {Blank}) : n = last + 1
    BY <1>3 DEF GoNext
  <2>2. last \in Nat
    BY <1>1, <2>1 DEF Latest
  <2> QED
    BY <2>1, <2>2
<1> QED
  BY <1>2, <1>4, <1>5

(***************************************************************************)
(* Every new checkpoint is the newest of its slate.                        *)
(***************************************************************************)
LEMMA NewCheckpointNewest ==
  ASSUME MaxSeq <= 8, TypeInv, BoundInv, NumberInv, [Next]_vars
  PROVE  \/ ckpts' \subseteq ckpts
         \/ \E new : /\ ckpts' = ckpts \cup {new}
                     /\ new.seq \in Nat /\ 1 <= new.seq
                     /\ \A c \in ckpts : c.slate = new.slate => c.seq < new.seq
<1>1. CASE HookStep
  <2>1. PruneAuto => ckpts' \subseteq ckpts
    BY DEF PruneAuto, PruneSet, AutosOf, Of
  <2>2. ASSUME pc \in {"pending", "checkpoint"},
               NEW n \in PreName(Target) \cup AutoName(Target), SnapshotTo(Target, n)
        PROVE  \E new : /\ ckpts' = ckpts \cup {new}
                        /\ new.seq \in Nat /\ 1 <= new.seq
                        /\ \A c \in ckpts : c.slate = new.slate => c.seq < new.seq
    <3> DEFINE new == [slate |-> n.slate, seq |-> n.seq, class |-> n.class,
                       work |-> live[Target]]
    <3>1. n.seq \in ShellNext(Seqs(Of(Target))) /\ n.slate = Target
      BY DEF PreName, AutoName
    <3>2. n.seq \in Nat /\ 1 <= n.seq /\ \A c \in Of(Target) : c.seq < n.seq
      BY <2>2, <3>1, BootNumbers
    <3>3. ckpts' = ckpts \cup {new} /\ new.seq = n.seq /\ new.slate = Target
      BY <2>2, <3>1 DEF SnapshotTo
    <3> HIDE DEF new
    <3> QED
      BY <3>2, <3>3 DEF Of
  <2> QED
    BY <1>1, <2>1, <2>2, HookCheckpoints
<1>2. CASE RunCommand
  <2>1. ASSUME CreateCheckpoint
        PROVE  \E new : /\ ckpts' = ckpts \cup {new}
                        /\ new.seq \in Nat /\ 1 <= new.seq
                        /\ \A c \in ckpts : c.slate = new.slate => c.seq < new.seq
    <3>1. PICK n \in GoNext(Seqs(Listed(Booted.name))) :
            SnapshotTo(Booted.name, [slate |-> Booted.name, seq |-> n, class |-> "keep"])
      BY <2>1 DEF CreateCheckpoint
    <3> DEFINE new == [slate |-> Booted.name, seq |-> n, class |-> "keep",
                       work |-> live[Booted.name]]
    <3>2. n \in Nat /\ 1 <= n /\ \A c \in Of(Booted.name) : c.seq < n
      BY <3>1, CommandNumber DEF TypeInv
    <3>3. ckpts' = ckpts \cup {new} /\ new.seq = n /\ new.slate = Booted.name
      BY <3>1 DEF SnapshotTo
    <3> HIDE DEF new
    <3> QED
      BY <3>2, <3>3 DEF Of
  <2> QED
    BY <1>2, <2>1, CommandCheckpoints DEF RunCommand
<1> QED
  BY <1>1, <1>2, OtherCheckpoints DEF Next

LEMMA NextNumber ==
  ASSUME MaxSeq <= 8, TypeInv, BoundInv, NumberInv, [Next]_vars PROVE NumberInv'
<1>0. \A c \in ckpts : c.seq \in Nat
  BY DEF TypeInv, TypeOK, Checkpoint
<1>1. CASE ckpts' \subseteq ckpts
  BY <1>1 DEF NumberInv, UnambiguousRefs
<1>2. ASSUME NEW new, ckpts' = ckpts \cup {new}, new.seq \in Nat, 1 <= new.seq,
             \A c \in ckpts : c.slate = new.slate => c.seq < new.seq
      PROVE  NumberInv'
  BY <1>0, <1>2 DEF NumberInv, UnambiguousRefs
<1> QED
  BY <1>1, <1>2, NewCheckpointNewest

(***************************************************************************)
(* While numbers stay up to eight, <slate>.<number> means one checkpoint:  *)
(* next_seq of the hook and nextSeq of the Go code never give two          *)
(* checkpoints of a slate the same number, whatever is pruned, discarded   *)
(* or left behind by a failure.                                            *)
(***************************************************************************)
THEOREM RefsUnambiguous == ASSUME UpTo(8) PROVE Spec => []UnambiguousRefs
<1> DEFINE Inv == TypeInv /\ BoundInv /\ NumberInv
<1>1. Init => Inv
  BY InitType, InitBound, InitNumber DEF UpTo
<1>2. Inv /\ [Next]_vars => Inv'
  BY NextType, NextBound, NextNumber DEF UpTo
<1>3. Inv => UnambiguousRefs
  BY DEF NumberInv
<1> QED
  BY <1>1, <1>2, <1>3, PTL DEF Spec

-----------------------------------------------------------------------------
(***************************************************************************)
(* A snapshot of one subvolume has one content.                            *)
(***************************************************************************)
LEMMA OneContent ==
  ASSUME NamesInv, NEW v, NEW w \in Contents(v), NEW x \in Contents(v) PROVE w = x
BY DEF NamesInv, Contents, Named

LEMMA SourceStays ==
  ASSUME NEW v \in Source, ckpts \subseteq ckpts' PROVE Contents(v) \subseteq Contents(v)'
BY SourceContents, SourceContentsNext DEF Named

LEMMA BasisStays ==
  ASSUME NEW v \in Slate \cup {Baseline}, live' = live PROVE Contents(v)' = Contents(v)
BY NamesAssumption DEF Contents

(***************************************************************************)
(* What a slate that is being booted should become.                        *)
(***************************************************************************)
Due(t) ==
  IF Mine(t) /\ Exists(pending.source) THEN Contents(pending.source)
  ELSE IF live[t] # Absent THEN {live[t]}
  ELSE {Pristine}

LEMMA SlateGoal == ASSUME NEW t \in Slate, NEW asked PROVE GoalFor(t, asked) = Due(t)
BY NamesAssumption DEF GoalFor, Due, Exists, Contents

LEMMA SlateDueStays ==
  ASSUME NEW t, UNCHANGED <<live, ckpts, runtime, pending>> PROVE Due(t)' = Due(t)
BY DEF Due, Mine, Exists, Contents, Named

LEMMA ScratchBasis ==
  ASSUME TypeOK PROVE ResolveBasis(cmdline.basis) \in Slate \cup {Baseline}
BY DEF TypeOK, ResolveBasis, Targets

(***************************************************************************)
(* Where the content a boot should hand over is at each of its steps,      *)
(* while no command has failed: still to be found, in the staged source or *)
(* the basis, or in place.                                                 *)
(***************************************************************************)
GoalInv ==
  /\ pc = "pending" => live[Target] # Absent
  /\ pc \in {"unstage", "remove", "restore"} => boot.source \in Source
  /\ pc \in {"clear", "copy"} => boot.basis \in Slate \cup {Baseline}
  /\ boot.clean =>
       /\ pc \in {"mount", "ensure", "pending"} /\ Target \in Slate =>
            boot.goal \in Due(Target)
       /\ pc = "mount" /\ Target = Runtime =>
            boot.goal \in Contents(ResolveBasis(cmdline.basis))
       /\ pc \in {"unstage", "remove", "restore"} => boot.goal \in Contents(boot.source)
       /\ pc \in {"checkpoint", "prune"} => live[Target] = boot.goal
       /\ pc \in {"clear", "copy"} => boot.goal \in Contents(boot.basis)
  /\ BootDelivers

LEMMA InitGoal == Init => GoalInv
BY DEF Init, GoalInv, BootDelivers

LEMMA StagedGoal ==
  ASSUME MaxSeq <= 8, TypeInv, NamesInv, BoundInv, NumberInv, GoalInv,
         SlateExists \/ CreateSlate \/ NothingStaged \/ DropStaged \/ PreCheckpoint
           \/ PreCheckpointFails
  PROVE  GoalInv'
<1> USE DEF Target
<1>0. Target \in Slate /\ TypeOK /\ live \in [Slate -> Work \cup {Absent}]
      /\ (pending # None => pending.source \in Source)
  BY DEF TypeInv, TypeOK, RootInv, SlateSteps, SlateExists, CreateSlate, NothingStaged,
     DropStaged, PreCheckpoint, PreCheckpointFails
<1>1. CASE SlateExists
  <2>1. Due(Target)' = Due(Target)
    BY <1>1, SlateDueStays DEF SlateExists, fsVars, diskVars, Due, Mine, Exists, Contents, Named
  <2> QED
    BY <1>1, <2>1 DEF SlateExists, fsVars, diskVars, GoalInv, BootDelivers
<1>2. CASE CreateSlate
  <2>1. CASE pc' = "panic" /\ boot' = Failed
    BY <1>2, <2>1 DEF Failed, CreateSlate, GoalInv, BootDelivers, TypeOK, BootRecord
  <2>2. CASE pc' = "pending" /\ live' = [live EXCEPT ![Target] = Pristine]
    <3>1. live'[Target] = Pristine /\ Pristine # Absent /\ cmdline' = cmdline
      BY <1>0, <1>2, <2>2 DEF CreateSlate, Pristine, Absent
    <3>2. pending # None => Contents(pending.source)' = Contents(pending.source)
      BY <1>0, <1>2, SourceContents, SourceContentsNext DEF CreateSlate, Named
    <3>3. Due(Target)' = Due(Target)
      BY <1>2, <3>1, <3>2 DEF Due, Mine, Exists, CreateSlate
    <3>4. boot'.clean = boot.clean /\ boot'.goal = boot.goal
      BY <1>0, <1>2, <2>2 DEF CreateSlate, Panic, TypeOK, BootRecord
    <3> QED
      BY <1>0, <1>2, <2>2, <3>1, <3>3, <3>4 DEF CreateSlate, GoalInv, BootDelivers
  <2> QED
    BY <1>2, <2>1, <2>2 DEF CreateSlate, Panic
<1>3. CASE NothingStaged \/ DropStaged
  <2>1. boot.clean => boot.goal = live[Target]
    BY <1>0, <1>3 DEF NothingStaged, DropStaged, GoalInv, Due
  <2>2. pc' = "checkpoint" /\ live' = live /\ cmdline' = cmdline
    BY <1>3 DEF NothingStaged, DropStaged, fsVars, diskVars
  <2>3. boot' = boot \/ ~boot'.clean
    BY <1>0, <1>3 DEF NothingStaged, DropStaged, RemoveStaged, TypeOK, BootRecord
  <2> QED
    BY <2>1, <2>2, <2>3 DEF GoalInv, BootDelivers
<1>4. CASE PreCheckpoint
  <2>1. boot.clean => boot.goal \in Contents(pending.source)
    BY <1>0, <1>4 DEF PreCheckpoint, GoalInv, Due
  <2>2. pending.source \in Source /\ ckpts \subseteq ckpts'
    BY <1>0, <1>4 DEF PreCheckpoint, Mine, SnapshotTo
  <2>3. PICK v \in Source : v = pending.source
    BY <2>2
  <2>4. Contents(v) \subseteq Contents(v)'
    BY <2>2, SourceStays
  <2>5. boot'.source = v /\ boot'.goal = boot.goal /\ boot'.clean = boot.clean
        /\ pc' = "unstage"
    BY <1>0, <1>4, <2>3 DEF PreCheckpoint, TypeOK, BootRecord
  <2> QED
    BY <2>1, <2>3, <2>4, <2>5 DEF GoalInv, BootDelivers
<1>5. CASE PreCheckpointFails
  <2>1. ~\E n \in PreName(Target) : Taken(n)
    BY <1>5, BootNamesFree DEF PreCheckpointFails
  <2>2. RemoveStaged(Failed) /\ pc' = "checkpoint"
    BY <1>5, <2>1 DEF PreCheckpointFails
  <2>3. ~boot'.clean
    BY <1>0, <2>2 DEF RemoveStaged, Failed, TypeOK, BootRecord
  <2> QED
    BY <2>2, <2>3 DEF GoalInv, BootDelivers
<1> QED
  BY <1>1, <1>2, <1>3, <1>4, <1>5

LEMMA ReplaceGoal ==
  ASSUME TypeInv, NamesInv, GoalInv, Unstage \/ RemoveSlate \/ RestoreSlate
  PROVE  GoalInv'
<1> USE DEF Target
<1>0. /\ Target \in Slate /\ TypeOK /\ live \in [Slate -> Work \cup {Absent}]
      /\ boot.source \in Source
      /\ boot.clean => boot.goal \in Contents(boot.source)
  BY DEF TypeInv, TypeOK, RootInv, SlateSteps, Unstage, RemoveSlate, RestoreSlate, GoalInv
<1>1. PICK v \in Source : v = boot.source
  BY <1>0
<1>2. CASE Unstage \/ RemoveSlate
  <2>1. Contents(v)' = Contents(v)
    BY <1>2, SourceContents, SourceContentsNext DEF Unstage, RemoveSlate, Named
  <2>2. CASE pc' = "panic" /\ boot' = Failed
    BY <1>2, <2>2 DEF Failed, GoalInv, BootDelivers
  <2>3. CASE pc' \in {"remove", "restore"} /\ boot' = boot
    BY <1>0, <1>1, <2>1, <2>3 DEF GoalInv, BootDelivers
  <2>4. CASE pc' = "remove" /\ ~boot'.clean /\ boot'.source = boot.source
    BY <1>0, <2>4 DEF GoalInv, BootDelivers
  <2>5. Unstage => \/ boot' = boot
                   \/ ~boot'.clean /\ boot'.source = boot.source
    BY <1>0 DEF Unstage, RemoveStaged, TypeOK, BootRecord
  <2> QED
    BY <1>2, <2>2, <2>3, <2>4, <2>5 DEF Unstage, RemoveSlate, Panic
<1>3. CASE RestoreSlate
  <2>1. CASE pc' = "panic" /\ boot' = Failed
    BY <1>3, <2>1 DEF Failed, GoalInv, BootDelivers
  <2>2. ASSUME NEW w \in Contents(boot.source), live' = [live EXCEPT ![Target] = w],
               pc' = "checkpoint", boot' = boot
        PROVE  GoalInv'
    <3>1. live'[Target] = w /\ cmdline' = cmdline
      BY <1>0, <1>3, <2>2 DEF RestoreSlate
    <3>2. boot.clean => boot.goal = w
      BY <1>0, <2>2, OneContent
    <3> QED
      BY <2>2, <3>1, <3>2 DEF GoalInv, BootDelivers
  <2> QED
    BY <1>3, <2>1, <2>2 DEF RestoreSlate, Panic
<1> QED
  BY <1>2, <1>3

LEMMA CheckpointGoal ==
  ASSUME TypeInv, GoalInv, TakeCheckpoint \/ CheckpointFails \/ AutoCheckpointOff \/ PruneAuto
  PROVE  GoalInv'
<1> USE DEF Target, fsVars, diskVars
<1>1. Target \in Slate /\ boot \in BootRecord /\ Target # Runtime
  BY NamesAssumption DEF TypeInv, TypeOK, RootInv, SlateSteps, TakeCheckpoint, CheckpointFails,
     AutoCheckpointOff, PruneAuto
<1>2. boot'.clean => boot.clean /\ boot'.goal = boot.goal
  BY <1>1 DEF TakeCheckpoint, CheckpointFails, AutoCheckpointOff, PruneAuto, Failed, BootRecord
<1>3. /\ live' = live /\ cmdline' = cmdline
      /\ pc \in {"checkpoint", "prune"} /\ pc' \in {"prune", "facts"}
  BY DEF TakeCheckpoint, CheckpointFails, AutoCheckpointOff, PruneAuto
<1> QED
  BY <1>1, <1>2, <1>3 DEF GoalInv, BootDelivers

LEMMA ScratchGoal ==
  ASSUME TypeInv, NamesInv, GoalInv, ClearScratch \/ CopyBasis PROVE GoalInv'
<1> USE DEF Target
<1>0. /\ Target = Runtime /\ Target \notin Slate /\ boot.basis \in Slate \cup {Baseline}
      /\ boot.clean => boot.goal \in Contents(boot.basis)
  BY NamesAssumption DEF TypeInv, RootInv, ClearScratch, CopyBasis, GoalInv
<1>1. CASE pc' = "panic" /\ boot' = Failed
  BY <1>1 DEF Failed, GoalInv, BootDelivers
<1>2. CASE ClearScratch /\ pc' = "copy" /\ boot' = boot
  <2>1. PICK v \in Slate \cup {Baseline} : v = boot.basis
    BY <1>0
  <2>2. Contents(v)' = Contents(v)
    BY <1>2, BasisStays DEF ClearScratch
  <2> QED
    BY <1>0, <1>2, <2>1, <2>2 DEF GoalInv, BootDelivers
<1>3. ASSUME NEW w \in Contents(boot.basis), runtime' = w, CopyBasis,
             pc' = "facts", boot' = boot
      PROVE  GoalInv'
  <2>1. boot.clean => boot.goal = w
    BY <1>0, <1>3, OneContent
  <2>2. Target' = Runtime
    BY <1>0, <1>3 DEF CopyBasis
  <2> QED
    BY <1>0, <1>3, <2>1, <2>2 DEF GoalInv, BootDelivers
<1> QED
  BY <1>1, <1>2, <1>3 DEF ClearScratch, CopyBasis, Panic

LEMMA MountGoal ==
  ASSUME TypeInv, GoalInv, Mount \/ MountFails PROVE GoalInv'
<1> USE DEF Target, fsVars, diskVars
<1>0. Target \in Targets /\ boot \in BootRecord /\ TypeOK
  BY DEF TypeInv, TypeOK, RootInv, Mount, MountFails
<1>1. CASE MountFails
  BY <1>0, <1>1 DEF MountFails, Panic, Failed, GoalInv, BootDelivers, BootRecord
<1>2. CASE Mount /\ Target \in Slate
  <2>1. pc' = "ensure" /\ cmdline' = cmdline
    BY NamesAssumption, <1>2 DEF Mount
  <2>2. boot'.clean = boot.clean /\ boot'.goal = boot.goal
    BY <1>0, <1>2 DEF Mount, BootRecord
  <2>3. UNCHANGED <<live, ckpts, runtime, pending>>
    BY <1>2 DEF Mount
  <2>4. PICK t \in Slate : t = Target
    BY <1>2
  <2>5. Due(t)' = Due(t)
    BY <2>3, SlateDueStays
  <2> QED
    BY <1>2, <2>1, <2>2, <2>4, <2>5 DEF GoalInv, BootDelivers, Mount
<1>3. CASE Mount /\ Target = Runtime
  <2>1. pc' = "clear" /\ boot'.basis = ResolveBasis(cmdline.basis)
    BY NamesAssumption, <1>0, <1>3 DEF Mount, BootRecord
  <2>2. boot'.clean = boot.clean /\ boot'.goal = boot.goal
    BY <1>0, <1>3 DEF Mount, BootRecord
  <2>3. PICK v \in Slate \cup {Baseline} : v = ResolveBasis(cmdline.basis)
    BY <1>0, ScratchBasis
  <2>4. Contents(v)' = Contents(v)
    BY <1>3, BasisStays DEF Mount
  <2> QED
    BY <1>3, <2>1, <2>2, <2>3, <2>4 DEF GoalInv, BootDelivers, Mount
<1>4. CASE Mount /\ Target = Baseline
  <2>1. pc' = "facts" /\ Target' = Baseline
    BY NamesAssumption, <1>4 DEF Mount
  <2> QED
    BY NamesAssumption, <2>1 DEF GoalInv, BootDelivers
<1> QED
  BY <1>0, <1>1, <1>2, <1>3, <1>4 DEF Targets

LEMMA NextGoal ==
  ASSUME MaxSeq <= 8, TypeInv, NamesInv, BoundInv, NumberInv, GoalInv, [Next]_vars
  PROVE  GoalInv'
<1>1. CASE HookStep
  <2>1. WriteFacts => GoalInv'
    BY DEF WriteFacts, GoalInv, BootDelivers
  <2> QED
    BY <1>1, <2>1, MountGoal, StagedGoal, ReplaceGoal, CheckpointGoal, ScratchGoal DEF HookStep
<1>2. CASE BootAny
  <2>1. PICK t \in Targets, asked \in Targets \cup {None} : PowerOn(t, asked)
    BY BasesAssumption, <1>2 DEF BootAny, BootScratch, BootRescue, BootSlate, Targets
  <2>2. PICK w \in GoalFor(t, asked) : boot' = [Idle EXCEPT !.goal = w]
    BY <2>1 DEF PowerOn
  <2>3. /\ pc' = "mount" /\ boot'.goal = w
        /\ cmdline'.subvol = t /\ cmdline'.basis = asked
        /\ UNCHANGED <<live, ckpts, runtime, pending>>
    BY <2>1, <2>2 DEF PowerOn, Idle, diskVars
  <2>4. t \in Slate => w \in Due(t)'
    BY <2>2, <2>3, SlateGoal, SlateDueStays
  <2>5. t = Runtime => w \in Contents(ResolveBasis(asked))'
    BY <2>2, <2>3 DEF GoalFor, ResolveBasis, Exists, Contents, Named
  <2> QED
    BY <2>3, <2>4, <2>5 DEF GoalInv, BootDelivers, Target
<1>3. CASE EditSlate \/ EditScratch \/ Configure \/ RunCommand
  BY <1>3 DEF EditSlate, EditScratch, Configure, RunCommand, hookVars, GoalInv, BootDelivers
<1>4. CASE PowerOff
  BY <1>4 DEF PowerOff, GoalInv, BootDelivers
<1>5. CASE UNCHANGED vars
  BY <1>5 DEF vars, fsVars, diskVars, hookVars, GoalInv, BootDelivers, Due, Mine, Target,
     Exists, Contents, Named, ResolveBasis
<1> QED
  BY <1>1, <1>2, <1>3, <1>4, <1>5 DEF Next

(***************************************************************************)
(* A boot in which no command failed hands over the staged source, else    *)
(* the slate as it was left, else the baseline; a scratch boot, a copy of  *)
(* its basis.  It holds while the hook's numbers are up to eight: a number *)
(* that is taken makes apply_pending drop the replacement.                 *)
(***************************************************************************)
THEOREM BootsDeliver == ASSUME UpTo(8) PROVE Spec => []BootDelivers
<1> DEFINE Inv == TypeInv /\ NamesInv /\ BoundInv /\ NumberInv /\ GoalInv
<1>1. Init => Inv
  BY InitType, InitNames, InitBound, InitNumber, InitGoal DEF UpTo
<1>2. Inv /\ [Next]_vars => Inv'
  BY NextType, NextNames, NextBound, NextNumber, NextGoal DEF UpTo
<1>3. Inv => BootDelivers
  BY DEF GoalInv
<1> QED
  BY <1>1, <1>2, <1>3, PTL DEF Spec

-----------------------------------------------------------------------------
(***************************************************************************)
(* The checkpoint a boot has just taken is the newest of its slate and     *)
(* holds the root; so pruning, which spares the newest, leaves it.         *)
(***************************************************************************)
PointInv ==
  /\ pc = "prune" => config.auto
  /\ pc = "prune" /\ boot.clean =>
       \E c \in Of(Target) :
         /\ NameOf(c) = boot.ckpt /\ c.work = live[Target] /\ c.class = "auto"
         /\ \A d \in Of(Target) : d.seq <= c.seq
  /\ BootLeavesRollbackPoint

LEMMA InitPoint == Init => PointInv
BY DEF Init, PointInv, BootLeavesRollbackPoint

LEMMA TakePoint ==
  ASSUME MaxSeq <= 8, TypeInv, BoundInv, NumberInv, PointInv,
         TakeCheckpoint \/ CheckpointFails
  PROVE  PointInv'
<1> USE DEF Target
<1>0. /\ Target \in Slate /\ TypeOK /\ boot \in BootRecord
      /\ pc = "checkpoint" /\ pc' = "prune" /\ config' = config /\ config.auto
      /\ live' = live /\ cmdline' = cmdline
  BY DEF TypeInv, TypeOK, RootInv, SlateSteps, TakeCheckpoint, CheckpointFails, fsVars, diskVars
<1>1. CASE TakeCheckpoint
  <2>1. PICK n \in AutoName(Target) :
          SnapshotTo(Target, n) /\ boot' = [boot EXCEPT !.ckpt = n]
    BY <1>1 DEF TakeCheckpoint
  <2> DEFINE c == [slate |-> n.slate, seq |-> n.seq, class |-> n.class, work |-> live[Target]]
  <2>2. n \in Name /\ n.slate = Target /\ n.class = "auto"
        /\ n.seq \in ShellNext(Seqs(Of(Target)))
    BY <1>0, AutoNameType DEF AutoName
  <2>3. n.seq \in Nat /\ \A d \in Of(Target) : d.seq < n.seq
    BY <1>0, <2>2, BootNumbers
  <2>4. ckpts' = ckpts \cup {c}
    BY <2>1 DEF SnapshotTo
  <2>5. c.slate = Target /\ c.class = "auto" /\ c.work = live[Target] /\ c.seq = n.seq
    BY <2>2
  <2>6. NameOf(c) = n
    BY <2>2 DEF NameOf, Name
  <2>7. boot'.ckpt = n
    BY <1>0, <2>1 DEF BootRecord
  <2> HIDE DEF c
  <2>8. \A d \in Of(Target) : d.seq \in Nat
    BY <1>0 DEF TypeOK, Of, Checkpoint
  <2>9. \A d \in ckpts' : d.slate = Target => d.seq <= c.seq
    BY <2>3, <2>4, <2>5, <2>8 DEF Of
  <2>10. c \in Of(Target)'
    BY <1>0, <2>4, <2>5 DEF Of
  <2> QED
    BY <1>0, <2>5, <2>6, <2>7, <2>9, <2>10 DEF PointInv, BootLeavesRollbackPoint, Of, NameOf
<1>2. CASE CheckpointFails
  <2>1. ~\E n \in AutoName(Target) : Taken(n)
    BY <1>0, BootNamesFree
  <2>2. boot' = Failed
    BY <1>2, <2>1 DEF CheckpointFails
  <2>3. ~boot'.clean
    BY <1>0, <2>2 DEF Failed, BootRecord
  <2> QED
    BY <1>0, <2>3 DEF PointInv, BootLeavesRollbackPoint
<1> QED
  BY <1>1, <1>2

LEMMA NewestNotPruned ==
  ASSUME TypeOK, BoundInv, MaxSeq < 10000, config.retain > 0, NEW s,
         NEW c \in PruneSet(s), \A d \in Of(s) : d.seq <= c.seq
  PROVE  FALSE
<1> DEFINE S == Seqs(AutosOf(s))
<1>1. \A d \in AutosOf(s) : d.seq \in Nat /\ d.seq <= c.seq /\ d.seq < 10000
  BY BoundsAssumption DEF TypeOK, BoundInv, AutosOf, Of, Checkpoint
<1>2. c \in AutosOf(s) /\ c.seq \in Victims(S, config.retain)
  BY DEF PruneSet
<1>3. \A b \in S : ~NameLess(c.seq, b)
  BY <1>1, <1>2 DEF Seqs, NameLess, Head4
<1>4. {b \in S : NameLess(c.seq, b)} = {}
  BY <1>3
<1>5. Cardinality({b \in S : NameLess(c.seq, b)}) = 0
  BY <1>4, FS_EmptySet
<1>6. Cardinality({b \in S : NameLess(c.seq, b)}) >= config.retain
  BY <1>2 DEF Victims
<1>7. config.retain \in Nat
  BY DEF TypeOK
<1> QED
  BY <1>5, <1>6, <1>7

LEMMA PrunePoint ==
  ASSUME MaxSeq <= 8, TypeInv, BoundInv, PointInv, PruneAuto PROVE PointInv'
<1> USE DEF Target
<1>1. /\ Target \in Slate /\ TypeOK /\ boot \in BootRecord
      /\ pc = "prune" /\ pc' = "facts" /\ UNCHANGED <<config, live, cmdline>>
  BY DEF TypeInv, TypeOK, RootInv, SlateSteps, PruneAuto
<1>2. boot'.clean => boot.clean /\ boot'.ckpt = boot.ckpt
  BY <1>1 DEF PruneAuto, Failed, BootRecord
<1>3. ASSUME boot'.clean, config.retain > 0 PROVE BootLeavesRollbackPoint'
  <2>1. PICK c \in Of(Target) :
          /\ NameOf(c) = boot.ckpt /\ c.work = live[Target]
          /\ \A d \in Of(Target) : d.seq <= c.seq
    BY <1>1, <1>2, <1>3 DEF PointInv
  <2>2. c \notin PruneSet(Target)
    BY BoundsAssumption, <1>1, <1>3, <2>1, NewestNotPruned
  <2>3. c \in ckpts'
    BY <2>1, <2>2 DEF PruneAuto, Of
  <2>4. c \in Of(Target)'
    BY <1>1, <2>1, <2>3 DEF Of
  <2> QED
    BY <1>1, <1>2, <1>3, <2>1, <2>4 DEF BootLeavesRollbackPoint, NameOf
<1> QED
  BY <1>1, <1>3 DEF PointInv, BootLeavesRollbackPoint

LEMMA NextPoint ==
  ASSUME MaxSeq <= 8, TypeInv, BoundInv, NumberInv, PointInv, [Next]_vars PROVE PointInv'
<1> USE DEF Target, fsVars, diskVars
<1>1. CASE HookStep
  <2>1. CASE Mount
    <3>1. pc' \in {"clear", "facts", "ensure"} /\ (pc' = "facts" => Target = Baseline)
          /\ cmdline' = cmdline
      BY <2>1 DEF Mount
    <3> QED
      BY NamesAssumption, <3>1 DEF PointInv, BootLeavesRollbackPoint
  <2>2. CASE MountFails \/ SlateExists \/ CreateSlate \/ NothingStaged \/ DropStaged
             \/ PreCheckpoint \/ PreCheckpointFails \/ Unstage \/ RemoveSlate
             \/ RestoreSlate \/ ClearScratch \/ WriteFacts
    <3>1. pc' \in {"panic", "pending", "checkpoint", "unstage", "remove", "restore", "copy", "up"}
      BY <2>2 DEF MountFails, SlateExists, CreateSlate, NothingStaged, DropStaged,
         PreCheckpoint, PreCheckpointFails, Unstage, RemoveSlate, RestoreSlate,
         ClearScratch, WriteFacts, Panic
    <3> QED
      BY <3>1 DEF PointInv, BootLeavesRollbackPoint
  <2>3. CASE AutoCheckpointOff
    BY <2>3 DEF AutoCheckpointOff, PointInv, BootLeavesRollbackPoint
  <2>4. CASE CopyBasis
    <3>1. pc' \in {"panic", "facts"} /\ Target' \notin Slate
      BY NamesAssumption, <2>4 DEF CopyBasis, Panic, TypeInv, RootInv
    <3> QED
      BY <3>1 DEF PointInv, BootLeavesRollbackPoint
  <2> QED
    BY <1>1, <2>1, <2>2, <2>3, <2>4, TakePoint, PrunePoint DEF HookStep
<1>2. CASE BootAny \/ EditSlate \/ EditScratch \/ Configure \/ RunCommand \/ PowerOff
  <2>1. pc' \in {"mount", "up", "off"}
    BY <1>2 DEF BootAny, BootScratch, BootRescue, BootSlate, PowerOn, EditSlate,
       EditScratch, Configure, RunCommand, PowerOff, hookVars
  <2> QED
    BY <2>1 DEF PointInv, BootLeavesRollbackPoint
<1>3. CASE UNCHANGED vars
  BY <1>3 DEF vars, hookVars, PointInv, BootLeavesRollbackPoint, Of
<1> QED
  BY <1>1, <1>2, <1>3 DEF Next

(***************************************************************************)
(* With automatic checkpoints on and at least one retained, a boot in      *)
(* which no command failed leaves a checkpoint of exactly the root it      *)
(* hands over, under the name it records (checkpoint_slate, prune_auto),   *)
(* while numbers are up to eight.                                          *)
(***************************************************************************)
THEOREM RollbackPointLeft == ASSUME UpTo(8) PROVE Spec => []BootLeavesRollbackPoint
<1> DEFINE Inv == TypeInv /\ BoundInv /\ NumberInv /\ PointInv
<1>1. Init => Inv
  BY InitType, InitBound, InitNumber, InitPoint DEF UpTo
<1>2. Inv /\ [Next]_vars => Inv'
  BY NextType, NextBound, NextNumber, NextPoint DEF UpTo
<1>3. Inv => BootLeavesRollbackPoint
  BY DEF PointInv
<1> QED
  BY <1>1, <1>2, <1>3, PTL DEF Spec
=============================================================================
