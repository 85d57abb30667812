--------------------------- MODULE MachineProofs ---------------------------
(***************************************************************************)
(* Machine-checked proofs about Machine, for every set of slates, every    *)
(* configuration, every choice of what may fail and every bound.           *)
(***************************************************************************)
EXTENDS MachineProperties, TLAPS

(***************************************************************************)
(* Which root each step of the boot is about.                              *)
(***************************************************************************)
SlateSteps == {"ensure", "pending", "unstage", "remove", "restore",
               "checkpoint", "prune"}

RootInv ==
  /\ pc # "off" => Target \in Targets
  /\ pc \in SlateSteps => Target \in Slate
  /\ pc \in {"clear", "copy"} => Target = Runtime
  /\ pc \notin {"off", "mount", "panic", "up"} =>
       boot.basis \in Targets /\ (Target # Runtime => boot.basis = Target)

(***************************************************************************)
(* What the facts can say of a running system.                             *)
(***************************************************************************)
FactsInv ==
  facts # None => /\ pc = "up"
                  /\ Target # Runtime => facts.name = Target
                  /\ facts.basis \in {facts.name, None}
                  /\ facts.mode \in {ModeOf(Target), "unknown"}

TypeInv == TypeOK /\ RootInv /\ FactsInv

(***************************************************************************)
(* Every snapshot has a content a slate can hold.                          *)
(***************************************************************************)
LEMMA ContentsType == ASSUME TypeOK, NEW v PROVE Contents(v) \subseteq Work
  BY BoundsAssumption DEF TypeOK, Contents, Named, Checkpoint, Work, Pristine

(***************************************************************************)
(* Both numberings give natural numbers.                                   *)
(***************************************************************************)
LEMMA ShellNextType == ASSUME NEW S \in SUBSET Nat PROVE ShellNext(S) \subseteq Nat
  BY DEF ShellNext, Latest, ShellValue, Illegal, Blank

LEMMA GoNextType == ASSUME NEW S \in SUBSET Nat PROVE GoNext(S) \subseteq Nat
  BY DEF GoNext, Latest, Blank

LEMMA SeqsType == ASSUME TypeOK, NEW s PROVE Seqs(Of(s)) \subseteq Nat
  BY DEF TypeOK, Seqs, Of, Checkpoint

(***************************************************************************)
(* A snapshot to a well-formed name leaves well-formed checkpoints.        *)
(***************************************************************************)
LEMMA SnapshotType ==
  ASSUME TypeOK, NEW s \in Slate, NEW n \in Name, SnapshotTo(s, n)
  PROVE  ckpts' \subseteq Checkpoint
  BY DEF TypeOK, SnapshotTo, Checkpoint, Name

LEMMA PreNameType == ASSUME TypeOK, NEW s \in Slate PROVE PreName(s) \subseteq Name
  BY SeqsType, ShellNextType DEF PreName, Name, Class

LEMMA AutoNameType == ASSUME TypeOK, NEW s \in Slate PROVE AutoName(s) \subseteq Name
  BY SeqsType, ShellNextType DEF AutoName, Name, Class

LEMMA NameOfType == ASSUME NEW c \in Checkpoint PROVE NameOf(c) \in Name
  BY DEF NameOf, Checkpoint, Name

LEMMA InitType == Init => TypeInv
  <1> SUFFICES ASSUME Init PROVE TypeInv
    OBVIOUS
  <1>1. ckpts \subseteq Checkpoint
    BY MainAssumption, BoundsAssumption DEF Init, FsInit, Checkpoint, Class, Work, Pristine
  <1>2. live \in [Slate -> Work \cup {Absent}] /\ runtime \in Work \cup {Absent}
    BY BoundsAssumption DEF Init, FsInit, Work, Pristine
  <1>3. boot \in BootRecord
    BY DEF Init, Idle, BootRecord
  <1>4. cmdline \in [subvol : Targets \cup {None}, basis : Targets \cup {None}]
    BY DEF Init, FsInit, NoCmdline, Targets
  <1> QED
    BY MainAssumption, ConfigsAssumption, <1>1, <1>2, <1>3, <1>4
    DEF Init, FsInit, TypeInv, TypeOK, RootInv, FactsInv, Step, SlateSteps, Pristine

(***************************************************************************)
(* The root is mounted on the way to one of three kinds of boot.           *)
(***************************************************************************)
LEMMA MountType == TypeInv /\ Mount => TypeInv'
  <1> SUFFICES ASSUME TypeInv, Mount PROVE TypeInv'
    OBVIOUS
  <1> USE DEF TypeInv, TypeOK, RootInv, FactsInv, Target, SlateSteps, Step
  <1>1. ResolveBasis(cmdline.basis) \in Targets
    BY DEF ResolveBasis, Targets
  <1>2. Target \in Targets
    BY DEF Mount
  <1>3. boot' \in BootRecord
    BY <1>1, <1>2 DEF Mount, BootRecord
  <1>4. boot'.basis \in Targets /\ (Target # Runtime => boot'.basis = Target)
    BY <1>1, <1>2 DEF Mount, BootRecord
  <1>5. /\ pc' \in {"clear", "facts", "ensure"}
        /\ pc' = "clear" => Target = Runtime
        /\ pc' = "ensure" => Target \in Slate
    BY <1>2 DEF Mount, Targets
  <1> QED
    BY <1>3, <1>4, <1>5 DEF Mount, fsVars, diskVars

(***************************************************************************)
(* Every step of the hook keeps the types.                                 *)
(***************************************************************************)
LEMMA HookType == TypeInv /\ HookStep => TypeInv'
  <1> SUFFICES ASSUME TypeInv, HookStep PROVE TypeInv'
    OBVIOUS
  <1> USE DEF TypeInv, TypeOK, RootInv, FactsInv, Target, SlateSteps, Step,
              fsVars, diskVars
  <1>1. CASE Mount
    BY <1>1, MountType
  <1>1a. CASE MountFails
    BY <1>1a DEF MountFails, Panic, Failed, BootRecord
  <1>2. CASE SlateExists
    BY <1>2 DEF SlateExists
  <1>3. CASE CreateSlate
    <2>1. live' \in [Slate -> Work \cup {Absent}]
      BY BoundsAssumption, <1>3 DEF CreateSlate, Work, Pristine
    <2>2. boot' \in BootRecord /\ boot'.basis = boot.basis
      BY <1>3 DEF CreateSlate, Panic, Failed, BootRecord
    <2>3. pc' \in {"pending", "panic"}
      BY <1>3 DEF CreateSlate, Panic
    <2> QED
      BY <1>3, <2>1, <2>2, <2>3 DEF CreateSlate
  <1>4. CASE NothingStaged
    BY <1>4 DEF NothingStaged
  <1>5. CASE DropStaged
    <2>1. boot' \in BootRecord /\ boot'.basis = boot.basis /\ pending' \in {pending, None}
      BY <1>5 DEF DropStaged, RemoveStaged, BootRecord
    <2> QED
      BY <1>5, <2>1 DEF DropStaged
  <1>6. CASE PreCheckpoint
    <2>1. Target \in Slate
      BY <1>6 DEF PreCheckpoint
    <2>2. ckpts' \subseteq Checkpoint
      BY <1>6, <2>1, PreNameType, SnapshotType DEF PreCheckpoint
    <2>3. boot' \in BootRecord /\ boot'.basis = boot.basis
      BY <1>6 DEF PreCheckpoint, BootRecord, Mine
    <2> QED
      BY <1>6, <2>2, <2>3 DEF PreCheckpoint
  <1>7. CASE PreCheckpointFails
    <2>1. boot' \in BootRecord /\ boot'.basis = boot.basis /\ pending' \in {pending, None}
      BY <1>7 DEF PreCheckpointFails, RemoveStaged, Failed, BootRecord
    <2> QED
      BY <1>7, <2>1 DEF PreCheckpointFails
  <1>8. CASE Unstage
    <2>1. boot' \in BootRecord /\ boot'.basis = boot.basis /\ pending' \in {pending, None}
      BY <1>8 DEF Unstage, RemoveStaged, BootRecord
    <2> QED
      BY <1>8, <2>1 DEF Unstage
  <1>9. CASE RemoveSlate
    BY <1>9 DEF RemoveSlate, Panic, Failed, BootRecord
  <1>10. CASE RestoreSlate
    <2>1. live' \in [Slate -> Work \cup {Absent}]
      BY <1>10, ContentsType DEF RestoreSlate
    <2> QED
      BY <1>10, <2>1 DEF RestoreSlate, Panic, Failed, BootRecord
  <1>11. CASE TakeCheckpoint
    <2>1. Target \in Slate
      BY <1>11 DEF TakeCheckpoint
    <2>2. PICK n \in AutoName(Target) :
            /\ SnapshotTo(Target, n)
            /\ boot' = [boot EXCEPT !.ckpt = n]
      BY <1>11 DEF TakeCheckpoint
    <2>3. n \in Name
      BY <2>1, AutoNameType
    <2>4. ckpts' \subseteq Checkpoint
      BY <2>1, <2>2, <2>3, SnapshotType
    <2>5. boot' \in BootRecord /\ boot'.basis = boot.basis
      BY <2>2, <2>3 DEF BootRecord
    <2> QED
      BY <1>11, <2>4, <2>5 DEF TakeCheckpoint
  <1>12. CASE CheckpointFails
    BY <1>12 DEF CheckpointFails, Failed, BootRecord
  <1>13. CASE AutoCheckpointOff
    BY <1>13 DEF AutoCheckpointOff, BootRecord
  <1>14. CASE PruneAuto
    <2>1. ckpts' \subseteq Checkpoint
      BY <1>14 DEF PruneAuto, PruneSet, AutosOf, Of
    <2>2. boot' \in BootRecord /\ boot'.basis = boot.basis
      BY <1>14 DEF PruneAuto, Failed, BootRecord
    <2> QED
      BY <1>14, <2>1, <2>2 DEF PruneAuto
  <1>15. CASE ClearScratch
    BY <1>15 DEF ClearScratch, Panic, Failed, BootRecord
  <1>16. CASE CopyBasis
    <2>1. runtime' \in Work \cup {Absent}
      BY <1>16, ContentsType DEF CopyBasis
    <2> QED
      BY <1>16, <2>1 DEF CopyBasis, Panic, Failed, BootRecord
  <1>17. CASE WriteFacts
    <2>1. PICK lost \in SUBSET FactFiles : facts' = Facts(lost)
      BY <1>17 DEF WriteFacts
    <2>2. boot.basis \in Targets /\ (Target # Runtime => boot.basis = Target)
      BY <1>17 DEF WriteFacts
    <2>3. CASE "slate" \in lost
      <3>1. facts' = None
        BY <2>1, <2>3 DEF Facts
      <3>2. boot' \in BootRecord
        BY <1>17 DEF WriteFacts, Idle, BootRecord
      <3> QED
        BY <1>17, <3>1, <3>2 DEF WriteFacts
    <2>4. CASE "slate" \notin lost
      <3>1. /\ Facts(lost) \in FactsRecord
            /\ Facts(lost).name = boot.basis
            /\ Facts(lost).basis \in {boot.basis, None}
            /\ Facts(lost).mode \in {ModeOf(Target), "unknown"}
        <4>1. cmdline.basis \in Targets \cup {None} /\ Target \in Targets
          BY <1>17 DEF WriteFacts
        <4>2. ModeOf(Target) \in {"persistent", "scratch", "rescue"}
          BY DEF ModeOf
        <4> HIDE DEF Target
        <4> QED
          BY <2>2, <2>4, <4>1, <4>2 DEF Facts, FactsRecord, BootRecord
      <3>2. boot' \in BootRecord
        BY <1>17 DEF WriteFacts, Idle, BootRecord
      <3> QED
        BY <1>17, <2>1, <2>2, <3>1, <3>2 DEF WriteFacts, ModeOf
    <2> QED
      BY <2>3, <2>4
  <1> QED
    BY <1>1, <1>1a, <1>2, <1>3, <1>4, <1>5, <1>6, <1>7, <1>8, <1>9, <1>10,
       <1>11, <1>12, <1>13, <1>14, <1>15, <1>16, <1>17 DEF HookStep

(***************************************************************************)
(* A command that says it runs on a persistent root runs on a slate, and   *)
(* on the one the machine has booted.                                      *)
(***************************************************************************)
LEMMA BootedRoot ==
  ASSUME TypeInv, pc = "up", Booted.mode = "persistent"
  PROVE  Target \in Slate /\ Booted.name = Target
  <1>1. Target \in Targets
    BY DEF TypeInv, RootInv
  <1>2. CASE facts = None
    BY <1>1, <1>2 DEF Booted, ModeFrom, Targets, Target
  <1>3. CASE facts # None
    <2>1. /\ facts.mode \in {ModeOf(Target), "unknown"}
          /\ Target # Runtime => facts.name = Target
      BY <1>3 DEF TypeInv, FactsInv
    <2> QED
      BY <1>1, <1>3, <2>1 DEF Booted, ModeOf, Targets
  <1> QED
    BY <1>2, <1>3

LEMMA CommandType ==
  ASSUME TypeInv, pc = "up", Command, UNCHANGED hookVars PROVE TypeInv'
  <1> USE DEF TypeInv, TypeOK, RootInv, FactsInv, Target, SlateSteps, Step,
              hookVars
  <1>1. CASE CreateCheckpoint
    <2>1. Target \in Slate /\ Booted.name = Target /\ TypeOK
      BY <1>1, BootedRoot DEF CreateCheckpoint
    <2>2. PICK n \in GoNext(Seqs(Listed(Target))) :
            SnapshotTo(Target, [slate |-> Target, seq |-> n, class |-> "keep"])
      BY <1>1, <2>1 DEF CreateCheckpoint
    <2>3. n \in Nat
      BY GoNextType DEF Seqs, Listed, Of, Checkpoint
    <2>4. [slate |-> Target, seq |-> n, class |-> "keep"] \in Name
      BY <2>1, <2>3 DEF Name, Class
    <2>5. ckpts' \subseteq Checkpoint
      BY <2>1, <2>2, <2>4, SnapshotType
    <2> QED
      BY <1>1, <2>5 DEF CreateCheckpoint, ModeOf
  <1>2. ASSUME NEW s \in Slate, NEW seq \in Nat, Rollback(s, seq) PROVE TypeInv'
    <2>1. PICK c \in Listed(s) : StagePending(s, NameOf(c))
      BY <1>2 DEF Rollback
    <2>2. NameOf(c) \in Source
      BY NameOfType DEF Listed, Of, Source
    <2> QED
      BY <2>1, <2>2 DEF StagePending, ModeOf
  <1>3. ASSUME NEW s \in Slate, Reset(s) PROVE TypeInv'
    BY <1>3 DEF Reset, StagePending, Source, ModeOf
  <1>4. ASSUME NEW s \in Slate, NEW v, Fork(s, v) PROVE TypeInv'
    <2>1. live' \in [Slate -> Work \cup {Absent}]
      BY <1>4, ContentsType DEF Fork
    <2> QED
      BY <1>4, <2>1 DEF Fork, ModeOf
  <1>5. ASSUME NEW s \in Slate, Discard(s) PROVE TypeInv'
    <2>1. ckpts' \subseteq Checkpoint /\ entries' \subseteq Slate
      BY <1>5 DEF Discard
    <2>2. live' \in [Slate -> Work \cup {Absent}]
      BY <1>5 DEF Discard
    <2> QED
      BY <1>5, <2>1, <2>2 DEF Discard, ModeOf
  <1>6. ASSUME NEW s \in Slate, DiscardStopsEarly(s) PROVE TypeInv'
    <2>1. ckpts' \subseteq Checkpoint
      BY <1>6 DEF DiscardStopsEarly
    <2> QED
      BY <1>6, <2>1 DEF DiscardStopsEarly, ModeOf
  <1>7. ASSUME NEW s \in Slate, ForkTop(s) PROVE TypeInv'
    <2>1. clock' \in Nat /\ clock' \in Work
      BY BoundsAssumption, <1>7 DEF ForkTop, Work
    <2> QED
      BY <1>7, <2>1, MainAssumption DEF ForkTop, ModeOf
  <1> QED
    BY <1>1, <1>2, <1>3, <1>4, <1>5, <1>6, <1>7 DEF Command

LEMMA GoalType ==
  ASSUME TypeOK, NEW t, NEW asked PROVE GoalFor(t, asked) \subseteq Work
  BY ContentsType, BoundsAssumption DEF GoalFor, Work, Pristine

LEMMA PowerOnType ==
  ASSUME TypeInv, NEW t \in Targets, NEW asked \in Targets \cup {None},
         PowerOn(t, asked)
  PROVE  TypeInv'
  <1> USE DEF TypeInv, TypeOK, RootInv, FactsInv, SlateSteps, Step
  <1>1. boot' \in BootRecord
    <2>1. PICK w \in GoalFor(t, asked) : boot' = [Idle EXCEPT !.goal = w]
      BY DEF PowerOn
    <2>2. w \in Work
      BY GoalType
    <2> QED
      BY <2>1, <2>2 DEF Idle, BootRecord
  <1>2. cmdline' \in [subvol : Targets \cup {None}, basis : Targets \cup {None}]
    BY DEF PowerOn
  <1>3. pc' = "mount" /\ Target' \in Targets /\ facts' = None
    BY DEF PowerOn, Target
  <1>4. TypeOK'
    BY <1>1, <1>2, <1>3 DEF PowerOn, diskVars
  <1>5. RootInv' /\ FactsInv'
    BY <1>3
  <1> QED
    BY <1>4, <1>5

LEMMA NextType == TypeInv /\ [Next]_vars => TypeInv'
  <1> SUFFICES ASSUME TypeInv, [Next]_vars PROVE TypeInv'
    OBVIOUS
  <1> USE DEF TypeInv, TypeOK, RootInv, FactsInv, Target, SlateSteps, Step,
              hookVars, fsVars, diskVars
  <1>1. CASE BootAny
    BY BasesAssumption, <1>1, PowerOnType
    DEF BootAny, BootScratch, BootRescue, BootSlate, Targets
  <1>2. CASE HookStep
    BY <1>2, HookType
  <1>3. CASE EditSlate
    <2>1. clock' \in Nat /\ clock' \in Work
      BY BoundsAssumption, <1>3 DEF EditSlate, Work
    <2> QED
      BY <1>3, <2>1 DEF EditSlate, ModeOf
  <1>4. CASE EditScratch
    <2>1. clock' \in Nat /\ clock' \in Work
      BY BoundsAssumption, <1>4 DEF EditScratch, Work
    <2> QED
      BY <1>4, <2>1 DEF EditScratch, ModeOf
  <1>5. CASE Configure
    BY ConfigsAssumption, <1>5 DEF Configure, ModeOf
  <1>6. CASE RunCommand
    BY <1>6, CommandType DEF RunCommand
  <1>7. CASE PowerOff
    <2>1. boot' \in BootRecord
      BY <1>7 DEF PowerOff, Idle, BootRecord
    <2>2. cmdline' \in [subvol : Targets \cup {None}, basis : Targets \cup {None}]
      BY <1>7 DEF PowerOff, NoCmdline
    <2> QED
      BY <1>7, <2>1, <2>2 DEF PowerOff
  <1>8. CASE UNCHANGED vars
    BY <1>8 DEF vars, ModeOf
  <1> QED
    BY <1>1, <1>2, <1>3, <1>4, <1>5, <1>6, <1>7, <1>8 DEF Next

(***************************************************************************)
(* Type correctness, whatever fails and whenever power is lost.            *)
(***************************************************************************)
THEOREM TypeCorrect == Spec => []TypeOK
  <1>1. Spec => []TypeInv
    BY InitType, NextType, PTL DEF Spec
  <1>2. TypeInv => TypeOK
    BY DEF TypeInv
  <1> QED
    BY <1>1, <1>2, PTL

-----------------------------------------------------------------------------
(***************************************************************************)
(* Keeping the promises of SlateStore.  The invariant says where the work  *)
(* of the slate being booted is at each step: in the slate until it is     *)
(* kept, in the slate and in a kept checkpoint until it is removed.  While *)
(* the system runs, the slate is there unless the facts are torn: the      *)
(* commands trust the mode and the basis they find there.                  *)
(***************************************************************************)
WholeFacts == "mode" \notin Faults /\ "basis" \notin Faults

KeepInv ==
  /\ pc \in {"pending", "unstage", "remove", "checkpoint", "prune"} =>
       live[Target] # Absent
  /\ pc = "facts" /\ Target \in Slate => live[Target] # Absent
  /\ RunningSlateStays
  /\ pc \in {"unstage", "remove"} => live[Target] \in KeptOf(Target)
  /\ pc = "restore" => live[Target] = Absent
  /\ WholeFacts => ~Torn

LEMMA AbsentIsNoWork == Absent \notin Work
  BY BoundsAssumption DEF Absent, Work

(***************************************************************************)
(* What a snapshot adds to the kept contents.                              *)
(***************************************************************************)
LEMMA KeptMember ==
  ASSUME NEW t, NEW w
  PROVE  /\ w \in KeptOf(t) <=>
              \E c \in ckpts : c.slate = t /\ c.class = "keep" /\ c.work = w
         /\ w \in KeptOf(t)' <=>
              \E c \in ckpts' : c.slate = t /\ c.class = "keep" /\ c.work = w
  BY DEF KeptOf, Of

LEMMA SnapshotKeeps ==
  ASSUME NEW s \in Slate, NEW n \in Name, n.slate = s, n.class = "keep",
         SnapshotTo(s, n)
  PROVE  /\ KeptOf(s)' = KeptOf(s) \cup {live[s]}
         /\ \A t \in Slate \ {s} : KeptOf(t)' = KeptOf(t)
  <1> DEFINE new == [slate |-> n.slate, seq |-> n.seq,
                     class |-> n.class, work |-> live[s]]
  <1>1. ckpts' = ckpts \cup {new}
    BY DEF SnapshotTo
  <1>2. new.slate = s /\ new.class = "keep" /\ new.work = live[s]
    OBVIOUS
  <1> HIDE DEF new
  <1>3. \A w : w \in KeptOf(s)' <=> w \in KeptOf(s) \/ w = live[s]
    BY <1>1, <1>2, KeptMember
  <1>4. \A t \in Slate \ {s} : \A w : w \in KeptOf(t)' <=> w \in KeptOf(t)
    BY <1>1, <1>2, KeptMember
  <1> QED
    BY <1>3, <1>4

LEMMA SnapshotAuto ==
  ASSUME NEW s \in Slate, NEW n \in Name, n.class = "auto", SnapshotTo(s, n)
  PROVE  \A t \in Slate : KeptOf(t)' = KeptOf(t)
  BY DEF SnapshotTo, KeptOf, Of, Name

(***************************************************************************)
(* Unless its facts are torn, a command on a slate knows that it is in     *)
(* use.                                                                    *)
(***************************************************************************)
LEMMA RootKnown ==
  ASSUME TypeInv, ~Torn, pc = "up", Target \in Slate
  PROVE  Booted.basis = Target /\ Booted.mode = "persistent"
  <1>1. CASE facts = None
    BY NamesAssumption, <1>1 DEF Booted, ModeFrom, Target
  <1>2. CASE facts # None
    <2>1. facts.mode = ModeOf(Target) /\ facts.basis = Target
      BY NamesAssumption, <1>2 DEF TypeInv, FactsInv, Torn
    <2> QED
      BY NamesAssumption, <1>2, <2>1 DEF Booted, ModeOf
  <1> QED
    BY <1>1, <1>2

LEMMA HookKeeps ==
  ASSUME TypeInv, KeepInv, HookStep PROVE KeepInv'
  <1> USE DEF KeepInv, RunningSlateStays, Torn, Target, fsVars, diskVars
  <1>0. TypeOK /\ (pc \in SlateSteps => Target \in Slate) /\ facts = None
    BY DEF TypeInv, RootInv, FactsInv, HookStep, Mount, MountFails, SlateExists,
       CreateSlate, NothingStaged, DropStaged, PreCheckpoint,
       PreCheckpointFails, Unstage, RemoveSlate, RestoreSlate, TakeCheckpoint,
       CheckpointFails, AutoCheckpointOff, PruneAuto, ClearScratch, CopyBasis,
       WriteFacts
  <1>1. CASE Mount
    <2>1. pc' = "facts" => Target = Baseline
      BY <1>1 DEF Mount
    <2>2. pc' \in {"clear", "facts", "ensure"}
      BY <1>1 DEF Mount
    <2> QED
      BY NamesAssumption, <1>0, <1>1, <2>1, <2>2 DEF Mount
  <1>1a. CASE MountFails
    BY <1>0, <1>1a DEF MountFails, Panic
  <1>2. CASE SlateExists
    BY <1>0, <1>2 DEF SlateExists
  <1>3. CASE CreateSlate
    <2>1. pc' = "pending" => live'[Target] = Pristine
      BY <1>0, <1>3 DEF CreateSlate, Panic, TypeOK, SlateSteps
    <2>2. pc' \in {"pending", "panic"}
      BY <1>3 DEF CreateSlate, Panic
    <2> QED
      BY <1>0, <1>3, <2>1, <2>2 DEF CreateSlate, Pristine, Absent
  <1>4. CASE NothingStaged
    BY <1>0, <1>4 DEF NothingStaged
  <1>5. CASE DropStaged
    BY <1>0, <1>5 DEF DropStaged
  <1>6. CASE PreCheckpoint
    <2>1. Target \in Slate
      BY <1>0, <1>6 DEF PreCheckpoint, SlateSteps
    <2>2. PICK n \in PreName(Target) : SnapshotTo(Target, n)
      BY <1>6 DEF PreCheckpoint
    <2>3. n \in Name /\ n.slate = Target /\ n.class = "keep"
      BY <1>0, <2>1, PreNameType DEF PreName
    <2>4. \A t \in Slate : t = Target => live[t] \in KeptOf(t)'
      BY <2>2, <2>3, SnapshotKeeps
    <2>5. (live[Target] \in KeptOf(Target))'
      BY <1>6, <2>1, <2>4 DEF PreCheckpoint, KeptOf, Of
    <2> QED
      BY <1>0, <1>6, <2>5 DEF PreCheckpoint
  <1>7. CASE PreCheckpointFails
    BY <1>0, <1>7 DEF PreCheckpointFails
  <1>8. CASE Unstage
    BY <1>0, <1>8 DEF Unstage, KeptOf, Of
  <1>9. CASE RemoveSlate
    <2>1. pc' = "restore" => live'[Target] = Absent
      BY <1>0, <1>9 DEF RemoveSlate, Panic, TypeOK, SlateSteps
    <2>2. pc' \in {"restore", "panic"}
      BY <1>9 DEF RemoveSlate, Panic
    <2> QED
      BY <1>0, <1>9, <2>1, <2>2 DEF RemoveSlate
  <1>10. CASE RestoreSlate
    <2>1. pc' = "checkpoint" => live'[Target] \in Work
      BY <1>0, <1>10, ContentsType DEF RestoreSlate, Panic, TypeOK, SlateSteps
    <2>2. pc' \in {"checkpoint", "panic"}
      BY <1>10 DEF RestoreSlate, Panic
    <2> QED
      BY <1>0, <1>10, <2>1, <2>2, AbsentIsNoWork DEF RestoreSlate
  <1>11. CASE TakeCheckpoint
    BY <1>0, <1>11 DEF TakeCheckpoint
  <1>12. CASE CheckpointFails
    BY <1>0, <1>12 DEF CheckpointFails
  <1>13. CASE AutoCheckpointOff
    BY <1>0, <1>13 DEF AutoCheckpointOff
  <1>14. CASE PruneAuto
    BY <1>0, <1>14 DEF PruneAuto
  <1>15. CASE ClearScratch
    BY <1>0, <1>15 DEF ClearScratch, Panic
  <1>16. CASE CopyBasis
    <2>1. Target \notin Slate
      BY <1>16, NamesAssumption DEF CopyBasis, TypeInv, RootInv
    <2> QED
      BY <1>0, <1>16, <2>1 DEF CopyBasis, Panic
  <1>17. CASE WriteFacts
    <2>1. PICK lost \in SUBSET (FactFiles \cap Faults) : facts' = Facts(lost)
      BY <1>17 DEF WriteFacts
    <2>2. boot.basis \in Targets
      BY <1>17 DEF WriteFacts, TypeInv, RootInv
    <2>3. ASSUME WholeFacts, facts' # None
          PROVE  facts'.mode = ModeOf(Target) /\ facts'.basis = boot.basis
      BY <2>1, <2>3 DEF WholeFacts, Facts
    <2>4. ModeOf(Target) # "unknown" /\ boot.basis # None
      BY NamesAssumption, <2>2 DEF ModeOf, Targets
    <2>5. WholeFacts => ~Torn'
      BY <2>3, <2>4
    <2> QED
      BY <1>0, <1>17, <2>5 DEF WriteFacts
  <1> QED
    BY <1>1, <1>1a, <1>2, <1>3, <1>4, <1>5, <1>6, <1>7, <1>8, <1>9, <1>10,
       <1>11, <1>12, <1>13, <1>14, <1>15, <1>16, <1>17 DEF HookStep

LEMMA CommandKeeps ==
  ASSUME TypeInv, KeepInv, pc = "up", Command, UNCHANGED hookVars
  PROVE  KeepInv'
  <1> USE DEF KeepInv, RunningSlateStays, Torn, Target, hookVars
  <1>0. live \in [Slate -> Work \cup {Absent}]
    BY DEF TypeInv, TypeOK
  <1>1. CASE CreateCheckpoint
    BY <1>1 DEF CreateCheckpoint
  <1>2. ASSUME NEW s \in Slate, NEW seq \in Nat, Rollback(s, seq) PROVE KeepInv'
    BY <1>2 DEF Rollback, StagePending
  <1>3. ASSUME NEW s \in Slate, Reset(s) PROVE KeepInv'
    BY <1>3 DEF Reset, StagePending
  <1>4. ASSUME NEW s \in Slate, NEW v, Fork(s, v) PROVE KeepInv'
    <2>1. Target \in Slate /\ ~Torn => Target # s
      BY <1>4 DEF Fork
    <2> QED
      BY <1>0, <1>4, <2>1 DEF Fork
  <1>5. ASSUME NEW s \in Slate, Discard(s) PROVE KeepInv'
    <2>1. Target \in Slate /\ ~Torn => Target # s
      BY <1>5, RootKnown DEF Discard, Discardable
    <2> QED
      BY <1>0, <1>5, <2>1 DEF Discard
  <1>6. ASSUME NEW s \in Slate, DiscardStopsEarly(s) PROVE KeepInv'
    BY <1>6 DEF DiscardStopsEarly
  <1>7. ASSUME NEW s \in Slate, ForkTop(s) PROVE KeepInv'
    <2>1. Target \in Slate /\ ~Torn => Target # s
      BY <1>7 DEF ForkTop
    <2> QED
      BY <1>0, <1>7, <2>1 DEF ForkTop
  <1> QED
    BY <1>1, <1>2, <1>3, <1>4, <1>5, <1>6, <1>7 DEF Command

LEMMA NextKeeps ==
  ASSUME TypeInv, KeepInv, [Next]_vars PROVE KeepInv'
  <1> USE DEF KeepInv, RunningSlateStays, Torn, Target, hookVars, fsVars, diskVars
  <1>0. /\ live \in [Slate -> Work \cup {Absent}]
        /\ clock \in Nat
        /\ pc = "off" => facts = None
    BY DEF TypeInv, TypeOK, FactsInv
  <1>1. CASE BootAny
    BY <1>0, <1>1 DEF BootAny, BootScratch, BootRescue, BootSlate, PowerOn
  <1>2. CASE HookStep
    BY <1>2, HookKeeps
  <1>3. CASE EditSlate
    <2>1. clock' # Absent
      BY <1>0, <1>3 DEF EditSlate, Absent
    <2> QED
      BY <1>0, <1>3, <2>1 DEF EditSlate
  <1>4. CASE EditScratch
    BY <1>4 DEF EditScratch
  <1>5. CASE Configure
    BY <1>5 DEF Configure
  <1>6. CASE RunCommand
    BY <1>6, CommandKeeps DEF RunCommand
  <1>7. CASE PowerOff
    BY <1>7 DEF PowerOff
  <1>8. CASE UNCHANGED vars
    BY <1>8 DEF vars, KeptOf, Of
  <1> QED
    BY <1>1, <1>2, <1>3, <1>4, <1>5, <1>6, <1>7, <1>8 DEF Next

(***************************************************************************)
(* Each step of the machine is a step of SlateStore, or changes nothing    *)
(* SlateStore sees.                                                        *)
(***************************************************************************)
StoreStep == [Store!Next]_Store!vars

LEMMA SameKept ==
  ASSUME \A t \in Slate : KeptOf(t)' = KeptOf(t)
  PROVE  [t \in Slate |-> KeptOf(t)]' = [t \in Slate |-> KeptOf(t)]
  OBVIOUS

LEMMA SameCkpts ==
  ASSUME ckpts' = ckpts
  PROVE  [t \in Slate |-> KeptOf(t)]' = [t \in Slate |-> KeptOf(t)]
  BY DEF KeptOf, Of

LEMMA HookStores ==
  ASSUME TypeInv, KeepInv, HookStep PROVE StoreStep
  <1> USE DEF Target, fsVars, diskVars
  <1>0. TypeOK /\ (pc \in SlateSteps => Target \in Slate)
    BY DEF TypeInv, RootInv
  <1>1. CASE Mount \/ MountFails \/ SlateExists \/ NothingStaged \/ DropStaged
             \/ PreCheckpointFails \/ Unstage \/ CheckpointFails
             \/ AutoCheckpointOff \/ ClearScratch \/ CopyBasis
    <2>1. ckpts' = ckpts /\ live' = live /\ pc # "up" /\ pc' # "up"
      BY <1>1 DEF Mount, MountFails, SlateExists, NothingStaged, DropStaged,
         PreCheckpointFails, Unstage, CheckpointFails, AutoCheckpointOff,
         ClearScratch, CopyBasis, Panic
    <2> QED
      BY <2>1, SameCkpts DEF StoreStep, Store!vars
  <1>2. CASE CreateSlate
    <2>1. ckpts' = ckpts /\ pc # "up" /\ pc' # "up" /\ Target \in Slate
      BY <1>0, <1>2 DEF CreateSlate, Panic, SlateSteps
    <2>2. CASE live' = [live EXCEPT ![Target] = Pristine]
      <3>1. Store!Create(Target, Pristine)
        BY <1>2, <2>1, <2>2, SameCkpts DEF CreateSlate, Store!Create
      <3>2. Pristine \in Work
        BY BoundsAssumption DEF Pristine, Work
      <3> QED
        BY <2>1, <3>1, <3>2 DEF StoreStep, Store!Next
    <2>3. CASE live' = live
      BY <2>1, <2>3, SameCkpts DEF StoreStep, Store!vars
    <2> QED
      BY <1>2, <2>2, <2>3 DEF CreateSlate
  <1>3. CASE PreCheckpoint
    <2>1. Target \in Slate /\ live[Target] # Absent
      BY <1>0, <1>3 DEF PreCheckpoint, SlateSteps, KeepInv
    <2>2. PICK n \in PreName(Target) : SnapshotTo(Target, n)
      BY <1>3 DEF PreCheckpoint
    <2>3. n \in Name /\ n.slate = Target /\ n.class = "keep"
      BY <1>0, <2>1, PreNameType DEF PreName
    <2>4. PICK s \in Slate : s = Target
      BY <2>1
    <2>5. /\ KeptOf(s)' = KeptOf(s) \cup {live[s]}
          /\ \A t \in Slate \ {s} : KeptOf(t)' = KeptOf(t)
      BY <2>2, <2>3, <2>4, SnapshotKeeps
    <2>6. [t \in Slate |-> KeptOf(t)]' =
            [[t \in Slate |-> KeptOf(t)] EXCEPT ![s] = @ \cup {live[s]}]
      BY <2>5
    <2>7. Store!Keep(s)
      BY <1>3, <2>1, <2>4, <2>6 DEF PreCheckpoint, Store!Keep
    <2> QED
      BY <2>7 DEF StoreStep, Store!Next
  <1>4. CASE RemoveSlate
    <2>1. /\ ckpts' = ckpts /\ pc # "up" /\ pc' # "up" /\ Target \in Slate
          /\ live[Target] \in KeptOf(Target)
      BY <1>0, <1>4 DEF RemoveSlate, Panic, SlateSteps, KeepInv
    <2>2. CASE live' = [live EXCEPT ![Target] = Absent]
      <3>1. Store!Retire(Target)
        BY <2>1, <2>2, SameCkpts DEF Store!Retire
      <3> QED
        BY <2>1, <3>1 DEF StoreStep, Store!Next
    <2>3. CASE live' = live
      BY <2>1, <2>3, SameCkpts DEF StoreStep, Store!vars
    <2> QED
      BY <1>4, <2>2, <2>3 DEF RemoveSlate
  <1>5. CASE RestoreSlate
    <2>1. /\ ckpts' = ckpts /\ pc # "up" /\ pc' # "up" /\ Target \in Slate
          /\ live[Target] = Absent
      BY <1>0, <1>5 DEF RestoreSlate, Panic, SlateSteps, KeepInv
    <2>2. ASSUME NEW w \in Contents(boot.source),
                 live' = [live EXCEPT ![Target] = w]
          PROVE  StoreStep
      <3>1. w \in Work
        BY <1>0, ContentsType
      <3>2. Store!Create(Target, w)
        BY <2>1, <2>2, SameCkpts DEF Store!Create
      <3> QED
        BY <2>1, <3>1, <3>2 DEF StoreStep, Store!Next
    <2>3. CASE live' = live
      BY <2>1, <2>3, SameCkpts DEF StoreStep, Store!vars
    <2> QED
      BY <1>5, <2>2, <2>3 DEF RestoreSlate
  <1>6. CASE TakeCheckpoint
    <2>1. Target \in Slate /\ pc # "up" /\ pc' # "up" /\ live' = live
      BY <1>0, <1>6 DEF TakeCheckpoint, SlateSteps
    <2>2. PICK n \in AutoName(Target) : SnapshotTo(Target, n)
      BY <1>6 DEF TakeCheckpoint
    <2>3. n \in Name /\ n.class = "auto"
      BY <1>0, <2>1, AutoNameType DEF AutoName
    <2>4. \A t \in Slate : KeptOf(t)' = KeptOf(t)
      BY <2>1, <2>2, <2>3, SnapshotAuto
    <2> QED
      BY <2>1, <2>4, SameKept DEF StoreStep, Store!vars
  <1>7. CASE PruneAuto
    <2>1. pc # "up" /\ pc' # "up" /\ live' = live
      BY <1>7 DEF PruneAuto
    <2>2. \A c : c.class = "keep" => (c \in ckpts' <=> c \in ckpts)
      BY <1>7 DEF PruneAuto, PruneSet, AutosOf, Of
    <2>3. \A t \in Slate : \A w : w \in KeptOf(t)' <=> w \in KeptOf(t)
      BY <2>2, KeptMember
    <2>4. \A t \in Slate : KeptOf(t)' = KeptOf(t)
      BY <2>3
    <2> QED
      BY <2>1, <2>4, SameKept DEF StoreStep, Store!vars
  <1>8. CASE WriteFacts
    <2>1. /\ ckpts' = ckpts /\ live' = live /\ cmdline' = cmdline
          /\ pc = "facts" /\ pc' = "up"
      BY <1>8 DEF WriteFacts
    <2>2. Target \in Targets /\ (Target \in Slate => live[Target] # Absent)
      BY <2>1 DEF TypeInv, RootInv, KeepInv
    <2>3. Store!Start(Target)
      BY <2>1, <2>2, SameCkpts DEF Store!Start
    <2> QED
      BY <2>2, <2>3 DEF StoreStep, Store!Next
  <1> QED
    BY <1>1, <1>2, <1>3, <1>4, <1>5, <1>6, <1>7, <1>8 DEF HookStep

LEMMA CommandStores ==
  ASSUME WholeFacts, TypeInv, KeepInv, pc = "up", Command, UNCHANGED hookVars
  PROVE  StoreStep
  <1> USE DEF Target, hookVars
  <1>0. TypeOK /\ Target \in Targets /\ Target # None
    BY NamesAssumption DEF TypeInv, RootInv, Targets
  <1>1. CASE CreateCheckpoint
    <2>1. PICK s \in Slate : s = Target /\ Booted.name = s
      BY <1>1, BootedRoot DEF CreateCheckpoint
    <2>2. PICK n \in GoNext(Seqs(Listed(s))) :
            SnapshotTo(s, [slate |-> s, seq |-> n, class |-> "keep"])
      BY <1>1, <2>1 DEF CreateCheckpoint
    <2>3. n \in Nat
      BY <1>0, GoNextType DEF TypeOK, Seqs, Listed, Of, Checkpoint
    <2>4. [slate |-> s, seq |-> n, class |-> "keep"] \in Name
      BY <2>3 DEF Name, Class
    <2>5. /\ KeptOf(s)' = KeptOf(s) \cup {live[s]}
          /\ \A t \in Slate \ {s} : KeptOf(t)' = KeptOf(t)
      BY <2>2, <2>4, SnapshotKeeps
    <2>6. [t \in Slate |-> KeptOf(t)]' =
            [[t \in Slate |-> KeptOf(t)] EXCEPT ![s] = @ \cup {live[s]}]
      BY <2>5
    <2>7. Store!Keep(s)
      BY <1>1, <2>1, <2>2, <2>6 DEF CreateCheckpoint, SnapshotTo, Store!Keep
    <2> QED
      BY <2>7 DEF StoreStep, Store!Next
  <1>2. CASE \E s \in Slate : Reset(s) \/ \E seq \in 1..MaxSeq : Rollback(s, seq)
    <2>1. ckpts' = ckpts /\ live' = live /\ cmdline' = cmdline
      BY <1>2 DEF Reset, Rollback, StagePending
    <2> QED
      BY <2>1, SameCkpts DEF StoreStep, Store!vars
  <1>3. ASSUME NEW s \in Slate, NEW v, Fork(s, v) PROVE StoreStep
    <2>1. PICK w \in Contents(v) : live' = [live EXCEPT ![s] = w]
      BY <1>3 DEF Fork
    <2>2. w \in Work
      BY <1>0, ContentsType
    <2>3. Store!Create(s, w)
      BY <1>3, <2>1, SameCkpts DEF Fork, Store!Create
    <2> QED
      BY <2>2, <2>3 DEF StoreStep, Store!Next
  <1>4. ASSUME NEW s \in Slate, Discard(s) \/ DiscardStopsEarly(s) PROVE StoreStep
    <2>1. Target # s
      BY <1>4, RootKnown DEF KeepInv, Discard, DiscardStopsEarly, Discardable
    <2>2. /\ ckpts' \subseteq ckpts
          /\ \A c \in ckpts \ ckpts' : c.slate = s
          /\ cmdline' = cmdline
      BY <1>4 DEF Discard, DiscardStopsEarly, Listed, Of
    <2>3. \A t \in Slate \ {s} : \A w : w \in KeptOf(t)' <=> w \in KeptOf(t)
      BY <2>2, KeptMember
    <2>4. \A w : w \in KeptOf(s)' => w \in KeptOf(s)
      BY <2>2, KeptMember
    <2>5. KeptOf(s)' \subseteq KeptOf(s) /\ \A t \in Slate \ {s} : KeptOf(t)' = KeptOf(t)
      BY <2>3, <2>4
    <2>6. [t \in Slate |-> KeptOf(t)]' =
            [[t \in Slate |-> KeptOf(t)] EXCEPT ![s] = KeptOf(s)']
      BY <2>5
    <2>7. live' = [live EXCEPT ![s] = Absent] \/ live' = live
      BY <1>4 DEF Discard, DiscardStopsEarly
    <2>8. Store!Discard(s)
      BY <1>0, <2>1, <2>2, <2>5, <2>6, <2>7 DEF Store!Discard
    <2> QED
      BY <2>8 DEF StoreStep, Store!Next
  <1>5. ASSUME NEW s \in Slate, ForkTop(s) PROVE StoreStep
    <2>1. clock' \in Work
      BY BoundsAssumption, <1>0, <1>5 DEF ForkTop, TypeOK, Work
    <2>2. Store!Create(s, clock')
      BY <1>5, SameCkpts DEF ForkTop, Store!Create
    <2> QED
      BY <2>1, <2>2 DEF StoreStep, Store!Next
  <1> QED
    BY <1>1, <1>2, <1>3, <1>4, <1>5 DEF Command

LEMMA NextStores ==
  ASSUME WholeFacts, TypeInv, KeepInv, [Next]_vars PROVE StoreStep
  <1> USE DEF Target, hookVars, fsVars, diskVars
  <1>1. CASE BootAny
    <2>1. ckpts' = ckpts /\ live' = live /\ pc = "off" /\ pc' = "mount"
      BY <1>1 DEF BootAny, BootScratch, BootRescue, BootSlate, PowerOn
    <2> QED
      BY <2>1, SameCkpts DEF StoreStep, Store!vars
  <1>2. CASE HookStep
    BY <1>2, HookStores
  <1>3. CASE EditSlate
    <2>1. Target \in Slate /\ clock' \in Work
      BY BoundsAssumption, <1>3 DEF EditSlate, TypeInv, TypeOK, Work
    <2>2. Store!Edit(Target, clock')
      BY <1>3, SameCkpts DEF EditSlate, Store!Edit
    <2> QED
      BY <2>1, <2>2 DEF StoreStep, Store!Next
  <1>4. CASE EditScratch \/ Configure \/ UNCHANGED vars
    <2>1. ckpts' = ckpts /\ live' = live /\ pc' = pc /\ cmdline' = cmdline
      BY <1>4 DEF EditScratch, Configure, vars
    <2> QED
      BY <2>1, SameCkpts DEF StoreStep, Store!vars
  <1>5. CASE RunCommand
    BY <1>5, CommandStores DEF RunCommand
  <1>6. CASE PowerOff
    <2>1. Store!Stop
      BY <1>6, SameCkpts DEF PowerOff, Store!Stop
    <2> QED
      BY <2>1 DEF StoreStep, Store!Next
  <1> QED
    BY <1>1, <1>2, <1>3, <1>4, <1>5, <1>6 DEF Next

LEMMA InitStores == Init => Store!Init /\ KeepInv
  <1> SUFFICES ASSUME Init PROVE Store!Init /\ KeepInv
    OBVIOUS
  <1>1. live \in [Slate -> Work \cup {Absent}]
    BY BoundsAssumption DEF Init, FsInit, Work, Pristine
  <1>2. \A t \in Slate : KeptOf(t) = {}
    BY DEF Init, FsInit, KeptOf, Of
  <1>3. [t \in Slate |-> KeptOf(t)] = [t \in Slate |-> {}]
    BY <1>2
  <1>4. Store!Init
    BY <1>1, <1>3 DEF Init, Store!Init
  <1>5. KeepInv
    BY DEF Init, FsInit, KeepInv, RunningSlateStays, Torn
  <1> QED
    BY <1>4, <1>5

(***************************************************************************)
(* If no mode and no basis is lost from the facts, which is what commands  *)
(* know the slate in use by, the machine keeps the promises of SlateStore: *)
(* the boot never replaces work it has not kept, a discard is all that     *)
(* takes kept work away, and the slate in use stays.                       *)
(***************************************************************************)
THEOREM KeepsPromises == ASSUME WholeFacts PROVE Spec => StorePromises
  <1>1. Init => TypeInv /\ KeepInv /\ Store!Init
    BY InitType, InitStores
  <1>2. TypeInv /\ KeepInv /\ [Next]_vars => (TypeInv /\ KeepInv)'
    BY NextType, NextKeeps
  <1>3. TypeInv /\ KeepInv /\ [Next]_vars => [Store!Next]_Store!vars
    BY WholeFacts, NextStores DEF StoreStep
  <1> QED
    BY <1>1, <1>2, <1>3, PTL DEF Spec, StorePromises, Store!Spec

(***************************************************************************)
(* The slate one is running on is never deleted, whatever of the facts     *)
(* could not be written, unless the mode or the basis is missing from a    *)
(* record that is there.                                                   *)
(***************************************************************************)
THEOREM RunningSlateSafe == Spec => []RunningSlateStays
  <1>1. Init => TypeInv /\ KeepInv
    BY InitType, InitStores
  <1>2. TypeInv /\ KeepInv /\ [Next]_vars => (TypeInv /\ KeepInv)'
    BY NextType, NextKeeps
  <1>3. KeepInv => RunningSlateStays
    BY DEF KeepInv
  <1> QED
    BY <1>1, <1>2, <1>3, PTL DEF Spec
=============================================================================
