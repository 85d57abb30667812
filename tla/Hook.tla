-------------------------------- MODULE Hook --------------------------------
(***************************************************************************)
(* The initramfs hook local-top/cleanslate-state: one action per command   *)
(* of the script that changes the disk, in the script's order, with pc     *)
(* naming the step that comes next.  Nothing else runs at that time, so    *)
(* reads are merged with the write they lead to.  Power may be lost        *)
(* between any two steps (module Machine).                                 *)
(*                                                                         *)
(* Slate names reach the hook from boot entries and staged files made for  *)
(* names the Go code validated, so the script's tests for malformed names  *)
(* never fire and are left out; so is a command line with no subvol=.      *)
(***************************************************************************)
EXTENDS Filesystem

CONSTANT Bases  \* what cleanslate.basis= of a scratch entry may say

ASSUME BasesAssumption == Bases \subseteq Slate \cup {Baseline, Runtime, None}

VARIABLES
  pc,   \* the next step of the boot
  boot  \* the script's own variables, and what this boot should achieve

(***************************************************************************)
(* basis is the subvolume the root comes from, source the staged source    *)
(* and ckpt what the script records as the checkpoint taken.  Four fields  *)
(* are ghosts: goal, the content this boot ought to hand over; clean, no   *)
(* command has failed in it; stuck, the staged file could not be removed;  *)
(* created, it made its slate from the baseline.                           *)
(***************************************************************************)
Idle == [basis |-> None, source |-> None, ckpt |-> None, goal |-> Absent,
         clean |-> TRUE, stuck |-> FALSE, created |-> FALSE]

\* `subvol' of the script.
Target == cmdline.subvol

hookVars == <<pc, boot>>

MayFail(op) == op \in Faults
Failed      == [boot EXCEPT !.clean = FALSE]

Panic(op) == /\ MayFail(op)
             /\ pc' = "panic"
             /\ boot' = Failed

\* The basis a scratch boot really uses.
ResolveBasis(asked) ==
  IF asked \in {None, Runtime} \/ ~Exists(asked) THEN Baseline ELSE asked

\* The staged replacement concerns the slate being booted.
Mine(t) == pending # None /\ pending.slate = t

(***************************************************************************)
(* What the user should find: the staged source if there is one, otherwise *)
(* the slate as it was left, otherwise a fresh copy of the baseline.       *)
(***************************************************************************)
GoalFor(t, asked) ==
  IF t = Runtime THEN Contents(ResolveBasis(asked))
  ELSE IF t = Baseline THEN {Pristine}
  ELSE IF Mine(t) /\ Exists(pending.source) THEN Contents(pending.source)
  ELSE IF Exists(t) THEN Contents(t)
  ELSE {Pristine}

(***************************************************************************)
(* Resolving and mounting the root device.  A rescue boot skips it.        *)
(***************************************************************************)
Mount ==
  /\ pc = "mount"
  /\ pc' = CASE Target = Runtime  -> "clear"
             [] Target = Baseline -> "facts"
             [] OTHER             -> "ensure"
  /\ boot' = [boot EXCEPT !.basis = IF Target = Runtime
                                    THEN ResolveBasis(cmdline.basis)
                                    ELSE Target]
  /\ UNCHANGED fsVars

MountFails ==
  /\ pc = "mount"
  /\ Target # Baseline
  /\ Panic("mount")
  /\ UNCHANGED fsVars

\* ensure_slate
SlateExists ==
  /\ pc = "ensure"
  /\ live[Target] # Absent
  /\ pc' = "pending"
  /\ UNCHANGED <<boot, fsVars>>

CreateSlate ==
  /\ pc = "ensure"
  /\ live[Target] = Absent
  /\ \/ /\ live' = [live EXCEPT ![Target] = Pristine]
        /\ pc' = "pending"
        /\ boot' = [boot EXCEPT !.created = TRUE]
     \/ Panic("ensure") /\ UNCHANGED live
  /\ UNCHANGED <<ckpts, runtime, pending, config, entries, cmdline, facts, clock>>

\* apply_pending: nothing staged, or staged for a slate not being booted.
NothingStaged ==
  /\ pc = "pending"
  /\ ~Mine(Target)
  /\ pc' = "checkpoint"
  /\ UNCHANGED <<boot, fsVars>>

(***************************************************************************)
(* `rm -f' of the staged file.  Its failure goes unnoticed: the script     *)
(* carries on with b, and the file is there at the next boot.              *)
(***************************************************************************)
RemoveStaged(b) ==
  \/ pending' = None /\ boot' = b
  \/ /\ MayFail("rm")
     /\ UNCHANGED pending
     /\ boot' = [b EXCEPT !.clean = FALSE, !.stuck = TRUE]

\* Seeded fault: wait for the source instead of dropping the file.
DropStaged_Waits ==
  /\ pc = "pending"
  /\ Mine(Target)
  /\ ~Exists(pending.source)
  /\ UNCHANGED <<hookVars, fsVars>>

\* apply_pending: the staged source has gone.
DropStaged ==
  /\ pc = "pending"
  /\ Mine(Target)
  /\ ~Exists(pending.source)
  /\ RemoveStaged(boot)
  /\ pc' = "checkpoint"
  /\ UNCHANGED <<live, ckpts, runtime, config, entries, cmdline, facts, clock>>

\* Seeded fault: the class of a kept checkpoint misspelt.
PreName_Kept(s) == {[slate |-> s, seq |-> n, class |-> "kept"] :
                      n \in ShellNext(Seqs(Of(s)))}

PreName(s) == {[slate |-> s, seq |-> n, class |-> "keep"] :
                 n \in ShellNext(Seqs(Of(s)))}

\* apply_pending: the state about to be replaced is checkpointed ...
PreCheckpoint ==
  /\ pc = "pending"
  /\ Mine(Target)
  /\ Exists(pending.source)
  /\ \E n \in PreName(Target) : SnapshotTo(Target, n)
  /\ pc' = "unstage"
  /\ boot' = [boot EXCEPT !.source = pending.source]
  /\ UNCHANGED <<live, runtime, pending, config, entries, cmdline, facts, clock>>

\* Seeded fault: go on without the checkpoint.
PreCheckpointFails_GoesOn ==
  /\ pc = "pending"
  /\ Mine(Target)
  /\ Exists(pending.source)
  /\ MayFail("pre")
  /\ boot' = [boot EXCEPT !.clean = FALSE, !.source = pending.source]
  /\ pc' = "unstage"
  /\ UNCHANGED fsVars

\* ... and when that fails the replacement is dropped and the boot goes on.
PreCheckpointFails ==
  /\ pc = "pending"
  /\ Mine(Target)
  /\ Exists(pending.source)
  /\ \/ (\E n \in PreName(Target) : Taken(n)) /\ RemoveStaged(boot)
     \/ MayFail("pre") /\ RemoveStaged(Failed)
  /\ pc' = "checkpoint"
  /\ UNCHANGED <<live, ckpts, runtime, config, entries, cmdline, facts, clock>>

\* Seeded fault: the file is not removed.
Unstage_LeavesFile ==
  /\ pc = "unstage"
  /\ pc' = "remove"
  /\ UNCHANGED <<boot, fsVars>>

\* Seeded fault: return once the file is gone.
Unstage_Returns ==
  /\ pc = "unstage"
  /\ pending' = None
  /\ pc' = "checkpoint"
  /\ UNCHANGED <<boot, live, ckpts, runtime, config, entries, cmdline, facts, clock>>

\* apply_pending: the staged file goes before the replacement begins.
Unstage ==
  /\ pc = "unstage"
  /\ RemoveStaged(boot)
  /\ pc' = "remove"
  /\ UNCHANGED <<live, ckpts, runtime, config, entries, cmdline, facts, clock>>

\* apply_pending: delete_subvol of the slate.
RemoveSlate ==
  /\ pc = "remove"
  /\ \/ /\ live' = [live EXCEPT ![Target] = Absent]
        /\ pc' = "restore"
        /\ UNCHANGED boot
     \/ Panic("remove") /\ UNCHANGED live
  /\ UNCHANGED <<ckpts, runtime, pending, config, entries, cmdline, facts, clock>>

\* apply_pending: the snapshot of the source becomes the slate.
RestoreSlate ==
  /\ pc = "restore"
  /\ \/ /\ \E w \in Contents(boot.source) :
             live' = [live EXCEPT ![Target] = w]
        /\ pc' = "checkpoint"
        /\ UNCHANGED boot
     \/ Panic("restore") /\ UNCHANGED live
  /\ UNCHANGED <<ckpts, runtime, pending, config, entries, cmdline, facts, clock>>

\* Seeded fault: automatic checkpoints are numbered on their own.
AutoName_OwnNumbers(s) == {[slate |-> s, seq |-> n, class |-> "auto"] :
                             n \in ShellNext(Seqs(AutosOf(s)))}

AutoName(s) == {[slate |-> s, seq |-> n, class |-> "auto"] :
                  n \in ShellNext(Seqs(Of(s)))}

\* checkpoint_slate
TakeCheckpoint ==
  /\ pc = "checkpoint"
  /\ config.auto
  /\ \E n \in AutoName(Target) :
       /\ SnapshotTo(Target, n)
       /\ boot' = [boot EXCEPT !.ckpt = n]
  /\ pc' = "prune"
  /\ UNCHANGED <<live, runtime, pending, config, entries, cmdline, facts, clock>>

\* checkpoint_slate: a slate that cannot be checkpointed still boots.
CheckpointFails ==
  /\ pc = "checkpoint"
  /\ config.auto
  /\ \/ /\ \E n \in AutoName(Target) : Taken(n)
        /\ UNCHANGED boot
     \/ MayFail("checkpoint") /\ boot' = Failed
  /\ pc' = "prune"
  /\ UNCHANGED fsVars

AutoCheckpointOff ==
  /\ pc = "checkpoint"
  /\ ~config.auto
  /\ boot' = [boot EXCEPT !.ckpt = Disabled]
  /\ pc' = "facts"
  /\ UNCHANGED fsVars

\* prune_auto.  A deletion that fails is ignored.  A power cut half way
\* leaves the disk as if the remaining deletions had failed.
\* Seeded fault: one too many is pruned.
PruneSet_OffByOne(s) ==
  {c \in AutosOf(s) : c.seq \in Victims(Seqs(AutosOf(s)), config.retain - 1)}

\* Seeded fault: kept checkpoints are pruned too.
PruneSet_AnyClass(s) ==
  {c \in Of(s) : c.seq \in Victims(Seqs(Of(s)), config.retain)}

\* Seeded fault: the name pattern matches every slate.
PruneSet_AnySlate(s) ==
  LET autos == UNION {AutosOf(t) : t \in Slate}
  IN  {c \in autos : c.seq \in Victims(Seqs(autos), config.retain)}

PruneSet(s) == {c \in AutosOf(s) :
                  c.seq \in Victims(Seqs(AutosOf(s)), config.retain)}

PruneAuto ==
  /\ pc = "prune"
  /\ \E left \in SUBSET PruneSet(Target) :
       /\ left # {} => MayFail("prune")
       /\ ckpts' = (ckpts \ PruneSet(Target)) \cup left
       /\ boot' = IF left = {} THEN boot ELSE Failed
  /\ pc' = "facts"
  /\ UNCHANGED <<live, runtime, pending, config, entries, cmdline, facts, clock>>

\* The scratch root: the previous one goes, a copy of the basis replaces it.
ClearScratch ==
  /\ pc = "clear"
  /\ \/ /\ runtime' = Absent
        /\ pc' = "copy"
        /\ UNCHANGED boot
     \/ runtime # Absent /\ Panic("clear") /\ UNCHANGED runtime
  /\ UNCHANGED <<live, ckpts, pending, config, entries, cmdline, facts, clock>>

\* Seeded fault: the basis is ignored.
CopyBasis_Baseline ==
  /\ pc = "copy"
  /\ runtime' = Pristine
  /\ pc' = "facts"
  /\ UNCHANGED <<boot, live, ckpts, pending, config, entries, cmdline, facts, clock>>

CopyBasis ==
  /\ pc = "copy"
  /\ \/ /\ \E w \in Contents(boot.basis) : runtime' = w
        /\ pc' = "facts"
        /\ UNCHANGED boot
     \/ Panic("copy") /\ UNCHANGED runtime
  /\ UNCHANGED <<live, ckpts, pending, config, entries, cmdline, facts, clock>>

ModeOf(t) == CASE t = Runtime  -> "scratch"
               [] t = Baseline -> "rescue"
               [] OTHER        -> "persistent"

(***************************************************************************)
(* write_facts, and what a reader makes of it.  Each file may fail to be   *)
(* written, alone or with others, and no failure is checked.  A reader     *)
(* takes a missing file for an empty one; without `slate' (nor, hence,     *)
(* without the directory) it finds no record at all.  With the facts the   *)
(* script ends, and of its variables only a ghost stays.                   *)
(***************************************************************************)
FactFiles == {"slate", "mode", "basis", "ckpt", "requested"}

Facts(lost) ==
  IF "slate" \in lost THEN None
  ELSE [name      |-> boot.basis,
        mode      |-> IF "mode" \in lost THEN "unknown" ELSE ModeOf(Target),
        basis     |-> IF "basis" \in lost THEN None ELSE boot.basis,
        ckpt      |-> IF "ckpt" \in lost THEN None ELSE boot.ckpt,
        requested |-> IF "requested" \in lost THEN None
                      ELSE IF Target = Runtime THEN cmdline.basis ELSE Target]

WriteFacts ==
  /\ pc = "facts"
  /\ \E lost \in SUBSET (FactFiles \cap Faults) :
       facts' = Facts(lost)
  /\ boot' = [Idle EXCEPT !.created = boot.created]
  /\ pc' = "up"
  /\ UNCHANGED <<live, ckpts, runtime, pending, config, entries, cmdline, clock>>

HookStep ==
  \/ Mount \/ MountFails
  \/ SlateExists \/ CreateSlate
  \/ NothingStaged \/ DropStaged \/ PreCheckpoint \/ PreCheckpointFails
  \/ Unstage \/ RemoveSlate \/ RestoreSlate
  \/ TakeCheckpoint \/ CheckpointFails \/ AutoCheckpointOff \/ PruneAuto
  \/ ClearScratch \/ CopyBasis
  \/ WriteFacts
=============================================================================
