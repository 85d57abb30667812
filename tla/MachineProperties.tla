------------------------- MODULE MachineProperties -------------------------
(***************************************************************************)
(* What a cleanslate machine is supposed to do, over any sequence of       *)
(* boots, commands, failures and power cuts.                               *)
(***************************************************************************)
EXTENDS Machine

Targets == Slate \cup {Baseline, Runtime}
Source  == Name \cup {Baseline}
Step    == {"off", "mount", "ensure", "pending", "unstage", "remove",
            "restore", "checkpoint", "prune", "clear", "copy", "facts", "up",
            "panic"}

FactsRecord == [name      : Targets,
                mode      : {"persistent", "scratch", "rescue", "unknown"},
                basis     : Targets \cup {None},
                ckpt      : Name \cup {None, Disabled},
                requested : Targets \cup {None}]

BootRecord == [basis   : Targets \cup {None},
               source  : Source \cup {None},
               ckpt    : Name \cup {None, Disabled},
               goal    : Work \cup {Absent},
               clean   : BOOLEAN,
               stuck   : BOOLEAN,
               created : BOOLEAN]

\* The type invariant.
TypeOK ==
  /\ live \in [Slate -> Work \cup {Absent}]
  /\ ckpts \subseteq Checkpoint
  /\ runtime \in Work \cup {Absent}
  /\ pending \in [slate : Slate, source : Source] \cup {None}
  /\ config \in [auto : BOOLEAN, retain : Nat]
  /\ entries \subseteq Slate
  /\ clock \in Nat
  /\ cmdline \in [subvol : Targets \cup {None}, basis : Targets \cup {None}]
  /\ facts \in FactsRecord \cup {None}
  /\ pc \in Step
  /\ boot \in BootRecord

(***************************************************************************)
(* The machine keeps the promises of SlateStore: whatever the boot         *)
(* replaces was kept first, nothing but a discard takes kept work away,    *)
(* and the slate one is running on stays (apply_pending, prune_auto and    *)
(* Discard together, with power cuts and failing commands anywhere).       *)
(***************************************************************************)
KeptOf(s) == {c.work : c \in {d \in Of(s) : d.class = "keep"}}

Store == INSTANCE SlateStore WITH
           work    <- live,
           kept    <- [s \in Slate |-> KeptOf(s)],
           root    <- IF pc = "up" THEN Target ELSE None,
           Root    <- Targets,
           Nothing <- None

StorePromises == Store!Spec

(***************************************************************************)
(* A boot in which no command failed hands over what the user should find: *)
(* the staged source, else the slate as it was left, else the baseline; in *)
(* a scratch boot, a copy of the basis (ensure_slate, apply_pending, the   *)
(* scratch branch).                                                        *)
(***************************************************************************)
BootDelivers ==
  pc = "facts" /\ boot.clean =>
    /\ Target \in Slate => live[Target] = boot.goal
    /\ Target = Runtime => runtime = boot.goal

(***************************************************************************)
(* With automatic checkpoints on and at least one retained, a boot in      *)
(* which no command failed leaves a checkpoint of exactly the root it      *)
(* hands over, under the name it records (checkpoint_slate, prune_auto).   *)
(***************************************************************************)
BootLeavesRollbackPoint ==
  pc = "facts" /\ boot.clean /\ Target \in Slate
               /\ config.auto /\ config.retain > 0 =>
    \E c \in Of(Target) : NameOf(c) = boot.ckpt /\ c.work = live[Target]

(***************************************************************************)
(* <slate>.<number> means one checkpoint: the hook and the Go code, which  *)
(* number independently, never give two checkpoints of a slate the same    *)
(* number (next_seq, nextSeq, FindCheckpoint).                             *)
(***************************************************************************)
UnambiguousRefs ==
  \A c, d \in ckpts : c.slate = d.slate /\ c.seq = d.seq => c = d

(***************************************************************************)
(* A boot prunes only automatic checkpoints of its own slate, and none     *)
(* that is among the `retain' newest (prune_auto).                         *)
(***************************************************************************)
PruneSparesNewest ==
  [][\A c \in ckpts \ ckpts' : pc # "up" =>
       /\ c.slate = Target /\ c.class = "auto"
       /\ Cardinality({d \in AutosOf(Target) : d.seq > c.seq}) >= config.retain]_vars

(***************************************************************************)
(* No boot, of this slate or of another, removes the checkpoint a staged   *)
(* rollback still waits to use (apply_pending before prune_auto), unless   *)
(* it could not remove the staged file after using it.                     *)
(***************************************************************************)
BootSparesStagedSource ==
  [][pc # "up" /\ ~boot.stuck /\ pending # None /\ pending' = pending
               /\ Exists(pending.source)
       => (Exists(pending.source))']_vars

(***************************************************************************)
(* Every boot comes to an end: a running system, the panic shell, or loss  *)
(* of power.                                                               *)
(***************************************************************************)
BootSettles == pc = "mount" ~> pc \in {"up", "panic", "off"}

(***************************************************************************)
(* A staged replacement is tried once: a boot that reaches it without      *)
(* losing power leaves nothing staged, whether it succeeds, is skipped or  *)
(* ends in a panic, unless the file itself cannot be removed (the rm -f of *)
(* apply_pending on each of its paths, whose failure is ignored).          *)
(***************************************************************************)
StagedTriedOnce ==
  pc = "pending" /\ Mine(Target) ~> pending = None \/ pc = "off" \/ boot.stuck

(***************************************************************************)
(* The running slate is never deleted, whatever has become of the facts,   *)
(* but for one case: the record is there and its mode or its basis is not. *)
(* Without the record the kernel command line tells (Discard, write_facts, *)
(* ReadBooted).                                                            *)
(***************************************************************************)
Torn == facts # None /\ (facts.mode = "unknown" \/ facts.basis = None)

RunningSlateStays ==
  pc = "up" /\ Target \in Slate /\ ~Torn => live[Target] # Absent

-----------------------------------------------------------------------------
(***************************************************************************)
(* Statements of the repository's documents that the code does not keep.   *)
(***************************************************************************)

(***************************************************************************)
(* Booted.Diverged reports a boot that fell back because its slate had     *)
(* been deleted.  The default slate is set apart: it is created by its     *)
(* first boot.                                                             *)
(***************************************************************************)
DeletedSlateReported ==
  pc = "up" /\ facts # None /\ boot.created /\ Target # Main =>
    Diverged(Booted)

(***************************************************************************)
(* A forked slate begins as a copy of its source: no replacement is        *)
(* already staged against the name it takes (Fork, Discard, StagePending). *)
(***************************************************************************)
NewSlateStartsClean ==
  [][\A s \in Slate : pc = "up" /\ live[s] = Absent /\ live'[s] # Absent =>
       ~(pending # None /\ pending.slate = s)]_vars
=============================================================================
