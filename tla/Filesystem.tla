----------------------------- MODULE Filesystem -----------------------------
(***************************************************************************)
(* What a cleanslate machine keeps: the subvolumes at the top of its btrfs *)
(* filesystem, the files under .cleanslate and the boot entries on the EFI *)
(* partition; and what lasts while it is on: the kernel command line and   *)
(* the facts under /run.  The initramfs hook (module Hook) and the command *)
(* line tool (module Commands) share it, never at the same time.           *)
(*                                                                         *)
(* The content of a subvolume is a number that stands for the whole tree:  *)
(* Pristine is the sealed baseline, and every edit makes a number not used *)
(* before, so that two subvolumes hold the same work exactly when one is a *)
(* snapshot of the other or both of a third.  Filesystems nested in a      *)
(* slate, which no snapshot captures, are not part of its content here.    *)
(***************************************************************************)
EXTENDS CheckpointNames

CONSTANTS Slate,     \* slate names the user may choose, Main among them
          Main,      \* the default slate
          Baseline,  \* @baseline
          Runtime,   \* @runtime, the scratch root
          None,      \* no file, no value
          Disabled,  \* the word the hook records when auto_checkpoint is off
          Configs,   \* contents of .cleanslate/config to consider
          Faults,    \* names of the operations allowed to fail
          Aged,      \* boots the machine has behind it when we look first
          MaxWork,   \* bound on the number of edits
          MaxSeq     \* bound on checkpoint numbers

ASSUME MainAssumption == Main \in Slate

ASSUME NamesAssumption ==
  /\ {Baseline, Runtime, None, Disabled} \cap Slate = {}
  /\ Baseline # Runtime /\ Baseline # None /\ Runtime # None

ASSUME BoundsAssumption == MaxWork \in Nat /\ MaxSeq \in Nat /\ Aged \in Nat

ASSUME ConfigsAssumption == Configs \subseteq [auto : BOOLEAN, retain : Nat]

VARIABLES
  live,     \* slate -> its content, Absent when the subvolume does not exist
  ckpts,    \* the checkpoint subvolumes, each with its content
  runtime,  \* content of @runtime
  pending,  \* .cleanslate/pending: the staged replacement
  config,   \* .cleanslate/config as the hook reads it
  entries,  \* slates with a boot entry (scratch and rescue always have one)
  cmdline,  \* what /proc/cmdline says of the root: subvol= and the basis
  facts,    \* /run/cleanslate of the running system
  clock     \* the last content an edit made (ghost)

diskVars == <<live, ckpts, runtime, pending, config, entries, clock>>

fsVars == <<diskVars, cmdline, facts>>

NoCmdline == [subvol |-> None, basis |-> None]

Pristine == 0
Absent   == -1
Work     == 0..MaxWork

Class == {"auto", "keep"}
Name  == [slate : Slate, seq : Nat, class : Class]

\* The path of a checkpoint has dots in it, which validateName refuses.
ASSUME PathsAssumption == \A v \in Slate \cup {Baseline, Runtime, None} : v \notin Name

Checkpoint == [slate : Slate, seq : Nat, class : Class, work : Work]

NameOf(c) == [slate |-> c.slate, seq |-> c.seq, class |-> c.class]

Of(s)       == {c \in ckpts : c.slate = s}
AutosOf(s)  == {c \in Of(s) : c.class = "auto"}
Seqs(C)     == {c.seq : c \in C}
Taken(n)    == \E c \in ckpts : NameOf(c) = n
Named(n)    == {c \in ckpts : NameOf(c) = n}

Subvolume == Slate \cup {Baseline, Runtime} \cup Name

(***************************************************************************)
(* The contents a snapshot of the subvolume may capture: one element when  *)
(* the subvolume exists, none when it does not.                            *)
(***************************************************************************)
Contents(v) ==
  IF v = Baseline THEN {Pristine}
  ELSE IF v = Runtime THEN {runtime} \ {Absent}
  ELSE IF v \in Slate THEN {live[v]} \ {Absent}
  ELSE {c.work : c \in Named(v)}

Exists(v) == Contents(v) # {}

(***************************************************************************)
(* `btrfs subvolume snapshot -r' of slate s to the checkpoint name n.      *)
(* When n exists it is a read-only directory the new snapshot would have   *)
(* to be made in, and the command fails.                                   *)
(***************************************************************************)
SnapshotTo(s, n) ==
  /\ ~Taken(n)
  /\ live[s] # Absent
  /\ ckpts' = ckpts \cup {[slate |-> n.slate, seq |-> n.seq,
                           class |-> n.class, work |-> live[s]]}

(***************************************************************************)
(* The installed image: relayout.sh makes the baseline and the boot entry  *)
(* of the default slate, not the slate itself.  With Aged > 0, the machine *)
(* that has since booted Aged times without an edit, under one             *)
(* configuration.                                                          *)
(***************************************************************************)
FsInit ==
  /\ config \in Configs
  /\ live = [s \in Slate |-> IF s = Main /\ Aged > 0 THEN Pristine ELSE Absent]
  /\ ckpts = {[slate |-> Main, seq |-> n, class |-> "auto", work |-> Pristine] :
                n \in {k \in 1..Aged : config.auto /\ k > Aged - config.retain}}
  /\ runtime = Absent
  /\ pending = None
  /\ entries = {Main}
  /\ cmdline = NoCmdline
  /\ facts = None
  /\ clock = Pristine
=============================================================================
