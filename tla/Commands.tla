------------------------------ MODULE Commands ------------------------------
(***************************************************************************)
(* The cleanslate commands that change the disk (internal/slate/ops.go,    *)
(* checkpoint.go, pending.go and the commands of cmd/cli/slates.go that    *)
(* call them), one action per command that goes through.  A command that   *)
(* is refused changes nothing and is no action.  Commands are one at a     *)
(* time here.                                                              *)
(***************************************************************************)
EXTENDS Filesystem

ModeFrom(subvol) == CASE subvol = Runtime  -> "scratch"
                      [] subvol = Baseline -> "rescue"
                      [] OTHER             -> "persistent"

(***************************************************************************)
(* ReadBooted: the facts the hook left, or, failing those, what the kernel *)
(* command line says.  None is an empty or a missing file.                 *)
(***************************************************************************)
Booted ==
  IF facts # None THEN facts
  ELSE [name |-> cmdline.subvol, mode |-> ModeFrom(cmdline.subvol),
        basis |-> cmdline.subvol, ckpt |-> None, requested |-> None]

Diverged(b) == b.requested # None /\ b.basis # None /\ b.requested # b.basis

\* ListCheckpoints: names the Go pattern matches.
Listed(s) == {c \in Of(s) : c.seq # Blank}

(***************************************************************************)
(* `cleanslate checkpoint': always with a message, so always kept, and     *)
(* always of the running slate.                                            *)
(***************************************************************************)
CreateCheckpoint ==
  LET s == Booted.name
  IN  /\ Booted.mode = "persistent"
      /\ \E n \in GoNext(Seqs(Listed(s))) :
           /\ n <= MaxSeq
           /\ SnapshotTo(s, [slate |-> s, seq |-> n, class |-> "keep"])
      /\ UNCHANGED <<live, runtime, pending, config, entries, cmdline, facts, clock>>

\* StagePending: one file, so the last staging wins.
StagePending(s, source) ==
  /\ Exists(source)
  /\ pending' = [slate |-> s, source |-> source]
  /\ UNCHANGED <<live, ckpts, runtime, config, entries, cmdline, facts, clock>>

(***************************************************************************)
(* `cleanslate rollback <slate>.<seq>': FindCheckpoint returns any one of  *)
(* the checkpoints with that number.                                       *)
(***************************************************************************)
Rollback(s, seq) ==
  \E c \in Listed(s) : c.seq = seq /\ StagePending(s, NameOf(c))

\* `cleanslate reset <slate>'
Reset(s) == live[s] # Absent /\ StagePending(s, Baseline)

(***************************************************************************)
(* The subvolumes resolveForkSource can come up with: the basis of the     *)
(* running root unless this is a rescue boot or the file that names it is  *)
(* missing, the baseline, a checkpoint, a slate, or @runtime by its name.  *)
(***************************************************************************)
ForkSources ==
  {v \in (IF Booted.mode = "rescue" THEN {} ELSE {Booted.basis})
           \cup {Baseline, Runtime} \cup Slate
           \cup {NameOf(c) : c \in UNION {Listed(s) : s \in Slate}} : Exists(v)}

(***************************************************************************)
(* `cleanslate fork <name>'.  The boot entry is a copy of the default      *)
(* slate's entry; it is not made when that is gone, when no EFI partition  *)
(* is mounted, or with --bls=false, and the slate exists all the same.     *)
(***************************************************************************)
Fork(name, source) ==
  /\ live[name] = Absent
  /\ \E w \in Contents(source) : live' = [live EXCEPT ![name] = w]
  /\ \/ Main \in entries /\ entries' = entries \cup {name}
     \/ UNCHANGED entries
  /\ UNCHANGED <<ckpts, runtime, pending, config, cmdline, facts, clock>>

(***************************************************************************)
(* The same, of the running slate, when its name is missing from the       *)
(* facts: the path of the source is then that of the whole filesystem, and *)
(* the new slate a snapshot of its top, a tree like no other.              *)
(***************************************************************************)
ForkTop(name) ==
  /\ Booted.mode # "rescue" /\ Booted.basis = None
  /\ live[name] = Absent
  /\ clock < MaxWork
  /\ clock' = clock + 1
  /\ live' = [live EXCEPT ![name] = clock']
  /\ \/ Main \in entries /\ entries' = entries \cup {name}
     \/ UNCHANGED entries
  /\ UNCHANGED <<ckpts, runtime, pending, config, cmdline, facts>>

(***************************************************************************)
(* `cleanslate discard <name>'.  Checkpoints go one by one, oldest first,  *)
(* then the slate, then the boot entry; the first failure, or a power cut, *)
(* leaves the rest.  A boot entry that cannot be removed only earns a      *)
(* warning.  A staged replacement is not looked at.                        *)
(***************************************************************************)
OldestFirst(C, gone) ==
  \A c \in gone : \A d \in C : d.seq < c.seq => d \in gone

\* Seeded fault: the slate in use is not refused.
Discardable_InUse(s) == live[s] # Absent

Discardable(s) ==
  /\ live[s] # Absent
  /\ ~(Booted.basis = s /\ Booted.mode = "persistent")

Discard(s) ==
  /\ Discardable(s)
  /\ ckpts' = ckpts \ Listed(s)
  /\ live' = [live EXCEPT ![s] = Absent]
  /\ entries' \in {entries, entries \ {s}}
  /\ UNCHANGED <<runtime, pending, config, cmdline, facts, clock>>

DiscardStopsEarly(s) ==
  /\ Discardable(s)
  /\ "discard" \in Faults
  /\ \E gone \in SUBSET Listed(s) :
       /\ OldestFirst(Listed(s), gone)
       /\ ckpts' = ckpts \ gone
  /\ UNCHANGED <<live, runtime, pending, config, entries, cmdline, facts, clock>>

Command ==
  \/ CreateCheckpoint
  \/ \E s \in Slate :
       \/ \E seq \in 1..MaxSeq : Rollback(s, seq)
       \/ Reset(s)
       \/ \E v \in ForkSources : Fork(s, v)
       \/ ForkTop(s)
       \/ Discard(s)
       \/ DiscardStopsEarly(s)
=============================================================================
