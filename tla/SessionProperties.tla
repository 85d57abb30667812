------------------------- MODULE SessionProperties -------------------------
(***************************************************************************)
(* What several commands at once may do to a machine, and what only holds  *)
(* while commands are run one at a time and to their end.                  *)
(***************************************************************************)
EXTENDS Sessions

\* The type invariant.
TypeOK ==
  /\ live \in [Slate -> Work \cup {Absent}]
  /\ ckpts \subseteq Checkpoint
  /\ pending \in [slate : Slate, source : Name \cup {Baseline}] \cup {None}
  /\ entries \subseteq Slate
  /\ \A p \in Session :
       /\ DOMAIN sess[p] = DOMAIN Idle
       /\ sess[p].doomed \subseteq Name
       /\ sess[p].at \in {"snapshot", "describe", "forget"} => sess[p].source \in Name
       /\ sess[p].at \in {"copy", "stage"} => sess[p].source \in Subvolume
       /\ sess[p].at = "arm" => sess[p].source \in Asks
       /\ sess[p].at \notin {"idle", "arm"} => sess[p].slate \in Slate
  /\ meta \subseteq [slate : Slate, seq : Nat]
  /\ strays \subseteq [slate : Slate, of : Subvolume]
  /\ oneshot \in Asks \cup {None}
  /\ begun \in 0..MaxCommands
  /\ up \in BOOLEAN
  /\ lapses \subseteq Lapse

(***************************************************************************)
(* However many terminals read the same next number, a checkpoint appears  *)
(* only under the number after the last one of its slate: the loser of the *)
(* race fails (CreateCheckpoint: every command makes kept checkpoints, so  *)
(* equal numbers are equal names).                                         *)
(***************************************************************************)
NumbersFollow ==
  [][\A c \in ckpts' \ ckpts : c.seq \in GoNext(Seqs(Listed(c.slate)))]_vars

(***************************************************************************)
(* Commands interleaved step by step, and killed between steps, keep the   *)
(* promises of SlateStore: only a discard of a slate not in use takes work *)
(* or kept work away (Discard, Fork, CreateCheckpoint).                    *)
(***************************************************************************)
KeptOf(s) == {c.work : c \in {d \in Of(s) : d.class = "keep"}}

Store == INSTANCE SlateStore WITH
           work    <- live,
           kept    <- [s \in Slate |-> KeptOf(s)],
           root    <- IF up THEN cmdline.subvol ELSE None,
           Root    <- Slate \cup {Baseline, Runtime},
           Nothing <- None

SharedStoreKeepsPromises == [][Store!Next]_(Store!vars)

(***************************************************************************)
(* No checkpoint is left of a slate that is gone, so a slate forked under  *)
(* its name starts without a history: the slate goes after its last        *)
(* checkpoint, whatever discards overlap, fail or are killed (Discard).    *)
(***************************************************************************)
NoOrphanCheckpoints == \A c \in ckpts : live[c.slate] # Absent

(***************************************************************************)
(* Unless a command was killed or could not remove a file, every sidecar   *)
(* is that of a kept checkpoint on disk, or is about to go: the next       *)
(* checkpoint of that number cannot show another's message                 *)
(* (writeCheckpointMeta, DeleteCheckpoint).                                *)
(***************************************************************************)
SidecarsFollow ==
  lapses \cap {"killed", "sidecar"} = {} =>
    \A k \in meta :
      \/ \E c \in ckpts : Key(c) = k /\ c.class = "keep"
      \/ \E p \in Session : sess[p].at = "forget" /\ Key(sess[p].source) = k

(***************************************************************************)
(* Commands that do not overlap never nest one slate's copy in another     *)
(* (Fork's look at the name before the snapshot).                          *)
(***************************************************************************)
SerialForksAreNew == "overlap" \notin lapses => strays = {}

(***************************************************************************)
(* After any commands run one at a time, to their end and with their boot  *)
(* entries, the next boot is of a slate that exists, also when the default *)
(* slate or the one-shot target has been discarded (WriteBLSEntry,         *)
(* DeleteBLSEntry, switch).                                                *)
(***************************************************************************)
NextBootHasSlate ==
  ~up /\ lapses \subseteq {"sidecar"} /\ cmdline.subvol \in Slate =>
    live[cmdline.subvol] # Absent

-----------------------------------------------------------------------------
(***************************************************************************)
(* `switch <name> --scratch': the slate is copied for a throwaway run.     *)
(***************************************************************************)
ScratchRunCopiesSlate ==
  [][up /\ ~up' /\ oneshot # None /\ oneshot.scratch =>
       cmdline'.basis = oneshot.name]_vars
=============================================================================
