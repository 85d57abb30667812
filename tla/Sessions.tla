------------------------------ MODULE Sessions ------------------------------
(***************************************************************************)
(* The cleanslate commands step by step, several of them at once, from one *)
(* boot of a machine to the boot entry of the next.  Nothing in the code   *)
(* excludes a second command while one is between two of its steps: what a *)
(* command read may be stale by the time it acts on it.  A command may be  *)
(* killed between any two steps.                                           *)
(*                                                                         *)
(* Reads that one step makes are taken together.  Commands print what they *)
(* did or failed to do; a command that ends either way is idle again.      *)
(***************************************************************************)
EXTENDS Commands

CONSTANTS Session,     \* terminals a command may be running in
          Asks,        \* arguments of `cleanslate switch': [name, scratch]
          MaxCommands  \* bound on the commands begun in one boot

ASSUME SessionsAssumption == MaxCommands \in Nat

VARIABLES
  sess,     \* the command each terminal is running: its next step, its data
  meta,     \* checkpoints with a sidecar file, .cleanslate/checkpoints/...
  strays,   \* snapshots that landed inside a slate: [slate, of]
  oneshot,  \* the last switch, whose entry is set for the next boot only
  up,       \* the system is running
  begun,    \* commands begun (ghost)
  lapses    \* what went other than one whole command at a time (ghost)

vars == <<fsVars, sess, meta, strays, oneshot, up, begun, lapses>>

\* What no command touches.
still == <<runtime, config, cmdline, facts, clock, up>>

Idle == [at |-> "idle", slate |-> None, source |-> None, doomed |-> {}]

Lapse == {"overlap", "killed", "entry", "sidecar"}

Key(c) == [slate |-> c.slate, seq |-> c.seq]

(***************************************************************************)
(* The system is up in a slate or a scratch root.  Every slate there is    *)
(* was booted and had one checkpoint taken by command.                     *)
(***************************************************************************)
Init ==
  /\ live \in [Slate -> {Pristine, Absent}] /\ live[Main] # Absent
  /\ LET there == {s \in Slate : live[s] # Absent}
     IN  /\ ckpts = {[slate |-> s, seq |-> n, work |-> Pristine,
                      class |-> IF n = 1 THEN "auto" ELSE "keep"] :
                        s \in there, n \in 1..2}
         /\ meta = {[slate |-> s, seq |-> 2] : s \in there}
         /\ entries = there
         /\ \E r \in there \cup {Runtime} :
              LET of == IF r = Runtime THEN Baseline ELSE r
              IN  /\ cmdline = [subvol |-> r, basis |-> of]
                  /\ facts = [name |-> of, mode |-> ModeFrom(r), basis |-> of,
                              ckpt |-> None, requested |-> of]
                  /\ runtime = IF r = Runtime THEN Pristine ELSE Absent
  /\ config \in Configs
  /\ pending = None /\ oneshot = None /\ begun = 0
  /\ sess = [p \in Session |-> Idle]
  /\ strays = {} /\ lapses = {} /\ up = TRUE /\ clock = Pristine

-----------------------------------------------------------------------------
(***************************************************************************)
(* Steps of a command.                                                     *)
(***************************************************************************)
At(p, step) == up /\ sess[p].at = step

Become(p, c) == sess' = [sess EXCEPT ![p] = c]

Goes(p, step) == Become(p, [sess[p] EXCEPT !.at = step])

Ends(p) == Become(p, Idle)

\* A step after which the command p is c, and that only reads.
Begins(p, c) ==
  /\ At(p, "idle")
  /\ begun < MaxCommands
  /\ begun' = begun + 1
  /\ Become(p, c)
  /\ lapses' = lapses \cup (IF \A q \in Session : sess[q] = Idle
                            THEN {} ELSE {"overlap"})
  /\ UNCHANGED <<fsVars, meta, strays, oneshot, up>>

\* Seeded fault: an empty message is not replaced by one.
ClassFor_AsGiven(message) == IF message = "" THEN "auto" ELSE "keep"

\* The class CreateCheckpoint picks for the message the command passes on.
ClassFor(message) ==
  LET passed == IF message = "" THEN "kept" ELSE message
  IN  IF passed = "" THEN "auto" ELSE "keep"

(***************************************************************************)
(* `cleanslate checkpoint': the facts and the next number are read, the    *)
(* snapshot made, the sidecar written, whose failure is not reported.      *)
(* MaxSeq leaves room for every terminal's number.  A slate with nested    *)
(* filesystems is refused without --allow-incomplete.                      *)
(***************************************************************************)
ReadNumber(p, message) ==
  LET s == Booted.name
  IN  /\ Booted.mode = "persistent"
      /\ live[s] # Absent
      /\ \E n \in GoNext(Seqs(Listed(s))) :
           /\ n + Cardinality(Session) <= MaxSeq + 1
           /\ Begins(p, [at |-> "snapshot", slate |-> s, doomed |-> {},
                         source |-> [slate |-> s, seq |-> n,
                                     class |-> ClassFor(message)]])

TakeSnapshot(p) ==
  /\ At(p, "snapshot")
  /\ IF Taken(sess[p].source)
     THEN Ends(p) /\ UNCHANGED ckpts
     ELSE SnapshotTo(sess[p].slate, sess[p].source) /\ Goes(p, "describe")
  /\ UNCHANGED <<still, live, pending, entries, meta, strays, oneshot, begun,
                 lapses>>

Describe(p) ==
  /\ At(p, "describe")
  /\ \/ meta' = meta \cup {Key(sess[p].source)}
     \/ "sidecar" \in Faults /\ UNCHANGED meta
  /\ Ends(p)
  /\ UNCHANGED <<fsVars, strays, oneshot, up, begun, lapses>>

(***************************************************************************)
(* `cleanslate fork': the name is found free and the source resolved, the  *)
(* snapshot made, the boot entry copied from the default slate's.  When    *)
(* the name has been taken meanwhile btrfs puts the snapshot INSIDE the    *)
(* slate of that name, under the source's name, and reports success.       *)
(***************************************************************************)
\* Seeded fault: the name is not looked up first.
StartFork_Unchecked(p, name, source) ==
  Begins(p, [at |-> "copy", slate |-> name, source |-> source, doomed |-> {}])

StartFork(p, name, source) ==
  /\ live[name] = Absent
  /\ Begins(p, [at |-> "copy", slate |-> name, source |-> source, doomed |-> {}])

Copy(p) ==
  LET name  == sess[p].slate
      stray == [slate |-> name, of |-> sess[p].source]
  IN  /\ At(p, "copy")
      /\ \/ /\ live[name] = Absent
            /\ \E w \in Contents(sess[p].source) :
                 live' = [live EXCEPT ![name] = w]
            /\ Goes(p, "entry")
            /\ UNCHANGED strays
         \/ /\ live[name] # Absent /\ Exists(sess[p].source) /\ stray \notin strays
            /\ strays' = strays \cup {stray}
            /\ Goes(p, "entry")
            /\ UNCHANGED live
         \/ /\ stray \in strays \/ ~Exists(sess[p].source)
            /\ Ends(p)
            /\ UNCHANGED <<live, strays>>
      /\ UNCHANGED <<still, ckpts, pending, entries, meta, oneshot, begun, lapses>>

WriteEntry(p) ==
  /\ At(p, "entry")
  /\ entries' = IF Main \in entries THEN entries \cup {sess[p].slate} ELSE entries
  /\ Ends(p)
  /\ UNCHANGED <<still, live, ckpts, pending, meta, strays, oneshot, begun, lapses>>

(***************************************************************************)
(* `cleanslate discard': the slate is found to exist and not to be in use  *)
(* and its checkpoints are listed; each is deleted, oldest first, and its  *)
(* sidecar after it; then the slate with all inside it, then the entry.    *)
(* The first deletion that fails ends the command.                         *)
(***************************************************************************)
StartDiscard(p, s) ==
  /\ Discardable(s)
  /\ Begins(p, [at |-> "discard", slate |-> s, source |-> None,
                doomed |-> {NameOf(c) : c \in Listed(s)}])

DeleteOldest(p, n) ==
  /\ At(p, "discard")
  /\ n \in sess[p].doomed
  /\ \A m \in sess[p].doomed : n.seq <= m.seq
  /\ ckpts' = ckpts \ Named(n)
  /\ IF Taken(n)
     THEN Become(p, [sess[p] EXCEPT !.at = "forget", !.source = n,
                                    !.doomed = @ \ {n}])
     ELSE Ends(p)
  /\ UNCHANGED <<still, live, pending, entries, meta, strays, oneshot, begun,
                 lapses>>

\* Seeded fault: the sidecar stays.
Forget_Nothing(p) ==
  /\ At(p, "forget")
  /\ Become(p, [sess[p] EXCEPT !.at = "discard", !.source = None])
  /\ UNCHANGED <<fsVars, meta, strays, oneshot, up, begun, lapses>>

Forget(p) ==
  /\ At(p, "forget")
  /\ \/ meta' = meta \ {Key(sess[p].source)} /\ UNCHANGED lapses
     \/ /\ "sidecar" \in Faults
        /\ lapses' = lapses \cup {"sidecar"}
        /\ UNCHANGED meta
  /\ Become(p, [sess[p] EXCEPT !.at = "discard", !.source = None])
  /\ UNCHANGED <<fsVars, strays, oneshot, up, begun>>

\* Seeded fault: the slate goes before its checkpoints.
RemoveSlate_First(p) ==
  LET s == sess[p].slate
  IN  /\ At(p, "discard")
      /\ live' = [live EXCEPT ![s] = Absent]
      /\ strays' = {x \in strays : x.slate # s}
      /\ IF sess[p].doomed = {} THEN Goes(p, "unlist") ELSE UNCHANGED sess
      /\ UNCHANGED <<still, ckpts, pending, entries, meta, oneshot, begun, lapses>>

RemoveSlate(p) ==
  LET s == sess[p].slate
  IN  /\ At(p, "discard")
      /\ sess[p].doomed = {}
      /\ live' = [live EXCEPT ![s] = Absent]
      /\ strays' = {x \in strays : x.slate # s}
      /\ IF live[s] = Absent THEN Ends(p) ELSE Goes(p, "unlist")
      /\ UNCHANGED <<still, ckpts, pending, entries, meta, oneshot, begun, lapses>>

\* Seeded fault: the boot entry stays.
RemoveEntry_Kept(p) ==
  At(p, "unlist") /\ Ends(p)
    /\ UNCHANGED <<fsVars, meta, strays, oneshot, up, begun, lapses>>

RemoveEntry(p) ==
  /\ At(p, "unlist")
  /\ entries' = entries \ {sess[p].slate}
  /\ Ends(p)
  /\ UNCHANGED <<still, live, ckpts, pending, meta, strays, oneshot, begun, lapses>>

\* --no-bls, or no EFI partition mounted: a fork or a discard ends without.
SkipEntry(p) ==
  /\ At(p, "entry") \/ At(p, "unlist")
  /\ "esp" \in Faults
  /\ Ends(p)
  /\ lapses' = lapses \cup {"entry"}
  /\ UNCHANGED <<fsVars, meta, strays, oneshot, up, begun>>

(***************************************************************************)
(* `cleanslate rollback' finds the checkpoint, `cleanslate reset' the      *)
(* slate; then StagePending looks for the source and writes the file.      *)
(***************************************************************************)
StartRollback(p, c) ==
  /\ c \in Listed(c.slate)
  /\ Begins(p, [at |-> "stage", slate |-> c.slate, source |-> NameOf(c), doomed |-> {}])

\* Seeded fault: no source is named.
StartReset_NoSource(p, s) ==
  /\ live[s] # Absent
  /\ Begins(p, [at |-> "stage", slate |-> s, source |-> None, doomed |-> {}])

StartReset(p, s) ==
  /\ live[s] # Absent
  /\ Begins(p, [at |-> "stage", slate |-> s, source |-> Baseline, doomed |-> {}])

Stage(p) ==
  /\ At(p, "stage")
  /\ IF Exists(sess[p].source)
     THEN StagePending(sess[p].slate, sess[p].source)
     ELSE UNCHANGED fsVars
  /\ Ends(p)
  /\ UNCHANGED <<meta, strays, oneshot, up, begun, lapses>>

(***************************************************************************)
(* `cleanslate switch': the entry is looked for, if the EFI partition is   *)
(* mounted, and set for the next boot.  With --scratch it is the scratch   *)
(* entry whatever the name.                                                *)
(***************************************************************************)
Target(ask) == IF ask.scratch THEN Runtime ELSE ask.name

HasEntry(t) == t \in entries \cup {Runtime, Baseline}

StartSwitch(p, ask) ==
  /\ HasEntry(Target(ask)) \/ "esp" \in Faults
  /\ Begins(p, [at |-> "arm", slate |-> None, source |-> ask, doomed |-> {}])

Arm(p) ==
  /\ At(p, "arm")
  /\ oneshot' = sess[p].source
  /\ Ends(p)
  /\ UNCHANGED <<fsVars, meta, strays, up, begun, lapses>>

Kill(p) ==
  /\ up /\ sess[p] # Idle
  /\ "kill" \in Faults
  /\ Ends(p)
  /\ lapses' = lapses \cup {"killed"}
  /\ UNCHANGED <<fsVars, meta, strays, oneshot, up, begun>>

(***************************************************************************)
(* The reboot, of --reboot or of the user's: the loader takes the one-shot *)
(* entry if there is such an entry, else the default, cleanslate-main,     *)
(* else the first in menu order, where the entries copied from the default *)
(* slate's come before scratch.                                            *)
(***************************************************************************)
Chosen ==
  IF oneshot # None /\ HasEntry(Target(oneshot)) THEN {Target(oneshot)}
  ELSE IF Main \in entries THEN {Main}
  ELSE IF entries # {} THEN entries
  ELSE {Runtime}

Reboot ==
  /\ up
  /\ \A p \in Session : sess[p] = Idle
  /\ up' = FALSE
  /\ oneshot' = None
  /\ \E t \in Chosen :
       cmdline' = [subvol |-> t, basis |-> IF t = Runtime THEN Baseline ELSE None]
  /\ facts' = None
  /\ UNCHANGED <<diskVars, sess, meta, strays, begun, lapses>>

-----------------------------------------------------------------------------
Start(p) ==
  \/ \E message \in {"", "text"} : ReadNumber(p, message)
  \/ \E s \in Slate, source \in ForkSources : StartFork(p, s, source)
  \/ \E s \in Slate : StartDiscard(p, s) \/ StartReset(p, s)
  \/ \E c \in ckpts : StartRollback(p, c)
  \/ \E ask \in Asks : StartSwitch(p, ask)

Step(p) ==
  \/ TakeSnapshot(p) \/ Describe(p)
  \/ Copy(p) \/ WriteEntry(p)
  \/ \E n \in sess[p].doomed : DeleteOldest(p, n)
  \/ Forget(p) \/ RemoveSlate(p) \/ RemoveEntry(p)
  \/ SkipEntry(p)
  \/ Stage(p) \/ Arm(p)

Next == (\E p \in Session : Start(p) \/ Step(p) \/ Kill(p)) \/ Reboot

Spec == Init /\ [][Next]_vars
=============================================================================
