------------------------------ MODULE Machine -------------------------------
(***************************************************************************)
(* A cleanslate machine over many boots: the boot menu picks a target, the *)
(* hook prepares the root, the system runs, its user edits the root and    *)
(* issues commands, and power goes away at any moment, in the hook too.    *)
(* What is in memory (the script's variables and /run) is lost with the    *)
(* power; each finished btrfs command is on disk.                          *)
(***************************************************************************)
EXTENDS Hook, Commands

vars == <<fsVars, hookVars>>

Init == FsInit /\ pc = "off" /\ boot = Idle

\* Room for the two checkpoints a boot may take (a bound, not the code's).
Room(s) == \A c \in Of(s) : c.seq + 2 <= MaxSeq

(***************************************************************************)
(* The boot menu: slates with an entry, scratch, rescue.                   *)
(***************************************************************************)
PowerOn(t, asked) ==
  /\ pc = "off"
  /\ pc' = "mount"
  /\ cmdline' = [subvol |-> t, basis |-> asked]
  /\ \E w \in GoalFor(t, asked) : boot' = [Idle EXCEPT !.goal = w]
  /\ UNCHANGED <<diskVars, facts>>

BootSlate(s) == s \in entries /\ Room(s) /\ PowerOn(s, None)
BootScratch  == \E asked \in Bases : PowerOn(Runtime, asked)
BootRescue   == PowerOn(Baseline, None)

\* A reboot, a power cut, or the operator giving up on the panic shell.
PowerOff ==
  /\ pc # "off"
  /\ pc' = "off"
  /\ boot' = Idle
  /\ cmdline' = NoCmdline
  /\ facts' = None
  /\ UNCHANGED diskVars

\* Work done on the mounted root.  The rescue root is read-only.
EditSlate ==
  /\ pc = "up"
  /\ Target \in Slate
  /\ live[Target] # Absent
  /\ clock < MaxWork
  /\ clock' = clock + 1
  /\ live' = [live EXCEPT ![Target] = clock']
  /\ UNCHANGED <<hookVars, ckpts, runtime, pending, config, entries,
                 cmdline, facts>>

EditScratch ==
  /\ pc = "up"
  /\ Target = Runtime
  /\ clock < MaxWork
  /\ clock' = clock + 1
  /\ runtime' = clock'
  /\ UNCHANGED <<hookVars, live, ckpts, pending, config, entries,
                 cmdline, facts>>

Configure ==
  /\ pc = "up"
  /\ config' \in Configs \ {config}
  /\ UNCHANGED <<hookVars, live, ckpts, runtime, pending, entries, cmdline,
                 facts, clock>>

RunCommand == pc = "up" /\ Command /\ UNCHANGED hookVars

BootAny == BootScratch \/ BootRescue \/ \E s \in Slate : BootSlate(s)

Next ==
  \/ BootAny
  \/ HookStep
  \/ EditSlate \/ EditScratch \/ Configure
  \/ RunCommand
  \/ PowerOff

(***************************************************************************)
(* The script runs to its end by itself; nothing obliges anyone to turn    *)
(* the machine on, to use it or to turn it off.                            *)
(***************************************************************************)
Spec == Init /\ [][Next]_vars /\ WF_vars(HookStep)
=============================================================================
