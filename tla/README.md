# A verification development for cleanslate

TLA+ models, model-checking runs and proofs about cleanslate: machines whose
root file system is a *slate* (a btrfs subvolume), with a checkpoint taken at
every boot. The modules are translated from the code: the initramfs hook
`mkosi.extra/etc/initramfs-tools/scripts/local-top/cleanslate-state` ("the
hook"), the Go packages `internal/slate` and `cmd/cli`, and
`scripts/relayout.sh`. `PROJECT.json` names, for every definition, the lines it
stands for.

## 1. The system

Two programs act on the same disk, never at the same time. The hook runs in the
initramfs, before the root is mounted, and prepares the root the boot entry
names. The `cleanslate` command runs in the booted system, perhaps in several
terminals at once: nothing locks the store. What it cannot do to a mounted root
it *stages* for the hook in one file. `cleanslate install` is a program apart:
it writes an image over a disk.

| part | state it keeps | operations | with whom |
|---|---|---|---|
| hook (`local-top/cleanslate-state`) | script variables, for one boot | ensure_slate, apply_pending, checkpoint_slate, prune_auto, scratch root, write_facts | reads entries, staged file, config; writes subvolumes and `/run/cleanslate` |
| checkpoints (`checkpoint.go`) | `@<slate>.ckpt.<seq>.<class>`, `.meta` sidecars | list, find, create, delete, number | hook names and prunes the same subvolumes |
| slate operations (`ops.go`, `pending.go`) | slates, `.cleanslate/pending` | fork, rollback, reset, discard, stage | hook applies the staged file |
| boot facts (`booted.go`) | `/run/cleanslate/*` (hook), `/proc/cmdline` | read, fall back, report divergence | commands decide by them |
| boot entries (`bls.go`, `esp.go`, `names.go`) | `loader/entries/cleanslate-*.conf`, one-shot default | write from template, delete | boot menu; hook gets the options |
| commands (`cmd/cli/slates.go`) | none | status, list, history, checkpoint, rollback, fork, switch, reset, discard | all of the above |
| btrfs wrapper (`btrfs.go`, `mount.go`), `nested.go` | none | snapshot, delete (recursive), nested check | btrfs-progs |
| configuration | `.cleanslate/config` | read by hook and by Go, separately | retention, checkpoints off |
| layout and build (`relayout.sh`, `build.go`) | the image | sealed `@baseline`, entries main, scratch, rescue | first boot |
| host identity (`local-bottom` hook, key service) | `@hostid` | bind mount, key generation | none of the slates |
| installer (`install.go`) | a disk | look at the mount table twice, ask, dd with and without direct I/O | whatever is mounted |

What is hard here: power may go between any two btrfs commands, and what comes
back is a boot that must work; every command may fail and most failures are
survived on purpose; replacing a slate is split between two programs, a reboot
and perhaps weeks; both programs number checkpoints by rules of their own; the
shell computes with zero-padded numbers; facts recorded at boot decide later
which slate may be deleted; what one command has read another may have changed
before it acts; four kinds of text are written by one program and read by
another's parser. What makes the parts correct:

- hook: a replacement is preceded by a kept checkpoint of what it replaces,
  through any crash; a boot that met no failure delivers the staged source, or
  the slate as it was left, or the baseline; it leaves a checkpoint of exactly
  that; pruning spares the newest automatic checkpoints, the kept ones, other
  slates and what is still staged; each boot ends.
- checkpoints: a number means one checkpoint; both numberings agree.
- operations: the slate in use is never deleted, only discards lose work.
- commands at once: a race makes one of them fail, never a checkpoint under a
  wrong number, an orphaned history or lost work of a slate in use.
- boot entries: the entry of a slate boots that slate; the next boot finds one.
- texts: what one program writes the others read back; references name one
  checkpoint.
- facts: what is reported is what happened.
- installer: nothing mounted is written over; what is reported done is whole.

`hazards` in `PROJECT.json` lists the dangers line by line, with the property
that watches each, or the reason none does yet.

## 2. Modules

```
CheckpointNames -- Filesystem -+- Hook ------+- Machine -- MachineProperties -+- MCMachine
   |                           +- Commands --+                 |              +- MachineProofs -- BootProofs
   |                                 |                   SlateStore
   |                                 |                         |
   |                                 +- Sessions ----- SessionProperties -+- MCSessions
   |                                                                      +- SessionProofs -- SerialProofs
   +- CheckpointNamesProofs (used by BootProofs and LawsProofs)
   +- NameLaws -----------+- Laws -+- MCLaws
      StoredText, --------+        +- LawsProofs
      References

Nesting -+- MCNesting             Install -+- MCInstall
         +- NestingProofs                  +- InstallProofs
```

- **CheckpointNames**: the numbers in checkpoint names. `ShellValue` is what
  `$(( ))` makes of a four-digit field (octal, or nothing), `ShellNext` and
  `GoNext` the two next numbers, `Victims` what prune_auto selects in text
  order. `Blank` (0) is the empty field the hook writes when its arithmetic
  fails. These are sets with one element where the code computes one value, to
  be free of `CHOOSE`.
- **Filesystem**: the state both programs share. `live` (slates), `ckpts`,
  `runtime` (`@runtime`), `pending` (the staged file), `config`, `entries`
  (slates with a boot entry); while the machine is on also `cmdline` and `facts`
  (`/run/cleanslate`). A subvolume's tree is one number, `Pristine` for the
  baseline; every edit takes a fresh number (`clock`), so equal numbers mean
  the same work. `FsInit` is the disk `relayout.sh` leaves or, with `Aged` > 0,
  the disk after that many uneventful boots.
- **Hook**: one action per command of the script that changes the disk; `pc`
  names the next. `boot` holds the script's variables and four history fields:
  `goal` (what this boot should deliver, fixed when it starts), `clean` (no
  command failed), `stuck` (the staged file could not be removed), `created`.
  Reads are merged with the write they lead to: nothing else runs then. A
  failure is an alternative of its action, allowed if its name is in `Faults`.
  Deleting a slate is one step, as are the deletions of one pruning: any subset
  may fail, which is also what a power cut half way leaves. `RemoveStaged` is
  the script's `rm -f`, whose failure goes unnoticed. `WriteFacts` may leave out
  any of the files (`FactFiles`) on its own.
- **Commands**: one action per command that goes through; a refused command
  changes nothing. `Booted` is what `ReadBooted` returns: without the file
  `slate` the command line, and of the other files each missing one as empty.
  `DiscardStopsEarly` is a discard that ends at a checkpoint it could not delete,
  `ForkTop` a fork of the running slate when the file `basis` is missing.
- **Machine**: the whole life of a machine. The boot menu is free to pick any
  entry; a running system is edited, configured and given commands; power goes
  at any time, in the hook too, and takes `boot`, `cmdline` and `facts` along.
- **SlateStore**: the abstract promise. Between roots a slate's work goes away
  only after it was kept; in use, only a discard of another slate takes work or
  kept work; the slate in use stays. `StorePromises` in MachineProperties is
  `SlateStore!Spec` under the mapping work <- `live`, kept <- contents of kept
  checkpoints, root <- the root in use, and nothing while the hook runs.
- **MachineProperties**: the properties, each with the code it is about.
- **Sessions**: the commands of one boot, step by step, in several terminals. A
  terminal's record in `sess` is the next step of its command and what the
  command has read: the slate, the source or the number it picked, the
  checkpoints it will delete. One action per step that reads or writes shared
  state; reads made together in the code are one step. A command that is
  refused, fails or finishes leaves its terminal idle. `strays` are the
  snapshots btrfs puts *inside* a slate when a fork's target has appeared
  meanwhile, `meta` the sidecars, `oneshot` what `switch` set. `lapses` records
  what went other than whole commands one after another (overlap, a kill, a
  boot entry skipped, a sidecar that could not be removed): some properties
  only hold without the one or the other, and say so. `Reboot` ends a run with
  the loader's choice, `Chosen`.
- **SessionProperties**: their properties, and the same SlateStore under the
  mapping of the interleaved commands.
- **StoredText**: the readers and writers of the configuration, the staged file
  and boot entries, as sequences of lines or fields with what the parsers tell
  apart: key, blanks around, a number's spelling, a slash or a missing @.
- **Nesting**: the recursive deletion of a slate with subvolumes nested in it.
  `left` is what there is, `busy` what cannot be deleted; `DeleteRecursive` is
  `delete -R`, which may stop anywhere, and the list that is made when it fails;
  `DeleteNested` and `DeleteParent` delete one at a time. It may be cut off and
  begin anew, and what is busy changes in between. `deep` says which of its two
  forms the list of btrfs-progs has. A path is the sequence of places where its
  components end, so the last of them is the length the code sorts by.
- **References**: a list of subvolumes and what a word names in it.
- **NameLaws**: reference definitions that print, sort and read fields digit by
  digit; **Laws** puts NameLaws, StoredText and References over samples: a state
  is one sample. What a sample may be at all is an assumption of its own
  (`FilesAssumption`, `LinesAssumption` and so on), so the laws can be proved of
  every such sample.
- **Install**: one installation after another, `Mount` the file systems that may
  come and go between any two steps; a path is the sequence of the characters
  the code looks at, `Holds` says which extents it stands for. The mount table
  is opened twice, by `LookForMounts` and by `LookForRoot`, it may have changed
  in between, and either time opening it may fail: then that look finds nothing.
  `seen` is a history variable: the mounts the first look was shown, and the root
  the second was.
- **MCMachine**, **MCSessions**, **MCLaws**, **MCNesting**, **MCInstall**:
  constants for TLC.
- **CheckpointNamesProofs**, **LawsProofs**; **MachineProofs**, **BootProofs**;
  **SessionProofs**, **SerialProofs**; **NestingProofs**; **InstallProofs**:
  theorems, section 5.

Definitions named `X_Something` with the comment "Seeded fault" are wrong
versions of `X`, in the way a slip in the code could make it wrong. Each
property is violated when the version listed for it under `mutants` takes the
place of `X`.

## 3. Runs

`Room` keeps a slate from booting when it lacks two numbers below `MaxSeq`;
`MaxWork` bounds edits, `MaxCommands` the commands begun in one boot of
Sessions. They only cut histories short. Slates are never symmetric: `main` is
special and there is at most one other. The terminals of `sessions` are. Deadlock
is checked except in the two runs of Sessions, which end at the reboot.

| run | instance | shows |
|---|---|---|
| `one_slate` | `{main}`, any of thirteen faults anywhere, among them the `rm -f` of the staged file and the loss of the fact files `slate` and `basis`, apart or together, retention 0, 1 or checkpoints off, numbers to 4, one edit; 734,533 states | TypeOK, BootDelivers, BootLeavesRollbackPoint (retention 1), UnambiguousRefs, RunningSlateStays, PruneSparesNewest; BootSettles, StagedTriedOnce |
| `two_slates` | `{main, exp}`, scratch boots based on `exp`, power loss, and the failure of each step of a replacement (the checkpoint before it, the removal, the restoring), retention 1, numbers to 3; 1,438,535 states | BootDelivers, StorePromises, BootSparesStagedSource: slates do not disturb one another |
| `laws` | pairs of numbers around every change of digit or width up to 99,999; configurations and option lines of up to two and three lines or fields; every list out of eleven subvolumes; 11,115 states | the shell reads octal, names sort as text, both numberings agree up to seven, both prunings below 10,000; both configuration readers agree on plain files; what was staged is read; an entry boots its slate and keeps every other option; references are exact |
| `nesting` | every tree out of six paths of up to three components, everything busy or not, both forms of the list; 151,448 states | TypeOK, DeletionIsWhole |
| `sessions` | `{main, exp}`, two terminals, four commands, numbers to 4, kills, failing sidecars, entries skipped; 778,352 states | NumbersFollow, NoOrphanCheckpoints, SidecarsFollow, SerialForksAreNew, NextBootHasSlate, SharedStoreKeepsPromises |
| `install` | two disks with partitions, a disk whose name begins like another's, a file; three mounts, a table that cannot be opened; 341,280 states | MountedIsSpared, DoneIsWhole, InstallEnds |
| `octal_checkpoint` | `{main}` after seven boots | violated, see findings |
| `deleted_slate`, `stale_staging` | `{main, exp}` | violated, see findings |
| `scratch_switch` | as `sessions`, numbers to 3 | violated, see findings |
| `install_alias` | as `install`, and a link to one disk | violated, see findings |
| `list_nested` | as `laws` | violated, see findings |

Why these are enough: four numbers allow a checkpoint of the boot, one of the
user, one before a replacement and one after it, so a replacement is seen
crashing, repeated and rolled back itself; retention 1 prunes at the second boot
and retention 0 at once; one edit tells the slate from the baseline, so a wrong
source or a lost copy shows. Two slates suffice for effects of one slate on
another, since every operation concerns one target and one source. Numbers from
8 on are left to the `octal_checkpoint` run because the code is wrong there; the
passing runs with numbers to 4 say what holds before. That limit is real:
BootDelivers, BootLeavesRollbackPoint and UnambiguousRefs hold of the code as
long as a slate's numbers stay up to eight (section 5), not beyond. A machine
with two slates lets only the steps of a replacement fail, since power loss
already stops the boot at every step; StorePromises under every other failure, a
discard's included, is `KeepsPromises`. `one_slate` has the fact files `slate`
and `basis` missing. The other three are written in every run: no command
decides by `checkpoint` or `requested`, and a missing `mode` lets discard take
the running slate as a missing `basis` does, and otherwise only has `checkpoint`
refused and lets a rescue boot fork the baseline, which can be named anyway. The
theorems allow for any of the five to be missing. BootLeavesRollbackPoint says
nothing of retention 0, where the checkpoint just taken is pruned.

For Sessions, a race is between two commands, a third terminal only repeats it;
four commands are two that race and two that prepare (a slate discarded and made
again) or look at what is left. Command-made numbers go up to 4 from the two
checkpoints every slate starts with, so each terminal can take one. In `laws` a
reader's choice among lines shows with two of one key; with three fields an
option line has rootflags first, last and in between. In `nesting` the six paths
have forks, a subvolume in a plain directory and one three deep, and paths whose
length is not in the order of their depth. In `install` names matter where one
begins like another (sda, sdaa, sda1) and where the partition separator differs
(nvme0n1p1);
sources that hide the disk they lie on (LVM, device mapper) are left out, the
link of `install_alias` shows what happens then.

Fairness in Install is `WF_vars(Write)`: dd ends, well or not. Nobody has to
answer the prompt, so InstallEnds starts at writing. Sessions has none: a
terminal may stand still at the prompt of a discard.

Fairness of Machine is `WF_vars(HookStep)` only: once started the script runs to
its end unless power is lost (every wait in it has a bound: ROOTDELAY, udev's 10
s). Nobody has to switch a machine on, use it or switch it off. BootSettles and
StagedTriedOnce rest on that alone; both allow for power loss.

## 4. Findings

1. `octal_checkpoint` -- `next_seq` (hook, line 257) adds one to a zero-padded
   field. After `@main.ckpt.0008.auto` the shell rejects `0008`, the name
   becomes `@main.ckpt..auto`, and since that sorts first it is the first to be
   pruned: at once where retain_auto is small, as in the run.
   The README promises "Every boot leaves a checkpoint behind". Two more
   consequences of the line: after such a checkpoint the one made before a
   replacement is `@main.ckpt..keep`, so a second replacement finds the name
   taken and is dropped, though the help of `reset` says "this always works";
   and `0010` is read as 8, so a slate with a checkpoint 10 gets a second 9 and
   `main.9` means either.
2. `deleted_slate` -- `Diverged` is documented to report a slate that had been
   deleted, but a persistent boot records requested and basis alike (line 418).
3. `stale_staging` -- `discard` leaves a replacement staged against the slate;
   a new slate of that name is replaced at its first boot.
4. `scratch_switch` -- `switch <name> --scratch` arms the scratch entry, a copy
   of the baseline, where README and help promise a copy of the slate.
5. `install_alias` -- the installer compares names with the mount table's; a
   disk named by a link in `/dev/disk/by-id` is never found to be mounted.
6. `list_nested` -- `Slates` keeps every path that begins with @, and that of a
   subvolume nested in a slate does: `list` shows it as a slate.

Met without a run of its own: a missing `mode` file reads as "unknown" and a
missing `basis` file as no name, and `discard` refuses the running slate only by
its name and in mode "persistent", so with either file missing it takes it
(`Torn` in RunningSlateStays, `WholeFacts` in the proofs); with `basis` missing
`fork` without `--from` copies the top of the filesystem and not the running
slate (ops.go:28-29 and :40); a staged file that `rm -f` cannot remove is applied
again at every boot, which the hook's comment (lines 305-308) means to rule out;
`CheckCapturable` lets a checkpoint pass when the list of nested subvolumes
fails, as its comment says; `fork --from 2` copies checkpoint
2 of the first slate that has one, even if there is a slate named 2; a fork
whose name was taken while it looked puts its copy inside that slate and reports
success; `auto_checkpoint=off ` with a blank after it is off for the Go code and
on for the hook.

## 5. Proofs

Every safety property of the passing runs is a theorem. All are about any set of
slates, devices and terminals, any faults and bounds, unless a hypothesis says
otherwise. The assumptions on constants are those named in the modules that
declare them; TLC evaluates each on the run of that module. `PathsAssumption`
(no slate's path is a checkpoint's) is there because `validateName` refuses
dots. The inductive invariants below were first checked by TLC, as invariants of
the runs named in section 3.

Machine:

- `TypeCorrect`: `Spec => []TypeOK`. TypeOK is not inductive: which root a step
  handles must be known for `live[Target]` to make sense. The invariant
  `TypeInv` adds `RootInv` (the target's kind at each step, and that the basis
  of a slate boot is that slate) and `FactsInv` (facts exist only in a running
  system, and name, basis and mode are those of its root or missing). One step
  per action.
- `KeepsPromises`: `Spec => StorePromises`, provided neither the mode nor the
  basis is ever missing from the facts (`WholeFacts`; without it `discard` may
  take the running slate, section 4). Every other file may be. `KeepInv` adds
  that once the staged file is being consumed the slate's content is in a kept
  checkpoint, up to its removal, that the slate exists at the later steps, and
  that the slate of a running system exists. Each hook step then maps to a
  stutter or to Keep, Retire, Create or Start; each command to Keep, Create,
  Discard or a stutter.
- `RunningSlateSafe`: the slate in use exists as long as its facts are not torn,
  from the same invariant and without a hypothesis.
- `StagedSourceSpared`: no boot removes the source of a replacement that stays
  staged, unless the staged file is stuck. `StagedInv`: a rollback goes to a
  checkpoint of its own slate, and once a boot deletes anything of its slate
  nothing is staged for that slate, or what is staged could not be removed.
- `NewestSpared`, if numbers have at most four digits (`UpTo(9999)`): pruning
  spares the newest. `NamesInv` says that checkpoints are finitely many, with
  names of their own; `BoundInv` that a boot begins with room for the two
  numbers it may take; then `NamesSortNumerically` makes the text order the
  order of age.
- `RefsUnambiguous`, `BootsDeliver` and `RollbackPointLeft`, if numbers stay up
  to eight (`UpTo(8)`). The bound is the code's, not the proof's: run
  `octal_checkpoint` violates the last of them with the first number read from
  0008. `NumberInv`: the next number is above all in use, which needs that the
  hook counts as the Go code does. `GoalInv` follows what the boot should
  deliver from the menu to the last step: it is where the boot will look for it
  as long as no command failed, and a replacement finds the name of its
  checkpoint free because of NumberInv. `PointInv`: the checkpoint of this boot
  is the newest of the slate, so pruning leaves it.

Sessions, for any number of terminals:

- `NoOrphans`, `NumbersInOrder` and `SharedStore`: `HistoryInv` says of each
  terminal what remains true of the checkpoints it has read about while others
  act. A number that was read is still the next one, or its name is taken by now
  and the snapshot fails; a discard's slate is not in use and has no checkpoint
  but those listed, since only the slate in use gains any. So the slate goes
  after its last checkpoint, and whoever makes one makes it under the right
  number. The name and the basis of the booted root are the same here, since
  Sessions begins with whole facts. `StoreInv` adds that the basis the commands
  read is the root that was booted; with both, each step maps to Keep, Create,
  Discard or Stop of SlateStore, or to a stutter.
- `TypeCorrect`: `FormInv`, the types with what a rollback may stage.
- `SidecarsInStep`: `SidecarInv` adds that the checkpoint a command is about to
  describe is there and is of the slate in use, hence in nobody's discard.
- `SerialForks`, `NextBoot`: `SerialInv` says that without overlap at most one
  terminal is busy, the target of its fork is still free, and an entry without a
  slate is about to be removed.

Nesting, for every set of paths:

- `TypeCorrect`, `WholeDeletion`. `WholeInv`: what is held (busy, or around what
  is busy) is left, and whatever has been tried, or is listed nowhere, is left
  only if held. What lies in a subvolume has a longer path, so longest first
  takes the inner before the outer. DeletionIsWhole, run and theorem, is limited
  to a list that shows all levels or a nesting of one: docs/design.md:180 says
  outright that "Removing a slate is complete".

Laws, for every sample that meets the assumptions of `Laws` and `NameLaws`:

- `NumberingLaw`, `PruneLeavesKeep`, `PruneLaw`, with
  `NumberingAgreesBelowEight`, `GoNumberIsNew`, `NamesSortNumerically`,
  `PruneTakesInitialSegment` of CheckpointNamesProofs, for every set of numbers.
  How many checkpoints pruning leaves is the one induction here: the least size
  of a counterexample, found with the library's theorem on well-founded orders,
  which takes a relation and not an operator.
- `ShellLaw`, `NamesLaw`: for every number below 100,000 and every pair of
  them, from what the field's four or five digits are.
- `ReadersLaw` for configurations, `StagedLaw` for reasons and `EntryLaw` for
  options lines of any length: what Min and Max of the matching lines are, and
  that replacing or appending one subvolume leaves one to be found.
- `ReferencesLaw` for every list of subvolumes and any slate names.

Install:

- `TypeCorrect`, `MountedSpared` and `DoneWhole`: what a run writes is apart
  from all it was shown mounted (`SeenIsElsewhere`), under the hypothesis
  `NamesShow` that devices which share an extent have names that show it: a
  prefix for the first look, the name of the root or of its disk for the second.
  `install_alias` is what happens without it.

Only model-checked: BootSettles, StagedTriedOnce and InstallEnds, because
liveness under fairness and ENABLED are outside the prover's reach. The same goes
for recursion over data and folds, which is why no module uses them: the digits
of a number are at most five and are named one by one, and readers take the
first or last matching line by its index. The violation runs stay with TLC by
their nature.

## 6. Not modelled

What a replacement at boot loses of nested content; the check for nested
subvolumes before a checkpoint, which `--allow-incomplete` (checkpoint.go:138)
and a list that fails (nested.go:63-71) let pass and the checkpoints of the hook
skip, so that a checkpoint may be incomplete on each of these ways; a kernel
command line without `subvol=`; an operator who continues a boot by hand from
the panic shell; messages, time stamps and the wording of any output; the
columns of btrfs's list; which directory holds the EFI partition, and the
temporary mount of the filesystem root that each command makes and drops (a
command without either ends before it changes anything, a fork or a discard
without its entry is `SkipEntry`); `Save`, `Delete` and `Current` of `slate.go`,
which no command calls; names that `validateName` refuses; host identity, which
does not touch slates; image build and `relayout.sh` but for the disk they
leave. A mount made between the installer's look and dd is in the model, but
MountedIsSpared does not speak of it: the code has no second look. The btrfs
commands themselves are trusted: each either happens or does not, and one that
returned success survives a power loss. A list of nested subvolumes that cannot
be had ends a deletion in the model, as a kill would. Sessions does not cut the
power; a killed command and the reboot stand for it, except for the staged file,
whose truncated form is in `laws`; its facts are whole, missing files are in
Machine. RetainAuto, AutoCheckpointEnabled and PruneAuto of `checkpoint.go` are
called by tests only: ReadersAgree and the Go half of PruneTakesOldest watch
code that no command runs yet.

## 7. Plan

Done: the machine with its hook and commands, commands at once, texts,
references, nesting, installer, and a theorem for each of their safety
properties. Next, in this order:

1. Nested content through check, checkpoint, replacement and discard, in the
   machine.
2. What holds, in Install, of a mount made while the prompt waits.
3. `HostIdentity` and `Relayout`, for their failure paths.
