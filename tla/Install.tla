------------------------------ MODULE Install -------------------------------
(***************************************************************************)
(* `cleanslate install <target>': an image written over a disk or a file,  *)
(* after two looks at what is mounted and, for a disk, a confirmation. One *)
(* run after another; between two steps of a run anything may be mounted   *)
(* or unmounted, and the run may be interrupted.                           *)
(*                                                                         *)
(* A path is the sequence of its characters (of runs of characters where   *)
(* the code does not look inside).  What is stored is a set of extents,    *)
(* each holding something old, part of the image or its share of it.       *)
(***************************************************************************)
EXTENDS Integers, SequencesExt

CONSTANTS Path,    \* paths a target or a mount source may be given by
          Device,  \* those that name a block device
          Holds,   \* path -> the extents written when it is written
          Mount    \* mounts there may be: [source, where]

ASSUME InstallAssumption ==
  /\ Device \subseteq Path
  /\ DOMAIN Holds = Path
  /\ \A m \in Mount : m.source \in Device

VARIABLES pc,      \* next step of the run
          target,  \* its target
          disk,    \* extent -> what it holds
          mounts,  \* /proc/self/mounts
          seen     \* the mounts the run was shown when it looked (ghost)

vars == <<pc, target, disk, mounts, seen>>

Extent == UNION {Holds[p] : p \in Path}
Ended  == {"refused", "failed", "done"}

Init ==
  /\ pc = "start" /\ target \in Path
  /\ disk = [x \in Extent |-> "old"]
  /\ mounts \in SUBSET Mount
  /\ seen = {}

-----------------------------------------------------------------------------
(***************************************************************************)
(* Names in the mount table.  Each look opens it anew; when it cannot be   *)
(* opened the look finds nothing.                                          *)
(***************************************************************************)
Tables == {mounts, {}}

\* Seeded fault: only the very name counts.
isMounted_Exact(path, table) == \E m \in table : m.source = path

\* A source that begins with the path: the disk of a mounted partition, too.
isMounted(path, table) == \E m \in table : IsPrefix(path, m.source)

Digits == {"0", "1", "2", "3", "4", "5", "6", "7", "8", "9"}

stripPartitionSuffix(path) ==
  LET stripped == SubSeq(path, 1, SelectLastInSeq(path, LAMBDA c : c \notin Digits))
  IN  IF stripped = path \/ stripped = <<>> THEN <<>>
      ELSE IF Last(stripped) = "p" /\ \E c \in {"nvme", "loop"} : Contains(stripped, c)
           THEN Front(stripped)
      ELSE stripped

Roots(table) == {m \in table : m.where = "/"}

isRootDevice(path, table) ==
  \E m \in Roots(table) : path \in {m.source, stripPartitionSuffix(m.source)}

-----------------------------------------------------------------------------
(***************************************************************************)
(* Steps of a run.                                                         *)
(***************************************************************************)
\* The source is missing, or a directory.
NoImage ==
  /\ pc = "start"
  /\ pc' = "refused"
  /\ UNCHANGED <<target, disk, mounts, seen>>

TargetIsFile ==
  /\ pc = "start" /\ target \notin Device
  /\ pc' = "direct"
  /\ UNCHANGED <<target, disk, mounts, seen>>

LookForMounts ==
  /\ pc = "start" /\ target \in Device
  /\ \E table \in Tables :
       \/ isMounted(target, table) /\ pc' = "refused" /\ UNCHANGED seen
       \/ ~isMounted(target, table) /\ pc' = "root" /\ seen' = table
  /\ UNCHANGED <<target, disk, mounts>>

\* With --force there is no prompt.
LookForRoot ==
  /\ pc = "root"
  /\ \E table \in Tables :
       \/ isRootDevice(target, table) /\ pc' = "refused" /\ UNCHANGED seen
       \/ /\ ~isRootDevice(target, table)
          /\ pc' \in {"confirm", "direct"}
          /\ seen' = seen \cup Roots(table)
  /\ UNCHANGED <<target, disk, mounts>>

\* Seeded fault: end of input is not an answer, and nothing comes of it.
Answer_Unread ==
  /\ pc = "confirm"
  /\ pc' \in {"direct", "refused", ""}
  /\ UNCHANGED <<target, disk, mounts, seen>>

\* readYes: end of input is a no.
Answer ==
  /\ pc = "confirm"
  /\ pc' \in {"direct", "refused"}
  /\ UNCHANGED <<target, disk, mounts, seen>>

Fill(what) == disk' = [x \in Extent |-> IF x \in Holds[target] THEN what ELSE disk[x]]

\* dd with oflag=direct: it may fail at once or half way, and is repeated.
WriteDirect ==
  /\ pc = "direct"
  /\ \/ Fill("image") /\ pc' = "done"
     \/ (UNCHANGED disk \/ Fill("part")) /\ pc' = "buffered"
  /\ UNCHANGED <<target, mounts, seen>>

\* Seeded fault: the second attempt is taken to have worked.
WriteBuffered_Trusted ==
  /\ pc = "buffered"
  /\ Fill("image") \/ UNCHANGED disk \/ Fill("part")
  /\ pc' = "done"
  /\ UNCHANGED <<target, mounts, seen>>

\* Seeded fault: when the second attempt fails, both are made again.
WriteBuffered_Over ==
  /\ pc = "buffered"
  /\ \/ Fill("image") /\ pc' = "done"
     \/ (UNCHANGED disk \/ Fill("part")) /\ pc' = "direct"
  /\ UNCHANGED <<target, mounts, seen>>

WriteBuffered ==
  /\ pc = "buffered"
  /\ \/ Fill("image") /\ pc' = "done"
     \/ (UNCHANGED disk \/ Fill("part")) /\ pc' = "failed"
  /\ UNCHANGED <<target, mounts, seen>>

\* Killed, by the user or with the machine, perhaps in the middle of dd.
Interrupt ==
  /\ pc \notin Ended \cup {"start"}
  /\ \/ UNCHANGED disk
     \/ pc \in {"direct", "buffered"} /\ Fill("part")
  /\ pc' = "failed"
  /\ UNCHANGED <<target, mounts, seen>>

Again ==
  /\ pc \in Ended
  /\ pc' = "start" /\ seen' = {} /\ target' \in Path
  /\ UNCHANGED <<disk, mounts>>

MountsChange ==
  /\ \E m \in Mount : mounts' \in {mounts \cup {m}, mounts \ {m}}
  /\ UNCHANGED <<pc, target, disk, seen>>

Write == WriteDirect \/ WriteBuffered

Look == NoImage \/ TargetIsFile \/ LookForMounts \/ LookForRoot

Next == Look \/ Answer \/ Write \/ Interrupt \/ Again \/ MountsChange

\* dd ends, one way or the other; the user may let the prompt wait.
Spec == Init /\ [][Next]_vars /\ WF_vars(Write)

-----------------------------------------------------------------------------
\* The type invariant.
TypeOK ==
  /\ pc \in Ended \cup {"start", "root", "confirm", "direct", "buffered"}
  /\ target \in Path
  /\ disk \in [Extent -> {"old", "part", "image"}]
  /\ mounts \subseteq Mount /\ seen \subseteq Mount

(***************************************************************************)
(* Nothing is written over an extent that was mounted, by its own name or  *)
(* as part of a disk, in the table the run was shown when it looked, nor   *)
(* over the root it was shown afterwards (isMounted, isRootDevice).  A     *)
(* table that could not be opened showed nothing.                          *)
(***************************************************************************)
MountedIsSpared ==
  [][\A x \in Extent : disk'[x] # disk[x] =>
       \A m \in seen : x \notin Holds[m.source]]_vars

(***************************************************************************)
(* A run that ends well has written the whole image, also when the first   *)
(* dd failed half way, or an earlier run did (Run's second dd).            *)
(***************************************************************************)
DoneIsWhole == pc = "done" => \A x \in Holds[target] : disk[x] = "image"

(***************************************************************************)
(* Once writing has begun the run ends: each of the two attempts is made   *)
(* at most once (Run).                                                     *)
(***************************************************************************)
InstallEnds == pc = "direct" ~> pc \in Ended
=============================================================================
