----------------------------- MODULE MCInstall ------------------------------
(***************************************************************************)
(* Constants for the model checker: a disk sda of two partitions, a disk   *)
(* nvme0n1 of one, a disk sdaa whose name begins like the first's, a file, *)
(* and the first disk's name under /dev/disk/by-id.                        *)
(***************************************************************************)
EXTENDS Install

sda  == <<"sd", "a">>
sda1 == <<"sd", "a", "1">>
sda2 == <<"sd", "a", "2">>
sdaa == <<"sd", "a", "a">>
nvme == <<"nvme", "0", "n", "1">>
part == <<"nvme", "0", "n", "1", "p", "1">>
file == <<"disk.raw">>
byid == <<"by-id">>

Disks  == {sda, sda1, sda2, sdaa, nvme, part}
Names  == Disks \cup {file}
Linked == Disks \cup {byid}

Contents ==
  [p \in {sda, sda1, sda2, sdaa, nvme, part, file, byid} |->
     CASE p \in {sda, byid}   -> {1, 2}
       [] p = sda1            -> {1}
       [] p = sda2            -> {2}
       [] p = sdaa            -> {3}
       [] p \in {nvme, part}  -> {4}
       [] p = file            -> {5}]

Stored == [p \in Path |-> Contents[p]]

Mounts == {[source |-> part, where |-> "/"], [source |-> sda1, where |-> "/home"],
           [source |-> sdaa, where |-> "/srv"]}
=============================================================================
