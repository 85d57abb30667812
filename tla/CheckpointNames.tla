-------------------------- MODULE CheckpointNames --------------------------
(***************************************************************************)
(* The numbers in checkpoint subvolume names, @<slate>.ckpt.<seq>.<class>, *)
(* as the two programs that create and prune checkpoints compute with      *)
(* them.  The initramfs hook is a POSIX shell script run by the initramfs  *)
(* shell (dash or the busybox ash); the command line tool is Go.           *)
(*                                                                         *)
(* The sequence field is a natural number written with at least four       *)
(* decimal digits.  Blank stands for the EMPTY field (@main.ckpt..auto),   *)
(* which the hook writes when its arithmetic fails: checkpoints are        *)
(* numbered from 1, so 0 is free for it, and `sort -n' orders an empty     *)
(* field as 0 too.                                                         *)
(***************************************************************************)
EXTENDS Integers, FiniteSets

Blank == 0

\* What `$(( ))' makes of a number it cannot read.
Illegal == -1

\* Seeded fault: only the last two digits decide whether the field can be read.
ShellValue_TwoDigits(n) ==
  LET tens == (n \div 10) % 10
  IN  IF n >= 1000 THEN n
      ELSE IF tens < 8 /\ n % 10 < 8
           THEN 64 * (n \div 100) + 8 * tens + (n % 10)
           ELSE Illegal

(***************************************************************************)
(* The value POSIX shell arithmetic gives to n once n has been printed     *)
(* with %04d.  A field below 1000 starts with a zero, so it is an OCTAL    *)
(* constant; with an 8 or a 9 in it the shell reports "Illegal number".    *)
(***************************************************************************)
ShellValue(n) ==
  LET hundreds == n \div 100
      tens     == (n \div 10) % 10
      units    == n % 10
  IN  IF n >= 1000 THEN n
      ELSE IF hundreds < 8 /\ tens < 8 /\ units < 8
           THEN 64 * hundreds + 8 * tens + units
           ELSE Illegal

\* The largest number of S, 0 when there is none, as the set that holds it.
Latest(S) == {n \in S \cup {0} : \A k \in S \cup {0} : k <= n}

(***************************************************************************)
(* The hook's next_seq, given the sequence fields of a slate's             *)
(* checkpoints: the last in numeric order, plus one.  When the arithmetic  *)
(* fails the command substitution expands to nothing.                      *)
(***************************************************************************)
ShellNext(S) ==
  {IF ShellValue(n) = Illegal THEN Blank ELSE ShellValue(n) + 1 : n \in Latest(S)}

\* Seeded fault: the next number counts checkpoints instead of following the last.
GoNext_Counting(S) == {Cardinality(S \ {Blank}) + 1}

\* nextSeq of the Go code.  Its name pattern wants digits, so it never sees
\* a checkpoint with a blank field.
GoNext(S) == {n + 1 : n \in Latest(S \ {Blank})}

(***************************************************************************)
(* The order `sort' puts two sequence fields in.  It compares names as     *)
(* text, and the character after the field, a dot, precedes every digit.   *)
(* Fields are at most five digits long here.                               *)
(***************************************************************************)
Head4(n) == IF n < 10000 THEN n ELSE n \div 10

\* Seeded fault: names sort as numbers.
NameLess_Numeric(a, b) == a < b

NameLess(a, b) == \/ Head4(a) < Head4(b)
                  \/ Head4(a) = Head4(b) /\ a < b

\* Seeded fault: one checkpoint too many is kept.
Victims_OffByOne(S, keep) ==
  {a \in S : Cardinality({b \in S : NameLess(a, b)}) > keep}

\* The sequence fields `head -n $((_count - _keep))' selects from the sorted
\* automatic checkpoints: those followed by at least `keep' others.
Victims(S, keep) == {a \in S : Cardinality({b \in S : NameLess(a, b)}) >= keep}

\* PruneAuto of the Go code drops those before the last `keep', by number.
GoPruned(S, keep) == {a \in S : Cardinality({b \in S : b > a}) >= keep}
=============================================================================
