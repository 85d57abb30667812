------------------------------ MODULE NameLaws ------------------------------
(***************************************************************************)
(* The arithmetic of CheckpointNames against reference definitions that    *)
(* work on the characters of the printed field, for every pair of numbers  *)
(* of Samples.  A pair is all the state there is.                          *)
(***************************************************************************)
EXTENDS CheckpointNames, SequencesExt

CONSTANT Samples

ASSUME SamplesAssumption == \A n \in Samples : n \in Nat /\ n <= 99999

VARIABLES first, second

Init == first \in Samples /\ second = Blank

Next == second' \in Samples /\ UNCHANGED first

Spec == Init /\ [][Next]_<<first, second>>

(***************************************************************************)
(* Reference: the field as printf '%04d' prints it, and as text.           *)
(***************************************************************************)
Thousands(n) == (n \div 1000) % 10
Hundreds(n)  == (n \div 100) % 10
Tens(n)      == (n \div 10) % 10
Units(n)     == n % 10

LastFour(n) == <<Thousands(n), Hundreds(n), Tens(n), Units(n)>>

Printed(n) == IF n >= 10000 THEN <<n \div 10000>> \o LastFour(n) ELSE LastFour(n)

Dot == -1  \* a dot sorts before the digits
Field(n) == IF n = Blank THEN <<Dot>> ELSE Append(Printed(n), Dot)

TextLess(s, t) ==
  \E i \in DOMAIN s \cap DOMAIN t :
    s[i] < t[i] /\ \A j \in 1..(i - 1) : s[j] = t[j]

Horner(base, a, b, c, d) == ((a * base + b) * base + c) * base + d

\* The value of four digits, or of five.
InBase(base, f) ==
  IF Len(f) = 4 THEN Horner(base, f[1], f[2], f[3], f[4])
  ELSE Horner(base, f[1] * base + f[2], f[3], f[4], f[5])

(***************************************************************************)
(* The shell reads a printed field in base eight when it starts with a     *)
(* zero, and not at all if one of its digits is then too large (`$(( ))'   *)
(* in next_seq).                                                           *)
(***************************************************************************)
ShellReadsOctal ==
  LET digits == Printed(first)
  IN  ShellValue(first) =
        IF Head(digits) # 0 THEN InBase(10, digits)
        ELSE IF \E i \in DOMAIN digits : digits[i] > 7 THEN Illegal
        ELSE InBase(8, digits)

(***************************************************************************)
(* The order of two names is that of their text (`ls | sort' in            *)
(* prune_auto).                                                            *)
(***************************************************************************)
NamesSortAsText ==
  NameLess(first, second) <=> TextLess(Field(first), Field(second))

(***************************************************************************)
(* Up to its seventh checkpoint a slate is numbered alike by the hook and  *)
(* by the Go code, whatever has been pruned; and the Go number is always a *)
(* new one (next_seq, nextSeq).                                            *)
(***************************************************************************)
NumberingAgrees ==
  LET S == {first, second} \ {Blank}
  IN  /\ S \subseteq 1..7 => ShellNext(S) = GoNext(S)
      /\ \A n \in GoNext(S) : n > first /\ n > second

(***************************************************************************)
(* Below ten thousand, what prune_auto deletes is what PruneAuto of the Go *)
(* code would: all but the `keep' highest numbers.  The order of listing   *)
(* differs above that, the number of checkpoints left does not.            *)
(***************************************************************************)
PruneTakesOldest ==
  LET S == {first, second, first + 1, second + 1} \ {Blank}
  IN  \A keep \in 0..4 :
        LET left == S \ Victims(S, keep)
        IN  /\ Cardinality(left) = IF keep < Cardinality(S) THEN keep ELSE Cardinality(S)
            /\ (\A n \in S : n <= 9999) =>
                 /\ Victims(S, keep) = GoPruned(S, keep)
                 /\ \A a \in left, b \in S \ left : b < a
=============================================================================
