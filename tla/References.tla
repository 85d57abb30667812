----------------------------- MODULE References -----------------------------
(***************************************************************************)
(* What the words on a command line name: the list of subvolumes as btrfs  *)
(* gives it, the slates and checkpoints the Go code sees in it, and the    *)
(* checkpoint or slate a word stands for.                                  *)
(*                                                                         *)
(* A listed subvolume is its path from the filesystem root, a sequence of  *)
(* components.  A word is a text; the texts of Numeral are numbers too.    *)
(***************************************************************************)
EXTENDS Integers, SequencesExt

CONSTANT Alphabetic  \* the slate names there may be, as Go sorts them

ASSUME AlphabeticAssumption ==
  Alphabetic \in Seq(STRING) /\ "" \notin ToSet(Alphabetic)

Numeral == <<"1", "2", "3">>

Named(s)       == [kind |-> "slate", name |-> s, seq |-> 0, class |-> ""]
Ckpt(s, n, cl) == [kind |-> "ckpt", name |-> s, seq |-> n, class |-> cl]
Directory      == [kind |-> "dir", name |-> "var", seq |-> 0, class |-> ""]

\* A list of subvolumes, as checkpointPattern reads it.
Component == [kind : {"slate", "ckpt", "dir"}, name : STRING, seq : Nat, class : STRING]

IsNumbered(c) == c.kind = "ckpt" => c.name # "" /\ c.seq \in DOMAIN Numeral

IsListing(store) ==
  \A p \in store : /\ p \in Seq(Component) /\ p # <<>>
                   /\ \A i \in DOMAIN p : IsNumbered(p[i])

Bare(w)      == [slate |-> "", last |-> w]
Dotted(s, w) == [slate |-> s, last |-> w]

reservedSubvols == {"baseline", "runtime", "hostid"}
reservedNames   == {"baseline", "scratch", "rescue", "runtime", "hostid"}

validateName(s) == s # "" /\ s \notin reservedNames

\* A line of the listing is dropped unless it begins with @.
Listable(p) == p[1].kind \in {"slate", "ckpt"}

\* checkpointPattern, over the whole path.
IsCheckpoint(p) == Listable(p) /\ Last(p).kind = "ckpt"

List(store) == {p \in store : Listable(p) /\ p # <<Named("hostid")>>}

Slates(store) ==
  {p \in List(store) : p # <<Named("runtime")>> /\ ~IsCheckpoint(p)}

\* What the pattern takes for the slate of a checkpoint.
SlateOf(p) == [i \in DOMAIN p |-> p[i].name]

\* Seeded fault: checkpoints of every slate.
ListCheckpoints_All(store, slate) == {p \in store : IsCheckpoint(p)}

ListCheckpoints(store, slate) ==
  {p \in store : IsCheckpoint(p) /\ (slate = "" \/ SlateOf(p) = <<slate>>)}

Rank(s) == SelectInSeq(Alphabetic, LAMBDA t : t = s)

Before(p, q) ==
  \/ Rank(p[1].name) < Rank(q[1].name)
  \/ p[1].name = q[1].name /\ Len(p) < Len(q)

(***************************************************************************)
(* The checkpoint a word names, as the set of those the code may return:   *)
(* the first with the number in the listing, whose sort does not say which *)
(* of two with one slate and number comes first.  The class in a           *)
(* checkpoint's full name is not looked at.                                *)
(***************************************************************************)
FindCheckpoint(store, ref, default) ==
  LET slate == IF ref.slate = "" THEN default ELSE ref.slate
      hits  == {p \in ListCheckpoints(store, slate) :
                  \E n \in DOMAIN Numeral : Numeral[n] = ref.last /\ Last(p).seq = n}
  IN  {p \in hits : \A q \in hits : ~Before(q, p)}

(***************************************************************************)
(* What `fork --from' copies, running being the basis of this boot; empty  *)
(* when it refuses.                                                        *)
(***************************************************************************)
resolveForkSource(store, ref, running) ==
  LET found == FindCheckpoint(store, ref, "")
  IN  IF ref.slate = "" /\ ref.last \in {"", "current"} THEN {running}
      ELSE IF ref = Bare("baseline") THEN {<<Named("baseline")>>}
      ELSE IF found # {} THEN found
      ELSE {p \in store : ref.slate = "" /\ p = <<Named(ref.last)>>}
=============================================================================
