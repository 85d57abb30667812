--------------------------- MODULE SessionProofs ---------------------------
(***************************************************************************)
(* Machine-checked proofs about Sessions, for any slates, any number of    *)
(* terminals, any faults and any bounds.                                   *)
(***************************************************************************)
EXTENDS SessionProperties, TLAPS

InUse(s) == Booted.basis = s /\ Booted.mode = "persistent"

(***************************************************************************)
(* What a terminal knows of checkpoints: the one about to be made is a     *)
(* kept one of the slate in use, numbered after its last or else taken by  *)
(* now; a discard's slate is not in use and has none but those the discard *)
(* has listed; a fork's has a name slates may have.                        *)
(***************************************************************************)
Fits(c) ==
  /\ DOMAIN c = {"at", "slate", "source", "doomed"}
  /\ c.at = "snapshot" =>
       /\ c.slate \in Slate /\ InUse(c.slate)
       /\ c.source = [slate |-> c.slate, seq |-> c.source.seq, class |-> "keep"]
       /\ c.source.seq \in Nat \ {Blank}
       /\ c.source.seq \in GoNext(Seqs(Listed(c.slate))) \/ Taken(c.source)
  /\ c.at \in {"discard", "forget"} =>
       /\ c.slate \in Slate /\ ~InUse(c.slate)
       /\ \A k \in Of(c.slate) : NameOf(k) \in c.doomed
       /\ \A n \in c.doomed : n.slate = c.slate
  /\ c.at = "copy" => c.slate \in Slate

(***************************************************************************)
(* The inductive invariant behind the theorems below.                      *)
(***************************************************************************)
HistoryInv ==
  /\ DOMAIN live = Slate /\ DOMAIN sess = Session
  /\ \A k \in ckpts : /\ k.slate \in Slate /\ k.seq \in Nat \ {Blank}
                      /\ live[k.slate] # Absent
  /\ up => Booted.name = Booted.basis /\ \A s : InUse(s) => s \in Slate
  /\ \A p \in Session : Fits(sess[p])

-----------------------------------------------------------------------------
LEMMA InitHistory == Init => HistoryInv
<1> SUFFICES ASSUME Init PROVE HistoryInv
  OBVIOUS
<1>1. DOMAIN live = Slate /\ DOMAIN sess = Session
  BY DEF Init
<1>2. \A p \in Session : Fits(sess[p])
  BY DEF Init, Idle, Fits
<1>3. \A k \in ckpts : /\ k.slate \in Slate /\ k.seq \in Nat \ {Blank}
                       /\ live[k.slate] # Absent
  BY DEF Init, Blank
<1>4. Booted.name = Booted.basis /\ \A s : InUse(s) => s \in Slate
  <2>1. PICK r \in {s \in Slate : live[s] # Absent} \cup {Runtime} :
          /\ facts.mode = ModeFrom(r)
          /\ facts.name = facts.basis
          /\ facts.basis = IF r = Runtime THEN Baseline ELSE r
          /\ cmdline.subvol = r
    BY DEF Init
  <2> QED
    BY <2>1, NamesAssumption DEF InUse, Booted, ModeFrom
<1> QED
  BY <1>1, <1>2, <1>3, <1>4 DEF HistoryInv

(***************************************************************************)
(* The next number is one, and not the blank one.                          *)
(***************************************************************************)
LEMMA NextNumber ==
  ASSUME HistoryInv, NEW s
  PROVE  /\ GoNext(Seqs(Listed(s))) \subseteq Nat \ {Blank}
         /\ \A m, n \in GoNext(Seqs(Listed(s))) : m = n
<1> DEFINE S == Seqs(Listed(s)) \ {Blank}
<1>1. S \subseteq Nat
  BY DEF HistoryInv, Seqs, Listed, Of
<1>2. Latest(S) \subseteq Nat /\ \A m, n \in Latest(S) : m = n
  BY <1>1 DEF Latest
<1> QED
  BY <1>2 DEF GoNext, Blank

(***************************************************************************)
(* A terminal that does nothing still fits when checkpoints only go, and   *)
(* those of the slate in use stay.                                         *)
(***************************************************************************)
UsedStays == \A s \in Slate : InUse(s) => Of(s)' = Of(s)

LEMMA OthersFit ==
  ASSUME HistoryInv, NEW q \in Session, sess'[q] = sess[q],
         UNCHANGED <<facts, cmdline>>, ckpts' \subseteq ckpts, UsedStays
  PROVE  Fits(sess[q])'
<1>1. Fits(sess[q]) /\ \A s : InUse(s)' <=> InUse(s)
  BY DEF HistoryInv, InUse, Booted
<1>2. CASE sess[q].at = "snapshot"
  <2>1. Of(sess[q].slate)' = Of(sess[q].slate)
    BY <1>1, <1>2 DEF Fits, UsedStays
  <2>2. Seqs(Listed(sess[q].slate))' = Seqs(Listed(sess[q].slate))
    BY <2>1 DEF Listed, Seqs
  <2>3. Taken(sess[q].source) => Taken(sess[q].source)'
    BY <1>1, <1>2, <2>1 DEF Fits, Taken, NameOf, Of
  <2> QED
    BY <1>1, <1>2, <2>2, <2>3 DEF Fits, GoNext, Latest
<1>3. CASE sess[q].at # "snapshot"
  BY <1>1, <1>3 DEF Fits, Of, NameOf
<1> QED
  BY <1>2, <1>3

LEMMA Becomes ==
  ASSUME HistoryInv, NEW p \in Session, NEW c, sess' = [sess EXCEPT ![p] = c]
  PROVE  /\ DOMAIN sess' = Session
         /\ sess'[p] = c
         /\ \A q \in Session \ {p} : sess'[q] = sess[q]
  BY DEF HistoryInv

(***************************************************************************)
(* A step of one terminal that makes no checkpoint and takes no slate away *)
(* needs only that the terminal still fits.                                *)
(***************************************************************************)
LEMMA OneTerminal ==
  ASSUME HistoryInv, NEW p \in Session, NEW c, sess' = [sess EXCEPT ![p] = c],
         UNCHANGED <<facts, cmdline, up>>, ckpts' \subseteq ckpts, UsedStays,
         DOMAIN live' = Slate,
         \A k \in ckpts' : live'[k.slate] # Absent,
         Fits(sess[p])'
  PROVE  HistoryInv'
<1>1. \A q \in Session : Fits(sess[q])'
  <2> SUFFICES ASSUME NEW q \in Session PROVE Fits(sess[q])'
    OBVIOUS
  <2>1. CASE q = p
    BY <2>1
  <2>2. CASE q # p
    BY <2>2, Becomes, OthersFit
  <2> QED
    BY <2>1, <2>2
<1>2. Booted' = Booted /\ \A s : InUse(s)' <=> InUse(s)
  BY DEF InUse, Booted
<1>3. DOMAIN sess' = Session
  BY Becomes
<1> QED
  BY <1>1, <1>2, <1>3 DEF HistoryInv

(***************************************************************************)
(* A step that touches no subvolume a slate's history is about, and whose  *)
(* command then neither makes nor deletes checkpoints.                     *)
(***************************************************************************)
Elsewhere == {"idle", "describe", "copy", "entry", "unlist", "stage", "arm"}

LEMMA NothingHistoric ==
  ASSUME HistoryInv, NEW p \in Session, NEW c, sess' = [sess EXCEPT ![p] = c],
         UNCHANGED <<facts, cmdline, up, live, ckpts>>,
         DOMAIN c = {"at", "slate", "source", "doomed"}, c.at \in Elsewhere,
         c.at = "copy" => c.slate \in Slate
  PROVE  HistoryInv'
<1>1. Fits(sess[p])'
  BY Becomes DEF Fits, Elsewhere
<1>2. UsedStays
  BY DEF UsedStays, Of
<1> QED
  BY <1>1, <1>2, OneTerminal DEF HistoryInv

-----------------------------------------------------------------------------
(***************************************************************************)
(* One lemma per group of actions.                                         *)
(***************************************************************************)
LEMMA StaysFit ==
  ASSUME NEW c, Fits(c), UNCHANGED <<facts, cmdline, ckpts>>
  PROVE  Fits(c)'
<1>1. \A s : InUse(s)' <=> InUse(s)
  BY DEF InUse, Booted
<1>2. \A s : Of(s)' = Of(s)
  BY DEF Of
<1>3. \A s : GoNext(Seqs(Listed(s)))' = GoNext(Seqs(Listed(s)))
  BY <1>2 DEF GoNext, Latest, Seqs, Listed
<1>4. Taken(c.source)' <=> Taken(c.source)
  BY DEF Taken, NameOf
<1> QED
  BY <1>1, <1>2, <1>3, <1>4 DEF Fits, NameOf

LEMMA ReadNumberKeeps ==
  ASSUME HistoryInv, NEW p \in Session, NEW message, ReadNumber(p, message)
  PROVE  HistoryInv'
<1>1. PICK s : s = Booted.name
  OBVIOUS
<1>2. up /\ InUse(s) /\ s \in Slate
  BY <1>1 DEF ReadNumber, Begins, At, InUse, HistoryInv
<1>3. PICK n \in GoNext(Seqs(Listed(s))) :
        Begins(p, [at |-> "snapshot", slate |-> s, doomed |-> {},
                   source |-> [slate |-> s, seq |-> n, class |-> ClassFor(message)]])
  BY <1>1 DEF ReadNumber
<1> DEFINE c == [at |-> "snapshot", slate |-> s, doomed |-> {},
                 source |-> [slate |-> s, seq |-> n, class |-> "keep"]]
<1>4. n \in Nat \ {Blank} /\ ClassFor(message) = "keep"
  BY NextNumber DEF ClassFor
<1>5. UNCHANGED <<facts, cmdline, up, live, ckpts>> /\ sess' = [sess EXCEPT ![p] = c]
  BY <1>3, <1>4 DEF Begins, Become, fsVars, diskVars
<1>6. Fits(c)
  BY <1>2, <1>3, <1>4 DEF Fits
<1>7. sess'[p] = c /\ Fits(c)'
  BY <1>5, <1>6, Becomes, StaysFit
<1>8. UsedStays
  BY <1>5 DEF UsedStays, Of
<1> QED
  <2>1. Fits(sess[p])'
    BY <1>7 DEF Fits
  <2> QED
    BY <1>5, <1>8, <2>1, OneTerminal DEF HistoryInv

LEMMA StartDiscardKeeps ==
  ASSUME HistoryInv, NEW p \in Session, NEW s \in Slate, StartDiscard(p, s)
  PROVE  HistoryInv'
<1> DEFINE c == [at |-> "discard", slate |-> s, source |-> None,
                 doomed |-> {NameOf(k) : k \in Listed(s)}]
<1>1. UNCHANGED <<facts, cmdline, up, live, ckpts>> /\ sess' = [sess EXCEPT ![p] = c]
  BY DEF StartDiscard, Begins, Become, fsVars, diskVars
<1>2. ~InUse(s) /\ Listed(s) = Of(s)
  BY DEF StartDiscard, Discardable, InUse, HistoryInv, Listed, Of
<1>3. InUse(s)' <=> InUse(s)
  BY <1>1 DEF InUse, Booted
<1>4. \A k \in Of(s)' : NameOf(k) \in c.doomed
  BY <1>1, <1>2 DEF Of
<1>5. \A n \in c.doomed : n.slate = s
  BY DEF Listed, Of, NameOf
<1>6. sess'[p] = c
  BY <1>1, Becomes
<1>7. Fits(sess[p])'
  BY <1>2, <1>3, <1>4, <1>5, <1>6 DEF Fits
<1>8. UsedStays
  BY <1>1 DEF UsedStays, Of
<1> QED
  BY <1>1, <1>7, <1>8, OneTerminal DEF HistoryInv

(***************************************************************************)
(* The snapshot of the slate in use, under a number of its own.            *)
(***************************************************************************)
LEMMA TakeSnapshotKeeps ==
  ASSUME HistoryInv, NEW p \in Session, TakeSnapshot(p)
  PROVE  HistoryInv'
<1> DEFINE s == sess[p].slate  new == sess[p].source
<1>1. CASE Taken(new)
  BY <1>1, NothingHistoric
     DEF TakeSnapshot, Ends, Become, Idle, Elsewhere, still
<1>2. CASE ~Taken(new)
  <2>1. /\ sess[p].at = "snapshot" /\ Fits(sess[p])
        /\ SnapshotTo(s, new) /\ Goes(p, "describe")
        /\ UNCHANGED <<facts, cmdline, up, live>>
    BY <1>2 DEF TakeSnapshot, At, HistoryInv, still
  <2>2. PICK k : k.slate = s /\ k.seq = new.seq /\ NameOf(k) = NameOf(new)
                 /\ ckpts' = ckpts \cup {k} /\ live[s] # Absent
    <3> DEFINE made == [slate |-> new.slate, seq |-> new.seq,
                        class |-> new.class, work |-> live[s]]
    <3>1. new.slate = s
      BY <2>1 DEF Fits
    <3>2. ckpts' = ckpts \cup {made} /\ live[s] # Absent
      BY <2>1 DEF SnapshotTo
    <3>3. made.slate = s /\ made.seq = new.seq /\ NameOf(made) = NameOf(new)
      BY <3>1 DEF NameOf
    <3> HIDE DEF made
    <3> QED
      BY <3>2, <3>3
  <2>3. s \in Slate /\ InUse(s) /\ new.seq \in Nat \ {Blank}
        /\ new.seq \in GoNext(Seqs(Listed(s))) /\ new.class = "keep" /\ new.slate = s
    BY <1>2, <2>1 DEF Fits
  <2>4. Booted' = Booted /\ \A x : InUse(x)' <=> InUse(x)
    BY <2>1 DEF InUse, Booted
  <2>5. /\ DOMAIN sess' = Session
        /\ sess'[p] = [sess[p] EXCEPT !.at = "describe"]
        /\ \A q \in Session \ {p} : sess'[q] = sess[q]
    BY <2>1, Becomes DEF Goes, Become
  <2>6. Fits(sess[p])'
    BY <2>1, <2>5 DEF Fits
  <2>7. ASSUME NEW q \in Session \ {p} PROVE Fits(sess[q])'
    <3>1. Fits(sess[q]) /\ sess'[q] = sess[q]
      BY <2>5 DEF HistoryInv
    <3>2. CASE sess[q].at = "snapshot"
      <4>1. sess[q].slate = s /\ sess[q].source.slate = s /\ sess[q].source.class = "keep"
        BY <2>3, <3>1, <3>2 DEF Fits, InUse
      <4>2. Taken(sess[q].source) => Taken(sess[q].source)'
        BY <2>2, <3>1 DEF Taken
      <4>3. CASE sess[q].source.seq \in GoNext(Seqs(Listed(s)))
        <5>1. sess[q].source.seq = new.seq
          BY <2>3, <4>3, NextNumber
        <5>2. CASE Taken(sess[q].source)'
          BY <2>3, <2>4, <3>1, <3>2, <4>1, <5>2 DEF Fits
        <5>3. CASE ~Taken(sess[q].source)'
          <6>1. sess[q].source = new
            BY <2>1, <3>1, <3>2, <4>1, <5>1 DEF Fits
          <6>2. k \in ckpts' /\ NameOf(k) = new
            BY <2>1, <2>2 DEF Fits, NameOf
          <6>3. Taken(sess[q].source)'
            BY <6>1, <6>2, <2>5 DEF Taken, NameOf
          <6> QED
            BY <5>3, <6>3
        <5> QED
          BY <5>2, <5>3
      <4> QED
        BY <2>3, <2>4, <3>1, <3>2, <4>1, <4>2, <4>3 DEF Fits
    <3>3. CASE sess[q].at # "snapshot"
      <4>1. sess[q].at \in {"discard", "forget"} => Of(sess[q].slate)' = Of(sess[q].slate)
        BY <2>2, <2>3, <3>1 DEF Fits, Of
      <4> QED
        BY <2>4, <3>1, <3>3, <4>1 DEF Fits
    <3> QED
      BY <3>2, <3>3
  <2>8. \A x \in ckpts' : x.slate \in Slate /\ x.seq \in Nat \ {Blank}
                          /\ live'[x.slate] # Absent
    BY <2>1, <2>2, <2>3 DEF HistoryInv
  <2> QED
    BY <2>1, <2>4, <2>5, <2>6, <2>7, <2>8 DEF HistoryInv
<1> QED
  BY <1>1, <1>2

(***************************************************************************)
(* A discard takes checkpoints of its own slate only, which is not in use. *)
(***************************************************************************)
LEMMA DeleteOldestKeeps ==
  ASSUME HistoryInv, NEW p \in Session, NEW n \in sess[p].doomed, DeleteOldest(p, n)
  PROVE  HistoryInv'
<1>1. PICK c : c = sess[p]
  OBVIOUS
<1>2. /\ Fits(c) /\ c.at = "discard" /\ n \in c.doomed /\ ckpts' = ckpts \ Named(n)
      /\ UNCHANGED <<facts, cmdline, up, live>>
  BY <1>1 DEF DeleteOldest, At, HistoryInv, still
<1>3. c.slate \in Slate /\ ~InUse(c.slate) /\ n.slate = c.slate
  BY <1>2 DEF Fits
<1>4. UsedStays
  <2> SUFFICES ASSUME NEW s \in Slate, InUse(s) PROVE Of(s)' = Of(s)
    BY DEF UsedStays
  <2>1. s # c.slate
    BY <1>3
  <2>2. \A k \in Named(n) : k.slate = c.slate
    BY <1>3 DEF Named, NameOf
  <2> QED
    BY <1>2, <2>1, <2>2 DEF Of
<1>5. ckpts' \subseteq ckpts
  BY <1>2
<1>6. CASE Taken(n)
  <2> DEFINE d == [c EXCEPT !.at = "forget", !.source = n, !.doomed = @ \ {n}]
  <2>1. sess' = [sess EXCEPT ![p] = d]
    BY <1>1, <1>6 DEF DeleteOldest, Become
  <2>2. /\ DOMAIN d = {"at", "slate", "source", "doomed"} /\ d.at = "forget"
        /\ d.slate = c.slate /\ d.doomed = c.doomed \ {n}
    BY <1>2 DEF Fits
  <2>3. \A k \in Of(c.slate)' : NameOf(k) \in c.doomed \ {n}
    BY <1>2 DEF Fits, Of, Named
  <2>4. ~InUse(c.slate)'
    BY <1>2, <1>3 DEF InUse, Booted
  <2> HIDE DEF d
  <2>5. sess'[p] = d
    BY <2>1, Becomes
  <2>6. Fits(sess[p])'
    BY <1>2, <1>3, <2>2, <2>3, <2>4, <2>5 DEF Fits
  <2> QED
    BY <1>2, <1>4, <1>5, <2>1, <2>6, OneTerminal DEF HistoryInv
<1>7. CASE ~Taken(n)
  <2>1. sess' = [sess EXCEPT ![p] = Idle]
    BY <1>7 DEF DeleteOldest, Ends, Become
  <2>2. Fits(sess[p])'
    BY <2>1, Becomes DEF Fits, Idle
  <2> QED
    BY <1>2, <1>4, <1>5, <2>1, <2>2, OneTerminal DEF HistoryInv
<1> QED
  BY <1>6, <1>7

LEMMA ForgetKeeps ==
  ASSUME HistoryInv, NEW p \in Session, Forget(p)
  PROVE  HistoryInv'
<1>1. PICK c : c = sess[p]
  OBVIOUS
<1> DEFINE d == [c EXCEPT !.at = "discard", !.source = None]
<1>2. /\ Fits(c) /\ c.at = "forget" /\ UNCHANGED <<facts, cmdline, up, live, ckpts>>
      /\ sess' = [sess EXCEPT ![p] = d]
  BY <1>1 DEF Forget, At, Become, HistoryInv, fsVars, diskVars
<1>3. Fits(d)
  BY <1>2 DEF Fits
<1> HIDE DEF d
<1>4. sess'[p] = d /\ Fits(d)'
  BY <1>2, <1>3, Becomes, StaysFit
<1>5. Fits(sess[p])'
  BY <1>4 DEF Fits
<1>6. UsedStays
  BY <1>2 DEF UsedStays, Of
<1> QED
  BY <1>2, <1>5, <1>6, OneTerminal DEF HistoryInv

(***************************************************************************)
(* The slate goes only when nothing its discard listed is left, hence when *)
(* it has no checkpoint.                                                   *)
(***************************************************************************)
LEMMA RemoveSlateKeeps ==
  ASSUME HistoryInv, NEW p \in Session, RemoveSlate(p)
  PROVE  HistoryInv'
<1>1. PICK s : s = sess[p].slate
  OBVIOUS
<1>2. /\ s \in Slate /\ Of(s) = {} /\ UNCHANGED <<facts, cmdline, up, ckpts>>
      /\ live' = [live EXCEPT ![s] = Absent]
  BY <1>1 DEF RemoveSlate, At, HistoryInv, Fits, still
<1>3. PICK c : sess' = [sess EXCEPT ![p] = c] /\ Fits(c)'
  <2>1. CASE live[s] = Absent
    <3>1. sess' = [sess EXCEPT ![p] = Idle]
      BY <1>1, <2>1 DEF RemoveSlate, Ends, Become
    <3>2. Fits(Idle)'
      BY DEF Fits, Idle
    <3> QED
      BY <3>1, <3>2
  <2>2. CASE live[s] # Absent
    <3> DEFINE d == [sess[p] EXCEPT !.at = "unlist"]
    <3>1. sess' = [sess EXCEPT ![p] = d]
      BY <1>1, <2>2 DEF RemoveSlate, Goes, Become
    <3>2. DOMAIN d = {"at", "slate", "source", "doomed"} /\ d.at = "unlist"
      BY DEF HistoryInv, Fits
    <3> HIDE DEF d
    <3>3. PICK e : e = d
      OBVIOUS
    <3>4. Fits(e)'
      BY <3>2, <3>3 DEF Fits
    <3> QED
      BY <3>1, <3>3, <3>4
  <2> QED
    BY <2>1, <2>2
<1>4. Fits(sess[p])'
  <2>1. sess'[p] = c
    BY <1>3, Becomes
  <2> QED
    BY <1>3, <2>1 DEF Fits
<1>5. UsedStays
  BY <1>2 DEF UsedStays, Of
<1>6. DOMAIN live' = Slate /\ \A k \in ckpts' : live'[k.slate] # Absent
  BY <1>2 DEF HistoryInv, Of
<1>7. UNCHANGED up /\ ckpts' \subseteq ckpts /\ UNCHANGED <<facts, cmdline>>
  BY <1>2
<1> QED
  BY <1>3, <1>4, <1>5, <1>6, <1>7, OneTerminal

(***************************************************************************)
(* A fork gives work to a slate that was not there, and so had no          *)
(* checkpoint.                                                             *)
(***************************************************************************)
LEMMA CopyKeeps ==
  ASSUME HistoryInv, NEW p \in Session, Copy(p)
  PROVE  HistoryInv'
<1>1. UNCHANGED <<facts, cmdline, up, ckpts>>
  BY DEF Copy, still
<1>2. DOMAIN live' = Slate /\ \A k \in ckpts' : live'[k.slate] # Absent
  BY <1>1 DEF Copy, HistoryInv
<1>3. PICK c : /\ sess' = [sess EXCEPT ![p] = c]
               /\ DOMAIN c = {"at", "slate", "source", "doomed"}
               /\ c.at \in {"idle", "entry"}
  <2>1. CASE Goes(p, "entry")
    <3> DEFINE d == [sess[p] EXCEPT !.at = "entry"]
    <3>1. sess' = [sess EXCEPT ![p] = d]
      BY <2>1 DEF Goes, Become
    <3>2. DOMAIN d = {"at", "slate", "source", "doomed"} /\ d.at = "entry"
      BY DEF HistoryInv, Fits
    <3> QED
      BY <3>1, <3>2
  <2>2. CASE Ends(p)
    <3>1. sess' = [sess EXCEPT ![p] = Idle]
      BY <2>2 DEF Ends, Become
    <3>2. DOMAIN Idle = {"at", "slate", "source", "doomed"} /\ Idle.at = "idle"
      BY DEF Idle
    <3> QED
      BY <3>1, <3>2
  <2> QED
    BY <2>1, <2>2 DEF Copy
<1>4. Fits(sess[p])'
  BY <1>3, Becomes DEF Fits
<1>5. UsedStays
  BY <1>1 DEF UsedStays, Of
<1> QED
  BY <1>1, <1>2, <1>3, <1>4, <1>5, OneTerminal

(***************************************************************************)
(* The rest of a terminal's steps are about other things.                  *)
(***************************************************************************)
LEMMA BeginsElsewhere ==
  ASSUME HistoryInv, NEW p \in Session, NEW c, Begins(p, c),
         DOMAIN c = {"at", "slate", "source", "doomed"}, c.at \in Elsewhere,
         c.at = "copy" => c.slate \in Slate
  PROVE  HistoryInv'
  BY NothingHistoric DEF Begins, Become, fsVars, diskVars

LEMMA EndsElsewhere ==
  ASSUME HistoryInv, NEW p \in Session, Ends(p),
         UNCHANGED <<facts, cmdline, up, live, ckpts>>
  PROVE  HistoryInv'
  BY NothingHistoric DEF Ends, Become, Idle, Elsewhere

LEMMA StartKeeps ==
  ASSUME HistoryInv, NEW p \in Session, Start(p)
  PROVE  HistoryInv'
<1>1. ASSUME NEW message, ReadNumber(p, message) PROVE HistoryInv'
  BY <1>1, ReadNumberKeeps
<1>2. ASSUME NEW s \in Slate, NEW source, StartFork(p, s, source) PROVE HistoryInv'
  BY <1>2, BeginsElsewhere DEF StartFork, Elsewhere
<1>3. ASSUME NEW s \in Slate, StartDiscard(p, s) PROVE HistoryInv'
  BY <1>3, StartDiscardKeeps
<1>4. ASSUME NEW s, StartReset(p, s) PROVE HistoryInv'
  BY <1>4, BeginsElsewhere DEF StartReset, Elsewhere
<1>5. ASSUME NEW c, StartRollback(p, c) PROVE HistoryInv'
  BY <1>5, BeginsElsewhere DEF StartRollback, Elsewhere
<1>6. ASSUME NEW ask, StartSwitch(p, ask) PROVE HistoryInv'
  BY <1>6, BeginsElsewhere DEF StartSwitch, Elsewhere
<1> QED
  BY <1>1, <1>2, <1>3, <1>4, <1>5, <1>6 DEF Start

LEMMA StepKeeps ==
  ASSUME HistoryInv, NEW p \in Session, Step(p) \/ Kill(p)
  PROVE  HistoryInv'
<1>1. CASE TakeSnapshot(p)
  BY <1>1, TakeSnapshotKeeps
<1>2. CASE Describe(p)
  BY <1>2, EndsElsewhere DEF Describe, fsVars, diskVars
<1>3. CASE Copy(p)
  BY <1>3, CopyKeeps
<1>4. CASE WriteEntry(p)
  BY <1>4, EndsElsewhere DEF WriteEntry, still
<1>5. ASSUME NEW n \in sess[p].doomed, DeleteOldest(p, n) PROVE HistoryInv'
  BY <1>5, DeleteOldestKeeps
<1>6. CASE Forget(p)
  BY <1>6, ForgetKeeps
<1>7. CASE RemoveSlate(p)
  BY <1>7, RemoveSlateKeeps
<1>8. CASE RemoveEntry(p)
  BY <1>8, EndsElsewhere DEF RemoveEntry, still
<1>9. CASE SkipEntry(p)
  BY <1>9, EndsElsewhere DEF SkipEntry, fsVars, diskVars
<1>10. CASE Stage(p)
  <2>1. Ends(p) /\ UNCHANGED <<facts, cmdline, up, live, ckpts>>
    BY <1>10 DEF Stage, StagePending, fsVars, diskVars
  <2> QED
    BY <2>1, EndsElsewhere
<1>11. CASE Arm(p)
  BY <1>11, EndsElsewhere DEF Arm, fsVars, diskVars
<1>12. CASE Kill(p)
  BY <1>12, EndsElsewhere DEF Kill, fsVars, diskVars
<1> QED
  BY <1>1, <1>2, <1>3, <1>4, <1>5, <1>6, <1>7, <1>8, <1>9, <1>10, <1>11, <1>12 DEF Step

LEMMA RebootKeeps ==
  ASSUME HistoryInv, Reboot
  PROVE  HistoryInv'
<1>1. ~up' /\ UNCHANGED <<live, ckpts, sess>>
  BY DEF Reboot, diskVars
<1>2. \A q \in Session : Fits(sess[q])'
  BY <1>1 DEF Reboot, Fits, Idle
<1> QED
  BY <1>1, <1>2 DEF HistoryInv

LEMMA StutterKeeps ==
  ASSUME HistoryInv, UNCHANGED vars
  PROVE  HistoryInv'
<1>1. UNCHANGED <<facts, cmdline, up, live, ckpts, sess>>
  BY DEF vars, fsVars, diskVars
<1>2. ASSUME NEW q \in Session PROVE Fits(sess[q])'
  <2>1. PICK c : c = sess[q] /\ Fits(c)
    BY DEF HistoryInv
  <2>2. Fits(c)' /\ sess'[q] = c
    BY <1>1, <2>1, StaysFit
  <2> QED
    BY <2>2 DEF Fits
<1>3. Booted' = Booted /\ \A s : InUse(s)' <=> InUse(s)
  BY <1>1 DEF InUse, Booted
<1> QED
  BY <1>1, <1>2, <1>3 DEF HistoryInv

LEMMA NextKeeps == HistoryInv /\ [Next]_vars => HistoryInv'
<1> SUFFICES ASSUME HistoryInv, [Next]_vars PROVE HistoryInv'
  OBVIOUS
<1>1. ASSUME NEW p \in Session, Start(p) \/ Step(p) \/ Kill(p) PROVE HistoryInv'
  BY <1>1, StartKeeps, StepKeeps
<1>2. CASE Reboot
  BY <1>2, RebootKeeps
<1>3. CASE UNCHANGED vars
  BY <1>3, StutterKeeps
<1> QED
  BY <1>1, <1>2, <1>3 DEF Next

-----------------------------------------------------------------------------
(***************************************************************************)
(* No checkpoint is left of a slate that is gone, however many commands    *)
(* overlap, fail or are killed (Discard: the slate goes after its last     *)
(* checkpoint).                                                            *)
(***************************************************************************)
THEOREM NoOrphans == Spec => []NoOrphanCheckpoints
<1>1. HistoryInv => NoOrphanCheckpoints
  BY DEF HistoryInv, NoOrphanCheckpoints
<1> QED
  BY <1>1, InitHistory, NextKeeps, PTL DEF Spec

(***************************************************************************)
(* Whoever adds a checkpoint gives it the number after the last.           *)
(***************************************************************************)
LEMMA StepFollows ==
  ASSUME HistoryInv, Next
  PROVE  \A c \in ckpts' \ ckpts : c.seq \in GoNext(Seqs(Listed(c.slate)))
<1>1. ASSUME NEW p \in Session, TakeSnapshot(p)
      PROVE  \A c \in ckpts' \ ckpts : c.seq \in GoNext(Seqs(Listed(c.slate)))
  <2> DEFINE new == sess[p].source
  <2>1. CASE Taken(new)
    BY <1>1, <2>1 DEF TakeSnapshot
  <2>2. CASE ~Taken(new)
    <3>1. Fits(sess[p]) /\ sess[p].at = "snapshot" /\ SnapshotTo(sess[p].slate, new)
      BY <1>1, <2>2 DEF TakeSnapshot, At, HistoryInv
    <3>2. new.slate = sess[p].slate /\ new.seq \in GoNext(Seqs(Listed(new.slate)))
      BY <2>2, <3>1 DEF Fits
    <3>3. \A c \in ckpts' \ ckpts : c.slate = new.slate /\ c.seq = new.seq
      BY <3>1 DEF SnapshotTo
    <3> HIDE DEF new
    <3> QED
      BY <3>2, <3>3
  <2> QED
    BY <2>1, <2>2
<1>2. ASSUME NEW p \in Session, Start(p) PROVE ckpts' \subseteq ckpts
  BY <1>2 DEF Start, ReadNumber, StartFork, StartDiscard, StartReset, StartRollback,
              StartSwitch, Begins, fsVars, diskVars
<1>3. ASSUME NEW p \in Session, Step(p) \/ Kill(p), ~TakeSnapshot(p)
      PROVE  ckpts' \subseteq ckpts
  BY <1>3 DEF Step, Describe, Copy, WriteEntry, DeleteOldest, Forget, RemoveSlate,
              RemoveEntry, SkipEntry, Stage, StagePending, Arm, Kill, fsVars, diskVars
<1>4. CASE Reboot
  BY <1>4 DEF Reboot, diskVars
<1> QED
  BY <1>1, <1>2, <1>3, <1>4 DEF Next

(***************************************************************************)
(* A checkpoint appears only under the number after the last one of its    *)
(* slate, whichever terminals raced for it (CreateCheckpoint).             *)
(***************************************************************************)
THEOREM NumbersInOrder == Spec => NumbersFollow
<1> DEFINE Follows == \A c \in ckpts' \ ckpts : c.seq \in GoNext(Seqs(Listed(c.slate)))
<1>1. HistoryInv /\ [Next]_vars => [Follows]_vars
  BY StepFollows
<1> QED
  BY <1>1, InitHistory, NextKeeps, PTL DEF Spec, NumbersFollow

-----------------------------------------------------------------------------
(***************************************************************************)
(* Interleaved commands implement SlateStore.  Contents are work, and what *)
(* the commands take for the slate in use is the root that was booted.     *)
(***************************************************************************)
RootUsed ==
  up => cmdline.subvol # None /\ \A s \in Slate : InUse(s) <=> cmdline.subvol = s

StoreInv ==
  /\ live \in [Slate -> Work \cup {Absent}]
  /\ runtime \in Work \cup {Absent}
  /\ \A k \in ckpts : k.work \in Work
  /\ RootUsed

StoreStep == [Store!Next]_Store!vars

LEMMA InitStore == Init => StoreInv
<1> SUFFICES ASSUME Init PROVE StoreInv
  OBVIOUS
<1>1. Pristine \in Work
  BY BoundsAssumption DEF Pristine, Work
<1>2. /\ live \in [Slate -> Work \cup {Absent}]
      /\ \A k \in ckpts : k.work \in Work
  BY <1>1 DEF Init
<1>3. PICK r \in {s \in Slate : live[s] # Absent} \cup {Runtime} :
        /\ cmdline = [subvol |-> r, basis |-> IF r = Runtime THEN Baseline ELSE r]
        /\ facts = [name |-> IF r = Runtime THEN Baseline ELSE r, mode |-> ModeFrom(r),
                    basis |-> IF r = Runtime THEN Baseline ELSE r, ckpt |-> None, requested |-> IF r = Runtime THEN Baseline ELSE r]
        /\ runtime = IF r = Runtime THEN Pristine ELSE Absent
  BY DEF Init
<1>4. facts # None => Booted = facts
  BY DEF Booted
<1>5. facts = None => Booted = [name |-> cmdline.subvol, mode |-> ModeFrom(cmdline.subvol),
                                basis |-> cmdline.subvol, ckpt |-> None, requested |-> None]
  BY DEF Booted
<1>6. Booted.mode = ModeFrom(r) /\ (r \in Slate => Booted.basis = r)
  BY <1>3, <1>4, <1>5, NamesAssumption
<1>7. RootUsed
  BY <1>3, <1>6, NamesAssumption DEF RootUsed, InUse, ModeFrom
<1> QED
  BY <1>1, <1>2, <1>3, <1>7 DEF StoreInv

(***************************************************************************)
(* What a snapshot captures is work.                                       *)
(***************************************************************************)
LEMMA ContentsType ==
  ASSUME StoreInv, NEW v
  PROVE  Contents(v) \subseteq Work
<1>1. Pristine \in Work /\ Absent \notin Work
  BY BoundsAssumption DEF Pristine, Absent, Work
<1> QED
  BY <1>1 DEF StoreInv, Contents, Named

LEMMA SameUse ==
  ASSUME RootUsed, UNCHANGED <<facts, cmdline, up>>
  PROVE  RootUsed'
  BY DEF RootUsed, InUse, Booted

LEMMA SameKept ==
  ASSUME \A t \in Slate : KeptOf(t)' = KeptOf(t)
  PROVE  [t \in Slate |-> KeptOf(t)]' = [t \in Slate |-> KeptOf(t)]
  OBVIOUS

LEMMA KeptMember ==
  ASSUME NEW t, NEW w
  PROVE  /\ w \in KeptOf(t) <=>
              \E c \in ckpts : c.slate = t /\ c.class = "keep" /\ c.work = w
         /\ w \in KeptOf(t)' <=>
              \E c \in ckpts' : c.slate = t /\ c.class = "keep" /\ c.work = w
  BY DEF KeptOf, Of

(***************************************************************************)
(* A step SlateStore does not see.                                         *)
(***************************************************************************)
Unseen == UNCHANGED <<live, ckpts, runtime, facts, cmdline, up>>

LEMMA UnseenStores ==
  ASSUME StoreInv, Unseen
  PROVE  StoreInv' /\ StoreStep
<1>1. StoreInv'
  BY SameUse DEF StoreInv, Unseen
<1>2. \A t \in Slate : KeptOf(t)' = KeptOf(t)
  BY DEF Unseen, KeptOf, Of
<1> QED
  BY <1>1, <1>2, SameKept DEF Unseen, StoreStep, Store!vars

(***************************************************************************)
(* The four kinds of step SlateStore sees, and the reboot.                 *)
(***************************************************************************)
LEMMA TakeSnapshotStores ==
  ASSUME HistoryInv, StoreInv, NEW p \in Session, TakeSnapshot(p)
  PROVE  StoreInv' /\ StoreStep
<1>1. CASE Taken(sess[p].source)
  BY <1>1, UnseenStores DEF TakeSnapshot, Unseen, still
<1>2. CASE ~Taken(sess[p].source)
  <2>1. PICK s, n : s = sess[p].slate /\ n = sess[p].source
    OBVIOUS
  <2>2. /\ up /\ s \in Slate /\ InUse(s) /\ SnapshotTo(s, n)
        /\ n.slate = s /\ n.class = "keep"
        /\ UNCHANGED <<live, runtime, facts, cmdline, up>>
    <3>1. /\ up /\ sess[p].at = "snapshot" /\ Fits(sess[p])
          /\ SnapshotTo(s, n) /\ UNCHANGED <<live, runtime, facts, cmdline, up>>
      BY <1>2, <2>1 DEF TakeSnapshot, At, HistoryInv, still
    <3>2. s \in Slate /\ InUse(s) /\ n = [slate |-> s, seq |-> n.seq, class |-> "keep"]
      BY <2>1, <3>1 DEF Fits
    <3>3. n.slate = s /\ n.class = "keep"
      BY <3>2
    <3> QED
      BY <3>1, <3>2, <3>3
  <2> DEFINE new == [slate |-> n.slate, seq |-> n.seq,
                     class |-> n.class, work |-> live[s]]
  <2>3. ckpts' = ckpts \cup {new} /\ live[s] # Absent
    BY <2>2 DEF SnapshotTo
  <2>4. new.slate = s /\ new.class = "keep" /\ new.work = live[s]
    BY <2>2
  <2> HIDE DEF new
  <2>5. StoreInv'
    BY <2>2, <2>3, <2>4, SameUse DEF StoreInv
  <2>6. \A w : w \in KeptOf(s)' <=> w \in KeptOf(s) \/ w = live[s]
    BY <2>3, <2>4, KeptMember
  <2>7. \A t \in Slate \ {s} : \A w : w \in KeptOf(t)' <=> w \in KeptOf(t)
    BY <2>3, <2>4, KeptMember
  <2>8. /\ KeptOf(s)' = KeptOf(s) \cup {live[s]}
        /\ \A t \in Slate \ {s} : KeptOf(t)' = KeptOf(t)
    BY <2>6, <2>7
  <2>9. [t \in Slate |-> KeptOf(t)]' =
          [[t \in Slate |-> KeptOf(t)] EXCEPT ![s] = @ \cup {live[s]}]
    BY <2>2, <2>8
  <2>10. cmdline.subvol = s
    BY <2>2 DEF StoreInv, RootUsed
  <2>11. Store!Keep(s)
    BY <2>2, <2>3, <2>9, <2>10 DEF Store!Keep
  <2> QED
    BY <2>2, <2>5, <2>11 DEF StoreStep, Store!Next
<1> QED
  BY <1>1, <1>2

LEMMA CopyStores ==
  ASSUME HistoryInv, StoreInv, NEW p \in Session, Copy(p)
  PROVE  StoreInv' /\ StoreStep
<1>1. UNCHANGED <<ckpts, runtime, facts, cmdline, up>>
  BY DEF Copy, still
<1>2. CASE live' = live
  BY <1>1, <1>2, UnseenStores DEF Unseen
<1>3. CASE live' # live
  <2>1. PICK s : s = sess[p].slate
    OBVIOUS
  <2>2. PICK w \in Contents(sess[p].source) : live' = [live EXCEPT ![s] = w]
    BY <1>3, <2>1 DEF Copy
  <2>3. s \in Slate /\ live[s] = Absent
    BY <1>3, <2>1 DEF Copy, At, HistoryInv, Fits
  <2>4. w \in Work
    BY ContentsType
  <2>5. StoreInv'
    BY <1>1, <2>2, <2>3, <2>4, SameUse DEF StoreInv
  <2>6. \A t \in Slate : KeptOf(t)' = KeptOf(t)
    BY <1>1 DEF KeptOf, Of
  <2>7. Store!Create(s, w)
    BY <1>1, <2>2, <2>3, <2>6, SameKept DEF Store!Create
  <2> QED
    BY <2>3, <2>4, <2>5, <2>7 DEF StoreStep, Store!Next
<1> QED
  BY <1>2, <1>3

LEMMA DeleteOldestStores ==
  ASSUME HistoryInv, StoreInv, NEW p \in Session, NEW n \in sess[p].doomed,
         DeleteOldest(p, n)
  PROVE  StoreInv' /\ StoreStep
<1>1. PICK s : s = sess[p].slate
  OBVIOUS
<1>2. /\ up /\ s \in Slate /\ ~InUse(s) /\ n.slate = s
      /\ ckpts' = ckpts \ Named(n)
      /\ UNCHANGED <<live, runtime, facts, cmdline, up>>
  BY <1>1 DEF DeleteOldest, At, HistoryInv, Fits, still
<1>3. StoreInv'
  BY <1>2, SameUse DEF StoreInv
<1>4. cmdline.subvol # None /\ cmdline.subvol # s
  BY <1>2 DEF StoreInv, RootUsed
<1>5. ckpts' \subseteq ckpts /\ \A c \in ckpts \ ckpts' : c.slate = s
  BY <1>2 DEF Named, NameOf
<1>6. \A t \in Slate \ {s} : \A w : w \in KeptOf(t)' <=> w \in KeptOf(t)
  BY <1>5, KeptMember
<1>7. \A w : w \in KeptOf(s)' => w \in KeptOf(s)
  BY <1>5, KeptMember
<1>8. KeptOf(s)' \subseteq KeptOf(s) /\ \A t \in Slate \ {s} : KeptOf(t)' = KeptOf(t)
  BY <1>6, <1>7
<1>9. [t \in Slate |-> KeptOf(t)]' = [[t \in Slate |-> KeptOf(t)] EXCEPT ![s] = KeptOf(s)']
  BY <1>8
<1>10. Store!Discard(s)
  BY <1>2, <1>4, <1>8, <1>9 DEF Store!Discard
<1> QED
  BY <1>2, <1>3, <1>10 DEF StoreStep, Store!Next

LEMMA RemoveSlateStores ==
  ASSUME HistoryInv, StoreInv, NEW p \in Session, RemoveSlate(p)
  PROVE  StoreInv' /\ StoreStep
<1>1. PICK s : s = sess[p].slate
  OBVIOUS
<1>2. /\ up /\ s \in Slate /\ ~InUse(s) /\ live' = [live EXCEPT ![s] = Absent]
      /\ UNCHANGED <<ckpts, runtime, facts, cmdline, up>>
  BY <1>1 DEF RemoveSlate, At, HistoryInv, Fits, still
<1>3. StoreInv'
  BY <1>2, SameUse DEF StoreInv
<1>4. cmdline.subvol # None /\ cmdline.subvol # s
  BY <1>2 DEF StoreInv, RootUsed
<1>5. \A t \in Slate : KeptOf(t)' = KeptOf(t)
  BY <1>2 DEF KeptOf, Of
<1>6. [t \in Slate |-> KeptOf(t)]' = [[t \in Slate |-> KeptOf(t)] EXCEPT ![s] = KeptOf(s)]
  BY <1>5
<1>7. Store!Discard(s)
  BY <1>2, <1>4, <1>6 DEF Store!Discard
<1> QED
  BY <1>2, <1>3, <1>7 DEF StoreStep, Store!Next

LEMMA RebootStores ==
  ASSUME StoreInv, Reboot
  PROVE  StoreInv' /\ StoreStep
<1>1. ~up' /\ UNCHANGED <<live, ckpts, runtime>>
  BY DEF Reboot, diskVars
<1>2. StoreInv'
  BY <1>1 DEF StoreInv, RootUsed
<1>3. \A t \in Slate : KeptOf(t)' = KeptOf(t)
  BY <1>1 DEF KeptOf, Of
<1>4. Store!Stop
  BY <1>1, <1>3, SameKept DEF Store!Stop
<1> QED
  BY <1>2, <1>4 DEF StoreStep, Store!Next

LEMMA NextStores ==
  ASSUME HistoryInv, StoreInv, [Next]_vars
  PROVE  StoreInv' /\ StoreStep
<1>1. ASSUME NEW p \in Session, Start(p) PROVE StoreInv' /\ StoreStep
  <2>1. Unseen
    BY <1>1 DEF Start, ReadNumber, StartFork, StartDiscard, StartReset, StartRollback,
                StartSwitch, Begins, Unseen, fsVars, diskVars
  <2> QED
    BY <2>1, UnseenStores
<1>2. ASSUME NEW p \in Session, Step(p) \/ Kill(p) PROVE StoreInv' /\ StoreStep
  <2>1. CASE TakeSnapshot(p)
    BY <2>1, TakeSnapshotStores
  <2>2. CASE Copy(p)
    BY <2>2, CopyStores
  <2>3. ASSUME NEW n \in sess[p].doomed, DeleteOldest(p, n) PROVE StoreInv' /\ StoreStep
    BY <2>3, DeleteOldestStores
  <2>4. CASE RemoveSlate(p)
    BY <2>4, RemoveSlateStores
  <2>5. CASE \/ Describe(p) \/ Forget(p) \/ SkipEntry(p) \/ Arm(p) \/ Kill(p)
             \/ WriteEntry(p) \/ RemoveEntry(p) \/ Stage(p)
    <3>1. Unseen
      BY <2>5 DEF Describe, Forget, SkipEntry, Arm, Kill, WriteEntry, RemoveEntry,
                  Stage, StagePending, Unseen, still, fsVars, diskVars
    <3> QED
      BY <3>1, UnseenStores
  <2> QED
    BY <1>2, <2>1, <2>2, <2>3, <2>4, <2>5 DEF Step
<1>3. CASE Reboot
  BY <1>3, RebootStores
<1>4. CASE UNCHANGED vars
  BY <1>4, UnseenStores DEF vars, fsVars, diskVars, Unseen
<1> QED
  BY <1>1, <1>2, <1>3, <1>4 DEF Next

(***************************************************************************)
(* Commands interleaved step by step, and killed between steps, do to      *)
(* slates and kept checkpoints only what SlateStore allows (Discard, Fork, *)
(* CreateCheckpoint).                                                      *)
(***************************************************************************)
THEOREM SharedStore == Spec => SharedStoreKeepsPromises
<1>1. HistoryInv /\ StoreInv /\ [Next]_vars => StoreInv' /\ StoreStep
  BY NextStores
<1> QED
  BY <1>1, InitHistory, NextKeeps, InitStore, PTL
     DEF Spec, SharedStoreKeepsPromises, StoreStep
=============================================================================
