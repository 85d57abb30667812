---------------------------- MODULE SerialProofs ----------------------------
(***************************************************************************)
(* More machine-checked proofs about Sessions: type correctness, what      *)
(* sidecars say while no command is killed, and what holds while commands  *)
(* run one at a time, for any slates, terminals, faults and bounds.        *)
(***************************************************************************)
EXTENDS SessionProofs

\* What a terminal may hold at each step.
Typed(c) ==
  /\ DOMAIN c = DOMAIN Idle
  /\ c.doomed \subseteq Name
  /\ c.at \in {"snapshot", "describe", "forget"} => c.source \in Name
  /\ c.at = "copy" => c.source \in Subvolume
  /\ c.at = "stage" => c.source \in Name \cup {Baseline}
  /\ c.at = "arm" => c.source \in Asks
  /\ c.at \notin {"idle", "arm"} => c.slate \in Slate

(***************************************************************************)
(* The types, with what a rollback may stage; HistoryInv and StoreInv say  *)
(* the rest.                                                               *)
(***************************************************************************)
FormInv ==
  /\ ckpts \subseteq Checkpoint
  /\ pending \in [slate : Slate, source : Name \cup {Baseline}] \cup {None}
  /\ entries \subseteq Slate
  /\ \A p \in Session : Typed(sess[p])
  /\ meta \subseteq [slate : Slate, seq : Nat]
  /\ strays \subseteq [slate : Slate, of : Subvolume]
  /\ oneshot \in Asks \cup {None}
  /\ begun \in 0..MaxCommands
  /\ up \in BOOLEAN
  /\ lapses \subseteq Lapse

LEMMA IdleAt == Idle.at = "idle"
BY DEF Idle

LEMMA TypedIdle == Typed(Idle)
BY DEF Typed, Idle

LEMMA InitForm == Init => FormInv
<1> SUFFICES ASSUME Init PROVE FormInv
  OBVIOUS
<1>1. ckpts \subseteq Checkpoint
  BY BoundsAssumption DEF Init, Checkpoint, Class, Work, Pristine
<1>2. \A p \in Session : Typed(sess[p])
  BY TypedIdle DEF Init
<1>3. meta \subseteq [slate : Slate, seq : Nat] /\ entries \subseteq Slate
  BY DEF Init
<1>4. begun \in 0..MaxCommands
  BY SessionsAssumption DEF Init
<1> QED
  BY <1>1, <1>2, <1>3, <1>4 DEF Init, FormInv

LEMMA NameOfType == ASSUME NEW c \in Checkpoint PROVE NameOf(c) \in Name
BY DEF NameOf, Checkpoint, Name

(***************************************************************************)
(* What exists is a subvolume the model knows of.                          *)
(***************************************************************************)
LEMMA ExistsType == ASSUME ckpts \subseteq Checkpoint, NEW v, Exists(v) PROVE v \in Subvolume
BY NameOfType DEF Exists, Contents, Named, Subvolume

LEMMA BeginsForm ==
  ASSUME HistoryInv, FormInv, NEW p \in Session, NEW c, Begins(p, c), Typed(c)
  PROVE  FormInv'
<1>1. sess'[p] = c /\ \A q \in Session \ {p} : sess'[q] = sess[q]
  BY Becomes DEF Begins, Become
<1>2. \A q \in Session : Typed(sess'[q])
  BY <1>1 DEF FormInv
<1>3. begun' \in 0..MaxCommands /\ lapses' \subseteq Lapse
  BY SessionsAssumption DEF Begins, FormInv, Lapse
<1> QED
  BY <1>2, <1>3 DEF Begins, FormInv, fsVars, diskVars

LEMMA StartForm ==
  ASSUME HistoryInv, FormInv, NEW p \in Session, Start(p) PROVE FormInv'
<1>1. ASSUME NEW message, ReadNumber(p, message) PROVE FormInv'
  <2>1. PICK s : s = Booted.name
    OBVIOUS
  <2>2. s \in Slate
    BY <1>1, <2>1 DEF ReadNumber, Begins, At, InUse, HistoryInv
  <2>3. PICK n \in GoNext(Seqs(Listed(s))) :
          Begins(p, [at |-> "snapshot", slate |-> s, doomed |-> {},
                     source |-> [slate |-> s, seq |-> n, class |-> ClassFor(message)]])
    BY <1>1, <2>1 DEF ReadNumber
  <2>4. n \in Nat /\ ClassFor(message) \in Class
    BY NextNumber DEF ClassFor, Class
  <2>5. Typed([at |-> "snapshot", slate |-> s, doomed |-> {},
               source |-> [slate |-> s, seq |-> n, class |-> ClassFor(message)]])
    BY <2>2, <2>4 DEF Typed, Idle, Name
  <2> QED
    BY <2>3, <2>5, BeginsForm
<1>2. ASSUME NEW s \in Slate, NEW source \in ForkSources, StartFork(p, s, source)
      PROVE  FormInv'
  <2>1. source \in Subvolume
    BY ExistsType DEF ForkSources, FormInv
  <2>2. Typed([at |-> "copy", slate |-> s, source |-> source, doomed |-> {}])
    BY <2>1 DEF Typed, Idle
  <2> QED
    BY <1>2, <2>2, BeginsForm DEF StartFork
<1>3. ASSUME NEW s \in Slate, StartDiscard(p, s) PROVE FormInv'
  <2>1. {NameOf(c) : c \in Listed(s)} \subseteq Name
    BY NameOfType DEF FormInv, Listed, Of
  <2>2. Typed([at |-> "discard", slate |-> s, source |-> None,
               doomed |-> {NameOf(c) : c \in Listed(s)}])
    BY <2>1 DEF Typed, Idle
  <2> QED
    BY <1>3, <2>2, BeginsForm DEF StartDiscard
<1>4. ASSUME NEW s \in Slate, StartReset(p, s) PROVE FormInv'
  <2>1. Typed([at |-> "stage", slate |-> s, source |-> Baseline, doomed |-> {}])
    BY DEF Typed, Idle
  <2> QED
    BY <1>4, <2>1, BeginsForm DEF StartReset
<1>5. ASSUME NEW c \in ckpts, StartRollback(p, c) PROVE FormInv'
  <2>1. NameOf(c) \in Name /\ c.slate \in Slate
    BY NameOfType DEF FormInv, Checkpoint
  <2>2. Typed([at |-> "stage", slate |-> c.slate, source |-> NameOf(c), doomed |-> {}])
    BY <2>1 DEF Typed, Idle
  <2> QED
    BY <1>5, <2>2, BeginsForm DEF StartRollback
<1>6. ASSUME NEW ask \in Asks, StartSwitch(p, ask) PROVE FormInv'
  <2>1. Typed([at |-> "arm", slate |-> None, source |-> ask, doomed |-> {}])
    BY DEF Typed, Idle
  <2> QED
    BY <1>6, <2>1, BeginsForm DEF StartSwitch
<1> QED
  BY <1>1, <1>2, <1>3, <1>4, <1>5, <1>6 DEF Start

(***************************************************************************)
(* Where a step of a terminal leads it.                                    *)
(***************************************************************************)
LEMMA StepTyped ==
  ASSUME HistoryInv, FormInv, NEW p \in Session, Step(p) \/ Kill(p)
  PROVE  \A q \in Session : Typed(sess'[q])
<1>0. PICK c : c = sess[p] /\ Typed(c)
  BY DEF FormInv
<1> SUFFICES ASSUME NEW d, sess' = [sess EXCEPT ![p] = d], Typed(d)
             PROVE  \A q \in Session : Typed(sess'[q])
  <2>1. CASE Ends(p)
    BY <2>1, TypedIdle DEF Ends, Become
  <2>2. CASE Goes(p, "describe") /\ c.at = "snapshot"
    <3>1. Typed([c EXCEPT !.at = "describe"])
      BY <1>0, <2>2 DEF Typed, Idle
    <3> QED
      BY <1>0, <2>2, <3>1 DEF Goes, Become
  <2>3. CASE Goes(p, "entry") /\ c.at = "copy"
    <3>1. Typed([c EXCEPT !.at = "entry"])
      BY <1>0, <2>3 DEF Typed, Idle
    <3> QED
      BY <1>0, <2>3, <3>1 DEF Goes, Become
  <2>4. CASE Goes(p, "unlist") /\ c.at = "discard"
    <3>1. Typed([c EXCEPT !.at = "unlist"])
      BY <1>0, <2>4 DEF Typed, Idle
    <3> QED
      BY <1>0, <2>4, <3>1 DEF Goes, Become
  <2>5. CASE \E n \in c.doomed :
               Become(p, [c EXCEPT !.at = "forget", !.source = n, !.doomed = @ \ {n}])
             /\ c.at = "discard"
    <3>1. \A n \in c.doomed :
            Typed([c EXCEPT !.at = "forget", !.source = n, !.doomed = @ \ {n}])
      BY <1>0, <2>5 DEF Typed, Idle
    <3> QED
      BY <2>5, <3>1 DEF Become
  <2>6. CASE Become(p, [c EXCEPT !.at = "discard", !.source = None]) /\ c.at = "forget"
    <3>1. Typed([c EXCEPT !.at = "discard", !.source = None])
      BY <1>0, <2>6 DEF Typed, Idle
    <3> QED
      BY <2>6, <3>1 DEF Become
  <2> QED
    BY <1>0, <2>1, <2>2, <2>3, <2>4, <2>5, <2>6
    DEF Step, Kill, At, TakeSnapshot, Describe, Copy, WriteEntry, DeleteOldest, Forget,
        RemoveSlate, RemoveEntry, SkipEntry, Stage, Arm
<1> QED
  BY Becomes DEF FormInv

LEMMA StepForm ==
  ASSUME HistoryInv, StoreInv, FormInv, NEW p \in Session, Step(p) \/ Kill(p)
  PROVE  FormInv'
<1>0. PICK c : c = sess[p] /\ Typed(c) /\ Fits(c)
  BY DEF FormInv, HistoryInv
<1>1. \A q \in Session : Typed(sess'[q])
  BY StepTyped
<1>2. CASE TakeSnapshot(p)
  <2>1. CASE ckpts' = ckpts
    BY <1>1, <1>2, <2>1 DEF TakeSnapshot, FormInv, still
  <2>2. CASE SnapshotTo(c.slate, c.source)
    <3>1. c.source \in Name /\ c.slate \in Slate
      BY <1>0, <1>2 DEF TakeSnapshot, At, Typed
    <3>2. live[c.slate] \in Work
      BY <2>2, <3>1 DEF StoreInv, SnapshotTo
    <3>3. ckpts' \subseteq Checkpoint
      BY <2>2, <3>1, <3>2 DEF SnapshotTo, FormInv, Checkpoint, Name
    <3> QED
      BY <1>1, <1>2, <3>3 DEF TakeSnapshot, FormInv, still
  <2> QED
    BY <1>0, <1>2, <2>1, <2>2 DEF TakeSnapshot
<1>3. CASE Describe(p)
  <2>1. Key(c.source) \in [slate : Slate, seq : Nat]
    BY <1>0, <1>3 DEF Describe, At, Typed, Key, Name
  <2>2. meta' \subseteq [slate : Slate, seq : Nat]
    BY <1>0, <1>3, <2>1 DEF Describe, FormInv
  <2> QED
    BY <1>1, <1>3, <2>2 DEF Describe, FormInv, fsVars, diskVars
<1>4. CASE Copy(p)
  <2>1. c.slate \in Slate /\ c.source \in Subvolume
    BY <1>0, <1>4 DEF Copy, At, Typed
  <2>2. strays' \subseteq [slate : Slate, of : Subvolume]
    BY <1>0, <1>4, <2>1 DEF Copy, FormInv
  <2> QED
    BY <1>1, <1>4, <2>2 DEF Copy, FormInv, still
<1>5. CASE WriteEntry(p)
  <2>1. c.slate \in Slate
    BY <1>0, <1>5 DEF WriteEntry, At, Typed
  <2>2. entries' \subseteq Slate
    BY <1>0, <1>5, <2>1 DEF WriteEntry, FormInv
  <2> QED
    BY <1>1, <1>5, <2>2 DEF WriteEntry, FormInv, still
<1>6. ASSUME NEW n \in sess[p].doomed, DeleteOldest(p, n) PROVE FormInv'
  BY <1>1, <1>6 DEF DeleteOldest, FormInv, still
<1>7. CASE Forget(p)
  <2>1. meta' \subseteq meta /\ lapses' \subseteq Lapse
    BY <1>7 DEF Forget, FormInv, Lapse
  <2> QED
    BY <1>1, <1>7, <2>1 DEF Forget, FormInv, fsVars, diskVars
<1>8. CASE RemoveSlate(p)
  <2>1. strays' \subseteq strays
    BY <1>8 DEF RemoveSlate
  <2> QED
    BY <1>1, <1>8, <2>1 DEF RemoveSlate, FormInv, still
<1>9. CASE RemoveEntry(p)
  <2>1. entries' \subseteq entries
    BY <1>9 DEF RemoveEntry
  <2> QED
    BY <1>1, <1>9, <2>1 DEF RemoveEntry, FormInv, still
<1>10. CASE SkipEntry(p) \/ Kill(p)
  <2>1. lapses' \subseteq Lapse
    BY <1>10 DEF SkipEntry, Kill, FormInv, Lapse
  <2> QED
    BY <1>1, <1>10, <2>1 DEF SkipEntry, Kill, FormInv, fsVars, diskVars
<1>11. CASE Stage(p)
  <2>1. c.slate \in Slate /\ c.source \in Name \cup {Baseline}
    BY <1>0, <1>11 DEF Stage, At, Typed
  <2>2. pending' \in [slate : Slate, source : Name \cup {Baseline}] \cup {None}
    BY <1>0, <1>11, <2>1 DEF Stage, StagePending, FormInv, fsVars, diskVars
  <2>3. UNCHANGED <<ckpts, entries>>
    BY <1>11 DEF Stage, StagePending, fsVars, diskVars
  <2> QED
    BY <1>1, <1>11, <2>2, <2>3 DEF Stage, FormInv
<1>12. CASE Arm(p)
  <2>1. oneshot' \in Asks
    BY <1>0, <1>12 DEF Arm, At, Typed
  <2> QED
    BY <1>1, <1>12, <2>1 DEF Arm, FormInv, fsVars, diskVars
<1> QED
  BY <1>2, <1>3, <1>4, <1>5, <1>6, <1>7, <1>8, <1>9, <1>10, <1>11, <1>12 DEF Step

LEMMA NextForm ==
  ASSUME HistoryInv, StoreInv, FormInv, [Next]_vars PROVE FormInv'
<1>1. CASE Reboot
  BY <1>1 DEF Reboot, FormInv, diskVars
<1>2. CASE UNCHANGED vars
  BY <1>2 DEF vars, fsVars, diskVars, FormInv
<1> QED
  BY <1>1, <1>2, StartForm, StepForm DEF Next

(***************************************************************************)
(* Everything below rests on these three.                                  *)
(***************************************************************************)
BaseInv == HistoryInv /\ StoreInv /\ FormInv

LEMMA InitBase == Init => BaseInv
BY InitHistory, InitStore, InitForm DEF BaseInv

LEMMA NextBase == BaseInv /\ [Next]_vars => BaseInv'
BY NextKeeps, NextStores, NextForm DEF BaseInv

(***************************************************************************)
(* Type correctness, however commands interleave, fail or are killed: in   *)
(* particular what is staged is the baseline or a checkpoint's name.       *)
(***************************************************************************)
THEOREM TypeCorrect == Spec => []TypeOK
<1>1. BaseInv => TypeOK
  BY DEF BaseInv, StoreInv, FormInv, Typed, Subvolume, TypeOK
<1> QED
  BY <1>1, InitBase, NextBase, PTL DEF Spec

-----------------------------------------------------------------------------
(***************************************************************************)
(* The checkpoint a command is about to describe is a kept one of the      *)
(* slate in use, and still there: what discards delete is of other slates. *)
(***************************************************************************)
Described(c) ==
  c.at = "describe" => c.source.class = "keep" /\ Taken(c.source) /\ InUse(c.source.slate)

SidecarInv ==
  /\ SidecarsFollow
  /\ \A p \in Session : Described(sess[p])

LEMMA InitSidecar == Init => SidecarInv
<1> SUFFICES ASSUME Init PROVE SidecarInv
  OBVIOUS
<1>1. \A k \in meta : \E s \in {t \in Slate : live[t] # Absent} : k = [slate |-> s, seq |-> 2]
  BY DEF Init
<1>2. \A s \in {t \in Slate : live[t] # Absent} :
        [slate |-> s, seq |-> 2, work |-> Pristine, class |-> "keep"] \in ckpts
  BY DEF Init
<1>3. \A s : LET c == [slate |-> s, seq |-> 2, work |-> Pristine, class |-> "keep"]
             IN  Key(c) = [slate |-> s, seq |-> 2] /\ c.class = "keep"
  BY DEF Key
<1>4. SidecarsFollow
  BY <1>1, <1>2, <1>3 DEF SidecarsFollow
<1>5. \A p \in Session : Described(sess[p])
  BY DEF Init, Idle, Described
<1> QED
  BY <1>4, <1>5 DEF SidecarInv

LEMMA SameDescribed ==
  ASSUME NEW c, Described(c), UNCHANGED <<facts, cmdline>>,
         \A k \in ckpts \ ckpts' : c.at = "describe" => NameOf(k) # c.source
  PROVE  Described(c)'
<1>1. \A s : InUse(s)' <=> InUse(s)
  BY DEF InUse, Booted
<1>2. c.at = "describe" /\ Taken(c.source) => Taken(c.source)'
  BY DEF Taken, NameOf
<1> QED
  BY <1>1, <1>2 DEF Described

LEMMA OtherDescribed ==
  ASSUME HistoryInv, SidecarInv, NEW p \in Session, NEW d, sess' = [sess EXCEPT ![p] = d],
         UNCHANGED <<facts, cmdline>>, ckpts \subseteq ckpts',
         d.at # "describe"
  PROVE  \A q \in Session : Described(sess[q])'
<1> SUFFICES ASSUME NEW q \in Session PROVE Described(sess[q])'
  OBVIOUS
<1>1. CASE q = p
  BY <1>1, Becomes DEF Described
<1>2. CASE q # p
  <2>1. PICK c : c = sess[q] /\ Described(c)
    BY DEF SidecarInv
  <2>2. Described(c)' /\ sess'[q] = c
    BY <1>2, <2>1, SameDescribed, Becomes
  <2> QED
    BY <2>2 DEF Described
<1> QED
  BY <1>1, <1>2

(***************************************************************************)
(* A step that leaves sidecars alone and removes no checkpoint.            *)
(***************************************************************************)
LEMMA SidecarsStay ==
  ASSUME HistoryInv, SidecarInv, NEW p \in Session, NEW d, sess' = [sess EXCEPT ![p] = d],
         UNCHANGED <<facts, cmdline, meta>>, ckpts \subseteq ckpts',
         sess[p].at # "forget" \/ "killed" \in lapses', d.at # "describe",
         lapses \subseteq lapses'
  PROVE  SidecarInv'
<1>1. \A q \in Session : Described(sess[q])'
  BY OtherDescribed
<1>2. SidecarsFollow'
  <2> SUFFICES ASSUME lapses' \cap {"killed", "sidecar"} = {}, NEW k \in meta
               PROVE  \/ \E c \in ckpts' : Key(c) = k /\ c.class = "keep"
                      \/ \E q \in Session : sess'[q].at = "forget" /\ Key(sess'[q].source) = k
    BY DEF SidecarsFollow, Key
  <2>1. \/ \E c \in ckpts : Key(c) = k /\ c.class = "keep"
        \/ \E q \in Session : sess[q].at = "forget" /\ Key(sess[q].source) = k
    BY DEF SidecarInv, SidecarsFollow
  <2>2. \A q \in Session \ {p} : sess'[q] = sess[q]
    BY Becomes
  <2> QED
    BY <2>1, <2>2
<1> QED
  BY <1>1, <1>2 DEF SidecarInv

LEMMA TakeSnapshotSidecars ==
  ASSUME HistoryInv, SidecarInv, NEW p \in Session, TakeSnapshot(p) PROVE SidecarInv'
<1>0. UNCHANGED <<facts, cmdline, meta, lapses>>
  BY DEF TakeSnapshot, still
<1>1. PICK c : c = sess[p] /\ Fits(c) /\ c.at = "snapshot"
  BY DEF TakeSnapshot, At, HistoryInv
<1>2. CASE Taken(c.source)
  BY <1>0, <1>1, <1>2, SidecarsStay DEF TakeSnapshot, Ends, Become, Idle
<1>3. CASE ~Taken(c.source)
  <2>1. SnapshotTo(c.slate, c.source) /\ Goes(p, "describe")
    BY <1>1, <1>3 DEF TakeSnapshot
  <2>2. sess' = [sess EXCEPT ![p] = [c EXCEPT !.at = "describe"]]
    BY <1>1, <2>1 DEF Goes, Become
  <2>3. /\ \A q \in Session \ {p} : sess'[q] = sess[q]
        /\ sess'[p] = [c EXCEPT !.at = "describe"]
    BY <2>2, Becomes
  <2>4. c.source = [slate |-> c.slate, seq |-> c.source.seq, class |-> "keep"]
        /\ InUse(c.slate)
    BY <1>1 DEF Fits
  <2>5. ckpts \subseteq ckpts' /\ Taken(c.source)'
    <3> DEFINE new == [slate |-> c.source.slate, seq |-> c.source.seq,
                       class |-> c.source.class, work |-> live[c.slate]]
    <3>1. ckpts' = ckpts \cup {new}
      BY <2>1 DEF SnapshotTo
    <3>2. NameOf(new) = c.source
      BY <2>4 DEF NameOf
    <3> HIDE DEF new
    <3> QED
      BY <3>1, <3>2 DEF Taken, NameOf
  <2>6. (InUse(c.slate))'
    BY <1>0, <2>4 DEF InUse, Booted
  <2>7. Described(sess[p])'
    <3>1. sess'[p].source = c.source /\ c.source.class = "keep" /\ c.source.slate = c.slate
      BY <1>1, <2>3, <2>4 DEF Fits
    <3> QED
      BY <2>5, <2>6, <3>1 DEF Described, Taken, InUse, Booted
  <2>8. ASSUME NEW q \in Session \ {p} PROVE Described(sess[q])'
    <3>1. PICK d : d = sess[q] /\ Described(d)
      BY DEF SidecarInv
    <3>2. Described(d)' /\ sess'[q] = d
      BY <1>0, <2>3, <2>5, <3>1, SameDescribed
    <3> QED
      BY <3>2 DEF Described
  <2>9. SidecarsFollow'
    <3> SUFFICES ASSUME lapses' \cap {"killed", "sidecar"} = {}, NEW k \in meta
                 PROVE  \/ \E x \in ckpts' : Key(x) = k /\ x.class = "keep"
                        \/ \E q \in Session : sess'[q].at = "forget" /\ Key(sess'[q].source) = k
      BY <1>0 DEF SidecarsFollow, Key
    <3>1. \/ \E x \in ckpts : Key(x) = k /\ x.class = "keep"
          \/ \E q \in Session : sess[q].at = "forget" /\ Key(sess[q].source) = k
      BY <1>0 DEF SidecarInv, SidecarsFollow
    <3> QED
      BY <1>1, <2>3, <2>5, <3>1
  <2> QED
    BY <2>7, <2>8, <2>9 DEF SidecarInv
<1> QED
  BY <1>2, <1>3

LEMMA DescribeSidecars ==
  ASSUME HistoryInv, SidecarInv, NEW p \in Session, Describe(p) PROVE SidecarInv'
<1>0. /\ UNCHANGED <<facts, cmdline, ckpts, lapses>> /\ sess[p].at = "describe"
      /\ sess' = [sess EXCEPT ![p] = Idle]
  BY DEF Describe, At, Ends, Become, fsVars, diskVars
<1>1. PICK c \in ckpts : Key(c) = Key(sess[p].source) /\ c.class = "keep"
  <2>1. Described(sess[p])
    BY DEF SidecarInv
  <2>2. PICK c \in ckpts : NameOf(c) = sess[p].source
    BY <1>0, <2>1 DEF Described, Taken
  <2>3. /\ sess[p].source.slate = c.slate /\ sess[p].source.seq = c.seq
        /\ sess[p].source.class = c.class
    BY <2>2 DEF NameOf
  <2> QED
    BY <1>0, <2>1, <2>3 DEF Described, Key
<1>2. \A q \in Session : Described(sess[q])'
  BY <1>0, OtherDescribed, IdleAt
<1>3. SidecarsFollow'
  <2> SUFFICES ASSUME lapses \cap {"killed", "sidecar"} = {}, NEW k \in meta'
               PROVE  \/ \E x \in ckpts : Key(x) = k /\ x.class = "keep"
                      \/ \E q \in Session : sess'[q].at = "forget" /\ Key(sess'[q].source) = k
    BY <1>0 DEF SidecarsFollow, Key
  <2>1. CASE k = Key(sess[p].source)
    BY <1>1, <2>1
  <2>2. CASE k \in meta
    <3>1. \/ \E x \in ckpts : Key(x) = k /\ x.class = "keep"
          \/ \E q \in Session : sess[q].at = "forget" /\ Key(sess[q].source) = k
      BY <2>2 DEF SidecarInv, SidecarsFollow
    <3>2. \A q \in Session \ {p} : sess'[q] = sess[q]
      BY <1>0, Becomes
    <3> QED
      BY <1>0, <3>1, <3>2
  <2> QED
    BY <2>1, <2>2 DEF Describe
<1> QED
  BY <1>2, <1>3 DEF SidecarInv

(***************************************************************************)
(* A deletion leaves the sidecar of what it deleted to its next step.      *)
(***************************************************************************)
LEMMA DeleteOldestSidecars ==
  ASSUME HistoryInv, SidecarInv, NEW p \in Session, NEW n \in sess[p].doomed,
         DeleteOldest(p, n)
  PROVE  SidecarInv'
<1>0. /\ UNCHANGED <<facts, cmdline, meta, lapses>> /\ sess[p].at = "discard"
      /\ ckpts' = ckpts \ Named(n) /\ ~InUse(n.slate)
  BY DEF DeleteOldest, At, HistoryInv, Fits, still
<1>1. PICK d : /\ sess' = [sess EXCEPT ![p] = d] /\ d.at # "describe"
               /\ Taken(n) => d.at = "forget" /\ d.source = n
  <2>1. CASE Taken(n)
    <3>1. PICK c : c = sess[p] /\ Fits(c)
      BY DEF HistoryInv
    <3> DEFINE e == [c EXCEPT !.at = "forget", !.source = n, !.doomed = @ \ {n}]
    <3>2. sess' = [sess EXCEPT ![p] = e]
      BY <2>1, <3>1 DEF DeleteOldest, Become
    <3>3. e.at = "forget" /\ e.source = n
      BY <3>1 DEF Fits
    <3> QED
      BY <3>2, <3>3
  <2>2. CASE ~Taken(n)
    BY <2>2, IdleAt DEF DeleteOldest, Ends, Become
  <2> QED
    BY <2>1, <2>2
<1>2. sess'[p] = d /\ \A q \in Session \ {p} : sess'[q] = sess[q]
  BY <1>1, Becomes
<1>3. ASSUME NEW q \in Session PROVE Described(sess[q])'
  <2>1. CASE q = p
    BY <1>1, <1>2, <2>1 DEF Described
  <2>2. CASE q # p
    <3>1. PICK c : c = sess[q] /\ Described(c)
      BY DEF SidecarInv
    <3>2. c.at = "describe" => c.source # n
      BY <1>0, <3>1 DEF Described
    <3>3. Described(c)' /\ sess'[q] = c
      BY <1>0, <1>2, <2>2, <3>1, <3>2, SameDescribed DEF Named
    <3> QED
      BY <3>3 DEF Described
  <2> QED
    BY <2>1, <2>2
<1>4. SidecarsFollow'
  <2> SUFFICES ASSUME lapses \cap {"killed", "sidecar"} = {}, NEW k \in meta
               PROVE  \/ \E x \in ckpts' : Key(x) = k /\ x.class = "keep"
                      \/ \E q \in Session : sess'[q].at = "forget" /\ Key(sess'[q].source) = k
    BY <1>0 DEF SidecarsFollow, Key
  <2>1. CASE \E q \in Session : sess[q].at = "forget" /\ Key(sess[q].source) = k
    BY <1>0, <1>2, <2>1
  <2>2. ASSUME NEW c \in ckpts, Key(c) = k, c.class = "keep"
        PROVE  \/ \E x \in ckpts' : Key(x) = k /\ x.class = "keep"
               \/ \E q \in Session : sess'[q].at = "forget" /\ Key(sess'[q].source) = k
    <3>1. CASE c \in ckpts'
      BY <2>2, <3>1
    <3>2. CASE c \notin ckpts'
      <4>1. NameOf(c) = n
        BY <1>0, <3>2 DEF Named
      <4>2. Taken(n) /\ Key(n) = k
        BY <2>2, <4>1 DEF Taken, NameOf, Key
      <4> QED
        BY <1>1, <1>2, <4>2
    <3> QED
      BY <3>1, <3>2
  <2> QED
    BY <2>1, <2>2 DEF SidecarInv, SidecarsFollow
<1> QED
  BY <1>3, <1>4 DEF SidecarInv

LEMMA ForgetSidecars ==
  ASSUME HistoryInv, SidecarInv, NEW p \in Session, Forget(p) PROVE SidecarInv'
<1>1. PICK c : c = sess[p] /\ Fits(c) /\ c.at = "forget"
  BY DEF Forget, At, HistoryInv
<1> DEFINE d == [c EXCEPT !.at = "discard", !.source = None]
<1>2. UNCHANGED <<facts, cmdline, ckpts>> /\ sess' = [sess EXCEPT ![p] = d]
  BY <1>1 DEF Forget, Become, fsVars, diskVars
<1>3. d.at = "discard"
  BY <1>1 DEF Fits
<1> HIDE DEF d
<1>4. \A q \in Session : Described(sess[q])'
  BY <1>2, <1>3, OtherDescribed
<1>5. SidecarsFollow'
  <2> SUFFICES ASSUME lapses' \cap {"killed", "sidecar"} = {}, NEW k \in meta'
               PROVE  \/ \E x \in ckpts : Key(x) = k /\ x.class = "keep"
                      \/ \E q \in Session : sess'[q].at = "forget" /\ Key(sess'[q].source) = k
    BY <1>2 DEF SidecarsFollow, Key
  <2>1. k \in meta /\ k # Key(c.source) /\ lapses' = lapses
    BY <1>1 DEF Forget
  <2>2. \A q \in Session \ {p} : sess'[q] = sess[q]
    BY <1>2, Becomes
  <2> QED
    BY <1>1, <2>1, <2>2 DEF SidecarInv, SidecarsFollow
<1> QED
  BY <1>4, <1>5 DEF SidecarInv

(***************************************************************************)
(* A command begins with a look, and then waits to act on what it saw.     *)
(***************************************************************************)
LEMMA StartBegins ==
  ASSUME NEW p \in Session, Start(p)
  PROVE  \E c : /\ Begins(p, c)
                /\ c.at \in {"snapshot", "copy", "discard", "stage", "arm"}
                /\ c.at = "copy" => live[c.slate] = Absent
<1>1. CASE \E message \in {"", "text"} : ReadNumber(p, message)
  <2>1. PICK s, n, class :
          Begins(p, [at |-> "snapshot", slate |-> s, doomed |-> {},
                     source |-> [slate |-> s, seq |-> n, class |-> class]])
    BY <1>1 DEF ReadNumber
  <2> QED
    BY <2>1
<1>2. ASSUME NEW s, NEW source, StartFork(p, s, source)
      PROVE  \E c : /\ Begins(p, c)
                    /\ c.at \in {"snapshot", "copy", "discard", "stage", "arm"}
                    /\ c.at = "copy" => live[c.slate] = Absent
  <2> DEFINE c == [at |-> "copy", slate |-> s, source |-> source, doomed |-> {}]
  <2>1. Begins(p, c) /\ c.at = "copy" /\ c.slate = s /\ live[s] = Absent
    BY <1>2 DEF StartFork
  <2> QED
    BY <2>1
<1>3. CASE \E s \in Slate : StartDiscard(p, s)
  <2>1. PICK s, gone :
          Begins(p, [at |-> "discard", slate |-> s, source |-> None, doomed |-> gone])
    BY <1>3 DEF StartDiscard
  <2> QED
    BY <2>1
<1>4. CASE (\E s \in Slate : StartReset(p, s)) \/ \E c \in ckpts : StartRollback(p, c)
  <2>1. PICK s, source :
          Begins(p, [at |-> "stage", slate |-> s, source |-> source, doomed |-> {}])
    BY <1>4 DEF StartReset, StartRollback
  <2> QED
    BY <2>1
<1>5. CASE \E ask \in Asks : StartSwitch(p, ask)
  <2>1. PICK ask : Begins(p, [at |-> "arm", slate |-> None, source |-> ask, doomed |-> {}])
    BY <1>5 DEF StartSwitch
  <2> QED
    BY <2>1
<1> QED
  BY <1>1, <1>2, <1>3, <1>4, <1>5 DEF Start

LEMMA StartSidecars ==
  ASSUME HistoryInv, SidecarInv, NEW p \in Session, Start(p) PROVE SidecarInv'
<1>1. PICK c : Begins(p, c) /\ c.at # "describe"
  BY StartBegins
<1>2. /\ sess' = [sess EXCEPT ![p] = c] /\ sess[p].at = "idle"
      /\ UNCHANGED <<facts, cmdline, meta, ckpts>> /\ lapses \subseteq lapses'
  BY <1>1 DEF Begins, At, Become, fsVars, diskVars
<1> QED
  BY <1>1, <1>2, SidecarsStay

LEMMA StepSidecars ==
  ASSUME HistoryInv, SidecarInv, NEW p \in Session, Step(p) \/ Kill(p) PROVE SidecarInv'
<1>1. CASE Copy(p) \/ RemoveSlate(p)
  <2>1. /\ sess[p].at \in {"copy", "discard"}
        /\ Ends(p) \/ Goes(p, "entry") \/ Goes(p, "unlist")
        /\ UNCHANGED <<facts, cmdline, meta, ckpts, lapses>>
    BY <1>1 DEF Copy, RemoveSlate, At, still
  <2>2. PICK d : sess' = [sess EXCEPT ![p] = d] /\ d.at # "describe"
    <3>1. PICK c : c = sess[p] /\ Fits(c)
      BY DEF HistoryInv
    <3>2. /\ [c EXCEPT !.at = "entry"].at = "entry"
          /\ [c EXCEPT !.at = "unlist"].at = "unlist"
      BY <3>1 DEF Fits
    <3>3. Goes(p, "entry") => sess' = [sess EXCEPT ![p] = [c EXCEPT !.at = "entry"]]
      BY <3>1 DEF Goes, Become
    <3>4. Goes(p, "unlist") => sess' = [sess EXCEPT ![p] = [c EXCEPT !.at = "unlist"]]
      BY <3>1 DEF Goes, Become
    <3>5. Ends(p) => sess' = [sess EXCEPT ![p] = Idle]
      BY DEF Ends, Become
    <3> QED
      BY <2>1, <3>2, <3>3, <3>4, <3>5, IdleAt
  <2> QED
    BY <2>1, <2>2, SidecarsStay
<1>2. CASE WriteEntry(p) \/ RemoveEntry(p) \/ SkipEntry(p) \/ Stage(p) \/ Arm(p)
  <2>1. /\ sess[p].at \in {"entry", "unlist", "stage", "arm"} /\ Ends(p)
        /\ UNCHANGED <<facts, cmdline, meta, ckpts>> /\ lapses \subseteq lapses'
    BY <1>2 DEF WriteEntry, RemoveEntry, SkipEntry, Stage, StagePending, Arm, At, still,
       fsVars, diskVars
  <2> QED
    BY <2>1, IdleAt, SidecarsStay DEF Ends, Become
<1>3. CASE Kill(p)
  <2>1. /\ Ends(p) /\ "killed" \in lapses' /\ lapses \subseteq lapses'
        /\ UNCHANGED <<facts, cmdline, meta, ckpts>>
    BY <1>3 DEF Kill, fsVars, diskVars
  <2> QED
    BY <2>1, IdleAt, SidecarsStay DEF Ends, Become
<1> QED
  BY <1>1, <1>2, <1>3, TakeSnapshotSidecars, DescribeSidecars, DeleteOldestSidecars,
     ForgetSidecars DEF Step

LEMMA NextSidecar == ASSUME HistoryInv, SidecarInv, [Next]_vars PROVE SidecarInv'
<1>1. CASE Reboot
  <2>1. UNCHANGED <<sess, meta, ckpts, lapses>> /\ \A p \in Session : sess[p] = Idle
    BY <1>1 DEF Reboot, diskVars
  <2>2. \A q \in Session : Described(sess[q])'
    BY <2>1, IdleAt DEF Described
  <2>3. SidecarsFollow'
    BY <2>1 DEF SidecarInv, SidecarsFollow, Key
  <2> QED
    BY <2>2, <2>3 DEF SidecarInv
<1>2. CASE UNCHANGED vars
  <2>1. UNCHANGED <<sess, meta, ckpts, lapses, facts, cmdline>>
    BY <1>2 DEF vars, fsVars, diskVars
  <2>2. SidecarsFollow'
    BY <2>1 DEF SidecarInv, SidecarsFollow, Key
  <2>3. \A q \in Session : Described(sess[q])'
    BY <2>1 DEF SidecarInv, Described, Taken, NameOf, InUse, Booted
  <2> QED
    BY <2>2, <2>3 DEF SidecarInv
<1> QED
  BY <1>1, <1>2, StartSidecars, StepSidecars DEF Next

(***************************************************************************)
(* Unless a command was killed or could not remove a file, every sidecar   *)
(* is that of a kept checkpoint on disk, or is about to go: no command     *)
(* running at the same time deletes a checkpoint between its snapshot and  *)
(* its sidecar (writeCheckpointMeta, DeleteCheckpoint).                    *)
(***************************************************************************)
THEOREM SidecarsInStep == Spec => []SidecarsFollow
<1>1. HistoryInv /\ SidecarInv /\ [Next]_vars => (HistoryInv /\ SidecarInv)'
  BY NextKeeps, NextSidecar
<1>2. SidecarInv => SidecarsFollow
  BY DEF SidecarInv
<1> QED
  BY <1>1, <1>2, InitHistory, InitSidecar, PTL DEF Spec

-----------------------------------------------------------------------------
(***************************************************************************)
(* Commands that never overlapped: one terminal at most is busy, so what   *)
(* a fork found free is still free when it makes its copy, and the copy is *)
(* there when its entry is written; a slate with an entry is there, or its *)
(* discard is about to remove the entry.                                   *)
(***************************************************************************)
OneBusy == \A p, q \in Session : p = q \/ sess[p] = Idle \/ sess[q] = Idle

Copying(c) == /\ c.at = "copy" => live[c.slate] = Absent
              /\ c.at = "entry" => live[c.slate] # Absent

Unlisting(s) == \E p \in Session : sess[p].at = "unlist" /\ sess[p].slate = s

EntriesLive == \A s \in entries : live[s] # Absent \/ Unlisting(s)

SerialInv ==
  /\ "overlap" \notin lapses =>
       OneBusy /\ strays = {} /\ \A p \in Session : Copying(sess[p])
  /\ lapses \subseteq {"sidecar"} => EntriesLive
  /\ NextBootHasSlate

LEMMA InitSerial == Init => SerialInv
<1> SUFFICES ASSUME Init PROVE SerialInv
  OBVIOUS
<1>1. \A p \in Session : sess[p] = Idle
  BY DEF Init
<1>2. OneBusy /\ strays = {} /\ \A p \in Session : Copying(sess[p])
  BY <1>1, IdleAt DEF Init, OneBusy, Copying
<1>3. EntriesLive /\ NextBootHasSlate
  BY DEF Init, EntriesLive, NextBootHasSlate
<1> QED
  BY <1>2, <1>3 DEF SerialInv

LEMMA BeginsSerial ==
  ASSUME HistoryInv, SerialInv, NEW p \in Session, NEW c, Begins(p, c),
         c.at = "copy" => live[c.slate] = Absent, c.at # "entry"
  PROVE  SerialInv'
<1>1. /\ up /\ up' /\ UNCHANGED <<live, entries, strays>> /\ lapses \subseteq lapses'
      /\ sess' = [sess EXCEPT ![p] = c] /\ sess[p].at = "idle"
  BY DEF Begins, At, Become, fsVars, diskVars
<1>2. sess'[p] = c /\ \A q \in Session \ {p} : sess'[q] = sess[q]
  BY <1>1, Becomes
<1>3. ASSUME "overlap" \notin lapses'
      PROVE  OneBusy' /\ strays' = {} /\ \A q \in Session : Copying(sess[q])'
  <2>1. \A q \in Session : sess[q] = Idle
    BY <1>3 DEF Begins
  <2>2. OneBusy'
    BY <1>2, <2>1 DEF OneBusy
  <2>3. \A q \in Session : Copying(sess[q])'
    BY <1>1, <1>2, <2>1, IdleAt DEF Copying
  <2> QED
    BY <1>1, <1>3, <2>2, <2>3 DEF SerialInv
<1>4. ASSUME lapses' \subseteq {"sidecar"} PROVE EntriesLive'
  <2>1. EntriesLive
    BY <1>1, <1>4 DEF SerialInv
  <2> QED
    BY <1>1, <1>2, <2>1 DEF EntriesLive, Unlisting
<1> QED
  BY <1>1, <1>3, <1>4 DEF SerialInv, NextBootHasSlate

LEMMA StartSerial ==
  ASSUME HistoryInv, SerialInv, NEW p \in Session, Start(p) PROVE SerialInv'
<1>1. PICK c : Begins(p, c) /\ (c.at = "copy" => live[c.slate] = Absent) /\ c.at # "entry"
  BY StartBegins
<1> QED
  BY <1>1, BeginsSerial

LEMMA StepsAlone ==
  ASSUME HistoryInv, SerialInv, NEW p \in Session, NEW d, sess' = [sess EXCEPT ![p] = d],
         sess[p] # Idle, up, UNCHANGED up, lapses \subseteq lapses',
         "overlap" \notin lapses => /\ strays' = {}
                                    /\ d.at = "copy" => live'[d.slate] = Absent
                                    /\ d.at = "entry" => live'[d.slate] # Absent,
         lapses' \subseteq {"sidecar"} => EntriesLive'
  PROVE  SerialInv'
<1>1. sess'[p] = d /\ \A q \in Session \ {p} : sess'[q] = sess[q]
  BY Becomes
<1>2. ASSUME "overlap" \notin lapses'
      PROVE  OneBusy' /\ strays' = {} /\ \A q \in Session : Copying(sess[q])'
  <2>1. \A q \in Session \ {p} : sess[q] = Idle
    BY <1>2 DEF SerialInv, OneBusy
  <2>2. OneBusy'
    BY <1>1, <2>1 DEF OneBusy
  <2>3. \A q \in Session : Copying(sess[q])'
    BY <1>1, <1>2, <2>1, IdleAt DEF Copying
  <2> QED
    BY <1>2, <2>2, <2>3
<1> QED
  BY <1>2 DEF SerialInv, NextBootHasSlate

(***************************************************************************)
(* A step that touches no slate and no entry.                              *)
(***************************************************************************)
LEMMA StepsAside ==
  ASSUME HistoryInv, SerialInv, NEW p \in Session, NEW d, sess' = [sess EXCEPT ![p] = d],
         sess[p] # Idle, up, UNCHANGED <<up, live, entries, strays>>, lapses \subseteq lapses',
         d.at \notin {"copy", "entry"},
         sess[p].at # "unlist" \/ ~(lapses' \subseteq {"sidecar"})
  PROVE  SerialInv'
<1>1. sess'[p] = d /\ \A q \in Session \ {p} : sess'[q] = sess[q]
  BY Becomes
<1>2. ASSUME lapses' \subseteq {"sidecar"} PROVE EntriesLive'
  <2>1. EntriesLive
    BY <1>2 DEF SerialInv
  <2> QED
    BY <1>1, <1>2, <2>1 DEF EntriesLive, Unlisting
<1>3. "overlap" \notin lapses => strays' = {}
  BY DEF SerialInv
<1> QED
  BY <1>2, <1>3, StepsAlone

LEMMA CopySerial ==
  ASSUME BaseInv, SerialInv, NEW p \in Session, Copy(p) PROVE SerialInv'
<1>0. HistoryInv /\ StoreInv /\ FormInv
  BY DEF BaseInv
<1>1. PICK c : c = sess[p] /\ Fits(c) /\ c.at = "copy"
  BY <1>0 DEF Copy, At, HistoryInv
<1>2. /\ c # Idle /\ up /\ UNCHANGED <<up, entries, lapses>> /\ c.slate \in Slate
  BY <1>1, IdleAt DEF Copy, At, Fits, still
<1>3. CASE Ends(p) /\ UNCHANGED <<live, strays>>
  BY <1>1, <1>2, <1>3, IdleAt, <1>0, StepsAside DEF Ends, Become
<1>4. CASE Goes(p, "entry")
  <2> DEFINE d == [c EXCEPT !.at = "entry"]
  <2>1. sess' = [sess EXCEPT ![p] = d] /\ d.at = "entry" /\ d.slate = c.slate
    BY <1>1, <1>4 DEF Goes, Become, Fits
  <2>2. c.at # "unlist" /\ \A q \in Session \ {p} : sess'[q] = sess[q]
    BY <1>0, <1>1, <2>1, Becomes
  <2> HIDE DEF d
  <2>3. \A s \in Slate : live[s] # Absent => live'[s] # Absent
    BY <1>0, <1>1, <1>4 DEF Copy, HistoryInv
  <2>4. ASSUME "overlap" \notin lapses PROVE strays' = {} /\ live'[c.slate] # Absent
    <3>1. live[c.slate] = Absent /\ strays = {}
      BY <1>1, <2>4 DEF SerialInv, Copying
    <3>2. CASE strays' = strays /\ \E w \in Contents(c.source) : live' = [live EXCEPT ![c.slate] = w]
      <4>1. Absent \notin Work
        BY BoundsAssumption DEF Absent, Work
      <4> QED
        BY <1>0, <1>2, <3>1, <3>2, <4>1, ContentsType DEF HistoryInv
    <3>3. sess[p] # Idle /\ Goes(p, "entry") => ~Ends(p)
      <4>1. Ends(p) => sess'[p] = Idle
        BY <1>0, Becomes DEF Ends, Become
      <4>2. sess'[p] = d
        BY <1>0, <2>1, Becomes
      <4> QED
        BY <2>1, <4>1, <4>2, IdleAt
    <3> QED
      BY <1>1, <1>2, <1>4, <3>1, <3>2, <3>3 DEF Copy
  <2>5. ASSUME lapses \subseteq {"sidecar"} PROVE EntriesLive'
    <3>1. EntriesLive
      BY <2>5 DEF SerialInv
    <3> QED
      BY <1>0, <1>1, <1>2, <2>2, <2>3, <3>1 DEF EntriesLive, Unlisting, FormInv
  <2> QED
    BY <1>0, <1>1, <1>2, <2>1, <2>4, <2>5, StepsAlone
<1> QED
  BY <1>1, <1>3, <1>4 DEF Copy

LEMMA WriteEntrySerial ==
  ASSUME BaseInv, SerialInv, NEW p \in Session, WriteEntry(p) PROVE SerialInv'
<1>0. HistoryInv /\ StoreInv /\ FormInv
  BY DEF BaseInv
<1>1. PICK c : c = sess[p] /\ c.at = "entry"
  BY DEF WriteEntry, At
<1>2. /\ c # Idle /\ up /\ UNCHANGED <<up, live, strays, lapses>>
      /\ sess' = [sess EXCEPT ![p] = Idle] /\ entries' \subseteq entries \cup {c.slate}
  BY <1>1, IdleAt DEF WriteEntry, At, Ends, Become, still
<1>3. \A q \in Session \ {p} : sess'[q] = sess[q]
  BY <1>0, <1>2, Becomes
<1>4. ASSUME lapses' \subseteq {"sidecar"} PROVE EntriesLive'
  <2>1. EntriesLive /\ live[c.slate] # Absent
    BY <1>1, <1>2, <1>4 DEF SerialInv, Copying
  <2> SUFFICES ASSUME NEW s \in entries', live'[s] = Absent PROVE Unlisting(s)'
    BY DEF EntriesLive
  <2>2. s \in entries /\ live[s] = Absent
    BY <1>2, <2>1
  <2>3. PICK q \in Session : sess[q].at = "unlist" /\ sess[q].slate = s
    BY <2>1, <2>2 DEF EntriesLive, Unlisting
  <2>4. sess'[q] = sess[q]
    BY <1>1, <1>3, <2>3
  <2> QED
    BY <2>3, <2>4 DEF Unlisting
<1>5. "overlap" \notin lapses => strays' = {}
  BY <1>2 DEF SerialInv
<1> QED
  BY <1>0, <1>1, <1>2, <1>4, <1>5, IdleAt, StepsAlone

LEMMA RemoveSlateSerial ==
  ASSUME BaseInv, SerialInv, NEW p \in Session, RemoveSlate(p) PROVE SerialInv'
<1>0. HistoryInv /\ StoreInv /\ FormInv
  BY DEF BaseInv
<1>1. PICK c : c = sess[p] /\ Fits(c) /\ c.at = "discard" /\ c.slate \in Slate
  BY <1>0 DEF RemoveSlate, At, HistoryInv, Fits
<1>2. /\ c # Idle /\ up /\ UNCHANGED <<up, entries, lapses>> /\ strays' \subseteq strays
      /\ live' = [live EXCEPT ![c.slate] = Absent]
  BY <1>1, IdleAt DEF RemoveSlate, At, still
<1>3. \A s \in Slate : live'[s] = IF s = c.slate THEN Absent ELSE live[s]
  BY <1>0, <1>1, <1>2 DEF HistoryInv
<1>4. PICK d : /\ sess' = [sess EXCEPT ![p] = d] /\ d.at \in {"idle", "unlist"}
               /\ live[c.slate] # Absent => d.at = "unlist" /\ d.slate = c.slate
  <2>1. CASE live[c.slate] = Absent
    BY <1>1, <2>1, IdleAt DEF RemoveSlate, Ends, Become
  <2>2. CASE live[c.slate] # Absent
    <3> DEFINE d == [c EXCEPT !.at = "unlist"]
    <3>1. sess' = [sess EXCEPT ![p] = d] /\ d.at = "unlist" /\ d.slate = c.slate
      BY <1>1, <2>2 DEF RemoveSlate, Goes, Become, Fits
    <3> HIDE DEF d
    <3> QED
      BY <3>1
  <2> QED
    BY <2>1, <2>2
<1>5. sess'[p] = d /\ \A q \in Session \ {p} : sess'[q] = sess[q]
  BY <1>0, <1>4, Becomes
<1>6. ASSUME lapses' \subseteq {"sidecar"} PROVE EntriesLive'
  <2>1. EntriesLive
    BY <1>2, <1>6 DEF SerialInv
  <2> SUFFICES ASSUME NEW s \in entries', live'[s] = Absent PROVE Unlisting(s)'
    BY DEF EntriesLive
  <2>2. s \in entries /\ s \in Slate
    BY <1>0, <1>2 DEF FormInv
  <2>3. CASE s = c.slate /\ live[c.slate] # Absent
    BY <1>4, <1>5, <2>3 DEF Unlisting
  <2>4. CASE live[s] = Absent
    <3>1. PICK q \in Session : sess[q].at = "unlist" /\ sess[q].slate = s
      BY <2>1, <2>2, <2>4 DEF EntriesLive, Unlisting
    <3>2. sess'[q] = sess[q]
      BY <1>1, <1>5, <3>1
    <3> QED
      BY <3>1, <3>2 DEF Unlisting
  <2> QED
    BY <1>3, <2>2, <2>3, <2>4
<1>7. "overlap" \notin lapses => strays' = {}
  BY <1>2 DEF SerialInv
<1> QED
  BY <1>0, <1>1, <1>2, <1>4, <1>6, <1>7, StepsAlone

LEMMA RemoveEntrySerial ==
  ASSUME BaseInv, SerialInv, NEW p \in Session, RemoveEntry(p) PROVE SerialInv'
<1>0. HistoryInv /\ StoreInv /\ FormInv
  BY DEF BaseInv
<1>1. PICK c : c = sess[p] /\ c.at = "unlist"
  BY DEF RemoveEntry, At
<1>2. /\ c # Idle /\ up /\ UNCHANGED <<up, live, strays, lapses>>
      /\ sess' = [sess EXCEPT ![p] = Idle] /\ entries' = entries \ {c.slate}
  BY <1>1, IdleAt DEF RemoveEntry, At, Ends, Become, still
<1>3. \A q \in Session \ {p} : sess'[q] = sess[q]
  BY <1>0, <1>2, Becomes
<1>4. ASSUME lapses' \subseteq {"sidecar"} PROVE EntriesLive'
  <2>1. EntriesLive
    BY <1>2, <1>4 DEF SerialInv
  <2> SUFFICES ASSUME NEW s \in entries', live'[s] = Absent PROVE Unlisting(s)'
    BY DEF EntriesLive
  <2>2. PICK q \in Session : sess[q].at = "unlist" /\ sess[q].slate = s
    BY <1>2, <2>1 DEF EntriesLive, Unlisting
  <2>3. q # p
    BY <1>1, <1>2, <2>2
  <2>4. sess'[q] = sess[q]
    BY <1>3, <2>3
  <2> QED
    BY <2>2, <2>4 DEF Unlisting
<1>5. "overlap" \notin lapses => strays' = {}
  BY <1>2 DEF SerialInv
<1> QED
  BY <1>0, <1>1, <1>2, <1>4, <1>5, IdleAt, StepsAlone

LEMMA StepSerial ==
  ASSUME BaseInv, SerialInv, NEW p \in Session, Step(p) \/ Kill(p) PROVE SerialInv'
<1>0. HistoryInv /\ StoreInv /\ FormInv
  BY DEF BaseInv
<1>1. PICK c : c = sess[p] /\ Fits(c)
  BY <1>0 DEF HistoryInv
<1> DEFINE Aside == /\ c # Idle /\ up /\ UNCHANGED <<up, live, entries, strays>>
                    /\ lapses \subseteq lapses'
                    /\ c.at # "unlist" \/ ~(lapses' \subseteq {"sidecar"})
                    /\ \E d : sess' = [sess EXCEPT ![p] = d] /\ d.at \notin {"copy", "entry"}
<1>2. Aside => SerialInv'
  BY <1>0, <1>1, StepsAside
<1>3. Ends(p) => \E d : sess' = [sess EXCEPT ![p] = d] /\ d.at \notin {"copy", "entry"}
  BY IdleAt DEF Ends, Become
<1>4. CASE TakeSnapshot(p)
  <2>1. /\ c # Idle /\ c.at = "snapshot" /\ up
        /\ Ends(p) \/ Goes(p, "describe")
        /\ UNCHANGED <<up, live, entries, strays, lapses>>
    BY <1>1, <1>4, IdleAt DEF TakeSnapshot, At, still
  <2>2. Goes(p, "describe") =>
          \E d : sess' = [sess EXCEPT ![p] = d] /\ d.at \notin {"copy", "entry"}
    <3> DEFINE d == [c EXCEPT !.at = "describe"]
    <3>1. d.at = "describe"
      BY <1>1 DEF Fits
    <3>2. Goes(p, "describe") => sess' = [sess EXCEPT ![p] = d]
      BY <1>1 DEF Goes, Become
    <3> HIDE DEF d
    <3> QED
      BY <3>1, <3>2
  <2> QED
    BY <1>2, <1>3, <2>1, <2>2
<1>5. CASE Describe(p) \/ Stage(p) \/ Arm(p)
  <2>1. /\ c # Idle /\ c.at \in {"describe", "stage", "arm"} /\ up /\ Ends(p)
        /\ UNCHANGED <<up, live, entries, strays, lapses>>
    BY <1>1, <1>5, IdleAt DEF Describe, Stage, StagePending, Arm, At, fsVars, diskVars
  <2> QED
    BY <1>2, <1>3, <2>1
<1>6. ASSUME NEW n \in sess[p].doomed, DeleteOldest(p, n) PROVE SerialInv'
  <2>1. /\ c # Idle /\ c.at = "discard" /\ up
        /\ UNCHANGED <<up, live, entries, strays, lapses>>
    BY <1>1, <1>6, IdleAt DEF DeleteOldest, At, still
  <2>2. \E d : sess' = [sess EXCEPT ![p] = d] /\ d.at \notin {"copy", "entry"}
    <3> DEFINE d == [c EXCEPT !.at = "forget", !.source = n, !.doomed = @ \ {n}]
    <3>1. d.at = "forget"
      BY <1>1 DEF Fits
    <3>2. Ends(p) \/ sess' = [sess EXCEPT ![p] = d]
      BY <1>1, <1>6 DEF DeleteOldest, Become
    <3> HIDE DEF d
    <3> QED
      BY <1>3, <3>1, <3>2
  <2> QED
    BY <1>2, <2>1, <2>2
<1>7. CASE Forget(p)
  <2>1. /\ c # Idle /\ c.at = "forget" /\ up /\ lapses \subseteq lapses'
        /\ UNCHANGED <<up, live, entries, strays>>
    BY <1>1, <1>7, IdleAt DEF Forget, At, fsVars, diskVars
  <2>2. \E d : sess' = [sess EXCEPT ![p] = d] /\ d.at \notin {"copy", "entry"}
    <3> DEFINE d == [c EXCEPT !.at = "discard", !.source = None]
    <3>1. d.at = "discard"
      BY <1>1 DEF Fits
    <3>2. sess' = [sess EXCEPT ![p] = d]
      BY <1>1, <1>7 DEF Forget, Become
    <3> HIDE DEF d
    <3> QED
      BY <3>1, <3>2
  <2> QED
    BY <1>2, <2>1, <2>2
<1>8. CASE SkipEntry(p) \/ Kill(p)
  <2>1. /\ c # Idle /\ up /\ Ends(p) /\ UNCHANGED <<up, live, entries, strays>>
        /\ lapses \subseteq lapses' /\ ~(lapses' \subseteq {"sidecar"})
    BY <1>1, <1>8, IdleAt DEF SkipEntry, Kill, At, fsVars, diskVars
  <2> QED
    BY <1>2, <1>3, <2>1
<1> QED
  BY <1>4, <1>5, <1>6, <1>7, <1>8, CopySerial, WriteEntrySerial, RemoveSlateSerial,
     RemoveEntrySerial DEF Step

(***************************************************************************)
(* The reboot finds every terminal idle, so no entry is without its slate. *)
(***************************************************************************)
LEMMA RebootSerial == ASSUME BaseInv, SerialInv, Reboot PROVE SerialInv'
<1>1. /\ UNCHANGED <<live, entries, sess, strays, lapses>>
      /\ \A p \in Session : sess[p] = Idle
  BY DEF Reboot, diskVars
<1>2. "overlap" \notin lapses' =>
        (OneBusy /\ strays = {} /\ \A p \in Session : Copying(sess[p]))'
  BY <1>1, IdleAt DEF SerialInv, OneBusy, Copying
<1>3. lapses' \subseteq {"sidecar"} => EntriesLive'
  BY <1>1 DEF SerialInv, EntriesLive, Unlisting
<1>4. NextBootHasSlate'
  <2> SUFFICES ASSUME lapses \subseteq {"sidecar"}, cmdline'.subvol \in Slate
               PROVE  live[cmdline'.subvol] # Absent
    BY <1>1 DEF NextBootHasSlate
  <2>1. \A s \in entries : live[s] # Absent
    BY <1>1, IdleAt DEF SerialInv, EntriesLive, Unlisting
  <2>2. PICK t \in Chosen : cmdline'.subvol = t
    BY DEF Reboot
  <2>3. Runtime \notin Slate /\ Baseline \notin Slate
    BY NamesAssumption
  <2>4. t \in entries
    BY <2>2, <2>3 DEF Chosen, HasEntry
  <2> QED
    BY <2>1, <2>2, <2>4
<1> QED
  BY <1>2, <1>3, <1>4 DEF SerialInv

LEMMA NextSerial == ASSUME BaseInv, SerialInv, [Next]_vars PROVE SerialInv'
<1>1. CASE UNCHANGED vars
  <2>1. UNCHANGED <<live, entries, sess, strays, lapses, up, cmdline>>
    BY <1>1 DEF vars, fsVars, diskVars
  <2> QED
    BY <2>1 DEF SerialInv, OneBusy, Copying, EntriesLive, Unlisting, NextBootHasSlate
<1>2. HistoryInv
  BY DEF BaseInv
<1> QED
  BY <1>1, <1>2, StartSerial, StepSerial, RebootSerial DEF Next

LEMMA SerialInvariant == Spec => [](BaseInv /\ SerialInv)
<1>1. BaseInv /\ SerialInv /\ [Next]_vars => (BaseInv /\ SerialInv)'
  BY NextBase, NextSerial
<1> QED
  BY <1>1, InitBase, InitSerial, PTL DEF Spec

(***************************************************************************)
(* Commands that do not overlap never nest one slate's copy in another:    *)
(* when nothing else runs, the name a fork found free is free when btrfs   *)
(* makes the snapshot, whatever else failed or was killed before (Fork).   *)
(***************************************************************************)
THEOREM SerialForks == Spec => []SerialForksAreNew
<1>1. SerialInv => SerialForksAreNew
  BY DEF SerialInv, SerialForksAreNew
<1> QED
  BY <1>1, SerialInvariant, PTL

(***************************************************************************)
(* After any commands run one at a time, to their end and with their boot  *)
(* entries, the slate the next boot is told to mount exists, also when the *)
(* default slate or the one-shot target has been discarded                 *)
(* (WriteBLSEntry, DeleteBLSEntry, switch).                                *)
(***************************************************************************)
THEOREM NextBoot == Spec => []NextBootHasSlate
<1>1. SerialInv => NextBootHasSlate
  BY DEF SerialInv
<1> QED
  BY <1>1, SerialInvariant, PTL
=============================================================================
