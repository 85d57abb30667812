----------------------------- MODULE SlateStore -----------------------------
(***************************************************************************)
(* What cleanslate promises about the work on a machine's slates, with     *)
(* boots seen from outside: a root is in use or the machine is between     *)
(* roots (off, or in the initramfs).                                       *)
(*                                                                         *)
(*   - Between roots, a slate's work goes away only after it was kept.     *)
(*   - While a root is in use, only its own work is edited, and only       *)
(*     discarding another slate takes work or kept work away.              *)
(*   - The slate in use never goes away.                                   *)
(***************************************************************************)
CONSTANTS Slate, Work, Absent,
          Root,     \* what can be in use: the slates and other roots
          Nothing

VARIABLES work,  \* slate -> its content, or Absent
          kept,  \* slate -> the contents of its kept checkpoints
          root   \* the root in use; Nothing between roots

vars == <<work, kept, root>>

Init == /\ work \in [Slate -> Work \cup {Absent}]
        /\ kept = [s \in Slate |-> {}]
        /\ root = Nothing

Start(r) == /\ root = Nothing
            /\ r \in Slate => work[r] # Absent
            /\ root' = r
            /\ UNCHANGED <<work, kept>>

Stop == root' = Nothing /\ UNCHANGED <<work, kept>>

Edit(s, w) == /\ root = s
              /\ work' = [work EXCEPT ![s] = w]
              /\ UNCHANGED <<kept, root>>

\* A kept checkpoint: the user's of the slate in use, or the boot's.
Keep(s) == /\ root \in {s, Nothing}
           /\ work[s] # Absent
           /\ kept' = [kept EXCEPT ![s] = @ \cup {work[s]}]
           /\ UNCHANGED <<work, root>>

\* A slate that does not exist appears: forked, or made by the boot.
Create(s, w) == /\ work[s] = Absent
                /\ work' = [work EXCEPT ![s] = w]
                /\ UNCHANGED <<kept, root>>

\* The boot takes a slate away to replace it.
Retire(s) == /\ root = Nothing
             /\ work[s] \in kept[s]
             /\ work' = [work EXCEPT ![s] = Absent]
             /\ UNCHANGED <<kept, root>>

\* A discard, whole or cut short, of a slate that is not in use.
Discard(s) == /\ root # Nothing
              /\ root # s
              /\ \E left \in SUBSET kept[s] : kept' = [kept EXCEPT ![s] = left]
              /\ \/ work' = [work EXCEPT ![s] = Absent]
                 \/ UNCHANGED work
              /\ UNCHANGED root

Next == \/ \E r \in Root : Start(r)
        \/ Stop
        \/ \E s \in Slate : \/ \E w \in Work : Edit(s, w) \/ Create(s, w)
                            \/ Keep(s) \/ Retire(s) \/ Discard(s)

Spec == Init /\ [][Next]_vars
=============================================================================
