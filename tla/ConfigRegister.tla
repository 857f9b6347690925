---------------------------- MODULE ConfigRegister ----------------------------
(***************************************************************************)
(* What the configuration store promises: a set of slots, each written as  *)
(* a whole and independently of the others. A slot is Unsettled from the   *)
(* begin of a write to its end, and stays so when the write is cut; a      *)
(* settled slot changes only by a write that is asked for that slot.       *)
(***************************************************************************)
CONSTANTS
    Slots,      \* what can be written on its own
    Contents,   \* what a slot can hold
    Unsettled,  \* the mark of a slot whose write is not complete
    Factory     \* the content of every slot after a reset

VARIABLES value, asked
vars == <<value, asked>>

Nobody == [slot |-> Unsettled, data |-> Unsettled]

TypeOK ==
    /\ value \in [Slots -> Contents \cup {Unsettled}]
    /\ \/ asked = Nobody
       \/ asked.slot \in Slots /\ asked.data \in Contents

Init == value = [s \in Slots |-> Unsettled] /\ asked = Nobody

(* A write begins; any write before it is over or cut.                     *)
Begin(s, d) ==
    /\ value' = [value EXCEPT ![s] = Unsettled]
    /\ asked' = [slot |-> s, data |-> d]

(* The write that was asked for is complete.                               *)
End ==
    /\ asked # Nobody
    /\ value' = [value EXCEPT ![asked.slot] = asked.data]
    /\ asked' = Nobody

(* A write is cut: its slot stays unsettled.                               *)
Cut == asked # Nobody /\ asked' = Nobody /\ UNCHANGED value

BeginReset == value' = [s \in Slots |-> Unsettled] /\ asked' = Nobody
EndReset ==
    /\ \A s \in Slots : value[s] = Unsettled
    /\ value' = Factory
    /\ asked' = Nobody

Next ==
    \/ \E s \in Slots, d \in Contents : Begin(s, d)
    \/ End
    \/ Cut
    \/ BeginReset
    \/ EndReset

Spec == Init /\ [][Next]_vars
===============================================================================
