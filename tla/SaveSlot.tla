------------------------------ MODULE SaveSlot ------------------------------
(***************************************************************************)
(* What one save-state slot promises (src/psp/src/statefile.h 11-32 and    *)
(* 55-66): the slot is empty or holds one whole state of the machine;      *)
(* only a save changes it, and the machine does not run meanwhile; a load  *)
(* makes the machine what the slot holds, all of it or nothing.            *)
(* A save that is cut short may leave the slot empty.                      *)
(***************************************************************************)
EXTENDS Naturals

VARIABLES
  stored,   \* the state in the slot, None when the slot is empty
  machine,  \* the state the machine is in
  last,     \* the newest state the machine has been in
  saving    \* a save is under way

slotVars == <<stored, machine, last, saving>>

\* States are numbered from 1 in the order the machine reaches them.
None == 0

Init == stored = None /\ machine = 1 /\ last = 1 /\ saving = FALSE

\* The machine runs, or is restarted: it reaches a state never seen before.
Reach == last' = last + 1 /\ machine' = last'

Run     == ~saving /\ Reach /\ UNCHANGED <<stored, saving>>
Restart == Reach /\ saving' = FALSE /\ UNCHANGED stored
Begin   == ~saving /\ saving' = TRUE /\ UNCHANGED <<stored, machine, last>>
End     == saving /\ saving' = FALSE /\ UNCHANGED <<stored, machine, last>>

Store == saving /\ stored' = machine /\ UNCHANGED <<machine, last, saving>>
Lose  == saving /\ stored' = None /\ UNCHANGED <<machine, last, saving>>

Load == /\ ~saving /\ stored # None /\ machine' = stored
        /\ UNCHANGED <<stored, last, saving>>

Next == Run \/ Restart \/ Begin \/ End \/ Store \/ Lose \/ Load

Spec == Init /\ [][Next]_slotVars
=============================================================================
