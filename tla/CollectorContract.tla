------------------------- MODULE CollectorContract --------------------------
(***************************************************************************)
(* What one collector's work directory promises to the rest of the         *)
(* operator: `.done` appears only when everything the collector had to     *)
(* fetch is stored, and from then on data disappear only by a deletion.    *)
(* One that is cut off may leave `.done` with a part of them: `damaged`.    *)
(***************************************************************************)
EXTENDS Integers

CONSTANT Items       \* what there is to collect

VARIABLES stored,    \* the items in the collector's directory
          collected, \* IsCollected
          damaged    \* a deletion was cut off

Init == stored = {} /\ collected = FALSE /\ damaged = FALSE

\* Data arrives as long as the collector has not finished.
Gather ==
  /\ ~collected
  /\ stored' \in {s \in SUBSET Items : stored \subseteq s}
  /\ UNCHANGED <<collected, damaged>>

Finish ==
  /\ ~collected /\ stored = Items
  /\ collected' = TRUE
  /\ UNCHANGED <<stored, damaged>>

\* The collector's data is deleted, or a clean-up removes a part of it.
Discard ==
  /\ stored' \in SUBSET stored
  /\ collected' = FALSE /\ damaged' = FALSE

\* A deletion is cut off before it comes to `.done`.
DiscardFails ==
  /\ collected
  /\ stored' \in SUBSET stored
  /\ damaged' = TRUE
  /\ UNCHANGED collected

Next == Gather \/ Finish \/ Discard \/ DiscardFails

Spec == Init /\ [][Next]_<<stored, collected, damaged>>
=============================================================================
