------------------------------ MODULE Delivery ------------------------------
(***************************************************************************)
(* What the rest of the application may rely on once it has published a    *)
(* notification event, with no word of loops, batches, flags or faults: a  *)
(* first-in first-out queue that delivers at least once.  Outbox           *)
(* implements it.                                                          *)
(***************************************************************************)
EXTENDS Naturals

CONSTANTS MaxEvents, User

Event == 1 .. MaxEvents

VARIABLES
  phase,      \* "NONE", "PENDING", "PROCESSED" or "FAILED"
  addressed,  \* the users a published event names
  reached     \* the users who have the notification

vars == <<phase, addressed, reached>>

Settled == {"PROCESSED", "FAILED"}

Init ==
  /\ phase = [e \in Event |-> "NONE"]
  /\ addressed = [e \in Event |-> {}]
  /\ reached = [e \in Event |-> {}]

Request(e, us) ==
  /\ phase[e] = "NONE"
  /\ phase' = [phase EXCEPT ![e] = "PENDING"]
  /\ addressed' = [addressed EXCEPT ![e] = us]
  /\ UNCHANGED reached

(* A notification reaches whom it names, and possibly others whom a role    *)
(* brings in, all at the same time; nobody ever loses one.                  *)
Reach(e, us) ==
  /\ phase[e] # "NONE"
  /\ addressed[e] \subseteq us
  /\ reached' = [reached EXCEPT ![e] = @ \cup us]
  /\ UNCHANGED <<phase, addressed>>

(* Two loops may disagree on the outcome of one event, and the last to      *)
(* write wins, but PROCESSED is written only once the event has reached     *)
(* everybody it names, and no event is settled out of its turn.             *)
Settle(e, outcome) ==
  /\ phase[e] # "NONE"
  /\ \A f \in Event : f < e => phase[f] \in Settled
  /\ outcome = "PROCESSED" => addressed[e] \subseteq reached[e]
  /\ phase' = [phase EXCEPT ![e] = outcome]
  /\ UNCHANGED <<addressed, reached>>

Next ==
  \E e \in Event :
    \/ \E us \in SUBSET User : Request(e, us) \/ Reach(e, us)
    \/ \E outcome \in Settled : Settle(e, outcome)

Spec == Init /\ [][Next]_vars

=============================================================================
