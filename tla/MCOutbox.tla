------------------------------ MODULE MCOutbox ------------------------------
(* Small instances of Outbox: two users, payloads of each kind the          *)
(* publishers of the repository send.                                       *)
EXTENDS Outbox

CONSTANTS u1, u2

MCPayload ==
  { [titled |-> TRUE, users |-> {u1}, byRole |-> FALSE],   \* the owner of a task
    [titled |-> TRUE, users |-> {u1}, byRole |-> TRUE],    \* the owner and a role
    [titled |-> TRUE, users |-> {}, byRole |-> FALSE] }    \* nobody was assigned

=============================================================================
