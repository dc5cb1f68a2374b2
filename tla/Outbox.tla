------------------------------- MODULE Outbox -------------------------------
(***************************************************************************)
(* The table domain_events and the loops that empty it                     *)
(* (api/src/modules/events).  A row is inserted PENDING by                 *)
(* EventBusService.publishNotification.  Two loops read the PENDING rows   *)
(* and turn each into notification rows: EventWorkerService, on a timer    *)
(* and guarded by the flag `running', and EventsService.processPending,    *)
(* called by an administrator and guarded by nothing.  Every await between *)
(* two statements is a point where the other loop, a publisher, a change   *)
(* of role membership or a crash of the process may come in between.       *)
(***************************************************************************)
EXTENDS Naturals, FiniteSets

CONSTANTS
  MaxEvents,   \* bound: events published in a behaviour, numbered in the
               \* order of their createdAt
  BatchLimit,  \* DEFAULT_BATCH_LIMIT, 50 in the code
  User,        \* users who can receive a notification
  Payload,     \* payloads the publishers of the repository can send
  Tick,        \* overlapping calls of EventWorkerService.processPending
  ManualRun,   \* overlapping calls of EventsService.processPending
  MaxFaults    \* bound: database errors and crashes in a behaviour

Run == Tick \cup ManualRun
Event == 1 .. MaxEvents

ASSUME CountAssumption ==
  /\ MaxEvents \in Nat
  /\ BatchLimit \in Nat \ {0}
  /\ MaxFaults \in Nat

ASSUME RunAssumption ==
  /\ Tick \cap ManualRun = {}
  /\ IsFiniteSet(ManualRun)

ASSUME PayloadAssumption ==
  Payload \subseteq [titled : BOOLEAN, users : SUBSET User, byRole : BOOLEAN]

VARIABLES
  up,       \* is the API process running?
  running,  \* EventWorkerService.running
  status,   \* DomainEvent.status, "NONE" before the row exists
  payload,  \* DomainEvent.payload
  retries,  \* DomainEvent.retryCount
  rows,     \* rows[e][u]: notification rows made for user u from event e
  staff,    \* active users who hold the role a payload addresses
  step,     \* where each call of a loop stands
  batch,    \* the events the call read and has not settled yet
  to,       \* the recipients the call resolved for the event in hand
  faults    \* faults so far

vars == <<up, running, status, payload, retries, rows, staff, step, batch, to, faults>>

NoPayload == [titled |-> FALSE, users |-> {}, byRole |-> FALSE]

Settled == {"PROCESSED", "FAILED"}
Step == {"idle", "resolve", "insert", "mark", "fail"}

TypeOK ==
  /\ up \in BOOLEAN
  /\ running \in BOOLEAN
  /\ status \in [Event -> {"NONE", "PENDING"} \cup Settled]
  /\ payload \in [Event -> Payload \cup {NoPayload}]
  /\ retries \in [Event -> Nat]
  /\ rows \in [Event -> [User -> Nat]]
  /\ staff \subseteq User
  /\ step \in [Run -> Step]
  /\ batch \in [Run -> SUBSET Event]
  /\ to \in [Run -> SUBSET User]
  /\ faults \in 0 .. MaxFaults

Init ==
  /\ up = TRUE
  /\ running = FALSE
  /\ status = [e \in Event |-> "NONE"]
  /\ payload = [e \in Event |-> NoPayload]
  /\ retries = [e \in Event |-> 0]
  /\ rows = [e \in Event |-> [u \in User |-> 0]]
  /\ staff = User
  /\ step = [p \in Run |-> "idle"]
  /\ batch = [p \in Run |-> {}]
  /\ to = [p \in Run |-> {}]
  /\ faults = 0

-----------------------------------------------------------------------------
\* Variant with a bug: failed events are taken up again.
PendingRetriesFailed == {e \in Event : status[e] \in {"PENDING", "FAILED"}}

Pending == {e \in Event : status[e] = "PENDING"}

\* Variant with a bug: orderBy createdAt desc.
NewestPending(n) ==
  {e \in Pending : Cardinality({f \in Pending : f > e}) < n}

\* The n oldest PENDING events.
OldestPending(n) ==
  {e \in Pending : Cardinality({f \in Pending : f < e}) < n}

\* Variant with a bug: the batch is worked from its end.
InHandNewest(p, e) == e \in batch[p] /\ \A f \in batch[p] : e >= f

\* The event a call is working on: the oldest left in its batch.
InHand(p, e) == e \in batch[p] /\ \A f \in batch[p] : e <= f

\* The payload checks both loops make before they notify anybody.
Readable(pl) == pl.titled /\ (pl.users # {} \/ pl.byRole)

\* Variant with a bug: the roles replace the users instead of adding to them.
RecipientsByRoleOnly(pl) == IF pl.byRole THEN staff ELSE pl.users

Recipients(pl) == pl.users \cup IF pl.byRole THEN staff ELSE {}

\* A user gets one row however often the payload or its roles name them.
Notified(e, us) ==
  [rows EXCEPT ![e] = [u \in User |-> IF u \in us THEN @[u] + 1 ELSE @[u]]]

-----------------------------------------------------------------------------
(* A publisher inserts the next row. *)
Publish(e, pl) ==
  /\ up
  /\ status[e] = "NONE"
  /\ \A f \in Event : f < e => status[f] # "NONE"
  /\ status' = [status EXCEPT ![e] = "PENDING"]
  /\ payload' = [payload EXCEPT ![e] = pl]
  /\ UNCHANGED <<up, running, retries, rows, staff, step, batch, to, faults>>

(* User administration gives or withdraws the addressed role, or            *)
(* deactivates a user, at any time.                                         *)
ChangeStaff(s) ==
  /\ staff' = s
  /\ UNCHANGED <<up, running, status, payload, retries, rows, step, batch, to, faults>>

(* Variant with a bug: the flag is not consulted.                           *)
BeginTickUnguarded(p) ==
  /\ up
  /\ p \in Tick
  /\ step[p] = "idle"
  /\ OldestPending(BatchLimit) # {}
  /\ running' = TRUE
  /\ step' = [step EXCEPT ![p] = "resolve"]
  /\ batch' = [batch EXCEPT ![p] = OldestPending(BatchLimit)]
  /\ UNCHANGED <<up, status, payload, retries, rows, staff, to, faults>>

(* The timer, or onModuleInit, calls processPending.  While another call is *)
(* under way it returns without doing anything, so only the other case is   *)
(* a step.                                                                  *)
BeginTick(p) ==
  /\ up
  /\ p \in Tick
  /\ step[p] = "idle"
  /\ ~running
  /\ OldestPending(BatchLimit) # {}
  /\ running' = TRUE
  /\ step' = [step EXCEPT ![p] = "resolve"]
  /\ batch' = [batch EXCEPT ![p] = OldestPending(BatchLimit)]
  /\ UNCHANGED <<up, status, payload, retries, rows, staff, to, faults>>

(* An administrator calls processPending with a limit of their choice.  The *)
(* flag of the worker is not consulted.                                     *)
BeginManual(p, limit) ==
  /\ up
  /\ p \in ManualRun
  /\ step[p] = "idle"
  /\ OldestPending(limit) # {}
  /\ step' = [step EXCEPT ![p] = "resolve"]
  /\ batch' = [batch EXCEPT ![p] = OldestPending(limit)]
  /\ UNCHANGED <<up, running, status, payload, retries, rows, staff, to, faults>>

(* processOne reads the payload and the members of the addressed roles.     *)
Resolve(p, e) ==
  /\ step[p] = "resolve"
  /\ InHand(p, e)
  /\ IF Readable(payload[e])
     THEN /\ step' = [step EXCEPT ![p] = "insert"]
          /\ to' = [to EXCEPT ![p] = Recipients(payload[e])]
     ELSE /\ step' = [step EXCEPT ![p] = "fail"]
          /\ to' = [to EXCEPT ![p] = {}]
  /\ UNCHANGED <<up, running, status, payload, retries, rows, staff, batch, faults>>

(* createMany: all the rows or none.                                        *)
Insert(p, e) ==
  /\ step[p] = "insert"
  /\ InHand(p, e)
  /\ rows' = Notified(e, to[p])
  /\ step' = [step EXCEPT ![p] = "mark"]
  /\ UNCHANGED <<up, running, status, payload, retries, staff, batch, to, faults>>

(* Variant with a bug: no finally, the flag stays up.                       *)
AdvanceFlagStuck(p, e) ==
  /\ batch' = [batch EXCEPT ![p] = @ \ {e}]
  /\ to' = [to EXCEPT ![p] = {}]
  /\ step' = [step EXCEPT ![p] = IF batch[p] = {e} THEN "idle" ELSE "resolve"]
  /\ UNCHANGED running

(* The call is done with event e: it takes the next one of its batch, or    *)
(* ends, and the worker then lowers its flag.                               *)
Advance(p, e) ==
  /\ batch' = [batch EXCEPT ![p] = @ \ {e}]
  /\ to' = [to EXCEPT ![p] = {}]
  /\ IF batch[p] = {e}
     THEN /\ step' = [step EXCEPT ![p] = "idle"]
          /\ running' = IF p \in Tick THEN FALSE ELSE running
     ELSE /\ step' = [step EXCEPT ![p] = "resolve"]
          /\ UNCHANGED running

(* Variant with a bug: a status the enumeration does not have.              *)
MarkCompleted(p, e) ==
  /\ step[p] = "mark"
  /\ InHand(p, e)
  /\ status' = [status EXCEPT ![e] = "COMPLETED"]
  /\ Advance(p, e)
  /\ UNCHANGED <<up, payload, retries, rows, staff, faults>>

(* markProcessed, whatever the status has become in the meantime.           *)
MarkProcessed(p, e) ==
  /\ step[p] = "mark"
  /\ InHand(p, e)
  /\ status' = [status EXCEPT ![e] = "PROCESSED"]
  /\ Advance(p, e)
  /\ UNCHANGED <<up, payload, retries, rows, staff, faults>>

(* markFailed, whatever the status has become in the meantime.              *)
MarkFailed(p, e) ==
  /\ step[p] = "fail"
  /\ InHand(p, e)
  /\ status' = [status EXCEPT ![e] = "FAILED"]
  /\ retries' = [retries EXCEPT ![e] = @ + 1]
  /\ Advance(p, e)
  /\ UNCHANGED <<up, payload, rows, staff, faults>>

-----------------------------------------------------------------------------
Fault == faults < MaxFaults /\ faults' = faults + 1

(* A statement inside the try block fails: the event goes to markFailed.    *)
(* The error may be the answer that got lost, so that the statement took    *)
(* effect all the same.                                                     *)
DbErrorCaught(p, e) ==
  /\ Fault
  /\ InHand(p, e)
  /\ \/ step[p] = "resolve" /\ UNCHANGED <<rows, status>>
     \/ step[p] = "insert" /\ rows' \in {rows, Notified(e, to[p])} /\ UNCHANGED status
     \/ /\ step[p] = "mark"
        /\ status' \in {status, [status EXCEPT ![e] = "PROCESSED"]}
        /\ UNCHANGED rows
  /\ step' = [step EXCEPT ![p] = "fail"]
  /\ UNCHANGED <<up, running, payload, retries, staff, batch, to>>

(* Everything in memory is gone: the loops, their batches and the flag.     *)
LoseMemory ==
  /\ running' = FALSE
  /\ step' = [p \in Run |-> "idle"]
  /\ batch' = [p \in Run |-> {}]
  /\ to' = [p \in Run |-> {}]

(* markFailed itself fails, or its answer is lost after it took effect.     *)
(* The exception leaves the loop: a manual call                             *)
(* answers with an error, and the rest of its batch stays PENDING.  The     *)
(* worker's promise is rejected with nobody to catch it, which ends the     *)
(* Node process.                                                            *)
DbErrorUncaught(p, e) ==
  /\ Fault
  /\ step[p] = "fail"
  /\ InHand(p, e)
  /\ IF p \in Tick
     THEN up' = FALSE /\ LoseMemory
     ELSE /\ step' = [step EXCEPT ![p] = "idle"]
          /\ batch' = [batch EXCEPT ![p] = {}]
          /\ to' = [to EXCEPT ![p] = {}]
          /\ UNCHANGED <<up, running>>
  /\ \/ UNCHANGED <<status, retries>>
     \/ /\ status' = [status EXCEPT ![e] = "FAILED"]
        /\ retries' = [retries EXCEPT ![e] = @ + 1]
  /\ UNCHANGED <<payload, rows, staff>>

Crash ==
  /\ Fault
  /\ up
  /\ up' = FALSE
  /\ LoseMemory
  /\ UNCHANGED <<status, payload, retries, rows, staff>>

(* The operator starts the process again; the constructor leaves `running'  *)
(* FALSE and the rows that are still PENDING are where they were.           *)
Restart ==
  /\ ~up
  /\ up' = TRUE
  /\ UNCHANGED <<running, status, payload, retries, rows, staff, step, batch, to, faults>>

-----------------------------------------------------------------------------
Proceed(p) ==
  \E e \in Event :
    Resolve(p, e) \/ Insert(p, e) \/ MarkProcessed(p, e) \/ MarkFailed(p, e)

Next ==
  \/ \E e \in Event, pl \in Payload : Publish(e, pl)
  \/ \E s \in SUBSET User : ChangeStaff(s)
  \/ \E p \in Tick : BeginTick(p)
  \/ \E p \in ManualRun, limit \in Event : BeginManual(p, limit)
  \/ \E p \in Run : Proceed(p)
  \/ \E p \in Run, e \in Event : DbErrorCaught(p, e) \/ DbErrorUncaught(p, e)
  \/ Crash
  \/ Restart

Spec == Init /\ [][Next]_vars

(* The timer keeps firing, a call that is not waiting for anybody goes on,  *)
(* and somebody restarts a process that died.  Publishers, administrators   *)
(* and faults owe nothing.                                                  *)
Fairness ==
  /\ WF_vars(\E p \in Tick : BeginTick(p))
  /\ \A p \in Run : WF_vars(Proceed(p))
  /\ WF_vars(Restart)

FairSpec == Spec /\ Fairness

-----------------------------------------------------------------------------
(* The events are settled oldest first, although two loops that know        *)
(* nothing of each other settle them and either may die half-way: no event  *)
(* is settled while an older one is still waiting.                          *)
OldestFirst ==
  \A e, f \in Event : f < e /\ status[e] \in Settled => status[f] \in Settled

(* An event that reads PROCESSED has reached every user its payload names,  *)
(* whichever loop wrote that status and whatever failed on the way.         *)
ProcessedReachedEveryone ==
  \A e \in Event : status[e] = "PROCESSED" =>
    \A u \in payload[e].users : rows[e][u] > 0

(* A user can get the same notification more than once, but no more often   *)
(* than there are loops that may overlap (the flag admits one tick), times  *)
(* the lives of the process that faults cut the work into.                  *)
BoundedDuplicates ==
  \A e \in Event, u \in User :
    rows[e][u] <= (1 + Cardinality(ManualRun)) * (1 + faults)

(* FAILED is the last word on an event that no call of a loop has in hand:  *)
(* it is never read again, and no late answer turns it into PROCESSED or    *)
(* notifies anybody.  A call that read the event before still may.          *)
FailedIsFinal ==
  [][\A e \in Event :
       status[e] = "FAILED" /\ (\A p \in Run : e \notin batch[p]) =>
         /\ status'[e] = "FAILED" /\ rows'[e] = rows[e]
         /\ \A p \in Run : e \notin batch'[p]]_vars

(* Every event that was published is settled in the end, however small the  *)
(* batch and in spite of the (finitely many) faults.                        *)
EverySettled ==
  \A e \in Event : (status[e] = "PENDING") ~> (status[e] \in Settled)

(* What the loops deliver, seen from outside: an at-least-once queue.       *)
Promise == INSTANCE Delivery WITH
  phase <- status,
  addressed <- [e \in Event |-> payload[e].users],
  reached <- [e \in Event |-> {u \in User : rows[e][u] > 0}]

(* The two loops, overlapping and failing, never do more than the queue     *)
(* allows: first in, first out, PROCESSED only after everybody named has    *)
(* the notification, no notification withdrawn.                             *)
ImplementsDelivery == Promise!Spec

=============================================================================
