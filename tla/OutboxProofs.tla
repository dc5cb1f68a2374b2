---------------------------- MODULE OutboxProofs ----------------------------
(***************************************************************************)
(* What holds of the outbox for every number of users, events, loops and   *)
(* faults.  Inductive invariants, each resting on those before: TypeOK;    *)
(* Order, which relates the batch a call holds in memory to the table as   *)
(* the other loops leave it; Reach, which follows one event through the    *)
(* statements of a call; OneTick, which the flag is for; and Budget, which *)
(* counts the notifications that were made for an event and that may still *)
(* be made for it.  Order and Reach carry the refinement of Delivery.      *)
(***************************************************************************)
EXTENDS Outbox, FiniteSetTheorems, TLAPS

\* Rows appear in the order of their createdAt.
PublishedInOrder ==
  \A e, f \in Event : f < e /\ status[e] # "NONE" => status[f] # "NONE"

\* What a call has in memory was published, and nothing older is waiting
\* outside it.
BatchIsOldest ==
  \A p \in Run : \A e \in batch[p] :
    /\ status[e] # "NONE"
    /\ \A f \in Event : f < e => f \in batch[p] \/ status[f] \in Settled

Order == PublishedInOrder /\ BatchIsOldest /\ OldestFirst

\* Between its statements a call knows the recipients, then has reached them.
CallReaches ==
  \A p \in Run, e \in Event : InHand(p, e) =>
    /\ step[p] = "insert" => payload[e].users \subseteq to[p]
    /\ step[p] = "mark" => \A u \in payload[e].users : rows[e][u] > 0

Reach == CallReaches /\ ProcessedReachedEveryone

-----------------------------------------------------------------------------
(* The state of the loops and of the table keeps its types, with faults     *)
(* within their bound.                                                      *)
THEOREM TypeCorrect == Spec => []TypeOK
<1> USE CountAssumption, RunAssumption, PayloadAssumption
<1>1. Init => TypeOK
  <2> SUFFICES ASSUME Init PROVE TypeOK
    OBVIOUS
  <2>1. faults \in 0 .. MaxFaults
    BY DEF Init, CountAssumption
  <2>2. rows \in [Event -> [User -> Nat]] /\ retries \in [Event -> Nat]
    BY DEF Init
  <2>. QED BY <2>1, <2>2 DEF Init, TypeOK, Step, Settled
<1>2. TypeOK /\ [Next]_vars => TypeOK'
  <2> SUFFICES ASSUME TypeOK, [Next]_vars PROVE TypeOK'
    OBVIOUS
  <2> USE DEF TypeOK, Step, Settled
  <2>1. ASSUME NEW e \in Event, NEW pl \in Payload, Publish(e, pl) PROVE TypeOK'
    BY <2>1 DEF Publish
  <2>2. ASSUME NEW s \in SUBSET User, ChangeStaff(s) PROVE TypeOK'
    BY <2>2 DEF ChangeStaff
  <2>3. ASSUME NEW p \in Tick, BeginTick(p) PROVE TypeOK'
    BY <2>3 DEF BeginTick, OldestPending, Pending
  <2>4. ASSUME NEW p \in ManualRun, NEW limit \in Event, BeginManual(p, limit) PROVE TypeOK'
    BY <2>4 DEF BeginManual, OldestPending, Pending
  <2>5. ASSUME NEW p \in Run, NEW e \in Event, Resolve(p, e) PROVE TypeOK'
    <3>1. Recipients(payload[e]) \subseteq User
      BY DEF Recipients, NoPayload
    <3>. QED BY <2>5, <3>1 DEF Resolve
  <2>6. ASSUME NEW us \in SUBSET User, NEW e \in Event
        PROVE Notified(e, us) \in [Event -> [User -> Nat]]
    BY DEF Notified
  <2>7. ASSUME NEW p \in Run, NEW e \in Event, Insert(p, e) PROVE TypeOK'
    BY <2>6, <2>7 DEF Insert
  <2>. DEFINE LoopTypes ==
         /\ running' \in BOOLEAN
         /\ step' \in [Run -> Step]
         /\ batch' \in [Run -> SUBSET Event]
         /\ to' \in [Run -> SUBSET User]
  <2>15. ASSUME NEW p \in Run, NEW e \in Event, Advance(p, e) PROVE LoopTypes
    <3>1. batch' \in [Run -> SUBSET Event] /\ to' \in [Run -> SUBSET User]
      BY <2>15 DEF Advance
    <3>2. CASE batch[p] = {e}
      BY <2>15, <3>1, <3>2 DEF Advance
    <3>3. CASE batch[p] # {e}
      BY <2>15, <3>1, <3>3 DEF Advance
    <3>. QED BY <3>2, <3>3
  <2>8. ASSUME NEW p \in Run, NEW e \in Event, MarkProcessed(p, e) PROVE TypeOK'
    BY <2>8, <2>15 DEF MarkProcessed
  <2>9. ASSUME NEW p \in Run, NEW e \in Event, MarkFailed(p, e) PROVE TypeOK'
    BY <2>9, <2>15 DEF MarkFailed
  <2>10. ASSUME NEW p \in Run, NEW e \in Event, DbErrorCaught(p, e) PROVE TypeOK'
    <3>1. to[p] \in SUBSET User /\ faults' \in 0 .. MaxFaults
      BY <2>10 DEF DbErrorCaught, Fault
    <3>2. rows' \in [Event -> [User -> Nat]]
      <4>1. rows' = rows \/ rows' = Notified(e, to[p])
        BY <2>10 DEF DbErrorCaught
      <4>2. Notified(e, to[p]) \in [Event -> [User -> Nat]]
        BY <2>6, <3>1
      <4>. QED BY <4>1, <4>2
    <3>3. status' \in [Event -> {"NONE", "PENDING"} \cup Settled]
      BY <2>10 DEF DbErrorCaught
    <3>. QED BY <2>10, <3>1, <3>2, <3>3 DEF DbErrorCaught
  <2>11. ASSUME NEW p \in Run, NEW e \in Event, DbErrorUncaught(p, e) PROVE TypeOK'
    <3>1. up' \in BOOLEAN /\ LoopTypes
      <4>1. CASE p \in Tick
        BY <2>11, <4>1 DEF DbErrorUncaught, LoseMemory
      <4>2. CASE p \notin Tick
        BY <2>11, <4>2 DEF DbErrorUncaught
      <4>. QED BY <4>1, <4>2
    <3>2. faults' \in 0 .. MaxFaults
      BY <2>11 DEF DbErrorUncaught, Fault
    <3>3. /\ status' \in [Event -> {"NONE", "PENDING"} \cup Settled]
          /\ retries' \in [Event -> Nat]
      BY <2>11 DEF DbErrorUncaught
    <3>4. payload' = payload /\ rows' = rows /\ staff' = staff
      BY <2>11 DEF DbErrorUncaught
    <3>. QED BY <3>1, <3>2, <3>3, <3>4
  <2>12. CASE Crash
    <3>1. faults' \in 0 .. MaxFaults
      BY <2>12 DEF Crash, Fault
    <3>2. up' \in BOOLEAN /\ LoopTypes
      BY <2>12 DEF Crash, LoseMemory
    <3>. QED BY <2>12, <3>1, <3>2 DEF Crash
  <2>13. CASE Restart
    BY <2>13 DEF Restart
  <2>14. CASE UNCHANGED vars
    BY <2>14 DEF vars
  <2>. QED
    BY <2>1, <2>2, <2>3, <2>4, <2>5, <2>7, <2>8, <2>9, <2>10, <2>11, <2>12, <2>13, <2>14
    DEF Next, Proceed
<1>. QED BY <1>1, <1>2, PTL DEF Spec

-----------------------------------------------------------------------------
(* What findPending leaves behind is younger than what it takes: the        *)
(* pending events older than a member of OldestPending are members too.     *)
LEMMA OldestPendingIsPrefix ==
  ASSUME NEW n \in Nat, NEW e \in OldestPending(n), NEW f \in Pending, f < e
  PROVE  f \in OldestPending(n)
<1> DEFINE Before(g) == {h \in Pending : h < g}
<1>1. IsFiniteSet(Event)
  BY FS_Interval, CountAssumption DEF Event
<1>2. Before(e) \subseteq Event /\ Before(f) \subseteq Before(e)
  BY DEF Pending, OldestPending, Event
<1>3. IsFiniteSet(Before(e))
  BY <1>1, <1>2, FS_Subset
<1>4. IsFiniteSet(Before(f)) /\ Cardinality(Before(f)) <= Cardinality(Before(e))
  BY <1>2, <1>3, FS_Subset
<1>5. Cardinality(Before(e)) \in Nat /\ Cardinality(Before(f)) \in Nat
  BY <1>3, <1>4, FS_CardinalityType
<1>6. Cardinality(Before(e)) < n
  BY DEF OldestPending
<1>7. Cardinality(Before(f)) < n
  BY <1>4, <1>5, <1>6
<1>. QED BY <1>7 DEF OldestPending

\* The batch a call starts with meets the second part of the invariant.
LEMMA NewBatchIsOldest ==
  ASSUME TypeOK, Order, NEW n \in Nat, NEW e \in OldestPending(n)
  PROVE  /\ e \in Event
         /\ status[e] # "NONE"
         /\ \A f \in Event : f < e => f \in OldestPending(n) \/ status[f] \in Settled
<1>1. e \in Pending /\ e \in Event /\ status[e] = "PENDING"
  BY DEF OldestPending, Pending
<1>2. ASSUME NEW f \in Event, f < e, status[f] \notin Settled
      PROVE  f \in OldestPending(n)
  <2>1. status[f] # "NONE"
    BY <1>1, <1>2 DEF Order, PublishedInOrder
  <2>2. f \in Pending
    BY <1>2, <2>1 DEF TypeOK, Pending
  <2>. QED BY <1>2, <2>2, OldestPendingIsPrefix
<1>. QED BY <1>1, <1>2

\* Settling the event in hand, and dropping some of the memory of calls,
\* keeps the invariant: nothing older than that event is waiting.
LEMMA SettleInHand ==
  ASSUME TypeOK, Order, NEW p \in Run, NEW e \in Event, InHand(p, e),
         NEW outcome \in Settled,
         status' = [status EXCEPT ![e] = outcome],
         \A q \in Run : batch'[q] \in {batch[q], batch[q] \ {e}, {}}
  PROVE  Order'
<1> USE DEF TypeOK, Order, Settled
<1>1. \A f \in Event : f < e => status[f] \in Settled
  BY DEF InHand, BatchIsOldest, Event
<1>2. \A f \in Event : status[f] # "NONE" => status'[f] # "NONE"
  OBVIOUS
<1>3. \A f \in Event : status[f] \in Settled => status'[f] \in Settled
  OBVIOUS
<1>4. status[e] # "NONE"
  BY DEF InHand, BatchIsOldest
<1>5. PublishedInOrder'
  BY <1>2, <1>4 DEF PublishedInOrder
<1>6. BatchIsOldest'
  <2> SUFFICES ASSUME NEW q \in Run, NEW g \in batch'[q]
               PROVE  /\ status'[g] # "NONE"
                      /\ \A f \in Event : f < g => f \in batch'[q] \/ status'[f] \in Settled
    BY DEF BatchIsOldest
  <2>1. g \in batch[q] /\ g \in Event
    OBVIOUS
  <2>2. \A f \in batch[q] : f \in batch'[q] \/ f = e
    OBVIOUS
  <2>3. status'[e] \in Settled
    OBVIOUS
  <2>. QED BY <1>2, <1>3, <2>1, <2>2, <2>3 DEF BatchIsOldest
<1>7. OldestFirst'
  BY <1>1, <1>3 DEF OldestFirst
<1>. QED BY <1>5, <1>6, <1>7

\* Steps that leave the table alone and add nothing to a batch.
LEMMA OrderOfUnchanged ==
  ASSUME TypeOK, Order, status' = status,
         \A q \in Run : batch'[q] \in {batch[q], {}}
  PROVE  Order'
BY DEF TypeOK, Order, PublishedInOrder, BatchIsOldest, OldestFirst

(* Whatever the loops and the faults do, a call has in memory the oldest of *)
(* what is waiting, and the table is settled from its old end.              *)
THEOREM OrderStep == TypeOK /\ TypeOK' /\ Order /\ [Next]_vars => Order'
<1> SUFFICES ASSUME TypeOK, TypeOK', Order, [Next]_vars PROVE Order'
  OBVIOUS
<1>1. ASSUME NEW e \in Event, NEW pl \in Payload, Publish(e, pl) PROVE Order'
  <2>1. /\ status[e] = "NONE"
        /\ \A f \in Event : f < e => status[f] # "NONE"
        /\ status' = [status EXCEPT ![e] = "PENDING"]
        /\ batch' = batch
    BY <1>1 DEF Publish
  <2>2. \A f \in Event : f # e => status'[f] = status[f]
    BY <2>1 DEF TypeOK
  <2>3. status'[e] = "PENDING"
    BY <2>1 DEF TypeOK
  <2>4. PublishedInOrder'
    BY <2>1, <2>2, <2>3 DEF Order, PublishedInOrder
  <2>5. BatchIsOldest'
    <3>1. \A p \in Run : \A g \in batch[p] : g \in Event /\ g # e
      BY <2>1 DEF TypeOK, Order, BatchIsOldest
    <3>2. \A f \in Event : status[f] \in Settled => status'[f] \in Settled
      BY <2>1, <2>2 DEF Settled
    <3>. QED BY <2>1, <2>2, <3>1, <3>2 DEF Order, BatchIsOldest
  <2>6. OldestFirst'
    BY <2>1, <2>2, <2>3 DEF Order, OldestFirst, Settled
  <2>. QED BY <2>4, <2>5, <2>6 DEF Order
<1>2. ASSUME NEW s \in SUBSET User, ChangeStaff(s) PROVE Order'
  BY <1>2, OrderOfUnchanged DEF ChangeStaff
<1>3. ASSUME NEW p \in Run, NEW n \in Nat, status' = status,
             batch' = [batch EXCEPT ![p] = OldestPending(n)]
      PROVE  Order'
  <2>1. ASSUME NEW q \in Run, NEW e \in batch'[q]
        PROVE  /\ status[e] # "NONE"
               /\ \A f \in Event : f < e => f \in batch'[q] \/ status[f] \in Settled
    <3>1. CASE q = p
      <4>1. batch'[q] = OldestPending(n)
        BY <1>3, <3>1 DEF TypeOK
      <4>. QED BY <2>1, <4>1, NewBatchIsOldest
    <3>2. CASE q # p
      <4>1. batch'[q] = batch[q]
        BY <1>3, <3>2 DEF TypeOK
      <4>. QED BY <2>1, <4>1 DEF Order, BatchIsOldest
    <3>. QED BY <3>1, <3>2
  <2>2. BatchIsOldest'
    BY <1>3, <2>1 DEF BatchIsOldest
  <2>. QED BY <1>3, <2>2 DEF Order, PublishedInOrder, OldestFirst
<1>4. ASSUME NEW p \in Tick, BeginTick(p) PROVE Order'
  <2>1. BatchLimit \in Nat /\ p \in Run
    BY CountAssumption DEF Run
  <2>. QED BY <1>3, <1>4, <2>1 DEF BeginTick
<1>5. ASSUME NEW p \in ManualRun, NEW limit \in Event, BeginManual(p, limit) PROVE Order'
  <2>1. limit \in Nat /\ p \in Run
    BY DEF Run, Event
  <2>. QED BY <1>3, <1>5, <2>1 DEF BeginManual
<1>6. ASSUME NEW p \in Run, NEW e \in Event, Resolve(p, e) PROVE Order'
  BY <1>6, OrderOfUnchanged DEF Resolve
<1>7. ASSUME NEW p \in Run, NEW e \in Event, Insert(p, e) PROVE Order'
  BY <1>7, OrderOfUnchanged DEF Insert
<1>8. ASSUME NEW p \in Run, NEW e \in Event,
             MarkProcessed(p, e) \/ MarkFailed(p, e) PROVE Order'
  <2>1. InHand(p, e) /\ batch' = [batch EXCEPT ![p] = @ \ {e}]
    BY <1>8 DEF MarkProcessed, MarkFailed, Advance
  <2>2. \E outcome \in Settled : status' = [status EXCEPT ![e] = outcome]
    BY <1>8 DEF MarkProcessed, MarkFailed, Settled
  <2>3. \A q \in Run : batch'[q] \in {batch[q], batch[q] \ {e}, {}}
    BY <2>1 DEF TypeOK
  <2>. QED BY <2>1, <2>2, <2>3, SettleInHand
<1>9. ASSUME NEW p \in Run, NEW e \in Event, DbErrorCaught(p, e) PROVE Order'
  <2>1. InHand(p, e) /\ batch' = batch
    BY <1>9 DEF DbErrorCaught
  <2>2. CASE status' = status
    BY <2>1, <2>2, OrderOfUnchanged
  <2>3. CASE status' = [status EXCEPT ![e] = "PROCESSED"]
    BY <2>1, <2>3, SettleInHand DEF Settled
  <2>. QED BY <1>9, <2>2, <2>3 DEF DbErrorCaught
<1>10. ASSUME NEW p \in Run, NEW e \in Event, DbErrorUncaught(p, e) PROVE Order'
  <2>1. InHand(p, e) /\ \A q \in Run : batch'[q] \in {batch[q], {}}
    BY <1>10 DEF DbErrorUncaught, LoseMemory, TypeOK
  <2>2. CASE status' = status
    BY <2>1, <2>2, OrderOfUnchanged
  <2>3. CASE status' = [status EXCEPT ![e] = "FAILED"]
    BY <2>1, <2>3, SettleInHand DEF Settled
  <2>. QED BY <1>10, <2>2, <2>3 DEF DbErrorUncaught
<1>11. CASE Crash
  <2>1. status' = status /\ batch' = [p \in Run |-> {}]
    BY <1>11 DEF Crash, LoseMemory
  <2>. QED BY <2>1, OrderOfUnchanged
<1>12. CASE Restart
  BY <1>12, OrderOfUnchanged DEF Restart
<1>13. CASE UNCHANGED vars
  BY <1>13, OrderOfUnchanged DEF vars
<1>. QED
  BY <1>1, <1>2, <1>4, <1>5, <1>6, <1>7, <1>8, <1>9, <1>10, <1>11, <1>12, <1>13
  DEF Next, Proceed

(* The events are settled oldest first, for any number of overlapping loops *)
(* and of faults: OldestFirst of the run outbox.                            *)
THEOREM SettledOldestFirst == Spec => []OldestFirst
<1>1. Init => Order
  BY DEF Init, Order, PublishedInOrder, BatchIsOldest, OldestFirst, Settled
<1>2. Order => OldestFirst
  BY DEF Order
<1>. QED BY <1>1, <1>2, TypeCorrect, OrderStep, PTL DEF Spec

-----------------------------------------------------------------------------
\* Only Publish writes a payload, and only of a row nobody has read yet.
LEMMA PayloadOfPublished ==
  ASSUME TypeOK, [Next]_vars, NEW e \in Event, status[e] # "NONE"
  PROVE  payload'[e] = payload[e]
<1>1. ASSUME NEW f \in Event, NEW pl \in Payload, Publish(f, pl)
      PROVE  payload'[e] = payload[e]
  BY <1>1 DEF Publish, TypeOK
<1>2. CASE payload' = payload
  BY <1>2
<1>. QED
  BY <1>1, <1>2 DEF Next, Proceed, ChangeStaff, BeginTick, BeginManual, Resolve, Insert,
     MarkProcessed, MarkFailed, DbErrorCaught, DbErrorUncaught, Crash, Restart, vars

\* No step takes a notification away.
LEMMA RowsGrow ==
  ASSUME TypeOK, TypeOK', [Next]_vars, NEW e \in Event, NEW u \in User
  PROVE  rows[e][u] > 0 => rows'[e][u] > 0
<1>1. ASSUME NEW f \in Event, NEW us \in SUBSET User, rows' = Notified(f, us)
      PROVE  rows[e][u] > 0 => rows'[e][u] > 0
  <2>1. rows'[e][u] \in {rows[e][u], rows[e][u] + 1}
    BY <1>1 DEF Notified, TypeOK
  <2>2. rows[e][u] \in Nat
    BY DEF TypeOK
  <2>. QED BY <2>1, <2>2
<1>2. CASE rows' = rows
  BY <1>2
<1>3. ASSUME NEW p \in Run, NEW f \in Event, Insert(p, f) \/ DbErrorCaught(p, f)
      PROVE  rows[e][u] > 0 => rows'[e][u] > 0
  <2>1. to[p] \in SUBSET User
    BY DEF TypeOK
  <2>2. rows' = rows \/ rows' = Notified(f, to[p])
    BY <1>3 DEF Insert, DbErrorCaught
  <2>. QED BY <1>1, <1>2, <2>1, <2>2
<1>. QED
  BY <1>2, <1>3 DEF Next, Proceed, Publish, ChangeStaff, BeginTick, BeginManual, Resolve,
     MarkProcessed, MarkFailed, DbErrorUncaught, Crash, Restart, vars

\* The loops that take no step keep what they know, and its truth.
LEMMA OthersReach ==
  ASSUME TypeOK, TypeOK', Order, Reach, [Next]_vars, NEW p \in Run, NEW e \in Event,
         InHand(p, e), step'[p] = step[p], to'[p] = to[p]
  PROVE  /\ step'[p] = "insert" => payload'[e].users \subseteq to'[p]
         /\ step'[p] = "mark" => \A u \in payload'[e].users : rows'[e][u] > 0
<1>1. status[e] # "NONE"
  BY DEF InHand, Order, BatchIsOldest
<1>2. payload'[e] = payload[e]
  BY <1>1, PayloadOfPublished
<1>3. payload[e].users \subseteq User
  BY PayloadAssumption DEF TypeOK, NoPayload
<1>4. \A u \in payload[e].users : rows[e][u] > 0 => rows'[e][u] > 0
  BY <1>3, RowsGrow
<1>. QED BY <1>2, <1>4 DEF Reach, CallReaches

\* A step leaves a call alone, or takes it to a point where it claims
\* nothing, or is the Resolve or Insert of that very call.
LEMMA CallMoves ==
  ASSUME TypeOK, [Next]_vars, NEW p \in Run
  PROVE  \/ step'[p] = step[p] /\ to'[p] = to[p] /\ batch'[p] = batch[p]
         \/ step'[p] \notin {"insert", "mark"}
         \/ \E f \in Event : Resolve(p, f) \/ Insert(p, f)
<1>1. ASSUME NEW q \in Run, NEW f \in Event, Resolve(q, f) \/ Insert(q, f) PROVE
         \/ step'[p] = step[p] /\ to'[p] = to[p] /\ batch'[p] = batch[p]
         \/ \E g \in Event : Resolve(p, g) \/ Insert(p, g)
  <2>1. CASE p = q
    BY <1>1, <2>1
  <2>2. CASE p # q
    BY <1>1, <2>2 DEF Resolve, Insert, TypeOK
  <2>. QED BY <2>1, <2>2
<1>2. ASSUME NEW q \in Run, NEW value,
             value \notin {"insert", "mark"},
             step' = [step EXCEPT ![q] = value],
             \A r \in Run : r # q => to'[r] = to[r] /\ batch'[r] = batch[r]
      PROVE  \/ step'[p] = step[p] /\ to'[p] = to[p] /\ batch'[p] = batch[p]
             \/ step'[p] \notin {"insert", "mark"}
  BY <1>2 DEF TypeOK
<1>3. ASSUME NEW q \in Tick, BeginTick(q)
      PROVE  \/ step'[p] = step[p] /\ to'[p] = to[p] /\ batch'[p] = batch[p]
             \/ step'[p] \notin {"insert", "mark"}
  BY <1>3 DEF BeginTick, TypeOK, Run
<1>4. ASSUME NEW q \in ManualRun, NEW limit \in Event, BeginManual(q, limit)
      PROVE  \/ step'[p] = step[p] /\ to'[p] = to[p] /\ batch'[p] = batch[p]
             \/ step'[p] \notin {"insert", "mark"}
  BY <1>4 DEF BeginManual, TypeOK, Run
<1>5. ASSUME NEW q \in Run, NEW f \in Event, MarkProcessed(q, f) \/ MarkFailed(q, f)
      PROVE  \/ step'[p] = step[p] /\ to'[p] = to[p] /\ batch'[p] = batch[p]
             \/ step'[p] \notin {"insert", "mark"}
  <2>1. Advance(q, f)
    BY <1>5 DEF MarkProcessed, MarkFailed
  <2>2. \A r \in Run : r # q => to'[r] = to[r] /\ batch'[r] = batch[r]
    BY <2>1 DEF Advance, TypeOK
  <2>3. step' = [step EXCEPT ![q] = "idle"] \/ step' = [step EXCEPT ![q] = "resolve"]
    BY <2>1 DEF Advance
  <2>. QED BY <1>2, <2>2, <2>3
<1>6. ASSUME NEW q \in Run, NEW f \in Event, DbErrorCaught(q, f) \/ DbErrorUncaught(q, f)
      PROVE  \/ step'[p] = step[p] /\ to'[p] = to[p] /\ batch'[p] = batch[p]
             \/ step'[p] \notin {"insert", "mark"}
  <2>1. CASE DbErrorCaught(q, f)
    BY <1>2, <2>1 DEF DbErrorCaught
  <2>2. CASE DbErrorUncaught(q, f) /\ q \in Tick
    BY <2>2 DEF DbErrorUncaught, LoseMemory
  <2>3. CASE DbErrorUncaught(q, f) /\ q \notin Tick
    <3>1. \A r \in Run : r # q => to'[r] = to[r] /\ batch'[r] = batch[r]
      BY <2>3 DEF DbErrorUncaught, TypeOK
    <3>2. step' = [step EXCEPT ![q] = "idle"]
      BY <2>3 DEF DbErrorUncaught
    <3>. QED BY <1>2, <3>1, <3>2
  <2>. QED BY <1>6, <2>1, <2>2, <2>3
<1>7. CASE Crash
  BY <1>7 DEF Crash, LoseMemory
<1>8. CASE step' = step /\ to' = to /\ batch' = batch
  BY <1>8
<1>. QED
  BY <1>1, <1>3, <1>4, <1>5, <1>6, <1>7, <1>8
  DEF Next, Proceed, Publish, ChangeStaff, Restart, vars

\* A call works on one event at a time.
LEMMA OneInHand ==
  ASSUME NEW p \in Run, NEW e \in Event, NEW f \in Event, InHand(p, e), InHand(p, f)
  PROVE  e = f
BY DEF InHand, Event

(* A call that is about to insert knows everybody the event names, one that *)
(* is about to mark has reached them, and PROCESSED is written only then.   *)
THEOREM ReachStep == TypeOK /\ TypeOK' /\ Order /\ Reach /\ [Next]_vars => Reach'
<1> SUFFICES ASSUME TypeOK, TypeOK', Order, Reach, [Next]_vars PROVE Reach'
  OBVIOUS
<1>1. ASSUME NEW p \in Run, NEW e \in Event, InHand(p, e)'
      PROVE  /\ step'[p] = "insert" => payload'[e].users \subseteq to'[p]
             /\ step'[p] = "mark" => \A u \in payload'[e].users : rows'[e][u] > 0
  <2>1. CASE step'[p] = step[p] /\ to'[p] = to[p] /\ batch'[p] = batch[p]
    <3>1. InHand(p, e)
      BY <1>1, <2>1 DEF InHand
    <3>. QED BY <2>1, <3>1, OthersReach
  <2>2. CASE step'[p] \notin {"insert", "mark"}
    BY <2>2
  <2>3. ASSUME NEW f \in Event, Resolve(p, f)
        PROVE  /\ step'[p] = "insert" => payload'[e].users \subseteq to'[p]
               /\ step'[p] # "mark"
    <3>1. e = f
      <4>1. InHand(p, e)
        BY <1>1, <2>3 DEF Resolve, InHand
      <4>. QED BY <2>3, <4>1, OneInHand DEF Resolve
    <3>2. CASE Readable(payload[f])
      BY <2>3, <3>1, <3>2 DEF Resolve, Recipients, TypeOK
    <3>3. CASE ~Readable(payload[f])
      BY <2>3, <3>3 DEF Resolve, TypeOK
    <3>. QED BY <3>2, <3>3
  <2>4. ASSUME NEW f \in Event, Insert(p, f)
        PROVE  /\ step'[p] = "mark"
               /\ \A u \in payload'[e].users : rows'[e][u] > 0
    <3>1. InHand(p, e) /\ InHand(p, f)
      BY <1>1, <2>4 DEF Insert, InHand
    <3>2. e = f
      BY <3>1, OneInHand
    <3>3. payload[e].users \subseteq to[p] /\ to[p] \subseteq User
      BY <2>4, <3>1 DEF Insert, Reach, CallReaches, TypeOK
    <3>4. ASSUME NEW u \in to[p] PROVE rows'[e][u] > 0
      <4>1. rows[e][u] \in Nat /\ rows'[e][u] = rows[e][u] + 1
        BY <2>4, <3>2, <3>3, <3>4 DEF Insert, Notified, TypeOK
      <4>. QED BY <4>1
    <3>. QED BY <2>4, <3>3, <3>4 DEF Insert, TypeOK
  <2>. QED BY <2>1, <2>2, <2>3, <2>4, CallMoves
<1>2. ASSUME NEW e \in Event, status'[e] = "PROCESSED", NEW u \in payload'[e].users
      PROVE  rows'[e][u] > 0
  <2>1. SUFFICES ASSUME status[e] # "NONE", \A v \in payload[e].users : rows[e][v] > 0
                 PROVE  rows'[e][u] > 0
    <3>1. CASE status[e] = "PROCESSED"
      BY <2>1, <3>1 DEF Reach, ProcessedReachedEveryone
    <3>2. CASE status[e] # "PROCESSED"
      <4>1. PICK p \in Run, f \in Event : /\ step[p] = "mark"
                                         /\ InHand(p, f)
                                         /\ status' = [status EXCEPT ![f] = "PROCESSED"]
        BY <1>2, <3>2 DEF Next, Proceed, Publish, ChangeStaff, BeginTick, BeginManual, Resolve,
           Insert, MarkProcessed, MarkFailed, DbErrorCaught, DbErrorUncaught, Crash, Restart,
           vars, TypeOK
      <4>2. f = e
        BY <1>2, <3>2, <4>1 DEF TypeOK
      <4>3. status[e] # "NONE"
        BY <4>1, <4>2 DEF InHand, Order, BatchIsOldest
      <4>. QED BY <2>1, <4>1, <4>2, <4>3 DEF Reach, CallReaches
    <3>. QED BY <3>1, <3>2
  <2>2. payload'[e] = payload[e]
    BY <2>1, PayloadOfPublished
  <2>3. u \in User
    <3>1. payload[e].users \subseteq User
      BY PayloadAssumption DEF TypeOK, NoPayload
    <3>. QED BY <2>2, <3>1
  <2>. QED BY <1>2, <2>1, <2>2, <2>3, RowsGrow
<1>. QED BY <1>1, <1>2 DEF Reach, CallReaches, ProcessedReachedEveryone

(* PROCESSED means that every user the payload names has the notification,  *)
(* whichever loop wrote it, whatever failed: ProcessedReachedEveryone of    *)
(* the run outbox.                                                          *)
THEOREM ProcessedReaches == Spec => []ProcessedReachedEveryone
<1>1. Init => Order /\ Reach
  BY DEF Init, Order, PublishedInOrder, BatchIsOldest, OldestFirst, Settled,
     Reach, CallReaches, InHand, ProcessedReachedEveryone
<1>2. Reach => ProcessedReachedEveryone
  BY DEF Reach
<1>. QED BY <1>1, <1>2, TypeCorrect, OrderStep, ReachStep, PTL DEF Spec

-----------------------------------------------------------------------------
(* What no call has in hand is left alone once it is FAILED, by either loop *)
(* and by every fault: FailedIsFinal of the run outbox.                     *)
THEOREM FailedStays == Spec => FailedIsFinal
<1> DEFINE Stays ==
      \A e \in Event :
        status[e] = "FAILED" /\ (\A p \in Run : e \notin batch[p]) =>
          /\ status'[e] = "FAILED" /\ rows'[e] = rows[e]
          /\ \A p \in Run : e \notin batch'[p]
<1>1. TypeOK /\ [Next]_vars => Stays
  <2> SUFFICES ASSUME TypeOK, [Next]_vars, NEW e \in Event, status[e] = "FAILED",
                      \A p \in Run : e \notin batch[p]
               PROVE  /\ status'[e] = "FAILED" /\ rows'[e] = rows[e]
                      /\ \A p \in Run : e \notin batch'[p]
    OBVIOUS
  <2> USE DEF TypeOK
  <2>1. ASSUME NEW f \in Event, NEW pl \in Payload, Publish(f, pl)
        PROVE  status'[e] = "FAILED" /\ rows' = rows /\ batch' = batch
    BY <2>1 DEF Publish
  <2>2. ASSUME NEW p \in Run, NEW n \in Nat,
               batch' = [batch EXCEPT ![p] = OldestPending(n)]
        PROVE  \A q \in Run : e \notin batch'[q]
    BY <2>2 DEF OldestPending, Pending
  <2>3. ASSUME NEW p \in Tick, BeginTick(p)
        PROVE  status' = status /\ rows' = rows /\ \A q \in Run : e \notin batch'[q]
    <3>1. p \in Run /\ BatchLimit \in Nat
      BY CountAssumption DEF Run
    <3>. QED BY <2>2, <2>3, <3>1 DEF BeginTick
  <2>4. ASSUME NEW p \in ManualRun, NEW limit \in Event, BeginManual(p, limit)
        PROVE  status' = status /\ rows' = rows /\ \A q \in Run : e \notin batch'[q]
    <3>1. p \in Run /\ limit \in Nat
      BY DEF Run, Event
    <3>. QED BY <2>2, <2>4, <3>1 DEF BeginManual
  <2>5. ASSUME NEW p \in Run, NEW f \in Event, InHand(p, f) PROVE f # e
    BY <2>5 DEF InHand
  <2>6. ASSUME NEW p \in Run, NEW f \in Event, Resolve(p, f) \/ Insert(p, f)
        PROVE  status' = status /\ rows'[e] = rows[e] /\ batch' = batch
    BY <2>5, <2>6 DEF Resolve, Insert, Notified
  <2>7. ASSUME NEW p \in Run, NEW f \in Event, MarkProcessed(p, f) \/ MarkFailed(p, f)
        PROVE  status'[e] = status[e] /\ rows' = rows /\ \A q \in Run : e \notin batch'[q]
    <3>1. f # e /\ batch' = [batch EXCEPT ![p] = @ \ {f}]
      BY <2>5, <2>7 DEF MarkProcessed, MarkFailed, Advance
    <3>2. status'[e] = status[e] /\ rows' = rows
      BY <2>7, <3>1 DEF MarkProcessed, MarkFailed
    <3>. QED BY <3>1, <3>2
  <2>8. ASSUME NEW p \in Run, NEW f \in Event, DbErrorCaught(p, f)
        PROVE  status'[e] = status[e] /\ rows'[e] = rows[e] /\ batch' = batch
    BY <2>5, <2>8 DEF DbErrorCaught, Notified
  <2>9. ASSUME NEW p \in Run, NEW f \in Event, DbErrorUncaught(p, f)
        PROVE  status'[e] = status[e] /\ rows' = rows /\ \A q \in Run : e \notin batch'[q]
    <3>1. \A q \in Run : batch'[q] \in {batch[q], {}}
      BY <2>9 DEF DbErrorUncaught, LoseMemory
    <3>2. f # e /\ rows' = rows
      BY <2>5, <2>9 DEF DbErrorUncaught
    <3>3. status'[e] = status[e]
      BY <2>9, <3>2 DEF DbErrorUncaught
    <3>. QED BY <3>1, <3>2, <3>3
  <2>10. CASE Crash
    BY <2>10 DEF Crash, LoseMemory
  <2>11. CASE UNCHANGED <<status, rows, batch>>
    BY <2>11
  <2>. QED
    BY <2>1, <2>3, <2>4, <2>6, <2>7, <2>8, <2>9, <2>10, <2>11
    DEF Next, Proceed, ChangeStaff, Restart, vars
<1>. QED BY <1>1, TypeCorrect, PTL DEF Spec, FailedIsFinal

-----------------------------------------------------------------------------
\* The call has notified for event e, or given up, and has not settled it yet.
Spent(p, e) == InHand(p, e) /\ step[p] \in {"mark", "fail"}

\* The manual calls that may notify for e before the next fault: of a settled
\* event, those that have it in memory.
ManualLeft(e) ==
  {p \in ManualRun : ~Spent(p, e) /\ (status[e] \in Settled => e \in batch[p])}

\* Of all ticks together one may.
TickMay(e) ==
  /\ \A p \in Tick : ~Spent(p, e)
  /\ status[e] \in Settled => \E p \in Tick : e \in batch[p]

Left(e) == Cardinality(ManualLeft(e)) + IF TickMay(e) THEN 1 ELSE 0

\* The flag admits one tick; a call that ended has forgotten its batch.
OneTick ==
  /\ \A p \in Tick : step[p] # "idle" => running
  /\ \A p, q \in Tick : step[p] # "idle" /\ step[q] # "idle" => p = q
  /\ \A p \in Run : batch[p] # {} => step[p] # "idle"

\* The notifications made and those still possible without another fault.
Budget ==
  \A e \in Event, u \in User :
    rows[e][u] + Left(e) <= (1 + Cardinality(ManualRun)) * (1 + faults)

(* At most one tick is under way, whatever fails.                           *)
THEOREM OneTickStep == TypeOK /\ TypeOK' /\ OneTick /\ [Next]_vars => OneTick'
<1> SUFFICES ASSUME TypeOK, TypeOK', OneTick, [Next]_vars PROVE OneTick'
  OBVIOUS
<1> USE DEF TypeOK, OneTick
<1>1. ASSUME NEW p \in Tick, BeginTick(p) PROVE OneTick'
  <2>1. /\ ~running /\ running' /\ p \in Run
        /\ \A q \in Run : q # p => step'[q] = step[q] /\ batch'[q] = batch[q]
        /\ step'[p] = "resolve"
    BY <1>1 DEF BeginTick, Run
  <2>. QED BY <2>1 DEF Run
<1>2. ASSUME NEW p \in ManualRun, NEW limit \in Event, BeginManual(p, limit) PROVE OneTick'
  <2>1. /\ running' = running /\ p \in Run /\ p \notin Tick
        /\ \A q \in Run : q # p => step'[q] = step[q] /\ batch'[q] = batch[q]
        /\ step'[p] = "resolve"
    BY <1>2, RunAssumption DEF BeginManual, Run
  <2>. QED BY <2>1 DEF Run
<1>3. ASSUME NEW p \in Run, NEW e \in Event, step[p] # "idle", running' = running,
             batch' = batch, NEW s, s # "idle", step' = [step EXCEPT ![p] = s]
      PROVE  OneTick'
  BY <1>3 DEF Run
<1>4. ASSUME NEW p \in Run, NEW e \in Event,
             Resolve(p, e) \/ Insert(p, e) \/ DbErrorCaught(p, e)
      PROVE OneTick'
  <2>1. /\ step[p] # "idle" /\ running' = running /\ batch' = batch
        /\ \/ step' = [step EXCEPT ![p] = "insert"]
           \/ step' = [step EXCEPT ![p] = "mark"]
           \/ step' = [step EXCEPT ![p] = "fail"]
    BY <1>4 DEF Resolve, Insert, DbErrorCaught
  <2>. QED BY <1>3, <2>1
<1>5. ASSUME NEW p \in Run, NEW e \in Event, step[p] # "idle", Advance(p, e) PROVE OneTick'
  <2>1. CASE batch[p] = {e}
    <3>1. /\ step' = [step EXCEPT ![p] = "idle"] /\ batch' = [batch EXCEPT ![p] = @ \ {e}]
          /\ running' = IF p \in Tick THEN FALSE ELSE running
      BY <1>5, <2>1 DEF Advance
    <3>2. batch'[p] = {} /\ step'[p] = "idle"
      BY <2>1, <3>1
    <3>3. \A q \in Run : q # p => step'[q] = step[q] /\ batch'[q] = batch[q]
      BY <3>1
    <3>. QED BY <1>5, <3>1, <3>2, <3>3 DEF Run
  <2>2. CASE batch[p] # {e}
    <3>1. /\ step' = [step EXCEPT ![p] = "resolve"] /\ running' = running
          /\ batch' = [batch EXCEPT ![p] = @ \ {e}]
      BY <1>5, <2>2 DEF Advance
    <3>2. \A q \in Run : (step'[q] # "idle") <=> (step[q] # "idle")
      BY <1>5, <3>1
    <3>3. \A q \in Run : batch'[q] \subseteq batch[q]
      BY <3>1
    <3>. QED BY <3>1, <3>2, <3>3 DEF Run
  <2>. QED BY <2>1, <2>2
<1>6. ASSUME NEW p \in Run, NEW e \in Event, MarkProcessed(p, e) \/ MarkFailed(p, e)
      PROVE  OneTick'
  BY <1>5, <1>6 DEF MarkProcessed, MarkFailed
<1>7. CASE LoseMemory
  BY <1>7 DEF LoseMemory, Run
<1>8. ASSUME NEW p \in Run, NEW e \in Event, DbErrorUncaught(p, e) PROVE OneTick'
  <2>1. CASE p \in Tick
    BY <1>7, <1>8, <2>1 DEF DbErrorUncaught
  <2>2. CASE p \notin Tick
    <3>1. /\ running' = running
          /\ step' = [step EXCEPT ![p] = "idle"] /\ batch' = [batch EXCEPT ![p] = {}]
      BY <1>8, <2>2 DEF DbErrorUncaught
    <3>2. \A q \in Run : q # p => step'[q] = step[q] /\ batch'[q] = batch[q]
      BY <3>1
    <3>3. batch'[p] = {}
      BY <3>1
    <3>. QED BY <2>2, <3>1, <3>2, <3>3 DEF Run
  <2>. QED BY <2>1, <2>2
<1>9. CASE Crash
  BY <1>7, <1>9 DEF Crash
<1>10. CASE UNCHANGED <<running, step, batch>>
  BY <1>10
<1>. QED
  BY <1>1, <1>2, <1>4, <1>6, <1>8, <1>9, <1>10
  DEF Next, Proceed, Publish, ChangeStaff, Restart, vars

-----------------------------------------------------------------------------
\* What is left counts one for every loop at most.
LEMMA LeftBounded ==
  ASSUME NEW e \in Event
  PROVE  /\ IsFiniteSet(ManualLeft(e)) /\ Cardinality(ManualLeft(e)) \in Nat
         /\ Cardinality(ManualRun) \in Nat
         /\ Left(e) \in Nat /\ Left(e) <= 1 + Cardinality(ManualRun)
<1>1. ManualLeft(e) \subseteq ManualRun /\ IsFiniteSet(ManualRun)
  BY RunAssumption DEF ManualLeft
<1>2. /\ IsFiniteSet(ManualLeft(e))
      /\ Cardinality(ManualLeft(e)) <= Cardinality(ManualRun)
  BY <1>1, FS_Subset
<1>3. Cardinality(ManualLeft(e)) \in Nat /\ Cardinality(ManualRun) \in Nat
  BY <1>1, <1>2, FS_CardinalityType
<1>. QED BY <1>2, <1>3 DEF Left

\* Fewer calls that may notify.
LEMMA LeftShrinks ==
  ASSUME NEW e \in Event, ManualLeft(e)' \subseteq ManualLeft(e), TickMay(e)' => TickMay(e)
  PROVE  Left(e)' <= Left(e) /\ Left(e)' \in Nat /\ Left(e) \in Nat
<1>1. IsFiniteSet(ManualLeft(e)) /\ Cardinality(ManualLeft(e)) \in Nat
  BY LeftBounded
<1>2. /\ IsFiniteSet(ManualLeft(e)')
      /\ Cardinality(ManualLeft(e)') <= Cardinality(ManualLeft(e))
  BY <1>1, FS_Subset
<1>3. Cardinality(ManualLeft(e)') \in Nat
  BY <1>2, FS_CardinalityType
<1>. QED BY <1>1, <1>2, <1>3 DEF Left

\* What a step without a fault does to a call and an event: settled events
\* are not taken up, and a call that has spent its notification goes no
\* further with that event than to settle it.
Forward(p, e) ==
  /\ status'[e] \in Settled /\ e \in batch'[p] => e \in batch[p]
  /\ Spent(p, e) => Spent(p, e)' \/ (status'[e] \in Settled /\ e \notin batch'[p])

\* No statement of a loop, failed or not, takes an outcome back.
LEMMA SettledStays ==
  ASSUME TypeOK, [Next]_vars, NEW e \in Event, status[e] \in Settled
  PROVE  status'[e] \in Settled
BY DEF TypeOK, Settled, Next, Proceed, Publish, ChangeStaff, BeginTick, BeginManual, Resolve,
   Insert, MarkProcessed, MarkFailed, DbErrorCaught, DbErrorUncaught, Crash, Restart, vars

LEMMA ForwardShrinks ==
  ASSUME TypeOK, OneTick, OneTick', [Next]_vars, NEW e \in Event,
         \A p \in Run : Forward(p, e)
  PROVE  Left(e)' <= Left(e) /\ Left(e)' \in Nat /\ Left(e) \in Nat
<1>1. ManualLeft(e)' \subseteq ManualLeft(e)
  <2> SUFFICES ASSUME NEW p \in ManualLeft(e)' PROVE p \in ManualLeft(e)
    OBVIOUS
  <2>1. /\ p \in ManualRun /\ p \in Run
        /\ ~Spent(p, e)' /\ (status'[e] \in Settled => e \in batch'[p])
    BY DEF ManualLeft, Run
  <2>. QED BY <2>1, SettledStays DEF ManualLeft, Forward
<1>2. TickMay(e)' => TickMay(e)
  <2> SUFFICES ASSUME TickMay(e)' PROVE TickMay(e)
    OBVIOUS
  <2>1. /\ \A p \in Tick : ~Spent(p, e)' /\ p \in Run
        /\ status'[e] \in Settled => \E p \in Tick : e \in batch'[p]
    BY DEF TickMay, Run
  <2>2. status[e] \in Settled => \E p \in Tick : e \in batch[p]
    BY <2>1, SettledStays DEF Forward
  <2>3. ASSUME NEW p \in Tick, Spent(p, e) PROVE FALSE
    <3>1. status'[e] \in Settled /\ e \notin batch'[p] /\ e \in batch[p] /\ step[p] # "idle"
      BY <2>1, <2>3 DEF Forward, Spent, InHand
    <3>2. PICK q \in Tick : e \in batch'[q]
      BY <2>1, <3>1
    <3>3. q # p /\ q \in Run
      BY <2>1, <3>1, <3>2
    <3>4. e \in batch[q]
      BY <3>1, <3>2, <3>3 DEF Forward
    <3>5. step[q] # "idle"
      BY <3>3, <3>4 DEF OneTick
    <3>. QED BY <3>1, <3>3, <3>5 DEF OneTick
  <2>. QED BY <2>2, <2>3 DEF TickMay
<1>. QED BY <1>1, <1>2, LeftShrinks

LEMMA StepForward ==
  ASSUME TypeOK, TypeOK', Order, OneTick, [Next]_vars, faults' = faults,
         NEW p \in Run, NEW e \in Event
  PROVE  Forward(p, e)
<1> USE DEF TypeOK, Forward
<1>1. ASSUME NEW f \in Event, NEW pl \in Payload, Publish(f, pl) PROVE Forward(p, e)
  <2>1. batch' = batch /\ step' = step
    BY <1>1 DEF Publish
  <2>. QED BY <2>1 DEF Spent, InHand
<1>2. CASE UNCHANGED <<status, step, batch>>
  BY <1>2 DEF Spent, InHand
<1>3. ASSUME NEW q \in Run, NEW n \in Nat, step[q] = "idle", status' = status,
             step' = [step EXCEPT ![q] = "resolve"],
             batch' = [batch EXCEPT ![q] = OldestPending(n)]
      PROVE  Forward(p, e)
  <2>1. CASE p = q
    <3>1. ~Spent(p, e)
      BY <1>3, <2>1 DEF Spent
    <3>2. e \in batch'[p] => status[e] = "PENDING"
      BY <1>3, <2>1 DEF OldestPending, Pending
    <3>. QED BY <1>3, <3>1, <3>2 DEF Settled
  <2>2. CASE p # q
    <3>1. step'[p] = step[p] /\ batch'[p] = batch[p]
      BY <1>3, <2>2
    <3>. QED BY <1>3, <3>1 DEF Spent, InHand
  <2>. QED BY <2>1, <2>2
<1>4. ASSUME NEW q \in Tick, BeginTick(q) PROVE Forward(p, e)
  <2>1. q \in Run /\ BatchLimit \in Nat
    BY CountAssumption DEF Run
  <2>. QED BY <1>3, <1>4, <2>1 DEF BeginTick
<1>5. ASSUME NEW q \in ManualRun, NEW limit \in Event, BeginManual(q, limit)
      PROVE  Forward(p, e)
  <2>1. q \in Run /\ limit \in Nat
    BY DEF Run, Event
  <2>. QED BY <1>3, <1>5, <2>1 DEF BeginManual
<1>6. ASSUME NEW q \in Run, NEW f \in Event, Resolve(q, f) \/ Insert(q, f)
      PROVE  Forward(p, e)
  <2>1. status' = status /\ batch' = batch /\ step[q] \in {"resolve", "insert"}
    BY <1>6 DEF Resolve, Insert
  <2>2. \A r \in Run : r # q => step'[r] = step[r]
    BY <1>6 DEF Resolve, Insert
  <2>. QED BY <2>1, <2>2 DEF Spent, InHand
<1>7. ASSUME NEW q \in Run, NEW f \in Event, MarkProcessed(q, f) \/ MarkFailed(q, f)
      PROVE  Forward(p, e)
  <2>1. /\ InHand(q, f) /\ Advance(q, f)
        /\ \E outcome \in Settled : status' = [status EXCEPT ![f] = outcome]
    BY <1>7 DEF MarkProcessed, MarkFailed, Settled
  <2>2. batch' = [batch EXCEPT ![q] = @ \ {f}] /\ \A r \in Run : r # q => step'[r] = step[r]
    BY <2>1 DEF Advance
  <2>3. e \in batch'[p] => e \in batch[p]
    BY <2>2
  <2>4. ASSUME Spent(p, e)
        PROVE  Spent(p, e)' \/ (status'[e] \in Settled /\ e \notin batch'[p])
    <3>1. CASE p = q
      <4>1. e = f
        BY <2>1, <2>4, <3>1, OneInHand DEF Spent
      <4>. QED BY <2>1, <2>2, <3>1, <4>1
    <3>2. CASE p # q
      BY <2>2, <2>4, <3>2 DEF Spent, InHand
    <3>. QED BY <3>1, <3>2
  <2>. QED BY <2>3, <2>4
<1>8. ASSUME Fault PROVE FALSE
  BY <1>8 DEF Fault
<1>. QED
  BY <1>1, <1>2, <1>4, <1>5, <1>6, <1>7, <1>8
  DEF Next, Proceed, ChangeStaff, Restart, DbErrorCaught, DbErrorUncaught, Crash, vars

\* A call that notifies counts among those that may.
LEMMA InserterIsLeft ==
  ASSUME TypeOK, OneTick, NEW p \in Run, NEW e \in Event, InHand(p, e), step[p] = "insert"
  PROVE  /\ p \in ManualRun => p \in ManualLeft(e)
         /\ p \in Tick => TickMay(e)
         /\ Left(e) >= 1
<1>1. p \in ManualRun => p \in ManualLeft(e)
  BY DEF ManualLeft, Spent, InHand
<1>2. p \in Tick => TickMay(e)
  <2>1. \A q \in Run : Spent(q, e) => step[q] # "idle" /\ q # p
    BY DEF Spent
  <2>. QED BY <2>1 DEF TickMay, OneTick, InHand, Run
<1>3. Left(e) >= 1
  <2>1. IsFiniteSet(ManualLeft(e)) /\ Cardinality(ManualLeft(e)) \in Nat
    BY LeftBounded
  <2>2. CASE p \in Tick
    BY <1>2, <2>1, <2>2 DEF Left
  <2>3. CASE p \in ManualRun
    <3>1. ManualLeft(e) # {}
      BY <1>1, <2>3
    <3>2. Cardinality(ManualLeft(e)) # 0
      BY <2>1, <3>1, FS_EmptySet
    <3>. QED BY <2>1, <3>2 DEF Left
  <2>. QED BY <2>2, <2>3 DEF Run
<1>. QED BY <1>1, <1>2, <1>3

\* It is not among them any more when it has notified.
LEMMA InsertSpends ==
  ASSUME TypeOK, TypeOK', OneTick, NEW p \in Run, NEW e \in Event, Insert(p, e)
  PROVE  Left(e)' + 1 <= Left(e) /\ Left(e)' \in Nat
<1> USE DEF TypeOK
<1>1. /\ InHand(p, e) /\ step[p] = "insert" /\ Spent(p, e)' /\ ~Spent(p, e)
      /\ status' = status /\ batch' = batch
      /\ \A q \in Run : q # p => Spent(q, e)' = Spent(q, e)
  BY DEF Insert, Spent, InHand
<1>2. IsFiniteSet(ManualLeft(e)) /\ Cardinality(ManualLeft(e)) \in Nat
  BY LeftBounded
<1>3. CASE p \in ManualRun
  <2>1. ManualLeft(e)' = ManualLeft(e) \ {p} /\ p \in ManualLeft(e)
    BY <1>1, <1>3, InserterIsLeft DEF ManualLeft, Run
  <2>2. Cardinality(ManualLeft(e)') = Cardinality(ManualLeft(e)) - 1
    BY <1>2, <2>1, FS_RemoveElement
  <2>3. TickMay(e)' = TickMay(e)
    BY <1>1, <1>3, RunAssumption DEF TickMay, Run
  <2>4. Cardinality(ManualLeft(e)') \in Nat
    BY <1>2, <2>1, FS_RemoveElement, FS_CardinalityType
  <2>. QED BY <1>2, <2>2, <2>3, <2>4 DEF Left
<1>4. CASE p \in Tick
  <2>1. ManualLeft(e)' = ManualLeft(e)
    BY <1>1, <1>4, RunAssumption DEF ManualLeft, Run
  <2>2. TickMay(e)
    BY <1>1, <1>4, InserterIsLeft
  <2>3. ~TickMay(e)'
    BY <1>1, <1>4 DEF TickMay
  <2>. QED BY <1>2, <2>1, <2>2, <2>3 DEF Left
<1>. QED BY <1>3, <1>4 DEF Run

\* A fault opens the way for all loops once more.
LEMMA FaultBudget ==
  ASSUME TypeOK, TypeOK', OneTick, Budget, [Next]_vars, faults' = faults + 1,
         NEW e \in Event, NEW u \in User
  PROVE  rows'[e][u] + Left(e)' <= (1 + Cardinality(ManualRun)) * (1 + faults')
<1> DEFINE n == Cardinality(ManualRun)
           before == (1 + n) * (1 + faults)
<1>1. /\ n \in Nat /\ Left(e) \in Nat /\ faults \in Nat
      /\ rows[e][u] \in Nat /\ rows'[e][u] \in Nat
  BY LeftBounded DEF TypeOK
<1>2. Left(e)' \in Nat /\ Left(e)' <= 1 + n
  <2>1. ManualLeft(e)' \subseteq ManualRun /\ IsFiniteSet(ManualRun)
    BY RunAssumption DEF ManualLeft
  <2>2. IsFiniteSet(ManualLeft(e)') /\ Cardinality(ManualLeft(e)') <= n
    BY <2>1, FS_Subset
  <2>3. Cardinality(ManualLeft(e)') \in Nat
    BY <2>2, FS_CardinalityType
  <2>. QED BY <1>1, <2>2, <2>3 DEF Left
<1>3. rows[e][u] + Left(e) <= before /\ before \in Nat
  BY <1>1 DEF Budget
<1>4. rows'[e][u] <= before
  <2>1. CASE rows'[e][u] = rows[e][u]
    BY <1>1, <1>3, <2>1
  <2>2. ASSUME NEW p \in Run, NEW f \in Event, DbErrorCaught(p, f), rows' # rows,
               rows'[e][u] # rows[e][u]
        PROVE  rows'[e][u] <= before
    <3>1. step[p] = "insert" /\ InHand(p, f) /\ rows' = Notified(f, to[p])
      BY <2>2 DEF DbErrorCaught
    <3>2. f = e /\ rows'[e][u] = rows[e][u] + 1
      BY <2>2, <3>1 DEF Notified, TypeOK
    <3>3. Left(e) >= 1
      BY <3>1, <3>2, InserterIsLeft
    <3>. QED BY <1>1, <1>3, <3>2, <3>3
  <2>3. rows' # rows => \E p \in Run, f \in Event : DbErrorCaught(p, f)
    <3>1. faults' # faults
      BY <1>1
    <3>. QED
      BY <3>1 DEF Next, Proceed, Publish, ChangeStaff, BeginTick, BeginManual, Resolve, Insert,
         MarkProcessed, MarkFailed, DbErrorUncaught, Crash, Restart, vars
  <2>. HIDE DEF before
  <2>4. CASE rows'[e][u] # rows[e][u]
    <3>1. rows' # rows
      BY <2>4
    <3>2. PICK p \in Run, f \in Event : DbErrorCaught(p, f)
      BY <2>3, <3>1
    <3>. QED BY <2>2, <2>4, <3>1, <3>2
  <2>. QED BY <2>1, <2>4
<1>5. (1 + n) * (1 + (faults + 1)) = before + (1 + n)
  BY <1>1
<1>. HIDE DEF before
<1>. QED BY <1>1, <1>2, <1>3, <1>4, <1>5

(* No loop notifies twice for one event unless a fault comes in between, so *)
(* that what was sent and what may still be sent stay within the budget.    *)
THEOREM BudgetStep ==
  TypeOK /\ TypeOK' /\ Order /\ OneTick /\ OneTick' /\ Budget /\ [Next]_vars => Budget'
<1> SUFFICES ASSUME TypeOK, TypeOK', Order, OneTick, OneTick', Budget, [Next]_vars,
                    NEW e \in Event, NEW u \in User
             PROVE  rows'[e][u] + Left(e)' <= (1 + Cardinality(ManualRun)) * (1 + faults')
  BY DEF Budget
<1>1. CASE faults' = faults + 1
  BY <1>1, FaultBudget
<1>2. CASE faults' = faults
  <2> DEFINE limit == (1 + Cardinality(ManualRun)) * (1 + faults)
  <2>1. /\ Left(e) \in Nat /\ rows[e][u] \in Nat /\ rows'[e][u] \in Nat /\ limit \in Nat
        /\ rows[e][u] + Left(e) <= limit
    BY LeftBounded DEF TypeOK, Budget
  <2>2. ASSUME NEW p \in Run, Insert(p, e) PROVE rows'[e][u] + Left(e)' <= limit
    <3>1. rows'[e][u] \in {rows[e][u], rows[e][u] + 1}
      BY <2>2 DEF Insert, Notified, TypeOK
    <3>2. Left(e)' + 1 <= Left(e) /\ Left(e)' \in Nat
      BY <2>2, InsertSpends
    <3>. HIDE DEF limit
    <3>. QED BY <2>1, <3>1, <3>2
  <2>3. ASSUME rows'[e] = rows[e] PROVE rows'[e][u] + Left(e)' <= limit
    <3>1. Left(e)' <= Left(e) /\ Left(e)' \in Nat
      BY <1>2, StepForward, ForwardShrinks
    <3>. HIDE DEF limit
    <3>. QED BY <2>1, <2>3, <3>1
  <2>4. rows'[e] = rows[e] \/ \E p \in Run : Insert(p, e)
    <3>1. ASSUME NEW p \in Run, NEW f \in Event, Insert(p, f), f # e PROVE rows'[e] = rows[e]
      BY <3>1 DEF Insert, Notified, TypeOK
    <3>2. ~Fault
      BY <1>2 DEF Fault, TypeOK
    <3>. QED
      BY <3>1, <3>2 DEF Next, Proceed, Publish, ChangeStaff, BeginTick, BeginManual, Resolve,
         MarkProcessed, MarkFailed, DbErrorCaught, DbErrorUncaught, Crash, Restart, vars
  <2>. QED BY <1>2, <2>2, <2>3, <2>4
<1>3. faults' \in {faults, faults + 1}
  BY DEF Next, Proceed, Publish, ChangeStaff, BeginTick, BeginManual, Resolve, Insert,
     MarkProcessed, MarkFailed, DbErrorCaught, DbErrorUncaught, Fault, Crash, Restart, vars
<1>. QED BY <1>1, <1>2, <1>3

(* A user never gets a notification more often than there are loops that    *)
(* may overlap, times the lives that faults cut the work into, for any      *)
(* number of them: BoundedDuplicates of the run outbox.                     *)
THEOREM DuplicatesBounded == Spec => []BoundedDuplicates
<1>1. Init => Order /\ OneTick /\ Budget
  <2> SUFFICES ASSUME Init PROVE Order /\ OneTick /\ Budget
    OBVIOUS
  <2>1. Order
    BY DEF Init, Order, PublishedInOrder, BatchIsOldest, OldestFirst, Settled
  <2>2. OneTick
    BY DEF Init, OneTick, Run
  <2>3. Budget
    <3> SUFFICES ASSUME NEW e \in Event, NEW u \in User
                 PROVE  rows[e][u] + Left(e) <= (1 + Cardinality(ManualRun)) * (1 + faults)
      BY DEF Budget
    <3>1. rows[e][u] = 0 /\ faults = 0
      BY DEF Init
    <3>2. Left(e) \in Nat /\ Left(e) <= 1 + Cardinality(ManualRun) /\ Cardinality(ManualRun) \in Nat
      BY LeftBounded
    <3>. QED BY <3>1, <3>2
  <2>. QED BY <2>1, <2>2, <2>3
<1>2. TypeOK /\ Budget => BoundedDuplicates
  <2> SUFFICES ASSUME TypeOK, Budget, NEW e \in Event, NEW u \in User
               PROVE  rows[e][u] <= (1 + Cardinality(ManualRun)) * (1 + faults)
    BY DEF BoundedDuplicates
  <2> DEFINE limit == (1 + Cardinality(ManualRun)) * (1 + faults)
  <2>1. Left(e) \in Nat /\ rows[e][u] \in Nat /\ limit \in Nat /\ rows[e][u] + Left(e) <= limit
    BY LeftBounded DEF TypeOK, Budget
  <2>. HIDE DEF limit
  <2>2. rows[e][u] <= limit
    BY <2>1
  <2>. QED BY <2>2 DEF limit
<1>. QED BY <1>1, <1>2, TypeCorrect, OrderStep, OneTickStep, BudgetStep, PTL DEF Spec

-----------------------------------------------------------------------------
(* The refinement of Delivery: what the queue is told of each event, and    *)
(* whom its notification has reached.                                       *)
Addressed == [e \in Event |-> payload[e].users]
Reached == [e \in Event |-> {u \in User : rows[e][u] > 0}]

\* Nothing the queue knows of changes.
LEMMA Stutters ==
  ASSUME UNCHANGED <<status, payload, rows>>
  PROVE  UNCHANGED Promise!vars
BY DEF Promise!vars

\* A step of the queue, for the values of the mapping.
LEMMA PublishMaps ==
  ASSUME TypeOK, NEW e \in Event, NEW pl \in Payload, Publish(e, pl)
  PROVE  Promise!Next
<1>1. pl.users \in SUBSET User
  BY PayloadAssumption
<1>2. Addressed' = [Addressed EXCEPT ![e] = pl.users]
  BY DEF TypeOK, Publish, Addressed
<1>3. Promise!Request(e, pl.users)
  BY <1>2 DEF Publish, Promise!Request, Addressed
<1>. QED BY <1>1, <1>3 DEF Promise!Next, Promise!Event, Event

LEMMA NotifyMaps ==
  ASSUME TypeOK, Order, Reach, NEW p \in Run, NEW e \in Event, InHand(p, e),
         step[p] = "insert", rows' = Notified(e, to[p]), UNCHANGED <<status, payload>>
  PROVE  Promise!Next
<1>1. PICK us \in SUBSET User : us = to[p]
  BY DEF TypeOK
<1>2. payload[e].users \subseteq us /\ status[e] # "NONE"
  BY <1>1 DEF Reach, CallReaches, Order, BatchIsOldest, InHand
<1>3. ASSUME NEW u \in User
      PROVE  rows'[e][u] > 0 <=> (rows[e][u] > 0 \/ u \in us)
  <2>1. rows[e][u] \in Nat /\ rows'[e][u] = IF u \in us THEN rows[e][u] + 1 ELSE rows[e][u]
    BY <1>1 DEF TypeOK, Notified
  <2>. QED BY <2>1
<1>4. \A f \in Event : f # e => rows'[f] = rows[f]
  BY DEF TypeOK, Notified
<1>5. Reached' = [Reached EXCEPT ![e] = @ \cup us]
  BY <1>3, <1>4 DEF Reached
<1>6. Promise!Reach(e, us)
  BY <1>2, <1>5 DEF Promise!Reach, Reached
<1>. QED BY <1>6 DEF Promise!Next, Promise!Event, Event

LEMMA SettleMaps ==
  ASSUME TypeOK, Order, Reach, NEW p \in Run, NEW e \in Event, InHand(p, e),
         NEW outcome \in Settled, outcome = "PROCESSED" => step[p] = "mark",
         status' = [status EXCEPT ![e] = outcome], UNCHANGED <<payload, rows>>
  PROVE  Promise!Next
<1>1. status[e] # "NONE" /\ \A f \in Event : f < e => status[f] \in Settled
  BY DEF InHand, Order, BatchIsOldest, Event
<1>2. outcome = "PROCESSED" => payload[e].users \subseteq {u \in User : rows[e][u] > 0}
  <2>1. payload[e].users \subseteq User
    BY PayloadAssumption DEF TypeOK, NoPayload
  <2>. QED BY <2>1 DEF Reach, CallReaches
<1>3. Promise!Settle(e, outcome)
  BY <1>1, <1>2 DEF Promise!Settle, Promise!Event, Promise!Settled, Event, Settled
<1>. QED BY <1>3 DEF Promise!Next, Promise!Event, Promise!Settled, Event, Settled

(* Every step of the loops, of a publisher and of a fault is a step of the  *)
(* queue or none.                                                           *)
THEOREM DeliveryStep ==
  TypeOK /\ Order /\ Reach /\ [Next]_vars => [Promise!Next]_(Promise!vars)
<1> SUFFICES ASSUME TypeOK, Order, Reach, [Next]_vars
             PROVE  Promise!Next \/ UNCHANGED Promise!vars
  OBVIOUS
<1>1. ASSUME NEW e \in Event, NEW pl \in Payload, Publish(e, pl) PROVE Promise!Next
  BY <1>1, PublishMaps
<1>2. ASSUME NEW p \in Run, NEW e \in Event, Insert(p, e) PROVE Promise!Next
  BY <1>2, NotifyMaps DEF Insert
<1>3. ASSUME NEW p \in Run, NEW e \in Event, MarkProcessed(p, e) \/ MarkFailed(p, e)
      PROVE  Promise!Next
  <2>1. InHand(p, e) /\ UNCHANGED <<payload, rows>>
    BY <1>3 DEF MarkProcessed, MarkFailed
  <2>2. \E outcome \in Settled : /\ outcome = "PROCESSED" => step[p] = "mark"
                                 /\ status' = [status EXCEPT ![e] = outcome]
    BY <1>3 DEF MarkProcessed, MarkFailed, Settled
  <2>. QED BY <2>1, <2>2, SettleMaps
<1>4. ASSUME NEW p \in Run, NEW e \in Event, DbErrorCaught(p, e)
      PROVE  Promise!Next \/ UNCHANGED Promise!vars
  <2>1. InHand(p, e) /\ payload' = payload
    BY <1>4 DEF DbErrorCaught
  <2>2. CASE rows' = rows /\ status' = status
    BY <2>1, <2>2, Stutters
  <2>3. CASE step[p] = "insert" /\ rows' = Notified(e, to[p]) /\ status' = status
    BY <2>1, <2>3, NotifyMaps
  <2>4. CASE step[p] = "mark" /\ rows' = rows /\ status' = [status EXCEPT ![e] = "PROCESSED"]
    BY <2>1, <2>4, SettleMaps DEF Settled
  <2>. QED BY <1>4, <2>2, <2>3, <2>4 DEF DbErrorCaught
<1>5. ASSUME NEW p \in Run, NEW e \in Event, DbErrorUncaught(p, e)
      PROVE  Promise!Next \/ UNCHANGED Promise!vars
  <2>1. InHand(p, e) /\ UNCHANGED <<payload, rows>>
    BY <1>5 DEF DbErrorUncaught
  <2>2. CASE status' = status
    BY <2>1, <2>2, Stutters
  <2>3. CASE status' = [status EXCEPT ![e] = "FAILED"]
    BY <2>1, <2>3, SettleMaps DEF Settled
  <2>. QED BY <1>5, <2>2, <2>3 DEF DbErrorUncaught
<1>6. CASE UNCHANGED <<status, payload, rows>>
  BY <1>6, Stutters
<1>. QED
  BY <1>1, <1>2, <1>3, <1>4, <1>5, <1>6
  DEF Next, Proceed, ChangeStaff, BeginTick, BeginManual, Resolve, Crash, Restart, vars

(* The outbox implements the queue, for any number of events, users, loops  *)
(* and faults: ImplementsDelivery of the run outbox.                        *)
THEOREM DeliveryImplemented == Spec => ImplementsDelivery
<1>1. Init => Order /\ Reach
  BY DEF Init, Order, PublishedInOrder, BatchIsOldest, OldestFirst, Settled,
     Reach, CallReaches, InHand, ProcessedReachedEveryone
<1>2. Init => Promise!Init
  <2> SUFFICES ASSUME Init PROVE Promise!Init
    OBVIOUS
  <2>1. [e \in Event |-> payload[e].users] = [e \in Event |-> {}]
    BY DEF Init, NoPayload
  <2>2. [e \in Event |-> {u \in User : rows[e][u] > 0}] = [e \in Event |-> {}]
    BY DEF Init
  <2>. QED BY <2>1, <2>2 DEF Init, Promise!Init, Promise!Event, Event
<1>. QED
  BY <1>1, <1>2, TypeCorrect, OrderStep, ReachStep, DeliveryStep, PTL
  DEF Spec, ImplementsDelivery, Promise!Spec

=============================================================================
