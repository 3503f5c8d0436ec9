---------------------------- MODULE MCNodeProofs ----------------------------
(***************************************************************************)
(* The types of a node's parts, and that the parts do not concern each     *)
(* other: the invariants of NodeProofs, CatalogueProofs and PeopleProofs   *)
(* with the bounds of a run, kept by every step of every scene.  And that  *)
(* statements and searches mean what is written in them: Queries is        *)
(* recursive functions of a text, and what they compute for every text is  *)
(* here.                                                                   *)
(***************************************************************************)
EXTENDS MCNode, NodeProofs, PeopleProofs, CatalogueProofs

\* The bounds of a run, which the invariants above have no need of.
TransfersBounded ==
    /\ columns \in {"integer", "text"}
    /\ journal \subseteq Transfers \X Steps \X {"completed", "failed", "compensated", "compensation_failed"}
    /\ sold \in [Items -> 0..MaxSold] /\ faults \in 0..MaxFaults

LEMMA TransfersStayBounded ==
  ASSUME TransfersInv, TransfersBounded, [TransfersNext]_transfers
  PROVE  TransfersBounded'
<1> USE DEF TransfersBounded
<1>1. /\ \A t \in Transfers : saga[t] \in SagaType /\ Placed(saga[t])
      /\ {MaxSold, MaxFaults} \subseteq Nat
  BY TransferAssumption DEF TransfersInv, TransfersShape
<1>2. ASSUME NEW t \in Transfers, Fault(t) \/ Sound PROVE faults' \in 0..MaxFaults
  BY <1>1, <1>2 DEF Fault, Sound
<1>3. ASSUME NEW t \in Transfers, NEW n \in Steps,
             NEW status \in {"completed", "failed", "compensated", "compensation_failed"}, persist_step(t, n, status)
      PROVE  /\ journal' \subseteq Transfers \X Steps \X {"completed", "failed", "compensated", "compensation_failed"}
             /\ faults' \in 0..MaxFaults
  BY <1>2, <1>3 DEF persist_step
<1>4. ASSUME NEW t \in Transfers,
             execute(t) \/ StepDone(t) \/ Undo(t) \/ Completes(t) \/ Fails(t)
      PROVE  TransfersBounded'
  BY <1>2, <1>4 DEF execute, StepDone, Undo, Completes, Fails, update_saga_state, others
<1>5. ASSUME NEW t \in Transfers, RecordDone(t) \/ StepFails(t) \/ NoteUndone(t)
      PROVE  TransfersBounded'
  <2>1. saga[t].step \in Steps
    BY <1>1, <1>5 DEF RecordDone, StepFails, NoteUndone, At, Placed, Steps
  <2>2. \E status \in {"completed", "failed", "compensated", "compensation_failed"} :
            persist_step(t, saga[t].step, status)
    BY <1>5 DEF RecordDone, StepFails, NoteUndone
  <2>3. columns' = columns /\ sold' = sold
    BY <1>5 DEF RecordDone, StepFails, NoteUndone, others
  <2> QED
    BY <1>3, <2>1, <2>2, <2>3
<1>6. ASSUME NEW t \in Transfers, StepUnsure(t) \/ UndoFails(t)
      PROVE  TransfersBounded'
  <2>1. saga[t].step \in Steps
    <3>1. CASE StepUnsure(t)
      BY <3>1 DEF StepUnsure, Action, Steps
    <3>2. CASE UndoFails(t)
      BY <1>1, <3>2 DEF UndoFails, At, Placed, Steps
    <3> QED
      BY <1>6, <3>1, <3>2
  <2>2. /\ columns' = columns /\ sold' = sold /\ Fault(t)
        /\ \E status \in {"failed", "compensation_failed"} :
              journal' = IF instance[t] = "none" THEN journal ELSE journal \cup {<<t, saga[t].step, status>>}
    BY <1>6 DEF StepUnsure, UndoFails, others
  <2> QED
    BY <1>2, <2>1, <2>2
<1>7. ASSUME Crash PROVE TransfersBounded'
  BY <1>7 DEF Crash, others
<1>8. ASSUME NEW i \in Items, Sell(i) PROVE TransfersBounded'
  <2>1. sold[i] \in 0..MaxSold /\ sold[i] < MaxSold /\ sold' = [sold EXCEPT ![i] = sold[i] + 1]
    BY <1>8 DEF Sell
  <2>2. sold[i] + 1 \in 0..MaxSold
    BY <1>1, <2>1
  <2> QED
    BY <1>8, <2>1, <2>2 DEF Sell
<1>9. CASE UNCHANGED transfers
  BY <1>9 DEF transfers
<1> QED
  BY <1>4, <1>5, <1>6, <1>7, <1>8, <1>9 DEF TransfersNext

OutboxBounded ==
    /\ \A e \in Published : task[e].next <= Len(Handlers) + 1
    /\ calls <= MaxReplays /\ lost <= MaxLost

LEMMA OutboxStaysBounded ==
  ASSUME OutboxInv, OutboxBounded, [OutboxNext]_outbox
  PROVE  OutboxBounded'
<1> USE DEF OutboxBounded
<1>1. /\ Len(Handlers) \in Nat /\ DOMAIN Handlers = 1..Len(Handlers)
      /\ {MaxReplays, MaxLost} \subseteq Nat /\ {calls, lost} \subseteq Nat
      /\ task \in [Published -> TaskType]
      /\ \A e \in Published : task[e].at \in {"handle", "fail"} => task[e].next \in DOMAIN Handlers
  BY HandlersInOrder, OutboxAssumption DEF OutboxInv, OutboxShape
<1>2. ASSUME NEW e \in Published PROVE task[e] \in TaskType
  BY <1>1
<1>3. ASSUME NEW e, NEW change, Writes(e, change) PROVE lost' <= MaxLost
  BY <1>1, <1>3 DEF Writes
<1>4. ASSUME NEW e \in Published, on_legacy_event(e) \/ Mark(e) \/ persist(e)
      PROVE  OutboxBounded'
  <2>1. calls' = calls /\ \A d \in Published : task'[d].next = task[d].next
    BY <1>1, <1>4 DEF on_legacy_event, Mark, persist, TaskType
  <2>2. lost' <= MaxLost
    BY <1>1, <1>3, <1>4 DEF on_legacy_event, Mark, persist, mark_processed
  <2> QED
    BY <2>1, <2>2
<1>5. ASSUME NEW e \in Published, Handle(e) \/ NoteFailure(e)
      PROVE  OutboxBounded'
  <2>1. task[e].next \in 1..Len(Handlers)
    BY <1>1, <1>5 DEF Handle, NoteFailure
  <2>2. calls' = calls /\ lost' <= MaxLost
    BY <1>1, <1>3, <1>5 DEF Handle, NoteFailure, mark_failed
  <2>3. \A d \in Published \ {e} : task'[d] = task[d]
    BY <1>1, <1>5 DEF Handle, NoteFailure
  <2>4. task'[e].next \in {task[e].next, task[e].next + 1}
    BY <1>1, <1>2, <1>5 DEF Handle, NoteFailure, TaskType
  <2> QED
    BY <1>1, <2>1, <2>2, <2>3, <2>4
<1>6. ASSUME replay_unprocessed \/ TakeNext \/ HandleAgain \/ NoteFailureAgain \/ MarkReplayed
      PROVE  OutboxBounded'
  <2>1. task' = task
    BY <1>6 DEF replay_unprocessed, TakeNext, HandleAgain, NoteFailureAgain, MarkReplayed
  <2>2. calls' <= MaxReplays
    BY <1>1, <1>6 DEF replay_unprocessed, TakeNext, HandleAgain, NoteFailureAgain, MarkReplayed
  <2>3. lost' <= MaxLost
    BY <1>1, <1>3, <1>6 DEF replay_unprocessed, TakeNext, HandleAgain, NoteFailureAgain, MarkReplayed,
       mark_processed, mark_failed
  <2> QED
    BY <2>1, <2>2, <2>3
<1>7. ASSUME Restart PROVE OutboxBounded'
  <2>1. \A e \in Published : task'[e].next = task[e].next
    BY <1>1, <1>7 DEF Restart, TaskType
  <2> QED
    BY <1>7, <2>1 DEF Restart
<1>8. CASE UNCHANGED outbox
  BY <1>8 DEF outbox
<1> QED
  BY <1>4, <1>5, <1>6, <1>7, <1>8 DEF OutboxNext

AdmissionBounded ==
    /\ letIn + Len(requestQueue) <= MaxLetIn
    /\ ticks.charged <= MaxCharges

\* A call that is let in leaves the queue, so that the two together do not grow.
LEMMA AdmissionStaysBounded ==
  ASSUME AdmissionInv, AdmissionBounded, [AdmissionNext]_admission
  PROVE  AdmissionBounded'
<1> USE DEF AdmissionBounded
<1>1. /\ requestQueue \in Seq(Asking) /\ letIn \in Nat /\ Len(requestQueue) \in Nat
      /\ {MaxLetIn, MaxCharges} \subseteq Nat
      /\ ticks \in TicksOf
  BY AdmissionAssumption, LenProperties DEF AdmissionInv, AdmissionShape
<1>2. ASSUME NEW c \in Asking, NEW kind, NEW tries, acquireSlot(c, kind, tries), letIn' = letIn
      PROVE  letIn' + Len(requestQueue') <= MaxLetIn
  <2>1. CASE activeRequests < MAX_CONCURRENT_REQUESTS
    BY <1>2, <2>1 DEF acquireSlot
  <2>2. CASE ~(activeRequests < MAX_CONCURRENT_REQUESTS)
    <3>1. requestQueue' = Append(requestQueue, c) /\ letIn + Len(requestQueue) < MaxLetIn
      BY <1>2, <2>2 DEF acquireSlot
    <3>2. Len(requestQueue') = Len(requestQueue) + 1
      BY <1>1, <3>1, AppendProperties
    <3> QED
      BY <1>1, <1>2, <3>1, <3>2
  <2> QED
    BY <2>1, <2>2
<1>3. ASSUME NEW c, NEW after, releaseSlot(c, after)
      PROVE  letIn' + Len(requestQueue') <= MaxLetIn
  <2>1. CASE requestQueue = <<>>
    BY <1>3, <2>1 DEF releaseSlot
  <2>2. CASE requestQueue # <<>>
    <3>1. requestQueue' = Tail(requestQueue) /\ letIn' = letIn + 1
      BY <1>3, <2>2 DEF releaseSlot
    <3>2. Len(requestQueue') = Len(requestQueue) - 1
      BY <1>1, <2>2, <3>1, HeadTailProperties
    <3> DEFINE waiting == Len(requestQueue)
               queued == Len(requestQueue')
    <3>3. letIn \in Nat /\ waiting \in Nat /\ letIn' = letIn + 1 /\ queued = waiting - 1
      BY <1>1, <3>1, <3>2
    <3> HIDE DEF waiting, queued
    <3>4. letIn' + queued = letIn + waiting
      BY ONLY <3>3
    <3>5. letIn' + Len(requestQueue') = letIn + Len(requestQueue)
      BY <3>4 DEF waiting, queued
    <3> QED
      BY ONLY <3>5, AdmissionBounded DEF AdmissionBounded
  <2> QED
    BY <2>1, <2>2
<1>4. ASSUME NEW c \in Asking, NEW kind, Asks(c, kind) PROVE AdmissionBounded'
  BY <1>2, <1>4 DEF Asks
<1>5. ASSUME NEW c \in Asking, handleCharge(c) PROVE AdmissionBounded'
  <2>1. ticks.charged < MaxCharges /\ ticks' = [ticks EXCEPT !.charged = ticks.charged + 1]
    BY <1>5 DEF handleCharge
  <2>2. ticks'.charged = ticks.charged + 1 /\ ticks.charged \in Nat
    BY <1>1, <2>1 DEF TicksOf
  <2>3. ticks'.charged <= MaxCharges
    BY <1>1, <2>1, <2>2
  <2> QED
    BY <1>2, <1>5, <2>3 DEF handleCharge
<1>6. ASSUME NEW c \in Asking, GivesUp(c) PROVE AdmissionBounded'
  <2>1. ticks'.charged = ticks.charged
    BY <1>1, <1>6 DEF GivesUp, TicksOf
  <2> QED
    BY <1>3, <1>6, <2>1 DEF GivesUp
<1>7. ASSUME NEW c \in Asking, apiFetchAgain(c) PROVE AdmissionBounded'
  BY <1>2, <1>7 DEF apiFetchAgain
<1>8. ASSUME NEW t \in Serving, Answers(t) PROVE AdmissionBounded'
  <2>1. CASE serving[t].by = {}
    BY <1>8, <2>1 DEF Answers
  <2>2. CASE serving[t].by # {}
    <3>1. \A c \in serving[t].by : releaseSlot(c, Nobody)
      BY <1>8, <2>2 DEF Answers
    <3>2. letIn' + Len(requestQueue') <= MaxLetIn
      BY <1>3, <2>2, <3>1
    <3>3. ticks' = ticks \/ ticks' = [ticks EXCEPT !.shown = @ + 1]
      BY <1>8, <2>2 DEF Answers
    <3>4. ticks'.charged = ticks.charged
      BY <1>1, <3>3 DEF TicksOf
    <3> QED
      BY <3>2, <3>4
  <2> QED
    BY <2>1, <2>2
<1>9. ASSUME NEW t \in Serving, Takes(t) \/ Gives(t) \/ \E c \in Asking : Arrives(c, t) PROVE AdmissionBounded'
  BY <1>9 DEF Takes, Gives, Arrives
<1>10. ASSUME NEW t \in Serving, Commits(t) PROVE AdmissionBounded'
  <2>1. ticks'.charged = ticks.charged
    BY <1>1, <1>10 DEF Commits, TicksOf
  <2> QED
    BY <1>10, <2>1 DEF Commits
<1>11. CASE UNCHANGED admission
  BY <1>11 DEF admission
<1> QED
  BY <1>4, <1>5, <1>6, <1>7, <1>8, <1>9, <1>10, <1>11 DEF AdmissionNext

CustomersBounded ==
    /\ Len(customer) <= MaxRows /\ edits \in 0..MaxEdits
    /\ \A i \in DOMAIN named : named[i].of <= MaxRows
    /\ DOMAIN till \subseteq Ids
    /\ {outdated, unheard} \subseteq BOOLEAN

\* A row is never taken away, so that what a till lists stays a row.
LEMMA CustomersStayBounded ==
  ASSUME CustomersInv, CustomersBounded, [CustomersNext]_customers
  PROVE  CustomersBounded'
<1> USE DEF CustomersBounded
<1>1. /\ customer \in Seq(CustomerRow) /\ named \in Seq(NameSource) /\ desk \in [Desks -> DeskCall \cup {NoDesk}]
      /\ {MaxRows, MaxEdits} \subseteq Nat
      /\ Len(customer) \in Nat /\ Len(named) = Len(customer)
      /\ Ids = 1..Len(customer) /\ DOMAIN named = 1..Len(customer)
      /\ \A i \in Ids : customer[i] \in CustomerRow /\ named[i] \in NameSource
  BY CustomersAssumption, IdsOf DEF CustomersInv, RowsExplained, CustomersShape
<1>2. Len(customer') \in Nat /\ Ids' = 1..Len(customer') /\ DOMAIN named' = 1..Len(customer')
  <2>1. CustomersShape'
    BY CustomersSteps DEF CustomersInv, RowsExplained
  <2>2. /\ customer' \in Seq(CustomerRow) /\ named' \in Seq(NameSource) /\ Len(named') = Len(customer')
    BY <2>1 DEF CustomersShape
  <2> QED
    BY <2>2, LenProperties DEF Ids
<1>3. ASSUME Ids' = Ids PROVE Len(customer') <= MaxRows
  BY <1>1, <1>2, <1>3
<1>4. Edits => edits' \in 0..MaxEdits
  BY <1>1 DEF Edits
<1>5. ASSUME NEW i, i \in Ids', NEW name, Ids \subseteq Ids',
             Heard(TillWith(i, name)) \/ Heard(TillWithout(i)) \/ Lost \/ ByOthers
      PROVE  DOMAIN till' \subseteq Ids' /\ {outdated', unheard'} \subseteq BOOLEAN
  BY <1>5 DEF Heard, TillWith, TillWithout, Lost, ByOthers
<1>6. ASSUME NEW i, NEW name, NEW how, Renamed(i, name, how)
      PROVE  Ids' = Ids /\ DOMAIN named' = DOMAIN named /\ \A j \in DOMAIN named : named'[j].of = named[j].of
  BY <1>1, <1>6 DEF Renamed, Ids, NameSource
<1>7. ASSUME NEW name, Row(name), Len(customer) < MaxRows,
             NEW how, NEW of, of \in Nat, of <= MaxRows, named' = Append(named, [how |-> how, of |-> of])
      PROVE  /\ Len(customer') = Len(customer) + 1 /\ Len(customer') <= MaxRows /\ Ids \subseteq Ids'
             /\ \A i \in DOMAIN named' : named'[i].of <= MaxRows
  <2>1. Len(customer') = Len(customer) + 1
    BY <1>1, <1>7, AppendProperties DEF Row
  <2>2. \A i \in 1..Len(customer) : named'[i] = named[i]
    BY <1>1, <1>7, AppendProperties
  <2>3. named'[Len(customer) + 1].of = of
    BY <1>1, <1>7, AppendProperties
  <2> QED
    BY <1>1, <1>2, <1>7, <2>1, <2>2, <2>3
<1>8. ASSUME NEW d \in Desks, NEW name \in Names, NEW ours \in BOOLEAN, create_customer(d, name, ours)
      PROVE  CustomersBounded'
  BY <1>8 DEF create_customer, Ids
<1>9. ASSUME NEW d \in Desks, TillGivesUp(d) PROVE CustomersBounded'
  BY <1>9 DEF TillGivesUp, Lost, Ids
<1>10. ASSUME NEW d \in Desks, CustomerInserted(d) PROVE CustomersBounded'
  <2>1. desk[d].of \in Nat /\ desk[d].of <= MaxRows
    BY <1>1, <1>10 DEF CustomerInserted, CustomersInv, RowsExplained, LookedUp, DeskCall, NoDesk
  <2>2. /\ Len(customer') = Len(customer) + 1 /\ Len(customer') <= MaxRows /\ Ids \subseteq Ids'
        /\ \A i \in DOMAIN named' : named'[i].of <= MaxRows
    BY <1>7, <1>10, <2>1 DEF CustomerInserted
  <2>3. Len(customer') \in Ids'
    BY <1>1, <1>2, <2>2
  <2>4. Heard(TillWith(Len(customer'), desk[d].name)) \/ Lost \/ ByOthers
    BY <1>10 DEF CustomerInserted
  <2> QED
    BY <1>5, <1>10, <2>2, <2>3, <2>4 DEF CustomerInserted
<1>11. ASSUME NEW i \in Ids, NEW name \in Names, update_customer(i, name) PROVE CustomersBounded'
  BY <1>3, <1>4, <1>5, <1>6, <1>11 DEF update_customer
<1>12. ASSUME NEW i \in Ids, NEW name \in Names, till_pushes(i, name) PROVE CustomersBounded'
  BY <1>3, <1>4, <1>5, <1>6, <1>12 DEF till_pushes, PushedOnto, PushedRow
<1>13. ASSUME NEW i \in Ids, PutBack(i) PROVE CustomersBounded'
  <2>1. Ids' = Ids /\ DOMAIN named' = DOMAIN named /\ \A j \in DOMAIN named : named'[j].of = named[j].of
    BY <1>1, <1>13 DEF PutBack, Ids, NameSource
  <2> QED
    BY <1>3, <1>4, <1>5, <1>13, <2>1 DEF PutBack
<1>14. ASSUME NEW i \in Ids, delete_customer(i) \/ till_deletes(i) PROVE CustomersBounded'
  <2>1. Ids' = Ids /\ named' = named
    BY <1>1, <1>14 DEF delete_customer, till_deletes, TakenOff, Ids
  <2> QED
    BY <1>3, <1>4, <1>5, <1>14, <2>1 DEF delete_customer, till_deletes
<1>15. ASSUME NEW name \in Names, PushedNew(name) PROVE CustomersBounded'
  <2>1. /\ Len(customer') <= MaxRows /\ Ids \subseteq Ids'
        /\ \A i \in DOMAIN named' : named'[i].of <= MaxRows
    BY <1>1, <1>7, <1>15 DEF PushedNew
  <2> QED
    BY <1>4, <1>15, <2>1 DEF PushedNew, ByOthers
<1>16. ASSUME till_pulls PROVE CustomersBounded'
  <2>1. Ids' = Ids /\ DOMAIN till' \subseteq Ids
    BY <1>16 DEF till_pulls, sync_pull_customers, Active, Ids
  <2>2. outdated' \in BOOLEAN /\ unheard' \in BOOLEAN
    <3> DEFINE more == Cardinality(Active) > PullLimit
    <3>1. outdated' = more /\ unheard' = FALSE
      BY <1>16 DEF till_pulls
    <3>2. more \in BOOLEAN
      OBVIOUS
    <3> HIDE DEF more
    <3> QED
      BY <3>1, <3>2, Zenon
  <2>3. {outdated', unheard'} \subseteq BOOLEAN
    BY <2>2, Zenon
  <2> QED
    BY <1>16, <2>1, <2>3 DEF till_pulls
<1>17. CASE UNCHANGED customers
  BY <1>17 DEF customers, Ids
<1> QED
  BY <1>8, <1>9, <1>10, <1>11, <1>12, <1>13, <1>14, <1>15, <1>16, <1>17 DEF CustomersNext

LEMMA BoundsStart ==
  /\ TransfersInit => TransfersBounded
  /\ OutboxInit => OutboxBounded
  /\ AdmissionInit => AdmissionBounded
  /\ CustomersInit => CustomersBounded
<1>1. TransfersInit => TransfersBounded
  BY TransferAssumption DEF TransfersInit, TransfersBounded
<1>2. OutboxInit => OutboxBounded
  BY HandlersInOrder, OutboxAssumption DEF OutboxInit, OutboxBounded
<1>3. AdmissionInit => AdmissionBounded
  BY AdmissionAssumption DEF AdmissionInit, AdmissionBounded
<1>4. ASSUME CustomersInit PROVE CustomersBounded
  <2>1. Len(customer) = 0 /\ DOMAIN named = {} /\ DOMAIN till = {}
    BY <1>4 DEF CustomersInit
  <2>2. MaxRows \in Nat /\ MaxEdits \in Nat
    BY CustomersAssumption
  <2>3. Len(customer) <= MaxRows /\ edits \in 0..MaxEdits
    BY <1>4, <2>1, <2>2 DEF CustomersInit
  <2>4. {outdated, unheard} \subseteq BOOLEAN
    BY <1>4 DEF CustomersInit
  <2> QED
    BY <2>1, <2>3, <2>4 DEF CustomersBounded
<1> QED
  BY <1>1, <1>2, <1>3, <1>4

LEMMA QueriesSteps ==
  /\ QueriesInit => QueriesTypeOK
  /\ QueriesTypeOK /\ [QueriesNext]_queries => QueriesTypeOK'
<1>1. QueriesInit => QueriesTypeOK
  BY EmptySeq DEF QueriesInit, QueriesTypeOK
<1>2. ASSUME QueriesTypeOK, NEW c \in Characters, Write(c) PROVE QueriesTypeOK'
  BY <1>2, AppendProperties DEF QueriesTypeOK, Write
<1>3. ASSUME QueriesTypeOK, NEW c \in Wild \cup Letters, Search(c) PROVE QueriesTypeOK'
  BY <1>3, AppendProperties DEF QueriesTypeOK, Search
<1>4. QueriesTypeOK /\ UNCHANGED queries => QueriesTypeOK'
  BY DEF QueriesTypeOK, queries
<1> QED
  BY <1>1, <1>2, <1>3, <1>4 DEF QueriesNext

\* The invariants and the bounds together say the types.
LEMMA TransfersTyped == TransfersInv /\ TransfersBounded => TransfersTypeOK
  BY DEF TransfersInv, TransfersShape, TransfersBounded, TransfersTypeOK, SagaType

LEMMA OutboxTyped == OutboxInv /\ OutboxBounded => OutboxTypeOK
<1> SUFFICES ASSUME OutboxInv, OutboxBounded PROVE OutboxTypeOK
  OBVIOUS
<1>1. /\ Len(Handlers) \in Nat /\ {MaxReplays, MaxLost} \subseteq Nat
      /\ task \in [Published -> TaskType] /\ row \in [Published -> RowType] /\ replay \in ReplayType
      /\ calls \in Nat /\ lost \in Nat
  BY HandlersInOrder, OutboxAssumption DEF OutboxInv, OutboxShape
<1>2. ASSUME NEW e \in Published
      PROVE  /\ row[e].stored \in BOOLEAN /\ row[e].processed \in BOOLEAN /\ row[e].retries \in Nat
             /\ task[e].at \in {"none", "persist", "handle", "fail", "mark", "ended", "dead"}
             /\ task[e].next \in 1..Len(Handlers) + 1
  <2>1. row[e] \in RowType /\ task[e] \in TaskType
    BY <1>1, <1>2
  <2>2. task[e].next \in Nat \ {0} /\ task[e].next <= Len(Handlers) + 1
    BY <1>2, <2>1 DEF TaskType, OutboxBounded
  <2>3. task[e].next \in 1..Len(Handlers) + 1
    BY <1>1, <2>2
  <2> QED
    BY <2>1, <2>3 DEF RowType, TaskType
<1>3. calls \in 0..MaxReplays /\ lost \in 0..MaxLost
  BY <1>1 DEF OutboxBounded
<1>4. /\ replay.at \in {"none", "take", "handle", "fail", "mark"} /\ replay.todo \subseteq Published
  BY <1>1 DEF ReplayType
<1> QED
  BY <1>2, <1>3, <1>4 DEF OutboxInv, OutboxShape, OutboxTypeOK

LEMMA CatalogueTyped == CatalogueInv => CatalogueTypeOK
<1> SUFFICES ASSUME CatalogueInv PROVE CatalogueTypeOK
  OBVIOUS
<1>1. \A c \in Clerks : clerk[c].at \in {"idle", "stock", "price", "loss", "create"}
                        /\ clerk[c].rows \subseteq Products \cup Losses
  BY DEF CatalogueInv, Shape, Request, Free, Creating, Pricing, Stocking, Judging
<1> QED
  BY <1>1 DEF CatalogueTypeOK, CatalogueInv, Shape, Entry, HistoryRow

LEMMA AdmissionTyped == AdmissionInv /\ AdmissionBounded => AdmissionTypeOK
<1> SUFFICES ASSUME AdmissionInv, AdmissionBounded PROVE AdmissionTypeOK
  OBVIOUS
<1> USE DEF AdmissionInv, AdmissionBounded
<1>1. /\ requestQueue \in Seq(Asking) /\ Len(requestQueue) \in Nat /\ letIn \in Nat
      /\ {MaxLetIn, MaxCharges} \subseteq Nat /\ ticks \in TicksOf
  BY AdmissionAssumption, LenProperties DEF AdmissionShape
<1>2. activeRequests \in Nat /\ letIn \in 0..MaxLetIn
  BY <1>1, FS_CardinalityType DEF SlotsHeld
<1>3. ASSUME NEW c \in Asking
      PROVE  /\ fetching[c].at \in {"idle", "queued", "sent", "waiting"}
             /\ fetching[c].at # "idle" => fetching[c].kind \in DOMAIN Program /\ fetching[c].tries \in 0..maxRetries
  <2>1. fetching[c] \in FetchOf \cup {Nobody}
    BY <1>3 DEF AdmissionShape
  <2>2. DOMAIN Program = Kinds
    BY DEF Program, Kinds
  <2> QED
    BY <2>1, <2>2 DEF FetchOf, Nobody
<1>4. ASSUME NEW t \in Serving PROVE serving[t].kind = "none" \/ serving[t].kind \in DOMAIN Program
  <2>1. serving[t] \in TaskOf \cup {NoTask}
    BY <1>4 DEF AdmissionShape
  <2> QED
    BY <2>1 DEF TaskOf, NoTask, Kinds, Program
<1>5. ticks \in [charged : 0..MaxCharges, given_up : Nat, sold : Nat, shown : Nat]
  <2>1. ticks.charged \in 0..MaxCharges
    BY <1>1 DEF TicksOf
  <2> QED
    BY <1>1, <2>1 DEF TicksOf
<1> QED
  BY <1>1, <1>2, <1>3, <1>4, <1>5 DEF AdmissionTypeOK, AdmissionShape

LEMMA CustomersTyped == CustomersInv /\ CustomersBounded => CustomersTypeOK
<1> SUFFICES ASSUME CustomersInv, CustomersBounded PROVE CustomersTypeOK
  OBVIOUS
<1>1. /\ named \in Seq(NameSource) /\ named \in [1..Len(named) -> NameSource] /\ Len(named) \in Nat
      /\ MaxRows \in Nat /\ CustomersShape
  BY LenProperties, CustomersAssumption DEF CustomersInv, RowsExplained, CustomersShape
<1>2. \A i \in 1..Len(named) : named[i] \in [how : {"created", "renamed", "pushed", "put back"}, of : 0..MaxRows]
  <2> SUFFICES ASSUME NEW i \in 1..Len(named)
               PROVE  named[i] \in [how : {"created", "renamed", "pushed", "put back"}, of : 0..MaxRows]
    OBVIOUS
  <2>1. named[i] \in NameSource /\ named[i].of <= MaxRows
    BY <1>1 DEF CustomersBounded
  <2>2. named[i].of \in Nat
    BY <2>1 DEF NameSource
  <2>3. named[i].of \in 0..MaxRows
    BY <1>1, <2>1, <2>2
  <2> QED
    BY <2>1, <2>3 DEF NameSource
<1> DEFINE Source == [how : {"created", "renamed", "pushed", "put back"}, of : 0..MaxRows]
<1>3. named \in Seq(Source)
  <2>1. \A i \in 1..Len(named) : named[i] \in Source
    BY <1>2
  <2> HIDE DEF Source
  <2>2. named \in [1..Len(named) -> Source]
    BY <1>1, <2>1
  <2> QED
    BY <1>1, <2>2, SeqDef
<1>4. \A d \in Desks : desk[d].at = "idle" \/ desk[d].name \in Names
  BY <1>1 DEF CustomersShape, DeskCall, NoDesk
<1> QED
  BY <1>1, <1>3, <1>4 DEF CustomersTypeOK, CustomersShape, CustomersBounded, CustomerRow

LEMMA EmployeesTyped == EmployeesInv => EmployeesTypeOK
<1> SUFFICES ASSUME EmployeesInv PROVE EmployeesTypeOK
  OBVIOUS
<1>1. ASSUME NEW m \in Managers
      PROVE  /\ manager[m].at \in {"idle", "checked", "locked", "allowed", "written", "done", "refused"}
             /\ heldByOthers[m] \subseteq Codes
             /\ ~Stands(m, "idle") => manager[m].code \in Codes /\ manager[m].row \in 0..MaxEmployees
  BY <1>1 DEF EmployeesInv, StaffShape, StaffCall, StaffSteps, NoManager, Stands
<1> QED
  BY <1>1 DEF EmployeesTypeOK, EmployeesInv, StaffShape, StaffRow

-----------------------------------------------------------------------------
(* Recursions                                                              *)

\* A recursion on D with values in A that looks at lower ranks only, and a solution of it.
Descends(D, A, K, rank, body) ==
    /\ K \in Nat /\ rank \in [D -> 0 .. K] /\ body \in [[D -> A] \X D -> A]
    /\ \A g, h \in [D -> A] : \A j \in D :
        (\A i \in D : rank[i] < rank[j] => g[i] = h[i]) => body[<<g, j>>] = body[<<h, j>>]
Solution(D, A, body, g) == g \in [D -> A] /\ \A j \in D : g[j] = body[<<g, j>>]

\* Step by step in the order of the ranks.
LEMMA RecursionExists ==
  ASSUME NEW D, NEW A, NEW K, NEW rank, NEW body, Descends(D, A, K, rank, body), A # {}
  PROVE  \E g : Solution(D, A, body, g)
<1>0. PICK some \in A : TRUE
  OBVIOUS
<1> SUFFICES ASSUME K \in Nat, rank \in [D -> 0 .. K], body \in [[D -> A] \X D -> A],
                    \A g, h \in [D -> A] : \A j \in D :
                        (\A i \in D : rank[i] < rank[j] => g[i] = h[i]) => body[<<g, j>>] = body[<<h, j>>]
             PROVE  \E g \in [D -> A] : \A j \in D : g[j] = body[<<g, j>>]
  BY DEF Descends, Solution
<1> DEFINE Solves(g, k) == \A j \in D : rank[j] < k => g[j] = body[<<g, j>>]
           E == {k \in 0 .. K + 1 : \E g \in [D -> A] : Solves(g, k)}
<1>1. 0 \in E
  <2>1. [j \in D |-> some] \in [D -> A] /\ Solves([j \in D |-> some], 0)
    OBVIOUS
  <2> HIDE DEF Solves
  <2> QED
    BY <2>1
<1>2. ASSUME NEW k \in 1 .. K + 1, k - 1 \in E PROVE k \in E
  <2>1. PICK g \in [D -> A] : Solves(g, k - 1)
    BY <1>2
  <2> DEFINE h == [j \in D |-> body[<<g, j>>]]
  <2>2. h \in [D -> A] /\ \A j \in D : h[j] = body[<<g, j>>]
    OBVIOUS
  <2> HIDE DEF h
  <2>3. ASSUME NEW j \in D, rank[j] < k PROVE h[j] = body[<<h, j>>]
    <3>1. \A i \in D : rank[i] < rank[j] => g[i] = h[i]
      <4>1. ASSUME NEW i \in D, rank[i] < rank[j] PROVE g[i] = h[i]
        <5>1. rank[i] < k - 1
          BY <1>2, <2>3, <4>1
        <5> QED
          BY <2>1, <2>2, <5>1
      <4> QED
        BY <4>1
    <3>2. body[<<g, j>>] = body[<<h, j>>]
      BY <2>2, <3>1
    <3> QED
      BY <2>2, <3>2
  <2>4. Solves(h, k)
    BY <2>3
  <2> HIDE DEF Solves
  <2> QED
    BY <2>2, <2>4
<1>3. K + 1 \in E
  <2> HIDE DEF E
  <2> DEFINE N == K + 1
  <2>1. N \in Nat /\ \A k \in 1 .. N : k - 1 \in E => k \in E
    BY <1>2
  <2> HIDE DEF N
  <2>2. N \in E
    BY <1>1, <2>1, UpTo
  <2> QED
    BY <2>2 DEF N
<1>4. PICK g \in [D -> A] : Solves(g, K + 1)
  BY <1>3
<1>5. \A j \in D : rank[j] < K + 1
  OBVIOUS
<1> QED
  BY <1>4, <1>5

-----------------------------------------------------------------------------
(* Patterns                                                                 *)

Searched == Wild \cup Letters

\* The places from which each end of a pattern matches, as LIKE has them.
LEMMA LikeIs ==
  ASSUME NEW s \in Seq(Searched), NEW pattern \in Seq(Searched)
  PROVE  \E from \in [1 .. Len(pattern) + 1 -> SUBSET (1 .. Len(s) + 1)] :
            /\ Like(s, pattern) <=> 1 \in from[1]
            /\ from[Len(pattern) + 1] = {Len(s) + 1}
            /\ \A j \in 1 .. Len(pattern) :
                /\ pattern[j] = "%" => from[j] = UNION {1 .. i : i \in from[j + 1]}
                /\ pattern[j] = "\\" => from[j] = {i \in DOMAIN s : j < Len(pattern) /\ s[i] = pattern[j + 1]
                                                                   /\ i + 1 \in from[j + 2]}
                /\ pattern[j] \notin Wild => from[j] = {i \in DOMAIN s : s[i] = pattern[j] /\ i + 1 \in from[j + 1]}
<1> DEFINE M == Len(pattern)  D == 1 .. M + 1  A == SUBSET (1 .. Len(s) + 1)
           Body(g, j) ==
            IF j > Len(pattern) THEN {Len(s) + 1}
            ELSE CASE pattern[j] = "%" -> UNION {1..i : i \in g[j + 1]}
                   [] pattern[j] = "_" -> {i \in DOMAIN s : i + 1 \in g[j + 1]}
                   [] pattern[j] = "\\" ->
                        {i \in DOMAIN s : j < Len(pattern) /\ s[i] = pattern[j + 1] /\ i + 1 \in g[j + 2]}
                   [] OTHER -> {i \in DOMAIN s : s[i] = pattern[j] /\ i + 1 \in g[j + 1]}
           body == [x \in [D -> A] \X D |-> Body(x[1], x[2])]
           rank == [j \in D |-> M + 1 - j]
           from == CHOOSE f : f = [j \in D |-> Body(f, j)]
<1>1. M \in Nat /\ Len(s) \in Nat /\ DOMAIN s = 1 .. Len(s) /\ DOMAIN pattern = 1 .. M
  OBVIOUS
<1>2. {Len(s) + 1} \in A /\ rank \in [D -> 0 .. M] /\ \A i, j \in D : rank[i] < rank[j] <=> j < i
  <2> HIDE DEF M
  <2>1. {Len(s) + 1} \in A
    BY <1>1
  <2>2. rank \in [D -> 0 .. M]
    BY <1>1
  <2>3. \A i, j \in D : rank[i] < rank[j] <=> j < i
    BY <1>1
  <2> QED
    BY <2>1, <2>2, <2>3
<1>3. ASSUME NEW g \in [D -> A], NEW j \in D PROVE Body(g, j) \in A
  <2>1. CASE j > M
    BY <1>2, <2>1
  <2>2. CASE j <= M
    <3>1. j + 1 \in D /\ g[j + 1] \subseteq 1 .. Len(s) + 1
      BY <1>1, <2>2
    <3>2. UNION {1..i : i \in g[j + 1]} \subseteq 1 .. Len(s) + 1
      BY <1>1, <3>1
    <3>3. DOMAIN s \subseteq 1 .. Len(s) + 1 /\ ~(j > Len(pattern))
      BY <1>1, <2>2
    <3>4. CASE pattern[j] = "%"
      BY <3>2, <3>3, <3>4
    <3>5. CASE pattern[j] # "%"
      BY <3>3, <3>5
    <3> QED
      BY <3>4, <3>5
  <2>3. j \in Int /\ M \in Int
    BY <1>1
  <2> HIDE DEF Body, M
  <2> QED
    BY <2>1, <2>2, <2>3
<1>4. body \in [[D -> A] \X D -> A] /\ \A g \in [D -> A], j \in D : body[<<g, j>>] = Body(g, j)
  <2> HIDE DEF Body, D, A
  <2> QED
    BY <1>3
<1>5. ASSUME NEW g \in [D -> A], NEW h \in [D -> A], NEW j \in D,
             \A i \in D : j < i => g[i] = h[i]
      PROVE  Body(g, j) = Body(h, j)
  <2>1. CASE j > M
    BY <2>1
  <2>2. CASE j <= M
    <3>1. g[j + 1] = h[j + 1]
      BY <1>1, <1>5, <2>2
    <3>2. j < M => g[j + 2] = h[j + 2]
      BY <1>1, <1>5, <2>2
    <3>3. {i \in DOMAIN s : j < Len(pattern) /\ s[i] = pattern[j + 1] /\ i + 1 \in g[j + 2]}
          = {i \in DOMAIN s : j < Len(pattern) /\ s[i] = pattern[j + 1] /\ i + 1 \in h[j + 2]}
      BY <3>2
    <3> QED
      BY <1>1, <2>2, <3>1, <3>3
  <2>3. j \in Int /\ M \in Int
    BY <1>1
  <2> HIDE DEF Body, M
  <2> QED
    BY <2>1, <2>2, <2>3
<1>6. \E g : Solution(D, A, body, g)
  <2>1. \A g, h \in [D -> A] : \A j \in D :
            (\A i \in D : rank[i] < rank[j] => g[i] = h[i]) => body[<<g, j>>] = body[<<h, j>>]
    <3> HIDE DEF Body, D, A, body, rank
    <3> SUFFICES ASSUME NEW g \in [D -> A], NEW h \in [D -> A], NEW j \in D,
                        \A i \in D : rank[i] < rank[j] => g[i] = h[i]
                 PROVE  body[<<g, j>>] = body[<<h, j>>]
      OBVIOUS
    <3>1. \A i \in D : j < i => g[i] = h[i]
      BY <1>2
    <3>2. Body(g, j) = Body(h, j)
      BY <1>5, <3>1
    <3> QED
      BY <1>4, <3>2
  <2>2. Descends(D, A, M, rank, body) /\ A # {}
    <3> HIDE DEF Body, D, A, M, body, rank
    <3> QED
      BY <1>1, <1>2, <1>4, <2>1 DEF Descends
  <2> HIDE DEF Body, D, A, M, body, rank
  <2> QED
    BY <2>2, RecursionExists
<1>7. PICK g \in [D -> A] : \A j \in D : g[j] = Body(g, j)
  <2> HIDE DEF Body, D, A, body
  <2> QED
    BY <1>4, <1>6 DEF Solution
<1>8. from = [j \in D |-> Body(from, j)]
  <2>1. g = [j \in D |-> Body(g, j)]
    <3> HIDE DEF Body, D, A
    <3> QED
      BY <1>7
  <2> HIDE DEF Body, D
  <2> QED
    BY <2>1
<1>9. Like(s, pattern) <=> 1 \in from[1]
  BY DEF Like
<1>10. DOMAIN from = D /\ \A j \in D : from[j] = Body(from, j)
  <2> HIDE DEF from, D, Body
  <2> QED
    BY <1>8
<1>11. ASSUME NEW j \in D, j <= M => from[j + 1] \in A PROVE from[j] \in A
  <2>1. CASE j > M
    BY <1>2, <1>10, <2>1
  <2>2. CASE j <= M
    <3> HIDE DEF from
    <3>1. UNION {1..i : i \in from[j + 1]} \subseteq 1 .. Len(s) + 1
      <4>1. from[j + 1] \subseteq 1 .. Len(s) + 1
        BY <1>11, <2>2
      <4> QED
        BY <1>1, <4>1
    <3>2. DOMAIN s \subseteq 1 .. Len(s) + 1 /\ ~(j > Len(pattern))
      BY <1>1, <2>2
    <3>5. from[j] = Body(from, j)
      <4> HIDE DEF Body, D
      <4> QED
        BY <1>10
    <3>3. CASE pattern[j] = "%"
      BY <3>1, <3>2, <3>3, <3>5
    <3>4. CASE pattern[j] # "%"
      BY <3>2, <3>4, <3>5
    <3> QED
      BY <3>3, <3>4
  <2>3. j \in Int /\ M \in Int
    BY <1>1
  <2> HIDE DEF Body, M, from, A
  <2> QED
    BY <2>1, <2>2, <2>3
<1> HIDE DEF from, A, Body
<1>12. ASSUME NEW j \in D PROVE from[j] \in A
  <2> DEFINE E == {k \in 0 .. M : from[M + 1 - k] \in A}
  <2>1. 0 \in E
    BY <1>1, <1>11
  <2>2. ASSUME NEW k \in 1 .. M, k - 1 \in E PROVE k \in E
    <3>1. M + 1 - k \in D /\ M + 1 - (k - 1) = (M + 1 - k) + 1
      BY <1>1
    <3>2. from[(M + 1 - k) + 1] \in A
      BY <2>2, <3>1
    <3> QED
      BY <1>1, <1>11, <3>1, <3>2
  <2>3. ASSUME NEW n \in 0 .. M PROVE n \in E
    <3>1. \A k \in 1 .. n : k - 1 \in E => k \in E
      BY <1>1, <2>2
    <3> HIDE DEF E
    <3> QED
      BY <2>1, <3>1, UpTo
  <2>4. M + 1 - j \in 0 .. M /\ M + 1 - (M + 1 - j) = j
    BY <1>1
  <2>5. M + 1 - j \in E
    BY <2>3, <2>4
  <2> QED
    BY <2>4, <2>5
<1>13. from \in [1 .. M + 1 -> SUBSET (1 .. Len(s) + 1)]
  BY <1>10, <1>12, <1>8 DEF A
<1>14. from[M + 1] = {Len(s) + 1}
  <2>1. M + 1 \in D /\ M + 1 > Len(pattern)
    BY <1>1
  <2>2. from[M + 1] = Body(from, M + 1)
    BY <1>10, <2>1
  <2> HIDE DEF D
  <2> QED
    BY <2>1, <2>2 DEF Body
<1>15. ASSUME NEW j \in 1 .. M
       PROVE  /\ pattern[j] = "%" => from[j] = UNION {1 .. i : i \in from[j + 1]}
              /\ pattern[j] = "\\" => from[j] = {i \in DOMAIN s : j < Len(pattern) /\ s[i] = pattern[j + 1]
                                                                 /\ i + 1 \in from[j + 2]}
              /\ pattern[j] \notin Wild => from[j] = {i \in DOMAIN s : s[i] = pattern[j] /\ i + 1 \in from[j + 1]}
  <2>1. from[j] = Body(from, j) /\ ~(j > Len(pattern))
    BY <1>1, <1>10
  <2>2. CASE pattern[j] = "%"
    BY <2>1, <2>2 DEF Body, Wild
  <2>3. CASE pattern[j] = "\\"
    BY <2>1, <2>3 DEF Body, Wild
  <2>4. CASE pattern[j] \notin Wild
    BY <2>1, <2>4 DEF Body, Wild
  <2>5. pattern[j] = "%" => "%" \in Wild
    BY DEF Wild
  <2>6. pattern[j] = "\\" => "\\" \in Wild
    BY DEF Wild
  <2> HIDE DEF M
  <2> QED
    BY ONLY <2>2, <2>3, <2>4
<1> QED
  BY <1>9, <1>13, <1>14, <1>15

-----------------------------------------------------------------------------
(* Recursions that look one step back                                      *)

\* A recursion on 0 .. N that looks one step back, and its course.
Recurs(N, A, base, step) == N \in Nat /\ base \in A /\ step \in [A \X (1 .. N) -> A]
RunsTo(N, A, base, step, g) ==
    g \in [0 .. N -> A] /\ g[0] = base /\ \A k \in 1 .. N : g[k] = step[<<g[k - 1], k>>]

LEMMA Chain ==
  ASSUME NEW N, NEW A, NEW base, NEW step, Recurs(N, A, base, step)
  PROVE  \E g : RunsTo(N, A, base, step, g)
<1> SUFFICES ASSUME N \in Nat, base \in A, step \in [A \X (1 .. N) -> A]
             PROVE  \E g \in [0 .. N -> A] : g[0] = base /\ \A k \in 1 .. N : g[k] = step[<<g[k - 1], k>>]
  BY DEF Recurs, RunsTo
<1> DEFINE D == 0 .. N
           Body(g, j) == IF j = 0 THEN base ELSE step[<<g[j - 1], j>>]
           body == [x \in [D -> A] \X D |-> Body(x[1], x[2])]
           rank == [j \in D |-> j]
<1>1. ASSUME NEW g \in [D -> A], NEW j \in D PROVE Body(g, j) \in A
  <2>1. CASE j = 0
    BY <2>1
  <2>2. CASE j # 0
    <3>1. j - 1 \in D /\ j \in 1 .. N
      BY <2>2
    <3> QED
      BY <2>2, <3>1
  <2> QED
    BY <2>1, <2>2
<1>2. body \in [[D -> A] \X D -> A] /\ \A g \in [D -> A], j \in D : body[<<g, j>>] = Body(g, j)
  <2> HIDE DEF Body, D
  <2> QED
    BY <1>1
<1>3. ASSUME NEW g \in [D -> A], NEW h \in [D -> A], NEW j \in D,
             \A i \in D : i < j => g[i] = h[i]
      PROVE  Body(g, j) = Body(h, j)
  <2>1. CASE j = 0
    BY <2>1
  <2>2. CASE j # 0
    <3>1. g[j - 1] = h[j - 1]
      BY <1>3, <2>2
    <3> QED
      BY <2>2, <3>1
  <2> QED
    BY <2>1, <2>2
<1>4. \A i, j \in D : rank[i] < rank[j] <=> i < j
  OBVIOUS
<1>5. rank \in [D -> 0 .. N]
  OBVIOUS
<1>6. \A g, h \in [D -> A] : \A j \in D :
        (\A i \in D : rank[i] < rank[j] => g[i] = h[i]) => body[<<g, j>>] = body[<<h, j>>]
  <2> HIDE DEF Body, D, body, rank
  <2> SUFFICES ASSUME NEW g \in [D -> A], NEW h \in [D -> A], NEW j \in D,
                      \A i \in D : rank[i] < rank[j] => g[i] = h[i]
               PROVE  body[<<g, j>>] = body[<<h, j>>]
    OBVIOUS
  <2>1. \A i \in D : i < j => g[i] = h[i]
    BY <1>4
  <2>2. Body(g, j) = Body(h, j)
    BY <1>3, <2>1
  <2> QED
    BY <1>2, <2>2
<1>7. PICK g \in [D -> A] : \A j \in D : g[j] = Body(g, j)
  <2> HIDE DEF Body, D, body, rank
  <2>1. Descends(D, A, N, rank, body)
    BY <1>2, <1>5, <1>6 DEF Descends
  <2>2. \E g : Solution(D, A, body, g)
    BY <2>1, RecursionExists
  <2> QED
    BY <1>2, <2>2 DEF Solution
<1>8. g[0] = base /\ \A k \in 1 .. N : g[k] = step[<<g[k - 1], k>>]
  <2>1. 0 \in D /\ \A k \in 1 .. N : k \in D /\ k # 0
    OBVIOUS
  <2>2. g[0] = Body(g, 0) /\ \A k \in 1 .. N : g[k] = Body(g, k)
    <3> HIDE DEF Body, D
    <3> QED
      BY <1>7, <2>1
  <2> QED
    BY <2>1, <2>2
<1> QED
  BY <1>7, <1>8

-----------------------------------------------------------------------------
(* The text of several texts                                               *)

\* FlattenSeq of the library, one text at a time.
LEMMA FlattenSteps ==
  ASSUME NEW S, NEW seqs \in Seq(Seq(S)), Len(seqs) # 0
  PROVE  \E flat \in [1 .. Len(seqs) -> Seq(S)] :
            /\ flat[1] = seqs[1] /\ FlattenSeq(seqs) = flat[Len(seqs)]
            /\ \A k \in 2 .. Len(seqs) : flat[k] = flat[k - 1] \o seqs[k]
<1> DEFINE N == Len(seqs)  D == 1 .. N  A == Seq(S)
           Body(f, i) == IF i = 1 THEN seqs[i] ELSE f[i - 1] \o seqs[i]
           flat == CHOOSE f : f = [i \in D |-> Body(f, i)]
           step == [x \in A \X D |-> IF x[2] = 1 THEN seqs[1] ELSE x[1] \o seqs[x[2]]]
<1>1. N \in Nat \ {0} /\ \A i \in D : seqs[i] \in A
  OBVIOUS
<1>2. FlattenSeq(seqs) = flat[N]
  BY DEF FlattenSeq
<1> HIDE DEF N
<1>3. step \in [A \X D -> A] /\ \A a \in A, i \in D : step[<<a, i>>] = IF i = 1 THEN seqs[1] ELSE a \o seqs[i]
  <2>1. \A a \in A, i \in D : a \o seqs[i] \in A
    BY <1>1
  <2>2. 1 \in D
    BY <1>1
  <2> HIDE DEF A, D
  <2> QED
    BY <1>1, <2>1, <2>2
<1>4. <<>> \in A
  OBVIOUS
<1>5. PICK g \in [0 .. N -> A] : g[0] = <<>> /\ \A k \in 1 .. N : g[k] = step[<<g[k - 1], k>>]
  <2>1. N \in Nat
    BY <1>1
  <2>2. step \in [A \X (1 .. N) -> A]
    BY <1>3
  <2> HIDE DEF A, step
  <2>3. Recurs(N, A, <<>>, step)
    BY <1>4, <2>1, <2>2 DEF Recurs
  <2>4. PICK g : RunsTo(N, A, <<>>, step, g)
    BY <2>3, Chain
  <2> QED
    BY <2>4 DEF RunsTo
<1>6. \A k \in D : k - 1 \in 0 .. N /\ g[k] \in A /\ g[k] = Body(g, k)
  <2> SUFFICES ASSUME NEW k \in D PROVE k - 1 \in 0 .. N /\ g[k] \in A /\ g[k] = Body(g, k)
    OBVIOUS
  <2>1. k - 1 \in 0 .. N /\ k \in 0 .. N
    BY <1>1
  <2>2. g[k - 1] \in A /\ g[k] \in A
    BY <2>1
  <2>3. g[k] = IF k = 1 THEN seqs[1] ELSE g[k - 1] \o seqs[k]
    BY <1>3, <1>5, <2>2
  <2> QED
    BY <2>1, <2>2, <2>3
<1>7. flat = [i \in D |-> Body(flat, i)]
  <2> DEFINE h == [k \in D |-> g[k]]
  <2>1. \A i \in D : Body(h, i) = Body(g, i)
    <3> SUFFICES ASSUME NEW i \in D PROVE Body(h, i) = Body(g, i)
      OBVIOUS
    <3>1. i # 1 => i - 1 \in D
      BY <1>1
    <3> QED
      BY <3>1
  <2>2. h = [i \in D |-> Body(h, i)]
    <3> HIDE DEF Body, D
    <3> QED
      BY <1>6, <2>1
  <2> HIDE DEF h, Body, D
  <2> QED
    BY <2>2
<1>8. DOMAIN flat = D /\ \A i \in D : flat[i] = Body(flat, i)
  <2> HIDE DEF flat, Body, D
  <2> QED
    BY <1>7
<1>9. flat[1] = seqs[1] /\ \A k \in 2 .. N : flat[k] = flat[k - 1] \o seqs[k]
  <2> HIDE DEF flat
  <2>1. 1 \in D /\ \A k \in 2 .. N : k \in D /\ k # 1
    BY <1>1
  <2>2. flat[1] = Body(flat, 1) /\ \A k \in 2 .. N : flat[k] = Body(flat, k)
    <3> HIDE DEF Body, D
    <3> QED
      BY <1>8, <2>1
  <2>3. ASSUME NEW k \in 2 .. N PROVE flat[k] = flat[k - 1] \o seqs[k]
    BY <2>1, <2>2
  <2>4. flat[1] = seqs[1]
    BY <2>2
  <2> QED
    BY <2>3, <2>4
<1>. HIDE DEF flat, Body
<1>12. \A a, b \in A : a \o b \in A
  OBVIOUS
<1>10. ASSUME NEW k \in D PROVE flat[k] \in A
  <2> DEFINE E == {i \in 0 .. k - 1 : flat[i + 1] \in A}
  <2>1. 0 \in E
    BY <1>1, <1>9
  <2>2. ASSUME NEW i \in 1 .. k - 1, i - 1 \in E PROVE i \in E
    <3>1. flat[i] \in A /\ i + 1 \in 2 .. N
      BY <1>1, <2>2
    <3>2. flat[i + 1] = flat[i] \o seqs[i + 1]
      <4>1. (i + 1) - 1 = i
        BY <1>1
      <4> QED
        BY <1>9, <3>1, <4>1
    <3>3. seqs[i + 1] \in A
      BY <1>1, <3>1
    <3> HIDE DEF A
    <3>4. flat[i + 1] \in A
      BY <1>12, <3>1, <3>2, <3>3
    <3> QED
      BY <2>2, <3>4
  <2>3. k - 1 \in Nat
    BY <1>1
  <2> DEFINE m == k - 1
  <2>4. m \in Nat /\ \A i \in 1 .. m : i - 1 \in E => i \in E
    BY <2>2, <2>3
  <2> HIDE DEF m, E
  <2>5. m \in E
    BY <2>1, <2>4, UpTo
  <2> USE DEF m, E
  <2> QED
    BY <2>5
<1>11. flat \in [1 .. N -> Seq(S)]
  BY <1>8, <1>10, <1>7
<1> QED
  BY <1>2, <1>9, <1>11 DEF N

\* Where the k-th of several texts stands in the text of all of them.
LEMMA FlattenIs ==
  ASSUME NEW S, NEW seqs \in Seq(Seq(S))
  PROVE  FlattenSeq(seqs) \in Seq(S) /\
         \E at \in [0 .. Len(seqs) -> Nat] :
            /\ at[0] = 0 /\ at[Len(seqs)] = Len(FlattenSeq(seqs))
            /\ \A k \in 1 .. Len(seqs) :
                /\ at[k] = at[k - 1] + Len(seqs[k])
                /\ \A i \in 1 .. Len(seqs[k]) : FlattenSeq(seqs)[at[k - 1] + i] = seqs[k][i]
<1> DEFINE N == Len(seqs)  F == FlattenSeq(seqs)
<1>1. N \in Nat /\ \A i \in 1 .. N : seqs[i] \in Seq(S)
  OBVIOUS
<1>2. CASE N = 0
  <2>1. F = <<>> /\ F \in Seq(S)
    <3>1. seqs = <<>>
      BY <1>2
    <3>2. FlattenSeq(seqs) = seqs
      BY <1>2 DEF FlattenSeq
    <3>3. F = <<>>
      BY <3>1, <3>2
    <3> HIDE DEF F
    <3> QED
      BY <3>3
  <2> HIDE DEF F
  <2>2. Len(F) = 0
    BY <2>1
  <2> DEFINE at == [k \in 0 .. N |-> 0]
  <2>3. at \in [0 .. N -> Nat] /\ at[0] = 0 /\ at[N] = Len(F)
    BY <1>2, <2>2
  <2>4. 1 .. N = {}
    BY <1>2
  <2> HIDE DEF at
  <2>5. \E aa \in [0 .. N -> Nat] : aa[0] = 0 /\ aa[N] = Len(F) /\ \A k \in 1 .. N :
            aa[k] = aa[k - 1] + Len(seqs[k]) /\ \A i \in 1 .. Len(seqs[k]) : F[aa[k - 1] + i] = seqs[k][i]
    BY <2>3, <2>4
  <2> QED
    BY <2>1, <2>5 DEF F
<1>3. CASE N # 0
  <2>1. PICK flat \in [1 .. N -> Seq(S)] :
            /\ flat[1] = seqs[1] /\ F = flat[N]
            /\ \A k \in 2 .. N : flat[k] = flat[k - 1] \o seqs[k]
    BY <1>3, FlattenSteps
  <2> HIDE DEF F, N
  <2>2. N \in Nat \ {0} /\ F \in Seq(S)
    BY <1>1, <1>3, <2>1
  <2> DEFINE at == [k \in 0 .. N |-> IF k = 0 THEN 0 ELSE Len(flat[k])]
  <2>3. at \in [0 .. N -> Nat] /\ at[0] = 0 /\ at[N] = Len(F) /\ \A k \in 1 .. N : at[k] = Len(flat[k])
    <3>1. \A k \in 1 .. N : Len(flat[k]) \in Nat
      OBVIOUS
    <3> QED
      BY <2>1, <2>2, <3>1
  <2> HIDE DEF at
  <2>4. ASSUME NEW k \in 1 .. N
        PROVE  at[k] = at[k - 1] + Len(seqs[k]) /\ \A i \in 1 .. Len(seqs[k]) : flat[k][at[k - 1] + i] = seqs[k][i]
    <3>1. CASE k = 1
      <4>1. Len(seqs[1]) \in Nat /\ seqs[k] = seqs[1] /\ at[k - 1] = 0 /\ at[k] = Len(seqs[1])
        BY <1>1, <2>1, <2>2, <2>3, <3>1
      <4> QED
        BY <2>1, <3>1, <4>1
    <3>2. CASE k # 1
      <4>1. k - 1 \in 1 .. N /\ k \in 2 .. N
        BY <2>2, <3>2
      <4> DEFINE u == flat[k - 1]  v == seqs[k]
      <4>2. u \in Seq(S) /\ v \in Seq(S) /\ flat[k] = u \o v /\ at[k - 1] = Len(u) /\ at[k] = Len(flat[k])
        BY <1>1, <2>1, <2>3, <4>1
      <4> HIDE DEF u, v
      <4>3. Len(u \o v) = Len(u) + Len(v) /\ \A i \in 1 .. Len(v) : (u \o v)[Len(u) + i] = v[i]
        BY <4>2
      <4>4. at[k] = at[k - 1] + Len(v) /\ \A i \in 1 .. Len(v) : flat[k][at[k - 1] + i] = v[i]
        BY <4>2, <4>3
      <4> QED
        BY <4>4 DEF v
    <3> QED
      BY <3>1, <3>2
  <2>5. ASSUME NEW k \in 1 .. N
        PROVE  at[k] <= Len(F) /\ \A i \in 1 .. at[k] : F[i] = flat[k][i]
    <3> DEFINE E == {d \in 0 .. N - k : at[k] <= at[k + d] /\ \A i \in 1 .. at[k] : flat[k + d][i] = flat[k][i]}
    <3>1. 0 \in E
      BY <2>2, <2>3
    <3>2. ASSUME NEW d \in 1 .. N - k, d - 1 \in E PROVE d \in E
      <4> DEFINE m == k + d
      <4>1. m \in 2 .. N /\ m - 1 \in 1 .. N /\ k + (d - 1) = m - 1
        BY <2>2
      <4>2. at[k] <= at[m - 1] /\ \A i \in 1 .. at[k] : flat[m - 1][i] = flat[k][i]
        BY <3>2, <4>1
      <4>3. flat[m - 1] \in Seq(S) /\ seqs[m] \in Seq(S) /\ flat[m] = flat[m - 1] \o seqs[m]
            /\ at[m - 1] = Len(flat[m - 1]) /\ at[m] = Len(flat[m]) /\ at[k] \in Nat
        <5>1. flat[m - 1] \in Seq(S) /\ seqs[m] \in Seq(S)
          BY <1>1, <4>1
        <5>2. flat[m] = flat[m - 1] \o seqs[m]
          BY <2>1, <4>1
        <5>3. at[m - 1] = Len(flat[m - 1]) /\ at[m] = Len(flat[m])
          BY <2>3, <4>1
        <5>4. at[k] \in Nat
          BY <2>2, <2>3
        <5> HIDE DEF m
        <5> QED
          BY <5>1, <5>2, <5>3, <5>4
      <4> HIDE DEF m
      <4>4. Len(flat[m]) = Len(flat[m - 1]) + Len(seqs[m])
            /\ \A i \in 1 .. Len(flat[m - 1]) : flat[m][i] = flat[m - 1][i]
        <5> DEFINE u == flat[m - 1]  v == seqs[m]
        <5>1. u \in Seq(S) /\ v \in Seq(S)
          BY <4>3
        <5> HIDE DEF u, v
        <5>2. Len(u \o v) = Len(u) + Len(v) /\ \A i \in 1 .. Len(u) : (u \o v)[i] = u[i]
          BY <5>1
        <5> QED
          BY <4>3, <5>2 DEF u, v
      <4>5. Len(seqs[m]) \in Nat /\ Len(flat[m - 1]) \in Nat
        BY <4>3
      <4>6. at[k] <= at[m]
        <5>1. at[k] <= at[m - 1] /\ at[k] \in Nat /\ at[m - 1] = Len(flat[m - 1]) /\ at[m] = Len(flat[m])
          BY <4>2, <4>3
        <5>2. Len(flat[m]) = Len(flat[m - 1]) + Len(seqs[m])
          BY <4>4
        <5> DEFINE a == at[m - 1]  b == Len(seqs[m])  c == at[k]
        <5>3. at[m] = a + b /\ a \in Nat /\ b \in Nat /\ c \in Nat /\ c <= a
          BY <4>5, <5>1, <5>2
        <5> HIDE DEF a, b, c
        <5>4. c <= a + b
          BY <5>3
        <5> QED
          BY <5>3, <5>4 DEF c
      <4>7. ASSUME NEW i \in 1 .. at[k] PROVE flat[m][i] = flat[k][i]
        <5>1. i \in 1 .. Len(flat[m - 1])
          BY <4>2, <4>3, <4>5
        <5> QED
          BY <4>2, <4>4, <5>1
      <4> QED
        BY <4>6, <4>7 DEF m
    <3> DEFINE w == N - k
    <3>3. w \in Nat /\ \A d \in 1 .. w : d - 1 \in E => d \in E
      BY <2>2, <3>2
    <3> HIDE DEF w, E
    <3>4. w \in E
      BY <3>1, <3>3, UpTo
    <3>5. k + w = N
      BY <2>2 DEF w
    <3> QED
      BY <2>1, <2>3, <3>4, <3>5 DEF E
  <2>6. ASSUME NEW k \in 1 .. N, NEW i \in 1 .. Len(seqs[k]) PROVE F[at[k - 1] + i] = seqs[k][i]
    <3>1. at[k] = at[k - 1] + Len(seqs[k]) /\ flat[k][at[k - 1] + i] = seqs[k][i]
      BY <2>4
    <3>2. at[k - 1] \in Nat /\ Len(seqs[k]) \in Nat
      BY <1>1, <2>2, <2>3
    <3>4. at[k] = at[k - 1] + Len(seqs[k])
      BY <2>4
    <3>3. at[k - 1] + i \in 1 .. at[k]
      BY <3>2, <3>4
    <3> QED
      BY <2>5, <3>1, <3>3
  <2>7. \A k \in 1 .. N :
            at[k] = at[k - 1] + Len(seqs[k]) /\ \A i \in 1 .. Len(seqs[k]) : F[at[k - 1] + i] = seqs[k][i]
    BY <2>4, <2>6
  <2>8. \E aa \in [0 .. N -> Nat] : aa[0] = 0 /\ aa[N] = Len(F) /\ \A k \in 1 .. N :
            aa[k] = aa[k - 1] + Len(seqs[k]) /\ \A i \in 1 .. Len(seqs[k]) : F[aa[k - 1] + i] = seqs[k][i]
    BY <2>3, <2>7
  <2> QED
    BY <2>2, <2>8 DEF F, N
<1> QED
  BY <1>2, <1>3

\* e is t with a backslash before each of its characters that is in W.
Spelled(t, e, W, pos) ==
    /\ pos \in [0 .. Len(t) -> Nat] /\ pos[0] = 0 /\ pos[Len(t)] = Len(e)
    /\ \A n \in 1 .. Len(t) :
        IF t[n] \in W THEN pos[n] = pos[n - 1] + 2 /\ e[pos[n - 1] + 1] = "\\" /\ e[pos[n - 1] + 2] = t[n]
        ELSE pos[n] = pos[n - 1] + 1 /\ e[pos[n - 1] + 1] = t[n]

\* One replacement.
LEMMA ReplaceIs ==
  ASSUME NEW t \in Seq(Searched), NEW c \in Searched
  PROVE  Replace(t, c) \in Seq(Searched) /\ \E pos : Spelled(t, Replace(t, c), {c}, pos)
<1> DEFINE seqs == [i \in DOMAIN t |-> IF t[i] = c THEN <<"\\", c>> ELSE <<t[i]>>]
           R == FlattenSeq(seqs)
<1>1. Len(t) \in Nat /\ DOMAIN t = 1 .. Len(t) /\ \A i \in 1 .. Len(t) : t[i] \in Searched
  OBVIOUS
<1>2. "\\" \in Searched
  BY DEF Searched, Wild
<1>3. seqs \in Seq(Seq(Searched)) /\ Len(seqs) = Len(t)
  <2>1. ASSUME NEW i \in 1 .. Len(t) PROVE (IF t[i] = c THEN <<"\\", c>> ELSE <<t[i]>>) \in Seq(Searched)
    <3>1. <<"\\", c>> \in Seq(Searched) /\ <<t[i]>> \in Seq(Searched)
      BY <1>1, <1>2
    <3> QED
      BY <3>1
  <2>2. seqs \in [1 .. Len(t) -> Seq(Searched)]
    BY <1>1, <2>1
  <2> HIDE DEF seqs
  <2> QED
    BY <1>1, <2>2
<1>4. Replace(t, c) = R
  BY DEF Replace
<1>5. ASSUME NEW n \in 1 .. Len(t)
      PROVE  IF t[n] = c THEN Len(seqs[n]) = 2 /\ seqs[n][1] = "\\" /\ seqs[n][2] = t[n]
             ELSE Len(seqs[n]) = 1 /\ seqs[n][1] = t[n]
  BY <1>1
<1> HIDE DEF seqs
<1>6. PICK at \in [0 .. Len(t) -> Nat] :
        /\ R \in Seq(Searched) /\ at[0] = 0 /\ at[Len(t)] = Len(R)
        /\ \A k \in 1 .. Len(t) :
            /\ at[k] = at[k - 1] + Len(seqs[k])
            /\ \A i \in 1 .. Len(seqs[k]) : R[at[k - 1] + i] = seqs[k][i]
  BY SMTT(30), <1>3, FlattenIs
<1> HIDE DEF R
<1>7. ASSUME NEW n \in 1 .. Len(t)
      PROVE  IF t[n] \in {c} THEN at[n] = at[n - 1] + 2 /\ R[at[n - 1] + 1] = "\\" /\ R[at[n - 1] + 2] = t[n]
             ELSE at[n] = at[n - 1] + 1 /\ R[at[n - 1] + 1] = t[n]
  <2>1. CASE t[n] = c
    <3>1. Len(seqs[n]) = 2 /\ seqs[n][1] = "\\" /\ seqs[n][2] = t[n]
      BY <1>5, <2>1
    <3>2. 1 \in 1 .. 2 /\ 2 \in 1 .. 2
      OBVIOUS
    <3>3. at[n] = at[n - 1] + 2 /\ R[at[n - 1] + 1] = seqs[n][1] /\ R[at[n - 1] + 2] = seqs[n][2]
      BY <1>6, <3>1, <3>2
    <3> QED
      BY <2>1, <3>1, <3>3
  <2>2. CASE t[n] # c
    <3>1. Len(seqs[n]) = 1 /\ seqs[n][1] = t[n]
      BY <1>5, <2>2
    <3>2. 1 \in 1 .. 1
      OBVIOUS
    <3>3. at[n] = at[n - 1] + 1 /\ R[at[n - 1] + 1] = seqs[n][1]
      BY <1>6, <3>1, <3>2
    <3> QED
      BY <2>2, <3>1, <3>3
  <2> QED
    BY <2>1, <2>2
<1>8. Spelled(t, R, {c}, at)
  BY <1>6, <1>7 DEF Spelled
<1> QED
  BY <1>4, <1>6, <1>8

\* A replacement after others leaves what they wrote, for no backslash is replaced again.
LEMMA ReplaceMore ==
  ASSUME NEW t \in Seq(Searched), NEW e \in Seq(Searched), NEW W, NEW pos, Spelled(t, e, W, pos),
         NEW c \in Searched \ {"\\"}, c \notin W
  PROVE  \E q : Spelled(t, Replace(e, c), W \cup {c}, q)
<1> DEFINE R == Replace(e, c)  N == Len(t)  M == Len(e)
<1>1. PICK at : Spelled(e, R, {c}, at)
  BY ReplaceIs
<1> HIDE DEF R
<1>2. N \in Nat /\ M \in Nat
  OBVIOUS
<1>3. /\ pos \in [0 .. N -> Nat] /\ pos[0] = 0 /\ pos[N] = M
      /\ \A n \in 1 .. N :
          IF t[n] \in W THEN pos[n] = pos[n - 1] + 2 /\ e[pos[n - 1] + 1] = "\\" /\ e[pos[n - 1] + 2] = t[n]
          ELSE pos[n] = pos[n - 1] + 1 /\ e[pos[n - 1] + 1] = t[n]
  BY DEF Spelled
<1>4. /\ at \in [0 .. M -> Nat] /\ at[0] = 0 /\ at[M] = Len(R)
      /\ \A k \in 1 .. M :
          IF e[k] = c THEN at[k] = at[k - 1] + 2 /\ R[at[k - 1] + 1] = "\\" /\ R[at[k - 1] + 2] = e[k]
          ELSE at[k] = at[k - 1] + 1 /\ R[at[k - 1] + 1] = e[k]
  BY <1>1 DEF Spelled
<1> HIDE DEF N, M
<1>5. ASSUME NEW n \in 0 .. N PROVE pos[n] \in 0 .. M
  <2> DEFINE E == {d \in 0 .. N - n : pos[n] <= pos[n + d]}
  <2>1. 0 \in E
    BY <1>2, <1>3
  <2>2. ASSUME NEW d \in 1 .. N - n, d - 1 \in E PROVE d \in E
    <3> DEFINE m == n + d
    <3>1. m \in 1 .. N /\ m - 1 \in 0 .. N /\ m \in 0 .. N /\ n + (d - 1) = m - 1
      BY <1>2
    <3>2. pos[n] <= pos[m - 1]
      BY <2>2, <3>1
    <3> HIDE DEF m
    <3>3. pos[m] \in Nat /\ pos[m - 1] \in Nat /\ pos[n] \in Nat /\ (pos[m] = pos[m - 1] + 2 \/ pos[m] = pos[m - 1] + 1)
      BY <1>3, <3>1
    <3>4. pos[n] <= pos[m]
      BY <3>2, <3>3
    <3> QED
      BY <3>4 DEF m
  <2> DEFINE w == N - n
  <2>3. w \in Nat /\ \A d \in 1 .. w : d - 1 \in E => d \in E
    BY <1>2, <2>2
  <2> HIDE DEF w, E
  <2>4. w \in E
    BY <2>1, <2>3, UpTo
  <2>5. n + w = N
    BY <1>2 DEF w
  <2>6. pos[n] <= pos[N] /\ pos[n] \in Nat
    BY <1>3, <2>4, <2>5 DEF E
  <2> QED
    BY <1>2, <1>3, <2>6
<1> DEFINE q == [n \in 0 .. N |-> at[pos[n]]]
<1>6. q \in [0 .. N -> Nat] /\ q[0] = 0 /\ q[N] = Len(R) /\ \A n \in 0 .. N : q[n] = at[pos[n]]
  <2>1. ASSUME NEW n \in 0 .. N PROVE at[pos[n]] \in Nat
    BY <1>4, <1>5
  <2> QED
    BY <1>2, <1>3, <1>4, <2>1
<1> HIDE DEF q
<1>7. ASSUME NEW n \in 1 .. N
      PROVE  IF t[n] \in W \cup {c} THEN q[n] = q[n - 1] + 2 /\ R[q[n - 1] + 1] = "\\" /\ R[q[n - 1] + 2] = t[n]
             ELSE q[n] = q[n - 1] + 1 /\ R[q[n - 1] + 1] = t[n]
  <2> DEFINE p == pos[n - 1]
  <2>1. n - 1 \in 0 .. N /\ n \in 0 .. N
    BY <1>2
  <2>2. p \in 0 .. M /\ pos[n] \in 0 .. M /\ q[n - 1] = at[p] /\ q[n] = at[pos[n]]
    BY <1>5, <1>6, <2>1
  <2>3. IF t[n] \in W THEN pos[n] = p + 2 /\ e[p + 1] = "\\" /\ e[p + 2] = t[n]
        ELSE pos[n] = p + 1 /\ e[p + 1] = t[n]
    BY <1>3
  <2> HIDE DEF p
  <2>4. at[p] \in Nat
    BY <1>4, <2>2
  <2>5. CASE t[n] \in W
    <3>6. pos[n] = p + 2
      BY <2>3, <2>5
    <3>1. p + 1 \in 1 .. M /\ p + 2 \in 1 .. M /\ (p + 1) - 1 = p /\ (p + 2) - 1 = p + 1
      BY <1>2, <2>2, <3>6
    <3>2. e[p + 1] # c /\ e[p + 2] # c /\ e[p + 1] = "\\" /\ e[p + 2] = t[n] /\ pos[n] = p + 2
      BY <2>3, <2>5
    <3>3. at[p + 1] = at[p] + 1 /\ R[at[p] + 1] = e[p + 1]
      BY <1>4, <3>1, <3>2
    <3>4. at[p + 2] = at[p + 1] + 1 /\ R[at[p + 1] + 1] = e[p + 2]
      BY <1>4, <3>1, <3>2
    <3>5. at[p + 2] = at[p] + 2 /\ at[p + 1] + 1 = at[p] + 2
      BY <2>4, <3>3, <3>4
    <3> QED
      BY <2>2, <2>5, <3>2, <3>3, <3>4, <3>5
  <2>6. CASE t[n] \notin W
    <3>1. p + 1 \in 1 .. M /\ (p + 1) - 1 = p /\ e[p + 1] = t[n] /\ pos[n] = p + 1
      BY <1>2, <2>2, <2>3, <2>6
    <3>2. IF e[p + 1] = c THEN at[p + 1] = at[p] + 2 /\ R[at[p] + 1] = "\\" /\ R[at[p] + 2] = e[p + 1]
          ELSE at[p + 1] = at[p] + 1 /\ R[at[p] + 1] = e[p + 1]
      BY <1>4, <3>1
    <3> QED
      BY <2>2, <2>6, <3>1, <3>2
  <2> QED
    BY <2>5, <2>6
<1>8. Spelled(t, R, W \cup {c}, q)
  BY <1>6, <1>7 DEF Spelled, N
<1> QED
  BY <1>8 DEF R

\* A backslash before each wild character of the term, and nothing else.
LEMMA Escaped ==
  ASSUME NEW t \in Seq(Searched)
  PROVE  escape_like(t) \in Seq(Searched) /\ \E pos : Spelled(t, escape_like(t), Wild, pos)
<1> DEFINE a == Replace(t, "\\")  b == Replace(a, "%")  c == Replace(b, "_")
<1>1. "\\" \in Searched /\ "%" \in Searched \ {"\\"} /\ "_" \in Searched \ {"\\"} /\ "%" \notin {"\\"}
      /\ "_" \notin {"\\"} \cup {"%"} /\ {"\\"} \cup {"%"} \cup {"_"} = Wild
  BY DEF Searched, Wild
<1>2. a \in Seq(Searched) /\ \E pos : Spelled(t, a, {"\\"}, pos)
  BY <1>1, ReplaceIs
<1> HIDE DEF a
<1>3. b \in Seq(Searched)
  BY <1>1, <1>2, ReplaceIs
<1>4. \E pos : Spelled(t, b, {"\\"} \cup {"%"}, pos)
  BY <1>1, <1>2, ReplaceMore
<1> HIDE DEF b
<1>5. c \in Seq(Searched)
  BY <1>1, <1>3, ReplaceIs
<1>6. \E pos : Spelled(t, c, {"\\"} \cup {"%"} \cup {"_"}, pos)
  BY <1>1, <1>3, <1>4, ReplaceMore
<1>7. escape_like(t) = c
  BY DEF escape_like, a, b
<1> HIDE DEF c
<1> QED
  BY <1>1, <1>5, <1>6, <1>7

\* A pattern that is the escaped term between two %: from the place of the n-th
\* character on, it matches where the rest of the term is.
RestOf(s, t, n) ==
    {i \in 1 .. Len(s) + 1 : i + (Len(t) - n) <= Len(s) + 1 /\ \A k \in 1 .. Len(t) - n : s[i + k - 1] = t[n + k]}

LEMMA RestStep ==
  ASSUME NEW s \in Seq(Searched), NEW t \in Seq(Searched), NEW n \in 1 .. Len(t)
  PROVE  RestOf(s, t, n - 1) = {i \in DOMAIN s : s[i] = t[n] /\ i + 1 \in RestOf(s, t, n)}
<1> DEFINE N == Len(t)  L == Len(s)
<1>1. N \in Nat /\ L \in Nat /\ DOMAIN s = 1 .. L
  OBVIOUS
<1>2. \A i : i \in RestOf(s, t, n - 1) <=>
        i \in 1 .. L + 1 /\ i + (N - (n - 1)) <= L + 1 /\ \A k \in 1 .. N - (n - 1) : s[i + k - 1] = t[(n - 1) + k]
  BY DEF RestOf
<1>3. \A i : i \in RestOf(s, t, n) <=>
        i \in 1 .. L + 1 /\ i + (N - n) <= L + 1 /\ \A k \in 1 .. N - n : s[i + k - 1] = t[n + k]
  BY DEF RestOf
<1> HIDE DEF N, L
<1>4. ASSUME NEW i \in RestOf(s, t, n - 1) PROVE i \in 1 .. L /\ s[i] = t[n] /\ i + 1 \in RestOf(s, t, n)
  <2>1. i \in 1 .. L + 1 /\ i + (N - (n - 1)) <= L + 1
    BY <1>2
  <2>2. i \in 1 .. L /\ i + 1 \in 1 .. L + 1 /\ (i + 1) + (N - n) <= L + 1
    BY <1>1, <2>1 DEF N
  <2>3. \A k \in 1 .. N - (n - 1) : s[i + k - 1] = t[(n - 1) + k]
    BY <1>2
  <2>4. s[i] = t[n]
    <3>1. 1 \in 1 .. N - (n - 1) /\ i + 1 - 1 = i /\ (n - 1) + 1 = n
      BY <1>1, <2>2 DEF N
    <3> QED
      BY <2>3, <3>1
  <2>5. ASSUME NEW k \in 1 .. N - n PROVE s[(i + 1) + k - 1] = t[n + k]
    <3>1. k + 1 \in 1 .. N - (n - 1) /\ i + (k + 1) - 1 = (i + 1) + k - 1 /\ (n - 1) + (k + 1) = n + k
      BY <1>1, <2>2 DEF N
    <3> QED
      BY <2>3, <3>1
  <2> QED
    BY <1>3, <2>2, <2>4, <2>5
<1>5. ASSUME NEW i \in 1 .. L, s[i] = t[n], i + 1 \in RestOf(s, t, n) PROVE i \in RestOf(s, t, n - 1)
  <2>1. (i + 1) + (N - n) <= L + 1
    BY <1>3, <1>5
  <2>2. i \in 1 .. L + 1 /\ i + (N - (n - 1)) <= L + 1
    BY <1>1, <2>1 DEF N
  <2>3. \A k \in 1 .. N - n : s[(i + 1) + k - 1] = t[n + k]
    BY <1>3, <1>5
  <2>4. ASSUME NEW k \in 1 .. N - (n - 1) PROVE s[i + k - 1] = t[(n - 1) + k]
    <3>1. CASE k = 1
      <4>1. i + k - 1 = i /\ (n - 1) + k = n
        BY <1>1, <3>1 DEF N
      <4> QED
        BY <1>5, <4>1
    <3>2. CASE k # 1
      <4>1. k - 1 \in 1 .. N - n /\ (i + 1) + (k - 1) - 1 = i + k - 1 /\ n + (k - 1) = (n - 1) + k
        BY <1>1, <3>2 DEF N
      <4> QED
        BY <2>3, <4>1
    <3> QED
      BY <3>1, <3>2
  <2> QED
    BY <1>2, <2>2, <2>4
<1> QED
  BY <1>1, <1>4, <1>5

LEMMA RestHas ==
  ASSUME NEW s \in Seq(Searched), NEW t \in Seq(Searched)
  PROVE  (\E i \in RestOf(s, t, 0) : TRUE) <=> Has(s, t)
<1> DEFINE N == Len(t)  L == Len(s)
<1>1. N \in Nat /\ L \in Nat /\ DOMAIN s = 1 .. L /\ DOMAIN t = 1 .. N /\ s \in [1 .. L -> Searched]
  OBVIOUS
<1>2. \A i : i \in RestOf(s, t, 0) <=>
        i \in 1 .. L + 1 /\ i + (N - 0) <= L + 1 /\ \A k \in 1 .. N - 0 : s[i + k - 1] = t[0 + k]
  BY DEF RestOf
<1>3. Has(s, t) <=> \E i \in 0 .. L - N : SubSeq(s, i + 1, i + N) = t
  BY DEF Has
<1>4. ASSUME NEW i \in 0 .. L - N
      PROVE  SubSeq(s, i + 1, i + N) = t <=> \A k \in 1 .. N : s[i + k] = t[k]
  <2> HIDE DEF N, L
  <2>1. i + 1 \in Int /\ i + N \in Int /\ (i + N) - (i + 1) + 1 = N
    BY <1>1
  <2>2. \A j \in (i + 1) .. (i + N) : s[j] \in Searched
    <3>1. \A j \in (i + 1) .. (i + N) : j \in 1 .. L
      BY <1>1
    <3> QED
      BY <1>1, <3>1
  <2> DEFINE sub == SubSeq(s, i + 1, i + N)
  <2>3. sub \in Seq(Searched) /\ Len(sub) = (IF i + 1 <= i + N THEN (i + N) - (i + 1) + 1 ELSE 0)
        /\ \A k \in 1 .. (i + N) - (i + 1) + 1 : sub[k] = s[(i + 1) + k - 1]
    BY <2>1, <2>2, SubSeqProperties
  <2> HIDE DEF sub
  <2>4. Len(sub) = N
    BY <1>1, <2>1, <2>3
  <2>5. \A k \in 1 .. N : sub[k] = s[i + k]
    <3>1. \A k \in 1 .. N : (i + 1) + k - 1 = i + k
      BY <1>1
    <3> QED
      BY <2>1, <2>3, <3>1
  <2>6. (\A k \in 1 .. N : sub[k] = t[k]) => sub = t
    BY <2>3, <2>4, SeqEqual DEF N
  <2> QED
    BY <2>5, <2>6 DEF sub
<1>. HIDE DEF N, L
<1>5. ASSUME NEW i \in RestOf(s, t, 0) PROVE Has(s, t)
  <2>1. i \in 1 .. L + 1 /\ i + (N - 0) <= L + 1 /\ \A k \in 1 .. N - 0 : s[i + k - 1] = t[0 + k]
    BY <1>2
  <2>2. i - 1 \in 0 .. L - N /\ N - 0 = N
    BY <1>1, <2>1
  <2>3. ASSUME NEW k \in 1 .. N PROVE s[(i - 1) + k] = t[k]
    <3>1. (i - 1) + k = i + k - 1 /\ 0 + k = k
      <4>1. i \in Int /\ k \in Int
        BY <2>1
      <4> QED
        BY <4>1
    <3> QED
      BY <2>1, <2>2, <3>1
  <2>4. SubSeq(s, (i - 1) + 1, (i - 1) + N) = t
    BY <1>4, <2>2, <2>3
  <2> QED
    BY <1>3, <2>2, <2>4
<1>6. ASSUME NEW i \in 0 .. L - N, SubSeq(s, i + 1, i + N) = t PROVE i + 1 \in RestOf(s, t, 0)
  <2>1. \A k \in 1 .. N : s[i + k] = t[k]
    BY <1>4, <1>6
  <2>2. i + 1 \in 1 .. L + 1 /\ (i + 1) + (N - 0) <= L + 1
    BY <1>1
  <2>3. ASSUME NEW k \in 1 .. N - 0 PROVE s[(i + 1) + k - 1] = t[0 + k]
    <3>1. k \in 1 .. N /\ (i + 1) + k - 1 = i + k /\ 0 + k = k
      BY <1>1
    <3> QED
      BY <2>1, <3>1
  <2> QED
    BY <1>2, <2>2, <2>3
<1> QED
  BY <1>3, <1>5, <1>6

Joins(S, u, v, w) ==
    /\ w \in Seq(S) /\ Len(w) = Len(u) + Len(v)
    /\ \A i \in 1 .. Len(u) : w[i] = u[i]
    /\ \A i \in 1 .. Len(v) : w[Len(u) + i] = v[i]

LEMMA Joined ==
  ASSUME NEW S, NEW u \in Seq(S), NEW v \in Seq(S)
  PROVE  Joins(S, u, v, u \o v)
  BY DEF Joins

\* The pattern of a search finds what has the term in it.
LEMMA Found ==
  ASSUME NEW s \in Seq(Searched), NEW t \in Seq(Searched)
  PROVE  Like(s, <<"%">> \o escape_like(t) \o <<"%">>) <=> Has(s, t)
<1> DEFINE e == escape_like(t)  P == <<"%">> \o e \o <<"%">>  N == Len(t)  M == Len(e)  L == Len(s)
<1>1. PICK pos : Spelled(t, e, Wild, pos)
  BY Escaped
<1>2. e \in Seq(Searched) /\ "%" \in Searched
  BY Escaped DEF Searched, Wild
<1> HIDE DEF e
<1>3. P \in Seq(Searched) /\ Len(P) = M + 2 /\ M \in Nat /\ P[1] = "%" /\ P[M + 2] = "%" /\ \A i \in 1 .. M : P[i + 1] = e[i]
  <2> DEFINE u == <<"%">>  v == u \o e
  <2>1. u \in Seq(Searched) /\ Len(u) = 1 /\ u[1] = "%" /\ M \in Nat
    BY <1>2
  <2>6. Len(e) = M
    OBVIOUS
  <2> HIDE DEF u, M
  <2>2. v \in Seq(Searched) /\ Len(v) = 1 + M /\ v[1] = "%" /\ \A i \in 1 .. M : v[i + 1] = e[i]
    <3>1. /\ v \in Seq(Searched) /\ Len(v) = 1 + M
          /\ \A i \in 1 .. 1 : v[i] = u[i]
          /\ \A i \in 1 .. M : v[1 + i] = e[i]
      <4>1. Joins(Searched, u, e, v)
        BY <1>2, <2>1, Joined
      <4> HIDE DEF v
      <4> QED
        BY <2>1, <2>6, <4>1 DEF Joins
    <3>2. 1 \in 1 .. 1 /\ \A i \in 1 .. M : 1 + i = i + 1
      BY <2>1
    <3> HIDE DEF v
    <3> QED
      BY <2>1, <3>1, <3>2
  <2> HIDE DEF v
  <2>3. P = v \o u
    BY DEF v, u
  <2> HIDE DEF P
  <2>4. P \in Seq(Searched) /\ Len(P) = (1 + M) + 1 /\ P[(1 + M) + 1] = "%" /\ \A i \in 1 .. 1 + M : P[i] = v[i]
    <3>1. /\ v \o u \in Seq(Searched) /\ Len(v \o u) = (1 + M) + 1
          /\ \A i \in 1 .. 1 + M : (v \o u)[i] = v[i]
          /\ \A i \in 1 .. 1 : (v \o u)[(1 + M) + i] = u[i]
      <4>1. Joins(Searched, v, u, v \o u)
        BY <2>1, <2>2, Joined
      <4> DEFINE w == v \o u
      <4>2. Joins(Searched, v, u, w)
        BY <4>1
      <4> HIDE DEF w
      <4>3. /\ w \in Seq(Searched) /\ Len(w) = (1 + M) + 1
            /\ \A i \in 1 .. 1 + M : w[i] = v[i]
            /\ \A i \in 1 .. 1 : w[(1 + M) + i] = u[i]
        BY <2>1, <2>2, <4>2 DEF Joins
      <4> QED
        BY <4>3 DEF w
    <3>2. 1 \in 1 .. 1
      OBVIOUS
    <3> QED
      BY <2>1, <2>3, <3>1, <3>2
  <2>5. (1 + M) + 1 = M + 2 /\ 1 \in 1 .. 1 + M /\ \A i \in 1 .. M : i + 1 \in 1 .. 1 + M
    BY <2>1
  <2> QED
    BY <2>1, <2>2, <2>4, <2>5
<1> HIDE DEF P
<1>4. PICK from \in [1 .. Len(P) + 1 -> SUBSET (1 .. L + 1)] :
        /\ Like(s, P) <=> 1 \in from[1]
        /\ from[Len(P) + 1] = {L + 1}
        /\ \A j \in 1 .. Len(P) :
            /\ P[j] = "%" => from[j] = UNION {1 .. i : i \in from[j + 1]}
            /\ P[j] = "\\" => from[j] = {i \in DOMAIN s : j < Len(P) /\ s[i] = P[j + 1] /\ i + 1 \in from[j + 2]}
            /\ P[j] \notin Wild => from[j] = {i \in DOMAIN s : s[i] = P[j] /\ i + 1 \in from[j + 1]}
  BY <1>2, <1>3, LikeIs
<1>5. N \in Nat /\ L \in Nat /\ \A n \in 1 .. N : t[n] \in Searched
  OBVIOUS
<1>6. /\ pos \in [0 .. N -> Nat] /\ pos[0] = 0 /\ pos[N] = M
      /\ \A n \in 1 .. N :
          IF t[n] \in Wild THEN pos[n] = pos[n - 1] + 2 /\ e[pos[n - 1] + 1] = "\\" /\ e[pos[n - 1] + 2] = t[n]
          ELSE pos[n] = pos[n - 1] + 1 /\ e[pos[n - 1] + 1] = t[n]
  BY <1>1 DEF Spelled
<1> HIDE DEF N, M, L
<1>7. from[M + 2] = RestOf(s, t, N)
  <2>1. M + 2 \in 1 .. Len(P) /\ (M + 2) + 1 = Len(P) + 1
    BY <1>3
  <2>2. from[M + 2] = UNION {1 .. i : i \in {L + 1}}
    BY <1>3, <1>4, <2>1
  <2>3. UNION {1 .. i : i \in {L + 1}} = 1 .. L + 1
    BY <1>5
  <2>4. \A i \in 1 .. L + 1 : i + (N - N) <= L + 1 /\ 1 .. N - N = {}
    BY <1>5
  <2>5. RestOf(s, t, N) = 1 .. L + 1
    BY <2>4 DEF RestOf, N, L
  <2> QED
    BY <2>2, <2>3, <2>5
<1>8. ASSUME NEW n \in 1 .. N, pos[n] <= M, from[pos[n] + 2] = RestOf(s, t, n)
      PROVE  pos[n - 1] <= M /\ from[pos[n - 1] + 2] = RestOf(s, t, n - 1)
  <2> DEFINE p == pos[n - 1]
  <2>1. p \in Nat /\ pos[n] \in Nat
    BY <1>5, <1>6
  <2>2. IF t[n] \in Wild THEN pos[n] = p + 2 /\ e[p + 1] = "\\" /\ e[p + 2] = t[n]
        ELSE pos[n] = p + 1 /\ e[p + 1] = t[n]
    BY <1>6
  <2> HIDE DEF p
  <2>3. p < M /\ p + 2 \in 1 .. Len(P) /\ p + 1 \in 1 .. M /\ (p + 1) + 1 = p + 2 /\ p + 2 < Len(P)
    BY <1>3, <1>8, <2>1, <2>2
  <2>4. P[p + 2] = e[p + 1]
    BY <1>3, <2>3
  <2>5. from[p + 2] = {i \in DOMAIN s : s[i] = t[n] /\ i + 1 \in RestOf(s, t, n)}
    <3>1. CASE t[n] \in Wild
      <4>1. pos[n] = p + 2 /\ e[p + 1] = "\\" /\ e[p + 2] = t[n]
        BY <2>2, <3>1
      <4>2. p + 2 \in 1 .. M /\ (p + 2) + 1 = p + 3 /\ (p + 2) + 2 = pos[n] + 2
        BY <1>3, <1>8, <2>1, <4>1
      <4>3. P[(p + 2) + 1] = t[n]
        BY <1>3, <4>1, <4>2
      <4>4. P[p + 2] = "\\"
        BY <2>4, <4>1
      <4>5. from[p + 2] = {i \in DOMAIN s : p + 2 < Len(P) /\ s[i] = P[(p + 2) + 1] /\ i + 1 \in from[(p + 2) + 2]}
        BY <1>4, <2>3, <4>4
      <4>6. from[(p + 2) + 2] = RestOf(s, t, n)
        BY <1>8, <4>2
      <4> QED
        BY <2>3, <4>3, <4>5, <4>6
    <3>2. CASE t[n] \notin Wild
      <4>1. pos[n] = p + 1 /\ e[p + 1] = t[n]
        BY <2>2, <3>2
      <4>2. P[p + 2] = t[n]
        BY <2>4, <4>1
      <4>3. (p + 2) + 1 = pos[n] + 2
        BY <2>1, <4>1
      <4>4. from[p + 2] = {i \in DOMAIN s : s[i] = P[p + 2] /\ i + 1 \in from[(p + 2) + 1]}
        BY <1>4, <2>3, <3>2, <4>2
      <4>5. from[(p + 2) + 1] = RestOf(s, t, n)
        BY <1>8, <4>3
      <4> QED
        BY <4>2, <4>4, <4>5
    <3> QED
      BY <3>1, <3>2
  <2>6. RestOf(s, t, n - 1) = {i \in DOMAIN s : s[i] = t[n] /\ i + 1 \in RestOf(s, t, n)}
    BY RestStep DEF N
  <2>7. p <= M
    BY <1>3, <2>1, <2>3
  <2>8. from[p + 2] = RestOf(s, t, n - 1)
    BY <2>5, <2>6
  <2> QED
    BY <2>7, <2>8 DEF p
<1>9. from[2] = RestOf(s, t, 0)
  <2> DEFINE E == {k \in 0 .. N : pos[N - k] <= M /\ from[pos[N - k] + 2] = RestOf(s, t, N - k)}
  <2>1. 0 \in E
    <3>1. N - 0 = N /\ pos[N] = M /\ M <= M /\ 0 \in 0 .. N
      BY <1>3, <1>5, <1>6
    <3> QED
      BY <1>7, <3>1
  <2>2. ASSUME NEW k \in 1 .. N, k - 1 \in E PROVE k \in E
    <3> DEFINE n == N - (k - 1)
    <3>1. n \in 1 .. N /\ n - 1 = N - k /\ k \in 0 .. N
      BY <1>5
    <3>2. pos[n] <= M /\ from[pos[n] + 2] = RestOf(s, t, n)
      BY <2>2
    <3> HIDE DEF n
    <3>3. pos[n - 1] <= M /\ from[pos[n - 1] + 2] = RestOf(s, t, n - 1)
      BY <1>8, <3>1, <3>2
    <3> QED
      BY <3>1, <3>3
  <2>3. N \in Nat /\ \A k \in 1 .. N : k - 1 \in E => k \in E
    BY <1>5, <2>2
  <2> HIDE DEF E
  <2>4. N \in E
    BY <2>1, <2>3, UpTo
  <2>5. N - N = 0 /\ pos[0] + 2 = 2
    BY <1>5, <1>6
  <2> QED
    BY <2>4, <2>5 DEF E
<1>10. 1 \in from[1] <=> \E i \in RestOf(s, t, 0) : TRUE
  <2>1. 1 \in 1 .. Len(P) /\ 1 + 1 = 2
    BY <1>3
  <2>2. from[1] = UNION {1 .. i : i \in from[2]}
    BY <1>3, <1>4, <2>1
  <2>3. \A i \in RestOf(s, t, 0) : 1 \in 1 .. i
    <3>1. \A i \in RestOf(s, t, 0) : i \in 1 .. L + 1
      BY DEF RestOf, L
    <3> QED
      BY <1>5, <3>1
  <2> QED
    BY <1>9, <2>2, <2>3
<1> QED
  BY <1>4, <1>10, RestHas DEF P, e

LEMMA FoundAsWritten == ASSUME QueriesTypeOK PROVE SearchedAsWritten
<1>1. term \in Seq(Searched)
  BY DEF QueriesTypeOK, Searched
<1>2. \A s \in BoundedSeq(Wild \cup Letters, MaxTerm) : s \in Seq(Searched)
  <2> SUFFICES ASSUME NEW s \in BoundedSeq(Searched, MaxTerm) PROVE s \in Seq(Searched)
    BY DEF Searched
  <2>1. PICK m \in 0 .. MaxTerm : s \in [1 .. m -> Searched]
    BY DEF BoundedSeq, SeqOf
  <2>2. m \in Nat
    <3>1. MaxTerm \in Nat
      BY Zenon, QueriesAssumption
    <3> QED
      BY <3>1
  <2>3. Seq(Searched) = UNION {[1 .. n -> Searched] : n \in Nat}
    BY SeqDef
  <2> QED
    BY Zenon, <2>1, <2>2, <2>3
<1> QED
  BY <1>1, <1>2, Found DEF SearchedAsWritten

-----------------------------------------------------------------------------
(* Words, quotes and casts of a statement                                  *)

LEMMA LettersApart == "'" \notin Letters /\ ":" \notin Letters /\ "$" \notin Letters
  BY Zenon, QueriesAssumption

LEMMA LeastOf ==
  ASSUME NEW here \in SUBSET Nat, here # {}
  PROVE  Min(here) \in here /\ \A y \in here : Min(here) <= y
<1> DEFINE Less == {ss \in Nat \X Nat : ss[1] < ss[2]}
<1>1. IsWellFoundedOn(Less, Nat)
  BY NatLessThanWellFounded DEF OpToRel
<1>2. PICK k \in here : \A j \in here : <<j, k>> \notin Less
  BY <1>1, WFMin
<1>3. \A j \in here : k <= j
  <2>1. ASSUME NEW j \in here, j < k PROVE FALSE
    BY <1>2, <2>1
  <2> QED
    BY <2>1
<1> QED
  BY <1>3 DEF Min

LEMMA GreatestOf ==
  ASSUME NEW N \in Nat, NEW here \in SUBSET (0 .. N), here # {}
  PROVE  Max(here) \in here /\ \A y \in here : y <= Max(here)
<1> DEFINE under == {N - y : y \in here}
<1>1. under \in SUBSET Nat /\ under # {}
  <2>1. \A y \in here : N - y \in Nat
    OBVIOUS
  <2>2. \E y \in here : N - y \in under
    OBVIOUS
  <2> QED
    BY <2>1, <2>2
<1>2. Min(under) \in under /\ \A u \in under : Min(under) <= u
  BY <1>1, LeastOf
<1>3. PICK x \in here : Min(under) = N - x
  BY <1>2
<1>4. \A y \in here : y <= x
  <2>1. \A y \in here : N - y \in under
    OBVIOUS
  <2>2. \A y \in here : N - x <= N - y
    BY <1>2, <1>3, <2>1
  <2> QED
    BY <2>2
<1>5. \E z \in here : \A y \in here : z >= y
  BY <1>4
<1> QED
  BY <1>5 DEF Max

\* \w+ takes the whole of a word.
LEMMA WordIs ==
  ASSUME NEW t \in Seq(Characters), NEW p \in 1 .. Len(t), t[p] \in Letters
  PROVE  /\ WordEnd(t, p) \in p .. Len(t)
         /\ \A q \in p .. WordEnd(t, p) : t[q] \in Letters
         /\ WordEnd(t, p) < Len(t) => t[WordEnd(t, p) + 1] \notin Letters
<1> DEFINE N == Len(t)  here == {r \in p .. N : \A q \in p .. r : t[q] \in Letters}  w == WordEnd(t, p)
<1>1. N \in Nat /\ p \in 1 .. N
  OBVIOUS
<1>2. w = Max(here)
  BY DEF WordEnd
<1> HIDE DEF N, w
<1>3. here \in SUBSET (0 .. N) /\ p \in here
  <2>1. \A q \in p .. p : q = p
    BY <1>1
  <2> QED
    BY <1>1, <2>1
<1>4. w \in here /\ \A y \in here : y <= w
  <2> HIDE DEF here
  <2> QED
    BY <1>1, <1>2, <1>3, GreatestOf
<1>5. ASSUME w < N, t[w + 1] \in Letters PROVE FALSE
  <2>1. w \in p .. N /\ \A q \in p .. w : t[q] \in Letters
    BY <1>4
  <2>2. w + 1 \in p .. N /\ \A q \in p .. w + 1 : q \in p .. w \/ q = w + 1
    BY <1>1, <1>5, <2>1
  <2>3. w + 1 \in here
    BY <1>5, <2>1, <2>2
  <2>4. w + 1 <= w /\ w \in Int
    BY <1>1, <1>4, <2>1, <2>3
  <2> QED
    BY <2>4
<1> QED
  BY <1>4, <1>5 DEF N, w

\* The quotes up to e, if none follows p.
LEMMA QuotesAre ==
  ASSUME NEW t \in Seq(Characters), NEW p \in 1 .. Len(t), NEW e \in p .. Len(t),
         \A q \in p + 1 .. e : t[q] # "'"
  PROVE  /\ Quotes(t, 1 .. e) \in Nat /\ Quotes(t, 1 .. p - 1) \in Nat
         /\ Quotes(t, 1 .. e) = IF t[p] = "'" THEN Quotes(t, 1 .. p - 1) + 1 ELSE Quotes(t, 1 .. p - 1)
<1> DEFINE N == Len(t)
           Q(k) == {q \in (1 .. k) \cap DOMAIN t : t[q] = "'"}
<1>1. N \in Nat /\ DOMAIN t = 1 .. N
  OBVIOUS
<1>2. \A k \in 0 .. N : IsFiniteSet(Q(k)) /\ Cardinality(Q(k)) \in Nat
  <2> SUFFICES ASSUME NEW k \in 0 .. N PROVE IsFiniteSet(Q(k)) /\ Cardinality(Q(k)) \in Nat
    OBVIOUS
  <2>1. IsFiniteSet(1 .. k)
    BY FS_Interval
  <2>2. Q(k) \in SUBSET (1 .. k)
    OBVIOUS
  <2> HIDE DEF Q
  <2>3. IsFiniteSet(Q(k))
    BY <2>1, <2>2, FS_Subset
  <2> QED
    BY <2>3, FS_CardinalityType
<1>3. \A k : Quotes(t, 1 .. k) = Cardinality(Q(k))
  BY DEF Quotes
<1>4. p - 1 \in 0 .. N /\ e \in 0 .. N
  BY <1>1
<1>5. CASE t[p] = "'"
  <2>1. Q(e) = Q(p - 1) \cup {p} /\ p \notin Q(p - 1)
    <3>1. \A q \in 1 .. e : q \in 1 .. p - 1 \/ q = p \/ q \in p + 1 .. e
      OBVIOUS
    <3>2. p \in DOMAIN t /\ p \in 1 .. e /\ p \notin 1 .. p - 1 /\ \A q \in 1 .. p - 1 : q \in 1 .. e
      BY <1>1
    <3> QED
      BY <1>5, <3>1, <3>2
  <2> HIDE DEF Q
  <2>2. Cardinality(Q(e)) = Cardinality(Q(p - 1)) + 1
    BY <1>2, <1>4, <2>1, FS_AddElement
  <2> QED
    BY <1>2, <1>3, <1>4, <1>5, <2>2
<1>6. CASE t[p] # "'"
  <2>1. Q(e) = Q(p - 1)
    <3>1. \A q \in 1 .. e : q \in 1 .. p - 1 \/ q = p \/ q \in p + 1 .. e
      OBVIOUS
    <3>2. \A q \in 1 .. p - 1 : q \in 1 .. e
      BY <1>1
    <3> QED
      BY <1>6, <3>1, <3>2
  <2> HIDE DEF Q
  <2> QED
    BY <1>2, <1>3, <1>4, <1>6, <2>1
<1> QED
  BY <1>5, <1>6

LEMMA QuoteAhead ==
  ASSUME NEW t \in Seq(Characters), NEW p \in 1 .. Len(t), NEW e \in p .. Len(t), t[e] = "'"
  PROVE  Quotes(t, p .. Len(t)) > 0
<1> DEFINE N == Len(t)  Q == {q \in (p .. N) \cap DOMAIN t : t[q] = "'"}
<1>1. N \in Nat /\ DOMAIN t = 1 .. N
  OBVIOUS
<1>2. e \in Q
  BY <1>1
<1>3. IsFiniteSet(Q)
  <2>1. IsFiniteSet(p .. N)
    BY <1>1, FS_Interval
  <2>2. Q \in SUBSET (p .. N)
    OBVIOUS
  <2> HIDE DEF Q
  <2> QED
    BY <2>1, <2>2, FS_Subset
<1>4. Quotes(t, p .. Len(t)) = Cardinality(Q)
  BY DEF Quotes
<1> HIDE DEF Q
<1>5. Cardinality(Q) \in Nat /\ Cardinality(Q) # 0
  BY <1>2, <1>3, FS_CardinalityType, FS_EmptySet
<1> QED
  BY <1>4, <1>5

\* opens of Casts: which colons begin a cast.
Opens(t, opens) ==
    /\ opens \in [0 .. Len(t) -> BOOLEAN] /\ ~opens[0]
    /\ \A p \in 1 .. Len(t) : opens[p] <=> p < Len(t) /\ t[p] = ":" /\ t[p + 1] = ":" /\ ~opens[p - 1]
    /\ Casts(t) = {p \in DOMAIN t : opens[p] \/ opens[p - 1]}

LEMMA CastsAre ==
  ASSUME NEW t \in Seq(Characters)
  PROVE  \E opens : Opens(t, opens)
<1> DEFINE N == Len(t)  D == 0 .. N
           Pair(p) == p \in 1 .. (Len(t) - 1) /\ t[p] = ":" /\ t[p + 1] = ":"
           Body(f, p) == p \in 1 .. (Len(t) - 1) /\ t[p] = ":" /\ t[p + 1] = ":" /\ ~f[p - 1]
           opens == CHOOSE f : f = [p \in D |-> Body(f, p)]
           step == [x \in BOOLEAN \X (1 .. N) |-> Pair(x[2]) /\ ~x[1]]
<1>1. N \in Nat /\ DOMAIN t = 1 .. N
  OBVIOUS
<1>2. Casts(t) = {p \in DOMAIN t : opens[p] \/ opens[p - 1]}
  BY DEF Casts
<1>3. step \in [BOOLEAN \X (1 .. N) -> BOOLEAN]
      /\ \A a \in BOOLEAN, k \in 1 .. N : step[<<a, k>>] = (Pair(k) /\ ~a)
  <2> HIDE DEF Pair
  <2> QED
    OBVIOUS
<1> HIDE DEF step
<1>4. Recurs(N, BOOLEAN, FALSE, step)
  BY <1>1, <1>3 DEF Recurs
<1>5. PICK g : RunsTo(N, BOOLEAN, FALSE, step, g)
  BY <1>4, Chain
<1>6. g \in [D -> BOOLEAN] /\ g[0] = FALSE /\ \A k \in 1 .. N : g[k] = step[<<g[k - 1], k>>]
  BY <1>5 DEF RunsTo
<1>7. \A k \in D : g[k] = Body(g, k)
  <2>1. ~Pair(0)
    OBVIOUS
  <2>2. ASSUME NEW k \in 1 .. N PROVE g[k] = (Pair(k) /\ ~g[k - 1])
    <3>1. g[k - 1] \in BOOLEAN
      BY <1>1, <1>6
    <3> HIDE DEF Pair
    <3> QED
      BY <1>3, <1>6, <3>1
  <2>3. \A k \in D : k = 0 \/ k \in 1 .. N
    BY <1>1
  <2>4. \A k : Body(g, k) = (Pair(k) /\ ~g[k - 1])
    BY Zenon
  <2> HIDE DEF Pair, Body, D
  <2> QED
    BY Zenon, <1>6, <2>1, <2>2, <2>3, <2>4
<1>8. opens = [p \in D |-> Body(opens, p)]
  <2>1. g = [p \in D |-> Body(g, p)]
    <3> HIDE DEF Body, D
    <3> QED
      BY <1>6, <1>7
  <2> HIDE DEF Body, D
  <2> QED
    BY <2>1
<1>9. DOMAIN opens = D /\ \A p \in D : opens[p] = Body(opens, p)
  <2> HIDE DEF opens, Body, D
  <2> QED
    BY <1>8
<1> HIDE DEF opens
<1>10. ASSUME NEW p \in D PROVE opens[p] \in BOOLEAN
  <2>1. Body(opens, p) \in BOOLEAN
    BY Zenon
  <2> HIDE DEF Body, D
  <2> QED
    BY Zenon, <1>9, <2>1
<1>11. opens \in [0 .. Len(t) -> BOOLEAN]
  <2> HIDE DEF Body
  <2> QED
    BY <1>8, <1>9, <1>10
<1>12. ~opens[0]
  <2>1. 0 \in D /\ 0 \notin 1 .. (Len(t) - 1)
    BY <1>1
  <2>2. opens[0] = Body(opens, 0)
    BY <1>9, <2>1
  <2> HIDE DEF D
  <2> QED
    BY Zenon, <2>1, <2>2
<1>13. ASSUME NEW p \in 1 .. Len(t)
       PROVE  opens[p] <=> p < Len(t) /\ t[p] = ":" /\ t[p + 1] = ":" /\ ~opens[p - 1]
  <2>1. p \in D /\ (p \in 1 .. (Len(t) - 1) <=> p < Len(t))
    BY <1>1
  <2>2. opens[p] = Body(opens, p)
    BY <1>9, <2>1
  <2> HIDE DEF D
  <2> QED
    BY Zenon, <2>1, <2>2
<1> QED
  BY <1>2, <1>11, <1>12, <1>13 DEF Opens

-----------------------------------------------------------------------------
(* What the server reads                                                   *)

\* The token that begins at p, and where it ends.
IsCast(t, p) == p < Len(t) /\ t[p] = ":" /\ t[p + 1] = ":"
IsMarker(t, p) == p < Len(t) /\ t[p] = ":" /\ t[p + 1] \in Letters
TokenEnd(t, p) ==
    IF t[p] = "'" THEN Min({r \in (p + 1)..Len(t) : t[r] = "'"} \cup {Len(t)})
    ELSE IF IsCast(t, p) THEN p + 1
    ELSE IF IsMarker(t, p) THEN WordEnd(t, p + 1)
    ELSE p
Plain(t, p, r) == [i \in 1..(r + 1 - p) |-> Char(t[p + i - 1])]
Token(t, p) ==
    IF t[p] # "'" /\ ~IsCast(t, p) /\ IsMarker(t, p) THEN <<Value(NameAt(t, p))>>
    ELSE Plain(t, p, TokenEnd(t, p))

\* What is read of a text: its characters, and values with the names in it.
Readable(t) == {Char(t[i]) : i \in 1 .. Len(t)} \cup {Value(NameAt(t, p)) : p \in 1 .. Len(t)}

LEMMA TokenIs ==
  ASSUME NEW t \in Seq(Characters), NEW p \in 1 .. Len(t)
  PROVE  TokenEnd(t, p) \in p .. Len(t) /\ Token(t, p) \in Seq(Readable(t))
<1> DEFINE N == Len(t)  e == TokenEnd(t, p)
<1>1. N \in Nat /\ p \in 1 .. N
  OBVIOUS
<1>2. e \in p .. N
  <2>1. CASE t[p] = "'"
    <3> DEFINE here == {r \in (p + 1)..Len(t) : t[r] = "'"} \cup {Len(t)}
    <3>1. here \in SUBSET Nat /\ here # {} /\ \A r \in here : r \in p .. N
      BY <1>1
    <3>2. e = Min(here)
      BY <2>1 DEF TokenEnd
    <3> HIDE DEF here, e
    <3> QED
      BY <3>1, <3>2, LeastOf
  <2>2. CASE t[p] # "'" /\ IsCast(t, p)
    <3>1. e = p + 1
      BY <2>2 DEF TokenEnd
    <3> QED
      BY <1>1, <2>2, <3>1 DEF IsCast
  <2>3. CASE t[p] # "'" /\ ~IsCast(t, p) /\ IsMarker(t, p)
    <3>1. e = WordEnd(t, p + 1)
      BY <2>3 DEF TokenEnd
    <3>2. p + 1 \in 1 .. Len(t) /\ t[p + 1] \in Letters
      BY <1>1, <2>3 DEF IsMarker
    <3>3. e \in p + 1 .. Len(t)
      BY <3>1, <3>2, WordIs
    <3> HIDE DEF e
    <3> QED
      BY <1>1, <3>3
  <2>4. CASE t[p] # "'" /\ ~IsCast(t, p) /\ ~IsMarker(t, p)
    <3>1. e = p
      BY <2>4 DEF TokenEnd
    <3> QED
      BY <1>1, <3>1
  <2> QED
    BY <2>1, <2>2, <2>3, <2>4
<1> HIDE DEF e
<1>3. CASE t[p] # "'" /\ ~IsCast(t, p) /\ IsMarker(t, p)
  <2>1. Token(t, p) = <<Value(NameAt(t, p))>>
    BY <1>3 DEF Token
  <2>2. Value(NameAt(t, p)) \in Readable(t)
    BY DEF Readable
  <2> QED
    BY <1>2, <2>1, <2>2 DEF e
<1>4. CASE ~(t[p] # "'" /\ ~IsCast(t, p) /\ IsMarker(t, p))
  <2>1. Token(t, p) = Plain(t, p, e)
    BY <1>4 DEF Token, e
  <2>2. \A i \in 1 .. e + 1 - p : Char(t[p + i - 1]) \in Readable(t)
    <3>1. \A i \in 1 .. e + 1 - p : p + i - 1 \in 1 .. N
      BY <1>1, <1>2
    <3> QED
      BY <3>1 DEF Readable
  <2>3. e + 1 - p \in Nat
    BY <1>1, <1>2
  <2>4. Plain(t, p, e) \in [1 .. e + 1 - p -> Readable(t)]
    BY <2>2 DEF Plain
  <2>5. Plain(t, p, e) \in Seq(Readable(t))
    BY <2>3, <2>4
  <2> QED
    BY <1>2, <2>1, <2>5 DEF e
<1> QED
  BY <1>3, <1>4

\* The tokens of a text, one after the other.
LEMMA ReadIs ==
  ASSUME NEW t \in Seq(Characters)
  PROVE  \E read \in [1 .. Len(t) + 1 -> Seq(Readable(t))] :
            /\ ReadFrom(t) = read[1] /\ read[Len(t) + 1] = <<>>
            /\ \A p \in 1 .. Len(t) : read[p] = Token(t, p) \o read[TokenEnd(t, p) + 1]
<1> DEFINE N == Len(t)  D == 1 .. N + 1  A == Seq(Readable(t))
           Computed(f, p) ==
            IF p > Len(t) THEN <<>>
            ELSE IF t[p] = "'"
            THEN LET e == Min({r \in (p + 1)..Len(t) : t[r] = "'"} \cup {Len(t)})
                 IN  [i \in 1..(e + 1 - p) |-> Char(t[p + i - 1])] \o f[e + 1]
            ELSE IF p < Len(t) /\ t[p] = ":" /\ t[p + 1] = ":"
            THEN [i \in 1..(p + 1 + 1 - p) |-> Char(t[p + i - 1])] \o f[p + 2]
            ELSE IF p < Len(t) /\ t[p] = ":" /\ t[p + 1] \in Letters
            THEN <<Value(NameAt(t, p))>> \o f[WordEnd(t, p + 1) + 1]
            ELSE [i \in 1..(p + 1 - p) |-> Char(t[p + i - 1])] \o f[p + 1]
           Body(f, p) == IF p > N THEN <<>> ELSE Token(t, p) \o f[TokenEnd(t, p) + 1]
           body == [x \in [D -> A] \X D |-> Body(x[1], x[2])]
           rank == [p \in D |-> N + 1 - p]
           read == CHOOSE f : f = [p \in D |-> Computed(f, p)]
<1>1. N \in Nat /\ \A p \in D : p > N \/ p \in 1 .. N
  OBVIOUS
<1>2. \A f : \A p \in D : Computed(f, p) = Body(f, p)
  <2> SUFFICES ASSUME NEW f, NEW p \in D PROVE Computed(f, p) = Body(f, p)
    BY Zenon
  <2>1. CASE p > N
    BY Zenon, <2>1
  <2>2. CASE ~(p > N) /\ t[p] = "'"
    <3>1. TokenEnd(t, p) = Min({r \in (p + 1)..Len(t) : t[r] = "'"} \cup {Len(t)})
      BY Zenon, <2>2 DEF TokenEnd
    <3>2. Token(t, p) = Plain(t, p, TokenEnd(t, p))
      BY Zenon, <2>2 DEF Token
    <3> QED
      BY Zenon, <2>2, <3>1, <3>2 DEF Plain
  <2>3. CASE ~(p > N) /\ t[p] # "'" /\ IsCast(t, p)
    <3>1. TokenEnd(t, p) = p + 1 /\ Token(t, p) = Plain(t, p, p + 1)
      BY Zenon, <2>3 DEF TokenEnd, Token
    <3>2. p + 2 = (p + 1) + 1
      BY <1>1
    <3>3. Body(f, p) = Plain(t, p, p + 1) \o f[p + 2]
      BY Zenon, <2>3, <3>1, <3>2
    <3>4. Computed(f, p) = Plain(t, p, p + 1) \o f[p + 2]
      BY Zenon, <2>3 DEF IsCast, Plain
    <3> QED
      BY Zenon, <3>3, <3>4
  <2>4. CASE ~(p > N) /\ t[p] # "'" /\ ~IsCast(t, p) /\ IsMarker(t, p)
    <3>1. TokenEnd(t, p) = WordEnd(t, p + 1) /\ Token(t, p) = <<Value(NameAt(t, p))>>
      BY Zenon, <2>4 DEF TokenEnd, Token
    <3>2. Computed(f, p) = <<Value(NameAt(t, p))>> \o f[WordEnd(t, p + 1) + 1]
      BY Zenon, <2>4 DEF IsCast, IsMarker
    <3> QED
      BY Zenon, <2>4, <3>1, <3>2
  <2>5. CASE ~(p > N) /\ t[p] # "'" /\ ~IsCast(t, p) /\ ~IsMarker(t, p)
    <3>1. TokenEnd(t, p) = p /\ Token(t, p) = Plain(t, p, p)
      BY Zenon, <2>5 DEF TokenEnd, Token
    <3>2. Computed(f, p) = Plain(t, p, p) \o f[p + 1]
      BY Zenon, <2>5 DEF IsCast, IsMarker, Plain
    <3> QED
      BY Zenon, <2>5, <3>1, <3>2
  <2> QED
    BY Zenon, <2>1, <2>2, <2>3, <2>4, <2>5
<1>3. ReadFrom(t) = read[1]
  BY DEF ReadFrom
<1> HIDE DEF Computed, N
<1>4. rank \in [D -> 0 .. N] /\ \A i, j \in D : rank[i] < rank[j] <=> j < i
  <2>1. rank \in [D -> 0 .. N]
    BY <1>1
  <2>2. \A i, j \in D : rank[i] < rank[j] <=> j < i
    BY <1>1
  <2> QED
    BY <2>1, <2>2
<1>5. \A p \in 1 .. N : Token(t, p) \in A /\ TokenEnd(t, p) + 1 \in D /\ p < TokenEnd(t, p) + 1
  <2> SUFFICES ASSUME NEW p \in 1 .. N
               PROVE  Token(t, p) \in A /\ TokenEnd(t, p) + 1 \in D /\ p < TokenEnd(t, p) + 1
    OBVIOUS
  <2>1. Token(t, p) \in A /\ TokenEnd(t, p) \in p .. N
    BY TokenIs DEF N
  <2> QED
    BY <1>1, <2>1
<1>6. <<>> \in A /\ \A a, b \in A : a \o b \in A
  OBVIOUS
<1> HIDE DEF A
<1>7. ASSUME NEW g \in [D -> A], NEW j \in D PROVE Body(g, j) \in A
  <2>1. CASE j > N
    BY <1>6, <2>1
  <2>2. CASE ~(j > N)
    <3>1. j \in 1 .. N
      BY <1>1, <2>2
    <3>2. g[TokenEnd(t, j) + 1] \in A /\ Token(t, j) \in A
      BY <1>5, <3>1
    <3> QED
      BY <1>6, <2>2, <3>2
  <2> HIDE DEF Body
  <2> QED
    BY <2>1, <2>2
<1>8. body \in [[D -> A] \X D -> A] /\ \A g \in [D -> A], j \in D : body[<<g, j>>] = Body(g, j)
  <2> HIDE DEF Body, D
  <2> QED
    BY <1>7
<1>9. ASSUME NEW g \in [D -> A], NEW h \in [D -> A], NEW j \in D,
             \A i \in D : j < i => g[i] = h[i]
      PROVE  Body(g, j) = Body(h, j)
  <2>1. CASE j > N
    BY <2>1
  <2>2. CASE ~(j > N)
    <3>1. j \in 1 .. N
      BY <1>1, <2>2
    <3>2. g[TokenEnd(t, j) + 1] = h[TokenEnd(t, j) + 1]
      BY <1>5, <1>9, <3>1
    <3> QED
      BY Zenon, <2>2, <3>2
  <2> HIDE DEF Body
  <2> QED
    BY <2>1, <2>2
<1>10. \E g : Solution(D, A, body, g)
  <2>1. \A g, h \in [D -> A] : \A j \in D :
            (\A i \in D : rank[i] < rank[j] => g[i] = h[i]) => body[<<g, j>>] = body[<<h, j>>]
    <3> HIDE DEF Body, D, body, rank
    <3> SUFFICES ASSUME NEW g \in [D -> A], NEW h \in [D -> A], NEW j \in D,
                        \A i \in D : rank[i] < rank[j] => g[i] = h[i]
                 PROVE  body[<<g, j>>] = body[<<h, j>>]
      OBVIOUS
    <3>1. \A i \in D : j < i => g[i] = h[i]
      BY <1>4
    <3>2. Body(g, j) = Body(h, j)
      BY <1>9, <3>1
    <3> QED
      BY <1>8, <3>2
  <2>2. Descends(D, A, N, rank, body) /\ A # {}
    <3> HIDE DEF Body, D, body, rank
    <3> QED
      BY <1>1, <1>4, <1>6, <1>8, <2>1 DEF Descends
  <2> HIDE DEF Body, D, body, rank
  <2> QED
    BY <2>2, RecursionExists
<1>11. PICK g \in [D -> A] : \A j \in D : g[j] = Body(g, j)
  <2> HIDE DEF Body, D, body
  <2> QED
    BY <1>8, <1>10 DEF Solution
<1>12. read = [p \in D |-> Computed(read, p)]
  <2>1. g = [p \in D |-> Computed(g, p)]
    <3> HIDE DEF Body, D
    <3> QED
      BY <1>2, <1>11
  <2> HIDE DEF Body, D
  <2> QED
    BY <2>1
<1>13. DOMAIN read = D /\ \A p \in D : read[p] = Body(read, p)
  <2> HIDE DEF read, D, Body
  <2> QED
    BY <1>2, <1>12
<1> HIDE DEF read
<1>14. read[N + 1] = <<>> /\ \A p \in 1 .. N : read[p] = Token(t, p) \o read[TokenEnd(t, p) + 1]
  <2>1. N + 1 \in D /\ N + 1 > N /\ \A p \in 1 .. N : p \in D /\ ~(p > N)
    BY <1>1
  <2> HIDE DEF D
  <2> QED
    BY Zenon, <1>13, <2>1
<1>15. ASSUME NEW p \in D PROVE read[p] \in A
  <2> DEFINE E == {k \in 0 .. N : \A q \in N + 1 - k .. N + 1 : read[q] \in A}
  <2>1. 0 \in E
    <3>1. \A q \in N + 1 - 0 .. N + 1 : q = N + 1
      BY <1>1
    <3> QED
      BY <1>1, <1>6, <1>14, <3>1
  <2>2. ASSUME NEW k \in 1 .. N, k - 1 \in E PROVE k \in E
    <3> DEFINE j == N + 1 - k
    <3>1. j \in 1 .. N /\ j \in Int /\ \A q \in j .. N + 1 : q = j \/ q \in N + 1 - (k - 1) .. N + 1
      BY <1>1
    <3>2. TokenEnd(t, j) + 1 \in N + 1 - (k - 1) .. N + 1
      <4>1. TokenEnd(t, j) + 1 \in j .. N + 1 /\ TokenEnd(t, j) + 1 # j
        BY <1>1, <1>5, <3>1
      <4> HIDE DEF j
      <4> QED
        BY <3>1, <4>1
    <3> HIDE DEF j
    <3>3. read[TokenEnd(t, j) + 1] \in A
      BY <2>2, <3>2
    <3>4. read[j] \in A
      <4>1. read[j] = Token(t, j) \o read[TokenEnd(t, j) + 1] /\ Token(t, j) \in A
        BY Zenon, <1>5, <1>14, <3>1
      <4> QED
        BY Zenon, <1>6, <3>3, <4>1
    <3>5. \A q \in j .. N + 1 : read[q] \in A
      BY <2>2, <3>1, <3>4
    <3> QED
      BY <1>1, <3>5 DEF j
  <2>3. N \in Nat /\ \A k \in 1 .. N : k - 1 \in E => k \in E
    BY <1>1, <2>2
  <2> HIDE DEF E
  <2>4. N \in E
    BY <2>1, <2>3, UpTo
  <2>5. N + 1 - N = 1
    BY <1>1
  <2> QED
    BY <2>4, <2>5 DEF E
<1>16. read \in [1 .. N + 1 -> A]
  <2> HIDE DEF Computed
  <2> QED
    BY <1>12, <1>13, <1>15
<1> QED
  BY <1>3, <1>14, <1>16 DEF N, A

-----------------------------------------------------------------------------
(* What is sent                                                            *)

\* What is computed one step back at a time is what the recursion says.
LEMMA ChainIs ==
  ASSUME NEW N, NEW A, NEW base, NEW step, Recurs(N, A, base, step),
         NEW f, f \in [0 .. N -> {f[k] : k \in 0 .. N}], f[0] = base,
         \A k \in 1 .. N : f[k - 1] \in A => f[k] = step[<<f[k - 1], k>>]
  PROVE  RunsTo(N, A, base, step, f)
<1> SUFFICES ASSUME N \in Nat, base \in A, step \in [A \X (1 .. N) -> A]
             PROVE  f \in [0 .. N -> A] /\ \A k \in 1 .. N : f[k] = step[<<f[k - 1], k>>]
  BY DEF Recurs, RunsTo
<1>1. ASSUME NEW n \in 0 .. N PROVE f[n] \in A
  <2> DEFINE E == {k \in 0 .. n : f[k] \in A}
  <2>1. 0 \in E
    OBVIOUS
  <2>2. ASSUME NEW k \in 1 .. n, k - 1 \in E PROVE k \in E
    <3>1. k \in 1 .. N /\ f[k - 1] \in A
      BY <2>2
    <3>2. f[k] \in A
      BY <3>1
    <3> QED
      BY <3>2
  <2>3. n \in Nat /\ \A k \in 1 .. n : k - 1 \in E => k \in E
    BY <2>2
  <2> HIDE DEF E
  <2>4. n \in E
    BY <2>1, <2>3, UpTo
  <2> QED
    BY <2>4 DEF E
<1>2. \A k \in 1 .. N : k - 1 \in 0 .. N
  OBVIOUS
<1> QED
  BY <1>1, <1>2

LEMMA AppendSet ==
  ASSUME NEW S, NEW u \in Seq(S), NEW x \in S
  PROVE  ToSet(Append(u, x)) = ToSet(u) \cup {x}
<1> DEFINE v == Append(u, x)
<1>1. Len(u) \in Nat /\ DOMAIN u = 1 .. Len(u) /\ DOMAIN v = 1 .. Len(u) + 1
      /\ v[Len(u) + 1] = x /\ \A i \in 1 .. Len(u) : v[i] = u[i]
  OBVIOUS
<1> HIDE DEF v
<1>2. \A i \in DOMAIN v : i = Len(u) + 1 \/ i \in DOMAIN u
  BY <1>1
<1>3. Len(u) + 1 \in DOMAIN v /\ \A i \in DOMAIN u : i \in DOMAIN v
  BY <1>1
<1>4. ToSet(v) = ToSet(u) \cup {x}
  BY <1>1, <1>2, <1>3 DEF ToSet
<1> QED
  BY <1>4 DEF v

\* args are the names that the markers have.
LEMMA ArgsAre ==
  ASSUME NEW t \in Seq(Characters)
  PROVE  ToSet(param_order(t)) = {NameAt(t, p) : p \in Markers(t)}
<1> DEFINE N == Len(t)  D == 0 .. N  marks == Markers(t)  A == Seq({NameAt(t, p) : p \in 1 .. N})
           Body(f, p) ==
            IF p = 0 THEN <<>>
            ELSE IF p \in marks /\ NameAt(t, p) \notin ToSet(f[p - 1]) THEN Append(f[p - 1], NameAt(t, p))
            ELSE f[p - 1]
           New(a, p) == IF p \in marks /\ NameAt(t, p) \notin ToSet(a) THEN Append(a, NameAt(t, p)) ELSE a
           names == CHOOSE f : f = [p \in D |-> Body(f, p)]
           step == [x \in A \X (1 .. N) |-> New(x[1], x[2])]
<1>1. N \in Nat /\ marks \subseteq 1 .. N
  BY DEF Markers
<1>2. param_order(t) = names[N]
  BY DEF param_order
<1> HIDE DEF marks
<1>3. \A a \in A, p \in 1 .. N : Append(a, NameAt(t, p)) \in A
  OBVIOUS
<1>4. <<>> \in A
  OBVIOUS
<1> HIDE DEF N, A
<1>5. step \in [A \X (1 .. N) -> A] /\ \A a \in A, p \in 1 .. N : step[<<a, p>>] = New(a, p)
  <2>1. \A a \in A, p \in 1 .. N : New(a, p) \in A
    BY <1>3
  <2> HIDE DEF New
  <2> QED
    BY <2>1
<1> HIDE DEF step
<1>6. Recurs(N, A, <<>>, step)
  BY <1>1, <1>4, <1>5 DEF Recurs
<1>7. PICK g : RunsTo(N, A, <<>>, step, g)
  BY <1>6, Chain
<1>8. \A p \in D : g[p] = Body(g, p)
  <2>1. g[0] = <<>> /\ \A k \in 1 .. N : g[k - 1] \in A /\ g[k] = step[<<g[k - 1], k>>]
    <3>1. \A k \in 1 .. N : k - 1 \in 0 .. N
      BY <1>1
    <3> QED
      BY <1>7, <3>1 DEF RunsTo
  <2>2. \A k \in 1 .. N : g[k] = New(g[k - 1], k) /\ k # 0
    <3> SUFFICES ASSUME NEW k \in 1 .. N PROVE g[k] = New(g[k - 1], k) /\ k # 0
      OBVIOUS
    <3>1. k # 0
      OBVIOUS
    <3> HIDE DEF New
    <3> QED
      BY Zenon, <1>5, <2>1, <3>1
  <2>3. \A p \in D : p = 0 \/ p \in 1 .. N
    BY <1>1
  <2> HIDE DEF D
  <2> QED
    BY Zenon, <2>1, <2>2, <2>3
<1>9. names = [p \in D |-> Body(names, p)]
  <2>1. g = [p \in D |-> Body(g, p)]
    <3>1. g \in [D -> A]
      BY <1>7 DEF RunsTo
    <3> HIDE DEF Body, D
    <3> QED
      BY <1>8, <3>1
  <2> HIDE DEF Body, D
  <2> QED
    BY <2>1
<1>10. DOMAIN names = D /\ \A p \in D : names[p] = Body(names, p)
  <2> HIDE DEF names, Body, D
  <2> QED
    BY <1>9
<1> HIDE DEF names
<1>11. names[0] = <<>> /\ \A k \in 1 .. N : names[k] = New(names[k - 1], k)
  <2>1. 0 \in D /\ \A k \in 1 .. N : k \in D /\ k # 0
    BY <1>1
  <2> HIDE DEF D
  <2> QED
    BY Zenon, <1>10, <2>1
<1>12. names \in [0 .. N -> A]
  <2>1. names \in [0 .. N -> {names[k] : k \in 0 .. N}]
    <3> HIDE DEF Body
    <3> QED
      BY <1>9, <1>10
  <2>2. \A k \in 1 .. N : names[k - 1] \in A => names[k] = step[<<names[k - 1], k>>]
    <3> HIDE DEF New
    <3> QED
      BY <1>5, <1>11
  <2>3. RunsTo(N, A, <<>>, step, names)
    BY <1>6, <1>11, <2>1, <2>2, ChainIs
  <2> QED
    BY <2>3 DEF RunsTo
<1> DEFINE NamesTo(k) == {NameAt(t, p) : p \in {q \in marks : q <= k}}
           E == {k \in 0 .. N : ToSet(names[k]) = NamesTo(k)}
<1>13. 0 \in E
  <2>1. ToSet(names[0]) = {}
    <3>1. names[0] = <<>>
      BY Zenon, <1>11
    <3>2. ToSet(<<>>) = {}
      BY DEF ToSet
    <3> QED
      BY Zenon, <3>1, <3>2
  <2>2. {q \in marks : q <= 0} = {}
    <3>1. \A q \in marks : ~(q <= 0)
      BY <1>1
    <3> QED
      BY Zenon, <3>1
  <2>3. NamesTo(0) = {}
    BY <2>2
  <2> QED
    BY <1>1, <2>1, <2>3
<1>14. ASSUME NEW k \in 1 .. N, k - 1 \in E PROVE k \in E
  <2>1. ToSet(names[k - 1]) = NamesTo(k - 1) /\ names[k - 1] \in A /\ k \in 0 .. N
    BY <1>1, <1>12, <1>14
  <2>2. \A q \in marks : q <= k <=> q <= k - 1 \/ q = k
    BY <1>1
  <2>3. names[k] = New(names[k - 1], k)
    BY <1>11
  <2>4. CASE k \notin marks
    <3>1. NamesTo(k) = NamesTo(k - 1)
      BY <2>2, <2>4
    <3>2. names[k] = names[k - 1]
      BY <2>3, <2>4
    <3> QED
      BY <2>1, <3>1, <3>2
  <2>5. CASE k \in marks
    <3>1. NamesTo(k) = NamesTo(k - 1) \cup {NameAt(t, k)}
      <4>1. {q \in marks : q <= k} = {q \in marks : q <= k - 1} \cup {k}
        BY <2>2, <2>5
      <4> QED
        BY <4>1
    <3>2. ToSet(names[k]) = ToSet(names[k - 1]) \cup {NameAt(t, k)}
      <4>1. CASE NameAt(t, k) \in ToSet(names[k - 1])
        <5>1. names[k] = names[k - 1]
          BY <2>3, <4>1
        <5> QED
          BY <4>1, <5>1
      <4>2. CASE NameAt(t, k) \notin ToSet(names[k - 1])
        <5>1. names[k] = Append(names[k - 1], NameAt(t, k))
          BY <2>3, <2>5, <4>2
        <5>2. ToSet(Append(names[k - 1], NameAt(t, k))) = ToSet(names[k - 1]) \cup {NameAt(t, k)}
          <6>1. NameAt(t, k) \in {NameAt(t, p) : p \in 1 .. N}
            OBVIOUS
          <6> QED
            BY <2>1, <6>1, AppendSet DEF A
        <5> QED
          BY <5>1, <5>2
      <4> QED
        BY <4>1, <4>2
    <3> HIDE DEF NamesTo
    <3> QED
      BY <2>1, <3>1, <3>2
  <2> QED
    BY <2>4, <2>5
<1>15. N \in E
  <2> HIDE DEF E
  <2> QED
    BY <1>1, <1>13, <1>14, UpTo
<1>16. {q \in marks : q <= N} = marks
  <2>1. \A q \in marks : q <= N
    BY <1>1
  <2> QED
    BY Zenon, <2>1
<1> QED
  BY <1>2, <1>15, <1>16 DEF marks

\* The characters that are left out, and what stands for the others.
Within(t) == UNION {(p + 1)..WordEnd(t, p + 1) : p \in Markers(t)}
SentAs(t, p) ==
    IF p \in Markers(t) THEN [is |-> "$", dollar |-> Index(param_order(t), NameAt(t, p))]
    ELSE [is |-> t[p], dollar |-> 0]
Put(t, p) == IF p \in Markers(t) THEN Value(NameAt(t, p)) ELSE Char(t[p])
Filled(args, token) == IF token.is = "$" THEN Value(args[token.dollar]) ELSE Char(token.is)

LEMMA SentIs ==
  ASSUME NEW t \in Seq(Characters)
  PROVE  \E sent \in [0 .. Len(t) -> Seq({SentAs(t, p) : p \in 1 .. Len(t)})] :
            /\ converted(t) = sent[Len(t)] /\ sent[0] = <<>>
            /\ \A k \in 1 .. Len(t) :
                sent[k] = IF k \in Within(t) THEN sent[k - 1] ELSE Append(sent[k - 1], SentAs(t, k))
<1> DEFINE N == Len(t)  D == 0 .. N  A == Seq({SentAs(t, p) : p \in 1 .. N})
           Body(f, p) ==
            IF p = 0 THEN <<>>
            ELSE IF p \in Within(t) THEN f[p - 1]
            ELSE Append(f[p - 1],
                    IF p \in Markers(t) THEN [is |-> "$", dollar |-> Index(param_order(t), NameAt(t, p))]
                    ELSE [is |-> t[p], dollar |-> 0])
           New(a, p) == IF p \in Within(t) THEN a ELSE Append(a, SentAs(t, p))
           sent == CHOOSE f : f = [p \in D |-> Body(f, p)]
           step == [x \in A \X (1 .. N) |-> New(x[1], x[2])]
<1>1. N \in Nat
  OBVIOUS
<1>2. converted(t) = sent[N]
  BY DEF converted, Within
<1>3. \A a \in A, p \in 1 .. N : Append(a, SentAs(t, p)) \in A
  <2> DEFINE I == {SentAs(t, p) : p \in 1 .. N}
  <2>1. \A p \in 1 .. N : SentAs(t, p) \in I
    OBVIOUS
  <2> HIDE DEF I
  <2>2. \A a \in Seq(I), x \in I : Append(a, x) \in Seq(I)
    OBVIOUS
  <2>3. A = Seq(I)
    BY DEF I
  <2> HIDE DEF A
  <2> QED
    BY <2>1, <2>2, <2>3
<1>4. <<>> \in A
  OBVIOUS
<1> HIDE DEF N, A
<1>5. step \in [A \X (1 .. N) -> A] /\ \A a \in A, p \in 1 .. N : step[<<a, p>>] = New(a, p)
  <2>1. \A a \in A, p \in 1 .. N : New(a, p) \in A
    BY <1>3
  <2> HIDE DEF New
  <2> QED
    BY <2>1
<1> HIDE DEF step
<1>6. Recurs(N, A, <<>>, step)
  BY <1>1, <1>4, <1>5 DEF Recurs
<1>7. PICK g : RunsTo(N, A, <<>>, step, g)
  BY <1>6, Chain
<1>14. \A f : \A k : k # 0 => Body(f, k) = New(f[k - 1], k)
  BY Zenon DEF SentAs
<1>15. \A f : Body(f, 0) = <<>>
  BY Zenon
<1> HIDE DEF Body
<1>8. \A p \in D : g[p] = Body(g, p)
  <2>1. g[0] = <<>> /\ \A k \in 1 .. N : g[k - 1] \in A /\ g[k] = step[<<g[k - 1], k>>]
    <3>1. \A k \in 1 .. N : k - 1 \in 0 .. N
      BY <1>1
    <3> QED
      BY <1>7, <3>1 DEF RunsTo
  <2>2. \A k \in 1 .. N : g[k] = New(g[k - 1], k) /\ k # 0
    <3> SUFFICES ASSUME NEW k \in 1 .. N PROVE g[k] = New(g[k - 1], k) /\ k # 0
      OBVIOUS
    <3>1. k # 0
      OBVIOUS
    <3> HIDE DEF New
    <3> QED
      BY Zenon, <1>5, <2>1, <3>1
  <2>3. \A p \in D : p = 0 \/ p \in 1 .. N
    BY <1>1
  <2> HIDE DEF D, New
  <2> QED
    BY Zenon, <1>14, <1>15, <2>1, <2>2, <2>3
<1>9. sent = [p \in D |-> Body(sent, p)]
  <2>1. g = [p \in D |-> Body(g, p)]
    <3>1. g \in [D -> A]
      BY <1>7 DEF RunsTo
    <3> HIDE DEF D
    <3> QED
      BY <1>8, <3>1
  <2> HIDE DEF D
  <2> QED
    BY <2>1
<1>10. DOMAIN sent = D /\ \A p \in D : sent[p] = Body(sent, p)
  <2> HIDE DEF sent, D
  <2> QED
    BY <1>9
<1> HIDE DEF sent
<1>11. sent[0] = <<>> /\ \A k \in 1 .. N : sent[k] = New(sent[k - 1], k)
  <2>1. 0 \in D /\ \A k \in 1 .. N : k \in D /\ k # 0
    BY <1>1
  <2> HIDE DEF D, New
  <2> QED
    BY Zenon, <1>10, <1>14, <1>15, <2>1
<1>12. sent \in [0 .. N -> A]
  <2>1. sent \in [0 .. N -> {sent[k] : k \in 0 .. N}]
    BY <1>9, <1>10
  <2>2. \A k \in 1 .. N : sent[k - 1] \in A => sent[k] = step[<<sent[k - 1], k>>]
    <3> HIDE DEF New
    <3> QED
      BY <1>5, <1>11
  <2>3. RunsTo(N, A, <<>>, step, sent)
    <3> HIDE DEF New
    <3>1. sent[0] = <<>>
      BY Zenon, <1>11
    <3> QED
      BY <1>6, <2>1, <2>2, <3>1, ChainIs
  <2> QED
    BY <2>3 DEF RunsTo
<1> QED
  BY Zenon, <1>2, <1>11, <1>12 DEF N, A

\* What the server has of the text that is sent, with its values.
PlacedIn(t, placed) ==
    /\ placed \in [0 .. Len(t) -> Seq(Readable(t))] /\ placed[0] = <<>>
    /\ \A k \in 1 .. Len(t) :
        placed[k] = IF k \in Within(t) THEN placed[k - 1] ELSE Append(placed[k - 1], Put(t, k))

\* The number of a marker is that of its name.
LEMMA FilledIs ==
  ASSUME NEW t \in Seq(Characters), NEW p \in 1 .. Len(t)
  PROVE  Filled(param_order(t), SentAs(t, p)) = Put(t, p) /\ Put(t, p) \in Readable(t)
<1> DEFINE args == param_order(t)  name == NameAt(t, p)
<1>1. t[p] # "$"
  <2>1. t[p] \in Characters
    OBVIOUS
  <2> QED
    BY <2>1, LettersApart DEF Characters
<1>2. CASE p \in Markers(t)
  <2>1. name \in ToSet(args)
    BY <1>2, ArgsAre
  <2>2. \E k \in DOMAIN args : args[k] = name
    <3> HIDE DEF args, name
    <3> QED
      BY <2>1 DEF ToSet
  <2>3. args[Index(args, name)] = name
    <3> HIDE DEF args, name
    <3> QED
      BY <2>2 DEF Index
  <2>4. SentAs(t, p) = [is |-> "$", dollar |-> Index(args, name)]
    BY <1>2 DEF SentAs
  <2>5. Filled(args, SentAs(t, p)) = Value(name)
    <3> HIDE DEF args, name
    <3> QED
      BY <2>3, <2>4 DEF Filled
  <2> QED
    BY <1>2, <2>5 DEF Put, Readable
<1>3. CASE p \notin Markers(t)
  <2>1. SentAs(t, p) = [is |-> t[p], dollar |-> 0]
    BY <1>3 DEF SentAs
  <2>2. Filled(args, SentAs(t, p)) = Char(t[p])
    <3> HIDE DEF args
    <3> QED
      BY <1>1, <2>1 DEF Filled
  <2> QED
    BY <1>3, <2>2 DEF Put, Readable
<1> QED
  BY <1>2, <1>3

LEMMA PlacedAre ==
  ASSUME NEW t \in Seq(Characters)
  PROVE  \E placed : PlacedIn(t, placed) /\
            [i \in DOMAIN converted(t) |-> Filled(param_order(t), converted(t)[i])] = placed[Len(t)]
<1> DEFINE N == Len(t)  I == {SentAs(t, p) : p \in 1 .. N}  T == Readable(t)  args == param_order(t)
           F(u) == [i \in DOMAIN u |-> Filled(args, u[i])]
<1>1. PICK sent \in [0 .. N -> Seq(I)] :
        /\ converted(t) = sent[N] /\ sent[0] = <<>>
        /\ \A k \in 1 .. N : sent[k] = IF k \in Within(t) THEN sent[k - 1] ELSE Append(sent[k - 1], SentAs(t, k))
  BY SentIs
<1>2. N \in Nat
  OBVIOUS
<1>3. \A x \in I : Filled(args, x) \in T
  BY FilledIs
<1>4. \A p \in 1 .. N : SentAs(t, p) \in I /\ Filled(args, SentAs(t, p)) = Put(t, p)
  BY FilledIs
<1> HIDE DEF N, I, T, args
<1>5. ASSUME NEW u \in Seq(I) PROVE F(u) \in Seq(T)
  <2>1. Len(u) \in Nat /\ DOMAIN u = 1 .. Len(u) /\ \A i \in DOMAIN u : u[i] \in I
    OBVIOUS
  <2>2. F(u) \in [1 .. Len(u) -> T]
    BY <1>3, <2>1
  <2> HIDE DEF F
  <2> QED
    BY <2>1, <2>2
<1>6. ASSUME NEW u \in Seq(I), NEW x \in I PROVE F(Append(u, x)) = Append(F(u), Filled(args, x))
  <2> DEFINE v == Append(u, x)  y == Filled(args, x)  a == F(v)  b == F(u)  c == Append(b, y)
  <2>1. Len(u) \in Nat /\ DOMAIN u = 1 .. Len(u) /\ v \in Seq(I) /\ Len(v) = Len(u) + 1
        /\ v[Len(u) + 1] = x /\ \A i \in 1 .. Len(u) : v[i] = u[i]
    OBVIOUS
  <2> HIDE DEF v
  <2>2. b \in Seq(T) /\ a \in Seq(T) /\ y \in T
    BY <1>3, <1>5, <2>1
  <2>3. DOMAIN a = DOMAIN v /\ DOMAIN b = DOMAIN u /\ (\A i \in DOMAIN v : a[i] = Filled(args, v[i]))
        /\ \A i \in DOMAIN u : b[i] = Filled(args, u[i])
    OBVIOUS
  <2> HIDE DEF a, b, F
  <2>4. Len(a) = Len(u) + 1 /\ Len(b) = Len(u)
    <3>1. DOMAIN v = 1 .. Len(u) + 1
      BY <2>1
    <3>2. DOMAIN a = 1 .. Len(u) + 1 /\ DOMAIN b = 1 .. Len(u)
      BY <2>1, <2>3, <3>1
    <3> QED
      BY <2>1, <2>2, <3>2
  <2>5. a[Len(u) + 1] = y /\ \A i \in 1 .. Len(u) : a[i] = b[i]
    <3>1. DOMAIN v = 1 .. Len(u) + 1
      BY <2>1
    <3>2. Len(u) + 1 \in 1 .. Len(u) + 1 /\ \A i \in 1 .. Len(u) : i \in 1 .. Len(u) + 1
      BY <2>1
    <3> QED
      BY <2>1, <2>3, <3>1, <3>2
  <2> HIDE DEF y
  <2>6. c \in Seq(T) /\ Len(c) = Len(u) + 1 /\ c[Len(u) + 1] = y /\ \A i \in 1 .. Len(u) : c[i] = b[i]
    BY <2>1, <2>2, <2>4
  <2> HIDE DEF c
  <2>7. \A i \in 1 .. Len(a) : a[i] = c[i]
    <3>1. \A i \in 1 .. Len(u) + 1 : i = Len(u) + 1 \/ i \in 1 .. Len(u)
      BY <2>1
    <3> QED
      BY <2>4, <2>5, <2>6, <3>1
  <2>8. a = c
    BY <2>2, <2>4, <2>6, <2>7, SeqEqual
  <2> QED
    BY <2>8 DEF a, c, b, y, v
<1> DEFINE placed == [k \in 0 .. N |-> F(sent[k])]
<1>7. placed \in [0 .. N -> Seq(T)]
  <2> HIDE DEF F
  <2> QED
    BY <1>5
<1>8. placed[0] = <<>>
  <2>1. F(<<>>) = <<>>
    OBVIOUS
  <2>2. sent[0] = <<>> /\ 0 \in 0 .. N
    BY <1>1, <1>2
  <2> HIDE DEF F
  <2> QED
    BY <2>1, <2>2
<1>9. ASSUME NEW k \in 1 .. N
      PROVE  placed[k] = IF k \in Within(t) THEN placed[k - 1] ELSE Append(placed[k - 1], Put(t, k))
  <2>1. k - 1 \in 0 .. N /\ k \in 0 .. N
    BY <1>2
  <2>2. sent[k - 1] \in Seq(I) /\ placed[k - 1] = F(sent[k - 1]) /\ placed[k] = F(sent[k])
    <3> HIDE DEF F
    <3> QED
      BY <2>1
  <2> HIDE DEF placed, F
  <2>3. CASE k \in Within(t)
    BY Zenon, <1>1, <2>2, <2>3
  <2>4. CASE k \notin Within(t)
    <3>1. sent[k] = Append(sent[k - 1], SentAs(t, k))
      BY Zenon, <1>1, <2>4
    <3>2. F(Append(sent[k - 1], SentAs(t, k))) = Append(F(sent[k - 1]), Put(t, k))
      BY Zenon, <1>4, <1>6, <2>2
    <3> QED
      BY Zenon, <2>2, <2>4, <3>1, <3>2
  <2> QED
    BY <2>3, <2>4
<1>10. placed[N] = F(converted(t))
  <2>1. N \in 0 .. N
    BY <1>2
  <2> HIDE DEF F
  <2> QED
    BY Zenon, <1>1, <2>1
<1> HIDE DEF placed
<1>11. PlacedIn(t, placed)
  BY <1>7, <1>8, <1>9 DEF PlacedIn, N, T
<1> QED
  BY <1>10, <1>11 DEF N, args

\* The names among the tokens are those of the markers.
LEMMA NamedAppend ==
  ASSUME NEW S, NEW u \in Seq(S), NEW x \in S
  PROVE  Named(Append(u, x)) = Named(u) \cup (IF x.is = "$" THEN {x.of} ELSE {})
<1> DEFINE v == Append(u, x)
<1>1. Len(u) \in Nat /\ DOMAIN u = 1 .. Len(u) /\ DOMAIN v = 1 .. Len(u) + 1
      /\ v[Len(u) + 1] = x /\ \A i \in 1 .. Len(u) : v[i] = u[i]
  OBVIOUS
<1> HIDE DEF v
<1>2. \A i \in DOMAIN v : i = Len(u) + 1 \/ i \in DOMAIN u
  BY <1>1
<1>3. Len(u) + 1 \in DOMAIN v /\ \A i \in DOMAIN u : i \in DOMAIN v /\ v[i] = u[i]
  BY <1>1
<1>4. \A w, y : y \in Named(w) <=> \E i \in DOMAIN w : w[i].is = "$" /\ w[i].of = y
  BY DEF Named
<1>5. ASSUME NEW y, y \in Named(v) PROVE y \in Named(u) \/ (x.is = "$" /\ y = x.of)
  <2>1. PICK i \in DOMAIN v : v[i].is = "$" /\ v[i].of = y
    BY Zenon, <1>4, <1>5
  <2>2. CASE i = Len(u) + 1
    BY <1>1, <2>1, <2>2
  <2>3. CASE i \in DOMAIN u
    <3>1. u[i].is = "$" /\ u[i].of = y
      BY <1>3, <2>1, <2>3
    <3> QED
      BY Zenon, <1>4, <2>3, <3>1
  <2> QED
    BY <1>2, <2>1, <2>2, <2>3
<1>6. ASSUME NEW y, y \in Named(u) PROVE y \in Named(v)
  <2>1. PICK i \in DOMAIN u : u[i].is = "$" /\ u[i].of = y
    BY Zenon, <1>4, <1>6
  <2>2. i \in DOMAIN v /\ v[i].is = "$" /\ v[i].of = y
    BY <1>3, <2>1
  <2> QED
    BY Zenon, <1>4, <2>2
<1>7. ASSUME x.is = "$" PROVE x.of \in Named(v)
  BY Zenon, <1>1, <1>3, <1>4, <1>7
<1> QED
  BY <1>5, <1>6, <1>7 DEF v

LEMMA NamedAre ==
  ASSUME NEW t \in Seq(Characters), NEW placed, PlacedIn(t, placed)
  PROVE  Named(placed[Len(t)]) = {NameAt(t, p) : p \in Markers(t)}
<1> DEFINE N == Len(t)  T == Readable(t)
           NamesTo(k) == {NameAt(t, p) : p \in {q \in Markers(t) : q <= k}}
           E == {k \in 0 .. N : Named(placed[k]) = NamesTo(k)}
<1>1. N \in Nat /\ Markers(t) \subseteq 1 .. N
  BY DEF Markers
<1>2. /\ placed \in [0 .. N -> Seq(T)] /\ placed[0] = <<>>
      /\ \A k \in 1 .. N : placed[k] = IF k \in Within(t) THEN placed[k - 1] ELSE Append(placed[k - 1], Put(t, k))
  BY DEF PlacedIn
<1>3. \A k \in 1 .. N : Put(t, k) \in T
  BY FilledIs
<1>4. \A k \in 1 .. N : k \in Within(t) => k \notin Markers(t)
  <2> SUFFICES ASSUME NEW m \in Markers(t), NEW k \in (m + 1)..WordEnd(t, m + 1), k \in Markers(t) PROVE FALSE
    BY DEF Within
  <2>1. m + 1 \in 1 .. Len(t) /\ t[m + 1] \in Letters
    BY <1>1 DEF Markers
  <2>2. t[k] \in Letters
    BY <2>1, WordIs
  <2>3. t[k] = ":"
    BY DEF Markers
  <2> QED
    BY <2>2, <2>3, LettersApart
<1>5. \A k \in 1 .. N : t[k] # "$"
  <2>1. \A k \in 1 .. N : t[k] \in Characters
    OBVIOUS
  <2> QED
    BY <2>1, LettersApart DEF Characters
<1> HIDE DEF N, T
<1>6. 0 \in E
  <2>1. Named(<<>>) = {}
    BY DEF Named
  <2>2. {q \in Markers(t) : q <= 0} = {}
    <3>1. \A q \in Markers(t) : ~(q <= 0)
      BY <1>1
    <3> QED
      BY Zenon, <3>1
  <2>3. NamesTo(0) = {}
    BY <2>2
  <2>4. 0 \in 0 .. N
    BY <1>1
  <2> HIDE DEF NamesTo
  <2> QED
    BY Zenon, <1>2, <2>1, <2>3, <2>4
<1>7. ASSUME NEW k \in 1 .. N, k - 1 \in E PROVE k \in E
  <2>1. Named(placed[k - 1]) = NamesTo(k - 1) /\ placed[k - 1] \in Seq(T) /\ k \in 0 .. N
    BY <1>1, <1>2, <1>7
  <2>2. \A q \in Markers(t) : q <= k <=> q <= k - 1 \/ q = k
    BY <1>1
  <2>3. placed[k] = IF k \in Within(t) THEN placed[k - 1] ELSE Append(placed[k - 1], Put(t, k))
    BY <1>2
  <2>4. k \notin Within(t) => Named(placed[k])
            = Named(placed[k - 1]) \cup (IF Put(t, k).is = "$" THEN {Put(t, k).of} ELSE {})
    BY <1>3, <2>1, <2>3, NamedAppend
  <2>5. CASE k \notin Markers(t)
    <3>1. NamesTo(k) = NamesTo(k - 1)
      <4>1. {q \in Markers(t) : q <= k} = {q \in Markers(t) : q <= k - 1}
        BY Zenon, <2>2, <2>5
      <4> QED
        BY <4>1
    <3>2. Put(t, k).is # "$"
      <4>1. Put(t, k) = [is |-> t[k], of |-> <<>>]
        BY <2>5 DEF Put, Char
      <4> QED
        BY <1>5, <4>1
    <3>3. Named(placed[k]) = Named(placed[k - 1])
      BY <2>3, <2>4, <3>2
    <3> HIDE DEF NamesTo
    <3> QED
      BY <2>1, <3>1, <3>3
  <2>6. CASE k \in Markers(t)
    <3>1. NamesTo(k) = NamesTo(k - 1) \cup {NameAt(t, k)}
      <4>1. {q \in Markers(t) : q <= k} = {q \in Markers(t) : q <= k - 1} \cup {k}
        BY <2>2, <2>6
      <4> QED
        BY <4>1
    <3>2. Put(t, k).is = "$" /\ Put(t, k).of = NameAt(t, k)
      BY <2>6 DEF Put, Value
    <3>3. Named(placed[k]) = Named(placed[k - 1]) \cup {NameAt(t, k)}
      BY <1>4, <2>4, <2>6, <3>2
    <3> HIDE DEF NamesTo
    <3> QED
      BY <2>1, <3>1, <3>3
  <2> QED
    BY <2>5, <2>6
<1>8. N \in E
  <2> HIDE DEF E
  <2> QED
    BY <1>1, <1>6, <1>7, UpTo
<1>9. {q \in Markers(t) : q <= N} = Markers(t)
  <2>1. \A q \in Markers(t) : q <= N
    BY <1>1
  <2> QED
    BY Zenon, <2>1
<1> QED
  BY <1>8, <1>9 DEF N

-----------------------------------------------------------------------------
(* The text that is sent is read as it was written                         *)

\* A character that is left out follows another, or its marker.
LEMMA WithinIs ==
  ASSUME NEW t \in Seq(Characters), NEW e \in 1 .. Len(t) + 1, e \in Within(t)
  PROVE  e \in 2 .. Len(t) /\ t[e] \in Letters /\ (e - 1 \in Within(t) \/ e - 1 \in Markers(t))
<1>1. PICK m \in Markers(t) : e \in (m + 1)..WordEnd(t, m + 1)
  BY DEF Within
<1>2. m \in 1 .. Len(t) /\ m + 1 \in 1 .. Len(t) /\ t[m + 1] \in Letters /\ Len(t) \in Nat
  BY DEF Markers
<1>3. WordEnd(t, m + 1) \in (m + 1) .. Len(t) /\ \A q \in (m + 1) .. WordEnd(t, m + 1) : t[q] \in Letters
  BY <1>2, WordIs
<1>4. e \in 2 .. Len(t) /\ t[e] \in Letters
  BY <1>1, <1>2, <1>3
<1>5. CASE e = m + 1
  <2>1. e - 1 = m
    BY <1>2, <1>5
  <2> QED
    BY <1>4, <2>1
<1>6. CASE e # m + 1
  <2>1. e - 1 \in (m + 1)..WordEnd(t, m + 1)
    BY <1>1, <1>2, <1>3, <1>6
  <2>2. e - 1 \in Within(t)
    BY <2>1 DEF Within
  <2> QED
    BY <1>4, <2>2
<1> QED
  BY <1>5, <1>6

AppendsLater(u, v, x) == Append(u \o v, x) = u \o Append(v, x)

LEMMA AppendLater ==
  ASSUME NEW S, NEW u \in Seq(S), NEW v \in Seq(S), NEW x \in S
  PROVE  AppendsLater(u, v, x)
  BY DEF AppendsLater

\* Characters that no marker concerns are sent as they are.
LEMMA PlainRun ==
  ASSUME NEW t \in Seq(Characters), NEW placed, PlacedIn(t, placed),
         NEW p \in 1 .. Len(t), NEW e \in p .. Len(t),
         \A q \in p .. e : q \notin Within(t) /\ q \notin Markers(t)
  PROVE  placed[e] = placed[p - 1] \o Plain(t, p, e)
<1> DEFINE N == Len(t)  T == Readable(t)  u == placed[p - 1]
           E == {k \in 0 .. e + 1 - p : placed[p + k - 1] = u \o Plain(t, p, p + k - 1)}
<1>1. N \in Nat /\ p \in 1 .. N /\ e \in p .. N
  OBVIOUS
<1>2. /\ placed \in [0 .. N -> Seq(T)]
      /\ \A k \in 1 .. N : placed[k] = IF k \in Within(t) THEN placed[k - 1] ELSE Append(placed[k - 1], Put(t, k))
  BY DEF PlacedIn
<1>3. \A k \in 1 .. N : Char(t[k]) \in T
  BY DEF Readable
<1> HIDE DEF N, T
<1>4. u \in Seq(T)
  BY <1>1, <1>2
<1> HIDE DEF u
<1>5. ASSUME NEW k \in 0 .. e + 1 - p
      PROVE  Plain(t, p, p + k - 1) \in Seq(T) /\ Len(Plain(t, p, p + k - 1)) = k
             /\ \A i \in 1 .. k : Plain(t, p, p + k - 1)[i] = Char(t[p + i - 1])
  <2> DEFINE w == Plain(t, p, p + k - 1)
  <2>1. (p + k - 1) + 1 - p = k /\ k \in Nat /\ \A i \in 1 .. k : p + i - 1 \in 1 .. N
    BY <1>1
  <2>2. w = [i \in 1 .. k |-> Char(t[p + i - 1])]
    BY <2>1 DEF Plain
  <2>3. \A i \in 1 .. k : Char(t[p + i - 1]) \in T
    BY <1>3, <2>1
  <2> HIDE DEF w
  <2>4. w \in [1 .. k -> T] /\ \A i \in 1 .. k : w[i] = Char(t[p + i - 1])
    BY <2>2, <2>3
  <2>5. w \in Seq(T) /\ Len(w) = k
    BY <2>1, <2>4
  <2> QED
    BY <2>4, <2>5 DEF w
<1>6. 0 \in E
  <2>1. 0 \in 0 .. e + 1 - p /\ p + 0 - 1 = p - 1
    BY <1>1
  <2> DEFINE w == Plain(t, p, p + 0 - 1)
  <2>2. w \in Seq(T) /\ Len(w) = 0
    BY <1>5, <2>1
  <2> HIDE DEF w
  <2>3. u \o w = u
    <3>1. w = <<>>
      BY <2>2, EmptySeq
    <3> QED
      BY <1>4, <3>1, ConcatEmptySeq
  <2> QED
    BY <2>1, <2>3 DEF u, w
<1>7. ASSUME NEW k \in 1 .. e + 1 - p, k - 1 \in E PROVE k \in E
  <2> DEFINE q == p + k - 1  a == Plain(t, p, p + (k - 1) - 1)  b == Plain(t, p, p + k - 1)  x == Char(t[q])
  <2>1. q \in p .. e /\ q \in 1 .. N /\ q - 1 = p + (k - 1) - 1 /\ k \in 0 .. e + 1 - p /\ k - 1 \in 0 .. e + 1 - p
    BY <1>1
  <2>2. placed[q - 1] = u \o a
    BY <1>7, <2>1
  <2>3. placed[q] = Append(placed[q - 1], x)
    <3>1. q \notin Within(t) /\ q \notin Markers(t)
      BY <2>1
    <3>2. Put(t, q) = x
      BY <3>1 DEF Put
    <3> HIDE DEF q, x
    <3> QED
      BY <1>2, <2>1, <3>1, <3>2
  <2>4. a \in Seq(T) /\ Len(a) = k - 1 /\ \A i \in 1 .. k - 1 : a[i] = Char(t[p + i - 1])
    BY <1>5, <2>1
  <2>5. b \in Seq(T) /\ Len(b) = k /\ (\A i \in 1 .. k : b[i] = Char(t[p + i - 1])) /\ x \in T
    BY <1>3, <1>5, <2>1
  <2>6. b[k] = x
    BY <2>1, <2>5
  <2> HIDE DEF a, b, q, x
  <2>7. b = Append(a, x)
    <3> DEFINE c == Append(a, x)
    <3>1. c \in Seq(T) /\ Len(c) = (k - 1) + 1 /\ c[(k - 1) + 1] = x /\ \A i \in 1 .. k - 1 : c[i] = a[i]
      BY <2>4, <2>5
    <3>2. (k - 1) + 1 = k
      OBVIOUS
    <3> HIDE DEF c
    <3>3. \A i \in 1 .. Len(b) : b[i] = c[i]
      <4>1. \A i \in 1 .. k : i = k \/ i \in 1 .. k - 1
        OBVIOUS
      <4> QED
        BY <2>4, <2>5, <2>6, <3>1, <3>2, <4>1
    <3>4. b = c
      BY <2>5, <3>1, <3>2, <3>3, SeqEqual
    <3> QED
      BY <3>4 DEF c
  <2>8. Append(u \o a, x) = u \o Append(a, x)
    <3>1. a \in Seq(T) /\ x \in T
      BY <2>4, <2>5
    <3>2. AppendsLater(u, a, x)
      BY <1>4, <3>1, AppendLater
    <3> QED
      BY Zenon, <3>2 DEF AppendsLater
  <2>9. placed[q] = u \o b
    BY <2>2, <2>3, <2>7, <2>8
  <2> QED
    BY <2>1, <2>9 DEF q, b
<1>8. e + 1 - p \in E
  <2> DEFINE n == e + 1 - p
  <2> HIDE DEF E
  <2>3. n \in Nat
    BY <1>1
  <2>1. n \in Nat /\ \A k \in 1 .. n : k - 1 \in E => k \in E
    BY <1>7, <2>3
  <2> HIDE DEF n
  <2>2. n \in E
    BY <1>6, <2>1, UpTo
  <2> QED
    BY <2>2 DEF n
<1>9. p + (e + 1 - p) - 1 = e
  BY <1>1
<1> QED
  BY <1>8, <1>9 DEF u

\* Where a token of the server begins: not in a literal, nor amid a cast or a name.
Boundary(t, opens, p) ==
    p \in 1 .. Len(t) + 1 /\ Quotes(t, 1 .. p - 1) % 2 = 0 /\ ~opens[p - 1] /\ p \notin Within(t)

\* One token: a literal, a cast, a marker or a character.
LEMMA NextBoundary ==
  ASSUME NEW t \in Seq(Characters), NEW opens, Opens(t, opens), Quotes(t, DOMAIN t) % 2 = 0,
         NEW placed, PlacedIn(t, placed), NEW p \in 1 .. Len(t), Boundary(t, opens, p)
  PROVE  /\ Boundary(t, opens, TokenEnd(t, p) + 1)
         /\ placed[TokenEnd(t, p)] = placed[p - 1] \o Token(t, p)
<1> DEFINE N == Len(t)  e == TokenEnd(t, p)  before == Quotes(t, 1 .. p - 1)
<1>1. N \in Nat /\ DOMAIN t = 1 .. N /\ p \in 1 .. N
  OBVIOUS
<1>2. /\ ~opens[p - 1]
      /\ \A q \in 1 .. N : opens[q] <=> q < N /\ t[q] = ":" /\ t[q + 1] = ":" /\ ~opens[q - 1]
      /\ Casts(t) = {q \in DOMAIN t : opens[q] \/ opens[q - 1]}
  BY DEF Opens, Boundary
<1>3. p \notin Within(t) /\ before \in Nat /\ before % 2 = 0
  <2>1. \A q \in p + 1 .. p : t[q] # "'"
    BY <1>1
  <2>2. p \in p .. Len(t)
    BY <1>1
  <2>3. before \in Nat
    BY <2>1, <2>2, QuotesAre
  <2> QED
    BY <2>3 DEF Boundary
<1>4. e \in p .. N
  BY TokenIs
<1>5. \A q \in Markers(t) : q \in 1 .. N - 1 /\ t[q] = ":" /\ q \notin Casts(t) /\ ~Literal(t, q) /\ t[q + 1] \in Letters
  BY DEF Markers, Protected
<1>6. \A q \in 1 .. N + 1 : q \in Within(t) => q \in 2 .. N /\ t[q] \in Letters /\ (q - 1 \in Within(t) \/ q - 1 \in Markers(t))
  BY WithinIs
<1>7. CASE t[p] = "'"
  <2> DEFINE after == {r \in (p + 1)..N : t[r] = "'"}
  <2>1. e = Min(after \cup {N}) /\ Token(t, p) = Plain(t, p, e)
    BY <1>7 DEF TokenEnd, Token
  <2>2. after # {}
    <3> SUFFICES ASSUME after = {} PROVE FALSE
      OBVIOUS
    <3>1. N \in p .. Len(t) /\ \A q \in p + 1 .. N : t[q] # "'"
      BY <1>1
    <3>2. Quotes(t, 1 .. N) = before + 1
      BY <1>7, <3>1, QuotesAre
    <3>3. Quotes(t, 1 .. N) % 2 = 0
      BY <1>1
    <3> HIDE DEF before
    <3> QED
      BY <1>3, <3>2, <3>3
  <2>3. e \in p + 1 .. N /\ t[e] = "'" /\ \A q \in p + 1 .. e - 1 : t[q] # "'"
    <3> DEFINE here == after \cup {N}
    <3>1. here \in SUBSET Nat /\ here # {}
      BY <1>1
    <3>2. e \in here /\ \A r \in here : e <= r
      <4>1. e = Min(here)
        BY <2>1
      <4> HIDE DEF here, e
      <4>2. Min(here) \in here /\ \A r \in here : Min(here) <= r
        BY <3>1, LeastOf
      <4> QED
        BY <4>1, <4>2
    <3>3. PICK r \in after : TRUE
      BY <2>2
    <3>4. r \in p + 1 .. N /\ t[r] = "'" /\ e <= r
      BY <3>2, <3>3
    <3> HIDE DEF e
    <3>5. e \in after
      <4>1. CASE e = N
        <5> HIDE DEF after, N
        <5>1. r = N
          BY <1>1, <3>4, <4>1
        <5> QED
          BY <3>3, <4>1, <5>1
      <4>2. CASE e # N
        BY <3>2, <4>2
      <4> QED
        BY <4>1, <4>2
    <3>6. ASSUME NEW q \in p + 1 .. e - 1, t[q] = "'" PROVE FALSE
      <4>1. q \in after /\ q < e /\ e \in Int /\ q \in Int
        BY <1>1, <3>5, <3>6
      <4>2. e <= q
        BY <3>2, <4>1
      <4> QED
        BY <4>1, <4>2
    <3> QED
      BY <3>5, <3>6
  <2> HIDE DEF e, after
  <2>4. ASSUME NEW q \in p + 1 .. e PROVE Quotes(t, 1 .. q - 1) = before + 1
    <3>1. q - 1 \in p .. Len(t) /\ \A r \in p + 1 .. q - 1 : r \in p + 1 .. e - 1
      BY <1>1, <2>3
    <3> QED
      BY <1>7, <2>3, <3>1, QuotesAre
  <2>5. ASSUME NEW q \in p .. e PROVE q \notin Markers(t)
    <3>1. CASE q = p \/ q = e
      BY <1>5, <1>7, <2>3, <3>1
    <3>2. CASE q # p /\ q # e
      <4>1. q \in p + 1 .. e /\ q \in 1 .. Len(t) /\ e \in q .. Len(t)
        BY <1>1, <2>3, <3>2
      <4>2. Quotes(t, q .. Len(t)) > 0
        BY <2>3, <4>1, QuoteAhead
      <4>3. Quotes(t, 1 .. (q - 1)) % 2 = 1
        <5>1. Quotes(t, 1 .. (q - 1)) = before + 1
          BY <2>4, <4>1
        <5>2. (before + 1) % 2 = 1
          <6> HIDE DEF before
          <6> QED
            BY <1>3
        <5> QED
          BY <5>1, <5>2
      <4>4. Literal(t, q)
        BY <4>2, <4>3 DEF Literal
      <4> QED
        BY <1>5, <4>4
    <3> QED
      BY <3>1, <3>2
  <2>6. ASSUME NEW q \in p .. e PROVE q \notin Within(t)
    <3> DEFINE E == {k \in 0 .. q - p : p + k \notin Within(t)}
    <3>1. 0 \in E
      BY <1>1, <1>3
    <3>2. ASSUME NEW k \in 1 .. q - p, k - 1 \in E PROVE k \in E
      <4>1. p + k \in 1 .. N + 1 /\ (p + k) - 1 = p + (k - 1) /\ p + (k - 1) \in p .. e
        BY <1>1, <2>3
      <4>2. p + (k - 1) \notin Within(t) /\ p + (k - 1) \notin Markers(t)
        BY <2>5, <3>2, <4>1
      <4>3. p + k \notin Within(t)
        BY <1>6, <4>1, <4>2
      <4> QED
        BY <4>3
    <3> DEFINE n == q - p
    <3>3. n \in Nat
      BY <1>1, <2>3
    <3>4. \A k \in 1 .. n : k - 1 \in E => k \in E
      BY <3>2
    <3> HIDE DEF n, E
    <3>5. n \in E
      BY <3>1, <3>3, <3>4, UpTo
    <3>6. p + n = q
      BY <1>1 DEF n
    <3> QED
      BY <3>5, <3>6 DEF E
  <2>7. placed[e] = placed[p - 1] \o Plain(t, p, e)
    BY <1>4, <2>5, <2>6, PlainRun
  <2>8. Quotes(t, 1 .. (e + 1) - 1) % 2 = 0
    <3>1. e \in 1 .. Len(t) /\ e \in e .. Len(t) /\ (\A q \in e + 1 .. e : t[q] # "'") /\ e \in p + 1 .. e /\ (e + 1) - 1 = e
      BY <1>1, <2>3
    <3>2. Quotes(t, 1 .. e) = Quotes(t, 1 .. e - 1) + 1
      BY <2>3, <3>1, QuotesAre
    <3>3. Quotes(t, 1 .. e - 1) = before + 1
      BY <2>4, <3>1
    <3> HIDE DEF before
    <3> QED
      BY <1>3, <3>1, <3>2, <3>3
  <2>9. ~opens[(e + 1) - 1]
    <3>1. (e + 1) - 1 = e /\ e \in 1 .. N
      BY <1>1, <2>3
    <3> QED
      BY <1>2, <2>3, <3>1
  <2>10. e + 1 \notin Within(t)
    <3>1. e + 1 \in 1 .. N + 1 /\ (e + 1) - 1 = e /\ e \in p .. e
      BY <1>1, <2>3
    <3> QED
      BY <1>6, <2>5, <2>6, <3>1
  <2>11. e + 1 \in 1 .. Len(t) + 1
    BY <1>1, <2>3
  <2> QED
    BY Zenon, <2>1, <2>7, <2>8, <2>9, <2>10, <2>11 DEF Boundary, e
<1>8. CASE t[p] # "'" /\ IsCast(t, p)
  <2>1. e = p + 1 /\ Token(t, p) = Plain(t, p, e)
    BY <1>8 DEF TokenEnd, Token
  <2> HIDE DEF e
  <2>2. p < N /\ t[p] = ":" /\ t[p + 1] = ":"
    BY <1>8 DEF IsCast
  <2>3. p + 1 \in 1 .. N /\ (p + 1) - 1 = p /\ p + 1 \in 1 .. N + 1 /\ (p + 1) + 1 \in 1 .. N + 1 /\ ((p + 1) + 1) - 1 = p + 1
        /\ \A q \in p .. p + 1 : q = p \/ q = p + 1
    BY <1>1, <2>2
  <2>4. opens[p]
    BY <1>2, <2>2
  <2>5. p \in Casts(t) /\ p + 1 \in Casts(t)
    BY <1>1, <1>2, <2>3, <2>4
  <2>6. p + 1 \notin Within(t)
    BY <1>6, <2>2, <2>3, LettersApart
  <2>7. \A q \in p .. e : q \notin Within(t) /\ q \notin Markers(t)
    BY <1>3, <1>5, <2>1, <2>3, <2>5, <2>6
  <2>8. placed[e] = placed[p - 1] \o Plain(t, p, e)
    BY <1>4, <2>7, PlainRun
  <2>9. Quotes(t, 1 .. p + 1) = before
    <3>1. p + 1 \in p .. Len(t) /\ \A q \in p + 1 .. p + 1 : t[q] # "'"
      BY <1>1, <2>2
    <3> QED
      BY <1>8, <3>1, QuotesAre
  <2>10. ~opens[p + 1]
    BY <1>2, <2>3, <2>4
  <2>11. (p + 1) + 1 \notin Within(t)
    BY <1>5, <1>6, <2>3, <2>5, <2>6
  <2>12. Boundary(t, opens, (p + 1) + 1)
    <3> HIDE DEF before
    <3> QED
      BY Zenon, <1>3, <2>3, <2>9, <2>10, <2>11 DEF Boundary, N
  <2> QED
    BY Zenon, <2>1, <2>8, <2>12 DEF e
<1>9. CASE t[p] # "'" /\ ~IsCast(t, p) /\ IsMarker(t, p)
  <2>1. e = WordEnd(t, p + 1) /\ Token(t, p) = <<Value(NameAt(t, p))>>
    BY <1>9 DEF TokenEnd, Token
  <2>2. p < N /\ t[p] = ":" /\ t[p + 1] # ":" /\ t[p + 1] \in Letters
    BY <1>9 DEF IsCast, IsMarker
  <2>3. p + 1 \in 1 .. Len(t)
    BY <1>1, <2>2
  <2>4. /\ e \in p + 1 .. N /\ \A q \in p + 1 .. e : t[q] \in Letters
        /\ e < N => t[e + 1] \notin Letters
    BY <2>1, <2>2, <2>3, WordIs
  <2> HIDE DEF e
  <2>5. p \in Markers(t)
    <3>1. ~opens[p]
      BY <1>2, <2>2
    <3>2. p \notin Casts(t)
      BY <1>2, <3>1
    <3>3. ~Literal(t, p)
      BY <1>3 DEF Literal
    <3>4. p \in 1 .. Len(t) - 1
      BY <1>1, <2>2
    <3> QED
      BY <2>2, <3>2, <3>3, <3>4 DEF Markers, Protected
  <2>6. \A q \in p + 1 .. e : q \in Within(t)
    BY <2>1, <2>5 DEF Within
  <2>7. /\ placed \in [0 .. N -> Seq(Readable(t))]
        /\ \A k \in 1 .. N : placed[k] = IF k \in Within(t) THEN placed[k - 1] ELSE Append(placed[k - 1], Put(t, k))
    BY DEF PlacedIn
  <2>8. placed[p] = Append(placed[p - 1], Value(NameAt(t, p)))
    BY <1>3, <2>5, <2>7 DEF Put
  <2>9. placed[e] = placed[p]
    <3> DEFINE E == {k \in 0 .. e - p : placed[p + k] = placed[p]}
    <3>1. 0 \in E
      BY <1>1, <2>4
    <3>2. ASSUME NEW k \in 1 .. e - p, k - 1 \in E PROVE k \in E
      <4>1. p + k \in p + 1 .. e /\ p + k \in 1 .. N /\ (p + k) - 1 = p + (k - 1)
        BY <1>1, <2>4
      <4>2. placed[p + k] = placed[p + (k - 1)]
        BY <2>6, <2>7, <4>1
      <4> QED
        BY <3>2, <4>2
    <3> DEFINE n == e - p
    <3>3. n \in Nat
      BY <1>1, <2>4
    <3>4. \A k \in 1 .. n : k - 1 \in E => k \in E
      BY <3>2
    <3> HIDE DEF n, E
    <3>5. n \in E
      BY <3>1, <3>3, <3>4, UpTo
    <3>6. p + n = e
      BY <1>1, <2>4 DEF n
    <3> QED
      BY <3>5, <3>6 DEF E
  <2>10. placed[e] = placed[p - 1] \o Token(t, p)
    <3> DEFINE x == Value(NameAt(t, p))
    <3>1. placed[p - 1] \in Seq(Readable(t))
      BY <1>1, <2>7
    <3>2. x \in Readable(t)
      BY DEF Readable
    <3> HIDE DEF x
    <3>3. Append(placed[p - 1], x) = placed[p - 1] \o <<x>>
      BY Zenon, <3>1, <3>2, AppendIsConcat
    <3> QED
      BY Zenon, <2>1, <2>8, <2>9, <3>3 DEF x
  <2>11. Quotes(t, 1 .. (e + 1) - 1) % 2 = 0
    <3>1. e \in p .. Len(t) /\ (e + 1) - 1 = e
      BY <1>1, <2>4
    <3>2. \A q \in p + 1 .. e : t[q] # "'"
      BY <2>4, LettersApart
    <3>3. Quotes(t, 1 .. e) = before
      BY <1>9, <3>1, <3>2, QuotesAre
    <3> QED
      BY Zenon, <1>3, <3>1, <3>3
  <2>12. ~opens[(e + 1) - 1]
    <3>1. (e + 1) - 1 = e /\ e \in 1 .. N /\ t[e] \in Letters
      BY <1>1, <2>4
    <3> QED
      BY <1>2, <3>1, LettersApart
  <2>13. e + 1 \notin Within(t)
    <3>1. e + 1 \in 1 .. N + 1
      BY <1>1, <2>4
    <3>2. e + 1 \in 2 .. N => e < N
      BY <1>1, <2>4
    <3> QED
      BY <1>6, <2>4, <3>1, <3>2
  <2>14. e + 1 \in 1 .. Len(t) + 1
    BY <1>1, <2>4
  <2> QED
    BY Zenon, <2>10, <2>11, <2>12, <2>13, <2>14 DEF Boundary, e
<1>10. CASE t[p] # "'" /\ ~IsCast(t, p) /\ ~IsMarker(t, p)
  <2>1. e = p /\ Token(t, p) = Plain(t, p, e)
    BY <1>10 DEF TokenEnd, Token
  <2> HIDE DEF e
  <2>2. p \in p .. Len(t) /\ (\A q \in p .. p : q = p) /\ (p + 1) - 1 = p /\ p + 1 \in 1 .. N + 1
        /\ \A q \in p + 1 .. p : t[q] # "'"
    BY <1>1
  <2>3. p \notin Markers(t)
    <3>1. p \in Markers(t) => p < N
      BY <1>1, <1>5
    <3> QED
      BY <1>5, <1>10, <3>1 DEF IsMarker
  <2>4. placed[p] = placed[p - 1] \o Plain(t, p, p)
    BY <1>3, <2>2, <2>3, PlainRun
  <2>5. Quotes(t, 1 .. p) = before
    BY <1>10, <2>2, QuotesAre
  <2>6. ~opens[p]
    BY <1>2, <1>10 DEF IsCast
  <2>7. p + 1 \notin Within(t)
    BY <1>3, <1>6, <2>2, <2>3
  <2>8. Boundary(t, opens, p + 1)
    <3> HIDE DEF before
    <3> QED
      BY Zenon, <1>3, <2>2, <2>5, <2>6, <2>7 DEF Boundary, N
  <2> QED
    BY Zenon, <2>1, <2>4, <2>8 DEF e
<1> QED
  BY <1>7, <1>8, <1>9, <1>10

\* The text that is sent has the values where the server reads their names.
LEMMA ReadAsPlaced ==
  ASSUME NEW t \in Seq(Characters), Quotes(t, DOMAIN t) % 2 = 0, NEW placed, PlacedIn(t, placed)
  PROVE  ReadFrom(t) = placed[Len(t)]
<1> DEFINE N == Len(t)  T == Readable(t)
<1>1. PICK opens : Opens(t, opens)
  BY CastsAre
<1>2. PICK read \in [1 .. N + 1 -> Seq(T)] :
        /\ ReadFrom(t) = read[1] /\ read[N + 1] = <<>>
        /\ \A p \in 1 .. N : read[p] = Token(t, p) \o read[TokenEnd(t, p) + 1]
  BY ReadIs
<1>3. N \in Nat
  OBVIOUS
<1>4. placed \in [0 .. N -> Seq(T)] /\ placed[0] = <<>>
  BY DEF PlacedIn
<1>5. \A p \in 1 .. N : TokenEnd(t, p) \in p .. N /\ Token(t, p) \in Seq(T)
  BY TokenIs
<1>6. \A p \in 1 .. N : Boundary(t, opens, p) =>
        Boundary(t, opens, TokenEnd(t, p) + 1) /\ placed[TokenEnd(t, p)] = placed[p - 1] \o Token(t, p)
  BY <1>1, NextBoundary
<1> HIDE DEF N, T
<1> DEFINE Meets(p) == Boundary(t, opens, p) => placed[N] = placed[p - 1] \o read[p]
           E == {k \in 0 .. N : \A p \in N + 1 - k .. N + 1 : Meets(p)}
<1>7. Meets(N + 1)
  <2>1. placed[N] \in Seq(T) /\ (N + 1) - 1 = N
    BY <1>3, <1>4
  <2>2. placed[N] \o <<>> = placed[N]
    BY <2>1, ConcatEmptySeq
  <2> QED
    BY Zenon, <1>2, <2>1, <2>2
<1>8. 0 \in E
  <2>1. \A p \in N + 1 - 0 .. N + 1 : p = N + 1
    BY <1>3
  <2> HIDE DEF Meets
  <2> QED
    BY <1>3, <1>7, <2>1
<1>9. ASSUME NEW k \in 1 .. N, k - 1 \in E PROVE k \in E
  <2> DEFINE p == N + 1 - k  e == TokenEnd(t, p)
  <2>1. p \in 1 .. N /\ p \in Int /\ \A q \in p .. N + 1 : q = p \/ q \in N + 1 - (k - 1) .. N + 1
    BY <1>3
  <2>2. e \in p .. N /\ Token(t, p) \in Seq(T) /\ read[p] = Token(t, p) \o read[e + 1]
    BY <1>2, <1>5, <2>1
  <2>3. e + 1 \in N + 1 - (k - 1) .. N + 1 /\ e + 1 \in 1 .. N + 1 /\ (e + 1) - 1 = e /\ p - 1 \in 0 .. N
    <3>1. e \in Int /\ p =< e /\ e =< N /\ k \in Int /\ 1 =< p /\ p =< N
      BY <1>3, <2>1, <2>2
    <3>2. N + 1 - (k - 1) = p + 1
      BY <1>3, <3>1
    <3> HIDE DEF p, e
    <3> QED
      BY SMTT(30), <1>3, <2>1, <3>1, <3>2
  <2>4. Meets(e + 1)
    <3> HIDE DEF Meets
    <3> QED
      BY <1>9, <2>3
  <2> HIDE DEF p, e
  <2>5. ASSUME Boundary(t, opens, p) PROVE placed[N] = placed[p - 1] \o read[p]
    <3> DEFINE a == placed[p - 1]  b == Token(t, p)  c == read[e + 1]
    <3>1. Boundary(t, opens, e + 1) /\ placed[e] = a \o b
      BY Zenon, <1>6, <2>1, <2>5 DEF e
    <3>2. placed[N] = placed[e] \o c
      BY Zenon, <2>3, <2>4, <3>1
    <3>3. a \in Seq(T) /\ b \in Seq(T) /\ c \in Seq(T)
      BY <1>2, <1>4, <2>2, <2>3
    <3>4. read[p] = b \o c
      BY Zenon, <2>2
    <3> HIDE DEF a, b, c
    <3>5. (a \o b) \o c = a \o (b \o c)
      BY SMTT(30), <3>3, ConcatAssociative
    <3> QED
      BY Zenon, <3>1, <3>2, <3>4, <3>5 DEF a
  <2>6. Meets(p)
    BY <2>5
  <2> HIDE DEF Meets
  <2>7. \A q \in p .. N + 1 : Meets(q)
    BY <1>9, <2>1, <2>6
  <2>8. k \in 0 .. N
    BY <1>3
  <2> QED
    BY <2>7, <2>8 DEF p
<1>10. Meets(1)
  <2> HIDE DEF Meets
  <2>1. N \in E
    <3> HIDE DEF E
    <3> QED
      BY <1>3, <1>8, <1>9, UpTo
  <2>2. 1 \in N + 1 - N .. N + 1
    BY <1>3
  <2> QED
    BY <2>1, <2>2
<1>11. Boundary(t, opens, 1)
  <2>1. 1 \in 1 .. Len(t) + 1 /\ 1 - 1 = 0 /\ 1 .. 0 = {}
    BY <1>3 DEF N
  <2>2. Quotes(t, 1 .. 1 - 1) = 0
    <3>1. Quotes(t, {}) = Cardinality({})
      BY DEF Quotes
    <3> QED
      BY <2>1, <3>1, FS_EmptySet
  <2>3. 0 % 2 = 0
    OBVIOUS
  <2>4. 1 \notin Within(t)
    <3>1. 1 \notin 2 .. Len(t)
      OBVIOUS
    <3> QED
      BY <2>1, <3>1, WithinIs
  <2>5. ~opens[1 - 1]
    BY <1>1, <2>1 DEF Opens
  <2> QED
    BY Zenon, <2>1, <2>2, <2>3, <2>4, <2>5 DEF Boundary
<1>12. placed[N] = placed[0] \o read[1]
  <2>1. 1 - 1 = 0
    OBVIOUS
  <2> QED
    BY Zenon, <1>10, <1>11, <2>1
<1>13. <<>> \o read[1] = read[1]
  <2>1. read[1] \in Seq(T)
    BY <1>3
  <2> QED
    BY <2>1, ConcatEmptySeq
<1> QED
  BY Zenon, <1>2, <1>4, <1>12, <1>13 DEF N

LEMMA PlacedAsRead == ASSUME QueriesTypeOK PROVE ValuesPlaced
<1> DEFINE t == statement  meant == ReadFrom(t)  args == param_order(t)  sent == converted(t)
<1> SUFFICES ASSUME Quotes(t, DOMAIN t) % 2 = 0, NEW given \in Givens \ {{}}
             PROVE  DB_execute(t, given) = IF Named(meant) \subseteq given THEN meant ELSE Raised
  BY Zenon DEF ValuesPlaced
<1>1. t \in Seq(Characters)
  BY DEF QueriesTypeOK
<1> HIDE DEF t
<1>2. PICK placed : PlacedIn(t, placed) /\ [i \in DOMAIN sent |-> Filled(args, sent[i])] = placed[Len(t)]
  BY <1>1, PlacedAre
<1>3. meant = placed[Len(t)]
  BY <1>1, <1>2, ReadAsPlaced
<1>4. Named(meant) = ToSet(args)
  BY <1>1, <1>2, <1>3, NamedAre, ArgsAre
<1>5. DB_execute(t, given) =
        IF ~(ToSet(args) \subseteq given) THEN Raised ELSE [i \in DOMAIN sent |-> Filled(args, sent[i])]
  BY Zenon DEF DB_execute, Filled
<1> HIDE DEF meant, args, sent
<1> QED
  BY Zenon, <1>2, <1>3, <1>4, <1>5 DEF meant

LEMMA QueriesMean == ASSUME QueriesTypeOK PROVE QueriesMeant
  BY Zenon, PlacedAsRead, FoundAsWritten DEF QueriesMeant

-----------------------------------------------------------------------------
(* The node                                                                *)

\* All that the parts of a node keep.  No scene's step concerns another's state.
NodeInv ==
    /\ TransfersInv /\ TransfersBounded /\ OutboxInv /\ OutboxBounded /\ ProjectionTypeOK
    /\ CatalogueInv /\ TokensInv /\ AdmissionInv /\ AdmissionBounded
    /\ CustomersInv /\ CustomersBounded /\ EmployeesInv /\ QueriesTypeOK

\* Whatever the scene, every part takes a step of its own or none.
LEMMA EveryPartSteps ==
  [MCNext]_all =>
    /\ [TransfersNext]_transfers /\ [OutboxNext]_outbox /\ [ProjectionNext]_stream
    /\ [CatalogueNext]_catalogue /\ [TokensNext]_tokens /\ [AdmissionNext]_admission
    /\ [CustomersNext]_customers /\ [EmployeesNext]_employees /\ [QueriesNext]_queries
<1>1. UNCHANGED all =>
        UNCHANGED <<transfers, outbox, stream, catalogue, tokens, admission, customers, employees, queries>>
  BY DEF all
<1> QED
  BY <1>1 DEF MCNext, Charging

LEMMA NodeStart == MCInit => NodeInv
  BY TransfersStart, OutboxStart, ProjectionSteps, CatalogueStart, TokensStart, AdmissionStart,
     CustomersStart, EmployeesStart, QueriesSteps, BoundsStart DEF MCInit, NodeInv

LEMMA NodeSteps == NodeInv /\ [MCNext]_all => NodeInv'
<1>1. TokensInv /\ [TokensNext]_tokens => TokensInv'
  BY TokensShaped, LogoutsStayKept, PairsStayApart, UsesStayCounted, OwnerStaysAlone, UnownedStays
     DEF TokensInv
<1> QED
  BY <1>1, EveryPartSteps, TransfersSteps, TransfersStayBounded, OutboxSteps, OutboxStaysBounded,
     ProjectionSteps, CatalogueStep, AdmissionSteps, AdmissionStaysBounded, CustomersSteps,
     CustomersStayBounded, EmployeesSteps, QueriesSteps DEF NodeInv

\* No part of a node leaves its types, and no counter its bound, whatever the scene.
THEOREM NodeTypes == MCSpec => []TypesOK
<1>1. NodeInv => TypesOK
  BY TransfersTyped, OutboxTyped, CatalogueTyped, AdmissionTyped, CustomersTyped, EmployeesTyped
     DEF NodeInv, TypesOK, TokensInv, TokensShape
<1> QED
  BY <1>1, NodeStart, NodeSteps, PTL DEF MCSpec

\* A statement is sent with each value where the server reads its name, and a search
\* finds what contains its term, for every statement, every set of values and every
\* term (_named_to_positional, escape_like).
THEOREM QueriesAreMeant == MCSpec => []QueriesMeant
<1>1. NodeInv => QueriesMeant
  BY Zenon, QueriesMean DEF NodeInv
<1> QED
  BY <1>1, NodeStart, NodeSteps, PTL DEF MCSpec
=============================================================================
