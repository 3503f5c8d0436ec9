----------------------------- MODULE NodeProofs -----------------------------
(***************************************************************************)
(* What a node keeps for any number of events, handlers, replays,          *)
(* transfers, products, calls and connections, whatever is lost, given up  *)
(* or begun again and whenever the process dies: the outbox of the domain  *)
(* events, the saga of the inventory transfers, and the slots, the pool    *)
(* and the tickets of the calls of a till.  Each has an inductive          *)
(* invariant that adds to the property what a task under way relies on.    *)
(* And that the projector of a sale's events says what they say.           *)
(***************************************************************************)
EXTENDS Outbox, Transfers, Admission, SaleProjection, FiniteSetTheorems, SequenceTheorems,
        WellFoundedInduction, TLAPS

-----------------------------------------------------------------------------
(* Outbox                                                                  *)

TaskType ==
    [at : {"none", "persist", "handle", "fail", "mark", "ended", "dead"},
     next : Nat \ {0}, failed : BOOLEAN]

RowType == [stored : BOOLEAN, processed : BOOLEAN, retries : Nat]

ReplayType ==
    [at : {"none", "take", "handle", "fail", "mark"}, event : Published \cup {Waiting.event},
     next : Nat \ {0}, failed : BOOLEAN, todo : SUBSET Published]

\* A handler runs where there is one to run.
OutboxShape ==
    /\ store \in BOOLEAN
    /\ row \in [Published -> RowType]
    /\ task \in [Published -> TaskType]
    /\ replay \in ReplayType
    /\ effects \in [Published -> [DOMAIN Handlers -> Nat]]
    /\ replayed \subseteq Published /\ calls \in Nat /\ lost \in Nat
    /\ \A e \in Published :
        /\ task[e].at \in {"none", "persist"} => task[e].next = 1 /\ ~task[e].failed
        /\ task[e].at \in {"handle", "fail"} => task[e].next \in DOMAIN Handlers
        /\ task[e].at = "fail" => task[e].failed
        /\ task[e].at = "mark" => task[e].next > Len(Handlers)
    /\ replay.at \in {"handle", "fail"} => replay.next \in DOMAIN Handlers
    /\ replay.at \in {"handle", "fail", "mark"} => replay.event \in Published

\* As long as none has failed, the loud handlers before the next one took effect.
Progress(e) ==
    ~task[e].failed =>
        \A k \in DOMAIN Handlers : k < task[e].next /\ Loud(k) => effects[e][k] >= 1

\* A row is marked by its own task, at the end and without a failure, or by a
\* replay.
MarkedTruly(e) ==
    row[e].processed /\ e \notin replayed =>
        task[e].at = "ended" /\ ~task[e].failed /\ task[e].next > Len(Handlers)

\* While no write fails, the row says what became of the task.
Recorded(e) ==
    store /\ lost = 0 =>
        /\ task[e].at \in {"handle", "fail", "mark", "ended"} => row[e].stored
        /\ task[e].failed /\ task[e].at \in {"handle", "mark", "ended"} => row[e].retries > 0
        /\ ~task[e].failed /\ task[e].at = "ended" => row[e].processed

\* Whether the replay under way has still to call handler k for e.
Awaits(e, k) ==
    /\ replay.at # "none"
    /\ e \in replay.todo \/ (replay.at # "take" /\ replay.event = e /\ replay.next <= k)

\* The task calls a handler once, and so does each replay: those of the replays
\* that are still to come do not count yet.
CalledOnce(e) ==
    \A k \in DOMAIN Handlers :
        effects[e][k] <= (IF k < task[e].next THEN 1 ELSE 0) + calls - (IF Awaits(e, k) THEN 1 ELSE 0)

\* The event at hand is not one of those to come.
TakenOut == replay.at \in {"handle", "fail", "mark"} => replay.event \notin replay.todo

OutboxInv ==
    /\ OutboxShape /\ TakenOut
    /\ \A e \in Published : Progress(e) /\ MarkedTruly(e) /\ Recorded(e) /\ CalledOnce(e)

EventKept(e) == Progress(e) /\ MarkedTruly(e) /\ Recorded(e) /\ CalledOnce(e)

LEMMA HandlersInOrder ==
  /\ Len(Handlers) \in Nat
  /\ DOMAIN Handlers = 1 .. Len(Handlers)
  /\ (Handlers = <<>>) <=> (Len(Handlers) = 0)
<1>1. Handlers \in Seq({Handlers[k] : k \in DOMAIN Handlers})
  BY OutboxAssumption
<1> QED
  BY <1>1, LenProperties, EmptySeq

\* After a handler comes the next one there is, or the end.
LEMMA AfterOne ==
  ASSUME NEW n \in Nat \ {0}
  PROVE  /\ After(n) \in {"handle", "mark"}
         /\ After(n) = "handle" => n \in DOMAIN Handlers
         /\ After(n) = "mark" => n > Len(Handlers)
  BY HandlersInOrder DEF After

\* A write of the store reaches its row, or is counted as lost.
LEMMA Written ==
  ASSUME OutboxShape, NEW e \in Published, NEW change \in RowType, Writes(e, change)
  PROVE  /\ row' \in [Published -> RowType] /\ lost' \in Nat
         /\ \A f \in Published : f # e => row'[f] = row[f]
         /\ row'[e] \in {row[e], change}
         /\ lost' = 0 => lost = 0
         /\ store /\ lost' = 0 /\ row[e].stored => row'[e] = change
<1> USE DEF OutboxShape
<1>1. CASE row' = [row EXCEPT ![e] = change] /\ lost' = lost
  BY <1>1
<1>2. CASE row' = row /\ lost' = lost /\ ~(store /\ row[e].stored)
  BY <1>2
<1>3. CASE row' = row /\ lost' = lost + 1
  BY <1>3
<1> QED
  BY <1>1, <1>2, <1>3 DEF Writes

\* A handler that does not raise takes effect at most once; a loud one does.
LEMMA Ran ==
  ASSUME OutboxShape, NEW e \in Published, NEW k \in DOMAIN Handlers, NEW raised \in BOOLEAN,
         Runs(e, k, raised)
  PROVE  /\ effects' \in [Published -> [DOMAIN Handlers -> Nat]]
         /\ \A f \in Published : f # e => effects'[f] = effects[f]
         /\ \A j \in DOMAIN Handlers : j # k => effects'[e][j] = effects[e][j]
         /\ effects'[e][k] \in {effects[e][k], effects[e][k] + 1}
         /\ raised => effects' = effects
         /\ ~raised /\ Loud(k) => effects'[e][k] = effects[e][k] + 1
<1> USE DEF OutboxShape
<1>1. CASE ~raised /\ effects' = [effects EXCEPT ![e][k] = @ + 1]
  <2> DEFINE new == [effects[e] EXCEPT ![k] = @ + 1]
  <2>1. effects[e] \in [DOMAIN Handlers -> Nat] /\ new \in [DOMAIN Handlers -> Nat]
    OBVIOUS
  <2>2. effects' = [effects EXCEPT ![e] = new]
    BY <1>1
  <2>3. new[k] = effects[e][k] + 1 /\ \A j \in DOMAIN Handlers : j # k => new[j] = effects[e][j]
    BY <2>1
  <2> HIDE DEF new
  <2>4. effects'[e] = new
    BY <2>2
  <2> QED
    BY <1>1, <2>1, <2>2, <2>3, <2>4
<1>2. CASE effects' = effects /\ (raised \/ ~Loud(k))
  BY <1>2
<1> QED
  BY <1>1, <1>2 DEF Runs, Loud

\* An event whose row, task and effects are left alone is kept while replays rest.
LEMMA EventLeft ==
  ASSUME NEW e \in Published, EventKept(e), UNCHANGED <<store, replay, replayed, calls>>,
         row'[e] = row[e], task'[e] = task[e], effects'[e] = effects[e], lost' = 0 => lost = 0
  PROVE  EventKept(e)'
  BY DEF EventKept, Progress, MarkedTruly, Recorded, CalledOnce, Awaits

LEMMA OutboxStart == OutboxInit => OutboxInv
<1> SUFFICES ASSUME OutboxInit PROVE OutboxInv
  OBVIOUS
<1> USE DEF OutboxInit
<1>1. Waiting \in ReplayType /\ Waiting.at = "none"
  BY DEF Waiting, ReplayType
<1>2. [at |-> "none", next |-> 1, failed |-> FALSE] \in TaskType
  BY DEF TaskType
<1>3. Absent \in RowType
  BY DEF Absent, RowType
<1>4. OutboxShape /\ TakenOut
  BY <1>1, <1>2, <1>3 DEF OutboxShape, TakenOut
<1>5. ASSUME NEW e \in Published PROVE EventKept(e)
  <2>1. ~row[e].processed /\ task[e].at = "none" /\ task[e].next = 1 /\ task[e].failed = FALSE
    BY DEF Absent
  <2>2. \A k \in DOMAIN Handlers : effects[e][k] = 0 /\ ~Awaits(e, k) /\ ~(k < 1)
    BY <1>1, HandlersInOrder DEF Awaits
  <2> QED
    BY <2>1, <2>2 DEF EventKept, Progress, MarkedTruly, Recorded, CalledOnce
<1> QED
  BY <1>4, <1>5 DEF OutboxInv, EventKept

\* The publication of an event, one await after the other.
LEMMA TaskGoesOn ==
  ASSUME OutboxInv, NEW e \in Published,
         on_legacy_event(e) \/ persist(e) \/ Handle(e) \/ NoteFailure(e) \/ Mark(e)
  PROVE  OutboxInv'
<1> DEFINE n == task[e].next
<1>1. OutboxShape /\ \A f \in Published : EventKept(f)
  BY DEF OutboxInv, EventKept
<1>2. task[e] \in TaskType /\ n \in Nat \ {0} /\ n + 1 \in Nat \ {0}
  BY <1>1 DEF OutboxShape, TaskType
<1>3. UNCHANGED <<store, replay, replayed, calls>>
  BY DEF on_legacy_event, persist, Handle, NoteFailure, Mark
<1>4. TakenOut'
  BY <1>3 DEF OutboxInv, TakenOut
<1>5. ASSUME NEW t \in TaskType, task' = [task EXCEPT ![e] = t],
             t.at \in {"none", "persist"} => t.next = 1 /\ ~t.failed,
             t.at \in {"handle", "fail"} => t.next \in DOMAIN Handlers,
             t.at = "fail" => t.failed,
             t.at = "mark" => t.next > Len(Handlers),
             row' \in [Published -> RowType], lost' \in Nat, lost' = 0 => lost = 0,
             effects' \in [Published -> [DOMAIN Handlers -> Nat]],
             \A f \in Published : f # e => row'[f] = row[f] /\ effects'[f] = effects[f],
             EventKept(e)'
      PROVE  OutboxInv'
  <2>1. task'[e] = t /\ \A f \in Published : f # e => task'[f] = task[f]
    BY <1>1, <1>5 DEF OutboxShape
  <2>2. \A f \in Published : EventKept(f)'
    BY <1>1, <1>3, <1>5, <2>1, EventLeft
  <2>3. task' \in [Published -> TaskType]
    BY <1>1, <1>5 DEF OutboxShape
  <2>4. \A f \in Published :
            /\ task'[f].at \in {"none", "persist"} => task'[f].next = 1 /\ ~task'[f].failed
            /\ task'[f].at \in {"handle", "fail"} => task'[f].next \in DOMAIN Handlers
            /\ task'[f].at = "fail" => task'[f].failed
            /\ task'[f].at = "mark" => task'[f].next > Len(Handlers)
    BY <1>1, <1>5, <2>1 DEF OutboxShape
  <2>5. OutboxShape'
    BY <1>1, <1>3, <1>5, <2>3, <2>4 DEF OutboxShape
  <2> QED
    BY <1>4, <2>2, <2>5 DEF OutboxInv, EventKept
<1>6. EventKept(e)
  BY <1>1
<1>7. CASE on_legacy_event(e)
  <2> DEFINE t == [task[e] EXCEPT !.at = "persist"]
  <2>1. t \in TaskType /\ t.at = "persist" /\ t.next = n /\ t.failed = task[e].failed
    BY <1>2 DEF TaskType
  <2>2. task' = [task EXCEPT ![e] = t]
    BY <1>7 DEF on_legacy_event
  <2> HIDE DEF t
  <2>3. task'[e] = t /\ UNCHANGED <<row, effects, lost>> /\ task[e].at = "none"
    BY <1>1, <1>7, <2>2 DEF on_legacy_event, OutboxShape
  <2>4. EventKept(e)'
    BY <1>3, <1>6, <2>1, <2>3 DEF EventKept, Progress, MarkedTruly, Recorded, CalledOnce, Awaits
  <2>5. t.next = 1 /\ ~t.failed
    BY <1>1, <2>1, <2>3 DEF OutboxShape
  <2> QED
    BY <1>1, <1>5, <2>1, <2>2, <2>3, <2>4, <2>5 DEF OutboxShape
<1>8. CASE persist(e)
  <2> DEFINE t == [task[e] EXCEPT !.at = IF Handlers = <<>> THEN "mark" ELSE "handle"]
  <2>1. /\ t \in TaskType /\ t.next = n /\ t.failed = task[e].failed
        /\ t.at = IF Handlers = <<>> THEN "mark" ELSE "handle"
    BY <1>2 DEF TaskType
  <2>7. task' = [task EXCEPT ![e] = t]
    BY <1>8 DEF persist
  <2> HIDE DEF t
  <2>2. n = 1 /\ ~task[e].failed /\ task[e].at = "persist"
    BY <1>1, <1>8 DEF persist, OutboxShape
  <2>3. /\ t.at \in {"handle", "mark"}
        /\ t.at = "handle" => n \in DOMAIN Handlers
        /\ t.at = "mark" => n > Len(Handlers)
    BY <2>1, <2>2, HandlersInOrder
  <2>4. task'[e] = t /\ UNCHANGED effects
    BY <1>1, <1>8, <2>7 DEF persist, OutboxShape
  <2>5. /\ row' \in [Published -> RowType] /\ lost' \in Nat
        /\ lost' = 0 => lost = 0
        /\ \A f \in Published : f # e => row'[f] = row[f]
        /\ row'[e].processed = row[e].processed
        /\ store /\ lost' = 0 => row'[e].stored
    <3>1. CASE row' = (IF store THEN [row EXCEPT ![e].stored = TRUE] ELSE row) /\ UNCHANGED lost
      <4>1. [row[e] EXCEPT !.stored = TRUE] \in RowType
        BY <1>1 DEF OutboxShape, RowType
      <4> QED
        BY <1>1, <3>1, <4>1 DEF OutboxShape, RowType
    <3>2. CASE store /\ lost' = lost + 1 /\ UNCHANGED row
      BY <1>1, <3>2 DEF OutboxShape
    <3> QED
      BY <1>8, <3>1, <3>2 DEF persist
  <2>6. EventKept(e)'
    BY <1>3, <1>6, <2>1, <2>2, <2>3, <2>4, <2>5 DEF EventKept, Progress, MarkedTruly, Recorded, CalledOnce, Awaits
  <2> QED
    BY <1>1, <1>5, <2>1, <2>2, <2>3, <2>4, <2>5, <2>6, <2>7 DEF OutboxShape
<1>9. ASSUME Handle(e) PROVE OutboxInv'
  <2>1. PICK raised \in BOOLEAN :
            /\ Runs(e, n, raised)
            /\ task' = [task EXCEPT ![e] =
                    IF raised THEN [at |-> "fail", next |-> @.next, failed |-> TRUE]
                    ELSE [at |-> After(@.next + 1), next |-> @.next + 1, failed |-> @.failed]]
    BY <1>9 DEF Handle
  <2>2. n \in DOMAIN Handlers /\ task[e].at = "handle"
    BY <1>1, <1>9 DEF Handle, OutboxShape
  <2>3. UNCHANGED <<row, lost>>
    BY <1>9 DEF Handle
  <2>4. /\ effects' \in [Published -> [DOMAIN Handlers -> Nat]]
        /\ \A f \in Published : f # e => effects'[f] = effects[f]
        /\ \A j \in DOMAIN Handlers : j # n => effects'[e][j] = effects[e][j]
        /\ effects'[e][n] \in {effects[e][n], effects[e][n] + 1}
        /\ raised => effects' = effects
        /\ ~raised /\ Loud(n) => effects'[e][n] = effects[e][n] + 1
    BY <1>1, <2>1, <2>2, Ran
  <2>5. \A j \in DOMAIN Handlers : j \in Nat /\ effects[e][j] \in Nat
    BY <1>1, HandlersInOrder DEF OutboxShape
  <2>6. CASE raised
    <3> DEFINE t == [at |-> "fail", next |-> n, failed |-> TRUE]
    <3>1. t \in TaskType /\ task' = [task EXCEPT ![e] = t]
      BY <1>2, <2>1, <2>6 DEF TaskType
    <3>2. task'[e] = t /\ effects' = effects
      BY <1>1, <2>4, <2>6, <3>1 DEF OutboxShape
    <3>3. EventKept(e)'
      BY <1>3, <1>6, <2>2, <2>3, <3>2 DEF EventKept, Progress, MarkedTruly, Recorded, CalledOnce, Awaits
    <3> QED
      BY <1>1, <1>5, <2>2, <2>3, <2>4, <3>1, <3>3 DEF OutboxShape
  <2>7. CASE ~raised
    <3> DEFINE t == [at |-> After(n + 1), next |-> n + 1, failed |-> task[e].failed]
    <3>1. /\ t.at \in {"handle", "mark"}
          /\ t.at = "handle" => n + 1 \in DOMAIN Handlers
          /\ t.at = "mark" => n + 1 > Len(Handlers)
      BY <1>2, AfterOne
    <3>2. t \in TaskType /\ task' = [task EXCEPT ![e] = t]
      BY <1>1, <1>2, <2>1, <2>7, <3>1 DEF TaskType, OutboxShape
    <3>3. task'[e] = t
      BY <1>1, <3>2 DEF OutboxShape
    <3>4. Progress(e)'
      <4>1. ASSUME ~task[e].failed, NEW k \in DOMAIN Handlers, k < n + 1, Loud(k)
            PROVE  effects'[e][k] >= 1
        <5>1. CASE k = n
          BY <2>4, <2>5, <2>7, <4>1, <5>1
        <5>2. CASE k # n
          <6>1. k < n
            BY <1>2, <2>5, <4>1, <5>2
          <6> QED
            BY <1>6, <2>4, <4>1, <5>2, <6>1 DEF EventKept, Progress
        <5> QED
          BY <5>1, <5>2
      <4> QED
        BY <3>3, <4>1 DEF Progress, Loud
    <3>5. MarkedTruly(e)' /\ Recorded(e)'
      BY <1>3, <1>6, <2>2, <2>3, <3>1, <3>3 DEF EventKept, MarkedTruly, Recorded
    <3>6. CalledOnce(e)'
      <4>1. \A k \in DOMAIN Handlers : Awaits(e, k)' = Awaits(e, k)
        BY <1>3 DEF Awaits
      <4>2. ASSUME NEW k \in DOMAIN Handlers
            PROVE  effects'[e][k] <= (IF k < n + 1 THEN 1 ELSE 0) + calls - (IF Awaits(e, k) THEN 1 ELSE 0)
        <5>1. effects[e][k] <= (IF k < n THEN 1 ELSE 0) + calls - (IF Awaits(e, k) THEN 1 ELSE 0)
          BY <1>6 DEF EventKept, CalledOnce
        <5>2. calls \in Nat /\ k \in Nat /\ n \in Nat /\ effects[e][k] \in Nat
          BY <1>1, <1>2, <2>5 DEF OutboxShape
        <5>3. CASE k = n
          BY <2>4, <5>1, <5>2, <5>3
        <5>4. CASE k # n
          BY <2>4, <5>1, <5>2, <5>4
        <5> QED
          BY <5>3, <5>4
      <4> QED
        BY <1>3, <3>3, <4>1, <4>2 DEF CalledOnce
    <3>7. EventKept(e)'
      BY <3>4, <3>5, <3>6 DEF EventKept
    <3> HIDE DEF t
    <3>8. t.next = n + 1
      BY DEF t
    <3> QED
      BY <1>1, <1>5, <2>3, <2>4, <3>1, <3>2, <3>7, <3>8 DEF OutboxShape
  <2> QED
    BY <2>6, <2>7
<1>10. ASSUME NoteFailure(e) PROVE OutboxInv'
  <2> DEFINE t == [task[e] EXCEPT !.at = After(n + 1), !.next = n + 1]
             change == [row[e] EXCEPT !.retries = @ + 1]
  <2>11. /\ After(n + 1) \in {"handle", "mark"}
         /\ After(n + 1) = "handle" => n + 1 \in DOMAIN Handlers
         /\ After(n + 1) = "mark" => n + 1 > Len(Handlers)
    BY <1>2, AfterOne
  <2>1. t \in TaskType /\ t.at = After(n + 1) /\ t.next = n + 1 /\ t.failed = task[e].failed
    BY <1>2, <2>11 DEF TaskType
  <2>2. task' = [task EXCEPT ![e] = t]
    BY <1>10 DEF NoteFailure
  <2> HIDE DEF t
  <2>3. task'[e] = t /\ UNCHANGED effects /\ task[e].at = "fail"
    BY <1>1, <1>10, <2>2 DEF NoteFailure, OutboxShape
  <2>4. /\ change \in RowType
        /\ change.processed = row[e].processed /\ change.stored = row[e].stored
        /\ change.retries > 0
    <3>1. row[e] \in RowType
      BY <1>1 DEF OutboxShape
    <3>2. row[e].retries + 1 \in Nat /\ row[e].retries + 1 > 0
      BY <3>1 DEF RowType
    <3> QED
      BY <3>1, <3>2 DEF RowType
  <2>5. Writes(e, change)
    BY <1>10 DEF NoteFailure, mark_failed
  <2> HIDE DEF change
  <2>6. /\ row' \in [Published -> RowType] /\ lost' \in Nat
        /\ \A f \in Published : f # e => row'[f] = row[f]
        /\ row'[e] \in {row[e], change}
        /\ lost' = 0 => lost = 0
        /\ store /\ lost' = 0 /\ row[e].stored => row'[e] = change
    BY <1>1, <2>4, <2>5, Written
  <2>12. task[e].failed
    BY <1>1, <2>3 DEF OutboxShape
  <2>7. Progress(e)'
    BY <2>1, <2>3, <2>12 DEF Progress
  <2>8. MarkedTruly(e)' /\ Recorded(e)'
    BY <1>3, <1>6, <2>1, <2>3, <2>4, <2>6, <2>11, <2>12 DEF EventKept, MarkedTruly, Recorded
  <2>9. CalledOnce(e)'
    <3>1. \A k \in DOMAIN Handlers : Awaits(e, k)' = Awaits(e, k)
      BY <1>3 DEF Awaits
    <3>2. \A k \in DOMAIN Handlers : k \in Nat /\ effects[e][k] \in Nat
      BY <1>1, HandlersInOrder DEF OutboxShape
    <3>3. calls \in Nat /\ calls' = calls
      BY <1>1, <1>3 DEF OutboxShape
    <3>4. ASSUME NEW k \in DOMAIN Handlers
          PROVE  effects[e][k] <= (IF k < n + 1 THEN 1 ELSE 0) + calls - (IF Awaits(e, k) THEN 1 ELSE 0)
      <4>1. effects[e][k] <= (IF k < n THEN 1 ELSE 0) + calls - (IF Awaits(e, k) THEN 1 ELSE 0)
        BY <1>6 DEF EventKept, CalledOnce
      <4> QED
        BY <1>2, <3>2, <3>3, <4>1
    <3> QED
      BY <2>1, <2>3, <3>1, <3>3, <3>4 DEF CalledOnce
  <2>10. EventKept(e)'
    BY <2>7, <2>8, <2>9 DEF EventKept
  <2> QED
    BY <1>1, <1>5, <2>1, <2>2, <2>3, <2>6, <2>10, <2>11 DEF OutboxShape
<1>11. ASSUME Mark(e) PROVE OutboxInv'
  <2> DEFINE t == [task[e] EXCEPT !.at = "ended"]
             change == [row[e] EXCEPT !.processed = TRUE]
  <2>10. t \in TaskType /\ t.at = "ended" /\ t.next = n /\ t.failed = task[e].failed
    BY <1>2 DEF TaskType
  <2>1. task' = [task EXCEPT ![e] = t]
    BY <1>11 DEF Mark
  <2> HIDE DEF t
  <2>2. task'[e] = t /\ UNCHANGED effects /\ task[e].at = "mark" /\ n > Len(Handlers)
    BY <1>1, <1>11, <2>1 DEF Mark, OutboxShape
  <2>3. change \in RowType /\ change.processed /\ change.stored = row[e].stored
    BY <1>1 DEF OutboxShape, RowType
  <2>4. IF task[e].failed THEN UNCHANGED <<row, lost>> ELSE Writes(e, change)
    BY <1>11 DEF Mark, mark_processed
  <2> HIDE DEF change
  <2>5. /\ row' \in [Published -> RowType] /\ lost' \in Nat
        /\ \A f \in Published : f # e => row'[f] = row[f]
        /\ row'[e] \in {row[e], change}
        /\ lost' = 0 => lost = 0
        /\ task[e].failed => row'[e] = row[e]
        /\ ~task[e].failed /\ store /\ lost' = 0 /\ row[e].stored => row'[e] = change
    <3>1. CASE task[e].failed
      BY <1>1, <2>4, <3>1 DEF OutboxShape
    <3>2. CASE ~task[e].failed
      BY <1>1, <2>3, <2>4, <3>2, Written
    <3> QED
      BY <3>1, <3>2
  <2>6. Progress(e)'
    BY <1>6, <2>2, <2>10 DEF EventKept, Progress
  <2>7. MarkedTruly(e)' /\ Recorded(e)'
    BY <1>3, <1>6, <2>2, <2>3, <2>5, <2>10 DEF EventKept, MarkedTruly, Recorded
  <2>8. CalledOnce(e)'
    BY <1>3, <1>6, <2>2, <2>10 DEF EventKept, CalledOnce, Awaits
  <2>9. EventKept(e)'
    BY <2>6, <2>7, <2>8 DEF EventKept
  <2> QED
    BY <1>1, <1>5, <2>1, <2>2, <2>5, <2>9, <2>10 DEF OutboxShape
<1> QED
  BY <1>7, <1>8, <1>9, <1>10, <1>11

\* A replay leaves the tasks alone: a handler it calls can only add an effect, and
\* what it writes of a row can only add a mark of its own or a failure.
LEMMA ReplayLeaves ==
  ASSUME OutboxShape, NEW e \in Published, EventKept(e), UNCHANGED <<store, task>>,
         lost' = 0 => lost = 0, row' \in [Published -> RowType],
         effects' \in [Published -> [DOMAIN Handlers -> Nat]],
         replayed \subseteq replayed',
         row'[e].stored = row[e].stored, row'[e].retries >= row[e].retries,
         row[e].processed => row'[e].processed,
         row'[e].processed => row[e].processed \/ e \in replayed',
         \A k \in DOMAIN Handlers : effects'[e][k] >= effects[e][k]
  PROVE  Progress(e)' /\ MarkedTruly(e)' /\ Recorded(e)'
<1>1. row[e].retries \in Nat /\ row'[e].retries \in Nat
  BY DEF OutboxShape, RowType
<1>2. \A k \in DOMAIN Handlers : effects[e][k] \in Nat /\ effects'[e][k] \in Nat
  BY DEF OutboxShape
<1>3. Progress(e)'
  BY <1>2 DEF EventKept, Progress, Loud
<1>4. MarkedTruly(e)'
  BY DEF EventKept, MarkedTruly
<1>5. Recorded(e)'
  BY <1>1 DEF EventKept, Recorded
<1> QED
  BY <1>3, <1>4, <1>5

\* A step that calls no handler and puts none in a replay's way.
LEMMA NoneMoreAwaited ==
  ASSUME OutboxShape, NEW e \in Published, CalledOnce(e), UNCHANGED calls,
         task'[e].next = task[e].next, effects'[e] = effects[e],
         \A k \in DOMAIN Handlers : Awaits(e, k)' => Awaits(e, k)
  PROVE  CalledOnce(e)'
<1> SUFFICES ASSUME NEW k \in DOMAIN Handlers
             PROVE  effects[e][k] <= (IF k < task[e].next THEN 1 ELSE 0) + calls
                                     - (IF Awaits(e, k)' THEN 1 ELSE 0)
  BY DEF CalledOnce
<1> DEFINE own == IF k < task[e].next THEN 1 ELSE 0
<1>1. own \in Nat
  OBVIOUS
<1> HIDE DEF own
<1>2. effects[e][k] <= own + calls - (IF Awaits(e, k) THEN 1 ELSE 0)
  BY DEF CalledOnce, own
<1>3. effects[e][k] \in Nat /\ calls \in Nat
  BY DEF OutboxShape
<1>4. effects[e][k] <= own + calls - (IF Awaits(e, k)' THEN 1 ELSE 0)
  BY <1>1, <1>2, <1>3
<1> QED
  BY <1>4 DEF own

\* A replay, from the rows it reads to the last mark.
LEMMA ReplayGoesOn ==
  ASSUME OutboxInv,
         replay_unprocessed \/ TakeNext \/ HandleAgain \/ NoteFailureAgain \/ MarkReplayed
  PROVE  OutboxInv'
<1> DEFINE e == replay.event
           n == replay.next
<1>1. OutboxShape /\ TakenOut /\ \A f \in Published : EventKept(f)
  BY DEF OutboxInv, EventKept
<1>2. replay \in ReplayType /\ n \in Nat \ {0} /\ n + 1 \in Nat \ {0}
  BY <1>1 DEF OutboxShape, ReplayType
<1>3. UNCHANGED <<store, task>>
  BY DEF replay_unprocessed, TakeNext, HandleAgain, NoteFailureAgain, MarkReplayed
<1>4. ASSUME NEW t \in ReplayType, replay' = t,
             t.at \in {"handle", "fail"} => t.next \in DOMAIN Handlers,
             t.at \in {"handle", "fail", "mark"} => t.event \in Published /\ t.event \notin t.todo,
             row' \in [Published -> RowType], lost' \in Nat, calls' \in Nat,
             effects' \in [Published -> [DOMAIN Handlers -> Nat]],
             replayed' \subseteq Published,
             \A f \in Published : EventKept(f)'
      PROVE  OutboxInv'
  BY <1>1, <1>3, <1>4 DEF OutboxInv, OutboxShape, TakenOut, EventKept
<1>5. \A f \in Published : row[f].retries >= row[f].retries
  BY <1>1 DEF OutboxShape, RowType
<1>6. \A f \in Published : \A k \in DOMAIN Handlers : effects[f][k] \in Nat /\ effects[f][k] >= effects[f][k]
  BY <1>1 DEF OutboxShape
<1>7. ASSUME UNCHANGED <<row, lost, replayed, effects>>
      PROVE  \A f \in Published : Progress(f)' /\ MarkedTruly(f)' /\ Recorded(f)'
  BY <1>1, <1>3, <1>5, <1>6, <1>7, ReplayLeaves DEF OutboxShape
<1>8. CASE replay_unprocessed
  <2> DEFINE t == [Waiting EXCEPT !.at = "take", !.todo = {f \in Published : Due(f)}]
  <2>1. t \in ReplayType /\ t.at = "take"
    <3>1. Waiting \in ReplayType
      BY DEF Waiting, ReplayType
    <3> QED
      BY <3>1 DEF ReplayType
  <2>2. replay' = t /\ replay.at = "none" /\ UNCHANGED <<row, lost, replayed, effects>>
    BY <1>8 DEF replay_unprocessed
  <2> HIDE DEF t
  <2>3. calls' = calls + 1 /\ calls \in Nat
    BY <1>1, <1>8 DEF replay_unprocessed, OutboxShape
  <2>4. ASSUME NEW f \in Published, NEW k \in DOMAIN Handlers
        PROVE  effects[f][k] <= (IF k < task[f].next THEN 1 ELSE 0) + (calls + 1)
                                - (IF Awaits(f, k)' THEN 1 ELSE 0)
    <3> DEFINE own == IF k < task[f].next THEN 1 ELSE 0
    <3>1. own \in Nat
      OBVIOUS
    <3> HIDE DEF own
    <3>2. effects[f][k] <= own + calls
      <4>1. ~Awaits(f, k)
        BY <2>2 DEF Awaits
      <4>2. effects[f][k] <= own + calls - 0
        BY <1>1, <4>1 DEF EventKept, CalledOnce, own
      <4> QED
        BY <1>6, <2>3, <3>1, <4>2
    <3>3. effects[f][k] <= own + (calls + 1) - (IF Awaits(f, k)' THEN 1 ELSE 0)
      BY <1>6, <2>3, <3>1, <3>2
    <3> QED
      BY <3>3 DEF own
  <2>5. \A f \in Published : CalledOnce(f)'
    BY <1>3, <2>2, <2>3, <2>4 DEF CalledOnce
  <2>6. \A f \in Published : EventKept(f)'
    BY <1>7, <2>2, <2>5 DEF EventKept
  <2> QED
    BY <1>1, <1>4, <2>1, <2>2, <2>3, <2>6 DEF OutboxShape
<1>9. CASE TakeNext
  <2>1. replay.at = "take" /\ UNCHANGED <<row, lost, replayed, effects, calls>>
    BY <1>9 DEF TakeNext
  <2>2. CASE replay.todo = {} /\ replay' = Waiting
    <3>1. Waiting \in ReplayType /\ Waiting.at = "none"
      BY DEF Waiting, ReplayType
    <3>2. \A f \in Published : \A k \in DOMAIN Handlers : ~Awaits(f, k)'
      BY <2>2, <3>1 DEF Awaits
    <3>3. \A f \in Published : CalledOnce(f)'
      BY <1>1, <1>3, <2>1, <3>2, NoneMoreAwaited DEF EventKept
    <3>4. \A f \in Published : EventKept(f)'
      BY <1>7, <2>1, <3>3 DEF EventKept
    <3> QED
      BY <1>1, <1>4, <2>1, <2>2, <3>1, <3>4 DEF OutboxShape
  <2>3. CASE replay.todo # {}
    <3>1. PICK g \in replay.todo :
            replay' = [at |-> After(1), event |-> g, next |-> 1, failed |-> FALSE, todo |-> replay.todo \ {g}]
      BY <1>9, <2>3 DEF TakeNext
    <3> DEFINE t == [at |-> After(1), event |-> g, next |-> 1, failed |-> FALSE, todo |-> replay.todo \ {g}]
    <3>2. After(1) \in {"handle", "mark"} /\ (After(1) = "handle" => 1 \in DOMAIN Handlers)
      BY AfterOne
    <3>3. g \in Published /\ replay.todo \subseteq Published
      BY <1>2 DEF ReplayType
    <3>4. /\ t \in ReplayType /\ t.at = After(1) /\ t.event = g /\ t.next = 1
          /\ t.todo = replay.todo \ {g} /\ replay' = t
      BY <3>1, <3>2, <3>3 DEF ReplayType
    <3> HIDE DEF t
    <3>5. \A f \in Published : \A k \in DOMAIN Handlers : Awaits(f, k)' => Awaits(f, k)
      BY <2>1, <3>4 DEF Awaits
    <3>6. \A f \in Published : CalledOnce(f)'
      BY <1>1, <1>3, <2>1, <3>5, NoneMoreAwaited DEF EventKept
    <3>7. \A f \in Published : EventKept(f)'
      BY <1>7, <2>1, <3>6 DEF EventKept
    <3> QED
      BY <1>1, <1>4, <2>1, <3>2, <3>3, <3>4, <3>7 DEF OutboxShape
  <2> QED
    BY <1>9, <2>2, <2>3 DEF TakeNext
<1>10. ASSUME HandleAgain PROVE OutboxInv'
  <2>1. PICK raised \in BOOLEAN :
            /\ Runs(e, n, raised)
            /\ replay' = IF raised THEN [replay EXCEPT !.at = "fail", !.failed = TRUE]
                         ELSE [replay EXCEPT !.at = After(n + 1), !.next = n + 1]
    BY <1>10 DEF HandleAgain
  <2>2. replay.at = "handle" /\ UNCHANGED <<row, lost, replayed, calls>>
    BY <1>10 DEF HandleAgain
  <2>3. n \in DOMAIN Handlers /\ e \in Published /\ e \notin replay.todo
    BY <1>1, <2>2 DEF OutboxShape, TakenOut
  <2>4. /\ effects' \in [Published -> [DOMAIN Handlers -> Nat]]
        /\ \A f \in Published : f # e => effects'[f] = effects[f]
        /\ \A j \in DOMAIN Handlers : j # n => effects'[e][j] = effects[e][j]
        /\ effects'[e][n] \in {effects[e][n], effects[e][n] + 1}
        /\ raised => effects' = effects
    BY <1>1, <2>1, <2>3, Ran
  <2>5. CASE raised
    <3> DEFINE t == [replay EXCEPT !.at = "fail", !.failed = TRUE]
    <3>1. /\ t \in ReplayType /\ t.at = "fail" /\ t.event = e /\ t.next = n
          /\ t.todo = replay.todo /\ replay' = t
      BY <1>2, <2>1, <2>5 DEF ReplayType
    <3> HIDE DEF t
    <3>2. \A f \in Published : \A k \in DOMAIN Handlers : Awaits(f, k)' => Awaits(f, k)
      BY <2>2, <3>1 DEF Awaits
    <3>3. \A f \in Published : CalledOnce(f)'
      BY <1>1, <1>3, <2>2, <2>4, <2>5, <3>2, NoneMoreAwaited DEF EventKept
    <3>4. \A f \in Published : EventKept(f)'
      BY <1>7, <2>2, <2>4, <2>5, <3>3 DEF EventKept
    <3> QED
      BY <1>1, <1>4, <2>2, <2>3, <2>4, <3>1, <3>4 DEF OutboxShape
  <2>6. CASE ~raised
    <3> DEFINE t == [replay EXCEPT !.at = After(n + 1), !.next = n + 1]
    <3>1. After(n + 1) \in {"handle", "mark"} /\ (After(n + 1) = "handle" => n + 1 \in DOMAIN Handlers)
      BY <1>2, AfterOne
    <3>2. /\ t \in ReplayType /\ t.at = After(n + 1) /\ t.event = e /\ t.next = n + 1
          /\ t.todo = replay.todo /\ replay' = t
      BY <1>2, <2>1, <2>6, <3>1 DEF ReplayType
    <3> HIDE DEF t
    <3>3. \A k \in DOMAIN Handlers : k \in Nat
      BY HandlersInOrder
    <3>4. \A f \in Published : \A k \in DOMAIN Handlers : Awaits(f, k)' => Awaits(f, k)
      BY <1>2, <2>2, <3>2, <3>3 DEF Awaits
    <3>5. PICK g \in Published, m \in DOMAIN Handlers : g = e /\ m = n /\ Awaits(g, m) /\ ~Awaits(g, m)'
      <4>1. ASSUME NEW g \in Published, NEW m \in DOMAIN Handlers, g = e, m = n
            PROVE  Awaits(g, m) /\ ~Awaits(g, m)'
        BY <1>2, <2>2, <2>3, <3>2, <4>1 DEF Awaits
      <4> QED
        BY <2>3, <4>1
    <3>6. ASSUME NEW k \in DOMAIN Handlers
          PROVE  effects'[g][k] <= (IF k < task[g].next THEN 1 ELSE 0) + calls
                                   - (IF Awaits(g, k)' THEN 1 ELSE 0)
      <4> DEFINE own == IF k < task[g].next THEN 1 ELSE 0
      <4>1. own \in Nat
        OBVIOUS
      <4> HIDE DEF own
      <4>2. effects[g][k] <= own + calls - (IF Awaits(g, k) THEN 1 ELSE 0)
        BY <1>1, <2>3 DEF EventKept, CalledOnce, own
      <4>3. effects[g][k] \in Nat /\ calls \in Nat
        BY <1>1, <2>3 DEF OutboxShape
      <4>4. CASE k = m
        <5>1. effects[g][m] <= own + calls - 1
          BY <3>5, <4>2, <4>4
        <5>2. effects'[g][m] <= own + calls
          BY <2>4, <3>5, <4>1, <4>3, <4>4, <5>1
        <5> QED
          BY <3>5, <4>1, <4>3, <4>4, <5>2 DEF own
      <4>5. CASE k # m
        <5>1. effects'[g][k] <= own + calls - (IF Awaits(g, k)' THEN 1 ELSE 0)
          BY <2>3, <2>4, <3>4, <3>5, <4>1, <4>2, <4>3, <4>5
        <5> QED
          BY <5>1 DEF own
      <4> QED
        BY <4>4, <4>5
    <3>7. CalledOnce(g)'
      BY <1>3, <2>2, <3>6 DEF CalledOnce
    <3>8. \A f \in Published : f # g => CalledOnce(f)'
      BY <1>1, <1>3, <2>2, <2>4, <3>4, <3>5, NoneMoreAwaited DEF EventKept
    <3>9. ASSUME NEW f \in Published, NEW k \in DOMAIN Handlers
          PROVE  effects'[f][k] >= effects[f][k]
      <4>1. effects[f][k] \in Nat
        BY <1>6
      <4>2. CASE f = e /\ k = n
        BY <2>4, <4>1, <4>2
      <4>3. CASE f # e \/ k # n
        BY <2>4, <4>1, <4>3
      <4> QED
        BY <4>2, <4>3
    <3>10. \A f \in Published : Progress(f)' /\ MarkedTruly(f)' /\ Recorded(f)'
      <4>1. row' \in [Published -> RowType] /\ lost' = lost /\ replayed' = replayed /\ row' = row
        BY <1>1, <2>2 DEF OutboxShape
      <4> QED
        BY <1>1, <1>3, <1>5, <2>4, <3>9, <4>1, ReplayLeaves
    <3>11. \A f \in Published : EventKept(f)'
      BY <3>5, <3>7, <3>8, <3>10 DEF EventKept
    <3> QED
      BY <1>1, <1>4, <2>2, <2>3, <2>4, <3>1, <3>2, <3>11 DEF OutboxShape
  <2> QED
    BY <2>5, <2>6
<1>11. ASSUME NoteFailureAgain PROVE OutboxInv'
  <2> DEFINE t == [replay EXCEPT !.at = After(n + 1), !.next = n + 1]
             change == [row[e] EXCEPT !.retries = @ + 1]
  <2>1. After(n + 1) \in {"handle", "mark"} /\ (After(n + 1) = "handle" => n + 1 \in DOMAIN Handlers)
    BY <1>2, AfterOne
  <2>2. replay.at = "fail" /\ UNCHANGED <<effects, replayed, calls>> /\ replay' = t
    BY <1>11 DEF NoteFailureAgain
  <2>3. n \in DOMAIN Handlers /\ e \in Published /\ e \notin replay.todo
    BY <1>1, <2>2 DEF OutboxShape, TakenOut
  <2>4. /\ t \in ReplayType /\ t.at = After(n + 1) /\ t.event = e /\ t.next = n + 1
        /\ t.todo = replay.todo
    BY <1>2, <2>1 DEF ReplayType
  <2> HIDE DEF t
  <2>5. /\ change \in RowType
        /\ change.processed = row[e].processed /\ change.stored = row[e].stored
        /\ change.retries >= row[e].retries
    <3>1. row[e] \in RowType
      BY <1>1, <2>3 DEF OutboxShape
    <3>2. row[e].retries + 1 \in Nat /\ row[e].retries + 1 >= row[e].retries
      BY <3>1 DEF RowType
    <3> QED
      BY <3>1, <3>2 DEF RowType
  <2>6. Writes(e, change)
    BY <1>11 DEF NoteFailureAgain, mark_failed
  <2> HIDE DEF change
  <2>7. /\ row' \in [Published -> RowType] /\ lost' \in Nat
        /\ \A f \in Published : f # e => row'[f] = row[f]
        /\ row'[e] \in {row[e], change}
        /\ lost' = 0 => lost = 0
    BY <1>1, <2>3, <2>5, <2>6, Written
  <2>8. \A k \in DOMAIN Handlers : k \in Nat
    BY HandlersInOrder
  <2>9. \A f \in Published : \A k \in DOMAIN Handlers : Awaits(f, k)' => Awaits(f, k)
    BY <1>2, <2>2, <2>4, <2>8 DEF Awaits
  <2>10. \A f \in Published : CalledOnce(f)'
    BY <1>1, <1>3, <2>2, <2>9, NoneMoreAwaited DEF EventKept
  <2>11. ASSUME NEW f \in Published
         PROVE  Progress(f)' /\ MarkedTruly(f)' /\ Recorded(f)'
    <3>1. /\ row'[f].stored = row[f].stored /\ row'[f].processed = row[f].processed
          /\ row'[f].retries >= row[f].retries
      BY <1>5, <2>5, <2>7
    <3>2. effects' \in [Published -> [DOMAIN Handlers -> Nat]] /\ effects' = effects
      BY <1>1, <2>2 DEF OutboxShape
    <3> QED
      BY <1>1, <1>3, <1>6, <2>2, <2>7, <3>1, <3>2, ReplayLeaves
  <2>12. \A f \in Published : EventKept(f)'
    BY <2>10, <2>11 DEF EventKept
  <2> QED
    BY <1>1, <1>4, <2>1, <2>2, <2>3, <2>4, <2>7, <2>12 DEF OutboxShape
<1>12. ASSUME MarkReplayed PROVE OutboxInv'
  <2> DEFINE t == [replay EXCEPT !.at = "take"]
             change == [row[e] EXCEPT !.processed = TRUE]
  <2>1. /\ replay.at = "mark" /\ UNCHANGED <<effects, calls>> /\ replay' = t
        /\ replayed' = replayed \cup {e}
    BY <1>12 DEF MarkReplayed
  <2>2. t \in ReplayType /\ t.at = "take" /\ t.todo = replay.todo
    BY <1>2 DEF ReplayType
  <2> HIDE DEF t
  <2>3. e \in Published
    BY <1>1, <2>1 DEF OutboxShape
  <2>4. /\ change \in RowType /\ change.processed
        /\ change.stored = row[e].stored /\ change.retries = row[e].retries
    BY <1>1, <2>3 DEF OutboxShape, RowType
  <2>5. Writes(e, change)
    BY <1>12 DEF MarkReplayed, mark_processed
  <2> HIDE DEF change
  <2>6. /\ row' \in [Published -> RowType] /\ lost' \in Nat
        /\ \A f \in Published : f # e => row'[f] = row[f]
        /\ row'[e] \in {row[e], change}
        /\ lost' = 0 => lost = 0
    BY <1>1, <2>3, <2>4, <2>5, Written
  <2>7. \A f \in Published : \A k \in DOMAIN Handlers : Awaits(f, k)' => Awaits(f, k)
    BY <2>1, <2>2 DEF Awaits
  <2>8. \A f \in Published : CalledOnce(f)'
    BY <1>1, <1>3, <2>1, <2>7, NoneMoreAwaited DEF EventKept
  <2>9. ASSUME NEW f \in Published
        PROVE  Progress(f)' /\ MarkedTruly(f)' /\ Recorded(f)'
    <3>1. /\ row'[f].stored = row[f].stored /\ row'[f].retries >= row[f].retries
          /\ row[f].processed => row'[f].processed
          /\ row'[f].processed => row[f].processed \/ f \in replayed'
      BY <1>5, <2>1, <2>3, <2>4, <2>6
    <3>2. effects' \in [Published -> [DOMAIN Handlers -> Nat]] /\ effects' = effects
      BY <1>1, <2>1 DEF OutboxShape
    <3> QED
      BY <1>1, <1>3, <1>6, <2>1, <2>6, <3>1, <3>2, ReplayLeaves
  <2>10. \A f \in Published : EventKept(f)'
    BY <2>8, <2>9 DEF EventKept
  <2>11. replayed' \subseteq Published /\ calls' \in Nat
         /\ effects' \in [Published -> [DOMAIN Handlers -> Nat]]
    BY <1>1, <2>1, <2>3 DEF OutboxShape
  <2> QED
    BY <1>4, <2>1, <2>2, <2>6, <2>10, <2>11
<1> QED
  BY <1>8, <1>9, <1>10, <1>11, <1>12

\* A restart ends every task and every replay where it stands.
LEMMA OutboxRestarts == OutboxInv /\ Restart => OutboxInv'
<1> SUFFICES ASSUME OutboxInv, Restart PROVE OutboxInv'
  OBVIOUS
<1>1. OutboxShape /\ \A f \in Published : EventKept(f)
  BY DEF OutboxInv, EventKept
<1>2. UNCHANGED <<store, row, effects, replayed, calls, lost>> /\ replay' = Waiting
  BY DEF Restart
<1>3. Waiting \in ReplayType /\ Waiting.at = "none"
  BY DEF Waiting, ReplayType
<1>4. \A f \in Published :
        /\ task'[f] \in TaskType
        /\ task'[f].next = task[f].next /\ task'[f].failed = task[f].failed
        /\ task'[f].at = IF task[f].at \in {"none", "ended"} THEN task[f].at ELSE "dead"
  BY <1>1 DEF Restart, OutboxShape, TaskType
<1>5. task' \in [Published -> TaskType]
  <2>1. task' = [e \in Published |->
            IF task[e].at \in {"none", "ended"} THEN task[e] ELSE [task[e] EXCEPT !.at = "dead"]]
    BY DEF Restart
  <2> QED
    BY <1>4, <2>1
<1>6. OutboxShape' /\ TakenOut'
  BY <1>1, <1>2, <1>3, <1>4, <1>5 DEF OutboxShape, TakenOut
<1>7. ASSUME NEW f \in Published PROVE EventKept(f)'
  <2>1. Progress(f)' /\ MarkedTruly(f)' /\ Recorded(f)'
    BY <1>1, <1>2, <1>4 DEF EventKept, Progress, MarkedTruly, Recorded, Loud
  <2>2. \A k \in DOMAIN Handlers : ~Awaits(f, k)'
    BY <1>2, <1>3 DEF Awaits
  <2>3. CalledOnce(f)'
    BY <1>1, <1>2, <1>4, <2>2, NoneMoreAwaited DEF EventKept
  <2> QED
    BY <2>1, <2>3 DEF EventKept
<1> QED
  BY <1>6, <1>7 DEF OutboxInv, EventKept

LEMMA OutboxSteps == OutboxInv /\ [OutboxNext]_outbox => OutboxInv'
<1> SUFFICES ASSUME OutboxInv, [OutboxNext]_outbox PROVE OutboxInv'
  OBVIOUS
<1>1. CASE UNCHANGED outbox
  BY <1>1 DEF outbox, OutboxInv, OutboxShape, TakenOut, Progress, MarkedTruly, Recorded, CalledOnce, Awaits
<1>2. CASE OutboxNext
  BY <1>2, TaskGoesOn, ReplayGoesOn, OutboxRestarts DEF OutboxNext
<1> QED
  BY <1>1, <1>2

\* Whatever is published, restarted and replayed, and however many writes of the
\* store are lost, the rows of the outbox, its tasks and the effects of the
\* handlers stay in step: publish and replay_unprocessed of
\* enhanced_event_bus.py with the writes of domain_event.py.
THEOREM OutboxInvariant == OutboxSpec => []OutboxInv
  BY OutboxStart, OutboxSteps, PTL DEF OutboxSpec

\* A row that no replay marked is processed only when every loud handler took
\* effect; a failure is counted where no write was lost; and no handler takes
\* effect more than once for the publication and once for each replay.
THEOREM OutboxIsKept == OutboxSpec => []OutboxKeeps
<1>1. ASSUME OutboxInv PROVE OutboxKeeps
  <2> SUFFICES ASSUME NEW e \in Published
               PROVE  /\ row[e].processed /\ e \notin replayed =>
                            /\ ~task[e].failed
                            /\ \A k \in DOMAIN Handlers : Loud(k) => effects[e][k] >= 1
                      /\ store /\ task[e].at = "ended" /\ lost = 0 =>
                            IF task[e].failed THEN row[e].retries > 0 ELSE row[e].processed
                      /\ \A k \in DOMAIN Handlers : effects[e][k] <= 1 + calls
    BY DEF OutboxKeeps
  <2>1. OutboxShape /\ EventKept(e)
    BY <1>1 DEF OutboxInv, EventKept
  <2>2. ASSUME row[e].processed, e \notin replayed
        PROVE  ~task[e].failed /\ \A k \in DOMAIN Handlers : Loud(k) => effects[e][k] >= 1
    <3>1. ~task[e].failed /\ task[e].next > Len(Handlers)
      BY <2>1, <2>2 DEF EventKept, MarkedTruly
    <3>2. task[e].next \in Nat
      BY <2>1 DEF OutboxShape, TaskType
    <3>3. \A k \in DOMAIN Handlers : k < task[e].next
      BY <3>1, <3>2, HandlersInOrder
    <3> QED
      BY <2>1, <3>1, <3>3 DEF EventKept, Progress
  <2>3. ASSUME store, task[e].at = "ended", lost = 0
        PROVE  IF task[e].failed THEN row[e].retries > 0 ELSE row[e].processed
    <3>1. task[e].failed \in BOOLEAN
      BY <2>1 DEF OutboxShape, TaskType
    <3> QED
      BY <2>1, <2>3, <3>1 DEF EventKept, Recorded
  <2>4. ASSUME NEW k \in DOMAIN Handlers PROVE effects[e][k] <= 1 + calls
    <3>1. effects[e][k] \in Nat /\ calls \in Nat
      BY <2>1 DEF OutboxShape
    <3>2. effects[e][k] <= (IF k < task[e].next THEN 1 ELSE 0) + calls - (IF Awaits(e, k) THEN 1 ELSE 0)
      BY <2>1 DEF EventKept, CalledOnce
    <3> QED
      BY <3>1, <3>2
  <2> QED
    BY <2>2, <2>3, <2>4
<1> QED
  BY <1>1, OutboxInvariant, PTL

-----------------------------------------------------------------------------
(* Transfers                                                               *)

SagaType ==
    [at : {"idle", "act", "record", "undo", "note", "completed", "failed", "dead"}, step : 0..5]

Step(t) == saga[t].step

\* Where an orchestrator may be.
Placed(s) ==
    /\ s.at \in {"idle", "failed"} => s.step = 0
    /\ s.at = "act" => s.step \in 1..5
    /\ s.at = "record" => s.step \in 1..4
    /\ s.at = "undo" => s.step \in 0..3
    /\ s.at = "note" => s.step \in 1..3
    /\ s.at = "completed" => s.step = 5

TransfersShape ==
    /\ stock \in [Items -> Int] /\ shadow \in [Items -> Int]
    /\ moves \subseteq Transfers \X {"OUT", "IN"}
    /\ saga \in [Transfers -> SagaType]
    /\ instance \in [Transfers -> {"none", "started", "completed", "failed"}]
    /\ sold \in [Items -> Nat] /\ faults \in Nat /\ hurt \subseteq Transfers
    /\ \A t \in Transfers :
        /\ Placed(saga[t])
        /\ At(t, "dead") => t \in hurt
        /\ faults = 0 /\ t \in hurt => At(t, "dead")

\* The step n of a transfer has been taken and not undone.
InForce(t, n) == n < Step(t) \/ (n = Step(t) /\ (At(t, "record") \/ At(t, "undo")))

\* What is known of a transfer: everything on its way forward, and on its way back
\* if nothing hurt it.
Known(t) == At(t, "idle") \/ At(t, "act") \/ At(t, "record") \/ At(t, "completed") \/ t \notin hurt

\* The movements of a transfer are those of the steps in force; where it died, what
\* became of the step it was at is not known.
MovesTruly(t) ==
    /\ Known(t) => (<<t, "OUT">> \in moves <=> InForce(t, 2)) /\ (<<t, "IN">> \in moves <=> InForce(t, 3))
    /\ faults = 0 =>
        /\ Step(t) # 2 => (<<t, "OUT">> \in moves <=> 2 < Step(t))
        /\ Step(t) # 3 => (<<t, "IN">> \in moves <=> 3 < Step(t))

\* While nothing is lost, the journal follows: on the way forward it does not have
\* the step at hand, on the way back it still has.
JournalTruly(t) ==
    faults = 0 => \A n \in Steps :
        /\ At(t, "idle") \/ At(t, "act") \/ At(t, "record") \/ At(t, "completed") =>
            (<<t, n, "completed">> \in journal <=> n < Step(t)) /\ <<t, n, "compensated">> \notin journal
        /\ At(t, "undo") \/ At(t, "note") \/ At(t, "failed") => (Standing(t, n) <=> n <= Step(t))
        /\ n # Step(t) => (Standing(t, n) <=> n < Step(t))

InstanceTruly(t) ==
    t \notin hurt =>
        instance[t] = IF At(t, "idle") THEN "none" ELSE IF Running(t) THEN "started" ELSE saga[t].at

\* What a transfer has done to the books of its product: nothing, a reservation, a
\* deduction, or a deduction whose reservation was released once more.
Fates == {"none", "held", "taken", "owed"}
Having(fate, w, i) == {t \in Of(i) : fate[t] = w}

FateOf(t) == IF InForce(t, 4) THEN "taken" ELSE IF InForce(t, 1) THEN "held" ELSE "none"

\* Where a transfer was hurt on its way back, its reservation is still there or was
\* turned into a deduction, until the first step is undone.
FateFits(t, w) ==
    /\ Known(t) => w = FateOf(t)
    /\ (At(t, "undo") /\ Step(t) >= 1) \/ (At(t, "note") /\ Step(t) >= 2) => w \in {"held", "taken"}
    /\ faults = 0 => w # "owed"

BookedAs(fate, i) ==
    /\ shadow[i] = Total(Having(fate, "held", i)) - Total(Having(fate, "owed", i))
    /\ stock[i] = StartStock[i] - sold[i] - Total(Having(fate, "taken", i)) - Total(Having(fate, "owed", i))
    /\ faults = 0 => Total(Having(fate, "held", i)) + Total(Having(fate, "taken", i)) <= StartStock[i]

Explains(fate) ==
    /\ \A t \in Transfers : FateFits(t, fate[t])
    /\ \A i \in Items : BookedAs(fate, i)

TransferTold(t) == MovesTruly(t) /\ JournalTruly(t) /\ InstanceTruly(t)

TransfersInv ==
    /\ TransfersShape
    /\ \A t \in Transfers : TransferTold(t)
    /\ \E fate \in [Transfers -> Fates] : Explains(fate)

\* The sum of the quantities, transfer by transfer.
LEMMA UnitsOfOne ==
  ASSUME NEW t \in Transfers
  PROVE  IsFiniteSet({t} \X (1..QtyOf[t])) /\ Cardinality({t} \X (1..QtyOf[t])) = QtyOf[t]
<1>1. QtyOf[t] \in Nat
  BY TransferAssumption
<1>2. IsFiniteSet({t}) /\ Cardinality({t}) = 1
  BY FS_Singleton
<1>3. IsFiniteSet(1..QtyOf[t]) /\ Cardinality(1..QtyOf[t]) = QtyOf[t]
  BY SMTT(30), <1>1, FS_Interval
<1> HIDE DEF IsFiniteSet
<1>4. /\ IsFiniteSet({t} \X (1..QtyOf[t]))
      /\ Cardinality({t} \X (1..QtyOf[t])) = 1 * QtyOf[t]
  BY ZenonT(40), <1>2, <1>3, FS_Product
<1> QED
  BY <1>1, <1>4

LEMMA TotalNat ==
  ASSUME NEW S \in SUBSET Transfers
  PROVE  IsFiniteSet(Units(S)) /\ Total(S) \in Nat
<1>1. IsFiniteSet(S)
  BY TransferAssumption, FS_Subset
<1> DEFINE blocks == {{t} \X (1..QtyOf[t]) : t \in S}
<1>2. IsFiniteSet(blocks)
  <2> DEFINE block == [t \in S |-> {t} \X (1..QtyOf[t])]
  <2>1. block \in Surjection(S, blocks)
    BY DEF Surjection
  <2> HIDE DEF block, blocks
  <2> QED
    BY <1>1, <2>1, FS_Surjection
<1>3. \A b \in blocks : IsFiniteSet(b)
  BY UnitsOfOne
<1>4. IsFiniteSet(UNION blocks)
  BY <1>2, <1>3, FS_UNION
<1> QED
  BY <1>4, FS_CardinalityType DEF Units, Total

LEMMA TotalOfNobody == Total({}) = 0
<1>1. Units({}) = {}
  BY DEF Units
<1> QED
  BY <1>1, FS_EmptySet DEF Total

LEMMA TotalOfMore ==
  ASSUME NEW S \in SUBSET Transfers, NEW T \in SUBSET Transfers, S \subseteq T
  PROVE  Total(S) <= Total(T)
<1>1. Units(S) \subseteq Units(T)
  BY DEF Units
<1> QED
  BY <1>1, TotalNat, FS_Subset DEF Total

LEMMA TotalAdds ==
  ASSUME NEW S \in SUBSET Transfers, NEW t \in Transfers, t \notin S
  PROVE  Total(S \cup {t}) = Total(S) + QtyOf[t]
<1> DEFINE new == {t} \X (1..QtyOf[t])
<1>1. Units(S \cup {t}) = Units(S) \cup new
  BY DEF Units
<1>2. Units(S) \cap new = {}
  BY DEF Units
<1>3. IsFiniteSet(new) /\ Cardinality(new) = QtyOf[t]
  BY UnitsOfOne
<1>4. IsFiniteSet(Units(S)) /\ Cardinality(Units(S)) \in Nat
  BY TotalNat DEF Total
<1>5. QtyOf[t] \in Nat
  BY TransferAssumption
<1> HIDE DEF new
<1>6. Cardinality(Units(S) \cup new) = Cardinality(Units(S)) + Cardinality(new) - Cardinality(Units(S) \cap new)
  BY <1>3, <1>4, FS_Union
<1>7. Cardinality(Units(S) \cap new) = 0
  BY <1>2, FS_EmptySet
<1> QED
  <2> DEFINE joined == Cardinality(Units(S) \cup new)
             shared == Cardinality(Units(S) \cap new)
             before == Cardinality(Units(S))
             added == Cardinality(new)
  <2>2. joined = before + added - shared /\ shared = 0 /\ added = QtyOf[t] /\ before \in Nat
    BY <1>3, <1>4, <1>6, <1>7
  <2>3. Cardinality(Units(S \cup {t})) = joined
    BY <1>1
  <2> HIDE DEF joined, shared, before, added
  <2>4. joined = before + QtyOf[t]
    BY <1>5, <2>2
  <2>1. Cardinality(Units(S \cup {t})) = Cardinality(Units(S)) + QtyOf[t]
    BY <2>3, <2>4 DEF before
  <2> QED
    BY <2>1 DEF Total

\* When one transfer goes from one fate to another, so does its quantity.
LEMMA FateChanges ==
  ASSUME NEW fate \in [Transfers -> Fates], NEW new \in [Transfers -> Fates],
         NEW t \in Transfers, NEW w \in Fates, w # fate[t], new[t] = w,
         \A u \in Transfers : u # t => new[u] = fate[u],
         NEW i \in Items, NEW x \in Fates
  PROVE  Total(Having(new, x, i)) =
            IF ItemOf[t] # i THEN Total(Having(fate, x, i))
            ELSE IF x = w THEN Total(Having(fate, x, i)) + QtyOf[t]
            ELSE IF x = fate[t] THEN Total(Having(fate, x, i)) - QtyOf[t]
            ELSE Total(Having(fate, x, i))
<1>2. Having(fate, x, i) \in SUBSET Transfers /\ Having(new, x, i) \in SUBSET Transfers
  BY DEF Having, Of
<1>3. QtyOf[t] \in Nat
  BY TransferAssumption
<1>4. CASE ItemOf[t] # i
  <2>1. Having(new, x, i) = Having(fate, x, i)
    BY <1>4 DEF Having, Of
  <2> QED
    BY <1>4, <2>1
<1>5. CASE ItemOf[t] = i /\ x = w
  <2>1. Having(new, x, i) = Having(fate, x, i) \cup {t} /\ t \notin Having(fate, x, i)
    BY <1>5 DEF Having, Of
  <2> QED
    BY <1>2, <1>5, <2>1, TotalAdds
<1>6. CASE ItemOf[t] = i /\ x # w /\ x = fate[t]
  <2>1. Having(fate, x, i) = Having(new, x, i) \cup {t} /\ t \notin Having(new, x, i)
    BY <1>6 DEF Having, Of
  <2>2. Total(Having(fate, x, i)) = Total(Having(new, x, i)) + QtyOf[t]
    BY <1>2, <2>1, TotalAdds
  <2>3. Total(Having(new, x, i)) \in Nat
    BY <1>2, TotalNat
  <2> QED
    BY <1>3, <1>6, <2>2, <2>3
<1>7. CASE ItemOf[t] = i /\ x # w /\ x # fate[t]
  <2>1. Having(new, x, i) = Having(fate, x, i)
    BY <1>7 DEF Having, Of
  <2> QED
    BY <1>7, <2>1
<1> QED
  BY <1>4, <1>5, <1>6, <1>7

\* What a step does to the books of a product.
Shifts(i, out, held) ==
    /\ stock' \in [Items -> Int] /\ shadow' \in [Items -> Int]
    /\ stock'[i] = stock[i] - out /\ shadow'[i] = shadow[i] + held
    /\ \A j \in Items : j # i => stock'[j] = stock[j] /\ shadow'[j] = shadow[j]

\* The books follow a transfer from the fate v to the fate w.
Rebooks(t, v, w) ==
    \/ v = w /\ UNCHANGED <<stock, shadow>>
    \/ /\ v = "none" /\ w = "held"
       /\ stock[ItemOf[t]] - shadow[ItemOf[t]] >= QtyOf[t]
       /\ Shifts(ItemOf[t], 0, QtyOf[t])
    \/ v = "held" /\ w = "none" /\ Shifts(ItemOf[t], 0, -QtyOf[t])
    \/ v = "held" /\ w = "taken" /\ Shifts(ItemOf[t], QtyOf[t], -QtyOf[t])
    \/ v = "taken" /\ w = "owed" /\ Shifts(ItemOf[t], 0, -QtyOf[t])

LEMMA BooksShift ==
  ASSUME TransfersShape, NEW i \in Items, NEW out \in Int, NEW held \in Int, Books(i, out, held)
  PROVE  Shifts(i, out, held) /\ moves' = moves
  BY DEF TransfersShape, Books, Shifts

\* Then the books are explained by the new fate.
LEMMA ExplainedAgain ==
  ASSUME TransfersShape, NEW fate \in [Transfers -> Fates], Explains(fate),
         NEW t \in Transfers, NEW w \in Fates, Rebooks(t, fate[t], w),
         FateFits(t, w)', \A u \in Transfers : u # t => FateFits(u, fate[u])',
         UNCHANGED sold, faults' = 0 => faults = 0 /\ w # "owed"
  PROVE  \E f \in [Transfers -> Fates] : Explains(f)'
<1>1. CASE fate[t] = w
  <2>1. UNCHANGED <<stock, shadow>>
    BY <1>1 DEF Rebooks
  <2>2. \A i \in Items : BookedAs(fate, i)'
    BY <2>1 DEF Explains, BookedAs
  <2>3. Explains(fate)'
    BY <1>1, <2>2 DEF Explains
  <2> QED
    BY <2>3
<1>2. CASE fate[t] # w
  <2> DEFINE f == [fate EXCEPT ![t] = w]
  <2>1. f \in [Transfers -> Fates] /\ f[t] = w /\ \A u \in Transfers : u # t => f[u] = fate[u]
    OBVIOUS
  <2> HIDE DEF f
  <2>2. \A u \in Transfers : FateFits(u, f[u])'
    BY <2>1
  <2>3. ASSUME NEW i \in Items PROVE BookedAs(f, i)'
    <3> DEFINE is(x) == Total(Having(fate, x, i))
               becomes(x) == Total(Having(f, x, i))
               q == QtyOf[t]
    <3>1. \A x \in Fates : is(x) \in Nat
      BY TotalNat DEF Having, Of
    <3>2. q \in Nat
      BY TransferAssumption
    <3>3. \A x \in Fates :
            becomes(x) = IF ItemOf[t] # i THEN is(x) ELSE IF x = w THEN is(x) + q
                         ELSE IF x = fate[t] THEN is(x) - q ELSE is(x)
      BY <1>2, <2>1, FateChanges
    <3>4. /\ shadow[i] = is("held") - is("owed")
          /\ stock[i] = StartStock[i] - sold[i] - is("taken") - is("owed")
          /\ faults = 0 => is("held") + is("taken") <= StartStock[i]
      BY DEF Explains, BookedAs
    <3>9. faults = 0 => is("owed") = 0
      <4>1. faults = 0 => Having(fate, "owed", i) = {}
        BY DEF Explains, FateFits, Having, Of
      <4> QED
        BY <4>1, TotalOfNobody
    <3>5. stock[i] \in Int /\ shadow[i] \in Int /\ sold[i] \in Nat /\ StartStock[i] \in Nat
      BY TransferAssumption DEF TransfersShape
    <3>6. {"none", "held", "taken", "owed"} = Fates /\ fate[t] \in Fates
      BY DEF Fates
    <3> HIDE DEF is, becomes, q
    <3>7. /\ shadow'[i] = becomes("held") - becomes("owed")
          /\ stock'[i] = StartStock[i] - sold[i] - becomes("taken") - becomes("owed")
          /\ faults' = 0 => becomes("held") + becomes("taken") <= StartStock[i]
      <4>1. CASE ItemOf[t] # i
        <5>1. shadow'[i] = shadow[i] /\ stock'[i] = stock[i]
          BY <1>2, <4>1 DEF Rebooks, Shifts
        <5>2. \A x \in Fates : becomes(x) = is(x)
          BY <3>3, <4>1
        <5> QED
          BY <3>4, <3>6, <5>1, <5>2
      <4>2. CASE ItemOf[t] = i
        <5> DEFINE kept(x) == becomes(x) = is(x)
        <5>1. CASE fate[t] = "none" /\ w = "held"
          <6>1. becomes("held") = is("held") + q /\ kept("taken") /\ kept("owed")
            BY <3>3, <3>6, <4>2, <5>1
          <6>2. shadow'[i] = shadow[i] + q /\ stock'[i] = stock[i] - 0 /\ stock[i] - shadow[i] >= q
            BY <4>2, <5>1 DEF Rebooks, Shifts, q
          <6> QED
            BY <3>1, <3>2, <3>4, <3>5, <3>6, <3>9, <6>1, <6>2
        <5>2. CASE fate[t] = "held" /\ w = "none"
          <6>1. becomes("held") = is("held") - q /\ kept("taken") /\ kept("owed")
            BY <3>3, <3>6, <4>2, <5>2
          <6>2. shadow'[i] = shadow[i] + (-q) /\ stock'[i] = stock[i] - 0
            BY <4>2, <5>2 DEF Rebooks, Shifts, q
          <6> QED
            BY <3>1, <3>2, <3>4, <3>5, <3>6, <6>1, <6>2
        <5>3. CASE fate[t] = "held" /\ w = "taken"
          <6>1. becomes("held") = is("held") - q /\ becomes("taken") = is("taken") + q /\ kept("owed")
            BY <3>3, <3>6, <4>2, <5>3
          <6>2. shadow'[i] = shadow[i] + (-q) /\ stock'[i] = stock[i] - q
            BY <4>2, <5>3 DEF Rebooks, Shifts, q
          <6> QED
            BY <3>1, <3>2, <3>4, <3>5, <3>6, <6>1, <6>2
        <5>4. CASE fate[t] = "taken" /\ w = "owed"
          <6>1. becomes("owed") = is("owed") + q /\ becomes("taken") = is("taken") - q /\ kept("held")
            BY <3>3, <3>6, <4>2, <5>4
          <6>2. shadow'[i] = shadow[i] + (-q) /\ stock'[i] = stock[i] - 0 /\ faults' # 0
            BY <4>2, <5>4 DEF Rebooks, Shifts, q
          <6> QED
            BY <3>1, <3>2, <3>4, <3>5, <3>6, <6>1, <6>2
        <5> QED
          BY <1>2, <5>1, <5>2, <5>3, <5>4 DEF Rebooks
      <4> QED
        BY <4>1, <4>2
    <3> QED
      BY <3>7 DEF BookedAs, becomes
  <2>4. Explains(f)'
    BY <2>2, <2>3 DEF Explains
  <2> QED
    BY <2>1, <2>4
<1> QED
  BY <1>1, <1>2

\* A fault of a transfer, or none.
Faulted(t) ==
    /\ faults' \in Nat
    /\ faults' = 0 => faults = 0 /\ hurt' = hurt
    /\ hurt' = hurt \/ hurt' = hurt \cup {t}

LEMMA FaultOrNone ==
  ASSUME TransfersShape, NEW t \in Transfers, Sound \/ Fault(t)
  PROVE  Faulted(t)
  BY DEF TransfersShape, Sound, Fault, Faulted

MovesLeft(u) == \A x \in {"OUT", "IN"} : <<u, x>> \in moves' <=> <<u, x>> \in moves
JournalLeft(u) ==
    \A n \in Steps, x \in {"completed", "compensated"} : <<u, n, x>> \in journal' <=> <<u, n, x>> \in journal

\* A transfer that a step leaves alone.
LEMMA TransferLeft ==
  ASSUME NEW u \in Transfers, TransferTold(u), MovesLeft(u), JournalLeft(u),
         saga'[u] = saga[u], instance'[u] = instance[u],
         u \in hurt' <=> u \in hurt, faults' = 0 => faults = 0
  PROVE  TransferTold(u)' /\ \A w \in Fates : FateFits(u, w) => FateFits(u, w)'
<1>1. MovesTruly(u)'
  BY DEF TransferTold, MovesTruly, MovesLeft, Known, InForce, Step, At
<1>2. JournalTruly(u)'
  BY DEF TransferTold, JournalTruly, JournalLeft, Standing, Step, At
<1>3. InstanceTruly(u)'
  BY DEF TransferTold, InstanceTruly, Running, At
<1>4. \A w \in Fates : FateFits(u, w) => FateFits(u, w)'
  BY DEF FateFits, FateOf, Known, InForce, Step, At
<1> QED
  BY <1>1, <1>2, <1>3, <1>4 DEF TransferTold

\* One transfer goes on to s, and its fate to w.
LEMMA TransferMoved ==
  ASSUME TransfersShape, \A u \in Transfers : TransferTold(u),
         NEW fate \in [Transfers -> Fates], Explains(fate),
         NEW t \in Transfers, NEW s \in SagaType, ~At(t, "dead"),
         saga' = [saga EXCEPT ![t] = s], Placed(s), s.at # "dead",
         Faulted(t), UNCHANGED sold,
         moves' \subseteq Transfers \X {"OUT", "IN"},
         instance' \in [Transfers -> {"none", "started", "completed", "failed"}],
         \A u \in Transfers : u # t => instance'[u] = instance[u] /\ MovesLeft(u) /\ JournalLeft(u),
         NEW w \in Fates, Rebooks(t, fate[t], w),
         FateFits(t, w)', TransferTold(t)'
  PROVE  TransfersInv'
<1>1. /\ saga' \in [Transfers -> SagaType] /\ saga'[t] = s
      /\ \A u \in Transfers : u # t => saga'[u] = saga[u]
  BY DEF TransfersShape
<1>2. /\ faults' = 0 => faults = 0 /\ hurt' = hurt
      /\ hurt' \subseteq Transfers /\ faults' \in Nat
      /\ \A u \in Transfers : u # t => (u \in hurt' <=> u \in hurt)
  BY DEF Faulted, TransfersShape
<1>3. \A u \in Transfers : u # t =>
        TransferTold(u)' /\ \A x \in Fates : FateFits(u, x) => FateFits(u, x)'
  BY <1>1, <1>2, TransferLeft
<1>4. stock' \in [Items -> Int] /\ shadow' \in [Items -> Int]
  BY DEF Rebooks, Shifts, TransfersShape
<1>5. \A u \in Transfers :
        /\ Placed(saga'[u])
        /\ saga'[u].at = "dead" => u \in hurt'
        /\ faults' = 0 /\ u \in hurt' => saga'[u].at = "dead"
  BY <1>1, <1>2 DEF TransfersShape, At
<1>6. TransfersShape'
  <2>1. sold' \in [Items -> Nat]
    BY DEF TransfersShape
  <2> QED
    BY <1>1, <1>2, <1>4, <1>5, <2>1 DEF TransfersShape, At, Placed
<1>7. \E f \in [Transfers -> Fates] : Explains(f)'
  <2>1. faults' = 0 => faults = 0 /\ w # "owed"
    BY <1>2 DEF FateFits
  <2>2. \A u \in Transfers : u # t => FateFits(u, fate[u])'
    BY <1>3 DEF Explains
  <2> QED
    BY <2>1, <2>2, ExplainedAgain
<1> QED
  BY <1>3, <1>6, <1>7 DEF TransfersInv

\* What the steps do to the books and to the movements.
LEMMA Acted ==
  ASSUME TransfersShape, NEW t \in Transfers, NEW n \in Int, Action(t, n),
         NEW v \in Fates, v = (IF n = 1 THEN "none" ELSE "held")
  PROVE  /\ n \in 1..4
         /\ Rebooks(t, v, IF n = 4 THEN "taken" ELSE "held")
         /\ moves' \subseteq Transfers \X {"OUT", "IN"}
         /\ \A u \in Transfers : u # t => MovesLeft(u)
         /\ <<t, "OUT">> \in moves' <=> (n = 2 \/ <<t, "OUT">> \in moves)
         /\ <<t, "IN">> \in moves' <=> (n = 3 \/ <<t, "IN">> \in moves)
<1>1. ItemOf[t] \in Items /\ 0 \in Int /\ QtyOf[t] \in Int /\ -QtyOf[t] \in Int
  BY TransferAssumption
<1>2. moves \subseteq Transfers \X {"OUT", "IN"}
  BY DEF TransfersShape
<1>3. CASE n = 1 /\ reserve_source_stock(t)
  <2>1. Books(ItemOf[t], 0, QtyOf[t])
    BY <1>3 DEF reserve_source_stock
  <2>2. Shifts(ItemOf[t], 0, QtyOf[t]) /\ moves' = moves
    BY <1>1, <2>1, BooksShift
  <2>3. stock[ItemOf[t]] - shadow[ItemOf[t]] >= QtyOf[t]
    BY <1>3 DEF reserve_source_stock
  <2> QED
    BY <1>2, <1>3, <2>2, <2>3 DEF Rebooks, MovesLeft
<1>4. CASE n = 2 /\ create_transfer_record(t)
  BY <1>2, <1>4 DEF create_transfer_record, Rebooks, MovesLeft
<1>5. CASE n = 3 /\ receive_at_destination(t)
  BY <1>2, <1>5 DEF receive_at_destination, Rebooks, MovesLeft
<1>6. CASE n = 4 /\ confirm_source_deduction(t)
  <2>1. Shifts(ItemOf[t], QtyOf[t], -QtyOf[t]) /\ moves' = moves
    BY <1>1, <1>6, BooksShift DEF confirm_source_deduction
  <2> QED
    BY <1>2, <1>6, <2>1 DEF Rebooks, MovesLeft
<1> QED
  BY <1>3, <1>4, <1>5, <1>6 DEF Action

\* And what undoes them.
LEMMA Compensated ==
  ASSUME TransfersShape, NEW t \in Transfers, NEW n \in Int, Compensation(t, n),
         NEW v \in {"held", "taken"}
  PROVE  /\ n \in 1..3
         /\ Rebooks(t, v, IF n # 1 THEN v ELSE IF v = "held" THEN "none" ELSE "owed")
         /\ moves' \subseteq Transfers \X {"OUT", "IN"}
         /\ \A u \in Transfers : u # t => MovesLeft(u)
         /\ <<t, "OUT">> \in moves' <=> (n # 2 /\ <<t, "OUT">> \in moves)
         /\ <<t, "IN">> \in moves' <=> (n = 1 /\ <<t, "IN">> \in moves)
<1>1. ItemOf[t] \in Items /\ -QtyOf[t] \in Int
  BY TransferAssumption
<1>2. moves \subseteq Transfers \X {"OUT", "IN"}
  BY DEF TransfersShape
<1>3. CASE n = 1 /\ release_source_reservation(t)
  <2>1. Shifts(ItemOf[t], 0, -QtyOf[t]) /\ moves' = moves
    BY <1>1, <1>3, BooksShift DEF release_source_reservation
  <2> QED
    BY <1>2, <1>3, <2>1 DEF Rebooks, MovesLeft
<1>4. CASE n = 2 /\ cancel_transfer_record(t)
  BY <1>2, <1>4 DEF cancel_transfer_record, Rebooks, MovesLeft
<1>5. CASE n = 3 /\ return_from_destination(t)
  BY <1>2, <1>5 DEF return_from_destination, Rebooks, MovesLeft
<1> QED
  BY <1>3, <1>4, <1>5 DEF Compensation

\* A record of the journal is there, or lost, or nothing was to be written.
LEMMA Persisted ==
  ASSUME TransfersShape, NEW t \in Transfers, NEW n, NEW x, persist_step(t, n, x)
  PROVE  /\ Faulted(t)
         /\ journal' = journal \/ journal' = journal \cup {<<t, n, x>>}
         /\ faults' = 0 /\ instance[t] # "none" => journal' = journal \cup {<<t, n, x>>}
<1>1. Faulted(t)
  BY FaultOrNone DEF persist_step
<1>2. Fault(t) => faults' # 0
  BY DEF Fault, TransfersShape
<1> QED
  BY <1>1, <1>2 DEF persist_step

LEMMA OthersInJournal ==
  ASSUME NEW t \in Transfers, NEW n, NEW x,
         journal' = journal \/ journal' = journal \cup {<<t, n, x>>}
  PROVE  \A u \in Transfers : u # t => JournalLeft(u)
  BY DEF JournalLeft

\* The orchestrator with one transfer, one await after the other.
LEMMA TransferGoesOn ==
  ASSUME TransfersInv, NEW t \in Transfers,
         \/ execute(t) \/ StepDone(t) \/ RecordDone(t) \/ StepFails(t) \/ StepUnsure(t)
         \/ Undo(t) \/ NoteUndone(t) \/ UndoFails(t) \/ Completes(t) \/ Fails(t)
  PROVE  TransfersInv'
<1>1. TransfersShape /\ \A u \in Transfers : TransferTold(u)
  BY DEF TransfersInv
<1>2. PICK fate \in [Transfers -> Fates] : Explains(fate)
  BY DEF TransfersInv
<1>3. PICK n \in 0..5 : n = Step(t)
  BY <1>1 DEF TransfersShape, SagaType, Step
<1>4. PICK v \in Fates : v = fate[t]
  OBVIOUS
<1>5. FateFits(t, v) /\ Placed(saga[t])
  BY <1>1, <1>2, <1>4 DEF Explains, TransfersShape
<1>6. MovesTruly(t) /\ JournalTruly(t) /\ InstanceTruly(t)
  BY <1>1 DEF TransferTold
<1>7. ~At(t, "dead") /\ UNCHANGED sold /\ (faults = 0 => t \notin hurt)
  BY <1>1 DEF TransfersShape, At, execute, StepDone, RecordDone, StepFails, StepUnsure, Undo,
              NoteUndone, UndoFails, Completes, Fails, others
<1>8. ASSUME UNCHANGED moves
      PROVE  /\ moves' \subseteq Transfers \X {"OUT", "IN"}
             /\ \A u \in Transfers : MovesLeft(u)
  BY <1>1, <1>8 DEF TransfersShape, MovesLeft
<1>9. ASSUME UNCHANGED instance
      PROVE  /\ instance' \in [Transfers -> {"none", "started", "completed", "failed"}]
             /\ \A u \in Transfers : instance'[u] = instance[u]
  BY <1>1, <1>9 DEF TransfersShape
<1>10. ASSUME UNCHANGED journal PROVE \A u \in Transfers : JournalLeft(u)
  BY <1>10 DEF JournalLeft
<1>11. UNCHANGED <<stock, shadow>> => Rebooks(t, fate[t], v)
  BY <1>4 DEF Rebooks
<1>13. CASE execute(t)
  <2> DEFINE s == [at |-> "act", step |-> 1]
  <2>1. s \in SagaType /\ Placed(s) /\ s.at # "dead"
    BY DEF SagaType, Placed
  <2>2. saga' = [saga EXCEPT ![t] = s] /\ saga'[t].at = "act" /\ saga'[t].step = 1
    BY <1>1, <1>13, <2>1 DEF execute, Moves, TransfersShape
  <2>3. saga[t].at = "idle" /\ n = 0 /\ UNCHANGED <<stock, shadow, moves, journal>>
    BY <1>3, <1>5, <1>13 DEF execute, At, Placed, Step, books
  <2> HIDE DEF s
  <2>4. /\ Faulted(t)
        /\ instance' \in [Transfers -> {"none", "started", "completed", "failed"}]
        /\ \A u \in Transfers : u # t => instance'[u] = instance[u]
        /\ t \notin hurt' => instance'[t] = "started"
    <3>1. CASE instance' = [instance EXCEPT ![t] = "started"] /\ Sound
      BY <1>1, <3>1, FaultOrNone DEF TransfersShape
    <3>2. CASE UNCHANGED instance /\ Fault(t)
      BY <1>1, <1>9, <3>2, FaultOrNone DEF Fault
    <3> QED
      BY <1>13, <3>1, <3>2 DEF execute
  <2>5. FateFits(t, v)'
    BY <1>3, <1>5, <2>2, <2>3 DEF FateFits, FateOf, Known, InForce, Step, At
  <2>6. MovesTruly(t)'
    BY <1>3, <1>6, <2>2, <2>3 DEF MovesTruly, Known, InForce, Step, At
  <2>7. JournalTruly(t)'
    BY <1>3, <1>6, <2>2, <2>3, <2>4 DEF JournalTruly, Standing, Step, At, Steps, Faulted
  <2>8. InstanceTruly(t)'
    BY <2>2, <2>4 DEF InstanceTruly, Running, At
  <2> QED
    BY <1>1, <1>2, <1>7, <1>8, <1>10, <1>11, <2>1, <2>2, <2>3, <2>4, <2>5, <2>6, <2>7, <2>8,
       TransferMoved DEF TransferTold
<1>14. ASSUME StepDone(t) PROVE TransfersInv'
  <2> DEFINE s == [at |-> "record", step |-> n]
             w == IF n = 4 THEN "taken" ELSE "held"
  <2>1. At(t, "act") /\ Action(t, n) /\ Moves(t, "record", n) /\ UNCHANGED <<faults, hurt, instance, journal>>
    BY <1>3, <1>14 DEF StepDone, Step, Sound
  <2>2. n \in 1..5 /\ v = (IF n = 1 THEN "none" ELSE IF n = 5 THEN "taken" ELSE "held")
    BY <1>3, <1>5, <2>1 DEF FateFits, FateOf, Known, InForce, Step, At, Placed
  <2>3. n \in 1..4
    BY <2>1, <2>2 DEF Action
  <2>4. /\ Rebooks(t, v, w)
        /\ moves' \subseteq Transfers \X {"OUT", "IN"}
        /\ \A u \in Transfers : u # t => MovesLeft(u)
        /\ <<t, "OUT">> \in moves' <=> (n = 2 \/ <<t, "OUT">> \in moves)
        /\ <<t, "IN">> \in moves' <=> (n = 3 \/ <<t, "IN">> \in moves)
    <3>1. v = (IF n = 1 THEN "none" ELSE "held")
      BY <2>2, <2>3
    <3> QED
      BY <1>1, <2>1, <2>3, <3>1, Acted
  <2>5. s \in SagaType /\ Placed(s) /\ s.at # "dead"
    BY <2>3 DEF SagaType, Placed
  <2>6. saga' = [saga EXCEPT ![t] = s] /\ saga'[t].at = "record" /\ saga'[t].step = n
    BY <1>1, <2>1, <2>5 DEF Moves, TransfersShape
  <2> HIDE DEF s
  <2>7. FateFits(t, w)' /\ w \in Fates
    <3>1. w \in Fates /\ w = (IF n = 4 THEN "taken" ELSE "held")
      BY DEF Fates
    <3> QED
      BY <2>3, <2>6, <3>1 DEF FateFits, FateOf, Known, InForce, Step, At
  <2>8. MovesTruly(t)'
    BY <1>3, <1>6, <2>1, <2>3, <2>4, <2>6 DEF MovesTruly, Known, InForce, Step, At
  <2>9. JournalTruly(t)'
    BY <1>3, <1>6, <2>1, <2>3, <2>6 DEF JournalTruly, Standing, Step, At, Steps
  <2>10. InstanceTruly(t)'
    BY <1>6, <2>1, <2>6 DEF InstanceTruly, Running, At
  <2>11. Faulted(t)
    BY <1>1, <2>1 DEF Faulted, TransfersShape
  <2> HIDE DEF w
  <2> QED
    BY <1>1, <1>2, <1>4, <1>7, <1>9, <1>10, <2>1, <2>4, <2>5, <2>6, <2>7, <2>8, <2>9, <2>10, <2>11,
       TransferMoved DEF TransferTold
<1>15. ASSUME RecordDone(t) PROVE TransfersInv'
  <2> DEFINE s == [at |-> "act", step |-> n + 1]
  <2>1. /\ At(t, "record") /\ persist_step(t, n, "completed") /\ Moves(t, "act", n + 1)
        /\ UNCHANGED <<stock, shadow, moves, instance>>
    BY <1>3, <1>15 DEF RecordDone, Step, books
  <2>2. n \in 1..4 /\ n + 1 \in 2..5
    BY <1>3, <1>5, <2>1 DEF Step, At, Placed
  <2>3. s \in SagaType /\ Placed(s) /\ s.at # "dead"
    BY <2>2 DEF SagaType, Placed
  <2>4. saga' = [saga EXCEPT ![t] = s] /\ saga'[t].at = "act" /\ saga'[t].step = n + 1
    BY <1>1, <2>1, <2>2, <2>3 DEF Moves, TransfersShape
  <2> HIDE DEF s
  <2>5. /\ Faulted(t)
        /\ journal' = journal \/ journal' = journal \cup {<<t, n, "completed">>}
        /\ faults' = 0 /\ instance[t] # "none" => journal' = journal \cup {<<t, n, "completed">>}
    BY <1>1, <2>1, Persisted
  <2>6. FateFits(t, v)'
    BY <1>3, <1>5, <2>1, <2>2, <2>4, <2>5 DEF FateFits, FateOf, Known, InForce, Step, At, Faulted
  <2>7. MovesTruly(t)'
    BY <1>3, <1>6, <2>1, <2>2, <2>4, <2>5 DEF MovesTruly, Known, InForce, Step, At, Faulted
  <2>8. JournalTruly(t)'
    <3>1. SUFFICES ASSUME faults' = 0 PROVE JournalTruly(t)'
      BY DEF JournalTruly
    <3>2. faults = 0 /\ t \notin hurt
      BY <1>7, <2>5, <3>1 DEF Faulted
    <3>3. instance[t] = "started"
      BY <1>6, <2>1, <3>2 DEF InstanceTruly, Running, At
    <3>4. journal' = journal \cup {<<t, n, "completed">>}
      BY <2>5, <3>1, <3>3
    <3> QED
      BY <1>3, <1>6, <2>1, <2>2, <2>4, <3>2, <3>4 DEF JournalTruly, Standing, Step, At, Steps
  <2>9. InstanceTruly(t)'
    BY <1>6, <2>1, <2>4, <2>5 DEF InstanceTruly, Running, At, Faulted
  <2>10. \A u \in Transfers : u # t => JournalLeft(u)
    BY <2>5, OthersInJournal
  <2> QED
    BY <1>1, <1>2, <1>7, <1>8, <1>9, <1>11, <2>1, <2>3, <2>4, <2>5, <2>6, <2>7, <2>8, <2>9, <2>10,
       TransferMoved DEF TransferTold
<1>16. ASSUME StepFails(t) PROVE TransfersInv'
  <2> DEFINE s == [at |-> "undo", step |-> n - 1]
  <2>1. /\ At(t, "act") /\ persist_step(t, n, "failed") /\ Moves(t, "undo", n - 1) /\ n \in Steps
        /\ UNCHANGED <<stock, shadow, moves, instance>>
    BY <1>3, <1>16 DEF StepFails, Step, books
  <2>2. n \in 1..4 /\ n - 1 \in 0..3
    BY <2>1 DEF Steps
  <2>3. s \in SagaType /\ Placed(s) /\ s.at # "dead"
    BY <2>2 DEF SagaType, Placed
  <2>4. saga' = [saga EXCEPT ![t] = s] /\ saga'[t].at = "undo" /\ saga'[t].step = n - 1
    BY <1>1, <2>1, <2>2, <2>3 DEF Moves, TransfersShape
  <2> HIDE DEF s
  <2>5. /\ Faulted(t)
        /\ journal' = journal \/ journal' = journal \cup {<<t, n, "failed">>}
    BY <1>1, <2>1, Persisted
  <2>6. FateFits(t, v)'
    BY <1>3, <1>5, <2>1, <2>2, <2>4, <2>5 DEF FateFits, FateOf, Known, InForce, Step, At, Faulted
  <2>7. MovesTruly(t)'
    BY <1>3, <1>6, <2>1, <2>2, <2>4, <2>5 DEF MovesTruly, Known, InForce, Step, At, Faulted
  <2>8. JournalTruly(t)'
    BY <1>3, <1>6, <2>1, <2>2, <2>4, <2>5 DEF JournalTruly, Standing, Step, At, Steps, Faulted
  <2>9. InstanceTruly(t)'
    BY <1>6, <2>1, <2>4, <2>5 DEF InstanceTruly, Running, At, Faulted
  <2>10. \A u \in Transfers : u # t => JournalLeft(u)
    BY <2>5, OthersInJournal
  <2> QED
    BY <1>1, <1>2, <1>7, <1>8, <1>9, <1>11, <2>1, <2>3, <2>4, <2>5, <2>6, <2>7, <2>8, <2>9, <2>10,
       TransferMoved DEF TransferTold
<1>17. ASSUME StepUnsure(t) PROVE TransfersInv'
  <2> DEFINE s == [at |-> "undo", step |-> n - 1]
             w == IF n = 4 THEN "taken" ELSE "held"
  <2>1. /\ At(t, "act") /\ Action(t, n) /\ Moves(t, "undo", n - 1) /\ Fault(t) /\ UNCHANGED instance
        /\ journal' = journal \/ journal' = journal \cup {<<t, n, "failed">>}
    BY <1>3, <1>17 DEF StepUnsure, Step
  <2>2. n \in 1..5 /\ v = (IF n = 1 THEN "none" ELSE IF n = 5 THEN "taken" ELSE "held")
    BY <1>3, <1>5, <2>1 DEF FateFits, FateOf, Known, InForce, Step, At, Placed
  <2>3. n \in 1..4 /\ n - 1 \in 0..3
    BY <2>1, <2>2 DEF Action
  <2>4. /\ Rebooks(t, v, w)
        /\ moves' \subseteq Transfers \X {"OUT", "IN"}
        /\ \A u \in Transfers : u # t => MovesLeft(u)
        /\ <<t, "OUT">> \in moves' <=> (n = 2 \/ <<t, "OUT">> \in moves)
        /\ <<t, "IN">> \in moves' <=> (n = 3 \/ <<t, "IN">> \in moves)
    <3>1. v = (IF n = 1 THEN "none" ELSE "held")
      BY <2>2, <2>3
    <3> QED
      BY <1>1, <2>1, <2>3, <3>1, Acted
  <2>5. s \in SagaType /\ Placed(s) /\ s.at # "dead"
    BY <2>3 DEF SagaType, Placed
  <2>6. saga' = [saga EXCEPT ![t] = s] /\ saga'[t].at = "undo" /\ saga'[t].step = n - 1
    BY <1>1, <2>1, <2>3, <2>5 DEF Moves, TransfersShape
  <2> HIDE DEF s
  <2>7. Faulted(t) /\ faults' # 0 /\ t \in hurt'
    BY <1>1, <2>1, FaultOrNone DEF Fault, TransfersShape
  <2>8. FateFits(t, w)' /\ w \in Fates
    BY <2>6, <2>7 DEF FateFits, Fates, Known, Step, At
  <2>9. MovesTruly(t)' /\ JournalTruly(t)' /\ InstanceTruly(t)'
    BY <2>6, <2>7 DEF MovesTruly, Known, JournalTruly, InstanceTruly, At
  <2>10. \A u \in Transfers : u # t => JournalLeft(u)
    BY <2>1, OthersInJournal
  <2> HIDE DEF w
  <2> QED
    BY <1>1, <1>2, <1>4, <1>7, <1>9, <2>1, <2>4, <2>5, <2>6, <2>7, <2>8, <2>9, <2>10,
       TransferMoved DEF TransferTold
<1>18. ASSUME Undo(t) PROVE TransfersInv'
  <2> DEFINE s == [at |-> "note", step |-> n]
             w == IF n # 1 THEN v ELSE IF v = "held" THEN "none" ELSE "owed"
  <2>1. At(t, "undo") /\ Compensation(t, n) /\ Moves(t, "note", n) /\ UNCHANGED <<faults, hurt, instance, journal>>
    BY <1>3, <1>18 DEF Undo, Step, Sound
  <2>2. n \in 1..3
    BY <2>1 DEF Compensation
  <2>3. v \in {"held", "taken"} /\ (t \notin hurt => v = "held") /\ (faults = 0 => t \notin hurt)
    BY <1>3, <1>5, <1>7, <2>1, <2>2 DEF FateFits, FateOf, Known, InForce, Step, At
  <2>4. /\ Rebooks(t, v, w)
        /\ moves' \subseteq Transfers \X {"OUT", "IN"}
        /\ \A u \in Transfers : u # t => MovesLeft(u)
        /\ <<t, "OUT">> \in moves' <=> (n # 2 /\ <<t, "OUT">> \in moves)
        /\ <<t, "IN">> \in moves' <=> (n = 1 /\ <<t, "IN">> \in moves)
    BY <1>1, <2>1, <2>2, <2>3, Compensated
  <2>5. s \in SagaType /\ Placed(s) /\ s.at # "dead"
    BY <2>2 DEF SagaType, Placed
  <2>6. saga' = [saga EXCEPT ![t] = s] /\ saga'[t].at = "note" /\ saga'[t].step = n
    BY <1>1, <2>1, <2>5 DEF Moves, TransfersShape
  <2> HIDE DEF s
  <2>7. FateFits(t, w)' /\ w \in Fates
    <3>1. w \in Fates /\ w = (IF n # 1 THEN v ELSE IF v = "held" THEN "none" ELSE "owed")
      BY <1>4 DEF Fates
    <3> QED
      BY <2>1, <2>2, <2>3, <2>6, <3>1 DEF FateFits, FateOf, Known, InForce, Step, At
  <2>8. MovesTruly(t)'
    BY <1>3, <1>6, <2>1, <2>2, <2>3, <2>4, <2>6 DEF MovesTruly, Known, InForce, Step, At
  <2>9. JournalTruly(t)'
    BY <1>3, <1>6, <2>1, <2>2, <2>6 DEF JournalTruly, Standing, Step, At, Steps
  <2>10. InstanceTruly(t)'
    BY <1>6, <2>1, <2>6 DEF InstanceTruly, Running, At
  <2>11. Faulted(t)
    BY <1>1, <2>1 DEF Faulted, TransfersShape
  <2> HIDE DEF w
  <2> QED
    BY <1>1, <1>2, <1>4, <1>7, <1>9, <1>10, <2>1, <2>4, <2>5, <2>6, <2>7, <2>8, <2>9, <2>10, <2>11,
       TransferMoved DEF TransferTold
<1>19. ASSUME NoteUndone(t) PROVE TransfersInv'
  <2> DEFINE s == [at |-> "undo", step |-> n - 1]
  <2>1. /\ At(t, "note") /\ persist_step(t, n, "compensated") /\ Moves(t, "undo", n - 1)
        /\ UNCHANGED <<stock, shadow, moves, instance>>
    BY <1>3, <1>19 DEF NoteUndone, Step, books
  <2>2. n \in 1..3 /\ n - 1 \in 0..2
    BY <1>3, <1>5, <2>1 DEF Step, At, Placed
  <2>3. s \in SagaType /\ Placed(s) /\ s.at # "dead"
    BY <2>2 DEF SagaType, Placed
  <2>4. saga' = [saga EXCEPT ![t] = s] /\ saga'[t].at = "undo" /\ saga'[t].step = n - 1
    BY <1>1, <2>1, <2>2, <2>3 DEF Moves, TransfersShape
  <2> HIDE DEF s
  <2>5. /\ Faulted(t)
        /\ journal' = journal \/ journal' = journal \cup {<<t, n, "compensated">>}
        /\ faults' = 0 /\ instance[t] # "none" => journal' = journal \cup {<<t, n, "compensated">>}
    BY <1>1, <2>1, Persisted
  <2>6. FateFits(t, v)'
    BY <1>3, <1>5, <2>1, <2>2, <2>4, <2>5 DEF FateFits, FateOf, Known, InForce, Step, At, Faulted
  <2>7. MovesTruly(t)'
    BY <1>3, <1>6, <1>7, <2>1, <2>2, <2>4, <2>5 DEF MovesTruly, Known, InForce, Step, At, Faulted
  <2>8. JournalTruly(t)'
    <3>1. SUFFICES ASSUME faults' = 0 PROVE JournalTruly(t)'
      BY DEF JournalTruly
    <3>2. faults = 0 /\ t \notin hurt
      BY <1>7, <2>5, <3>1 DEF Faulted
    <3>3. instance[t] = "started"
      BY <1>6, <2>1, <3>2 DEF InstanceTruly, Running, At
    <3>4. journal' = journal \cup {<<t, n, "compensated">>}
      BY <2>5, <3>1, <3>3
    <3> QED
      BY <1>3, <1>6, <2>1, <2>2, <2>4, <3>2, <3>4 DEF JournalTruly, Standing, Step, At, Steps
  <2>9. InstanceTruly(t)'
    BY <1>6, <2>1, <2>4, <2>5 DEF InstanceTruly, Running, At, Faulted
  <2>10. \A u \in Transfers : u # t => JournalLeft(u)
    BY <2>5, OthersInJournal
  <2> QED
    BY <1>1, <1>2, <1>7, <1>8, <1>9, <1>11, <2>1, <2>3, <2>4, <2>5, <2>6, <2>7, <2>8, <2>9, <2>10,
       TransferMoved DEF TransferTold
<1>20. ASSUME UndoFails(t) PROVE TransfersInv'
  <2> DEFINE s == [at |-> "undo", step |-> n - 1]
  <2>1. /\ At(t, "undo") /\ n > 0 /\ Moves(t, "undo", n - 1) /\ Fault(t) /\ UNCHANGED instance
        /\ Compensation(t, n) \/ UNCHANGED <<stock, shadow, moves>>
        /\ journal' = journal \/ journal' = journal \cup {<<t, n, "compensation_failed">>}
    BY <1>3, <1>20 DEF UndoFails, Step, books
  <2>2. n \in 1..3 /\ n - 1 \in 0..2
    BY <1>3, <1>5, <2>1 DEF Step, At, Placed
  <2>3. v \in {"held", "taken"}
    BY <1>3, <1>5, <2>1, <2>2 DEF FateFits, Step, At
  <2>4. PICK w \in Fates :
            /\ Rebooks(t, v, w)
            /\ n # 1 => w = v
            /\ moves' \subseteq Transfers \X {"OUT", "IN"}
            /\ \A u \in Transfers : u # t => MovesLeft(u)
    <3>1. CASE UNCHANGED <<stock, shadow, moves>>
      BY <1>4, <1>8, <1>11, <3>1
    <3>2. CASE Compensation(t, n)
      <4> DEFINE x == IF n # 1 THEN v ELSE IF v = "held" THEN "none" ELSE "owed"
      <4>1. /\ Rebooks(t, v, x)
            /\ moves' \subseteq Transfers \X {"OUT", "IN"}
            /\ \A u \in Transfers : u # t => MovesLeft(u)
            /\ <<t, "OUT">> \in moves' <=> (n # 2 /\ <<t, "OUT">> \in moves)
            /\ <<t, "IN">> \in moves' <=> (n = 1 /\ <<t, "IN">> \in moves)
        BY <1>1, <2>2, <2>3, <3>2, Compensated
      <4>2. x \in Fates /\ (n # 1 => x = v)
        BY <1>4 DEF Fates
      <4> HIDE DEF x
      <4> QED
        BY <4>1, <4>2
    <3> QED
      BY <2>1, <3>1, <3>2
  <2>5. s \in SagaType /\ Placed(s) /\ s.at # "dead"
    BY <2>2 DEF SagaType, Placed
  <2>6. saga' = [saga EXCEPT ![t] = s] /\ saga'[t].at = "undo" /\ saga'[t].step = n - 1
    BY <1>1, <2>1, <2>2, <2>5 DEF Moves, TransfersShape
  <2> HIDE DEF s
  <2>7. Faulted(t) /\ faults' # 0 /\ t \in hurt'
    BY <1>1, <2>1, FaultOrNone DEF Fault, TransfersShape
  <2>8. FateFits(t, w)'
    BY <2>2, <2>3, <2>4, <2>6, <2>7 DEF FateFits, Known, Step, At
  <2>9. MovesTruly(t)' /\ JournalTruly(t)' /\ InstanceTruly(t)'
    BY <2>6, <2>7 DEF MovesTruly, Known, JournalTruly, InstanceTruly, At
  <2>10. \A u \in Transfers : u # t => JournalLeft(u)
    BY <2>1, OthersInJournal
  <2> QED
    BY <1>1, <1>2, <1>4, <1>7, <1>9, <2>1, <2>4, <2>5, <2>6, <2>7, <2>8, <2>9, <2>10,
       TransferMoved DEF TransferTold
<1>21. ASSUME NEW end \in {"completed", "failed"}, update_saga_state(t, end)
       PROVE  /\ Faulted(t)
              /\ instance' \in [Transfers -> {"none", "started", "completed", "failed"}]
              /\ \A u \in Transfers : u # t => instance'[u] = instance[u]
              /\ t \notin hurt' /\ instance[t] # "none" => instance'[t] = end
  <2>1. CASE instance' = [instance EXCEPT ![t] = IF @ = "none" THEN @ ELSE end] /\ Sound
    BY <1>1, <2>1, FaultOrNone DEF TransfersShape
  <2>2. CASE UNCHANGED instance /\ Fault(t)
    BY <1>1, <1>9, <2>2, FaultOrNone DEF Fault
  <2> QED
    BY <1>21, <2>1, <2>2 DEF update_saga_state
<1>22. ASSUME Completes(t) PROVE TransfersInv'
  <2> DEFINE s == [at |-> "completed", step |-> 5]
  <2>1. /\ At(t, "act") /\ n = 5 /\ update_saga_state(t, "completed") /\ Moves(t, "completed", 5)
        /\ UNCHANGED <<stock, shadow, moves, journal>>
    BY <1>3, <1>22 DEF Completes, Step, books
  <2>2. s \in SagaType /\ Placed(s) /\ s.at # "dead"
    BY DEF SagaType, Placed
  <2>3. saga' = [saga EXCEPT ![t] = s] /\ saga'[t].at = "completed" /\ saga'[t].step = 5
    BY <1>1, <2>1, <2>2 DEF Moves, TransfersShape
  <2> HIDE DEF s
  <2>4. /\ Faulted(t)
        /\ instance' \in [Transfers -> {"none", "started", "completed", "failed"}]
        /\ \A u \in Transfers : u # t => instance'[u] = instance[u]
        /\ t \notin hurt' /\ instance[t] # "none" => instance'[t] = "completed"
    BY <1>21, <2>1
  <2>5. FateFits(t, v)'
    BY <1>3, <1>5, <2>1, <2>3, <2>4 DEF FateFits, FateOf, Known, InForce, Step, At, Faulted
  <2>6. MovesTruly(t)'
    BY <1>3, <1>6, <2>1, <2>3, <2>4 DEF MovesTruly, Known, InForce, Step, At, Faulted
  <2>7. JournalTruly(t)'
    BY <1>3, <1>6, <2>1, <2>3, <2>4 DEF JournalTruly, Standing, Step, At, Steps, Faulted
  <2>8. InstanceTruly(t)'
    BY <1>6, <2>1, <2>3, <2>4 DEF InstanceTruly, Running, At, Faulted
  <2> QED
    BY <1>1, <1>2, <1>7, <1>8, <1>10, <1>11, <2>1, <2>2, <2>3, <2>4, <2>5, <2>6, <2>7, <2>8,
       TransferMoved DEF TransferTold
<1>23. ASSUME Fails(t) PROVE TransfersInv'
  <2> DEFINE s == [at |-> "failed", step |-> 0]
  <2>1. /\ At(t, "undo") /\ n = 0 /\ update_saga_state(t, "failed") /\ Moves(t, "failed", 0)
        /\ UNCHANGED <<stock, shadow, moves, journal>>
    BY <1>3, <1>23 DEF Fails, Step, books
  <2>2. s \in SagaType /\ Placed(s) /\ s.at # "dead"
    BY DEF SagaType, Placed
  <2>3. saga' = [saga EXCEPT ![t] = s] /\ saga'[t].at = "failed" /\ saga'[t].step = 0
    BY <1>1, <2>1, <2>2 DEF Moves, TransfersShape
  <2> HIDE DEF s
  <2>4. /\ Faulted(t)
        /\ instance' \in [Transfers -> {"none", "started", "completed", "failed"}]
        /\ \A u \in Transfers : u # t => instance'[u] = instance[u]
        /\ t \notin hurt' /\ instance[t] # "none" => instance'[t] = "failed"
    BY <1>21, <2>1
  <2>5. FateFits(t, v)'
    BY <1>3, <1>5, <2>1, <2>3, <2>4 DEF FateFits, FateOf, Known, InForce, Step, At, Faulted
  <2>6. MovesTruly(t)'
    BY <1>3, <1>6, <1>7, <2>1, <2>3, <2>4 DEF MovesTruly, Known, InForce, Step, At, Faulted
  <2>7. JournalTruly(t)'
    BY <1>3, <1>6, <2>1, <2>3, <2>4 DEF JournalTruly, Standing, Step, At, Steps, Faulted
  <2>8. InstanceTruly(t)'
    BY <1>6, <2>1, <2>3, <2>4 DEF InstanceTruly, Running, At, Faulted
  <2> QED
    BY <1>1, <1>2, <1>7, <1>8, <1>10, <1>11, <2>1, <2>2, <2>3, <2>4, <2>5, <2>6, <2>7, <2>8,
       TransferMoved DEF TransferTold
<1> QED
  BY <1>13, <1>14, <1>15, <1>16, <1>17, <1>18, <1>19, <1>20, <1>22, <1>23

\* The process dies: every transfer that runs is hurt where it stands.
LEMMA TransfersCrash == TransfersInv /\ Crash => TransfersInv'
<1> SUFFICES ASSUME TransfersInv, Crash PROVE TransfersInv'
  OBVIOUS
<1>1. TransfersShape /\ \A u \in Transfers : TransferTold(u)
  BY DEF TransfersInv
<1>2. PICK fate \in [Transfers -> Fates] : Explains(fate)
  BY DEF TransfersInv
<1>3. UNCHANGED <<stock, shadow, moves, instance, journal, faults, sold>>
  BY DEF Crash, books, others
<1>4. \A t \in Transfers :
        /\ saga'[t] \in SagaType /\ saga'[t].step = saga[t].step
        /\ Running(t) => saga'[t].at = "dead" /\ t \in hurt'
        /\ ~Running(t) => saga'[t] = saga[t] /\ (t \in hurt' <=> t \in hurt)
  BY <1>1 DEF Crash, TransfersShape, SagaType
<1>5. saga' \in [Transfers -> SagaType] /\ hurt' \subseteq Transfers
  <2>1. saga' = [t \in Transfers |-> IF Running(t) THEN [saga[t] EXCEPT !.at = "dead"] ELSE saga[t]]
    BY DEF Crash
  <2> QED
    BY <1>1, <1>4, <2>1 DEF Crash, TransfersShape
<1>6. ASSUME NEW t \in Transfers
      PROVE  /\ Placed(saga'[t])
             /\ saga'[t].at = "dead" => t \in hurt'
             /\ faults = 0 /\ t \in hurt' => saga'[t].at = "dead"
             /\ TransferTold(t)' /\ \A w \in Fates : FateFits(t, w) => FateFits(t, w)'
  <2>1. CASE Running(t)
    <3>1. saga'[t].at = "dead" /\ t \in hurt' /\ Step(t)' = Step(t)
      BY <1>4, <2>1 DEF Step
    <3>2. Placed(saga'[t])
      BY <3>1 DEF Placed
    <3>3. faults = 0 => MovesTruly(t) /\ JournalTruly(t)
      BY <1>1 DEF TransferTold
    <3>4. MovesTruly(t)'
      BY <1>3, <3>1, <3>3 DEF MovesTruly, Known, At
    <3>5. JournalTruly(t)' /\ InstanceTruly(t)'
      BY <1>3, <3>1, <3>3 DEF JournalTruly, Standing, InstanceTruly, At
    <3>6. \A w \in Fates : FateFits(t, w) => FateFits(t, w)'
      BY <1>3, <3>1 DEF FateFits, Known, At
    <3> QED
      BY <3>1, <3>2, <3>4, <3>5, <3>6 DEF TransferTold
  <2>2. CASE ~Running(t)
    <3>1. saga'[t] = saga[t] /\ (t \in hurt' <=> t \in hurt)
      BY <1>4, <2>2
    <3>2. MovesLeft(t) /\ JournalLeft(t)
      BY <1>3 DEF MovesLeft, JournalLeft
    <3>3. TransferTold(t)' /\ \A w \in Fates : FateFits(t, w) => FateFits(t, w)'
      BY <1>1, <1>3, <3>1, <3>2, TransferLeft
    <3> QED
      BY <1>1, <1>3, <3>1, <3>3 DEF TransfersShape, At
  <2> QED
    BY <2>1, <2>2
<1>7. TransfersShape'
  BY <1>1, <1>3, <1>5, <1>6 DEF TransfersShape, At, Placed
<1>8. Explains(fate)'
  <2>1. \A t \in Transfers : FateFits(t, fate[t])'
    BY <1>2, <1>6 DEF Explains
  <2>2. \A i \in Items : BookedAs(fate, i)'
    BY <1>2, <1>3 DEF Explains, BookedAs
  <2> QED
    BY <2>1, <2>2 DEF Explains
<1> QED
  BY <1>6, <1>7, <1>8 DEF TransfersInv

\* A sale takes a unit of the stock and is counted.
LEMMA TransfersSell ==
  ASSUME TransfersInv, NEW i \in Items, Sell(i)
  PROVE  TransfersInv'
<1>1. TransfersShape /\ \A u \in Transfers : TransferTold(u)
  BY DEF TransfersInv
<1>2. PICK fate \in [Transfers -> Fates] : Explains(fate)
  BY DEF TransfersInv
<1>3. UNCHANGED <<shadow, moves, saga, instance, journal, faults, hurt>>
  BY DEF Sell
<1>4. /\ stock' \in [Items -> Int] /\ sold' \in [Items -> Nat]
      /\ stock'[i] = stock[i] - 1 /\ sold'[i] = sold[i] + 1
      /\ \A j \in Items : j # i => stock'[j] = stock[j] /\ sold'[j] = sold[j]
  BY <1>1 DEF Sell, TransfersShape
<1>5. TransfersShape'
  BY <1>1, <1>3, <1>4 DEF TransfersShape, At, Placed
<1>6. \A u \in Transfers : TransferTold(u)' /\ \A w \in Fates : FateFits(u, w) => FateFits(u, w)'
  <2>1. \A u \in Transfers : MovesLeft(u) /\ JournalLeft(u)
    BY <1>3 DEF MovesLeft, JournalLeft
  <2> QED
    BY <1>1, <1>3, <2>1, TransferLeft
<1>7. ASSUME NEW j \in Items PROVE BookedAs(fate, j)'
  <2> DEFINE is(x) == Total(Having(fate, x, j))
  <2>1. is("taken") \in Nat /\ is("owed") \in Nat
    BY TotalNat DEF Having, Of
  <2> HIDE DEF is
  <2>2. stock[j] = StartStock[j] - sold[j] - is("taken") - is("owed")
    BY <1>2 DEF Explains, BookedAs, is
  <2>3. stock[j] \in Int /\ sold[j] \in Nat /\ StartStock[j] \in Nat
    BY <1>1, TransferAssumption DEF TransfersShape
  <2>4. stock'[j] = StartStock[j] - sold'[j] - is("taken") - is("owed")
    BY <1>4, <2>1, <2>2, <2>3
  <2> QED
    BY <1>2, <1>3, <2>4 DEF Explains, BookedAs, is
<1>8. Explains(fate)'
  BY <1>2, <1>6, <1>7 DEF Explains
<1> QED
  BY <1>5, <1>6, <1>8 DEF TransfersInv

LEMMA TransfersStart == TransfersInit => TransfersInv
<1> SUFFICES ASSUME TransfersInit PROVE TransfersInv
  OBVIOUS
<1>1. \A t \in Transfers : saga[t].at = "idle" /\ saga[t].step = 0 /\ instance[t] = "none"
  BY DEF TransfersInit
<1>2. moves = {} /\ journal = {} /\ faults = 0 /\ hurt = {}
  BY DEF TransfersInit
<1>3. TransfersShape
  <2>1. [at |-> "idle", step |-> 0] \in SagaType
    BY DEF SagaType
  <2> QED
    BY <1>1, <1>2, <2>1, TransferAssumption DEF TransfersInit, TransfersShape, Placed, At
<1>4. \A t \in Transfers : TransferTold(t)
  <2> SUFFICES ASSUME NEW t \in Transfers PROVE TransferTold(t)
    OBVIOUS
  <2>1. MovesTruly(t)
    BY <1>1, <1>2 DEF MovesTruly, Known, InForce, Step, At
  <2>2. JournalTruly(t)
    BY <1>1, <1>2 DEF JournalTruly, Standing, Step, At, Steps
  <2>3. InstanceTruly(t)
    BY <1>1 DEF InstanceTruly, At
  <2> QED
    BY <2>1, <2>2, <2>3 DEF TransferTold
<1> DEFINE fate == [t \in Transfers |-> "none"]
<1>5. fate \in [Transfers -> Fates] /\ \A t \in Transfers : fate[t] = "none"
  BY DEF Fates
<1> HIDE DEF fate
<1>6. \A t \in Transfers : FateFits(t, fate[t])
  BY <1>1, <1>5 DEF FateFits, FateOf, InForce, Step, At
<1>7. ASSUME NEW i \in Items PROVE BookedAs(fate, i)
  <2>1. Having(fate, "held", i) = {} /\ Having(fate, "taken", i) = {} /\ Having(fate, "owed", i) = {}
    BY <1>5 DEF Having, Of
  <2>2. stock[i] = StartStock[i] /\ shadow[i] = 0 /\ sold[i] = 0 /\ StartStock[i] \in Nat
    BY TransferAssumption DEF TransfersInit
  <2> DEFINE is(x) == Total(Having(fate, x, i))
  <2>3. is("held") = 0 /\ is("taken") = 0 /\ is("owed") = 0
    BY <2>1, TotalOfNobody
  <2> HIDE DEF is
  <2>4. /\ shadow[i] = is("held") - is("owed")
        /\ stock[i] = StartStock[i] - sold[i] - is("taken") - is("owed")
        /\ is("held") + is("taken") <= StartStock[i]
    BY <2>2, <2>3
  <2> QED
    BY <2>4 DEF BookedAs, is
<1>8. Explains(fate)
  BY <1>6, <1>7 DEF Explains
<1> QED
  BY <1>3, <1>4, <1>5, <1>8 DEF TransfersInv

LEMMA TransfersSteps == TransfersInv /\ [TransfersNext]_transfers => TransfersInv'
<1> SUFFICES ASSUME TransfersInv, [TransfersNext]_transfers PROVE TransfersInv'
  OBVIOUS
<1>1. CASE UNCHANGED transfers
  BY <1>1 DEF transfers, TransfersInv, TransfersShape, TransferTold, MovesTruly, JournalTruly, InstanceTruly,
              Explains, BookedAs, FateFits, FateOf, Known, InForce, Step, Standing, Running, At
<1>2. CASE TransfersNext
  BY <1>2, TransferGoesOn, TransfersCrash, TransfersSell DEF TransfersNext
<1> QED
  BY <1>1, <1>2

\* Whatever the saga loses and whenever the process dies, the books of a product
\* are those of the transfers and of the tills: each transfer has done nothing to
\* them yet, holds a reservation, took its units, or gave the reservation back
\* once too often (saga.py and its four steps with what undoes them).
THEOREM TransfersInvariant == TransfersSpec => []TransfersInv
  BY TransfersStart, TransfersSteps, PTL DEF TransfersSpec

\* A transfer takes place whole or not at all; what is promised is covered by the
\* stock and by transfers at work or hurt; and the journal is at most one step
\* behind the movements.
THEOREM TransfersAreWhole == TransfersSpec => []TransferWhole
<1>1. ASSUME TransfersInv PROVE TransferWhole
  <2>1. TransfersShape /\ \A t \in Transfers : MovesTruly(t) /\ JournalTruly(t) /\ InstanceTruly(t)
    BY <1>1 DEF TransfersInv, TransferTold
  <2>2. PICK fate \in [Transfers -> Fates] : Explains(fate)
    BY <1>1 DEF TransfersInv
  <2>3. \A t \in Transfers : FateFits(t, fate[t])
    BY <2>2 DEF Explains
  <2>4. \A t \in Transfers : Placed(saga[t]) /\ saga[t] \in SagaType /\ (At(t, "dead") => t \in hurt)
    BY <2>1 DEF TransfersShape
  <2> SUFFICES ASSUME NEW i \in Items
               PROVE  /\ faults = 0 => shadow[i] >= 0 /\ shadow[i] <= stock[i] + sold[i]
                      /\ (\A t \in Of(i) : Ended(t) /\ t \notin hurt) =>
                            /\ shadow[i] = 0
                            /\ stock[i] = StartStock[i] - sold[i] - Total(Moved(i))
                            /\ {m \in moves : m[1] \in Of(i)} = Moved(i) \X {"OUT", "IN"}
                            /\ \A t \in Of(i) : ~At(t, "idle") => instance[t] = saga[t].at
                      /\ shadow[i] <= Total({t \in Of(i) : Running(t) \/ t \in hurt})
                      /\ faults = 0 => \A t \in Of(i) :
                            /\ (<<t, "OUT">> \in moves <=> Standing(t, 2)) \/ saga[t].step = 2
                            /\ (<<t, "IN">> \in moves <=> Standing(t, 3)) \/ saga[t].step = 3
    BY DEF TransferWhole
  <2> DEFINE is(x) == Total(Having(fate, x, i))
  <2>5. \A x : Having(fate, x, i) \in SUBSET Transfers
    BY DEF Having, Of
  <2>6. \A x : is(x) \in Nat
    BY <2>5, TotalNat
  <2>7. stock[i] \in Int /\ shadow[i] \in Int /\ sold[i] \in Nat /\ StartStock[i] \in Nat
    BY <2>1, TransferAssumption DEF TransfersShape
  <2>8. /\ shadow[i] = is("held") - is("owed")
        /\ stock[i] = StartStock[i] - sold[i] - is("taken") - is("owed")
        /\ faults = 0 => is("held") + is("taken") <= StartStock[i]
    BY <2>2 DEF Explains, BookedAs
  <2>9. ASSUME faults = 0 PROVE shadow[i] >= 0 /\ shadow[i] <= stock[i] + sold[i]
    <3>1. Having(fate, "owed", i) = {}
      BY <2>3, <2>9 DEF FateFits, Having, Of
    <3>2. is("owed") = 0
      BY <3>1, TotalOfNobody
    <3> HIDE DEF is
    <3> QED
      BY <2>6, <2>7, <2>8, <2>9, <3>2
  <2>10. ASSUME \A t \in Of(i) : Ended(t) /\ t \notin hurt
         PROVE  /\ shadow[i] = 0
                /\ stock[i] = StartStock[i] - sold[i] - Total(Moved(i))
                /\ {m \in moves : m[1] \in Of(i)} = Moved(i) \X {"OUT", "IN"}
                /\ \A t \in Of(i) : ~At(t, "idle") => instance[t] = saga[t].at
    <3>1. ASSUME NEW t \in Of(i)
          PROVE  /\ t \in Transfers /\ Known(t)
                 /\ fate[t] = IF At(t, "completed") THEN "taken" ELSE "none"
                 /\ <<t, "OUT">> \in moves <=> At(t, "completed")
                 /\ <<t, "IN">> \in moves <=> At(t, "completed")
                 /\ ~At(t, "idle") => instance[t] = saga[t].at
      <4>1. t \in Transfers /\ Known(t) /\ Placed(saga[t])
            /\ saga[t].at \in {"idle", "completed", "failed"}
        BY <2>4, <2>10 DEF Of, Known, Ended
      <4>2. saga[t].step = IF At(t, "completed") THEN 5 ELSE 0
        BY <4>1 DEF Placed, At
      <4>3. /\ InForce(t, 2) <=> At(t, "completed")
            /\ InForce(t, 3) <=> At(t, "completed")
            /\ FateOf(t) = IF At(t, "completed") THEN "taken" ELSE "none"
        BY <4>1, <4>2 DEF InForce, FateOf, Step, At
      <4>4. instance[t] = IF At(t, "idle") THEN "none" ELSE saga[t].at
        BY <2>1, <2>10, <4>1 DEF InstanceTruly, Running, At
      <4> QED
        BY <2>1, <2>3, <4>1, <4>3, <4>4 DEF MovesTruly, FateFits
    <3>2. Having(fate, "held", i) = {} /\ Having(fate, "owed", i) = {} /\ Having(fate, "taken", i) = Moved(i)
      BY <3>1 DEF Having, Moved
    <3>3. is("held") = 0 /\ is("owed") = 0 /\ is("taken") = Total(Moved(i))
      BY <3>2, TotalOfNobody
    <3>4. {m \in moves : m[1] \in Of(i)} = Moved(i) \X {"OUT", "IN"}
      <4>1. moves \subseteq Transfers \X {"OUT", "IN"}
        BY <2>1 DEF TransfersShape
      <4>2. ASSUME NEW m \in moves, m[1] \in Of(i) PROVE m \in Moved(i) \X {"OUT", "IN"}
        <5>1. PICK t \in Transfers, x \in {"OUT", "IN"} : m = <<t, x>>
          BY <4>1
        <5>2. t \in Of(i) /\ At(t, "completed")
          BY <3>1, <4>2, <5>1
        <5> QED
          BY <5>1, <5>2 DEF Moved
      <4>3. ASSUME NEW m \in Moved(i) \X {"OUT", "IN"} PROVE m \in moves /\ m[1] \in Of(i)
        <5>1. PICK t \in Moved(i), x \in {"OUT", "IN"} : m = <<t, x>>
          OBVIOUS
        <5>2. t \in Of(i) /\ At(t, "completed")
          BY DEF Moved
        <5> QED
          BY <3>1, <5>1, <5>2
      <4> QED
        BY <4>2, <4>3
    <3> HIDE DEF is
    <3>5. shadow[i] = 0 /\ stock[i] = StartStock[i] - sold[i] - is("taken")
      BY <2>6, <2>7, <2>8, <3>3
    <3> QED
      BY <3>1, <3>3, <3>4, <3>5
  <2>11. shadow[i] <= Total({t \in Of(i) : Running(t) \/ t \in hurt})
    <3> DEFINE working == {t \in Of(i) : Running(t) \/ t \in hurt}
    <3>1. Having(fate, "held", i) \subseteq working
      <4>1. SUFFICES ASSUME NEW t \in Of(i), fate[t] = "held", t \notin hurt PROVE Running(t)
        BY DEF Having
      <4>2. t \in Transfers /\ Known(t) /\ FateOf(t) = "held"
        BY <2>3, <4>1 DEF Of, Known, FateFits
      <4>3. Step(t) >= 1 /\ Step(t) <= 4
        BY <2>4, <4>2 DEF FateOf, InForce, Step, SagaType
      <4> QED
        BY <2>4, <4>1, <4>2, <4>3 DEF Placed, SagaType, Running, Step, At
    <3>2. working \in SUBSET Transfers
      BY DEF Of
    <3>3. is("held") <= Total(working) /\ Total(working) \in Nat
      BY <2>5, <3>1, <3>2, TotalOfMore, TotalNat
    <3> HIDE DEF is, working
    <3>4. shadow[i] <= Total(working)
      BY <2>6, <2>8, <3>3
    <3> QED
      BY <3>4 DEF working
  <2>12. ASSUME faults = 0, NEW t \in Of(i)
         PROVE  /\ (<<t, "OUT">> \in moves <=> Standing(t, 2)) \/ saga[t].step = 2
                /\ (<<t, "IN">> \in moves <=> Standing(t, 3)) \/ saga[t].step = 3
    <3>1. t \in Transfers
      BY DEF Of
    <3>2. MovesTruly(t) /\ JournalTruly(t)
      BY <2>1, <3>1
    <3> QED
      BY <2>12, <3>2 DEF MovesTruly, JournalTruly, Steps, Step
  <2> QED
    BY <2>9, <2>10, <2>11, <2>12
<1> QED
  BY <1>1, TransfersInvariant, PTL

-----------------------------------------------------------------------------
(* Admission                                                                *)

Kinds == {"read", "sale", "sync", "remote_cancel"}
FetchOf == [at : {"queued", "sent", "waiting"}, kind : Kinds, tries : 0..maxRetries]
TaskOf == [kind : Kinds, pc : Nat, by : SUBSET Asking, ok : BOOLEAN, has : Int]
TicksOf == [charged : Nat, given_up : Nat, sold : Nat, shown : Nat]

\* The connections that a handler holds when it comes to a step.
HeldAt ==
    [read |-> <<0, 1, 0, 1, 1>>,
     sale |-> <<0, 1, 0, 1, 1, 0>>,
     sync |-> <<0, 1, 2, 1, 1>>,
     remote_cancel |-> <<0, 1, 0, 1, 2, 1, 1>>]

AdmissionShape ==
    /\ requestQueue \in Seq(Asking) /\ letIn \in Nat
    /\ fetching \in [Asking -> FetchOf \cup {Nobody}]
    /\ serving \in [Serving -> TaskOf \cup {NoTask}]
    /\ charging \in BOOLEAN /\ ticks \in TicksOf

\* The queue fills when no slot is free, and letting calls in frees none.
SlotsHeld ==
    /\ IsFiniteSet(Sent) /\ Cardinality(Sent) <= MAX_CONCURRENT_REQUESTS
    /\ activeRequests = Cardinality(Sent) + letIn
    /\ requestQueue # <<>> => activeRequests >= MAX_CONCURRENT_REQUESTS

QueueWaits ==
    /\ \A i \in 1..Len(requestQueue) : fetching[requestQueue[i]].at = "queued"
    /\ \A i, j \in 1..Len(requestQueue) : requestQueue[i] = requestQueue[j] => i = j

\* A handler holds what its step says, and serves one call on its way or nobody's.
HandlersStand ==
    /\ \A t \in Serving : Busy(t) =>
        /\ serving[t].pc \in 1..Len(Program[serving[t].kind])
        /\ serving[t].has = HeldAt[serving[t].kind][serving[t].pc]
        /\ \A c \in serving[t].by :
            serving[t].by = {c} /\ fetching[c].at = "sent" /\ fetching[c].kind = serving[t].kind
    /\ \A t, u \in Serving :
        Busy(t) /\ Busy(u) /\ serving[t].by = serving[u].by /\ serving[t].by # {} => t = u

PoolFits == IsFiniteSet(Connections) /\ Cardinality(Connections) <= max_size

\* The ticket that is being sent, at most one.
OneTicket ==
    /\ \A c \in Asking : fetching[c].at # "idle" /\ fetching[c].kind = "sale" =>
        charging /\ fetching[c].at # "waiting"
    /\ \A c, e \in Asking :
        /\ fetching[c].at # "idle" /\ fetching[c].kind = "sale"
        /\ fetching[e].at # "idle" /\ fetching[e].kind = "sale"
        => c = e

\* Sales that nobody waits for and that may still be made, and the one that was made
\* and not yet shown.
Unheard == {t \in Serving : Busy(t) /\ serving[t].kind = "sale" /\ serving[t].by = {} /\ serving[t].pc <= 4}
Settled == {t \in Serving : Busy(t) /\ serving[t].kind = "sale" /\ serving[t].by # {} /\ serving[t].pc > 4 /\ serving[t].ok}
Owed == IF Settled = {} THEN 0 ELSE 1

SalesCounted ==
    /\ \A t \in Serving : Busy(t) /\ serving[t].kind = "sale" /\ serving[t].pc <= 4 => serving[t].ok
    /\ IsFiniteSet(Unheard)
    /\ ticks.shown + Owed <= ticks.sold
    /\ ticks.sold + Cardinality(Unheard) <= ticks.shown + ticks.given_up + Owed

AdmissionInv == AdmissionShape /\ SlotsHeld /\ QueueWaits /\ HandlersStand /\ PoolFits /\ OneTicket /\ SalesCounted

\* What a step of a handler's program does to what it holds, and where a sale commits.
StepSound(k, i) ==
    LET last == i = Len(Program[k])
        after == IF last THEN 0 ELSE HeldAt[k][i + 1]
        does == Program[k][i]
    IN  /\ HeldAt[k][i] \in 0..2
        /\ does = "take" =>
            /\ ~last /\ after = HeldAt[k][i] + 1
            /\ HeldAt[k][i] # 0 => HeldAt[k][i] = 1 /\ k \in Nested
        /\ does = "give" => after = HeldAt[k][i] - 1
        /\ does = "commit" => k = "sale" /\ i = 4 /\ ~last /\ after = HeldAt[k][i]
        /\ does = "answer" => after = HeldAt[k][i] /\ (k = "sale" => i = 6 /\ last)
        /\ k = "sale" /\ does \in {"take", "give"} => i # 4 /\ ~last

LEMMA Programs ==
  /\ DOMAIN Program = Kinds
  /\ \A k \in Kinds : Len(Program[k]) \in Nat /\ Len(Program[k]) >= 1 /\ HeldAt[k][1] = 0
  /\ \A k \in Kinds : \A i \in 1..Len(Program[k]) : StepSound(k, i)
<1>1. DOMAIN Program = Kinds
  BY DEF Program, Kinds
<1> DEFINE P(k) == Program[k]
           H(k) == HeldAt[k]
<1>2. /\ P("read") = <<"take", "give", "take", "answer", "give">> /\ H("read") = <<0, 1, 0, 1, 1>>
      /\ P("sale") = <<"take", "give", "take", "commit", "give", "answer">> /\ H("sale") = <<0, 1, 0, 1, 1, 0>>
      /\ P("sync") = <<"take", "take", "give", "answer", "give">> /\ H("sync") = <<0, 1, 2, 1, 1>>
      /\ P("remote_cancel") = <<"take", "give", "take", "take", "give", "answer", "give">>
      /\ H("remote_cancel") = <<0, 1, 0, 1, 2, 1, 1>>
  BY DEF Program, HeldAt
<1> HIDE DEF P, H
<1>3. Len(P("read")) = 5 /\ Len(P("sale")) = 6 /\ Len(P("sync")) = 5 /\ Len(P("remote_cancel")) = 7
  BY <1>2
<1>4. \A k \in Kinds : Len(P(k)) \in Nat /\ Len(P(k)) >= 1 /\ H(k)[1] = 0
  BY <1>2, <1>3 DEF Kinds
<1>5. \A i \in 1..5 : StepSound("read", i)
  <2>1. /\ P("read")[1] = "take" /\ P("read")[2] = "give" /\ P("read")[3] = "take"
        /\ P("read")[4] = "answer" /\ P("read")[5] = "give"
    BY <1>2
  <2>2. /\ H("read")[1] = 0 /\ H("read")[2] = 1 /\ H("read")[3] = 0 /\ H("read")[4] = 1
        /\ H("read")[5] = 1
    BY <1>2
  <2>3. 1..5 = {1, 2, 3, 4, 5}
    OBVIOUS
  <2>4. StepSound("read", 1)
    BY <1>3, <2>1, <2>2 DEF StepSound, Nested, P, H
  <2>5. StepSound("read", 2)
    BY <1>3, <2>1, <2>2 DEF StepSound, Nested, P, H
  <2>6. StepSound("read", 3)
    BY <1>3, <2>1, <2>2 DEF StepSound, Nested, P, H
  <2>7. StepSound("read", 4)
    BY <1>3, <2>1, <2>2 DEF StepSound, Nested, P, H
  <2>8. StepSound("read", 5)
    BY <1>3, <2>1, <2>2 DEF StepSound, Nested, P, H
  <2> QED
    BY <2>3, <2>4, <2>5, <2>6, <2>7, <2>8
<1>6. \A i \in 1..6 : StepSound("sale", i)
  <2>1. /\ P("sale")[1] = "take" /\ P("sale")[2] = "give" /\ P("sale")[3] = "take"
        /\ P("sale")[4] = "commit" /\ P("sale")[5] = "give" /\ P("sale")[6] = "answer"
    BY <1>2
  <2>2. /\ H("sale")[1] = 0 /\ H("sale")[2] = 1 /\ H("sale")[3] = 0 /\ H("sale")[4] = 1
        /\ H("sale")[5] = 1 /\ H("sale")[6] = 0
    BY <1>2
  <2>3. 1..6 = {1, 2, 3, 4, 5, 6}
    OBVIOUS
  <2>4. StepSound("sale", 1)
    BY <1>3, <2>1, <2>2 DEF StepSound, Nested, P, H
  <2>5. StepSound("sale", 2)
    BY <1>3, <2>1, <2>2 DEF StepSound, Nested, P, H
  <2>6. StepSound("sale", 3)
    BY <1>3, <2>1, <2>2 DEF StepSound, Nested, P, H
  <2>7. StepSound("sale", 4)
    BY <1>3, <2>1, <2>2 DEF StepSound, Nested, P, H
  <2>8. StepSound("sale", 5)
    BY <1>3, <2>1, <2>2 DEF StepSound, Nested, P, H
  <2>9. StepSound("sale", 6)
    BY <1>3, <2>1, <2>2 DEF StepSound, Nested, P, H
  <2> QED
    BY <2>3, <2>4, <2>5, <2>6, <2>7, <2>8, <2>9
<1>7. \A i \in 1..5 : StepSound("sync", i)
  <2>1. /\ P("sync")[1] = "take" /\ P("sync")[2] = "take" /\ P("sync")[3] = "give"
        /\ P("sync")[4] = "answer" /\ P("sync")[5] = "give"
    BY <1>2
  <2>2. /\ H("sync")[1] = 0 /\ H("sync")[2] = 1 /\ H("sync")[3] = 2 /\ H("sync")[4] = 1
        /\ H("sync")[5] = 1
    BY <1>2
  <2>3. 1..5 = {1, 2, 3, 4, 5}
    OBVIOUS
  <2>4. StepSound("sync", 1)
    BY <1>3, <2>1, <2>2 DEF StepSound, Nested, P, H
  <2>5. StepSound("sync", 2)
    BY <1>3, <2>1, <2>2 DEF StepSound, Nested, P, H
  <2>6. StepSound("sync", 3)
    BY <1>3, <2>1, <2>2 DEF StepSound, Nested, P, H
  <2>7. StepSound("sync", 4)
    BY <1>3, <2>1, <2>2 DEF StepSound, Nested, P, H
  <2>8. StepSound("sync", 5)
    BY <1>3, <2>1, <2>2 DEF StepSound, Nested, P, H
  <2> QED
    BY <2>3, <2>4, <2>5, <2>6, <2>7, <2>8
<1>8. \A i \in 1..7 : StepSound("remote_cancel", i)
  <2>1. /\ P("remote_cancel")[1] = "take" /\ P("remote_cancel")[2] = "give"
        /\ P("remote_cancel")[3] = "take" /\ P("remote_cancel")[4] = "take"
        /\ P("remote_cancel")[5] = "give" /\ P("remote_cancel")[6] = "answer"
        /\ P("remote_cancel")[7] = "give"
    BY <1>2
  <2>2. /\ H("remote_cancel")[1] = 0 /\ H("remote_cancel")[2] = 1 /\ H("remote_cancel")[3] = 0
        /\ H("remote_cancel")[4] = 1 /\ H("remote_cancel")[5] = 2 /\ H("remote_cancel")[6] = 1
        /\ H("remote_cancel")[7] = 1
    BY <1>2
  <2>3. 1..7 = {1, 2, 3, 4, 5, 6, 7}
    OBVIOUS
  <2>4. StepSound("remote_cancel", 1)
    BY <1>3, <2>1, <2>2 DEF StepSound, Nested, P, H
  <2>5. StepSound("remote_cancel", 2)
    BY <1>3, <2>1, <2>2 DEF StepSound, Nested, P, H
  <2>6. StepSound("remote_cancel", 3)
    BY <1>3, <2>1, <2>2 DEF StepSound, Nested, P, H
  <2>7. StepSound("remote_cancel", 4)
    BY <1>3, <2>1, <2>2 DEF StepSound, Nested, P, H
  <2>8. StepSound("remote_cancel", 5)
    BY <1>3, <2>1, <2>2 DEF StepSound, Nested, P, H
  <2>9. StepSound("remote_cancel", 6)
    BY <1>3, <2>1, <2>2 DEF StepSound, Nested, P, H
  <2>10. StepSound("remote_cancel", 7)
    BY <1>3, <2>1, <2>2 DEF StepSound, Nested, P, H
  <2> QED
    BY <2>3, <2>4, <2>5, <2>6, <2>7, <2>8, <2>9, <2>10
<1>9. \A k \in Kinds : \A i \in 1..Len(P(k)) : StepSound(k, i)
  BY <1>3, <1>5, <1>6, <1>7, <1>8 DEF Kinds
<1> QED
  BY <1>1, <1>4, <1>9 DEF P, H

LEMMA OneElementMore ==
  ASSUME NEW S, IsFiniteSet(S), NEW x
  PROVE  IsFiniteSet(S \cup {x}) /\ Cardinality(S \cup {x}) <= Cardinality(S) + 1
<1>1. Cardinality(S) \in Nat
  BY FS_CardinalityType
<1>2. /\ IsFiniteSet(S \cup {x})
      /\ Cardinality(S \cup {x}) = IF x \in S THEN Cardinality(S) ELSE Cardinality(S) + 1
  BY FS_AddElement
<1>3. CASE x \in S
  BY <1>1, <1>2, <1>3
<1>4. CASE x \notin S
  BY <1>1, <1>2, <1>4
<1> QED
  BY <1>3, <1>4

LEMMA CallsAndTasks ==
  ASSUME AdmissionShape
  PROVE  /\ \A c \in Asking : IF fetching[c].at = "idle" THEN fetching[c] = Nobody ELSE fetching[c] \in FetchOf
         /\ \A t \in Serving : IF Busy(t) THEN serving[t] \in TaskOf ELSE serving[t] = NoTask
         /\ Len(requestQueue) \in Nat /\ requestQueue \in [1..Len(requestQueue) -> Asking]
<1>1. \A c \in Asking : IF fetching[c].at = "idle" THEN fetching[c] = Nobody ELSE fetching[c] \in FetchOf
  BY DEF AdmissionShape, FetchOf, Nobody
<1>2. \A t \in Serving : IF Busy(t) THEN serving[t] \in TaskOf ELSE serving[t] = NoTask
  BY DEF AdmissionShape, TaskOf, NoTask, Busy, Kinds
<1> QED
  BY <1>1, <1>2, LenProperties DEF AdmissionShape

\* A call that takes a slot, or waits for one at the end of the queue.
LEMMA SlotTaken ==
  ASSUME AdmissionShape, SlotsHeld, QueueWaits, NEW c \in Asking, fetching[c].at \in {"idle", "waiting"},
         NEW kind \in Kinds, NEW tries \in 0..maxRetries, acquireSlot(c, kind, tries), letIn' = letIn
  PROVE  /\ requestQueue' \in Seq(Asking) /\ fetching' \in [Asking -> FetchOf \cup {Nobody}]
         /\ SlotsHeld' /\ QueueWaits'
         /\ fetching'[c].kind = kind /\ fetching'[c].at \in {"sent", "queued"}
         /\ \A e \in Asking : e # c => fetching'[e] = fetching[e]
<1> USE DEF SlotsHeld
<1>1. Cardinality(Sent) \in Nat /\ letIn \in Nat /\ c \notin Sent /\ activeRequests \in Nat
  BY FS_CardinalityType DEF AdmissionShape, Sent
<1>2. MAX_CONCURRENT_REQUESTS \in Nat /\ Len(requestQueue) \in Nat
  BY AdmissionAssumption, CallsAndTasks
<1>3. CASE activeRequests < MAX_CONCURRENT_REQUESTS
  <2> DEFINE sent == [at |-> "sent", kind |-> kind, tries |-> tries]
  <2>1. /\ activeRequests' = activeRequests + 1 /\ requestQueue' = requestQueue
        /\ fetching' = [fetching EXCEPT ![c] = sent]
    BY <1>3 DEF acquireSlot
  <2>2. sent \in FetchOf /\ sent.at = "sent" /\ sent.kind = kind
    BY DEF FetchOf
  <2> HIDE DEF sent
  <2>3. fetching'[c] = sent /\ \A e \in Asking : e # c => fetching'[e] = fetching[e]
    BY <2>1 DEF AdmissionShape
  <2>4. Sent' = Sent \cup {c}
    BY <2>2, <2>3 DEF Sent
  <2>5. IsFiniteSet(Sent') /\ Cardinality(Sent') = Cardinality(Sent) + 1
    BY <1>1, <2>4, FS_AddElement
  <2>6. SlotsHeld'
    BY <1>1, <1>2, <1>3, <2>1, <2>5
  <2>7. QueueWaits'
    BY <2>1, <2>3, CallsAndTasks DEF QueueWaits
  <2> QED
    BY <2>1, <2>2, <2>3, <2>6, <2>7 DEF AdmissionShape
<1>4. CASE ~(activeRequests < MAX_CONCURRENT_REQUESTS)
  <2> DEFINE queued == [at |-> "queued", kind |-> kind, tries |-> tries]
  <2>1. /\ activeRequests' = activeRequests /\ requestQueue' = Append(requestQueue, c)
        /\ fetching' = [fetching EXCEPT ![c] = queued]
    BY <1>4 DEF acquireSlot
  <2>2. queued \in FetchOf /\ queued.at = "queued" /\ queued.kind = kind
    BY DEF FetchOf
  <2> HIDE DEF queued
  <2>3. fetching'[c] = queued /\ \A e \in Asking : e # c => fetching'[e] = fetching[e]
    BY <2>1 DEF AdmissionShape
  <2>4. Sent' = Sent
    BY <1>1, <2>2, <2>3 DEF Sent
  <2>5. SlotsHeld'
    BY <1>1, <1>2, <1>4, <2>1, <2>4
  <2>6. /\ requestQueue' \in Seq(Asking) /\ Len(requestQueue') = Len(requestQueue) + 1
        /\ \A i \in 1..Len(requestQueue) : requestQueue'[i] = requestQueue[i] /\ requestQueue[i] \in Asking
        /\ requestQueue'[Len(requestQueue) + 1] = c
    BY <2>1, AppendProperties, CallsAndTasks DEF AdmissionShape
  <2>7. \A i \in 1..Len(requestQueue) : requestQueue[i] # c
    BY DEF QueueWaits
  <2>8. QueueWaits'
    <3>1. \A i \in 1..Len(requestQueue') : i \in 1..Len(requestQueue) \/ i = Len(requestQueue) + 1
      BY <1>2, <2>6
    <3>2. \A i \in 1..Len(requestQueue) : requestQueue'[i] # c /\ fetching'[requestQueue'[i]].at = "queued"
      BY <2>3, <2>6, <2>7 DEF QueueWaits
    <3>3. fetching'[requestQueue'[Len(requestQueue) + 1]].at = "queued"
      BY <2>2, <2>3, <2>6
    <3>4. \A i \in 1..Len(requestQueue') : fetching'[requestQueue'[i]].at = "queued"
      BY <3>1, <3>2, <3>3
    <3>5. \A i, j \in 1..Len(requestQueue') : requestQueue'[i] = requestQueue'[j] => i = j
      <4> SUFFICES ASSUME NEW i \in 1..Len(requestQueue'), NEW j \in 1..Len(requestQueue'),
                          requestQueue'[i] = requestQueue'[j]
                   PROVE  i = j
        OBVIOUS
      <4>1. CASE i \in 1..Len(requestQueue) /\ j \in 1..Len(requestQueue)
        BY <4>1, <2>6 DEF QueueWaits
      <4>2. CASE i = Len(requestQueue) + 1 \/ j = Len(requestQueue) + 1
        BY <4>2, <3>1, <3>2, <2>6
      <4> QED
        BY <3>1, <4>1, <4>2
    <3> QED
      BY <3>4, <3>5 DEF QueueWaits
  <2> QED
    BY <2>1, <2>2, <2>3, <2>5, <2>6, <2>8 DEF AdmissionShape
<1> QED
  BY <1>3, <1>4

\* A call that ends or gives up: if others wait, the first of them is on its way.
LEMMA SlotGivenBack ==
  ASSUME AdmissionShape, SlotsHeld, QueueWaits, NEW c \in Asking, fetching[c].at = "sent",
         NEW after \in FetchOf \cup {Nobody}, after.at \in {"idle", "waiting"}, releaseSlot(c, after)
  PROVE  /\ requestQueue' \in Seq(Asking) /\ fetching' \in [Asking -> FetchOf \cup {Nobody}] /\ letIn' \in Nat
         /\ SlotsHeld' /\ QueueWaits'
         /\ fetching'[c] = after
         /\ \A e \in Asking : e # c =>
              \/ fetching'[e] = fetching[e]
              \/ fetching[e].at = "queued" /\ fetching'[e].at = "sent" /\ fetching'[e].kind = fetching[e].kind
<1> USE DEF SlotsHeld
<1>1. Cardinality(Sent) \in Nat /\ letIn \in Nat /\ c \in Sent /\ activeRequests \in Nat
  BY FS_CardinalityType DEF AdmissionShape, Sent
<1>2. MAX_CONCURRENT_REQUESTS \in Nat /\ Len(requestQueue) \in Nat
  BY AdmissionAssumption, CallsAndTasks
<1>3. IsFiniteSet(Sent \ {c}) /\ Cardinality(Sent \ {c}) = Cardinality(Sent) - 1
  BY <1>1, FS_RemoveElement
<1>4. CASE requestQueue = <<>>
  <2>1. /\ activeRequests' = activeRequests - 1 /\ requestQueue' = requestQueue /\ letIn' = letIn
        /\ fetching' = [fetching EXCEPT ![c] = after]
    BY <1>4 DEF releaseSlot, counted
  <2>2. fetching'[c] = after /\ \A e \in Asking : e # c => fetching'[e] = fetching[e]
    BY <2>1 DEF AdmissionShape
  <2>3. Sent' = Sent \ {c}
    BY <2>2 DEF Sent
  <2>4. SlotsHeld'
    BY <1>1, <1>2, <1>3, <1>4, <2>1, <2>3
  <2>5. Len(requestQueue') = 0
    BY <1>4, <2>1, EmptySeq
  <2>6. QueueWaits'
    BY <2>5 DEF QueueWaits
  <2> QED
    BY <2>1, <2>2, <2>4, <2>6 DEF AdmissionShape
<1>5. CASE requestQueue # <<>>
  <2> DEFINE h == Head(requestQueue)
             let_in == [fetching[h] EXCEPT !.at = "sent"]
  <2>1. /\ h \in Asking /\ h = requestQueue[1] /\ Len(requestQueue) >= 1
        /\ Tail(requestQueue) \in Seq(Asking) /\ Len(Tail(requestQueue)) = Len(requestQueue) - 1
        /\ \A i \in 1..Len(Tail(requestQueue)) : Tail(requestQueue)[i] = requestQueue[i + 1]
    BY <1>2, <1>5, HeadTailProperties, CallsAndTasks, EmptySeq DEF AdmissionShape
  <2>2. fetching[h].at = "queued" /\ fetching[h] \in FetchOf /\ h # c
    <3>1. 1 \in 1..Len(requestQueue)
      BY <1>2, <2>1
    <3>2. fetching[h].at = "queued"
      BY <2>1, <3>1 DEF QueueWaits
    <3> QED
      BY <2>1, <3>2, CallsAndTasks
  <2>3. let_in \in FetchOf /\ let_in.at = "sent" /\ let_in.kind = fetching[h].kind
    BY <2>2 DEF FetchOf
  <2>4. /\ activeRequests' = activeRequests + 1 /\ requestQueue' = Tail(requestQueue) /\ letIn' = letIn + 1
        /\ fetching' = [fetching EXCEPT ![c] = after, ![h] = let_in]
    BY <1>5, <2>1, <2>2 DEF releaseSlot, counted, AdmissionShape
  <2> HIDE DEF let_in, h
  <2>5. /\ fetching'[c] = after /\ fetching'[h] = let_in
        /\ \A e \in Asking : e # c /\ e # h => fetching'[e] = fetching[e]
    BY <2>1, <2>2, <2>4 DEF AdmissionShape
  <2>6. Sent' = (Sent \ {c}) \cup {h} /\ h \notin Sent
    BY <2>1, <2>2, <2>3, <2>5 DEF Sent
  <2>7. IsFiniteSet(Sent') /\ Cardinality(Sent') = Cardinality(Sent)
    <3>1. h \notin Sent \ {c}
      BY <2>6
    <3>2. /\ IsFiniteSet((Sent \ {c}) \cup {h})
          /\ Cardinality((Sent \ {c}) \cup {h}) = Cardinality(Sent \ {c}) + 1
      BY <1>3, <3>1, FS_AddElement
    <3> QED
      BY <1>1, <1>3, <2>6, <3>2
  <2>8. SlotsHeld'
    BY <1>1, <1>2, <1>5, <2>4, <2>7
  <2>9. QueueWaits'
    <3> DEFINE n == Len(requestQueue)
    <3>1. /\ Len(requestQueue') = n - 1 /\ n \in Nat
          /\ \A i \in 1..(n - 1) : requestQueue'[i] = requestQueue[i + 1] /\ i + 1 \in 1..n
      BY <1>2, <2>1, <2>4
    <3>2. \A i \in 1..n : requestQueue[i] # c /\ requestQueue[i] \in Asking
      BY CallsAndTasks DEF QueueWaits
    <3>3. \A i \in 1..(n - 1) : requestQueue[i + 1] # h
      <4>1. 1 \in 1..n
        BY <1>2, <2>1
      <4> QED
        BY <2>1, <3>1, <4>1 DEF QueueWaits
    <3>4. \A i \in 1..(n - 1) : fetching'[requestQueue'[i]].at = "queued"
      BY <2>5, <3>1, <3>2, <3>3 DEF QueueWaits
    <3>5. \A i, j \in 1..(n - 1) : requestQueue'[i] = requestQueue'[j] => i = j
      BY SMTT(30), <3>1 DEF QueueWaits
    <3> QED
      BY <3>1, <3>4, <3>5 DEF QueueWaits
  <2> QED
    BY <1>1, <2>1, <2>2, <2>3, <2>4, <2>5, <2>8, <2>9 DEF AdmissionShape
<1> QED
  BY <1>4, <1>5

\* A handler that no call's change concerns stands as it stood.
LEMMA HandlersUndisturbed ==
  ASSUME AdmissionShape, HandlersStand, serving' = serving,
         \A e \in Asking : fetching[e].at = "sent" => fetching'[e].at = "sent" /\ fetching'[e].kind = fetching[e].kind
  PROVE  HandlersStand'
<1>1. \A t \in Serving : Busy(t) => serving[t].by \subseteq Asking
  BY CallsAndTasks DEF TaskOf
<1> QED
  BY <1>1 DEF HandlersStand, Busy

\* The call that takes a slot is the ticket's, or it is no ticket's.
LEMMA AskingKeeps ==
  ASSUME AdmissionInv, NEW c \in Asking, fetching[c].at \in {"idle", "waiting"},
         NEW kind \in Kinds, NEW tries \in 0..maxRetries, acquireSlot(c, kind, tries),
         UNCHANGED <<serving, letIn>>,
         \/ kind # "sale" /\ UNCHANGED <<charging, ticks>>
         \/ /\ kind = "sale" /\ ~charging /\ charging' = TRUE /\ ticks' \in TicksOf
            /\ UNCHANGED <<ticks.shown, ticks.sold, ticks.given_up>>
  PROVE  AdmissionInv'
<1> USE DEF AdmissionInv
<1>1. /\ requestQueue' \in Seq(Asking) /\ fetching' \in [Asking -> FetchOf \cup {Nobody}]
      /\ SlotsHeld' /\ QueueWaits'
      /\ fetching'[c].kind = kind /\ fetching'[c].at \in {"sent", "queued"}
      /\ \A e \in Asking : e # c => fetching'[e] = fetching[e]
  BY SlotTaken
<1>2. AdmissionShape'
  BY <1>1 DEF AdmissionShape
<1>3. HandlersStand'
  BY <1>1, HandlersUndisturbed
<1>4. PoolFits'
  BY DEF PoolFits, Connections, Held, Busy
<1>5. OneTicket'
  BY <1>1 DEF OneTicket
<1>6. SalesCounted'
  BY DEF SalesCounted, Unheard, Owed, Settled, Busy
<1> QED
  BY <1>1, <1>2, <1>3, <1>4, <1>5, <1>6

LEMMA AdmissionStart == AdmissionInit => AdmissionInv
<1> SUFFICES ASSUME AdmissionInit PROVE AdmissionInv
  OBVIOUS
<1> USE DEF AdmissionInit
<1>1. /\ \A c \in Asking : fetching[c].at = "idle"
      /\ \A t \in Serving : ~Busy(t)
  BY DEF Nobody, NoTask, Busy
<1>2. Sent = {} /\ Connections = {} /\ Unheard = {} /\ Settled = {}
  BY <1>1 DEF Sent, Connections, Held, Unheard, Settled
<1>3. Len(requestQueue) = 0
  BY EmptySeq
<1>4. AdmissionShape
  BY EmptySeq DEF AdmissionShape, TicksOf
<1>5. SlotsHeld /\ PoolFits /\ SalesCounted
  <2>1. SlotsHeld /\ PoolFits
    BY <1>2, FS_EmptySet, AdmissionAssumption DEF SlotsHeld, PoolFits
  <2>2. SalesCounted
    BY <1>1, <1>2, FS_EmptySet DEF SalesCounted, Owed
  <2> QED
    BY <2>1, <2>2
<1>6. QueueWaits /\ HandlersStand /\ OneTicket
  BY <1>1, <1>3 DEF QueueWaits, HandlersStand, OneTicket
<1> QED
  BY <1>4, <1>5, <1>6 DEF AdmissionInv

\* What a handler holds when it has gone on.
HeldAfter(t) == IF LastStep(t) THEN 0 ELSE HeldAt[serving[t].kind][serving[t].pc + 1]

LEMMA HandlerAt ==
  ASSUME AdmissionShape, HandlersStand, NEW t \in Serving, Busy(t)
  PROVE  /\ serving[t] \in TaskOf /\ serving[t].pc \in Nat /\ serving[t].pc \in 1..Len(Program[serving[t].kind])
         /\ StepSound(serving[t].kind, serving[t].pc)
         /\ serving[t].has = HeldAt[serving[t].kind][serving[t].pc]
         /\ Len(Program[serving[t].kind]) \in Nat
         /\ ~LastStep(t) => serving[t].pc + 1 \in 1..Len(Program[serving[t].kind])
<1>1. serving[t] \in TaskOf
  BY CallsAndTasks
<1>2. serving[t].kind \in Kinds /\ serving[t].pc \in Nat
  BY <1>1 DEF TaskOf
<1>3. serving[t].pc \in 1..Len(Program[serving[t].kind]) /\ Len(Program[serving[t].kind]) \in Nat
  BY <1>2, Programs DEF HandlersStand
<1> QED
  BY <1>1, <1>2, <1>3, Programs DEF HandlersStand, LastStep

LEMMA HandlerGoesOn ==
  ASSUME AdmissionShape, HandlersStand, NEW t \in Serving, Busy(t),
         NEW more \in {-1, 0, 1}, HeldAfter(t) = serving[t].has + more \/ LastStep(t),
         NEW by \in {serving[t].by, {}}, GoesOn(t, more, by)
  PROVE  /\ serving' \in [Serving -> TaskOf \cup {NoTask}]
         /\ \A u \in Serving : u # t => serving'[u] = serving[u]
         /\ LastStep(t) => serving'[t] = NoTask
         /\ ~LastStep(t) =>
              /\ serving'[t] \in TaskOf /\ serving'[t].kind = serving[t].kind /\ serving'[t].ok = serving[t].ok
              /\ serving'[t].pc = serving[t].pc + 1 /\ serving'[t].by = by
              /\ serving'[t].has = HeldAfter(t)
<1>1. serving[t] \in TaskOf /\ serving[t].pc \in Nat
  BY HandlerAt
<1> DEFINE next == [serving[t] EXCEPT !.pc = serving[t].pc + 1, !.has = serving[t].has + more, !.by = by]
<1>2. /\ next \in TaskOf /\ next.kind = serving[t].kind /\ next.ok = serving[t].ok
      /\ next.pc = serving[t].pc + 1 /\ next.by = by /\ next.has = serving[t].has + more
  <2>1. by \in SUBSET Asking /\ more \in Int /\ serving[t].has \in Int
    BY <1>1 DEF TaskOf
  <2>2. by \in SUBSET Asking /\ serving[t].pc + 1 \in Nat /\ serving[t].has + more \in Int
    BY <1>1, <2>1
  <2> QED
    BY <1>1, <2>2 DEF TaskOf
<1>3. serving' = [serving EXCEPT ![t] = IF LastStep(t) THEN NoTask ELSE next]
  BY DEF GoesOn
<1> HIDE DEF next
<1>4. /\ serving'[t] = (IF LastStep(t) THEN NoTask ELSE next)
      /\ \A u \in Serving : u # t => serving'[u] = serving[u]
  BY <1>3 DEF AdmissionShape
<1>5. serving' \in [Serving -> TaskOf \cup {NoTask}]
  BY <1>2, <1>3 DEF AdmissionShape
<1> QED
  BY <1>2, <1>4, <1>5

\* The handlers stand on when one goes on, and the call it answers is the only one
\* that ends.
LEMMA HandlersStandOn ==
  ASSUME AdmissionShape, HandlersStand, NEW t \in Serving, Busy(t),
         \A u \in Serving : u # t => serving'[u] = serving[u],
         \/ ~Busy(t)'
         \/ /\ serving'[t] \in TaskOf /\ serving'[t].kind = serving[t].kind /\ ~LastStep(t)
            /\ serving'[t].pc = serving[t].pc + 1
            /\ serving'[t].has = HeldAt[serving[t].kind][serving[t].pc + 1]
            /\ serving'[t].by \in {serving[t].by, {}},
         \A e \in Asking : fetching[e].at = "sent" /\ e \notin serving[t].by =>
            fetching'[e].at = "sent" /\ fetching'[e].kind = fetching[e].kind,
         Busy(t)' /\ serving'[t].by # {} => fetching' = fetching
  PROVE  HandlersStand'
<1>1. \A u \in Serving : Busy(u) => serving[u].by \subseteq Asking
  BY CallsAndTasks DEF TaskOf
<1>2. ASSUME NEW u \in Serving, u # t, Busy(u)
      PROVE  Busy(u)' /\ serving'[u] = serving[u] /\ \A e \in serving[u].by : e \notin serving[t].by
  <2>1. ASSUME NEW e \in serving[u].by, e \in serving[t].by PROVE FALSE
    <3>1. serving[u].by = {e} /\ serving[t].by = {e}
      BY <1>2, <2>1 DEF HandlersStand
    <3> QED
      BY <1>2, <3>1 DEF HandlersStand
  <2> QED
    BY <1>2, <2>1 DEF Busy
<1>3. ASSUME NEW u \in Serving, Busy(u)'
      PROVE  /\ serving'[u].pc \in 1..Len(Program[serving'[u].kind])
             /\ serving'[u].has = HeldAt[serving'[u].kind][serving'[u].pc]
             /\ \A c \in serving'[u].by :
                  serving'[u].by = {c} /\ fetching'[c].at = "sent" /\ fetching'[c].kind = serving'[u].kind
  <2>1. CASE u # t
    BY <1>1, <1>2, <1>3, <2>1 DEF HandlersStand, Busy
  <2>2. CASE u = t
    BY <1>3, <2>2, HandlerAt DEF HandlersStand, Busy
  <2> QED
    BY <2>1, <2>2
<1>4. ASSUME NEW u \in Serving, NEW v \in Serving, Busy(u)', Busy(v)',
             serving'[u].by = serving'[v].by, serving'[u].by # {}
      PROVE  u = v
  BY <1>4 DEF HandlersStand, Busy
<1> QED
  BY <1>3, <1>4 DEF HandlersStand, Busy

\* Connections are taken one at a time, when one is left, and given back.
LEMMA FewerHeld ==
  ASSUME PoolFits, \A u \in Serving : Held(u)' \in 0..2 /\ Held(u) \in 0..2 /\ Held(u)' <= Held(u)
  PROVE  PoolFits'
<1>1. Connections' \subseteq Connections
  BY DEF Connections
<1>2. /\ IsFiniteSet(Connections') /\ Cardinality(Connections') <= Cardinality(Connections)
  BY <1>1, FS_Subset DEF PoolFits
<1>3. Cardinality(Connections') \in Nat /\ Cardinality(Connections) \in Nat /\ max_size \in Nat
  BY <1>2, FS_CardinalityType, AdmissionAssumption DEF PoolFits
<1> QED
  BY <1>2, <1>3 DEF PoolFits

LEMMA OneMoreHeld ==
  ASSUME PoolFits, Idle > 0, NEW t \in Serving, Held(t)' = Held(t) + 1,
         \A u \in Serving : Held(u)' \in 0..2 /\ Held(u) \in 0..2 /\ (u # t => Held(u)' = Held(u))
  PROVE  PoolFits'
<1> DEFINE n == Held(t) + 1
<1>1. n \in {1, 2} /\ n \in Nat
  OBVIOUS
<1>2. Connections' = Connections \cup {<<t, n>>}
  <2>1. ASSUME NEW u \in Serving, NEW k \in {1, 2}
        PROVE  k <= Held(u)' <=> (k <= Held(u) \/ <<u, k>> = <<t, n>>)
    BY <1>1
  <2> QED
    BY <1>1, <2>1 DEF Connections
<1>3. /\ IsFiniteSet(Connections')
      /\ Cardinality(Connections') <= Cardinality(Connections) + 1
  <2> HIDE DEF n
  <2>1. IsFiniteSet(Connections) /\ Cardinality(Connections) \in Nat
    BY FS_CardinalityType DEF PoolFits
  <2>2. Cardinality(Connections \cup {<<t, n>>}) = IF <<t, n>> \in Connections THEN Cardinality(Connections) ELSE Cardinality(Connections) + 1
    BY <2>1, FS_AddElement
  <2>3. IsFiniteSet(Connections \cup {<<t, n>>})
    BY <2>1, FS_AddElement
  <2> QED
    BY <1>2, <2>1, <2>2, <2>3
<1>4. Cardinality(Connections') \in Nat /\ Cardinality(Connections) \in Nat /\ max_size \in Nat
  BY <1>3, FS_CardinalityType, AdmissionAssumption DEF PoolFits
<1> QED
  BY <1>3, <1>4 DEF PoolFits, Idle

LEMMA HeldOf ==
  ASSUME AdmissionShape, HandlersStand
  PROVE  \A u \in Serving : Held(u) \in 0..2 /\ Held(u) = IF Busy(u) THEN HeldAt[serving[u].kind][serving[u].pc] ELSE 0
BY HandlerAt DEF Held, StepSound, HandlersStand

LEMMA HeldAfterOf ==
  ASSUME AdmissionShape, HandlersStand, NEW t \in Serving, Busy(t)
  PROVE  HeldAfter(t) \in 0..2
<1>1. serving[t].kind \in Kinds
  BY CallsAndTasks DEF TaskOf
<1>2. ~LastStep(t) => StepSound(serving[t].kind, serving[t].pc + 1)
  BY <1>1, HandlerAt, Programs
<1> QED
  BY <1>2 DEF HeldAfter, StepSound

\* A handler that serves the ticket: there is one, for the one ticket.
LEMMA TicketsHandler ==
  ASSUME AdmissionInv, NEW t \in Serving, Busy(t), serving[t].kind = "sale", serving[t].by # {}
  PROVE  charging /\ \A u \in Serving : Busy(u) /\ serving[u].kind = "sale" /\ serving[u].by # {} => u = t
<1> USE DEF AdmissionInv
<1>1. \A u \in Serving : Busy(u) => serving[u].by \subseteq Asking
  BY CallsAndTasks DEF TaskOf
<1>2. PICK c \in serving[t].by : serving[t].by = {c} /\ fetching[c].at = "sent" /\ fetching[c].kind = "sale"
  BY DEF HandlersStand
<1>3. c \in Asking /\ charging
  BY <1>1, <1>2 DEF OneTicket
<1>4. ASSUME NEW u \in Serving, Busy(u), serving[u].kind = "sale", serving[u].by # {} PROVE u = t
  <2>1. PICK e \in serving[u].by : serving[u].by = {e} /\ fetching[e].at = "sent" /\ fetching[e].kind = "sale"
    BY <1>4 DEF HandlersStand
  <2>2. e = c
    BY <1>1, <1>2, <1>3, <1>4, <2>1 DEF OneTicket
  <2> QED
    BY <1>2, <1>4, <2>1, <2>2 DEF HandlersStand
<1> QED
  BY <1>3, <1>4

LEMMA HandlerArrives ==
  ASSUME AdmissionInv, NEW c \in Asking, NEW t \in Serving, Arrives(c, t)
  PROVE  AdmissionInv'
<1> USE DEF AdmissionInv
<1> DEFINE arrived == [kind |-> fetching[c].kind, pc |-> 1, by |-> {c}, ok |-> TRUE, has |-> 0]
<1>1. fetching[c].at = "sent" /\ fetching[c].kind \in Kinds /\ ~Busy(t)
  BY CallsAndTasks DEF Arrives, FetchOf
<1>2. /\ arrived \in TaskOf /\ arrived.kind = fetching[c].kind /\ arrived.pc = 1 /\ arrived.by = {c} /\ arrived.ok /\ arrived.has = 0
      /\ arrived.kind # "none"
  BY <1>1 DEF TaskOf, Kinds
<1>3. /\ serving' = [serving EXCEPT ![t] = arrived]
      /\ UNCHANGED <<activeRequests, requestQueue, fetching, letIn, charging, ticks>>
      /\ \A u \in Serving : Busy(u) => serving[u].by # {c}
  BY DEF Arrives
<1> HIDE DEF arrived
<1>4. serving'[t] = arrived /\ \A u \in Serving : u # t => serving'[u] = serving[u]
  BY <1>3 DEF AdmissionShape
<1>5. AdmissionShape'
  BY <1>2, <1>3 DEF AdmissionShape
<1>6. SlotsHeld' /\ QueueWaits' /\ OneTicket'
  BY <1>3 DEF SlotsHeld, QueueWaits, OneTicket, Sent
<1>7. HandlersStand'
  <2>1. 1 \in 1..Len(Program[arrived.kind]) /\ arrived.has = HeldAt[arrived.kind][1]
    BY <1>1, <1>2, Programs
  <2> QED
    BY <1>1, <1>2, <1>3, <1>4, <2>1 DEF HandlersStand, Busy
<1>8. \A u \in Serving : Held(u)' = Held(u)
  BY <1>1, <1>2, <1>4 DEF Held, Busy
<1>9. PoolFits'
  BY <1>8, HeldOf, FewerHeld
<1>10. SalesCounted'
  <2>1. Unheard' = Unheard /\ Settled' = Settled
    BY <1>1, <1>2, <1>4 DEF Unheard, Settled, Busy
  <2> QED
    BY <1>2, <1>3, <1>4, <2>1 DEF SalesCounted, Owed, Busy
<1> QED
  BY <1>5, <1>6, <1>7, <1>9, <1>10

\* A handler takes a connection or gives one back.
LEMMA HandlerMoves ==
  ASSUME AdmissionInv, NEW t \in Serving, Takes(t) \/ Gives(t)
  PROVE  AdmissionInv'
<1> USE DEF AdmissionInv
<1> DEFINE more == IF Does(t, "take") THEN 1 ELSE -1
<1>1. Busy(t) /\ Program[serving[t].kind][serving[t].pc] = (IF more = 1 THEN "take" ELSE "give")
  BY DEF Takes, Gives, Does
<1>2. GoesOn(t, more, serving[t].by) /\ UNCHANGED <<activeRequests, requestQueue, fetching, letIn, charging, ticks>>
  BY DEF Takes, Gives, Does
<1>3. more = 1 => Idle > 0
  BY <1>1 DEF Takes, Gives, Does
<1>4. more \in {-1, 1}
  OBVIOUS
<1> HIDE DEF more
<1>5. /\ StepSound(serving[t].kind, serving[t].pc) /\ serving[t].has = HeldAt[serving[t].kind][serving[t].pc]
      /\ serving[t] \in TaskOf /\ serving[t].pc \in Nat
  BY <1>1, HandlerAt
<1>6. /\ more = 1 => ~LastStep(t)
      /\ HeldAfter(t) = serving[t].has + more
      /\ serving[t].kind = "sale" => serving[t].pc # 4 /\ ~LastStep(t)
  <2>1. CASE more = 1
    BY <1>1, <1>5, <2>1 DEF StepSound, HeldAfter, LastStep
  <2>2. CASE more = -1
    BY <1>1, <1>5, <2>2 DEF StepSound, HeldAfter, LastStep
  <2> QED
    BY <1>4, <2>1, <2>2
<1>7. /\ serving' \in [Serving -> TaskOf \cup {NoTask}]
      /\ \A u \in Serving : u # t => serving'[u] = serving[u]
      /\ LastStep(t) => serving'[t] = NoTask
      /\ ~LastStep(t) =>
           /\ serving'[t] \in TaskOf /\ serving'[t].kind = serving[t].kind /\ serving'[t].ok = serving[t].ok
           /\ serving'[t].pc = serving[t].pc + 1 /\ serving'[t].by = serving[t].by
           /\ serving'[t].has = HeldAfter(t)
  BY <1>1, <1>2, <1>4, <1>6, HandlerGoesOn
<1>8. AdmissionShape'
  BY <1>2, <1>7 DEF AdmissionShape
<1>9. SlotsHeld' /\ QueueWaits' /\ OneTicket'
  BY <1>2 DEF SlotsHeld, QueueWaits, OneTicket, Sent
<1>10. Busy(t)' <=> ~LastStep(t)
  BY <1>1, <1>7 DEF Busy, NoTask
<1>11. HandlersStand'
  BY <1>1, <1>2, <1>7, <1>10, HandlersStandOn DEF HeldAfter
<1>12. /\ \A u \in Serving : u # t => Held(u)' = Held(u)
       /\ Held(t)' = Held(t) + more
  <2>1. Held(t) = serving[t].has
    BY <1>1 DEF Held
  <2>2. Held(t)' = HeldAfter(t)
    BY <1>7, <1>10 DEF Held, HeldAfter
  <2> QED
    BY <1>6, <1>7, <2>1, <2>2 DEF Held, Busy
<1>13. PoolFits'
  <2>1. \A u \in Serving : Held(u)' \in 0..2 /\ Held(u) \in 0..2
    <3>1. \A u \in Serving : Held(u) \in 0..2
      BY HeldOf
    <3>2. HeldAfter(t) \in 0..2
      BY <1>1, HeldAfterOf
    <3>3. Held(t)' = HeldAfter(t)
      BY <1>7, <1>10 DEF Held, HeldAfter
    <3> QED
      BY <1>12, <3>1, <3>2, <3>3
  <2>2. CASE more = 1
    BY <1>3, <1>12, <2>1, <2>2, OneMoreHeld
  <2>3. CASE more = -1
    BY <1>12, <2>1, <2>3, FewerHeld
  <2> QED
    BY <1>4, <2>2, <2>3
<1>14. SalesCounted'
  <2>1. ASSUME serving[t].kind = "sale"
        PROVE  /\ ~LastStep(t) /\ Busy(t)'
               /\ serving[t].pc <= 4 <=> serving'[t].pc <= 4
               /\ serving[t].pc > 4 <=> serving'[t].pc > 4
    BY <1>5, <1>6, <1>7, <1>10, <2>1
  <2>2. Unheard' = Unheard
    BY <1>1, <1>7, <1>10, <2>1 DEF Unheard, Busy
  <2>3. Settled' = Settled
    BY <1>1, <1>7, <1>10, <2>1 DEF Settled, Busy
  <2>4. \A u \in Serving : Busy(u)' /\ serving'[u].kind = "sale" /\ serving'[u].pc <= 4 => serving'[u].ok
    BY <1>1, <1>7, <1>10, <2>1 DEF SalesCounted, Busy
  <2> QED
    BY <1>2, <2>2, <2>3, <2>4 DEF SalesCounted, Owed
<1> QED
  BY <1>8, <1>9, <1>11, <1>13, <1>14

\* A sale is made or refused, heard by the till or not.
LEMMA SaleCommits ==
  ASSUME AdmissionInv, NEW t \in Serving, Commits(t)
  PROVE  AdmissionInv'
<1> USE DEF AdmissionInv
<1>1. Busy(t) /\ Program[serving[t].kind][serving[t].pc] = "commit"
  BY DEF Commits, Does
<1>2. UNCHANGED <<activeRequests, requestQueue, fetching, letIn, charging>>
  BY DEF Commits
<1>3. /\ StepSound(serving[t].kind, serving[t].pc) /\ serving[t].has = HeldAt[serving[t].kind][serving[t].pc]
      /\ serving[t] \in TaskOf /\ serving[t].pc \in Nat
  BY <1>1, HandlerAt
<1>4. serving[t].kind = "sale" /\ serving[t].pc = 4 /\ ~LastStep(t) /\ HeldAfter(t) = serving[t].has
  BY <1>1, <1>3 DEF StepSound, HeldAfter, LastStep
<1>5. serving[t].ok
  BY <1>1, <1>4 DEF SalesCounted
<1> DEFINE refused == [serving[t] EXCEPT !.pc = serving[t].pc + 1, !.ok = FALSE]
<1>6. /\ refused \in TaskOf /\ refused.kind = "sale" /\ refused.ok = FALSE /\ refused.pc = 5
      /\ refused.by = serving[t].by /\ refused.has = serving[t].has
  <2>1. serving[t].pc + 1 = 5 /\ serving[t].pc + 1 \in Nat
    BY <1>4
  <2> QED
    BY <1>3, <1>4, <2>1 DEF TaskOf
<1>7. \/ GoesOn(t, 0, serving[t].by) /\ ticks' = [ticks EXCEPT !.sold = @ + 1]
      \/ serving' = [serving EXCEPT ![t] = refused] /\ ticks' = ticks
  BY DEF Commits
<1> HIDE DEF refused
<1>8. PICK made \in BOOLEAN :
        /\ made => GoesOn(t, 0, serving[t].by) /\ ticks' = [ticks EXCEPT !.sold = @ + 1]
        /\ ~made => serving' = [serving EXCEPT ![t] = refused] /\ ticks' = ticks
  <2>1. CASE GoesOn(t, 0, serving[t].by) /\ ticks' = [ticks EXCEPT !.sold = @ + 1]
    BY <2>1
  <2>2. CASE serving' = [serving EXCEPT ![t] = refused] /\ ticks' = ticks
    BY <2>2
  <2> QED
    BY <1>7, <2>1, <2>2
<1>9. /\ serving' \in [Serving -> TaskOf \cup {NoTask}]
      /\ \A u \in Serving : u # t => serving'[u] = serving[u]
      /\ serving'[t] \in TaskOf /\ serving'[t].kind = "sale" /\ serving'[t].ok = made
      /\ serving'[t].pc = 5 /\ serving'[t].by = serving[t].by /\ serving'[t].has = HeldAfter(t)
  <2>1. CASE made
    <3>1. serving[t].pc + 1 = 5
      BY <1>4
    <3>2. HeldAfter(t) = serving[t].has + 0
      BY <1>3, <1>4 DEF TaskOf
    <3> QED
      BY <1>1, <1>4, <1>5, <1>8, <2>1, <3>1, <3>2, HandlerGoesOn
  <2>2. CASE ~made
    BY <1>4, <1>8, <1>6, <2>2 DEF AdmissionShape
  <2> QED
    BY <2>1, <2>2
<1>10. /\ ticks' \in TicksOf /\ ticks'.shown = ticks.shown /\ ticks'.given_up = ticks.given_up
      /\ ticks'.sold = (IF made THEN ticks.sold + 1 ELSE ticks.sold)
  BY <1>8 DEF AdmissionShape, TicksOf
<1>11. AdmissionShape'
  BY <1>2, <1>9, <1>10 DEF AdmissionShape
<1>12. SlotsHeld' /\ QueueWaits' /\ OneTicket'
  BY <1>2 DEF SlotsHeld, QueueWaits, OneTicket, Sent
<1>13. Busy(t)'
  BY <1>9 DEF Busy
<1>14. HandlersStand'
  BY <1>1, <1>2, <1>4, <1>9, <1>13, HandlersStandOn DEF HeldAfter
<1>15. PoolFits'
  <2>1. \A u \in Serving : Held(u)' = Held(u)
    BY <1>1, <1>4, <1>9, <1>13 DEF Held, Busy
  <2> QED
    BY <2>1, HeldOf, FewerHeld
<1>16. SalesCounted'
  <2>1. \A u \in Serving : Busy(u)' /\ serving'[u].kind = "sale" /\ serving'[u].pc <= 4 => serving'[u].ok
    BY <1>9 DEF SalesCounted, Busy
  <2>2. ticks.shown \in Nat /\ ticks.sold \in Nat /\ ticks.given_up \in Nat /\ Owed \in 0..1
    BY DEF AdmissionShape, TicksOf, Owed
  <2>3. Unheard' = Unheard \ {t}
    BY <1>9 DEF Unheard, Busy
  <2>4. IsFiniteSet(Unheard') /\ Cardinality(Unheard') = IF t \in Unheard THEN Cardinality(Unheard) - 1 ELSE Cardinality(Unheard)
    BY <2>3, FS_RemoveElement DEF SalesCounted
  <2>5. Cardinality(Unheard) \in Nat /\ Cardinality(Unheard') \in Nat
    BY <2>4, FS_CardinalityType DEF SalesCounted
  <2>6. CASE serving[t].by = {}
    <3>1. t \in Unheard
      BY <1>1, <1>4, <2>6 DEF Unheard
    <3>2. Settled' = Settled
      BY <1>4, <1>9, <2>6 DEF Settled, Busy
    <3>3. Owed' = Owed
      BY <3>2 DEF Owed
    <3> QED
      BY <1>10, <2>1, <2>2, <2>4, <2>5, <3>1, <3>3 DEF SalesCounted
  <2>7. CASE serving[t].by # {}
    <3>1. t \notin Unheard /\ Settled = {}
      BY <1>1, <1>4, <2>7, TicketsHandler DEF Unheard, Settled
    <3>2. Settled' = IF made THEN {t} ELSE {}
      BY <1>9, <1>13, <2>7, <3>1 DEF Settled, Busy
    <3>3. Owed = 0 /\ Owed' = IF made THEN 1 ELSE 0
      BY <3>1, <3>2 DEF Owed
    <3> QED
      BY <1>10, <2>1, <2>2, <2>4, <2>5, <3>1, <3>3 DEF SalesCounted
  <2> QED
    BY <2>6, <2>7
<1> QED
  BY <1>11, <1>12, <1>14, <1>15, <1>16

\* An answer that somebody hears ends the call; a sale that was made is shown.
LEMMA HandlerAnswers ==
  ASSUME AdmissionInv, NEW t \in Serving, Answers(t)
  PROVE  AdmissionInv'
<1> USE DEF AdmissionInv
<1>1. Busy(t) /\ Program[serving[t].kind][serving[t].pc] = "answer" /\ GoesOn(t, 0, {})
  BY DEF Answers, Does
<1>2. /\ StepSound(serving[t].kind, serving[t].pc) /\ serving[t].has = HeldAt[serving[t].kind][serving[t].pc]
      /\ serving[t] \in TaskOf /\ serving[t].pc \in Nat
  BY <1>1, HandlerAt
<1>3. /\ HeldAfter(t) = serving[t].has /\ HeldAfter(t) = serving[t].has + 0
      /\ serving[t].kind = "sale" => serving[t].pc = 6 /\ LastStep(t)
  BY <1>1, <1>2 DEF StepSound, HeldAfter, LastStep, TaskOf
<1>4. /\ serving' \in [Serving -> TaskOf \cup {NoTask}]
      /\ \A u \in Serving : u # t => serving'[u] = serving[u]
      /\ LastStep(t) => serving'[t] = NoTask
      /\ ~LastStep(t) =>
           /\ serving'[t] \in TaskOf /\ serving'[t].kind = serving[t].kind /\ serving'[t].ok = serving[t].ok
           /\ serving'[t].pc = serving[t].pc + 1 /\ serving'[t].by = {}
           /\ serving'[t].has = HeldAfter(t)
  BY <1>1, <1>3, HandlerGoesOn
<1>5. Busy(t)' <=> ~LastStep(t)
  BY <1>1, <1>4 DEF Busy, NoTask
<1>6. PoolFits'
  <2>1. \A u \in Serving : Held(u)' = Held(u)
    <3>1. Held(t)' = HeldAfter(t) /\ Held(t) = serving[t].has
      BY <1>1, <1>4, <1>5 DEF Held, HeldAfter
    <3> QED
      BY <1>3, <1>4, <3>1 DEF Held, Busy
  <2> QED
    BY <2>1, HeldOf, FewerHeld
<1>7. Unheard' = Unheard
  BY <1>1, <1>3, <1>4, <1>5 DEF Unheard, Busy
<1>8. Settled' = Settled \ {t}
  BY <1>1, <1>3, <1>4, <1>5 DEF Settled, Busy
<1>9. \A u \in Serving : Busy(u)' /\ serving'[u].kind = "sale" /\ serving'[u].pc <= 4 => serving'[u].ok
  BY <1>1, <1>3, <1>4, <1>5 DEF SalesCounted, Busy
<1>10. ticks.shown \in Nat /\ ticks.sold \in Nat /\ ticks.given_up \in Nat /\ Cardinality(Unheard) \in Nat
  BY FS_CardinalityType DEF AdmissionShape, TicksOf, SalesCounted
<1>11. CASE serving[t].by = {}
  <2>1. UNCHANGED <<activeRequests, requestQueue, fetching, letIn, charging, ticks>>
    BY <1>11 DEF Answers
  <2>2. AdmissionShape' /\ SlotsHeld' /\ QueueWaits' /\ OneTicket'
    BY <1>4, <2>1 DEF AdmissionShape, SlotsHeld, QueueWaits, OneTicket, Sent
  <2>3. HandlersStand'
    BY <1>1, <1>3, <1>4, <1>5, <1>11, <2>1, HandlersStandOn DEF HeldAfter
  <2>4. Settled' = Settled
    BY <1>8, <1>11 DEF Settled
  <2>5. SalesCounted'
    BY <1>7, <1>9, <2>1, <2>4 DEF SalesCounted, Owed
  <2> QED
    BY <1>6, <2>2, <2>3, <2>5
<1>12. CASE serving[t].by # {}
  <2>1. PICK c \in serving[t].by : serving[t].by = {c} /\ fetching[c].at = "sent" /\ fetching[c].kind = serving[t].kind
    BY <1>1, <1>12 DEF HandlersStand
  <2>2. c \in Asking /\ releaseSlot(c, Nobody) /\ Nobody.at = "idle"
    BY <1>2, <1>12, <2>1 DEF Answers, TaskOf, Nobody
  <2>3. /\ requestQueue' \in Seq(Asking) /\ fetching' \in [Asking -> FetchOf \cup {Nobody}] /\ letIn' \in Nat
        /\ SlotsHeld' /\ QueueWaits'
        /\ fetching'[c] = Nobody
        /\ \A e \in Asking : e # c =>
             \/ fetching'[e] = fetching[e]
             \/ fetching[e].at = "queued" /\ fetching'[e].at = "sent" /\ fetching'[e].kind = fetching[e].kind
    BY <2>1, <2>2, SlotGivenBack
  <2>4. /\ serving[t].kind # "sale" => UNCHANGED <<charging, ticks>>
        /\ serving[t].kind = "sale" =>
            /\ charging' = FALSE
            /\ ticks' = IF serving[t].ok THEN [ticks EXCEPT !.shown = @ + 1] ELSE ticks
    BY <1>12 DEF Answers
  <2>5. /\ ticks' \in TicksOf /\ ticks'.sold = ticks.sold /\ ticks'.given_up = ticks.given_up
        /\ ticks'.shown = (IF serving[t].kind = "sale" /\ serving[t].ok THEN ticks.shown + 1 ELSE ticks.shown)
    BY <2>4 DEF AdmissionShape, TicksOf
  <2>6. AdmissionShape'
    BY <1>4, <2>3, <2>4, <2>5 DEF AdmissionShape
  <2>7. HandlersStand'
    BY <1>1, <1>3, <1>4, <1>5, <2>1, <2>3, HandlersStandOn DEF HeldAfter
  <2>8. OneTicket'
    BY <2>1, <2>2, <2>3, <2>4 DEF OneTicket
  <2>9. SalesCounted'
    <3>1. CASE serving[t].kind = "sale"
      <4>1. Settled \subseteq {t}
        BY <1>1, <1>12, <3>1, TicketsHandler DEF Settled
      <4>2. Settled = (IF serving[t].ok THEN {t} ELSE {}) /\ Settled' = {}
        BY <1>1, <1>3, <1>8, <1>12, <3>1, <4>1 DEF Settled
      <4>3. Owed = (IF serving[t].ok THEN 1 ELSE 0) /\ Owed' = 0
        BY <4>2 DEF Owed
      <4> QED
        BY <1>7, <1>9, <1>10, <2>5, <3>1, <4>3 DEF SalesCounted
    <3>2. CASE serving[t].kind # "sale"
      <4>1. Owed' = Owed
        BY <1>8, <3>2 DEF Owed, Settled
      <4> QED
        BY <1>7, <1>9, <2>5, <3>2, <4>1 DEF SalesCounted
    <3> QED
      BY <3>1, <3>2
  <2> QED
    BY <1>6, <2>3, <2>6, <2>7, <2>8, <2>9
<1> QED
  BY <1>11, <1>12

\* The till gives a call up: its handler goes on for nobody.
LEMMA CallGivenUp ==
  ASSUME AdmissionInv, NEW c \in Asking, GivesUp(c)
  PROVE  AdmissionInv'
<1> USE DEF AdmissionInv
<1> DEFINE again == [fetching[c] EXCEPT !.at = "waiting", !.tries = @ + 1]
           after == IF fetching[c].kind \in Repeated /\ fetching[c].tries < maxRetries THEN again ELSE Nobody
           sale == fetching[c].kind = "sale"
<1>1. fetching[c].at = "sent" /\ fetching[c] \in FetchOf
  BY CallsAndTasks DEF GivesUp
<1>2. /\ after \in FetchOf \cup {Nobody} /\ after.at \in {"idle", "waiting"}
      /\ after.at # "idle" => after.kind = fetching[c].kind /\ ~sale
  <2>1. CASE fetching[c].kind \in Repeated /\ fetching[c].tries < maxRetries
    <3>1. fetching[c].tries + 1 \in 0..maxRetries
      BY <1>1, <2>1, AdmissionAssumption DEF FetchOf
    <3>2. again \in FetchOf /\ again.at = "waiting" /\ again.kind = fetching[c].kind
      BY <1>1, <3>1 DEF FetchOf
    <3>3. ~sale
      BY <2>1 DEF Repeated
    <3> QED
      BY <2>1, <3>2, <3>3
  <2>2. CASE ~(fetching[c].kind \in Repeated /\ fetching[c].tries < maxRetries)
    BY <2>2 DEF Nobody
  <2> QED
    BY <2>1, <2>2
<1>3. releaseSlot(c, after)
  BY DEF GivesUp
<1>4. /\ serving' = [t \in Serving |-> IF Busy(t) /\ serving[t].by = {c} THEN [serving[t] EXCEPT !.by = {}] ELSE serving[t]]
      /\ IF sale THEN charging' = FALSE /\ ticks' = [ticks EXCEPT !.given_up = @ + 1]
         ELSE UNCHANGED <<charging, ticks>>
  BY DEF GivesUp
<1> HIDE DEF after
<1>5. /\ requestQueue' \in Seq(Asking) /\ fetching' \in [Asking -> FetchOf \cup {Nobody}] /\ letIn' \in Nat
      /\ SlotsHeld' /\ QueueWaits'
      /\ fetching'[c] = after
      /\ \A e \in Asking : e # c =>
           \/ fetching'[e] = fetching[e]
           \/ fetching[e].at = "queued" /\ fetching'[e].at = "sent" /\ fetching'[e].kind = fetching[e].kind
  BY <1>1, <1>2, <1>3, SlotGivenBack
<1>6. ASSUME NEW t \in Serving
      PROVE  IF Busy(t)
             THEN /\ Busy(t)' /\ serving'[t] \in TaskOf /\ serving'[t].kind = serving[t].kind
                  /\ serving'[t].pc = serving[t].pc /\ serving'[t].has = serving[t].has /\ serving'[t].ok = serving[t].ok
                  /\ serving'[t].by = IF serving[t].by = {c} THEN {} ELSE serving[t].by
             ELSE serving'[t] = NoTask /\ ~Busy(t)'
  <2>1. CASE Busy(t) /\ serving[t].by = {c}
    <3>1. serving[t] \in TaskOf /\ serving'[t] = [serving[t] EXCEPT !.by = {}]
      BY <1>4, <2>1, CallsAndTasks
    <3> QED
      BY <2>1, <3>1 DEF TaskOf, Busy
  <2>2. CASE ~(Busy(t) /\ serving[t].by = {c})
    BY <1>4, <2>2, CallsAndTasks DEF Busy, NoTask
  <2> QED
    BY <2>1, <2>2
<1>7. serving' \in [Serving -> TaskOf \cup {NoTask}]
  <2>1. \A t \in Serving : serving'[t] \in TaskOf \cup {NoTask}
    BY <1>6
  <2> QED
    BY <1>4, <2>1
<1>8. /\ ticks' \in TicksOf /\ ticks'.sold = ticks.sold /\ ticks'.shown = ticks.shown
      /\ ticks'.given_up = (IF sale THEN ticks.given_up + 1 ELSE ticks.given_up) /\ charging' \in BOOLEAN
  <2>1. ticks \in TicksOf /\ charging \in BOOLEAN
    BY DEF AdmissionShape
  <2>2. CASE sale
    <3>1. charging' = FALSE /\ ticks' = [ticks EXCEPT !.given_up = @ + 1]
      BY <1>4, <2>2
    <3> HIDE DEF sale
    <3>2. /\ ticks' \in TicksOf /\ ticks'.sold = ticks.sold /\ ticks'.shown = ticks.shown
          /\ ticks'.given_up = ticks.given_up + 1
      BY <2>1, <3>1 DEF TicksOf
    <3>3. charging' \in BOOLEAN
      BY <3>1
    <3> QED
      BY <2>2, <3>2, <3>3
  <2>3. CASE ~sale
    <3>1. charging' = charging /\ ticks' = ticks
      BY <1>4, <2>3
    <3> HIDE DEF sale
    <3> QED
      BY <2>1, <2>3, <3>1
  <2> QED
    BY <2>2, <2>3
<1>9. AdmissionShape'
  BY <1>5, <1>7, <1>8 DEF AdmissionShape
<1>10. HandlersStand'
  <2>1. \A t \in Serving : Busy(t) => serving[t].by \subseteq Asking
    BY CallsAndTasks DEF TaskOf
  <2>2. ASSUME NEW t \in Serving, Busy(t)'
        PROVE  /\ serving'[t].pc \in 1..Len(Program[serving'[t].kind])
               /\ serving'[t].has = HeldAt[serving'[t].kind][serving'[t].pc]
               /\ \A e \in serving'[t].by :
                    serving'[t].by = {e} /\ fetching'[e].at = "sent" /\ fetching'[e].kind = serving'[t].kind
    <3>1. Busy(t) /\ serving'[t].kind = serving[t].kind
      BY <1>6, <2>2
    <3>2. ASSUME NEW e \in serving'[t].by
          PROVE  serving'[t].by = {e} /\ fetching'[e].at = "sent" /\ fetching'[e].kind = serving[t].kind
      <4>1. serving'[t].by = serving[t].by /\ e \in serving[t].by /\ serving[t].by # {c}
        BY <1>6, <3>1, <3>2
      <4>2. serving[t].by = {e} /\ fetching[e].at = "sent" /\ fetching[e].kind = serving[t].kind
        BY <3>1, <4>1 DEF HandlersStand
      <4>3. e # c /\ e \in Asking
        BY <2>1, <3>1, <4>1, <4>2
      <4> QED
        BY <1>5, <4>1, <4>2, <4>3
    <3> QED
      BY <1>6, <3>1, <3>2 DEF HandlersStand
  <2>3. ASSUME NEW t \in Serving, NEW u \in Serving, Busy(t)', Busy(u)',
               serving'[t].by = serving'[u].by, serving'[t].by # {}
        PROVE  t = u
    <3>1. Busy(t) /\ Busy(u) /\ serving'[t].by = serving[t].by /\ serving'[u].by = serving[u].by
      BY <1>6, <2>3
    <3> QED
      BY <2>3, <3>1 DEF HandlersStand
  <2> QED
    BY <2>2, <2>3 DEF HandlersStand, Busy
<1>11. PoolFits'
  <2>1. \A t \in Serving : Held(t)' = Held(t)
    BY <1>6 DEF Held
  <2> QED
    BY <2>1, HeldOf, FewerHeld
<1>12. OneTicket'
  BY <1>1, <1>2, <1>4, <1>5 DEF OneTicket
<1>13. \A t \in Serving : Busy(t)' /\ serving'[t].kind = "sale" /\ serving'[t].pc <= 4 => serving'[t].ok
  BY <1>6 DEF SalesCounted
<1>14. /\ ticks.shown \in Nat /\ ticks.sold \in Nat /\ ticks.given_up \in Nat
       /\ IsFiniteSet(Unheard) /\ Cardinality(Unheard) \in Nat
  BY FS_CardinalityType DEF AdmissionShape, TicksOf, SalesCounted
<1>15. SalesCounted'
  <2>1. CASE ~sale
    <3>1. ASSUME NEW t \in Serving, Busy(t), serving[t].kind = "sale" PROVE serving'[t].by = serving[t].by
      <4>1. serving[t].by # {c}
        BY <2>1, <3>1 DEF HandlersStand
      <4> QED
        BY <1>6, <3>1, <4>1
    <3>2. Unheard' = Unheard /\ Settled' = Settled
      BY <1>6, <3>1 DEF Unheard, Settled
    <3> QED
      BY <1>8, <1>13, <2>1, <3>2 DEF SalesCounted, Owed
  <2>2. CASE sale
    <3>1. ASSUME NEW t \in Serving, Busy(t), serving[t].kind = "sale", serving[t].by # {} PROVE serving[t].by = {c}
      <4>1. PICK e \in serving[t].by : serving[t].by = {e} /\ fetching[e].at = "sent" /\ fetching[e].kind = "sale"
        BY <3>1 DEF HandlersStand
      <4>2. e \in Asking
        BY <3>1, <4>1, CallsAndTasks DEF TaskOf
      <4> QED
        BY <1>1, <2>2, <4>1, <4>2 DEF OneTicket
    <3>2. Settled' = {}
      BY <1>6, <3>1 DEF Settled
    <3>3. CASE Settled = {}
      <4>1. CASE \E t \in Serving : Busy(t) /\ serving[t].kind = "sale" /\ serving[t].by # {}
        <5>1. PICK t \in Serving : Busy(t) /\ serving[t].kind = "sale" /\ serving[t].by # {}
          BY <4>1
        <5>2. \A u \in Serving : Busy(u) /\ serving[u].kind = "sale" /\ serving[u].by # {} => u = t
          BY <5>1, TicketsHandler
        <5>3. Unheard' \subseteq Unheard \cup {t} /\ Unheard \subseteq Unheard'
          BY <1>6, <3>1, <5>2 DEF Unheard
        <5>4. IsFiniteSet(Unheard') /\ Cardinality(Unheard') <= Cardinality(Unheard) + 1
          <6>1. IsFiniteSet(Unheard \cup {t}) /\ Cardinality(Unheard \cup {t}) <= Cardinality(Unheard) + 1
            BY <1>14, OneElementMore
          <6>2. IsFiniteSet(Unheard') /\ Cardinality(Unheard') <= Cardinality(Unheard \cup {t})
            BY <5>3, <6>1, FS_Subset
          <6>3. Cardinality(Unheard') \in Nat /\ Cardinality(Unheard \cup {t}) \in Nat
            BY <6>1, <6>2, FS_CardinalityType
          <6> QED
            BY <1>14, <6>1, <6>2, <6>3
        <5>5. Cardinality(Unheard') \in Nat
          BY <5>4, FS_CardinalityType
        <5> QED
          BY <1>8, <1>13, <1>14, <2>2, <3>2, <3>3, <5>4, <5>5 DEF SalesCounted, Owed
      <4>2. CASE ~\E t \in Serving : Busy(t) /\ serving[t].kind = "sale" /\ serving[t].by # {}
        <5>1. Unheard' = Unheard
          BY <1>6, <4>2 DEF Unheard
        <5> QED
          BY <1>8, <1>13, <1>14, <2>2, <3>2, <3>3, <5>1 DEF SalesCounted, Owed
      <4> QED
        BY <4>1, <4>2
    <3>4. ASSUME NEW t \in Settled PROVE SalesCounted'
      <4>1. \A u \in Serving : Busy(u) /\ serving[u].kind = "sale" /\ serving[u].by # {} => u = t
        BY <3>4, TicketsHandler DEF Settled
      <4>2. serving[t].pc \in Nat /\ ~(serving[t].pc <= 4)
        BY CallsAndTasks DEF Settled, TaskOf
      <4>3. Unheard' = Unheard
        BY <1>6, <4>1, <4>2 DEF Unheard
      <4> QED
        BY <1>8, <1>13, <1>14, <2>2, <3>2, <3>4, <4>3 DEF SalesCounted, Owed
    <3> QED
      BY <3>3, <3>4
  <2> QED
    BY <2>1, <2>2
<1> QED
  BY <1>5, <1>9, <1>10, <1>11, <1>12, <1>15

LEMMA AdmissionSteps == AdmissionInv /\ [AdmissionNext]_admission => AdmissionInv'
<1> SUFFICES ASSUME AdmissionInv, [AdmissionNext]_admission PROVE AdmissionInv'
  OBVIOUS
<1>1. 0 \in 0..maxRetries
  BY AdmissionAssumption
<1>2. ASSUME NEW c \in Asking, NEW kind \in DOMAIN Program \ {"sale"}, Asks(c, kind) PROVE AdmissionInv'
  BY <1>1, <1>2, Programs, AskingKeeps DEF Asks
<1>3. ASSUME NEW c \in Asking, handleCharge(c) PROVE AdmissionInv'
  <2>1. /\ ticks' \in TicksOf /\ UNCHANGED <<ticks.shown, ticks.sold, ticks.given_up>>
    BY <1>3 DEF handleCharge, AdmissionInv, AdmissionShape, TicksOf
  <2>2. "sale" \in Kinds
    BY DEF Kinds
  <2> QED
    BY <1>1, <1>3, <2>1, <2>2, AskingKeeps DEF handleCharge
<1>4. ASSUME NEW c \in Asking, apiFetchAgain(c) PROVE AdmissionInv'
  <2>1. fetching[c] \in FetchOf /\ fetching[c].kind # "sale"
    BY <1>4, CallsAndTasks DEF apiFetchAgain, AdmissionInv, OneTicket
  <2>2. fetching[c].kind \in Kinds /\ fetching[c].tries \in 0..maxRetries
    BY <2>1 DEF FetchOf
  <2> QED
    BY <1>4, <2>1, <2>2, AskingKeeps DEF apiFetchAgain
<1>5. ASSUME UNCHANGED admission PROVE AdmissionInv'
  <2> USE <1>5 DEF admission
  <2>1. AdmissionShape' /\ QueueWaits' /\ OneTicket'
    BY DEF AdmissionInv, AdmissionShape, QueueWaits, OneTicket
  <2>2. SlotsHeld'
    BY DEF AdmissionInv, SlotsHeld, Sent
  <2>3. HandlersStand'
    BY DEF AdmissionInv, HandlersStand, Busy
  <2>4. PoolFits'
    BY DEF AdmissionInv, PoolFits, Connections, Held, Busy
  <2>5. SalesCounted'
    BY DEF AdmissionInv, SalesCounted, Busy, Unheard, Settled, Owed
  <2> QED
    BY <2>1, <2>2, <2>3, <2>4, <2>5 DEF AdmissionInv
<1> QED
  BY <1>2, <1>3, <1>4, <1>5, CallGivenUp, HandlerArrives, HandlerMoves, SaleCommits, HandlerAnswers
     DEF AdmissionNext

\* When calls wait and none is on its way, every slot is one that a call let in kept.
LEMMA SlotsKept == AdmissionShape /\ SlotsHeld => SlotsCounted
<1> SUFFICES ASSUME AdmissionShape, SlotsHeld PROVE SlotsCounted
  OBVIOUS
<1>1. ASSUME requestQueue # <<>>, Sent = {} PROVE letIn >= MAX_CONCURRENT_REQUESTS
  <2>1. Cardinality(Sent) = 0 /\ letIn \in Nat
    BY <1>1, FS_EmptySet DEF AdmissionShape
  <2> QED
    BY <1>1, <2>1 DEF SlotsHeld
<1> QED
  BY <1>1 DEF SlotsHeld, SlotsCounted

\* Handlers that all ask hold one connection each and are of the kinds that take two.
LEMMA PoolStuck == AdmissionShape /\ HandlersStand /\ PoolFits => PoolMoves
<1> DEFINE holders == {t \in Serving : Held(t) > 0}
<1> SUFFICES ASSUME AdmissionShape, HandlersStand, PoolFits, Idle = 0, \A t \in holders : Does(t, "take")
             PROVE  Cardinality({t \in holders : serving[t].kind \in Nested}) = max_size
  BY DEF PoolMoves
<1>1. \A t \in Serving : Held(t) \in 0..2
  BY HeldOf
<1>2. ASSUME NEW t \in holders PROVE Held(t) = 1 /\ serving[t].kind \in Nested
  <2>1. Busy(t) /\ Program[serving[t].kind][serving[t].pc] = "take"
    BY DEF Does
  <2>2. /\ StepSound(serving[t].kind, serving[t].pc)
        /\ Held(t) = HeldAt[serving[t].kind][serving[t].pc]
    BY <2>1, HandlerAt DEF Held
  <2>3. Held(t) # 0
    OBVIOUS
  <2> QED
    BY <2>1, <2>2, <2>3 DEF StepSound
<1>3. {t \in holders : serving[t].kind \in Nested} = holders
  BY <1>2
<1>4. \A held \in Connections : held[1] \in holders /\ held = <<held[1], 1>>
  BY <1>1, <1>2 DEF Connections
<1>5. \A t \in holders : <<t, 1>> \in Connections
  BY <1>2 DEF Connections
<1> HIDE DEF holders
<1> DEFINE holder == [held \in Connections |-> held[1]]
<1>6. holder \in [Connections -> holders]
  BY <1>4
<1>7. \A a, b \in Connections : holder[a] = holder[b] => a = b
  BY <1>4
<1>8. \A t \in holders : \E held \in Connections : holder[held] = t
  <2>1. ASSUME NEW t \in holders PROVE holder[<<t, 1>>] = t /\ <<t, 1>> \in Connections
    BY <1>5
  <2> QED
    BY <2>1
<1> HIDE DEF holder
<1>9. holder \in Bijection(Connections, holders)
  BY <1>6, <1>7, <1>8 DEF Bijection, Injection, Surjection, IsInjective
<1>10. Cardinality(holders) = Cardinality(Connections)
  BY <1>9, FS_Bijection DEF PoolFits, ExistsBijection
<1>11. Cardinality(Connections) \in Nat /\ max_size \in Nat
  BY FS_CardinalityType, AdmissionAssumption DEF PoolFits
<1>12. max_size - Cardinality(Connections) = 0
  BY DEF Idle
<1>13. Cardinality(holders) = max_size
  BY <1>10, <1>11, <1>12
<1> QED
  BY <1>3, <1>13, Zenon

\* The sale that was made and not yet shown is the one that the till waits for.
LEMMA TicketsKept == AdmissionInv => TicketsSold
<1> SUFFICES ASSUME AdmissionInv PROVE TicketsSold
  OBVIOUS
<1> USE DEF AdmissionInv
<1>1. /\ ticks.shown \in Nat /\ ticks.sold \in Nat /\ ticks.given_up \in Nat
      /\ Cardinality(Unheard) \in Nat
  BY FS_CardinalityType DEF AdmissionShape, TicksOf, SalesCounted
<1>2. Owed \in {0, 1} /\ (Owed = 1 => charging)
  BY TicketsHandler DEF Owed, Settled
<1>3. CASE charging
  BY <1>1, <1>2, <1>3 DEF SalesCounted, TicketsSold
<1>4. CASE ~charging
  <2>1. Owed = 0
    BY <1>2, <1>4
  <2> QED
    BY <1>1, <1>4, <2>1 DEF SalesCounted, TicketsSold
<1> QED
  BY <1>3, <1>4

\* AdmissionInv is an invariant.
THEOREM AdmissionInvariant == AdmissionSpec => []AdmissionInv
BY AdmissionStart, AdmissionSteps, PTL DEF AdmissionSpec

\* Slots are lost to calls that were let in and to nothing else, handlers block each
\* other only when as many as the pool has connections are of the kinds that take two, and what
\* is sold is shown, given up or waited for.
THEOREM AdmissionIsHeld == AdmissionSpec => []AdmissionHolds
<1>1. AdmissionInv => AdmissionHolds
  BY SlotsKept, PoolStuck, TicketsKept DEF AdmissionInv, AdmissionHolds
<1> QED
  BY <1>1, AdmissionInvariant, PTL

-----------------------------------------------------------------------------
(* The projection of a sale                                                 *)

\* A set of rows has a first and a last.
LEMMA SomeFirst ==
  ASSUME NEW S \in SUBSET Nat, S # {}
  PROVE  FirstOf(S) \in S /\ \A j \in S : FirstOf(S) <= j
<1>1. \E k \in S : \A j \in S : k <= j
  <2> DEFINE Less == {ss \in Nat \X Nat : ss[1] < ss[2]}
  <2>1. IsWellFoundedOn(Less, Nat)
    BY NatLessThanWellFounded DEF OpToRel
  <2>2. PICK k \in S : \A j \in S : <<j, k>> \notin Less
    BY <2>1, WFMin
  <2>3. ASSUME NEW j \in S PROVE k <= j
    <3>1. <<j, k>> \notin Less
      BY <2>2
    <3>2. j < k => <<j, k>> \in Less
      OBVIOUS
    <3> QED
      BY <3>1, <3>2
  <2> QED
    BY <2>3
<1> QED
  BY <1>1 DEF FirstOf

LEMMA SomeLast ==
  ASSUME NEW m \in Nat, NEW S \in SUBSET (1 .. m)
  PROVE  /\ LastOf(S) \in 0 .. m
         /\ S # {} => LastOf(S) \in S /\ \A j \in S : j <= LastOf(S)
<1>1. CASE S = {}
  BY <1>1 DEF LastOf
<1>2. CASE S # {}
  <2> DEFINE T == {m - j : j \in S}
  <2>0. PICK i \in S : TRUE
    BY <1>2
  <2>1. T \in SUBSET Nat /\ T # {}
    <3>1. \A j \in S : m - j \in Nat
      OBVIOUS
    <3>2. m - i \in T
      OBVIOUS
    <3> QED
      BY <3>1, <3>2
  <2>2. PICK k \in S : m - k = FirstOf(T)
    BY <2>1, SomeFirst
  <2>3. \A j \in S : m - k <= m - j
    BY <2>1, <2>2, SomeFirst
  <2>4. \A j \in S : j <= k
    BY <2>3
  <2>5. LastOf(S) \in S /\ \A j \in S : j <= LastOf(S)
    BY <1>2, <2>4 DEF LastOf
  <2>6. LastOf(S) \in 1 .. m
    BY <2>5
  <2>7. LastOf(S) \in 0 .. m
    BY ONLY <2>6, m \in Nat
  <2> QED
    BY ONLY <2>5, <2>7
<1> QED
  BY <1>1, <1>2

\* One more row is the last.
LEMMA NewLast ==
  ASSUME NEW n \in Nat \ {0}, NEW S \in SUBSET (1 .. n - 1)
  PROVE  LastOf(S \cup {n}) = n
<1>1. S \cup {n} \in SUBSET (1 .. n)
  OBVIOUS
<1>2. LastOf(S \cup {n}) \in S \cup {n} /\ \A j \in S \cup {n} : j <= LastOf(S \cup {n})
  BY <1>1, SomeLast
<1>3. n <= LastOf(S \cup {n}) /\ LastOf(S \cup {n}) \in 1 .. n
  BY <1>1, <1>2
<1> QED
  BY ONLY n \in Nat, <1>3

LEMMA SameFirst ==
  ASSUME NEW n \in Nat \ {0}, NEW S \in SUBSET (1 .. n - 1)
  PROVE  /\ S # {} => FirstOf(S \cup {n}) = FirstOf(S)
         /\ FirstOf({n}) = n
<1>1. S \in SUBSET Nat /\ S \cup {n} \in SUBSET Nat /\ {n} \in SUBSET Nat
  OBVIOUS
<1>2. FirstOf({n}) \in {n}
  BY <1>1, SomeFirst
<1>3. ASSUME S # {} PROVE FirstOf(S \cup {n}) = FirstOf(S)
  <2>1. FirstOf(S \cup {n}) \in S \cup {n} /\ \A j \in S \cup {n} : FirstOf(S \cup {n}) <= j
    BY <1>1, SomeFirst
  <2>2. FirstOf(S) \in S /\ \A j \in S : FirstOf(S) <= j
    BY <1>1, <1>3, SomeFirst
  <2> DEFINE a == FirstOf(S \cup {n})
             b == FirstOf(S)
  <2>a. a \in S \cup {n} /\ (\A j \in S \cup {n} : a <= j) /\ b \in S /\ (\A j \in S : b <= j)
    BY <2>1, <2>2
  <2> HIDE DEF a, b
  <2>3. /\ a <= b
        /\ a \in S => b <= a
        /\ b \in 1 .. n - 1 /\ a \in 1 .. n
    BY <2>a
  <2>4. a # n
    BY ONLY n \in Nat, <2>3
  <2>5. b <= a
    BY <2>a, <2>3, <2>4
  <2>6. a = b
    BY ONLY <2>3, <2>5, n \in Nat
  <2> QED
    BY <2>6 DEF a, b
<1> QED
  BY <1>2, <1>3

\* What the first n rows say.
Said(n) ==
    [items |-> ItemsNow(n), subtotal |-> Lines(ItemsNow(n)), tax |-> Taxes(ItemsNow(n)),
     discount |-> DiscountNow(n), total |-> Lines(ItemsNow(n)) + Taxes(ItemsNow(n)) - DiscountNow(n),
     payments |-> Cardinality(Typed(n, {"payment_received"})), status |-> StatusNow(n)]

LEMMA NoLines == Lines([p \in {} |-> 0]) = 0 /\ Taxes([p \in {} |-> 0]) = 0
<1>1. ASSUME NEW f, DOMAIN f = {} PROVE SumFunction(f) = 0
  <2> DEFINE iter == CHOOSE g : g = [s \in SUBSET {} |-> IF s = {} THEN 0
                                     ELSE f[CHOOSE x \in s : TRUE] + g[s \ {CHOOSE x \in s : TRUE}]]
  <2>1. SumFunction(f) = iter[{}]
    BY <1>1, Zenon DEF SumFunction, SumFunctionOnSet, FoldFunctionOnSet, MapThenFoldSet
  <2>2. \E g : g = [s \in SUBSET {} |-> IF s = {} THEN 0
                                     ELSE f[CHOOSE x \in s : TRUE] + g[s \ {CHOOSE x \in s : TRUE}]]
    <3> WITNESS [s \in SUBSET {} |-> 0]
    <3> QED
      OBVIOUS
  <2>3. iter = [s \in SUBSET {} |-> IF s = {} THEN 0
                                     ELSE f[CHOOSE x \in s : TRUE] + iter[s \ {CHOOSE x \in s : TRUE}]]
    BY <2>2
  <2> HIDE DEF iter
  <2> QED
    BY <2>1, <2>3
<1> QED
  BY <1>1 DEF Lines, Taxes

LEMMA RowKinds ==
  ASSUME ProjectionTypeOK, NEW n \in 1 .. Len(stream)
  PROVE  /\ stream[n] \in Rows
         /\ stream[n].type = "item_added" =>
              stream[n].product \in Goods /\ stream[n].qty \in Nat
         /\ stream[n].type = "item_removed" => stream[n].product \in Goods
         /\ stream[n].type = "item_qty_changed" =>
              stream[n].product \in Goods /\ stream[n].qty \in Nat
         /\ stream[n].type \in {"item_added", "item_removed", "item_qty_changed", "discount_applied",
                                "discount_removed", "payment_received"} \cup DOMAIN StatusOf
<1>1. stream[n] \in Rows
  BY DEF ProjectionTypeOK
<1>2. Qtys \subseteq Nat
  BY ProjectionAssumption
<1> DEFINE e == stream[n]
<1>3. CASE e \in [type : {"item_added"}, product : Goods, qty : Qtys, price : UnitPrices, rate : TaxRates]
  BY <1>1, <1>2, <1>3
<1>4. CASE e \in [type : {"item_removed"}, product : Goods]
  BY <1>1, <1>2, <1>4
<1>5. CASE e \in [type : {"item_qty_changed"}, product : Goods, qty : Qtys]
  BY <1>1, <1>2, <1>5
<1>6. CASE e \in [type : {"discount_applied"}, amount : Discounts]
  BY <1>1, <1>2, <1>6
<1>7. CASE e \in [type : {"discount_removed", "payment_received"} \cup DOMAIN StatusOf]
  BY <1>1, <1>2, <1>7 DEF StatusOf
<1> QED
  BY <1>1, <1>3, <1>4, <1>5, <1>6, <1>7 DEF Rows

\* The nth row counts where its type is asked for, and nowhere else.
LEMMA TypedGrows ==
  ASSUME NEW n \in Nat \ {0}, NEW types
  PROVE  /\ stream[n].type \in types => Typed(n, types) = Typed(n - 1, types) \cup {n}
         /\ stream[n].type \notin types => Typed(n, types) = Typed(n - 1, types)
         /\ Typed(n - 1, types) \in SUBSET (1 .. n - 1)
<1>1. 1 .. n = (1 .. n - 1) \cup {n}
  OBVIOUS
<1> QED
  BY <1>1 DEF Typed

LEMMA RowsGrow ==
  ASSUME NEW n \in Nat \ {0}, NEW type, NEW p
  PROVE  /\ stream[n].type = type /\ stream[n].product = p =>
                RowsOf(n, type, p) = RowsOf(n - 1, type, p) \cup {n}
         /\ ~ (stream[n].type = type /\ stream[n].product = p) =>
                RowsOf(n, type, p) = RowsOf(n - 1, type, p)
         /\ RowsOf(n - 1, type, p) \in SUBSET (1 .. n - 1)
<1>1. 1 .. n = (1 .. n - 1) \cup {n}
  OBVIOUS
<1> QED
  BY <1>1 DEF RowsOf, Typed

\* The units that rows added, and one row more.
LEMMA AddedGrows ==
  ASSUME NEW n \in Nat \ {0}, NEW S \in SUBSET (1 .. n - 1), \A k \in S \cup {n} : stream[k].qty \in Nat
  PROVE  /\ Added({}) = 0 /\ Added(S) \in Nat
         /\ Added(S \cup {n}) = Added(S) + stream[n].qty
         /\ Added({n}) = stream[n].qty
<1> DEFINE RowUnits(k) == {k} \X (1 .. stream[k].qty)
           A == UNION {RowUnits(k) : k \in S}
           B == RowUnits(n)
<1>1. ASSUME NEW k \in S \cup {n} PROVE IsFiniteSet(RowUnits(k)) /\ Cardinality(RowUnits(k)) = stream[k].qty
  <2>0. stream[k].qty \in Nat
    OBVIOUS
  <2>1. IsFiniteSet({k}) /\ Cardinality({k}) = 1
    BY FS_Singleton
  <2>2. \A q \in Nat : IsFiniteSet(1 .. q) /\ Cardinality(1 .. q) = q
    BY FS_Interval
  <2>3. IsFiniteSet(1 .. stream[k].qty) /\ Cardinality(1 .. stream[k].qty) = stream[k].qty
    BY ONLY <2>0, <2>2
  <2>4. IsFiniteSet(RowUnits(k)) /\ Cardinality(RowUnits(k)) = Cardinality({k}) * Cardinality(1 .. stream[k].qty)
    BY <2>1, <2>3, FS_Product
  <2> QED
    BY <2>0, <2>1, <2>3, <2>4
<1>2. IsFiniteSet(S)
  <2>1. IsFiniteSet(1 .. n - 1)
    BY FS_Interval
  <2> QED
    BY <2>1, FS_Subset
<1>3. IsFiniteSet({RowUnits(k) : k \in S})
  <2>1. [k \in S |-> RowUnits(k)] \in Surjection(S, {RowUnits(k) : k \in S})
    BY DEF Surjection
  <2> QED
    BY <1>2, <2>1, FS_Surjection
<1>4. IsFiniteSet(A)
  BY <1>1, <1>3, FS_UNION
<1>5. A \cap B = {}
  <2>1. \A k \in S : k # n
    OBVIOUS
  <2> QED
    BY <2>1
<1>6. Added(S) = Cardinality(A) /\ Added({n}) = Cardinality(B) /\ Added(S \cup {n}) = Cardinality(A \cup B)
  <2>1. UNION {RowUnits(k) : k \in S \cup {n}} = A \cup B /\ UNION {RowUnits(k) : k \in {n}} = B
    OBVIOUS
  <2> QED
    BY <2>1 DEF Added
<1>7. IsFiniteSet(B) /\ Cardinality(B) = stream[n].qty
  BY <1>1
<1>8. Added({}) = 0
  <2>1. UNION {RowUnits(k) : k \in {}} = {}
    OBVIOUS
  <2> QED
    BY <2>1, FS_EmptySet DEF Added
<1> HIDE DEF A, B
<1>9. Cardinality(A \cup B) = Cardinality(A) + Cardinality(B) - Cardinality(A \cap B)
  BY <1>4, <1>7, FS_Union
<1>10. Cardinality(A) \in Nat /\ Cardinality(A \cap B) = 0
  BY <1>4, <1>5, FS_CardinalityType, FS_EmptySet
<1> QED
  BY <1>6, <1>7, <1>8, <1>9, <1>10

LEMMA SaidFirst == Said(0) = NothingYet
<1>1. \A types : Typed(0, types) = {}
  BY DEF Typed
<1>2. \A q \in Goods : Since(0, q) = {}
  BY <1>1 DEF Since, RowsOf
<1>3. ItemsNow(0) = [p \in {} |-> 0]
  BY <1>2 DEF ItemsNow
<1>4. DiscountNow(0) = 0 /\ StatusNow(0) = "unknown" /\ Cardinality(Typed(0, {"payment_received"})) = 0
  BY <1>1, FS_EmptySet DEF DiscountNow, StatusNow, LastOf
<1> QED
  BY <1>3, <1>4, NoLines DEF Said, NothingYet

\* What concerns a product's rows, and what does not.
LEMMA SinceHolds ==
  ASSUME NEW n \in Nat, NEW p
  PROVE  Since(n, p) \in SUBSET (1 .. n)
  BY DEF Since, RowsOf, Typed

LEMMA ItemStays ==
  ASSUME NEW n \in Nat \ {0}, NEW p,
         \A type \in {"item_added", "item_removed", "item_qty_changed"} :
            ~ (stream[n].type = type /\ stream[n].product = p)
  PROVE  Since(n, p) = Since(n - 1, p) /\ ItemNow(n, p) = ItemNow(n - 1, p)
<1>1. \A type \in {"item_added", "item_removed", "item_qty_changed"} : RowsOf(n, type, p) = RowsOf(n - 1, type, p)
  BY RowsGrow
<1>2. Since(n, p) = Since(n - 1, p)
  BY <1>1 DEF Since
<1>3. Changed(n, p) = Changed(n - 1, p)
  BY <1>1, <1>2 DEF Changed
<1> QED
  BY <1>2, <1>3 DEF ItemNow

LEMMA ItemShape ==
  ASSUME NEW n, NEW p
  PROVE  /\ ItemNow(n, p) = [qty |-> ItemNow(n, p).qty, price |-> stream[FirstOf(Since(n, p))].price,
                             rate |-> stream[FirstOf(Since(n, p))].rate]
         /\ ItemNow(n, p).qty = (IF Changed(n, p) = 0 THEN 0 ELSE stream[Changed(n, p)].qty)
                                  + Added({k \in Since(n, p) : k > Changed(n, p)})
  BY DEF ItemNow

LEMMA ItemAdded ==
  ASSUME ProjectionTypeOK, NEW n \in 1 .. Len(stream), NEW p,
         stream[n].type = "item_added", stream[n].product = p
  PROVE  /\ Since(n, p) # {}
         /\ Since(n - 1, p) = {} =>
              ItemNow(n, p) = [qty |-> stream[n].qty, price |-> stream[n].price, rate |-> stream[n].rate]
         /\ Since(n - 1, p) # {} =>
              ItemNow(n, p) = [ItemNow(n - 1, p) EXCEPT !.qty = @ + stream[n].qty]
<1>0. n \in Nat \ {0} /\ n - 1 \in Nat
  BY DEF ProjectionTypeOK
<1> DEFINE M == Since(n - 1, p)
           c == Changed(n - 1, p)
           removed == LastOf(RowsOf(n - 1, "item_removed", p))
<1>1. /\ RowsOf(n, "item_added", p) = RowsOf(n - 1, "item_added", p) \cup {n}
      /\ RowsOf(n, "item_removed", p) = RowsOf(n - 1, "item_removed", p)
      /\ RowsOf(n, "item_qty_changed", p) = RowsOf(n - 1, "item_qty_changed", p)
      /\ RowsOf(n - 1, "item_removed", p) \in SUBSET (1 .. n - 1)
      /\ RowsOf(n - 1, "item_qty_changed", p) \in SUBSET (1 .. n - 1)
  <2>1. RowsOf(n, "item_added", p) = RowsOf(n - 1, "item_added", p) \cup {n}
    BY <1>0, RowsGrow
  <2>2. /\ RowsOf(n, "item_removed", p) = RowsOf(n - 1, "item_removed", p)
        /\ RowsOf(n - 1, "item_removed", p) \in SUBSET (1 .. n - 1)
    BY <1>0, RowsGrow
  <2>3. /\ RowsOf(n, "item_qty_changed", p) = RowsOf(n - 1, "item_qty_changed", p) 
        /\ RowsOf(n - 1, "item_qty_changed", p) \in SUBSET (1 .. n - 1)
    BY <1>0, RowsGrow
  <2> QED
    BY <2>1, <2>2, <2>3
<1>2. removed \in 0 .. n - 1
  BY <1>0, <1>1, SomeLast
<1>3. Since(n, p) = M \cup {n} /\ M \in SUBSET (1 .. n - 1)
  <2>1. n > removed
    BY <1>0, <1>2
  <2> QED
    BY <1>0, <1>1, <2>1, SinceHolds DEF Since
<1>4. \A k \in M \cup {n} : stream[k].qty \in Nat
  <2>1. \A k \in M : k \in 1 .. Len(stream) /\ stream[k].type = "item_added"
    BY <1>0, <1>3 DEF Since, RowsOf, Typed, ProjectionTypeOK
  <2> QED
    BY <2>1, RowKinds
<1>5. ASSUME M = {}
      PROVE  ItemNow(n, p) = [qty |-> stream[n].qty, price |-> stream[n].price, rate |-> stream[n].rate]
  <2>1. Since(n, p) = {n} /\ FirstOf({n}) = n
    BY <1>0, <1>3, <1>5, SameFirst
  <2>2. {k \in RowsOf(n, "item_qty_changed", p) : k > n} = {}
    BY <1>0, <1>1
  <2>3. Changed(n, p) = 0
    BY <2>1, <2>2 DEF Changed, LastOf
  <2>4. {k \in Since(n, p) : k > 0} = {n}
    BY <1>0, <2>1
  <2>5. Added({n}) = stream[n].qty /\ stream[n].qty \in Nat
    BY <1>0, <1>3, <1>4, AddedGrows
  <2>6. ItemNow(n, p).qty = stream[n].qty
    BY <2>3, <2>4, <2>5, ItemShape
  <2> DEFINE now == ItemNow(n, p)
             f == FirstOf(Since(n, p))
  <2>7. now = [qty |-> now.qty, price |-> stream[f].price, rate |-> stream[f].rate] /\ f = n
    BY <2>1, ItemShape
  <2>8. now.qty = stream[n].qty
    BY <2>6
  <2> HIDE DEF now
  <2>9. now = [qty |-> stream[n].qty, price |-> stream[n].price, rate |-> stream[n].rate]
    BY ONLY <2>7, <2>8
  <2> QED
    BY <2>9 DEF now
<1>6. ASSUME M # {}
      PROVE  ItemNow(n, p) = [ItemNow(n - 1, p) EXCEPT !.qty = @ + stream[n].qty]
  <2>1. FirstOf(Since(n, p)) = FirstOf(M)
    <3> HIDE DEF M
    <3>1. FirstOf(M \cup {n}) = FirstOf(M)
      BY <1>0, <1>3, <1>6, SameFirst
    <3> QED
      BY <1>3, <3>1
  <2>2. Changed(n, p) = c
    BY <1>1, <2>1 DEF Changed
  <2>3. c \in 0 .. n - 1 /\ (c # 0 => c \in RowsOf(n - 1, "item_qty_changed", p))
    <3> DEFINE S == {k \in RowsOf(n - 1, "item_qty_changed", p) : k > FirstOf(M)}
    <3>1. S \in SUBSET (1 .. n - 1) /\ c = LastOf(S)
      BY <1>1 DEF Changed
    <3>2. S = {} => c = 0
      BY <3>1 DEF LastOf
    <3>3. LastOf(S) \in 0 .. n - 1 /\ (S # {} => LastOf(S) \in S)
      BY <1>0, <3>1, SomeLast
    <3> QED
      BY <3>1, <3>2, <3>3
  <2> DEFINE T == {k \in M : k > c}
  <2>4. {k \in Since(n, p) : k > c} = T \cup {n} /\ T \in SUBSET (1 .. n - 1)
    BY <1>0, <1>3, <2>3
  <2>5. \A k \in T \cup {n} : stream[k].qty \in Nat
    BY <1>4
  <2> HIDE DEF T
  <2>6. Added(T \cup {n}) = Added(T) + stream[n].qty /\ Added(T) \in Nat
    BY <1>0, <2>4, <2>5, AddedGrows
  <2>7. (IF c = 0 THEN 0 ELSE stream[c].qty) \in Nat
    <3>1. c # 0 => c \in 1 .. Len(stream) /\ stream[c].type = "item_qty_changed"
      BY <1>0, <2>3 DEF RowsOf, Typed, ProjectionTypeOK
    <3> QED
      BY <3>1, RowKinds
  <2>8. /\ ItemNow(n, p).qty = (IF c = 0 THEN 0 ELSE stream[c].qty) + Added(T \cup {n})
        /\ ItemNow(n - 1, p).qty = (IF c = 0 THEN 0 ELSE stream[c].qty) + Added(T)
    BY <2>2, <2>4, ItemShape DEF T
  <2>9. stream[n].qty \in Nat
    BY <1>4
  <2>10. ItemNow(n, p).qty = ItemNow(n - 1, p).qty + stream[n].qty
    BY ONLY <2>6, <2>7, <2>8, <2>9
  <2> DEFINE now == ItemNow(n, p)
             before == ItemNow(n - 1, p)
             f == FirstOf(Since(n, p))
  <2>11. now = [qty |-> now.qty, price |-> stream[f].price, rate |-> stream[f].rate]
    BY ItemShape
  <2>12. before = [qty |-> before.qty, price |-> stream[f].price, rate |-> stream[f].rate]
    BY ZenonT(40), <2>1, ItemShape
  <2>13. now.qty = before.qty + stream[n].qty
    BY <2>10
  <2> HIDE DEF now, before
  <2>14. now = [before EXCEPT !.qty = @ + stream[n].qty]
    BY ONLY <2>11, <2>12, <2>13
  <2> QED
    BY <2>14 DEF now, before
<1> QED
  BY <1>3, <1>5, <1>6

LEMMA ItemRemoved ==
  ASSUME NEW n \in Nat \ {0}, NEW p, stream[n].type = "item_removed", stream[n].product = p
  PROVE  Since(n, p) = {}
<1>1. /\ RowsOf(n, "item_added", p) \in SUBSET (1 .. n - 1)
      /\ RowsOf(n, "item_removed", p) = RowsOf(n - 1, "item_removed", p) \cup {n}
      /\ RowsOf(n - 1, "item_removed", p) \in SUBSET (1 .. n - 1)
  BY RowsGrow
<1>2. LastOf(RowsOf(n, "item_removed", p)) = n
  BY <1>1, NewLast
<1> QED
  BY <1>1, <1>2 DEF Since

LEMMA ItemChanged ==
  ASSUME ProjectionTypeOK, NEW n \in 1 .. Len(stream), NEW p,
         stream[n].type = "item_qty_changed", stream[n].product = p
  PROVE  /\ Since(n, p) = Since(n - 1, p)
         /\ Since(n, p) # {} => ItemNow(n, p) = [ItemNow(n - 1, p) EXCEPT !.qty = stream[n].qty]
<1>0. n \in Nat \ {0} /\ n - 1 \in Nat
  BY DEF ProjectionTypeOK
<1>1. /\ RowsOf(n, "item_added", p) = RowsOf(n - 1, "item_added", p)
      /\ RowsOf(n, "item_removed", p) = RowsOf(n - 1, "item_removed", p)
      /\ RowsOf(n, "item_qty_changed", p) = RowsOf(n - 1, "item_qty_changed", p) \cup {n}
      /\ RowsOf(n - 1, "item_removed", p) \in SUBSET (1 .. n - 1)
      /\ RowsOf(n - 1, "item_qty_changed", p) \in SUBSET (1 .. n - 1)
  <2>1. RowsOf(n, "item_added", p) = RowsOf(n - 1, "item_added", p)
    BY <1>0, RowsGrow
  <2>2. /\ RowsOf(n, "item_removed", p) = RowsOf(n - 1, "item_removed", p)
        /\ RowsOf(n - 1, "item_removed", p) \in SUBSET (1 .. n - 1)
    BY <1>0, RowsGrow
  <2>3. /\ RowsOf(n, "item_qty_changed", p) = RowsOf(n - 1, "item_qty_changed", p) \cup {n}
        /\ RowsOf(n - 1, "item_qty_changed", p) \in SUBSET (1 .. n - 1)
    BY <1>0, RowsGrow
  <2> QED
    BY <2>1, <2>2, <2>3
<1> DEFINE M == Since(n - 1, p)
<1>2. Since(n, p) = M /\ M \in SUBSET (1 .. n - 1)
  BY <1>0, <1>1, SinceHolds DEF Since
<1>3. ASSUME M # {}
      PROVE  ItemNow(n, p) = [ItemNow(n - 1, p) EXCEPT !.qty = stream[n].qty]
  <2> DEFINE first == FirstOf(M)
             S == {k \in RowsOf(n - 1, "item_qty_changed", p) : k > first}
  <2>1. first \in M
    BY <1>2, <1>3, SomeFirst
  <2>2. n > first /\ S \in SUBSET (1 .. n - 1)
    BY <1>0, <1>1, <1>2, <2>1
  <2>3. {k \in RowsOf(n, "item_qty_changed", p) : k > first} = S \cup {n}
    BY <1>1, <2>2
  <2>4. Changed(n, p) = n
    BY <1>0, <1>2, <2>2, <2>3, NewLast DEF Changed
  <2>5. {k \in M : k > n} = {}
    BY <1>0, <1>2
  <2>6. Added({}) = 0 /\ stream[n].qty \in Nat
    BY <1>0, RowKinds, FS_EmptySet DEF Added
  <2>7. ItemNow(n, p).qty = stream[n].qty
    BY <1>0, <1>2, <2>4, <2>5, <2>6, ItemShape
  <2> DEFINE now == ItemNow(n, p)
             before == ItemNow(n - 1, p)
             f == FirstOf(Since(n, p))
  <2>8. now = [qty |-> now.qty, price |-> stream[f].price, rate |-> stream[f].rate]
    BY ItemShape
  <2>9. before = [qty |-> before.qty, price |-> stream[f].price, rate |-> stream[f].rate]
    <3>1. FirstOf(Since(n - 1, p)) = f
      BY <1>2
    <3>2. before = [qty |-> before.qty, price |-> stream[FirstOf(Since(n - 1, p))].price,
                    rate |-> stream[FirstOf(Since(n - 1, p))].rate]
      BY ItemShape
    <3> HIDE DEF before, f
    <3> QED
      BY ONLY <3>1, <3>2
  <2>10. now.qty = stream[n].qty
    BY <2>7
  <2> HIDE DEF now, before
  <2>11. now = [before EXCEPT !.qty = stream[n].qty]
    BY ONLY <2>8, <2>9, <2>10
  <2> QED
    BY <2>11 DEF now, before
<1> QED
  BY <1>2, <1>3

\* Discount, status and payments.
LEMMA DiscountMoves ==
  ASSUME NEW n \in Nat \ {0}
  PROVE  /\ stream[n].type \notin Amended => DiscountNow(n) = DiscountNow(n - 1)
         /\ stream[n].type = "discount_applied" => DiscountNow(n) = stream[n].amount
         /\ stream[n].type = "discount_removed" => DiscountNow(n) = 0
<1>1. CASE stream[n].type \notin Amended
  <2>1. Typed(n, Amended) = Typed(n - 1, Amended)
    BY <1>1, TypedGrows
  <2>2. DiscountNow(n) = DiscountNow(n - 1)
    BY <2>1 DEF DiscountNow
  <2> QED
    BY <1>1, <2>2 DEF Amended
<1>2. CASE stream[n].type \in Amended
  <2>1. Typed(n, Amended) = Typed(n - 1, Amended) \cup {n} /\ Typed(n - 1, Amended) \in SUBSET (1 .. n - 1)
    BY <1>2, TypedGrows
  <2>2. LastOf(Typed(n, Amended)) = n
    BY <2>1, NewLast
  <2>3. DiscountNow(n) = IF stream[n].type = "discount_removed" THEN 0 ELSE stream[n].amount
    BY <2>2 DEF DiscountNow
  <2> QED
    BY <1>2, <2>3
<1> QED
  BY <1>1, <1>2

LEMMA StatusMoves ==
  ASSUME NEW n \in Nat \ {0}
  PROVE  /\ stream[n].type \notin DOMAIN StatusOf => StatusNow(n) = StatusNow(n - 1)
         /\ stream[n].type \in DOMAIN StatusOf => StatusNow(n) = StatusOf[stream[n].type]
<1> DEFINE T == DOMAIN StatusOf
<1> HIDE DEF T
<1>1. CASE stream[n].type \notin T
  <2>1. Typed(n, T) = Typed(n - 1, T)
    BY <1>1, TypedGrows
  <2>2. StatusNow(n) = StatusNow(n - 1)
    BY <2>1 DEF StatusNow, T
  <2> QED
    BY <1>1, <2>2 DEF T
<1>2. CASE stream[n].type \in T
  <2>1. Typed(n, T) = Typed(n - 1, T) \cup {n} /\ Typed(n - 1, T) \in SUBSET (1 .. n - 1)
    BY <1>2, TypedGrows
  <2>2. LastOf(Typed(n, T)) = n
    BY <2>1, NewLast
  <2>3. StatusNow(n) = StatusOf[stream[n].type]
    BY <2>2 DEF StatusNow, T
  <2> QED
    BY <1>2, <2>3 DEF T
<1> QED
  BY <1>1, <1>2 DEF T

Paid(n) == Cardinality(Typed(n, {"payment_received"}))

LEMMA PaymentsMove ==
  ASSUME NEW n \in Nat \ {0}
  PROVE  /\ stream[n].type # "payment_received" => Paid(n) = Paid(n - 1)
         /\ stream[n].type = "payment_received" => Paid(n) = Paid(n - 1) + 1
<1> DEFINE T == {"payment_received"}
           S == Typed(n - 1, T)
<1>1. CASE stream[n].type \notin T
  <2>1. Typed(n, T) = S
    BY <1>1, TypedGrows
  <2> QED
    BY <1>1, <2>1 DEF Paid
<1>2. CASE stream[n].type \in T
  <2>1. Typed(n, T) = S \cup {n} /\ S \in SUBSET (1 .. n - 1)
    BY <1>2, TypedGrows
  <2>2. IsFiniteSet(S) /\ n \notin S
    <3>1. IsFiniteSet(1 .. n - 1)
      BY FS_Interval
    <3> QED
      BY <2>1, <3>1, FS_Subset
  <2>3. Cardinality(S \cup {n}) = Cardinality(S) + 1
    <3> HIDE DEF S
    <3> QED
      BY <2>2, FS_AddElement
  <2> QED
    BY <1>2, <2>1, <2>3 DEF Paid
<1> QED
  BY <1>1, <1>2

State(items, subtotal, tax, discount, total, payments, status) ==
    [items |-> items, subtotal |-> subtotal, tax |-> tax, discount |-> discount, total |-> total,
     payments |-> payments, status |-> status]

LEMMA SaidIs ==
  ASSUME NEW n
  PROVE  Said(n) = State(ItemsNow(n), Lines(ItemsNow(n)), Taxes(ItemsNow(n)), DiscountNow(n),
                         Lines(ItemsNow(n)) + Taxes(ItemsNow(n)) - DiscountNow(n), Paid(n), StatusNow(n))
  BY DEF Said, State, Paid

\* A state whose totals are made again says what its items and discount say.
LEMMA Recalculated ==
  ASSUME NEW i, NEW b, NEW t, NEW d, NEW o, NEW p, NEW s, NEW x
  PROVE  /\ recalculate_totals([State(i, b, t, d, o, p, s) EXCEPT !.items = x])
              = State(x, Lines(x), Taxes(x), d, Lines(x) + Taxes(x) - d, p, s)
         /\ recalculate_totals([State(i, b, t, d, o, p, s) EXCEPT !.discount = x])
              = State(i, Lines(i), Taxes(i), x, Lines(i) + Taxes(i) - x, p, s)
<1>1. [State(i, b, t, d, o, p, s) EXCEPT !.items = x] = State(x, b, t, d, o, p, s)
  BY DEF State
<1>2. [State(i, b, t, d, o, p, s) EXCEPT !.discount = x] = State(i, b, t, x, o, p, s)
  BY DEF State
<1>3. \A y, e : recalculate_totals(State(y, b, t, e, o, p, s))
                  = State(y, Lines(y), Taxes(y), e, Lines(y) + Taxes(y) - e, p, s)
  <2> TAKE y, e
  <2> DEFINE r == State(y, b, t, e, o, p, s)
  <2>1. r.items = y /\ r.discount = e
    BY DEF State
  <2>2. recalculate_totals(r) = [r EXCEPT !.subtotal = Lines(y), !.tax = Taxes(y),
                                          !.total = Lines(y) + Taxes(y) - e]
    BY <2>1 DEF recalculate_totals
  <2>3. ASSUME NEW u, NEW v, NEW w
        PROVE  [r EXCEPT !.subtotal = u, !.tax = v, !.total = w] = State(y, u, v, e, w, p, s)
    <3>1. [r EXCEPT !.subtotal = u] = State(y, u, t, e, o, p, s)
      BY DEF State
    <3>2. [State(y, u, t, e, o, p, s) EXCEPT !.tax = v] = State(y, u, v, e, o, p, s)
      BY DEF State
    <3>3. [State(y, u, v, e, o, p, s) EXCEPT !.total = w] = State(y, u, v, e, w, p, s)
      BY DEF State
    <3>4. [r EXCEPT !.subtotal = u, !.tax = v, !.total = w]
            = [[[r EXCEPT !.subtotal = u] EXCEPT !.tax = v] EXCEPT !.total = w]
      <4> HIDE DEF r
      <4> QED
        OBVIOUS
    <3> HIDE DEF r
    <3> QED
      BY <3>1, <3>2, <3>3, <3>4
  <2> HIDE DEF r
  <2> QED
    BY <2>2, <2>3 DEF r
<1> QED
  BY <1>1, <1>2, <1>3

LEMMA ItemsMove ==
  ASSUME ProjectionTypeOK, NEW n \in 1 .. Len(stream)
  PROVE  /\ stream[n].type = "item_added" => ItemsNow(n) = item_added(ItemsNow(n - 1), stream[n])
         /\ stream[n].type = "item_removed" => ItemsNow(n) = Without(ItemsNow(n - 1), stream[n].product)
         /\ stream[n].type = "item_qty_changed" => ItemsNow(n) = item_qty_changed(ItemsNow(n - 1), stream[n])
         /\ stream[n].type \notin {"item_added", "item_removed", "item_qty_changed"} => ItemsNow(n) = ItemsNow(n - 1)
<1>0. n \in Nat \ {0}
  BY DEF ProjectionTypeOK
<1> DEFINE e == stream[n]
           A == {q \in Goods : Since(n, q) # {}}
           B == {q \in Goods : Since(n - 1, q) # {}}
<1>1. ItemsNow(n) = [p \in A |-> ItemNow(n, p)] /\ ItemsNow(n - 1) = [p \in B |-> ItemNow(n - 1, p)]
  BY DEF ItemsNow
<1>2. \A p \in Goods : p # e.product => Since(n, p) = Since(n - 1, p) /\ ItemNow(n, p) = ItemNow(n - 1, p)
  BY <1>0, ItemStays
<1>3. ASSUME e.type = "item_added" PROVE ItemsNow(n) = item_added(ItemsNow(n - 1), e)
  <2>1. e.product \in Goods
    BY <1>3, RowKinds
  <2>2. Since(n, e.product) # {}
    BY <1>3, ItemAdded
  <2>3. A = B \cup {e.product}
    BY <1>2, <2>1, <2>2
  <2>4. ASSUME e.product \notin B
        PROVE  ItemsNow(n) = With(ItemsNow(n - 1), e.product, [qty |-> e.qty, price |-> e.price, rate |-> e.rate])
    <3>1. ItemNow(n, e.product) = [qty |-> e.qty, price |-> e.price, rate |-> e.rate]
      BY <1>3, <2>1, <2>4, ItemAdded
    <3>2. \A p \in A : p # e.product => p \in B /\ ItemNow(n, p) = ItemNow(n - 1, p)
      BY <1>2, <2>3
    <3> HIDE DEF A, B
    <3>3. With(ItemsNow(n - 1), e.product, [qty |-> e.qty, price |-> e.price, rate |-> e.rate])
            = [p \in A |-> IF p = e.product THEN [qty |-> e.qty, price |-> e.price, rate |-> e.rate]
                           ELSE ItemNow(n - 1, p)]
      BY <1>1, <2>3, <3>2 DEF With
    <3> QED
      BY <1>1, <3>1, <3>2, <3>3
  <2>5. ASSUME e.product \in B
        PROVE  ItemsNow(n) = [ItemsNow(n - 1) EXCEPT ![e.product].qty = @ + e.qty]
    <3>1. ItemNow(n, e.product) = [ItemNow(n - 1, e.product) EXCEPT !.qty = @ + e.qty]
      BY <1>3, <2>1, <2>5, ItemAdded
    <3>2. A = B /\ \A p \in B : p # e.product => ItemNow(n, p) = ItemNow(n - 1, p)
      BY <1>2, <2>3, <2>5
    <3> HIDE DEF A, B
    <3> QED
      BY <1>1, <2>5, <3>1, <3>2
  <2>6. DOMAIN ItemsNow(n - 1) = B
    BY <1>1
  <2> QED
    BY <2>4, <2>5, <2>6 DEF item_added
<1>4. ASSUME e.type = "item_removed" PROVE ItemsNow(n) = Without(ItemsNow(n - 1), e.product)
  <2>1. Since(n, e.product) = {}
    BY <1>0, <1>4, ItemRemoved
  <2>2. A = B \ {e.product} /\ \A p \in A : ItemNow(n, p) = ItemNow(n - 1, p)
    BY <1>2, <2>1
  <2> HIDE DEF A, B
  <2> QED
    BY <1>1, <2>2 DEF Without
<1>5. ASSUME e.type = "item_qty_changed" PROVE ItemsNow(n) = item_qty_changed(ItemsNow(n - 1), e)
  <2>1. Since(n, e.product) = Since(n - 1, e.product)
    BY <1>5, ItemChanged
  <2>2. A = B /\ \A p \in B : p # e.product => ItemNow(n, p) = ItemNow(n - 1, p)
    BY <1>2, <2>1
  <2>3. e.product \in B => ItemNow(n, e.product) = [ItemNow(n - 1, e.product) EXCEPT !.qty = e.qty]
    BY <1>5, <2>1, ItemChanged
  <2> HIDE DEF A, B
  <2> QED
    BY <1>1, <2>2, <2>3 DEF item_qty_changed
<1>6. ASSUME e.type \notin {"item_added", "item_removed", "item_qty_changed"} PROVE ItemsNow(n) = ItemsNow(n - 1)
  <2>1. \A p \in Goods : Since(n, p) = Since(n - 1, p) /\ ItemNow(n, p) = ItemNow(n - 1, p)
    BY <1>0, <1>6, ItemStays
  <2> QED
    BY <1>1, <2>1
<1> QED
  BY <1>3, <1>4, <1>5, <1>6

\* The rows of one more event say what the projector makes of it.
LEMMA SaidNext ==
  ASSUME ProjectionTypeOK, NEW n \in 1 .. Len(stream)
  PROVE  Said(n) = apply_event(Said(n - 1), stream[n])
<1>0. n \in Nat \ {0}
  BY DEF ProjectionTypeOK
<1> DEFINE e == stream[n]
           m == n - 1
           i == ItemsNow(m)
           d == DiscountNow(m)
           Made(x, y) == State(x, Lines(x), Taxes(x), y, Lines(x) + Taxes(x) - y, Paid(m), StatusNow(m))
<1>1. Said(m) = Made(i, d)
  BY SaidIs
<1>2. Said(n) = State(ItemsNow(n), Lines(ItemsNow(n)), Taxes(ItemsNow(n)), DiscountNow(n),
                      Lines(ItemsNow(n)) + Taxes(ItemsNow(n)) - DiscountNow(n), Paid(n), StatusNow(n))
  BY SaidIs
<1>3. \A x : /\ recalculate_totals([Said(m) EXCEPT !.items = x]) = Made(x, d)
             /\ recalculate_totals([Said(m) EXCEPT !.discount = x]) = Made(i, x)
  BY <1>1, Recalculated
<1>4. Said(m).items = i
  BY <1>1 DEF State
<1>5. CASE e.type \in {"item_added", "item_removed", "item_qty_changed"}
  <2>1. DiscountNow(n) = d /\ Paid(n) = Paid(m) /\ StatusNow(n) = StatusNow(m)
    BY <1>0, <1>5, DiscountMoves, PaymentsMove, StatusMoves DEF Amended, StatusOf
  <2>2. apply_event(Said(m), e) = recalculate_totals([Said(m) EXCEPT !.items = ItemsNow(n)])
    <3>1. CASE e.type = "item_added"
      BY <1>4, <3>1, ItemsMove DEF apply_event, StatusOf
    <3>2. CASE e.type = "item_removed"
      BY <1>4, <3>2, ItemsMove DEF apply_event, StatusOf
    <3>3. CASE e.type = "item_qty_changed"
      BY <1>4, <3>3, ItemsMove DEF apply_event, StatusOf
    <3> QED
      BY <1>5, <3>1, <3>2, <3>3
  <2>3. apply_event(Said(m), e) = Made(ItemsNow(n), d)
    BY <1>3, <2>2
  <2> QED
    BY <1>2, <2>1, <2>3
<1>6. CASE e.type \in Amended
  <2>1. ItemsNow(n) = i /\ Paid(n) = Paid(m) /\ StatusNow(n) = StatusNow(m)
    BY <1>0, <1>6, ItemsMove, PaymentsMove, StatusMoves DEF Amended, StatusOf
  <2>2. apply_event(Said(m), e) = recalculate_totals([Said(m) EXCEPT !.discount = DiscountNow(n)])
    <3>1. CASE e.type = "discount_applied"
      BY <1>0, <3>1, DiscountMoves DEF apply_event, StatusOf
    <3>2. CASE e.type = "discount_removed"
      BY <1>0, <3>2, DiscountMoves DEF apply_event, StatusOf
    <3> QED
      BY <1>6, <3>1, <3>2 DEF Amended
  <2>3. apply_event(Said(m), e) = Made(i, DiscountNow(n))
    BY <1>3, <2>2
  <2> QED
    BY <1>2, <2>1, <2>3
<1>7. CASE e.type = "payment_received"
  <2>1. ItemsNow(n) = i /\ DiscountNow(n) = d /\ Paid(n) = Paid(m) + 1 /\ StatusNow(n) = StatusNow(m)
    BY <1>0, <1>7, ItemsMove, DiscountMoves, PaymentsMove, StatusMoves DEF Amended, StatusOf
  <2>2. apply_event(Said(m), e) = [Said(m) EXCEPT !.payments = Paid(m) + 1]
    <3>1. apply_event(Said(m), e) = [Said(m) EXCEPT !.payments = @ + 1]
      BY <1>7 DEF apply_event, StatusOf
    <3>2. Said(m).payments = Paid(m)
      BY <1>1 DEF State
    <3> QED
      BY <3>1, <3>2
  <2>3. [Said(m) EXCEPT !.payments = Paid(m) + 1]
          = State(i, Lines(i), Taxes(i), d, Lines(i) + Taxes(i) - d, Paid(m) + 1, StatusNow(m))
    BY <1>1 DEF State
  <2> QED
    BY <1>2, <2>1, <2>2, <2>3
<1>8. CASE e.type \in DOMAIN StatusOf
  <2>1. ItemsNow(n) = i /\ DiscountNow(n) = d /\ Paid(n) = Paid(m)
    BY <1>0, <1>8, ItemsMove, DiscountMoves, PaymentsMove DEF Amended, StatusOf
  <2>2. StatusNow(n) = StatusOf[e.type]
    BY <1>0, <1>8, StatusMoves
  <2>3. apply_event(Said(m), e) = [Said(m) EXCEPT !.status = StatusOf[e.type]]
    BY <1>8 DEF apply_event, StatusOf
  <2>4. [Said(m) EXCEPT !.status = StatusOf[e.type]]
          = State(i, Lines(i), Taxes(i), d, Lines(i) + Taxes(i) - d, Paid(m), StatusOf[e.type])
    BY <1>1 DEF State
  <2> QED
    BY <1>2, <2>1, <2>2, <2>3, <2>4
<1> QED
  BY <1>5, <1>6, <1>7, <1>8, RowKinds DEF Amended

\* What holds at 0, and one further wherever it holds, holds at N.
LEMMA UpTo ==
  ASSUME NEW N \in Nat, NEW E, 0 \in E, \A k \in 1 .. N : k - 1 \in E => k \in E
  PROVE  N \in E
<1> DEFINE Bad == (0 .. N) \ E
<1>1. Bad \in SUBSET Nat
  OBVIOUS
<1>2. ASSUME Bad # {} PROVE FALSE
  <2> DEFINE k == FirstOf(Bad)
  <2>1. k \in Bad /\ \A j \in Bad : k <= j
    BY <1>1, <1>2, SomeFirst
  <2> HIDE DEF k
  <2>2. k \in 1 .. N /\ k - 1 \in 0 .. N /\ k \notin E
    BY <2>1
  <2>3. k - 1 \in E
    BY <2>1, <2>2
  <2> QED
    BY <2>2, <2>3
<1> QED
  BY <1>2

\* For any rows, of whatever length and whatever order, the projector's fold over
\* a page of them is what they say.
LEMMA ProjectedIsSaid == ProjectionTypeOK => ProjectionAgrees
<1> SUFFICES ASSUME ProjectionTypeOK PROVE ProjectionAgrees
  OBVIOUS
<1> DEFINE N == Len(get_events)
           Fits(g, k) == g = [n \in 0 .. k |-> IF n = 0 THEN NothingYet
                                               ELSE apply_event(g[n - 1], get_events[n])]
           E == {k \in 0 .. N : \E g : Fits(g, k)}
           after == CHOOSE g : Fits(g, N)
<1>1. N \in Nat /\ N <= Len(stream) /\ \A n \in 1 .. N : get_events[n] = stream[n]
  <2>1. stream \in Seq(Rows) /\ PageSize \in Nat
    BY ProjectionAssumption DEF ProjectionTypeOK
  <2> QED
    BY <2>1 DEF get_events
<1> HIDE DEF N
<1>2. N \in E
  <2>1. 0 \in E
    <3>1. Fits([n \in 0 .. 0 |-> NothingYet], 0)
      OBVIOUS
    <3> HIDE DEF Fits
    <3> QED
      BY <1>1, <3>1
  <2>2. ASSUME NEW k \in 1 .. N, k - 1 \in E PROVE k \in E
    <3>1. PICK g : Fits(g, k - 1)
      BY <2>2
    <3> DEFINE h == [n \in 0 .. k |-> IF n = k THEN apply_event(g[k - 1], get_events[k]) ELSE g[n]]
    <3>2. \A n \in 0 .. k - 1 : h[n] = g[n]
      BY <1>1
    <3>3. \A n \in 0 .. k : h[n] = IF n = 0 THEN NothingYet ELSE apply_event(h[n - 1], get_events[n])
      BY <1>1, <3>1, <3>2
    <3>4. Fits(h, k)
      BY <3>3
    <3> HIDE DEF Fits, h
    <3> QED
      BY <1>1, <3>4
  <2> HIDE DEF E
  <2> QED
    BY <1>1, <2>1, <2>2, UpTo
<1>3. Fits(after, N)
  BY <1>2
<1>4. rebuild_state = after[N]
  BY DEF rebuild_state, N
<1> HIDE DEF after
<1> DEFINE G == {n \in 0 .. N : after[n] = Said(n)}
<1>5. 0 \in G
  BY <1>1, <1>3, SaidFirst
<1>6. ASSUME NEW n \in 1 .. N, n - 1 \in G PROVE n \in G
  <2>1. after[n] = apply_event(after[n - 1], stream[n]) /\ after[n - 1] = Said(n - 1)
    BY <1>1, <1>3, <1>6
  <2>2. Said(n) = apply_event(Said(n - 1), stream[n])
    BY <1>1, SaidNext
  <2> QED
    BY <2>1, <2>2
<1> HIDE DEF G
<1>7. N \in G
  BY <1>1, <1>5, <1>6, UpTo
<1>8. rebuild_state = Said(N)
  BY <1>4, <1>7 DEF G
<1> QED
  BY <1>8 DEF ProjectionAgrees, Said, N

LEMMA ProjectionSteps ==
  /\ ProjectionInit => ProjectionTypeOK
  /\ ProjectionTypeOK /\ [ProjectionNext]_stream => ProjectionTypeOK'
<1>1. ProjectionInit => ProjectionTypeOK
  BY ProjectionAssumption DEF ProjectionInit, ProjectionTypeOK
<1>2. ASSUME ProjectionTypeOK, NEW e \in Rows, append(e) PROVE ProjectionTypeOK'
  <2>1. stream' \in Seq(Rows) /\ Len(stream') = Len(stream) + 1
    BY <1>2, AppendProperties DEF append, ProjectionTypeOK
  <2>2. Len(stream) \in Nat /\ Len(stream) < MaxEvents
    BY <1>2, LenProperties DEF append, ProjectionTypeOK
  <2> QED
    BY <2>1, <2>2, ProjectionAssumption DEF ProjectionTypeOK
<1>3. ASSUME ProjectionTypeOK, UNCHANGED stream PROVE ProjectionTypeOK'
  BY <1>3 DEF ProjectionTypeOK
<1> QED
  BY <1>1, <1>2, <1>3 DEF ProjectionNext

\* Whatever events a sale's stream got, in whatever order and however often each,
\* what rebuild_state makes of the page it reads is what those events say: every
\* item's quantity and price, the discount, the totals, the payments and the status
\* (event_sourcing.py).
THEOREM SalesAreProjected == ProjectionSpec => []ProjectionAgrees
BY ProjectionSteps, ProjectedIsSaid, PTL DEF ProjectionSpec
=============================================================================
