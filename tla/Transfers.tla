----------------------------- MODULE Transfers -----------------------------
(***************************************************************************)
(* The inventory transfer saga: four steps that commit one by one, each    *)
(* with the step that undoes it, run by an orchestrator that writes a      *)
(* journal on connections of its own.  The write of the journal may be     *)
(* lost without a word, a step may commit and answer an error, and the     *)
(* process may die anywhere.                                               *)
(***************************************************************************)
EXTENDS Integers, FiniteSets

CONSTANTS
    Transfers,
    Items,        \* the products of the source branch
    ItemOf,       \* what a transfer moves
    QtyOf,
    StartStock,
    MaxSold,      \* bound of a run: units the tills sell of an item
    MaxFaults     \* bound of a run: lost answers, failed undos and lost records

ASSUME TransferAssumption ==
    /\ IsFiniteSet(Transfers)
    /\ ItemOf \in [Transfers -> Items] /\ QtyOf \in [Transfers -> Nat \ {0}]
    /\ StartStock \in [Items -> Nat] /\ {MaxSold, MaxFaults} \subseteq Nat

Steps == 1..4       \* reserve_source, create_transfer, receive_destination, confirm_deduction

VARIABLES
    columns,      \* whether inventory_movements takes the reference the saga writes
    stock,
    shadow,       \* shadow_stock: what is promised to transfers
    moves,        \* the transfer movements recorded, as <<transfer, "OUT" or "IN">>
    saga,         \* where the orchestrator is with each transfer
    instance,     \* saga_instances.state
    journal,      \* saga_steps
    sold,
    faults,
    hurt          \* the transfers a fault or a crash touched

transfers == <<columns, stock, shadow, moves, saga, instance, journal, sold, faults, hurt>>
books == <<stock, shadow, moves>>
others == <<columns, sold>>

TransfersTypeOK ==
    /\ columns \in {"integer", "text"}
    /\ stock \in [Items -> Int] /\ shadow \in [Items -> Int]
    /\ moves \subseteq Transfers \X {"OUT", "IN"}
    /\ \A t \in Transfers :
        /\ saga[t].at \in {"idle", "act", "record", "undo", "note", "completed", "failed", "dead"}
        /\ saga[t].step \in 0..5
    /\ instance \in [Transfers -> {"none", "started", "completed", "failed"}]
    /\ journal \subseteq Transfers \X Steps \X {"completed", "failed", "compensated", "compensation_failed"}
    /\ sold \in [Items -> 0..MaxSold] /\ faults \in 0..MaxFaults /\ hurt \subseteq Transfers

\* inventory_movements.reference_id is an INTEGER in schema.sql; the saga writes "TRF-...".
TransfersInit ==
    /\ columns \in {"integer", "text"}
    /\ stock = StartStock
    /\ shadow = [i \in Items |-> 0]
    /\ moves = {}
    /\ saga = [t \in Transfers |-> [at |-> "idle", step |-> 0]]
    /\ instance = [t \in Transfers |-> "none"]
    /\ journal = {}
    /\ sold = [i \in Items |-> 0]
    /\ faults = 0
    /\ hurt = {}

At(t, at) == saga[t].at = at
Moves(t, at, step) == saga' = [saga EXCEPT ![t] = [at |-> at, step |-> step]]
\* A fault of the environment, at the cost of the run's bound.
Fault(t) == faults < MaxFaults /\ faults' = faults + 1 /\ hurt' = hurt \cup {t}
Sound == UNCHANGED <<faults, hurt>>

-----------------------------------------------------------------------------
\* The steps and what undoes them, each one transaction.

Books(i, out, held) ==
    /\ stock' = [stock EXCEPT ![i] = @ - out]
    /\ shadow' = [shadow EXCEPT ![i] = @ + held]
    /\ UNCHANGED moves

\* A fault: what other transfers hold is not counted.
reserve_unchecked(t) ==
    /\ stock[ItemOf[t]] >= QtyOf[t]
    /\ Books(ItemOf[t], 0, QtyOf[t])

reserve_source_stock(t) ==
    /\ stock[ItemOf[t]] - shadow[ItemOf[t]] >= QtyOf[t]
    /\ Books(ItemOf[t], 0, QtyOf[t])

release_source_reservation(t) == Books(ItemOf[t], 0, -QtyOf[t])

create_transfer_record(t) ==
    /\ columns = "text"
    /\ moves' = moves \cup {<<t, "OUT">>}
    /\ UNCHANGED <<stock, shadow>>

\* Deletes by reference: the OUT movement and any other of the transfer.
cancel_transfer_record(t) ==
    /\ moves' = moves \ ({t} \X {"OUT", "IN"})
    /\ UNCHANGED <<stock, shadow>>

\* Records the movement; no stock is added anywhere.
receive_at_destination(t) ==
    /\ columns = "text"
    /\ moves' = moves \cup {<<t, "IN">>}
    /\ UNCHANGED <<stock, shadow>>

return_from_destination(t) ==
    /\ moves' = moves \ {<<t, "IN">>}
    /\ UNCHANGED <<stock, shadow>>

\* Does not look at the stock again.
confirm_source_deduction(t) == Books(ItemOf[t], QtyOf[t], -QtyOf[t])

Action(t, n) ==
    \/ n = 1 /\ reserve_source_stock(t)
    \/ n = 2 /\ create_transfer_record(t)
    \/ n = 3 /\ receive_at_destination(t)
    \/ n = 4 /\ confirm_source_deduction(t)

\* The last step has no compensation, and is never among those to undo.
Compensation(t, n) ==
    \/ n = 1 /\ release_source_reservation(t)
    \/ n = 2 /\ cancel_transfer_record(t)
    \/ n = 3 /\ return_from_destination(t)

-----------------------------------------------------------------------------
\* The orchestrator.

\* A record refers to the row of its saga: without it, it is refused.
persist_step(t, n, status) ==
    \/ /\ journal' = IF instance[t] = "none" THEN journal ELSE journal \cup {<<t, n, status>>}
       /\ Sound
    \/ instance[t] # "none" /\ UNCHANGED journal /\ Fault(t)

execute(t) ==
    /\ At(t, "idle")
    /\ Moves(t, "act", 1)
    /\ \/ instance' = [instance EXCEPT ![t] = "started"] /\ Sound
       \/ UNCHANGED instance /\ Fault(t)
    /\ UNCHANGED <<books, journal, others>>

StepDone(t) ==
    /\ At(t, "act")
    /\ Action(t, saga[t].step)
    /\ Moves(t, "record", saga[t].step)
    /\ Sound
    /\ UNCHANGED <<instance, journal, others>>

\* A fault: the record carries the number of the step to come.
RecordNext(t) ==
    /\ At(t, "record")
    /\ persist_step(t, saga[t].step + 1, "completed")
    /\ Moves(t, "act", saga[t].step + 1)
    /\ UNCHANGED <<books, instance, others>>

RecordDone(t) ==
    /\ At(t, "record")
    /\ persist_step(t, saga[t].step, "completed")
    /\ Moves(t, "act", saga[t].step + 1)
    /\ UNCHANGED <<books, instance, others>>

\* A step that raises is not undone: only those before it are.
StepFails(t) ==
    /\ At(t, "act") /\ saga[t].step \in Steps
    /\ UNCHANGED books
    /\ persist_step(t, saga[t].step, "failed")
    /\ Moves(t, "undo", saga[t].step - 1)
    /\ UNCHANGED <<instance, others>>

\* It committed, and its answer was lost.
StepUnsure(t) ==
    /\ At(t, "act")
    /\ Action(t, saga[t].step)
    /\ Fault(t)
    /\ journal' = IF instance[t] = "none" THEN journal ELSE journal \cup {<<t, saga[t].step, "failed">>}
    /\ Moves(t, "undo", saga[t].step - 1)
    /\ UNCHANGED <<instance, others>>

\* A fault: the undoing begins one step too early and leaves the first behind.
UndoSkipsFirst(t) ==
    /\ At(t, "undo") /\ saga[t].step > 0
    /\ IF saga[t].step > 1 THEN Compensation(t, saga[t].step) ELSE UNCHANGED books
    /\ Moves(t, "note", saga[t].step)
    /\ Sound
    /\ UNCHANGED <<instance, journal, others>>

Undo(t) ==
    /\ At(t, "undo")
    /\ Compensation(t, saga[t].step)
    /\ Moves(t, "note", saga[t].step)
    /\ Sound
    /\ UNCHANGED <<instance, journal, others>>

NoteUndone(t) ==
    /\ At(t, "note")
    /\ persist_step(t, saga[t].step, "compensated")
    /\ Moves(t, "undo", saga[t].step - 1)
    /\ UNCHANGED <<books, instance, others>>

\* "MANUAL INTERVENTION REQUIRED": the rest is undone all the same.
UndoFails(t) ==
    /\ At(t, "undo") /\ saga[t].step > 0
    /\ Compensation(t, saga[t].step) \/ UNCHANGED books
    /\ Fault(t)
    /\ journal' = IF instance[t] = "none" THEN journal
                  ELSE journal \cup {<<t, saga[t].step, "compensation_failed">>}
    /\ Moves(t, "undo", saga[t].step - 1)
    /\ UNCHANGED <<instance, others>>

update_saga_state(t, state) ==
    \/ /\ instance' = [instance EXCEPT ![t] = IF @ = "none" THEN @ ELSE state]
       /\ Sound
    \/ UNCHANGED instance /\ Fault(t)

Completes(t) ==
    /\ At(t, "act") /\ saga[t].step = 5
    /\ update_saga_state(t, "completed")
    /\ Moves(t, "completed", 5)
    /\ UNCHANGED <<books, journal, others>>

Fails(t) ==
    /\ At(t, "undo") /\ saga[t].step = 0
    /\ update_saga_state(t, "failed")
    /\ Moves(t, "failed", 0)
    /\ UNCHANGED <<books, journal, others>>

Running(t) == saga[t].at \in {"act", "record", "undo", "note"}

\* No code reads the journal back when the process starts again.
Crash ==
    /\ \E t \in Transfers : Running(t)
    /\ saga' = [t \in Transfers |-> IF Running(t) THEN [saga[t] EXCEPT !.at = "dead"] ELSE saga[t]]
    /\ hurt' = hurt \cup {t \in Transfers : Running(t)}
    /\ UNCHANGED <<books, instance, journal, faults, others>>

\* A sale looks at stock alone, whatever is promised to transfers.
Sell(i) ==
    /\ stock[i] > 0 /\ sold[i] < MaxSold
    /\ stock' = [stock EXCEPT ![i] = @ - 1]
    /\ sold' = [sold EXCEPT ![i] = @ + 1]
    /\ UNCHANGED <<columns, shadow, moves, saga, instance, journal, faults, hurt>>

TransfersNext ==
    \/ \E t \in Transfers :
        \/ execute(t) \/ StepDone(t) \/ RecordDone(t) \/ StepFails(t) \/ StepUnsure(t)
        \/ Undo(t) \/ NoteUndone(t) \/ UndoFails(t) \/ Completes(t) \/ Fails(t)
    \/ Crash
    \/ \E i \in Items : Sell(i)

TransfersSpec == TransfersInit /\ [][TransfersNext]_transfers

-----------------------------------------------------------------------------
Of(i) == {t \in Transfers : ItemOf[t] = i}
\* The sum of the quantities of some transfers, counted unit by unit.
Units(S) == UNION {{t} \X (1..QtyOf[t]) : t \in S}
Total(S) == Cardinality(Units(S))
Ended(t) == saga[t].at \in {"idle", "completed", "failed"}
Moved(i) == {t \in Of(i) : At(t, "completed")}
\* What a reader of the journal takes to stand.
Standing(t, n) == <<t, n, "completed">> \in journal /\ <<t, n, "compensated">> \notin journal

\* A transfer takes place whole or not at all.  Once those of a product have
\* ended, and neither a crash nor a lost answer touched them, nothing is left
\* promised, the stock is what the completed ones and the tills left, their two
\* movements are the only ones recorded and saga_instances says which they are.
\* Before that, and after a crash, what is promised never exceeds the stock by
\* more than the tills sold of it; and after any fault, what is promised beyond
\* the transfers at work is of one that was hurt.  The journal of a process that
\* died is at most one step behind the movements: that of the step it was at.
TransferWhole ==
    \A i \in Items :
        /\ faults = 0 => shadow[i] >= 0 /\ shadow[i] <= stock[i] + sold[i]
        /\ (\A t \in Of(i) : Ended(t) /\ t \notin hurt) =>
            /\ shadow[i] = 0
            /\ stock[i] = StartStock[i] - sold[i] - Total(Moved(i))
            /\ {m \in moves : m[1] \in Of(i)} = Moved(i) \X {"OUT", "IN"}
            /\ \A t \in Of(i) : ~At(t, "idle") => instance[t] = saga[t].at
        /\ shadow[i] <= Total({t \in Of(i) : Running(t) \/ t \in hurt})
        /\ faults = 0 => \A t \in Of(i) :
            /\ (<<t, "OUT">> \in moves <=> Standing(t, 2)) \/ saga[t].step = 2
            /\ (<<t, "IN">> \in moves <=> Standing(t, 3)) \/ saga[t].step = 3
=============================================================================
