------------------------------- MODULE Outbox -------------------------------
(***************************************************************************)
(* The domain events of the backend: the bridge from the legacy bus, the   *)
(* store domain_events written before the handlers run (the outbox), the   *)
(* dispatch to the handlers one after the other with an await between      *)
(* them, and the replay of what is not processed yet.  The store swallows  *)
(* the errors of every one of its writes.                                  *)
(***************************************************************************)
EXTENDS Naturals, Sequences, FiniteSets

CONSTANTS
    Published,    \* the events
    Handlers,     \* a sequence: the order in which a bus calls them
    Quiet,        \* those that catch their own errors
    MaxRetries,   \* max_retries of replay_unprocessed
    MaxReplays,   \* bound of a run: calls of replay_unprocessed
    MaxLost       \* bound of a run: writes of the store that fail

ASSUME OutboxAssumption ==
    LET names == {Handlers[k] : k \in DOMAIN Handlers}
    IN  Handlers \in Seq(names) /\ Quiet \subseteq names /\ {MaxRetries, MaxReplays, MaxLost} \subseteq Nat

VARIABLES
    store,        \* whether the bus was created with a database
    row,          \* domain_events, by event
    task,         \* the publish of each event, a task of its own
    replay,       \* the replay under way
    effects,      \* per event, how often each handler took effect
    replayed,     \* the events a replay marked as processed
    calls,
    lost

outbox == <<store, row, task, replay, effects, replayed, calls, lost>>

Absent == [stored |-> FALSE, processed |-> FALSE, retries |-> 0]
Waiting == [at |-> "none", event |-> CHOOSE e \in Published : TRUE, next |-> 1, failed |-> FALSE, todo |-> {}]

OutboxTypeOK ==
    /\ store \in BOOLEAN
    /\ \A e \in Published :
        /\ row[e].stored \in BOOLEAN /\ row[e].processed \in BOOLEAN /\ row[e].retries \in Nat
        /\ task[e].at \in {"none", "persist", "handle", "fail", "mark", "ended", "dead"}
        /\ task[e].next \in 1..Len(Handlers) + 1
        /\ effects[e] \in [DOMAIN Handlers -> Nat]
    /\ replay.at \in {"none", "take", "handle", "fail", "mark"} /\ replay.todo \subseteq Published
    /\ replayed \subseteq Published /\ calls \in 0..MaxReplays /\ lost \in 0..MaxLost

\* The application creates the bus without a database: get_enhanced_event_bus().
OutboxInit ==
    /\ store \in BOOLEAN
    /\ row = [e \in Published |-> Absent]
    /\ task = [e \in Published |-> [at |-> "none", next |-> 1, failed |-> FALSE]]
    /\ replay = Waiting
    /\ effects = [e \in Published |-> [k \in DOMAIN Handlers |-> 0]]
    /\ replayed = {}
    /\ calls = 0
    /\ lost = 0

\* A write of the store, or its failure, which nobody hears of.
Writes(e, change) ==
    \/ /\ row' = IF store /\ row[e].stored THEN [row EXCEPT ![e] = change] ELSE row
       /\ UNCHANGED lost
    \/ store /\ lost < MaxLost /\ lost' = lost + 1 /\ UNCHANGED row

mark_processed(e) == Writes(e, [row[e] EXCEPT !.processed = TRUE])
mark_failed(e) == Writes(e, [row[e] EXCEPT !.retries = @ + 1])

-----------------------------------------------------------------------------
\* Publishing.

\* The bridge makes a task of the publication: the sale does not wait for it.
on_legacy_event(e) ==
    /\ task[e].at = "none"
    /\ task' = [task EXCEPT ![e].at = "persist"]
    /\ UNCHANGED <<store, row, replay, effects, replayed, calls, lost>>

persist(e) ==
    /\ task[e].at = "persist"
    /\ \/ row' = (IF store THEN [row EXCEPT ![e].stored = TRUE] ELSE row) /\ UNCHANGED lost
       \/ store /\ lost < MaxLost /\ lost' = lost + 1 /\ UNCHANGED row
    /\ task' = [task EXCEPT ![e].at = IF Handlers = <<>> THEN "mark" ELSE "handle"]
    /\ UNCHANGED <<store, replay, effects, replayed, calls>>

\* Handler k takes effect, or fails; a quiet one does not raise.
Runs(e, k, raised) ==
    \/ /\ raised = FALSE
       /\ effects' = [effects EXCEPT ![e][k] = @ + 1]
    \/ /\ raised = FALSE /\ Handlers[k] \in Quiet
       /\ UNCHANGED effects
    \/ /\ raised = TRUE /\ Handlers[k] \notin Quiet
       /\ UNCHANGED effects

\* After the last handler, the mark; before it, the next.
After(next) == IF next > Len(Handlers) THEN "mark" ELSE "handle"

Handle(e) ==
    /\ task[e].at = "handle"
    /\ \E raised \in BOOLEAN :
        /\ Runs(e, task[e].next, raised)
        /\ task' = [task EXCEPT ![e] =
            IF raised THEN [at |-> "fail", next |-> @.next, failed |-> TRUE]
            ELSE [at |-> After(@.next + 1), next |-> @.next + 1, failed |-> @.failed]]
    /\ UNCHANGED <<store, row, replay, replayed, calls, lost>>

NoteFailure(e) ==
    /\ task[e].at = "fail"
    /\ mark_failed(e)
    /\ task' = [task EXCEPT ![e].at = After(task[e].next + 1), ![e].next = @ + 1]
    /\ UNCHANGED <<store, replay, effects, replayed, calls>>

\* A fault: the end of the handlers is taken for their success.
MarkAnyway(e) ==
    /\ task[e].at = "mark"
    /\ mark_processed(e)
    /\ task' = [task EXCEPT ![e].at = "ended"]
    /\ UNCHANGED <<store, replay, effects, replayed, calls>>

\* Marked as processed only if every handler succeeded.
Mark(e) ==
    /\ task[e].at = "mark"
    /\ IF task[e].failed THEN UNCHANGED <<row, lost>> ELSE mark_processed(e)
    /\ task' = [task EXCEPT ![e].at = "ended"]
    /\ UNCHANGED <<store, replay, effects, replayed, calls>>

-----------------------------------------------------------------------------
\* Replaying: the rows are read once, at the start.

Due(e) == row[e].stored /\ ~row[e].processed /\ row[e].retries < MaxRetries

replay_unprocessed ==
    /\ store /\ replay.at = "none" /\ calls < MaxReplays
    /\ calls' = calls + 1
    /\ replay' = [Waiting EXCEPT !.at = "take", !.todo = {e \in Published : Due(e)}]
    /\ UNCHANGED <<store, row, task, effects, replayed, lost>>

\* created_at may be the same for several: any order of them.
TakeNext ==
    /\ replay.at = "take"
    /\ IF replay.todo = {} THEN replay' = Waiting
       ELSE \E e \in replay.todo : replay' =
            [at |-> After(1), event |-> e, next |-> 1, failed |-> FALSE, todo |-> replay.todo \ {e}]
    /\ UNCHANGED <<store, row, task, effects, replayed, calls, lost>>

HandleAgain ==
    /\ replay.at = "handle"
    /\ \E raised \in BOOLEAN :
        /\ Runs(replay.event, replay.next, raised)
        /\ replay' = IF raised THEN [replay EXCEPT !.at = "fail", !.failed = TRUE]
                     ELSE [replay EXCEPT !.at = After(replay.next + 1), !.next = @ + 1]
    /\ UNCHANGED <<store, row, task, replayed, calls, lost>>

NoteFailureAgain ==
    /\ replay.at = "fail"
    /\ mark_failed(replay.event)
    /\ replay' = [replay EXCEPT !.at = After(replay.next + 1), !.next = @ + 1]
    /\ UNCHANGED <<store, task, effects, replayed, calls>>

\* publish returns normally whatever its handlers did, and the row is marked.
MarkReplayed ==
    /\ replay.at = "mark"
    /\ mark_processed(replay.event)
    /\ replayed' = replayed \cup {replay.event}
    /\ replay' = [replay EXCEPT !.at = "take"]
    /\ UNCHANGED <<store, task, effects, calls>>

Restart ==
    /\ task' = [e \in Published |->
            IF task[e].at \in {"none", "ended"} THEN task[e] ELSE [task[e] EXCEPT !.at = "dead"]]
    /\ replay' = Waiting
    /\ UNCHANGED <<store, row, effects, replayed, calls, lost>>

OutboxNext ==
    \/ \E e \in Published :
        on_legacy_event(e) \/ persist(e) \/ Handle(e) \/ NoteFailure(e) \/ Mark(e)
    \/ replay_unprocessed \/ TakeNext \/ HandleAgain \/ NoteFailureAgain \/ MarkReplayed
    \/ Restart

OutboxSpec == OutboxInit /\ [][OutboxNext]_outbox

-----------------------------------------------------------------------------
Loud(k) == Handlers[k] \notin Quiet

\* What the outbox keeps.  A row that no replay marked is processed only when
\* every handler that raises its errors took effect in its publication; an event
\* whose handlers all returned is left unprocessed once its task has ended only
\* if a write of the store failed, and then an event with a failed handler is
\* counted in its row, so that the replay takes no row for ever; no handler takes
\* effect twice but by a replay, and no more than once for each replay then.
OutboxKeeps ==
    \A e \in Published :
        /\ row[e].processed /\ e \notin replayed =>
            /\ ~task[e].failed
            /\ \A k \in DOMAIN Handlers : Loud(k) => effects[e][k] >= 1
        /\ store /\ task[e].at = "ended" /\ lost = 0 =>
            IF task[e].failed THEN row[e].retries > 0 ELSE row[e].processed
        /\ \A k \in DOMAIN Handlers : effects[e][k] <= 1 + calls
=============================================================================
