------------------------------ MODULE Admission ------------------------------
(***************************************************************************)
(* How a till's calls get through: the renderer's semaphore and its queue, *)
(* the limit of time after which a call is given up and, if it only reads, *)
(* repeated, and the pool of connections that the handlers of the node     *)
(* take from, some of them while they hold one.  A handler goes on when    *)
(* the till has given up.  One kind of call is the sale of a ticket.       *)
(***************************************************************************)
EXTENDS Integers, Sequences, FiniteSets

CONSTANTS
    Asking,    \* calls of the renderer at a time
    Serving,      \* handlers of the node at a time
    MAX_CONCURRENT_REQUESTS,  \* 20 in the code
    max_size,     \* of the pool, 10 in the code
    maxRetries,   \* of calls that only read, 2 in the code
    MaxLetIn,     \* bound of a run
    MaxCharges    \* bound of a run

ASSUME AdmissionAssumption ==
    /\ {MAX_CONCURRENT_REQUESTS, max_size} \subseteq Nat \ {0}
    /\ {maxRetries, MaxLetIn, MaxCharges} \subseteq Nat

VARIABLES
    activeRequests,
    requestQueue,
    fetching,
    serving,
    letIn,        \* how many calls the queue let in
    charging,     \* chargingRef: a ticket is being sent
    ticks         \* of tickets: charged, given up by the till, sold by the node, shown as sold

admission == <<activeRequests, requestQueue, fetching, serving, letIn, charging, ticks>>

Nobody == [at |-> "idle"]
NoTask == [kind |-> "none"]

\* What a handler does about connections.  verify_token takes one to look for
\* a revocation and gives it back; create_sale then takes its own, and most
\* handlers hold the one of get_db; those of sync ask for get_db's before
\* verify_token runs; remote_cancel_sale holds get_db's when
\* perform_sale_cancellation asks for another.
Program ==
    [read |-> <<"take", "give", "take", "answer", "give">>,
     sale |-> <<"take", "give", "take", "commit", "give", "answer">>,
     sync |-> <<"take", "take", "give", "answer", "give">>,
     remote_cancel |-> <<"take", "give", "take", "take", "give", "answer", "give">>]
Nested == {"sync", "remote_cancel"}
Repeated == {"read", "sync"}

AdmissionTypeOK ==
    /\ activeRequests \in Nat /\ requestQueue \in Seq(Asking) /\ letIn \in 0..MaxLetIn
    /\ \A c \in Asking :
        /\ fetching[c].at \in {"idle", "queued", "sent", "waiting"}
        /\ fetching[c].at # "idle" => fetching[c].kind \in DOMAIN Program /\ fetching[c].tries \in 0..maxRetries
    /\ \A t \in Serving : serving[t].kind = "none" \/ serving[t].kind \in DOMAIN Program
    /\ charging \in BOOLEAN
    /\ ticks \in [charged : 0..MaxCharges, given_up : Nat, sold : Nat, shown : Nat]

AdmissionInit ==
    /\ activeRequests = 0 /\ requestQueue = <<>> /\ letIn = 0
    /\ fetching = [c \in Asking |-> Nobody] /\ serving = [t \in Serving |-> NoTask]
    /\ charging = FALSE
    /\ ticks = [charged |-> 0, given_up |-> 0, sold |-> 0, shown |-> 0]

Sent == {c \in Asking : fetching[c].at = "sent"}
Busy(t) == serving[t].kind # "none"

-----------------------------------------------------------------------------
\* The renderer.

acquireSlot(c, kind, tries) ==
    IF activeRequests < MAX_CONCURRENT_REQUESTS
    THEN /\ activeRequests' = activeRequests + 1
         /\ fetching' = [fetching EXCEPT ![c] = [at |-> "sent", kind |-> kind, tries |-> tries]]
         /\ UNCHANGED requestQueue
    ELSE /\ letIn + Len(requestQueue) < MaxLetIn
         /\ requestQueue' = Append(requestQueue, c)
         /\ fetching' = [fetching EXCEPT ![c] = [at |-> "queued", kind |-> kind, tries |-> tries]]
         /\ UNCHANGED activeRequests

\* A fault: the slot that is given back is the one that the next call takes.
handed_over == IF requestQueue # <<>> THEN activeRequests ELSE activeRequests - 1

\* The callback of the next call counts it, and the call that ends is not taken off.
counted == IF requestQueue # <<>> THEN activeRequests + 1 ELSE activeRequests - 1

releaseSlot(c, after) ==
    /\ activeRequests' = counted
    /\ IF requestQueue = <<>>
       THEN fetching' = [fetching EXCEPT ![c] = after] /\ UNCHANGED <<requestQueue, letIn>>
       ELSE /\ fetching' = [fetching EXCEPT ![c] = after, ![Head(requestQueue)].at = "sent"]
            /\ requestQueue' = Tail(requestQueue) /\ letIn' = letIn + 1

Asks(c, kind) ==
    /\ fetching[c].at = "idle"
    /\ acquireSlot(c, kind, 0)
    /\ UNCHANGED <<serving, letIn, charging, ticks>>

handleCharge(c) ==
    /\ fetching[c].at = "idle" /\ ~charging /\ ticks.charged < MaxCharges
    /\ acquireSlot(c, "sale", 0)
    /\ charging' = TRUE /\ ticks' = [ticks EXCEPT !.charged = @ + 1]
    /\ UNCHANGED <<serving, letIn>>

\* The limit of time, or a connection that is lost: the handler knows nothing of
\* it.  The ticket stays as it is and may be charged again.
GivesUp(c) ==
    /\ fetching[c].at = "sent"
    /\ releaseSlot(c, IF fetching[c].kind \in Repeated /\ fetching[c].tries < maxRetries
                      THEN [fetching[c] EXCEPT !.at = "waiting", !.tries = @ + 1] ELSE Nobody)
    /\ serving' = [t \in Serving |-> IF Busy(t) /\ serving[t].by = {c} THEN [serving[t] EXCEPT !.by = {}] ELSE serving[t]]
    /\ IF fetching[c].kind = "sale" THEN charging' = FALSE /\ ticks' = [ticks EXCEPT !.given_up = @ + 1]
       ELSE UNCHANGED <<charging, ticks>>

apiFetchAgain(c) ==
    /\ fetching[c].at = "waiting"
    /\ acquireSlot(c, fetching[c].kind, fetching[c].tries)
    /\ UNCHANGED <<serving, letIn, charging, ticks>>

-----------------------------------------------------------------------------
\* The node.

Held(t) == IF Busy(t) THEN serving[t].has ELSE 0
Connections == {held \in Serving \X {1, 2} : held[2] <= Held(held[1])}
Idle == max_size - Cardinality(Connections)
Does(t, op) == Busy(t) /\ Program[serving[t].kind][serving[t].pc] = op

\* The handler goes on to its next step, with so many connections more, for whom
\* it then serves.
LastStep(t) == serving[t].pc = Len(Program[serving[t].kind])
GoesOn(t, more, by) ==
    LET next == [serving[t] EXCEPT !.pc = @ + 1, !.has = @ + more, !.by = by]
    IN  serving' = [serving EXCEPT ![t] = IF LastStep(t) THEN NoTask ELSE next]

Arrives(c, t) ==
    /\ fetching[c].at = "sent" /\ ~Busy(t)
    /\ \A u \in Serving : Busy(u) => serving[u].by # {c}
    /\ serving' = [serving EXCEPT ![t] = [kind |-> fetching[c].kind, pc |-> 1, by |-> {c}, ok |-> TRUE, has |-> 0]]
    /\ UNCHANGED <<activeRequests, requestQueue, fetching, letIn, charging, ticks>>

\* pool.acquire() waits without a limit.
Takes(t) ==
    /\ Does(t, "take") /\ Idle > 0
    /\ GoesOn(t, 1, serving[t].by)
    /\ UNCHANGED <<activeRequests, requestQueue, fetching, letIn, charging, ticks>>

Gives(t) ==
    /\ Does(t, "give")
    /\ GoesOn(t, -1, serving[t].by)
    /\ UNCHANGED <<activeRequests, requestQueue, fetching, letIn, charging, ticks>>

\* The sale is committed, or refused.
Commits(t) ==
    /\ Does(t, "commit")
    /\ \/ GoesOn(t, 0, serving[t].by) /\ ticks' = [ticks EXCEPT !.sold = @ + 1]
       \/ /\ LET refused == [serving[t] EXCEPT !.pc = @ + 1, !.ok = FALSE]
             IN  serving' = [serving EXCEPT ![t] = refused]
          /\ UNCHANGED ticks
    /\ UNCHANGED <<activeRequests, requestQueue, fetching, letIn, charging>>

\* Nobody hears the answer to a call that was given up.
Answers(t) ==
    /\ Does(t, "answer")
    /\ GoesOn(t, 0, {})
    /\ IF serving[t].by = {} THEN UNCHANGED <<activeRequests, requestQueue, fetching, letIn, charging, ticks>>
       ELSE /\ \A c \in serving[t].by : releaseSlot(c, Nobody)
            /\ IF serving[t].kind # "sale" THEN UNCHANGED <<charging, ticks>>
               ELSE /\ charging' = FALSE
                    /\ ticks' = IF serving[t].ok THEN [ticks EXCEPT !.shown = @ + 1] ELSE ticks

AdmissionNext ==
    \/ \E c \in Asking :
        \/ \E kind \in DOMAIN Program \ {"sale"} : Asks(c, kind)
        \/ handleCharge(c) \/ GivesUp(c) \/ apiFetchAgain(c)
        \/ \E t \in Serving : Arrives(c, t)
    \/ \E t \in Serving : Takes(t) \/ Gives(t) \/ Commits(t) \/ Answers(t)

AdmissionSpec == AdmissionInit /\ [][AdmissionNext]_admission

-----------------------------------------------------------------------------
\* Every call that the queue let in keeps a slot for ever: no more calls are on
\* their way than there are slots, but when as many were let in as there are
\* slots, calls wait with none on its way and nothing left to wake them.
SlotsCounted ==
    /\ activeRequests = Cardinality(Sent) + letIn
    /\ Cardinality(Sent) <= MAX_CONCURRENT_REQUESTS
    /\ requestQueue # <<>> /\ Sent = {} => letIn >= MAX_CONCURRENT_REQUESTS

\* The handlers wait for each other for good only if every connection is held
\* by one that asks for its second.
PoolMoves ==
    LET holders == {t \in Serving : Held(t) > 0} IN
    Idle = 0 /\ (\A t \in holders : Does(t, "take"))
        => Cardinality({t \in holders : serving[t].kind \in Nested}) = max_size

\* What the till shows as sold was sold, and what was sold besides are charges
\* that the till gave up, or the one it waits for.
TicketsSold ==
    /\ ticks.shown <= ticks.sold
    /\ ticks.sold <= ticks.shown + ticks.given_up + (IF charging THEN 1 ELSE 0)

AdmissionHolds == SlotsCounted /\ PoolMoves /\ TicketsSold
=============================================================================
