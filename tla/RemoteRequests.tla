--------------------------- MODULE RemoteRequests ---------------------------
(***************************************************************************)
(* A request of the owner's app, from the control plane that queues it to  *)
(* the node that polls for it, the manager of the branch who resolves it,  *)
(* and the acknowledgement that goes back.  A poll's reply may be lost, a  *)
(* stored batch may break off, the node may crash, an acknowledgement may  *)
(* never arrive: the code retries none of them.                            *)
(***************************************************************************)
EXTENDS FiniteSets, Naturals

CONSTANTS
    Requests,     \* the requests an owner may send
    Managers,     \* the sessions of managers at the branch
    Skus,         \* the products of the branch
    Prices,       \* the prices a product may be given, all above zero
    Keys,         \* the idempotency keys, one drawn at random for a client that sends none
    KeyOf,        \* the idempotency key of each request
    Kind,         \* "price", "other" (a type the node does not know) or "blank" (no sku or price)
    Wanted,       \* the price change a "price" request asks for: its sku and its price
    BatchLimit    \* how many requests a poll takes (20)

ASSUME RequestAssumption ==
    /\ KeyOf \in [Requests -> Keys]
    /\ Kind \in [Requests -> {"price", "other", "blank"}]
    /\ Wanted \in [Requests -> [sku : Skus, price : Prices]]
    /\ BatchLimit \in Nat \ {0}

VARIABLES
    form,         \* what the drivers make of a JSON column: "object", or "text" with no codec set
    made,         \* how many requests the control plane has
    id,           \* the number of each, in the order they were made
    cloud,        \* the control plane's status of each request
    late,         \* the requests whose expiry has passed
    poll,         \* the node's polling loop
    pending,      \* the node's status of each request
    alert,        \* the notification of each request on the node
    price,        \* the price of each product
    audit,        \* how often each request changed a price, as audit_log has it
    manager       \* what each manager's call is about to acknowledge

remote == <<form, made, id, cloud, late, poll, pending, alert, price, audit, manager>>
local == <<pending, alert, price, audit, manager>>

Final == {"applied", "rejected", "failed"}
CloudStatus == {"absent", "queued", "delivered"} \cup Final
LocalStatus == {"absent", "pending_confirmation"} \cup Final
AlertStatus == {"none", "unsent", "sent", "shown"}
Asleep == [at |-> "asleep", batch |-> {}]
Acks == [request : Requests, status : Final]
NoAck == [request |-> "none"]

TypeOK ==
    /\ form \in {"object", "text"}
    /\ made \in Nat
    /\ id \in [Requests -> Nat]
    /\ cloud \in [Requests -> CloudStatus]
    /\ late \subseteq Requests
    /\ poll \in [at : {"asleep", "asking", "storing", "noting"}, batch : SUBSET Requests]
    /\ poll.at = "noting" => poll.batch # {}
    /\ pending \in [Requests -> LocalStatus]
    /\ alert \in [Requests -> AlertStatus]
    /\ price \in [Skus -> Prices]
    /\ audit \in [Requests -> Nat]
    /\ manager \in [Managers -> Acks \cup {NoAck}]

Init ==
    /\ form \in {"object", "text"}
    /\ made = 0
    /\ id = [r \in Requests |-> 0]
    /\ cloud = [r \in Requests |-> "absent"]
    /\ late = {}
    /\ poll = Asleep
    /\ pending = [r \in Requests |-> "absent"]
    /\ alert = [r \in Requests |-> "none"]
    /\ price \in [Skus -> Prices]
    /\ audit = [r \in Requests |-> 0]
    /\ manager = [m \in Managers |-> NoAck]

-----------------------------------------------------------------------------
\* The control plane.

\* A branch has one request for a key; a second insert breaks the unique index.
Create(r) ==
    /\ cloud[r] = "absent"
    /\ \A q \in Requests : KeyOf[q] = KeyOf[r] => cloud[q] = "absent"
    /\ cloud' = [cloud EXCEPT ![r] = "queued"]
    /\ made' = made + 1
    /\ id' = [id EXCEPT ![r] = made + 1]
    /\ UNCHANGED <<form, late, poll, local>>

Expire(r) ==
    /\ cloud[r] # "absent"
    /\ late' = late \cup {r}
    /\ UNCHANGED <<form, made, id, cloud, poll, local>>

\* A fault: requests nobody acknowledged are offered again.
OfferedAgain == {r \in Requests : cloud[r] \in {"queued", "delivered"} /\ r \notin late}

Offered == {r \in Requests : cloud[r] = "queued" /\ r \notin late}
Taken == {r \in Offered : Cardinality({q \in Offered : id[q] < id[r]}) < BatchLimit}

\* The oldest requests are marked delivered and then sent as the reply.
NodePending ==
    /\ poll.at = "asking"
    /\ cloud' = [r \in Requests |-> IF r \in Taken THEN "delivered" ELSE cloud[r]]
    /\ poll' = [at |-> "storing", batch |-> Taken]
    /\ UNCHANGED <<form, made, id, late, local>>

\* The acknowledgement sets the status, whatever it was.
NodeAck(m) ==
    /\ manager[m] # NoAck
    /\ cloud' = [cloud EXCEPT ![manager[m].request] = manager[m].status]
    /\ manager' = [manager EXCEPT ![m] = NoAck]
    /\ UNCHANGED <<form, made, id, late, poll, pending, alert, price, audit>>

-----------------------------------------------------------------------------
\* The polling loop of the node.

PollAsk ==
    /\ poll.at = "asleep"
    /\ poll' = [poll EXCEPT !.at = "asking"]
    /\ UNCHANGED <<form, made, id, cloud, late, local>>

\* A fault: an error ends the loop.
PollFailsForGood ==
    /\ poll.at # "asleep"
    /\ poll' = [at |-> "dead", batch |-> {}]
    /\ UNCHANGED <<form, made, id, cloud, late, local>>

\* The call, its reply or the rest of the batch is lost: an error is logged.
PollFails ==
    /\ poll.at # "asleep"
    /\ poll' = Asleep
    /\ UNCHANGED <<form, made, id, cloud, late, local>>

\* The batch is stored in the order it was sent.
Foremost == CHOOSE r \in poll.batch : \A q \in poll.batch : id[r] <= id[q]

\* INSERT ... ON CONFLICT DO NOTHING, committed by itself.
PollStore ==
    /\ poll.at = "storing"
    /\ poll.batch # {}
    /\ \/ /\ pending[Foremost] = "absent"
          /\ pending' = [pending EXCEPT ![Foremost] = "pending_confirmation"]
          /\ poll' = [poll EXCEPT !.at = "noting"]
       \/ /\ pending[Foremost] # "absent"
          /\ poll' = [poll EXCEPT !.batch = @ \ {Foremost}]
          /\ UNCHANGED pending
    /\ UNCHANGED <<form, made, id, cloud, late, alert, price, audit, manager>>

\* A fault: the loop goes on notifying.
PollNotifyAgain ==
    /\ poll.at = "noting"
    /\ alert' = [alert EXCEPT ![Foremost] = "unsent"]
    /\ poll' = [poll EXCEPT !.batch = @ \ {Foremost}]
    /\ UNCHANGED <<form, made, id, cloud, late, pending, price, audit, manager>>

PollNotify ==
    /\ poll.at = "noting"
    /\ alert' = [alert EXCEPT ![Foremost] = "unsent"]
    /\ poll' = [at |-> "storing", batch |-> poll.batch \ {Foremost}]
    /\ UNCHANGED <<form, made, id, cloud, late, pending, price, audit, manager>>

PollSleep ==
    /\ poll.at = "storing"
    /\ poll.batch = {}
    /\ poll' = Asleep
    /\ UNCHANGED <<form, made, id, cloud, late, local>>

-----------------------------------------------------------------------------
\* The API of the node.

\* Unsent notifications are marked sent in the transaction that reads them;
\* the reply reaches a screen, or it does not.
PullAlerts(arrives) ==
    /\ \E r \in Requests : alert[r] = "unsent"
    /\ alert' = [r \in Requests |->
                    IF alert[r] # "unsent" THEN alert[r] ELSE IF arrives THEN "shown" ELSE "sent"]
    /\ UNCHANGED <<form, made, id, cloud, late, poll, pending, price, audit, manager>>

\* A fault: the status of the row is not looked at.
MayResolveAgain(m, r) == manager[m] = NoAck /\ pending[r] # "absent" /\ r \notin late

\* The row is locked, its status and its expiry are looked at, and every error
\* rolls the whole transaction back, the mark of an expired request included.
MayResolve(m, r) ==
    /\ manager[m] = NoAck
    /\ pending[r] = "pending_confirmation"
    /\ r \notin late

\* A fault: acknowledged before the commit, which fails.
ResolvedUncommitted(m, r, status) ==
    /\ manager' = [manager EXCEPT ![m] = [request |-> r, status |-> status]]
    /\ UNCHANGED <<form, made, id, cloud, late, poll, pending, alert>>

Resolved(m, r, status) ==
    /\ pending' = [pending EXCEPT ![r] = status]
    /\ manager' = [manager EXCEPT ![m] = [request |-> r, status |-> status]]
    /\ UNCHANGED <<form, made, id, cloud, late, poll, alert>>

Reject(m, r) ==
    /\ MayResolve(m, r)
    /\ Resolved(m, r, "rejected")
    /\ UNCHANGED <<price, audit>>

\* A type the node does not know is answered as failed.
ApproveUnknown(m, r) ==
    /\ MayResolve(m, r)
    /\ Kind[r] = "other"
    /\ Resolved(m, r, "failed")
    /\ UNCHANGED <<price, audit>>

\* A fault: the price is written and the request recorded as failed.
ApproveMisrecorded(m, r) ==
    /\ MayResolve(m, r)
    /\ Kind[r] = "price"
    /\ form = "object"
    /\ price' = [price EXCEPT ![Wanted[r].sku] = Wanted[r].price]
    /\ audit' = [audit EXCEPT ![r] = @ + 1]
    /\ Resolved(m, r, "failed")

\* A text has no "sku" to look up: the call dies and nothing is written.
ApprovePrice(m, r) ==
    /\ MayResolve(m, r)
    /\ Kind[r] = "price"
    /\ form = "object"
    /\ price' = [price EXCEPT ![Wanted[r].sku] = Wanted[r].price]
    /\ audit' = [audit EXCEPT ![r] = @ + 1]
    /\ Resolved(m, r, "applied")

\* The acknowledgement is tried once, after the commit.
LoseAck(m) ==
    /\ manager[m] # NoAck
    /\ manager' = [manager EXCEPT ![m] = NoAck]
    /\ UNCHANGED <<form, made, id, cloud, late, poll, pending, alert, price, audit>>

ChangePrice(s, v) ==
    /\ price' = [price EXCEPT ![s] = v]
    /\ UNCHANGED <<form, made, id, cloud, late, poll, pending, alert, audit, manager>>

\* A crash forgets the batch in memory and the calls being served.
Crash ==
    /\ poll' = Asleep
    /\ manager' = [m \in Managers |-> NoAck]
    /\ UNCHANGED <<form, made, id, cloud, late, pending, alert, price, audit>>

-----------------------------------------------------------------------------
Resolve(m) ==
    \E r \in Requests : Reject(m, r) \/ ApproveUnknown(m, r) \/ ApprovePrice(m, r)

Next ==
    \/ \E r \in Requests : Create(r) \/ Expire(r)
    \/ PollAsk \/ NodePending \/ PollStore \/ PollNotify \/ PollSleep \/ PollFails
    \/ \E arrives \in BOOLEAN : PullAlerts(arrives)
    \/ \E m \in Managers : Resolve(m) \/ NodeAck(m) \/ LoseAck(m)
    \/ \E s \in Skus, v \in Prices : ChangePrice(s, v)
    \/ Crash

\* The loop never stops by itself, and a poll that is tried again and again
\* is answered again and again.
Fairness ==
    /\ WF_remote(PollAsk) /\ WF_remote(PollStore) /\ WF_remote(PollNotify)
    /\ WF_remote(PollSleep) /\ SF_remote(NodePending)

Spec == Init /\ [][Next]_remote /\ Fairness

-----------------------------------------------------------------------------
\* The price of a request is changed at most once in the life of its
\* idempotency key, exactly when the node's row says applied: two managers who
\* approve at once, a poll that brings the request again and a crash included.
\* With JSON columns read as text, as this code's pools read them, it is never
\* changed at all.
AppliedOnce ==
    /\ \A r \in Requests : audit[r] = IF pending[r] = "applied" THEN 1 ELSE 0
    /\ \A r, q \in Requests : r # q /\ audit[r] + audit[q] > 1 => KeyOf[r] # KeyOf[q]
    /\ form = "text" => \A r \in Requests : audit[r] = 0

\* What the control plane shows the owner as the outcome of a request is what
\* the node committed for it, though it may show no outcome at all; and a request
\* is on the node, or on its way there, only if the control plane has let it go:
\* no poll brings it a second time.
CloudAgrees ==
    \A r \in Requests :
        /\ cloud[r] \in Final => pending[r] = cloud[r]
        /\ pending[r] # "absent" \/ r \in poll.batch => cloud[r] \notin {"absent", "queued"}

\* A reply that is lost after the control plane marked its requests delivered
\* strands them, and so does a batch that breaks off: nothing offers them again.
\* A batch that breaks off between a request and its notification leaves a
\* request nobody at the branch is told of.  And a request whose expiry has passed
\* is not resolved and stays in the list of pending ones: marking it expired is
\* always rolled back.
Stranded(r) ==
    /\ cloud[r] = "delivered"
    /\ pending[r] = "absent"
    /\ r \notin poll.batch
Unannounced(r) ==
    /\ pending[r] # "absent"
    /\ alert[r] = "none"
    /\ r \notin poll.batch
LeftForGood ==
    [][\A r \in Requests :
        /\ Stranded(r) => Stranded(r)'
        /\ Unannounced(r) => Unannounced(r)'
        /\ r \in late /\ pending[r] = "pending_confirmation" => UNCHANGED pending[r]]_remote

\* A queued request is taken by a poll or expires, whatever polls are lost.
QueueDrains ==
    \A r \in Requests : cloud[r] = "queued" ~> (cloud[r] # "queued" \/ r \in late)

\* The owner's promise, kept by the node's rows and the control plane's.
Outcome(status, r) == IF status[r] \in Final THEN status[r] ELSE "open"
Promise == INSTANCE OwnerRequests WITH
    Open <- "open",
    Decisions <- Final,
    decision <- [r \in Requests |-> Outcome(pending, r)],
    told <- [r \in Requests |-> Outcome(cloud, r)]
PromiseKept == Promise!PromiseSpec
=============================================================================
