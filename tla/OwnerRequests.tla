---------------------------- MODULE OwnerRequests ----------------------------
(***************************************************************************)
(* What the owner of a branch is promised about the requests sent to it:   *)
(* the branch decides each request at most once, an approved price takes   *)
(* effect at the instant of the decision and never again, and the owner is *)
(* told nothing but the decision.  RemoteRequests implements this.         *)
(***************************************************************************)
CONSTANTS
    Requests,     \* the requests an owner may send
    Skus,         \* the products of the branch
    Prices,       \* the prices a product may have
    Open,         \* the decision of a request nobody has decided
    Decisions,    \* what may be decided of a request
    Wanted        \* the price change a request asks for: its sku and its price

VARIABLES
    decision,     \* what the branch decided of each request
    told,         \* what the owner has been told of each request
    price         \* the price of each product

promise == <<decision, told, price>>

PromiseInit ==
    /\ decision = [r \in Requests |-> Open]
    /\ told = [r \in Requests |-> Open]
    /\ price \in [Skus -> Prices]

\* The branch applies a request: the decision and the price are one step.
Apply(r) ==
    /\ decision[r] = Open
    /\ decision' = [decision EXCEPT ![r] = "applied"]
    /\ price' = [price EXCEPT ![Wanted[r].sku] = Wanted[r].price]
    /\ UNCHANGED told

\* The branch turns a request down; no price changes.
TurnDown(r, d) ==
    /\ decision[r] = Open
    /\ d \notin {"applied", Open}
    /\ decision' = [decision EXCEPT ![r] = d]
    /\ UNCHANGED <<told, price>>

\* The owner learns the decision.
Tell(r) ==
    /\ decision[r] # Open
    /\ told' = [told EXCEPT ![r] = decision[r]]
    /\ UNCHANGED <<decision, price>>

\* The branch sets a price of its own accord.
SetPrice(s, v) ==
    /\ price' = [price EXCEPT ![s] = v]
    /\ UNCHANGED <<decision, told>>

PromiseNext ==
    \/ \E r \in Requests : Apply(r) \/ Tell(r) \/ \E d \in Decisions : TurnDown(r, d)
    \/ \E s \in Skus, v \in Prices : SetPrice(s, v)

PromiseSpec == PromiseInit /\ [][PromiseNext]_promise
=============================================================================
