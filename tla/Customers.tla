------------------------------ MODULE Customers ------------------------------
(***************************************************************************)
(* The customers of a node: created, edited and taken off by the routes,   *)
(* and by the rows that a till pushes.  One of the clients is a till that  *)
(* keeps the list it pulled, changes it as its own calls are answered, and *)
(* pushes rows of it.                                                      *)
(***************************************************************************)
EXTENDS Integers, Sequences, FiniteSets

CONSTANTS
    Desks,        \* calls that create a customer at a time
    Names,        \* as LOWER(TRIM(name)) tells them apart
    PullLimit,    \* 500 in the code: the renderer asks for the first page only
    MaxRows,      \* bound of a run
    MaxEdits      \* bound of a run

ASSUME CustomersAssumption == {PullLimit, MaxRows, MaxEdits} \subseteq Nat

VARIABLES
    customer,     \* the rows in the order of their ids: [name, active]
    desk,
    till,         \* the list a till shows: the names of the ids it knows
    edits,
    named,        \* how each row came by its name, and the rows there were when it was looked up
    gone,         \* the rows taken off and not put back by a manager
    outdated,     \* the page was not all, or somebody else changed a customer since
    unheard       \* an answer to the till was lost since the pull

customers == <<customer, desk, till, edits, named, gone, outdated, unheard>>

Ids == DOMAIN customer
NoDesk == [at |-> "idle"]

CustomersTypeOK ==
    /\ customer \in Seq([name : Names, active : BOOLEAN]) /\ Len(customer) <= MaxRows
    /\ \A d \in Desks : desk[d].at = "idle" \/ desk[d].name \in Names
    /\ DOMAIN till \subseteq Ids /\ gone \subseteq Ids /\ edits \in 0..MaxEdits
    /\ named \in Seq([how : {"created", "renamed", "pushed", "put back"}, of : 0..MaxRows])
    /\ {outdated, unheard} \subseteq BOOLEAN

CustomersInit ==
    /\ customer = <<>> /\ desk = [d \in Desks |-> NoDesk]
    /\ till = <<>> /\ edits = 0 /\ named = <<>> /\ gone = {}
    /\ outdated = FALSE /\ unheard = FALSE

Active == {i \in Ids : customer[i].active}
Edits == edits < MaxEdits /\ edits' = edits + 1

\* What became of the answer to a call: the till hears it and changes its list, or
\* it is lost; or the call was somebody else's.
Heard(list) == till' = list /\ UNCHANGED <<outdated, unheard>>
Lost == unheard' = TRUE /\ UNCHANGED <<till, outdated>>
ByOthers == outdated' = TRUE /\ UNCHANGED <<till, unheard>>
TillWith(i, name) == [j \in DOMAIN till \cup {i} |-> IF j = i THEN name ELSE till[j]]
TillWithout(i) == [j \in DOMAIN till \ {i} |-> till[j]]

-----------------------------------------------------------------------------
\* POST /customers.  The till also looks in its own list.

\* The till makes one call at a time.
TillFree == \A d \in Desks : desk[d].at = "checked" => ~desk[d].ours

create_customer(d, name, ours) ==
    /\ desk[d].at = "idle" /\ Len(customer) < MaxRows
    /\ ours => TillFree /\ \A i \in DOMAIN till : till[i] # name
    /\ \A i \in Active : customer[i].name # name
    /\ desk' = [desk EXCEPT ![d] = [at |-> "checked", name |-> name, ours |-> ours, of |-> Len(customer)]]
    /\ UNCHANGED <<customer, till, edits, named, gone, outdated, unheard>>

Row(name) == customer' = Append(customer, [name |-> name, active |-> TRUE])

\* Nothing keeps the name that was looked up from being taken before the INSERT.
CustomerInserted(d) ==
    /\ desk[d].at = "checked" /\ Len(customer) < MaxRows
    /\ Row(desk[d].name)
    /\ named' = Append(named, [how |-> "created", of |-> desk[d].of])
    /\ IF desk[d].ours THEN Heard(TillWith(Len(customer'), desk[d].name)) \/ Lost ELSE ByOthers
    /\ desk' = [desk EXCEPT ![d] = NoDesk]
    /\ UNCHANGED <<edits, gone>>

\* The till's limit of time: the call goes on.
TillGivesUp(d) ==
    /\ desk[d].at = "checked" /\ desk[d].ours
    /\ desk' = [desk EXCEPT ![d].ours = FALSE] /\ Lost
    /\ UNCHANGED <<customer, edits, named, gone>>

-----------------------------------------------------------------------------
\* PUT and DELETE /customers/{id}.

Renamed(i, name, how) ==
    /\ customer' = [customer EXCEPT ![i].name = name]
    /\ named' = IF customer[i].name = name THEN named ELSE [named EXCEPT ![i].how = how]

\* The new name is not looked up.
update_customer(i, name) ==
    /\ Edits /\ Renamed(i, name, "renamed") /\ ByOthers
    /\ UNCHANGED <<desk, gone>>

\* A manager may put a row back with is_active.
PutBack(i) ==
    /\ Edits
    /\ customer' = [customer EXCEPT ![i].active = TRUE]
    /\ gone' = gone \ {i} /\ named' = IF i \in Active THEN named ELSE [named EXCEPT ![i].how = "put back"]
    /\ ByOthers /\ UNCHANGED desk

TakenOff(i) == customer' = [customer EXCEPT ![i].active = FALSE] /\ gone' = gone \cup {i}

delete_customer(i) ==
    /\ i \in Active /\ Edits
    /\ TakenOff(i) /\ ByOthers
    /\ UNCHANGED <<desk, named>>

-----------------------------------------------------------------------------
\* The rows of POST /sync/customers.  A row whose id there is takes the pushed
\* name, active or not; any other row is a new customer.

PushedRow(i, name) == Renamed(i, name, "pushed") /\ UNCHANGED gone

\* A fault: as with a new row, the customer is active.
PushedActive(i, name) ==
    /\ customer' = [customer EXCEPT ![i] = [name |-> name, active |-> TRUE]]
    /\ named' = [named EXCEPT ![i].how = "pushed"] /\ UNCHANGED gone

PushedOnto(i, name) == PushedRow(i, name)

till_pushes(i, name) ==
    /\ i \in DOMAIN till /\ TillFree /\ Edits
    /\ PushedOnto(i, name)
    /\ Heard(TillWith(i, name)) \/ Lost
    /\ UNCHANGED desk

till_deletes(i) ==
    /\ i \in DOMAIN till /\ TillFree /\ Edits
    /\ TakenOff(i)
    /\ Heard(TillWithout(i)) \/ Lost
    /\ UNCHANGED <<desk, named>>

PushedNew(name) ==
    /\ Edits /\ Len(customer) < MaxRows
    /\ Row(name) /\ named' = Append(named, [how |-> "pushed", of |-> Len(customer)])
    /\ ByOthers
    /\ UNCHANGED <<desk, gone>>

\* GET /sync/customers, without after_id: has_more is not looked at.
sync_pull_customers ==
    {i \in Active : Cardinality({j \in Active : j < i}) < PullLimit}

till_pulls ==
    /\ till' = [i \in sync_pull_customers |-> customer[i].name]
    /\ outdated' = (Cardinality(Active) > PullLimit) /\ unheard' = FALSE
    /\ UNCHANGED <<customer, desk, edits, named, gone>>

CustomersNext ==
    \/ \E d \in Desks :
        \/ \E name \in Names, ours \in BOOLEAN : create_customer(d, name, ours)
        \/ CustomerInserted(d) \/ TillGivesUp(d)
    \/ \E i \in Ids :
        \/ delete_customer(i) \/ till_deletes(i) \/ PutBack(i)
        \/ \E name \in Names : update_customer(i, name) \/ till_pushes(i, name)
    \/ \E name \in Names : PushedNew(name)
    \/ till_pulls

CustomersSpec == CustomersInit /\ [][CustomersNext]_customers

-----------------------------------------------------------------------------
\* Two active customers of one name whose names come from their creation were
\* created at once: the second looked the name up before the first was there.
NamesExplained ==
    \A i, j \in Active :
        i < j /\ customer[i].name = customer[j].name
              /\ named[i].how = "created" /\ named[j].how = "created" => named[j].of < i

\* Who was taken off comes back only when a manager says so, whatever a till
\* that still lists the customer pushes.
GoneStayGone == Active = Ids \ gone

\* If the first page was all, the list that the till keeps by itself is that of
\* the node until somebody else changes a customer or an answer is lost.
TillAgrees ==
    ~outdated /\ ~unheard => till = [i \in Active |-> customer[i].name]

CustomersHold == NamesExplained /\ GoneStayGone /\ TillAgrees
=============================================================================
