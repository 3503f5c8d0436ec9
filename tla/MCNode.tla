------------------------------- MODULE MCNode -------------------------------
(***************************************************************************)
(* Instances for TLC of the parts of a node that share no state with each  *)
(* other.  A behaviour chooses the scene it plays in; the rest stays as it *)
(* began.                                                                  *)
(***************************************************************************)
EXTENDS Transfers, Outbox, SaleProjection, Catalogue, Tokens, Admission, People,
        Queries, TLC

\* The scenes share their model values, to keep the permutations few.
CONSTANTS w1, w2, s1, s2, d1, d2, p1, l1

MCSymmetry ==
    Permutations({w1, w2}) \cup Permutations({s1, s2}) \cup Permutations({d1, d2})

\* Both transfers move one product, and the stock does for one of them.
MCItemOf == [t \in Transfers |-> p1]
MCQtyOf == [t \in Transfers |-> 2]
MCStartStock == [i \in Items |-> 3]
\* A handler that raises its errors, and the hook of the sales, which does not.
MCHandlers == <<"audit", "hook">>
MCLossOf == [l \in {l1} |-> [product |-> p1, quantity |-> 1]]
\* Nothing, a name, two that begin alike, and every name of up to two letters.
MCGivens == {{}, {<<"a">>}, {<<"a">>, <<"a", "b">>}, BoundedSeq(Letters, 2)}

VARIABLE scene

all == <<transfers, outbox, stream, catalogue, tokens, admission, customers,
         employees, queries, scene>>

\* What a scene does not use takes one value.
MCInit ==
    /\ TransfersInit /\ OutboxInit /\ ProjectionInit
    /\ CatalogueInit /\ TokensInit /\ AdmissionInit /\ CustomersInit
    /\ EmployeesInit /\ QueriesInit
    /\ scene \in {"transfers", "outbox", "projection", "catalogue", "tokens", "admission", "customers", "employees", "queries"}
    /\ scene # "transfers" => columns = "text"
    /\ scene # "outbox" => store
    /\ scene # "catalogue" => \A p \in Products : ~item[p].known
    /\ \A p \in Products : item[p].known => item[p].price = 1
    /\ scene # "tokens" => jwt_secret

\* The second charge of a ticket meets no calls but sales.
Charging ==
    /\ AdmissionNext
    /\ ticks'.charged = MaxCharges =>
          /\ \A c \in Asking : fetching'[c].at # "idle" => fetching'[c].kind = "sale"
          /\ \A t \in Serving : serving'[t].kind \in {"none", "sale"}

MCNext ==
    /\ UNCHANGED scene
    /\ \/ scene = "transfers" /\ TransfersNext
          /\ UNCHANGED <<outbox, stream, catalogue, tokens, admission, customers, employees, queries>>
       \/ scene = "outbox" /\ OutboxNext
          /\ UNCHANGED <<transfers, stream, catalogue, tokens, admission, customers, employees, queries>>
       \/ scene = "projection" /\ ProjectionNext
          /\ UNCHANGED <<transfers, outbox, catalogue, tokens, admission, customers, employees, queries>>
       \/ scene = "catalogue" /\ CatalogueNext
          /\ UNCHANGED <<transfers, outbox, stream, tokens, admission, customers, employees, queries>>
       \/ scene = "tokens" /\ TokensNext
          /\ UNCHANGED <<transfers, outbox, stream, catalogue, admission, customers, employees, queries>>
       \/ scene = "admission" /\ Charging
          /\ UNCHANGED <<transfers, outbox, stream, catalogue, tokens, customers, employees, queries>>
       \/ scene = "customers" /\ CustomersNext
          /\ UNCHANGED <<transfers, outbox, stream, catalogue, tokens, admission, employees, queries>>
       \/ scene = "employees" /\ EmployeesNext
          /\ UNCHANGED <<transfers, outbox, stream, catalogue, tokens, admission, customers, queries>>
       \/ scene = "queries" /\ QueriesNext
          /\ UNCHANGED <<transfers, outbox, stream, catalogue, tokens, admission, customers, employees>>

MCSpec == MCInit /\ [][MCNext]_all

\* Types, of the modules above.
TypesOK ==
    CASE scene = "transfers" -> TransfersTypeOK
      [] scene = "outbox" -> OutboxTypeOK
      [] scene = "projection" -> ProjectionTypeOK
      [] scene = "catalogue" -> CatalogueTypeOK
      [] scene = "tokens" -> TokensTypeOK
      [] scene = "admission" -> AdmissionTypeOK
      [] scene = "customers" -> CustomersTypeOK
      [] scene = "employees" -> EmployeesTypeOK
      [] OTHER -> QueriesTypeOK
=============================================================================
