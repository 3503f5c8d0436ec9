----------------------------- MODULE MCStoreTx -----------------------------
(* Small shops for StoreTx. *)
EXTENDS StoreTx, TLC

CONSTANTS w1, w2, ana, beto, caja1, caja2, milk, ham, kit, carlos, none

MCParts == [k \in Kits |-> [p \in Products |-> 1]]
MCInitStock == (milk :> 2) @@ (ham :> 2)
MCInitTerms == [c \in Customers |-> 2]
MCInitWallet == [c \in Customers |-> 1]

Order(nMilk, nHam, kits, method, amount, customer) ==
    [items |-> (milk :> nMilk) @@ (ham :> nHam), kit |-> kit, kits |-> kits,
     method |-> method, serie |-> "B", invoice |-> FALSE, amount |-> amount,
     customer |-> customer]

\* Sales of a manual line only, which take no product and so never wait for one.
CashOrders == { Order(0, 0, 0, "cash", 0, none) }
KitOrders == { Order(0, 0, 1, "cash", 0, none), Order(1, 0, 0, "cash", 0, none) }
CreditOrders == { Order(0, 0, 0, "credit", 1, carlos) }

\* A manual line on credit; direct lines, what is sold by weight and a kit that
\* shares their rows on the wallet of the same customer.
LedgerOrders == { Order(0, 0, 0, "credit", 1, carlos), Order(1, 1, 1, "mixed", 1, carlos) }

\* Some of everything.
MixedOrders == { Order(0, 1, 1, "cash", 0, carlos), Order(1, 0, 0, "credit", 1, carlos) }

OpenFor(u, term) == [user |-> u, terminal |-> term, status |-> "open", moves |-> 0,
                     counted |-> {}, tally |-> 0]
NoTill == <<>>
OneTill == <<OpenFor(ana, caja1)>>
OneUserTwoTills == <<OpenFor(ana, caja1), OpenFor(ana, caja2)>>
TwoTills == <<OpenFor(ana, caja1), OpenFor(beto, caja2)>>

LedgerOps == {"sale", "cancel", "adjust", "customer"}
TillOps == {"sale", "open", "close", "move", "expense"}
AllOps == {"sale", "cancel", "open", "close", "move", "expense", "adjust", "product",
           "customer"}
KitOps == {"sale", "product"}
OpenOps == {"open"}
ProgressOps == {"sale", "cancel", "close", "move"}

MinusOne == {-1}
OnlyInactive == {Inactive}
NewMCTerms == {Inactive, 1}

Symmetry == Permutations(Workers)
=============================================================================
