----------------------------- MODULE StoreState -----------------------------
(***************************************************************************)
(* The database of one point-of-sale node: the tables turns, sales,        *)
(* products, secuencias, customers and cash_movements, what one order      *)
(* takes from stock and gives back, and the properties every program that  *)
(* writes these tables is held to.  Store writes them one whole operation  *)
(* at a time; StoreTx writes them the way the request handlers do.         *)
(*                                                                         *)
(* Prices are abstracted: an order carries the amount it moves on its      *)
(* customer's account (credit or wallet) and no other price, since only    *)
(* that amount is checked against a balance.                               *)
(***************************************************************************)
EXTENDS Integers, Sequences, FiniteSets

CONSTANTS
    Users,        \* cashiers (turns.user_id)
    Terminals,    \* tills (turns.terminal_id)
    Products,     \* rows of products that are not kits
    Bulk,         \* those sold by weight: sale_type granel or weight
    Kits,         \* rows of products with is_kit = 1
    Parts,        \* kit_components: Parts[k][p] is the quantity of p in k
    Retirable,    \* the rows of products an operator may deactivate
    Customers,
    NoCustomer,   \* customer_id IS NULL
    Orders,       \* the bodies of POST /sales/ under consideration
    InitTurns,    \* the turns open to begin with
    InitStock,    \* opening stock of each product
    InitTerms,    \* opening credit terms of each customer, see TermsType
    InitWallet    \* opening wallet balance of each customer

VARIABLES
    turns,        \* rows of turns, by id
    sales,        \* rows of sales, in the order they commit
    stock,        \* products.stock
    adjusted,     \* opening stock plus the inventory_movements of type
                  \* adjust and api_stock
    active,       \* products.is_active
    last,         \* secuencias.ultimo_numero by serie and terminal
    credit,       \* customers.credit_balance
    terms,        \* customers: credit terms, see TermsType
    wallet,       \* customers.wallet_balance
    unassigned    \* number of cash_movements rows whose turn_id is NULL

store == <<turns, sales, stock, adjusted, active, last, credit, terms, wallet,
           unassigned>>

(***************************************************************************)
(* Credit terms of a customer: Inactive when the row is not active,        *)
(* NoCredit when credit_authorized is not 1, otherwise credit_limit, where *)
(* 0 means no limit.                                                       *)
(***************************************************************************)
Inactive == -2
NoCredit == -1
TermsType == Nat \cup {Inactive, NoCredit}

Series == {"A", "B"}
Methods == {"cash", "card", "mixed", "credit", "wallet"}

\* items and (kit, kits) are the lines of the sale; serie and invoice are what
\* the client asks for; amount is what the order moves on the customer's
\* account: the total of a credit or wallet sale, mixed_wallet of a mixed one.
OrderType ==
    [items: [Products -> Nat], kit: Kits, kits: Nat, method: Methods,
     serie: Series, invoice: BOOLEAN, amount: Nat,
     customer: Customers \cup {NoCustomer}]

MovesAccount(o) == o.amount > 0

ASSUME CatalogueAssumption ==
    /\ Bulk \subseteq Products
    /\ Parts \in [Kits -> [Products -> Nat]]
    /\ Retirable \subseteq Products \cup Kits
    /\ NoCustomer \notin Customers

\* Credit and wallet orders move their total, which is positive, and name the
\* customer; cash and card orders move nothing.
ASSUME OrdersAssumption ==
    /\ Orders \subseteq OrderType
    /\ \A o \in Orders :
        /\ o.method \in {"credit", "wallet"} => MovesAccount(o)
        /\ o.method \in {"cash", "card"} => ~MovesAccount(o)
        /\ MovesAccount(o) => o.customer \in Customers

-----------------------------------------------------------------------------
(* One order                                                               *)

\* Bank payments always take serie A, cash takes A only when an invoice was
\* asked for, and the client's choice stands for the rest.
SerieOf(o) ==
    CASE o.method \in {"card", "mixed"} -> "A"
      [] o.method = "cash" -> IF o.invoice THEN "A" ELSE "B"
      [] OTHER -> o.serie

FromKit(o, p) == o.kits * Parts[o.kit][p]

\* unified_demand: direct lines that are not sold by weight, plus kit parts.
Demand(o, p) == (IF p \in Bulk THEN 0 ELSE o.items[p]) + FromKit(o, p)

\* stock_deductions: every direct line, plus kit parts.
Deducted(o, p) == o.items[p] + FromKit(o, p)

\* stock_restorations of a cancellation: nothing for what is sold by weight.
Restored(o, p) == IF p \in Bulk THEN 0 ELSE Deducted(o, p)

\* The lines of the order: the rows whose absence makes create_sale answer 400.
Lines(o) ==
    { p \in Products : o.items[p] > 0 } \cup (IF o.kits > 0 THEN {o.kit} ELSE {})

\* The rows of products the order locks: its lines and their kit parts.
RowsOf(o) == Lines(o) \cup { p \in Products : FromKit(o, p) > 0 }

\* GREATEST(0, credit_balance - amount)
Relieved(balance, amount) == IF balance > amount THEN balance - amount ELSE 0

\* _SALES_QUERY counts the rows that put cash in the drawer.
PaysCash(o) == o.method \in {"cash", "mixed"}

\* Parts an operator may deactivate: a kit sale does not see their stock while
\* they are inactive (locked_map has no such row and the check is skipped).
Fragile == { p \in Products \cap Retirable : \E k \in Kits : Parts[k][p] > 0 }

-----------------------------------------------------------------------------
(* Tables                                                                  *)

TurnType ==
    [user: Users, terminal: Terminals, status: {"open", "closed"},
     moves: Nat,              \* its rows of cash_movements
     counted: SUBSET Nat,     \* the sales behind system_sales once closed
     tally: Nat]              \* the movements behind difference once closed

SaleType ==
    [order: Orders, turn: Nat, terminal: Terminals, number: Nat,
     status: {"completed", "cancelled"}]

ASSUME OpeningAssumption ==
    /\ InitTurns \in Seq(TurnType)
    /\ \A t \in DOMAIN InitTurns :
        /\ InitTurns[t].status = "open"
        /\ InitTurns[t].moves = 0
    /\ InitStock \in [Products -> Nat]
    /\ InitTerms \in [Customers -> TermsType]
    /\ InitWallet \in [Customers -> Nat]

TypeOK ==
    /\ turns \in Seq(TurnType)
    /\ sales \in Seq(SaleType)
    /\ stock \in [Products -> Int]
    /\ adjusted \in [Products -> Int]
    /\ active \in [Products \cup Kits -> BOOLEAN]
    /\ \A p \in Products \cup Kits : active[p] \/ p \in Retirable
    /\ last \in [Series \X Terminals -> Nat]
    /\ credit \in [Customers -> Nat]
    /\ terms \in [Customers -> TermsType]
    /\ wallet \in [Customers -> Int]
    /\ unassigned \in Nat

StoreInit ==
    /\ turns = InitTurns
    /\ sales = <<>>
    /\ stock = InitStock
    /\ adjusted = InitStock
    /\ active = [p \in Products \cup Kits |-> TRUE]
    /\ last = [st \in Series \X Terminals |-> 0]
    /\ credit = [c \in Customers |-> 0]
    /\ terms = InitTerms
    /\ wallet = InitWallet
    /\ unassigned = 0

IsOpen(t) == t \in DOMAIN turns /\ turns[t].status = "open"

\* The row of secuencias a sale took its folio from.
Sequence(s) == <<SerieOf(sales[s].order), sales[s].terminal>>

CashSales(t) == { s \in DOMAIN sales : sales[s].turn = t /\ PaysCash(sales[s].order) }

CompletedCash(t) == { s \in CashSales(t) : sales[s].status = "completed" }

\* _process_credit_payment and _process_wallet_payment let the order through.
AccountAllows(o) ==
    LET c == o.customer
    IN  /\ terms[c] # Inactive
        /\ o.method = "credit" =>
              /\ terms[c] # NoCredit
              /\ terms[c] > 0 => credit[c] + o.amount <= terms[c]
        /\ o.method # "credit" => o.amount <= wallet[c]

-----------------------------------------------------------------------------
(* Properties                                                              *)

\* The sum of the values of f, natural numbers: one pair for each unit.
Units(f) == UNION { {x} \X (1 .. f[x]) : x \in DOMAIN f }
Total(f) == Cardinality(Units(f))

\* What each sale took of a product, and what its cancellation put back.
Took(p) == [s \in DOMAIN sales |-> Deducted(sales[s].order, p)]
GaveBack(p) ==
    [s \in DOMAIN sales |->
        IF sales[s].status = "cancelled" THEN Restored(sales[s].order, p) ELSE 0]

\* What each sale that stands moved on a customer's credit or wallet.
Stands(s, c) == sales[s].status = "completed" /\ sales[s].order.customer = c
Owes(c) ==
    [s \in DOMAIN sales |->
        IF Stands(s, c) /\ sales[s].order.method = "credit" THEN sales[s].order.amount ELSE 0]
Spent(c) ==
    [s \in DOMAIN sales |->
        IF Stands(s, c) /\ sales[s].order.method # "credit" THEN sales[s].order.amount ELSE 0]

\* Stock is what the other movements left, less what every sale took, plus
\* what every cancellation put back, once each: no sale is cancelled twice, no
\* write of stock is lost to another (sales/routes.py, inventory/routes.py).
StockBalance ==
    \A p \in Products : stock[p] = adjusted[p] - Total(Took(p)) + Total(GaveBack(p))

\* A customer owes the credit sales that stand and no others, and their wallet
\* lacks the wallet payments that stand: every charge and every reversal is
\* applied exactly once (_process_credit_payment, perform_sale_cancellation).
AccountsReconcile ==
    \A c \in Customers :
        /\ credit[c] = Total(Owes(c))
        /\ wallet[c] = InitWallet[c] - Total(Spent(c))

\* Within a serie and terminal the folios are 1, 2, ..., ultimo_numero: none is
\* used twice and an aborted sale leaves no hole (the new_folio CTE).
FoliosGapless ==
    \A st \in Series \X Terminals :
        LET Issued == { s \in DOMAIN sales : Sequence(s) = st }
        IN  /\ { sales[s].number : s \in Issued } = 1 .. last[st]
            /\ \A s, u \in Issued : sales[s].number = sales[u].number => s = u

\* No product sold by the unit is oversold and no wallet is overdrawn,
\* whatever sales, adjustments and cancellations overlap.  A kit part that an
\* operator may deactivate is left out: see NothingOversold.
NothingOverdrawn ==
    /\ \A p \in Products \ (Bulk \cup Fragile) : stock[p] >= 0
    /\ \A c \in Customers : wallet[c] >= 0

\* The same without the exception: "Validate stock -- aggregate ALL demand per
\* product (direct + kit components)", sales/routes.py.
NothingOversold == \A p \in Products \ Bulk : stock[p] >= 0

\* What a closed turn recorded covers every cash sale that stands in it and
\* every cash movement registered in it: none slipped in between close_turn's
\* reading of the totals and its commit.
ClosedTurnsComplete ==
    \A t \in DOMAIN turns :
        turns[t].status = "closed" =>
            /\ CompletedCash(t) \subseteq turns[t].counted
            /\ turns[t].counted \subseteq CashSales(t)
            /\ turns[t].tally = turns[t].moves

\* Nothing is ever added to a closed turn: its row stays as it was closed and
\* every later sale belongs to a turn that is open when it commits.
ClosedTurnsFrozen ==
    [][ /\ \A t \in DOMAIN turns : turns[t].status = "closed" => turns'[t] = turns[t]
        /\ \A s \in DOMAIN sales' \ DOMAIN sales : IsOpen(sales'[s].turn) ]_store

\* A charge never takes a customer past the limit in force when it commits,
\* nor is one made to a customer whose credit was withdrawn meanwhile.
ChargesWithinTerms ==
    [][ \A c \in Customers :
            credit'[c] > credit[c] =>
                terms[c] = 0 \/ (terms[c] > 0 /\ credit'[c] <= terms[c]) ]_store
=============================================================================
