-------------------------------- MODULE Store --------------------------------
(***************************************************************************)
(* What the point of sale promises: every operation on a sale, a turn, a   *)
(* product or a customer happens at one instant, on the whole database, or *)
(* not at all.  StoreTx shows that the handlers, which lock row by row and *)
(* overlap, keep that promise.                                             *)
(***************************************************************************)
EXTENDS StoreState

CONSTANTS
    Deltas,       \* the quantities a stock adjustment may add
    NewTerms      \* the credit terms a manager may give a customer

ASSUME ChoicesAssumption == Deltas \subseteq Int /\ NewTerms \subseteq TermsType

\* A turn is opened for a user on a terminal.  Whether the terminal already
\* has one is looked at before this instant, and may have changed since.
OpenTurn(u, term) ==
    /\ turns' = Append(turns, [user |-> u, terminal |-> term, status |-> "open",
                               moves |-> 0, counted |-> {}, tally |-> 0])
    /\ UNCHANGED <<sales, stock, adjusted, active, last, credit, terms, wallet, unassigned>>

\* The totals were read a moment ago: sales cancelled since are still counted.
CloseTurn(t, counted) ==
    /\ IsOpen(t)
    /\ CompletedCash(t) \subseteq counted
    /\ counted \subseteq CashSales(t)
    /\ turns' = [turns EXCEPT ![t].status = "closed",
                              ![t].counted = counted,
                              ![t].tally = turns[t].moves]
    /\ UNCHANGED <<sales, stock, adjusted, active, last, credit, terms, wallet, unassigned>>

\* A cash movement or an expense of an open turn.
MoveCash(t) ==
    /\ IsOpen(t)
    /\ turns' = [turns EXCEPT ![t].moves = @ + 1]
    /\ UNCHANGED <<sales, stock, adjusted, active, last, credit, terms, wallet, unassigned>>

\* An expense of a user with no open turn.
MoveUnassigned ==
    /\ unassigned' = unassigned + 1
    /\ UNCHANGED <<turns, sales, stock, adjusted, active, last, credit, terms, wallet>>

\* The stock check sees every product the order demands, but for inactive kit
\* parts that are not lines of the order themselves.
StockCovers(o) ==
    \A p \in Products :
        Demand(o, p) > 0 /\ (p \in Fragile => o.items[p] > 0) => Demand(o, p) <= stock[p]

Sell(o, t) ==
    LET st == <<SerieOf(o), turns[t].terminal>>
        c == o.customer
    IN  /\ IsOpen(t)
        /\ \A p \in Lines(o) : active[p]
        /\ StockCovers(o)
        /\ MovesAccount(o) => AccountAllows(o)
        /\ last' = [last EXCEPT ![st] = @ + 1]
        /\ sales' = Append(sales, [order |-> o, turn |-> t, terminal |-> turns[t].terminal,
                                   number |-> last[st] + 1, status |-> "completed"])
        /\ stock' = [p \in Products |-> stock[p] - Deducted(o, p)]
        /\ credit' = IF o.method = "credit"
                     THEN [credit EXCEPT ![c] = @ + o.amount] ELSE credit
        /\ wallet' = IF o.method # "credit" /\ MovesAccount(o)
                     THEN [wallet EXCEPT ![c] = @ - o.amount] ELSE wallet
        /\ UNCHANGED <<turns, adjusted, active, terms, unassigned>>

Cancel(s) ==
    LET o == sales[s].order
        c == o.customer
    IN  /\ sales[s].status = "completed"
        /\ sales' = [sales EXCEPT ![s].status = "cancelled"]
        /\ stock' = [p \in Products |-> stock[p] + Restored(o, p)]
        /\ credit' = IF o.method = "credit"
                     THEN [credit EXCEPT ![c] = Relieved(@, o.amount)] ELSE credit
        /\ wallet' = IF o.method # "credit" /\ MovesAccount(o)
                     THEN [wallet EXCEPT ![c] = @ + o.amount] ELSE wallet
        /\ UNCHANGED <<turns, adjusted, active, last, terms, unassigned>>

AdjustStock(p, d) ==
    /\ active[p]
    /\ stock[p] + d >= 0
    /\ stock' = [stock EXCEPT ![p] = @ + d]
    /\ adjusted' = [adjusted EXCEPT ![p] = @ + d]
    /\ UNCHANGED <<turns, sales, active, last, credit, terms, wallet, unassigned>>

SetActive(p, b) ==
    /\ active' = [active EXCEPT ![p] = b]
    /\ UNCHANGED <<turns, sales, stock, adjusted, last, credit, terms, wallet, unassigned>>

SetTerms(c, v) ==
    /\ terms' = [terms EXCEPT ![c] = v]
    /\ UNCHANGED <<turns, sales, stock, adjusted, active, last, credit, wallet, unassigned>>

StoreNext ==
    \/ \E u \in Users, term \in Terminals : OpenTurn(u, term)
    \/ \E t \in DOMAIN turns :
        \/ \E counted \in SUBSET CashSales(t) : CloseTurn(t, counted)
        \/ MoveCash(t)
        \/ \E o \in Orders : Sell(o, t)
    \/ MoveUnassigned
    \/ \E s \in DOMAIN sales : Cancel(s)
    \/ \E p \in Products, d \in Deltas : AdjustStock(p, d)
    \/ \E p \in Retirable, b \in BOOLEAN : SetActive(p, b)
    \/ \E c \in Customers, v \in NewTerms : SetTerms(c, v)

StoreSpec == StoreInit /\ [][StoreNext]_store
=============================================================================
