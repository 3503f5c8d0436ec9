-------------------------- MODULE SaleProjection --------------------------
(***************************************************************************)
(* The state of a sale rebuilt from its events: the projector, a fold over *)
(* the rows of sale_events in their order, against a reference that says   *)
(* of each part of the state which event it comes from.                    *)
(***************************************************************************)
EXTENDS Integers, Sequences, FiniteSets, Functions

CONSTANTS
    Goods,
    Qtys,         \* the quantities of the lines
    UnitPrices,
    TaxRates,     \* in hundredths
    Discounts,
    PageSize,     \* the LIMIT of get_events
    MaxEvents     \* bound of a run

ASSUME ProjectionAssumption ==
    {PageSize, MaxEvents} \subseteq Nat /\ Qtys \subseteq Nat /\ UnitPrices \subseteq Nat /\ TaxRates \subseteq Nat

VARIABLE stream   \* the rows of sale_events of one sale, by sequence

Amended == {"discount_applied", "discount_removed"}
\* The events that say in which state the sale is, and that state.
StatusOf == [initiated |-> "initiated", completed |-> "completed", cancelled |-> "cancelled",
             held |-> "held", resumed |-> "initiated", refunded |-> "refunded"]

Rows ==
    [type : {"item_added"}, product : Goods, qty : Qtys, price : UnitPrices, rate : TaxRates]
    \cup [type : {"item_removed"}, product : Goods]
    \cup [type : {"item_qty_changed"}, product : Goods, qty : Qtys]
    \cup [type : {"discount_applied"}, amount : Discounts]
    \cup [type : {"discount_removed", "payment_received"} \cup DOMAIN StatusOf]

ProjectionTypeOK == stream \in Seq(Rows) /\ Len(stream) <= MaxEvents

ProjectionInit == stream = <<>>

\* A row of sale_events with the next sequence.
append(e) == Len(stream) < MaxEvents /\ stream' = Append(stream, e)

ProjectionNext == \E e \in Rows : append(e)

ProjectionSpec == ProjectionInit /\ [][ProjectionNext]_stream

-----------------------------------------------------------------------------
\* The projector.

\* Amounts in hundredths: a line of qty at price, and its tax.
Line(item) == 100 * item.qty * item.price
LineTax(item) == item.qty * item.price * item.rate

Lines(items) == SumFunction([p \in DOMAIN items |-> Line(items[p])])
Taxes(items) == SumFunction([p \in DOMAIN items |-> LineTax(items[p])])

recalculate_totals(s) ==
    [s EXCEPT !.subtotal = Lines(s.items), !.tax = Taxes(s.items),
              !.total = Lines(s.items) + Taxes(s.items) - s.discount]

Without(items, p) == [q \in DOMAIN items \ {p} |-> items[q]]
With(items, p, item) == [q \in DOMAIN items \cup {p} |-> IF q = p THEN item ELSE items[q]]

NothingYet ==
    [items |-> [p \in {} |-> 0], subtotal |-> 0, tax |-> 0, discount |-> 0, total |-> 0,
     payments |-> 0, status |-> "unknown"]

\* A fault: a line added again takes the price of the last addition.
item_repriced(items, e) ==
    With(items, e.product,
         [qty |-> e.qty + (IF e.product \in DOMAIN items THEN items[e.product].qty ELSE 0),
          price |-> e.price, rate |-> e.rate])

item_added(items, e) ==
    IF e.product \in DOMAIN items THEN [items EXCEPT ![e.product].qty = @ + e.qty]
    ELSE With(items, e.product, [qty |-> e.qty, price |-> e.price, rate |-> e.rate])

item_qty_changed(items, e) ==
    IF e.product \in DOMAIN items THEN [items EXCEPT ![e.product].qty = e.qty] ELSE items

apply_event(s, e) ==
    CASE e.type = "item_added" -> recalculate_totals([s EXCEPT !.items = item_added(@, e)])
      [] e.type = "item_removed" -> recalculate_totals([s EXCEPT !.items = Without(@, e.product)])
      [] e.type = "item_qty_changed" ->
            recalculate_totals([s EXCEPT !.items = item_qty_changed(@, e)])
      [] e.type = "discount_applied" -> recalculate_totals([s EXCEPT !.discount = e.amount])
      [] e.type = "discount_removed" -> recalculate_totals([s EXCEPT !.discount = 0])
      [] e.type = "payment_received" -> [s EXCEPT !.payments = @ + 1]
      [] e.type \in DOMAIN StatusOf -> [s EXCEPT !.status = StatusOf[e.type]]

\* get_events reads one page, from the first row.
get_events == SubSeq(stream, 1, IF Len(stream) < PageSize THEN Len(stream) ELSE PageSize)

rebuild_state ==
    LET after[n \in 0..Len(get_events)] ==
            IF n = 0 THEN NothingYet ELSE apply_event(after[n - 1], get_events[n])
    IN  after[Len(get_events)]

-----------------------------------------------------------------------------
\* The reference: what the first n rows say.

\* The last of a set of rows; 0 for none.
LastOf(S) == IF S = {} THEN 0 ELSE CHOOSE k \in S : \A j \in S : j <= k
FirstOf(S) == CHOOSE k \in S : \A j \in S : k <= j
Typed(n, types) == {k \in 1..n : stream[k].type \in types}
RowsOf(n, type, p) == {k \in Typed(n, {type}) : stream[k].product = p}

\* The additions of a product since it was last removed.
Since(n, p) == {k \in RowsOf(n, "item_added", p) : k > LastOf(RowsOf(n, "item_removed", p))}
\* The last change that found the product there.
Changed(n, p) == LastOf({k \in RowsOf(n, "item_qty_changed", p) : k > FirstOf(Since(n, p))})
\* The units that rows add, counted.
Added(S) == Cardinality(UNION {{k} \X (1..stream[k].qty) : k \in S})

ItemNow(n, p) ==
    [qty |-> (IF Changed(n, p) = 0 THEN 0 ELSE stream[Changed(n, p)].qty)
                + Added({k \in Since(n, p) : k > Changed(n, p)}),
     price |-> stream[FirstOf(Since(n, p))].price, rate |-> stream[FirstOf(Since(n, p))].rate]

DiscountNow(n) ==
    LET k == LastOf(Typed(n, Amended))
    IN  IF k = 0 \/ stream[k].type = "discount_removed" THEN 0 ELSE stream[k].amount

StatusNow(n) ==
    LET k == LastOf(Typed(n, DOMAIN StatusOf)) IN IF k = 0 THEN "unknown" ELSE StatusOf[stream[k].type]

ItemsNow(n) == [p \in {q \in Goods : Since(n, q) # {}} |-> ItemNow(n, p)]

\* The rebuilt state says what the rows say: the lines are the products added
\* since they were last removed, each at the price of the first addition after
\* that, in the quantity of the last change and what was added since; the
\* discount is the last one set; the total is the lines and their tax less that
\* discount, also when the discount came before a line; the payments are
\* counted; the status is that of the last row that sets one.
ProjectionAgrees ==
    LET n == Len(get_events) items == ItemsNow(n) IN
    rebuild_state =
        [items |-> items, subtotal |-> Lines(items), tax |-> Taxes(items), discount |-> DiscountNow(n),
         total |-> Lines(items) + Taxes(items) - DiscountNow(n),
         payments |-> Cardinality(Typed(n, {"payment_received"})), status |-> StatusNow(n)]
=============================================================================
