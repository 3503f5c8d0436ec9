------------------------------ MODULE Amounts ------------------------------
(***************************************************************************)
(* What a sale costs and what its documents say it cost.  The database     *)
(* keeps money in cents and quantities in ten-thousandths, NUMERIC(12,2)   *)
(* and NUMERIC(12,4); a till may ask for parts of either.  Every quantize  *)
(* of the code, and what a column rounds, is a RoundHalfUp here.           *)
(***************************************************************************)
EXTENDS Integers, Sequences, FiniteSets

CONSTANTS
    Fine,         \* how many parts of a cent, or of a ten-thousandth, a till can name
    Lines,        \* SaleItemCreate: what a till may ask for, in those parts
    PriceList,    \* [product -> price, wholesale price, both in cents, whether its SKU is COM- or COMUN-]
    Common,       \* no product: a common line
    Unset,
    Payments,     \* the payment methods in use
    Forms,        \* forma_pago: what the caller of an invoice may ask for
    MaxLines,     \* bound of a run: lines sold
    MaxDocuments  \* bound of a run: rows of cfdis

\* What SaleItemCreate enforces: a till sells some of everything, and neither the price
\* nor the discount it asks for is negative.  A wholesale price may be, and nothing is
\* assumed of the list.
AmountsAssumption ==
    /\ Fine \in Nat \ {0}
    /\ \A p \in DOMAIN PriceList :
        PriceList[p].price \in Int /\ PriceList[p].price_wholesale \in Int /\ PriceList[p].common \in BOOLEAN
    /\ Lines \subseteq
        [product : DOMAIN PriceList \cup {Common}, price : Nat, price_wholesale : Int \cup {Unset},
         is_wholesale : BOOLEAN, qty : Nat \ {0}, discount : Nat, price_includes_tax : BOOLEAN]
    /\ Unset \notin DOMAIN PriceList \cup {Common}
ASSUME AmountsAssumption

VARIABLES
    cart,
    ledger,       \* sales with their sale_items
    papers,       \* cfdis: the document stamped and the amounts recorded of it
    receipt       \* the last payment complement

amounts == <<cart, ledger, papers, receipt>>

Percent == 16
Unit == 10000
\* A cent, in what a quantity of a till times a price of a till comes in.
Cent == Unit * Fine * Fine

\* As ROUND_HALF_UP: ties go away from zero.
RoundHalfUp(n, d) == IF n >= 0 THEN (n + d \div 2) \div d ELSE -((d \div 2 - n) \div d)
\* As the formatting of a Decimal.
RoundHalfEven(n, d) ==
    LET q == n \div d  r == n % d
    IN  IF 2 * r > d \/ (2 * r = d /\ q % 2 = 1) THEN q + 1 ELSE q

NotNegative(n) == IF n < 0 THEN 0 ELSE n
\* What the numbers of a sequence come to.
Altogether(v) ==
    LET upto[n \in 0..Len(v)] == IF n = 0 THEN 0 ELSE upto[n - 1] + v[n] IN upto[Len(v)]
\* In cents, of so many parts of a cent.
WithoutTax(n, parts) == RoundHalfUp(n * 100, (100 + Percent) * parts)
Tax(n) == RoundHalfUp(n * Percent, 100)
Importe(row) == RoundHalfUp(row.qty * row.price, Unit)
Importes(items) == [i \in DOMAIN items |-> Importe(items[i])]
Taxes(items) == [i \in DOMAIN items |-> Tax(Importe(items[i]))]

-----------------------------------------------------------------------------
\* A sale.

\* A listed product has the price of the database, whatever the till says.
Price(l) ==
    LET common == l.product = Common \/ PriceList[l.product].common
        from == IF common THEN l ELSE PriceList[l.product]
        none == IF common THEN {Unset} ELSE {Unset, 0}
        price == IF l.is_wholesale /\ from.price_wholesale \notin none THEN from.price_wholesale ELSE from.price
    IN  IF common THEN price ELSE price * Fine

Due(l) == l.qty * Price(l) - l.discount * Unit * Fine

\* The price includes tax: the total comes from it, the rest is for the record.
Taxed(l) ==
    LET price == WithoutTax(Price(l), Fine) * Fine
        line_discount == WithoutTax(l.discount, Fine)
    IN  [product |-> l.product, qty |-> l.qty, price |-> price, line_discount |-> line_discount,
         line_total |-> RoundHalfUp(NotNegative(l.qty * price - line_discount * Cent), Cent),
         with_tax |-> RoundHalfUp(NotNegative(Due(l)), Cent)]

\* It does not: the price stays as the till gave it.
Untaxed(l) ==
    LET line_discount == RoundHalfUp(l.discount, Fine)
        line_total == RoundHalfUp(NotNegative(l.qty * Price(l) - line_discount * Cent), Cent)
    IN  [product |-> l.product, qty |-> l.qty, price |-> Price(l), line_discount |-> line_discount,
         line_total |-> line_total, with_tax |-> line_total + Tax(line_total)]

calculate_item(l) == IF l.price_includes_tax /\ Price(l) > 0 THEN Taxed(l) ELSE Untaxed(l)

\* The tax is taken out once, of the whole.
sale_totals(calculated) ==
    LET total == Altogether([i \in DOMAIN calculated |-> calculated[i].with_tax])
    IN  [total |-> total, subtotal |-> WithoutTax(total, 1), tax |-> total - WithoutTax(total, 1),
         discount |-> Altogether([i \in DOMAIN calculated |-> calculated[i].line_discount])]

\* sale_items.subtotal has no discount in it, and is not that of the row: the columns
\* of the quantity and of the price round what it is computed from.
ItemRow(c) ==
    [product |-> c.product, qty |-> RoundHalfUp(c.qty, Fine), price |-> RoundHalfUp(c.price, Fine),
     subtotal |-> RoundHalfUp(c.qty * c.price, Cent)]

\* Payments that need not match the total are checked against the customer's account.
PaymentSuffices(payment_method, received, total) ==
    /\ payment_method = "cash" => received >= total
    /\ payment_method = "mixed" => received - total \in -2..2

create_sale(payment_method, received) ==
    LET calculated == [i \in DOMAIN cart |-> calculate_item(cart[i])]
        totals == sale_totals(calculated)
    IN  /\ cart # <<>> /\ totals.total > 0
        /\ PaymentSuffices(payment_method, totals.total + received, totals.total)
        /\ ledger' = Append(ledger,
                [lines |-> cart, items |-> [i \in DOMAIN cart |-> ItemRow(calculated[i])],
                 total |-> totals.total, subtotal |-> totals.subtotal, tax |-> totals.tax,
                 discount |-> totals.discount, payment_method |-> payment_method])
        /\ cart' = <<>>
        /\ UNCHANGED <<papers, receipt>>

Scans(l) ==
    /\ Len(cart) + Altogether([n \in DOMAIN ledger |-> Len(ledger[n].items)]) < MaxLines
    /\ cart' = Append(cart, l)
    /\ UNCHANGED <<ledger, papers, receipt>>

-----------------------------------------------------------------------------
\* The documents.

determine_metodo_pago(payment_method) == IF payment_method \in {"credit", "mixed"} THEN "PPD" ELSE "PUE"

map_payment_method(payment_method) ==
    CASE payment_method = "card" -> "04"
      [] payment_method = "transfer" -> "03"
      [] payment_method = "wallet" -> "05"
      [] payment_method \in {"credit", "mixed"} -> "99"
      [] OTHER -> "01"

validate_payment_logic(metodo, forma) == metodo = "PPD" <=> forma = "99"

\* One tax per concept, on what it costs before the discount.
build_conceptos(items) ==
    [i \in DOMAIN items |->
        [cantidad |-> items[i].qty, valor |-> items[i].price,
         importe |-> Importe(items[i]), iva |-> Tax(Importe(items[i]))]]

\* A credit note writes two decimals of a quantity.
build_conceptos_credit_note(items) ==
    [i \in DOMAIN items |->
        [cantidad |-> RoundHalfEven(items[i].qty, 100) * 100, valor |-> items[i].price,
         importe |-> Importe(items[i]), iva |-> Tax(Importe(items[i]))]]

\* A fault: the tax of the whole, not the sum of the taxes.
build_impuestos_of_base(items) ==
    [base |-> Altogether(Importes(items)), iva |-> Tax(Altogether(Importes(items)))]

build_impuestos(items) ==
    [base |-> Altogether(Importes(items)), iva |-> Altogether(Taxes(items))]

build_comprobante(sale) ==
    LET subtotal == Altogether(Importes(sale.items))
        iva == Altogether(Taxes(sale.items))
    IN  [subtotal |-> subtotal, descuento |-> sale.discount, total |-> subtotal - sale.discount + iva,
         metodo |-> determine_metodo_pago(sale.payment_method),
         forma |-> map_payment_method(sale.payment_method)]

build_comprobante_egreso(items) ==
    LET subtotal == Altogether(Importes(items))
    IN  [subtotal |-> subtotal, descuento |-> 0,
         total |-> subtotal + Altogether(Taxes(items)),
         metodo |-> "PPD", forma |-> "99"]

build(sale) ==
    [head |-> build_comprobante(sale), conceptos |-> build_conceptos(sale.items),
     impuestos |-> build_impuestos(sale.items)]

build_credit_note(items) ==
    [head |-> build_comprobante_egreso(items), conceptos |-> build_conceptos_credit_note(items),
     impuestos |-> build_impuestos(items)]

Recorded(kind, of, document, total, subtotal, tax) ==
    [kind |-> kind, of |-> of, document |-> document, total |-> total, subtotal |-> subtotal, tax |-> tax]

Records(row) ==
    /\ Len(papers) < MaxDocuments
    /\ papers' = Append(papers, row)
    /\ UNCHANGED <<cart, ledger, receipt>>

\* A document has no line of nothing, which a row may have become.
Countable(items) == \A i \in DOMAIN items : items[i].qty > 0

\* What is recorded of an invoice is what was recorded of the sale.
invoice(n) ==
    LET sale == ledger[n] IN
    /\ Countable(sale.items)
    /\ validate_payment_logic(build_comprobante(sale).metodo, build_comprobante(sale).forma)
    /\ Records(Recorded("invoice", n, build(sale), sale.total, sale.subtotal, sale.tax))

\* Facturapi gets two decimals of a quantity, one for nothing, and no discount, and the
\* form the caller asks for, which has a default, decides over that of the sale.
facturapi_items(items) ==
    [i \in DOMAIN items |->
        [cantidad |-> RoundHalfUp(IF items[i].qty = 0 THEN Unit ELSE items[i].qty, 100) * 100,
         valor |-> items[i].price]]

\* Facturapi may take a price to have the tax in it or add the tax, and an answer
\* that leaves the total out stands for that of the sale.
facturapi_totals(conceptos, sale) ==
    LET base == Altogether([i \in DOMAIN conceptos |-> RoundHalfUp(conceptos[i].cantidad * conceptos[i].valor, Unit)])
    IN  {base, base + Tax(base), sale.total}

invoice_via_facturapi(n, forma) ==
    LET sale == ledger[n]
        request == [conceptos |-> facturapi_items(sale.items),
                    head |-> [metodo |-> IF forma = "99" THEN "PPD" ELSE "PUE", forma |-> forma]]
    IN  \E total \in facturapi_totals(request.conceptos, sale) :
            Records(Recorded("facturapi", n, request, total, sale.subtotal, sale.tax))

\* The lines of the sale as they were; what is recorded is taxed as a whole.
credit_note(k) ==
    LET items == ledger[papers[k].of].items
        subtotal == Altogether([i \in DOMAIN items |-> items[i].subtotal])
    IN  /\ papers[k].kind \in {"invoice", "facturapi"} /\ Countable(items)
        /\ Records(Recorded("credit", papers[k].of, build_credit_note(items),
                            subtotal + Tax(subtotal), subtotal, Tax(subtotal)))

-----------------------------------------------------------------------------
\* The complement of a payment: each document takes the whole payment, as far as it goes.

build_payment_complement(K, amount) ==
    [monto |-> amount,
     doctos |-> [k \in K |->
        LET paid == IF amount < papers[k].total THEN amount ELSE papers[k].total
        IN  [anterior |-> papers[k].total, pagado |-> paid,
             insoluto |-> NotNegative(papers[k].total - paid)]]]

payment_receipt(K, amount) ==
    /\ receipt' = build_payment_complement(K, amount)
    /\ UNCHANGED <<cart, ledger, papers>>

AmountsInit == cart = <<>> /\ ledger = <<>> /\ papers = <<>> /\ receipt = Unset

AmountsNext ==
    \/ \E l \in Lines : Scans(l)
    \/ \E payment_method \in Payments, received \in -3..2 : create_sale(payment_method, received)
    \/ \E n \in DOMAIN ledger :
        invoice(n) \/ \E forma \in Forms : invoice_via_facturapi(n, forma)
    \/ \E k \in DOMAIN papers :
        \/ credit_note(k)
        \/ \E amount \in {papers[k].total, papers[k].total \div 2} :
            \E K \in SUBSET DOMAIN papers : k \in K /\ payment_receipt(K, amount)

-----------------------------------------------------------------------------
AmountsTypeOK ==
    /\ \A i \in DOMAIN cart : cart[i] \in Lines
    /\ \A n \in DOMAIN ledger : ledger[n].total \in Nat \ {0} /\ ledger[n].tax \in Nat /\ ledger[n].discount \in Nat
    /\ \A k \in DOMAIN papers :
        /\ papers[k].kind \in {"invoice", "facturapi", "credit"} /\ papers[k].total \in Int
        /\ papers[k].document.head.metodo \in {"PUE", "PPD"}

\* What rounding may make of a sale: of a line, 0.58 cents a unit, for a price is off by
\* half a cent and is taxed after; as much for the half of a ten-thousandth a quantity
\* is off; and 2.16 cents for its own roundings; half a cent for the whole discount.
OffBy(row) == 58 * (row.qty + (IF row.price < 0 THEN -row.price ELSE row.price)) + 29
Slack(items) ==
    (Altogether([i \in DOMAIN items |-> OffBy(items[i]) + 216 * Unit]) + 50 * Unit) \div (100 * Unit)
Near(a, b, slack) == a - b \in -slack..slack

\* The whole discount was taken: no line was cut off at zero.
Uncut(sale) == \A i \in DOMAIN sale.lines : Due(sale.lines[i]) >= 0
\* The till named no part of a cent or of a ten-thousandth.
Whole(sale) ==
    \A i \in DOMAIN sale.lines : sale.lines[i].qty % Fine = 0 /\ Price(sale.lines[i]) % Fine = 0

\* A document the backend writes adds up: its subtotal is the sum of its lines,
\* each a quantity times a price, its tax the sum of their taxes, its total what
\* they come to less the discount, and it is deferred exactly if its form is 99.
AddsUp(paper) ==
    LET d == paper.document  c == d.conceptos IN
    /\ d.head.subtotal = Altogether([i \in DOMAIN c |-> c[i].importe]) /\ d.impuestos.base = d.head.subtotal
    /\ d.impuestos.iva = Altogether([i \in DOMAIN c |-> c[i].iva])
    /\ d.head.total = d.head.subtotal - d.head.descuento + d.impuestos.iva
    /\ paper.kind = "invoice" =>
        \A i \in DOMAIN c : Near(c[i].cantidad * c[i].valor, c[i].importe * Unit, Unit \div 2)
    /\ d.head.metodo = "PPD" <=> d.head.forma = "99"

\* And it is the document of its sale: up to rounding an invoice comes to what was
\* paid and 16 % of the discount, and a credit note gives it back with the discount,
\* and is recorded as it is written up to rounding, a cent a line if nothing was finer.
Corresponds(paper) ==
    LET sale == ledger[paper.of]  d == paper.document.head IN
    /\ paper.kind = "invoice" /\ Uncut(sale) =>
        Near(d.total, sale.total + Tax(sale.discount), Slack(sale.items))
    /\ paper.kind = "credit" =>
        /\ d.total = build_comprobante(sale).total + sale.discount
        /\ Near(d.total, paper.total, IF Whole(sale) THEN Len(sale.items) ELSE Slack(sale.items))

\* A sale comes to its prices with tax, at half a cent a line; every document adds
\* up and belongs to its sale, as far from it as the columns round what the till
\* asked for; what a payment leaves unpaid of an invoice and what it pays are what
\* was owed.
DocumentsAddUp ==
    /\ \A n \in DOMAIN ledger :
        /\ ledger[n].subtotal + ledger[n].tax = ledger[n].total
        /\ Uncut(ledger[n]) /\ (\A i \in DOMAIN ledger[n].lines : ledger[n].lines[i].price_includes_tax) =>
            Near(Cent * ledger[n].total,
                 Altogether([i \in DOMAIN ledger[n].lines |-> Due(ledger[n].lines[i])]),
                 Len(ledger[n].lines) * (Cent \div 2))
    /\ \A k \in DOMAIN papers :
        papers[k].kind \in {"invoice", "credit"} => AddsUp(papers[k]) /\ Corresponds(papers[k])
    /\ receipt # Unset => \A k \in DOMAIN receipt.doctos :
        /\ receipt.doctos[k].pagado <= receipt.monto
        /\ receipt.doctos[k].pagado + receipt.doctos[k].insoluto = papers[k].total

\* What is sold on credit or paid in several ways is declared as paid later.
DeferredIsDeclared ==
    \A k \in DOMAIN papers : papers[k].kind \in {"invoice", "facturapi"} =>
        (papers[k].document.head.metodo = "PPD" <=> ledger[papers[k].of].payment_method \in {"credit", "mixed"})
=============================================================================
