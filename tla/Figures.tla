------------------------------- MODULE Figures -------------------------------
(***************************************************************************)
(* What the pages of a node make of its sales and cash movements: the      *)
(* closing of a turn and its summary, the panel of the owner, the          *)
(* dashboards, the expenses, the customer's credit, the reports.  Writes   *)
(* are whole transactions, except the closing, whose reads a cancellation  *)
(* may come between; a summary is two statements of its own.               *)
(***************************************************************************)
EXTENDS Integers, FiniteSets

CONSTANTS
    Tickets,      \* rows of sales
    Shifts,       \* rows of turns, each of a user of its own
    Notes,        \* rows of cash_movements
    SaleKinds,    \* what a sale may be
    InitialCash,
    SlotsPerDay,  \* the clock's steps, the finest that the pages tell apart
    DaysPerYear,
    Offsets,      \* how many steps the server's time zone may be behind UTC
    MaxTime       \* bound of a run

Methods == {"cash", "card", "transfer", "mixed", "credit", "wallet"}

\* The parts of a mixed sale may fall short of its total, or exceed it by cents;
\* net is what its items come to, before discount and tax, and loose the part of it
\* that is of common lines, which are of no article.
ASSUME FiguresAssumption ==
    /\ IsFiniteSet(Tickets) /\ IsFiniteSet(Shifts) /\ IsFiniteSet(Notes)
    /\ \A kind \in SaleKinds :
        /\ kind.method \in Methods /\ kind.serie \in {"A", "B"}
        /\ {kind.total, kind.net, kind.loose, kind.cash, kind.card, kind.transfer} \subseteq Nat
        /\ kind.loose <= kind.net /\ (kind.article = "none" => kind.loose = kind.net)
    /\ InitialCash \in Int /\ MaxTime \in Nat
    /\ Offsets \subseteq 0..SlotsPerDay /\ {SlotsPerDay, DaysPerYear} \subseteq Nat \ {0}

VARIABLES
    now,
    behind,       \* of the session's time zone
    ticket,
    shift,
    note,
    owed,         \* credit_balance of the one customer who buys on credit
    views,        \* the sales that the materialized views were made of
    page,         \* a turn's summary that is being put together
    undone,       \* cash of a turn's sales cancelled after its closing read them
    touched       \* sales were made or cancelled since the views were made

figures == <<now, behind, ticket, shift, note, owed, views, page, undone, touched>>

NoRow == [status |-> "none"]
Blank == [at |-> "none"]

FiguresTypeOK ==
    /\ now \in 0..MaxTime /\ behind \in Offsets
    /\ \A x \in Tickets : ticket[x].status \in {"none", "completed", "cancelled"}
    /\ \A k \in Shifts : shift[k].status \in {"none", "open", "closing", "closed"} /\ undone[k] \in Nat
    /\ \A n \in Notes : note[n].status \in {"none", "noted"}
    /\ owed \in Nat /\ views \in [made : BOOLEAN, of : SUBSET Tickets]
    /\ page.at \in {"none", "reading", "shown"} /\ touched \in BOOLEAN

FiguresInit ==
    /\ now = 0 /\ behind \in Offsets
    /\ ticket = [x \in Tickets |-> NoRow] /\ shift = [k \in Shifts |-> NoRow] /\ note = [n \in Notes |-> NoRow]
    /\ owed = 0 /\ views = [made |-> FALSE, of |-> {}]
    /\ page = Blank /\ undone = [k \in Shifts |-> 0] /\ touched = FALSE

\* The sum of f over its domain, counted by its units.
Sum(f) == Cardinality(UNION {{x} \X (1..f[x]) : x \in DOMAIN f})
Completed == {x \in Tickets : ticket[x].status = "completed"}
OfShift(k) == {x \in Completed : ticket[x].shift = k}
Total(S) == Sum([x \in S |-> ticket[x].total])
Net(S) == Sum([x \in S |-> ticket[x].net])
Loose(S) == Sum([x \in S |-> ticket[x].loose])
\* JOIN products: only the items that are of an article.
Listed(S) == Sum([x \in S |-> ticket[x].net - ticket[x].loose])
Noted(types) == {n \in Notes : note[n].status = "noted" /\ note[n].type \in types}
Amount(S) == Sum([n \in S |-> note[n].amount])

CashOf(x) == CASE ticket[x].method = "cash" -> ticket[x].total
               [] ticket[x].method = "mixed" -> ticket[x].cash
               [] OTHER -> 0
Cash(S) == Sum([x \in S |-> CashOf(x)])

-----------------------------------------------------------------------------
\* A turn: its closing, its summary, the owner's panel.

Drawer(cash, k) ==
    InitialCash + cash + Amount({n \in Noted({"in"}) : note[n].shift = k})
                       - Amount({n \in Noted({"out", "expense"}) : note[n].shift = k})

calculate_turn_summary(k) ==
    [cash_sales |-> Cash(OfShift(k)), total_sales |-> Total(OfShift(k)), sales_count |-> Cardinality(OfShift(k)),
     expected_cash |-> Drawer(Cash(OfShift(k)), k)]

\* The rows of the summary's first statement, one per payment method, and the
\* cash they stand for.
by_method(k) ==
    LET Of(m) == {x \in OfShift(k) : ticket[x].method = m} IN
    [m \in {ticket[x].method : x \in OfShift(k)} |->
        [total |-> Total(Of(m)), mixed_cash_sum |-> Sum([x \in Of(m) |-> ticket[x].cash])]]

\* A fault: what was paid in parts counts whole.
TotalsOfRows(rows) ==
    (IF "cash" \in DOMAIN rows THEN rows["cash"].total ELSE 0)
    + (IF "mixed" \in DOMAIN rows THEN rows["mixed"].total ELSE 0)

CashOfRows(rows) ==
    (IF "cash" \in DOMAIN rows THEN rows["cash"].total ELSE 0)
    + (IF "mixed" \in DOMAIN rows THEN rows["mixed"].mixed_cash_sum ELSE 0)

\* The turn the owner's panel speaks of is the one opened last, whatever its till.
NewestOpen == {k \in Shifts : /\ shift[k].status \in {"open", "closing"}
                              /\ \A j \in Shifts : shift[j].status \in {"open", "closing"}
                                                    => shift[j].start <= shift[k].start}

get_turn_status(k) ==
    LET Part(m) == Sum([x \in OfShift(k) |-> IF ticket[x].method = m THEN ticket[x].total
                                             ELSE IF ticket[x].method = "mixed" THEN ticket[x][m] ELSE 0])
    IN [cash_sales |-> Part("cash"), card_sales |-> Part("card"), transfer_sales |-> Part("transfer"),
        total_sales |-> Total(OfShift(k))]

-----------------------------------------------------------------------------
\* Days and years.  sales.timestamp is an instant; cash_movements.timestamp is
\* what the session's clock showed, and is compared with bounds of UTC.

UtcDay(t) == t \div SlotsPerDay
LocalDay(t) == (t - behind) \div SlotsPerDay
YearOf(day) == day \div DaysPerYear

search_sales(from, to, status) ==
    {x \in Tickets : /\ ticket[x].status \in (IF status = "all" THEN {"completed", "cancelled"} ELSE {status})
                     /\ UtcDay(ticket[x].at) \in from..to}
sync_pull_sales == {x \in Tickets : ticket[x].status \notin {"none", "cancelled"}}

UtcToday == {x \in Completed : UtcDay(ticket[x].at) = UtcDay(now)}
SessionToday == {x \in Completed : LocalDay(ticket[x].at) = LocalDay(now)}

get_quick_status == [ventas_hoy |-> Cardinality(UtcToday), total_hoy |-> Total(UtcToday)]

\* Rows of each hour there were sales in, and of each article sold: its revenue is
\* the subtotal of its items.  A common line has no product_id, and so no row.
\* ORDER BY and LIMIT 5 left out.
Hour(x) == (ticket[x].at - behind) % SlotsPerDay
ByHour(S) == [h \in {Hour(x) : x \in S} |-> Total({x \in S : Hour(x) = h})]
Ranking(S) ==
    [a \in {ticket[x].article : x \in S} \ {"none"} |-> Listed({x \in S : ticket[x].article = a})]

get_executive_dashboard ==
    [transactions |-> Cardinality(UtcToday), revenue |-> Total(UtcToday),
     hourly |-> ByHour(UtcToday), top |-> Ranking(UtcToday)]

get_sales_today == Total(SessionToday)
get_system_status == [sales_today |-> Cardinality(SessionToday), total_today |-> Total(SessionToday),
                      turn_active |-> NewestOpen # {}]

OfYear(serie) == {x \in Completed : YearOf(UtcDay(ticket[x].at)) = YearOf(UtcDay(now)) /\ ticket[x].serie = serie}
get_resico == [serie_a |-> Total(OfYear("A")), serie_b |-> Total(OfYear("B")),
               total |-> Total(OfYear("A")) + Total(OfYear("B"))]

SpentIn(types, year) == Amount({n \in Noted(types) : YearOf(LocalDay(note[n].at)) = year})
get_expense_summary == [year |-> SpentIn({"expense"}, YearOf(UtcDay(now)))]

get_wealth ==
    LET income == Total({x \in Completed : YearOf(UtcDay(ticket[x].at)) = YearOf(UtcDay(now))})
        spent == SpentIn({"out", "expense"}, YearOf(UtcDay(now)))
        taxes == (Total(OfYear("A")) * 16) \div 116
    IN [ingresos_total |-> income, gastos |-> spent, impuestos |-> taxes,
        disponible_retiro |-> IF income - spent - taxes > 0 THEN income - spent - taxes ELSE 0]

-----------------------------------------------------------------------------
\* A customer's credit, and the reports of the materialized views.

OnCredit == {x \in Completed : ticket[x].method = "credit"}
get_customer_credit == [credit_balance |-> owed, pending_sales |-> OnCredit]

daily_sales_summary ==
    [d \in {LocalDay(ticket[x].at) : x \in views.of} |-> Total({x \in views.of : LocalDay(ticket[x].at) = d})]
hourly_heatmap == ByHour(views.of)
product_sales_ranking == Ranking(views.of)

-----------------------------------------------------------------------------
\* A summary being put together misses what commits between its statements.
Misses(k, cash) ==
    page' = IF page.at = "reading" /\ page.shift = k THEN [page EXCEPT !.missed = @ + cash] ELSE page

open_turn(k) ==
    /\ shift[k].status = "none"
    /\ shift' = [shift EXCEPT ![k] = [status |-> "open", start |-> now]]
    /\ UNCHANGED <<now, behind, ticket, note, owed, views, page, undone, touched>>

SaleMade(x, k, kind) ==
    /\ ticket[x].status = "none" /\ shift[k].status = "open"
    /\ ticket' = [ticket EXCEPT ![x] =
        [status |-> "completed", shift |-> k, at |-> now, method |-> kind.method, serie |-> kind.serie,
         total |-> kind.total, net |-> kind.net, cash |-> kind.cash, card |-> kind.card,
         transfer |-> kind.transfer, article |-> kind.article, loose |-> kind.loose]]
    /\ owed' = IF kind.method = "credit" THEN owed + kind.total ELSE owed
    /\ Misses(k, CashOf(x)')
    /\ touched' = TRUE
    /\ UNCHANGED <<now, behind, shift, note, views, undone>>

\* The turn of the sale is neither locked nor asked whether it is open.
perform_sale_cancellation(x) ==
    /\ ticket[x].status = "completed"
    /\ ticket' = [ticket EXCEPT ![x].status = "cancelled"]
    /\ owed' = IF ticket[x].method # "credit" THEN owed
               ELSE IF owed > ticket[x].total THEN owed - ticket[x].total ELSE 0
    /\ undone' = [undone EXCEPT ![ticket[x].shift] =
                    IF shift[ticket[x].shift].status = "open" THEN @ ELSE @ + CashOf(x)]
    /\ Misses(ticket[x].shift, -CashOf(x))
    /\ touched' = TRUE
    /\ UNCHANGED <<now, behind, shift, note, views>>

create_cash_movement(n, k, type, amount) ==
    /\ note[n].status = "none" /\ shift[k].status = "open"
    /\ note' = [note EXCEPT ![n] = [status |-> "noted", shift |-> k, type |-> type, amount |-> amount, at |-> now]]
    /\ UNCHANGED <<now, behind, ticket, shift, owed, views, page, undone, touched>>

\* The closing locks the turn, which keeps sales and movements out, and reads the sales.
closing_reads(k) ==
    /\ shift[k].status = "open"
    /\ shift' = [shift EXCEPT ![k] = [status |-> "closing", start |-> @.start,
                                      system_sales |-> calculate_turn_summary(k).cash_sales]]
    /\ UNCHANGED <<now, behind, ticket, note, owed, views, page, undone, touched>>

close_turn(k, final) ==
    /\ shift[k].status = "closing"
    /\ shift' = [shift EXCEPT ![k] = [status |-> "closed", start |-> @.start, system_sales |-> @.system_sales,
                                      final_cash |-> final, difference |-> final - Drawer(@.system_sales, k)]]
    /\ UNCHANGED <<now, behind, ticket, note, owed, views, page, undone, touched>>

get_turn_summary(k) ==
    /\ page.at = "none" /\ shift[k].status # "none"
    /\ page' = [at |-> "reading", shift |-> k, rows |-> by_method(k), missed |-> 0]
    /\ UNCHANGED <<now, behind, ticket, shift, note, owed, views, undone, touched>>

SummaryShown ==
    /\ page.at = "reading"
    /\ page' = [at |-> "shown", missed |-> page.missed, expected_cash |-> Drawer(CashOfRows(page.rows), page.shift),
                is |-> calculate_turn_summary(page.shift).expected_cash]
    /\ UNCHANGED <<now, behind, ticket, shift, note, owed, views, undone, touched>>

SummaryLeft ==
    /\ page.at = "shown"
    /\ page' = Blank
    /\ UNCHANGED <<now, behind, ticket, shift, note, owed, views, undone, touched>>

\* The migration makes the views of the sales there are.  Nothing calls the
\* refresh_sales_views that it defines.
views_are_made ==
    /\ ~views.made
    /\ views' = [made |-> TRUE, of |-> Completed] /\ touched' = FALSE
    /\ UNCHANGED <<now, behind, ticket, shift, note, owed, page, undone>>

Passes ==
    /\ now < MaxTime
    /\ now' = now + 1
    /\ UNCHANGED <<behind, ticket, shift, note, owed, views, page, undone, touched>>

FiguresNext ==
    \/ \E k \in Shifts :
        \/ open_turn(k) \/ closing_reads(k) \/ get_turn_summary(k)
        \/ close_turn(k, InitialCash)
        \/ \E x \in Tickets, kind \in SaleKinds : SaleMade(x, k, kind)
        \/ \E n \in Notes, type \in {"in", "out", "expense"} : create_cash_movement(n, k, type, 1)
    \/ \E x \in Tickets : perform_sale_cancellation(x)
    \/ SummaryShown \/ SummaryLeft \/ views_are_made \/ Passes

-----------------------------------------------------------------------------
\* What a closing stored is what the turn's figures are now, and the cash of
\* the sales cancelled since it read them, for which no movement is written.
ClosingsExplained ==
    \A k \in Shifts : shift[k].status = "closed" =>
        LET is == calculate_turn_summary(k) IN
        /\ shift[k].final_cash - shift[k].difference = is.expected_cash + undone[k]
        /\ shift[k].system_sales = is.cash_sales + undone[k]

\* A summary is off by the sales and cancellations between its two statements.
SummariesExplained ==
    page.at = "shown" => page.expected_cash = page.is - page.missed

\* The panel's three parts are the sales, but for those on credit and from wallets
\* and the rest of the mixed ones.
PanelAgrees ==
    \A k \in NewestOpen :
        LET panel == get_turn_status(k)
            Of(methods) == {x \in OfShift(k) : ticket[x].method \in methods}
        IN  /\ panel.cash_sales = calculate_turn_summary(k).cash_sales
            /\ panel.cash_sales + panel.card_sales + panel.transfer_sales + Total(Of({"credit", "wallet", "mixed"}))
                = panel.total_sales
                  + Sum([x \in Of({"mixed"}) |-> ticket[x].cash + ticket[x].card + ticket[x].transfer])

\* The pages that speak of today agree, with the two that go by the session's day as
\* far as no sale falls on a day in one zone and not the other; and the products at
\* the top are what was sold, but for the common lines.
DaysAgree ==
    LET e == get_executive_dashboard q == get_quick_status today == UtcDay(now) IN
    /\ q.total_hoy = e.revenue /\ q.ventas_hoy = e.transactions
    /\ q.total_hoy = Total(search_sales(today, today, "completed"))
    /\ e.revenue = Sum(e.hourly) /\ Sum(e.top) = Net(UtcToday) - Loose(UtcToday)
    /\ get_system_status.total_today = get_sales_today
    /\ UtcToday = SessionToday => q.total_hoy = get_sales_today
    /\ q.total_hoy - get_sales_today = Total(UtcToday \ SessionToday) - Total(SessionToday \ UtcToday)

\* The pages of the year agree, with the turns too if all sales are of this year.
YearsAgree ==
    LET w == get_wealth r == get_resico IN
    /\ w.ingresos_total = r.total
    /\ w.impuestos <= r.serie_a /\ w.disponible_retiro <= r.total
    /\ w.gastos - get_expense_summary.year = SpentIn({"out"}, YearOf(UtcDay(now)))
    /\ (\A x \in Completed : YearOf(UtcDay(ticket[x].at)) = YearOf(UtcDay(now)))
        => r.total = Sum([k \in Shifts |-> calculate_turn_summary(k).total_sales])

\* A customer owes the credit sales that the page lists as pending.
CreditAgrees == get_customer_credit.credit_balance = Total(get_customer_credit.pending_sales)

\* The reports agree with each other, the ranking but for the common lines, and with
\* a search as long as no sale is made or cancelled after the views were.
ReportsAgree ==
    /\ Sum(daily_sales_summary) = Total(views.of) /\ Sum(hourly_heatmap) = Total(views.of)
    /\ Sum(product_sales_ranking) = Net(views.of) - Loose(views.of)
    /\ views.made /\ ~touched => views.of = sync_pull_sales

\* The figures that different pages, each with statements of its own, give of
\* one thing differ by what the interleaving and the clocks explain, no more.
FiguresExplained ==
    /\ ClosingsExplained /\ SummariesExplained /\ PanelAgrees
    /\ DaysAgree /\ YearsAgree /\ CreditAgrees /\ ReportsAgree
=============================================================================
