------------------------------- MODULE StoreTx -------------------------------
(***************************************************************************)
(* The request handlers of the point of sale.  Each of Workers is one      *)
(* database connection serving a request; a handler is one transaction,    *)
(* split at every statement that may have to wait for a row lock or that   *)
(* reads what a later statement relies on.  Writes become visible when the *)
(* transaction commits, so each handler's writes are its commit step.      *)
(*                                                                         *)
(* PostgreSQL takes two kinds of row lock here: the update lock of FOR     *)
(* UPDATE and UPDATE, and the key lock that the insertion of a sale takes  *)
(* on its customer's row for the foreign key sales_customer_id_fkey.       *)
(***************************************************************************)
EXTENDS Store

CONSTANTS
    Workers,      \* connections serving requests at the same time
    Ops,          \* the handlers requests may call in this instance
    NoOrder,      \* no order: the request is not a sale
    MaxTurns,     \* no request to open a turn once there are this many
    MaxSales,     \* no request to sell once there are this many sales
    MaxMoves,     \* no request to move cash in a turn with this many
    MaxAdjusted   \* no adjustment takes adjusted[p] beyond this

VARIABLES
    pc,           \* pc[w]: the step worker w is about to take
    req,          \* req[w]: what its request asks for and what it has read
    held          \* held[w]: the row locks it holds

vars == <<turns, sales, stock, adjusted, active, last, credit, terms, wallet,
          unassigned, pc, req, held>>

ASSUME NoOrderAssumption == NoOrder \notin Orders

Locked(row, mode) == [row |-> row, mode |-> mode]
TurnRow(t) == Locked(<<"turns", t>>, "update")
SaleRow(s) == Locked(<<"sales", s>>, "update")
ProductRow(p) == Locked(<<"products", p>>, "update")
SequenceRow(st) == Locked(<<"secuencias", st>>, "update")
CustomerRow(c) == Locked(<<"customers", c>>, "update")
CustomerKey(c) == Locked(<<"customers", c>>, "key")

Conflict(a, b) == a.row = b.row /\ (a.mode = "update" \/ b.mode = "update")

\* No other worker holds a lock that conflicts with lock l.
Free(w, l) == \A v \in Workers \ {w} : \A h \in held[v] : ~Conflict(l, h)

\* What a request starts with.  Nothing of it is left once it has ended.
Blank == [turn |-> 0, cand |-> {}, order |-> NoOrder, number |-> 0, sale |-> 0,
          product |-> 0, value |-> 0, delta |-> 0, counted |-> {}, tally |-> 0,
          user |-> 0, terminal |-> 0]

Init ==
    /\ StoreInit
    /\ pc = [w \in Workers |-> "idle"]
    /\ req = [w \in Workers |-> Blank]
    /\ held = [w \in Workers |-> {}]

-----------------------------------------------------------------------------
(* The steps every handler is made of                                      *)

Begin(w, op, step, r) ==
    /\ pc[w] = "idle"
    /\ op \in Ops
    /\ pc' = [pc EXCEPT ![w] = step]
    /\ req' = [req EXCEPT ![w] = r]
    /\ UNCHANGED <<held, store>>

\* Goes on to step with locks taken and what was read in r.
Go(w, step, locks, r) ==
    /\ pc' = [pc EXCEPT ![w] = step]
    /\ req' = [req EXCEPT ![w] = r]
    /\ held' = [held EXCEPT ![w] = @ \cup locks]
    /\ UNCHANGED store

\* A faulty variant of End, see below: a connection that goes back to the pool
\* with its transaction open.
EndKeepingLocks(w) ==
    /\ pc' = [pc EXCEPT ![w] = "idle"]
    /\ req' = [req EXCEPT ![w] = Blank]
    /\ UNCHANGED held

\* COMMIT and ROLLBACK release every lock.
End(w) ==
    /\ pc' = [pc EXCEPT ![w] = "idle"]
    /\ req' = [req EXCEPT ![w] = Blank]
    /\ held' = [held EXCEPT ![w] = {}]

Abort(w) == End(w) /\ UNCHANGED store

\* The locks the next step of w waits for.
Latest(S) == { t \in S : \A u \in S : u <= t }
Earliest(S) == { t \in S : \A u \in S : t <= u }

Need(w) ==
    CASE pc[w] = "sale_turn" -> { TurnRow(t) : t \in Latest(req[w].cand) }
      [] pc[w] = "sale_folio" ->
            { SequenceRow(<<SerieOf(req[w].order), turns[req[w].turn].terminal>>) }
      [] pc[w] = "sale_insert" ->
            IF req[w].order.customer = NoCustomer THEN {}
            ELSE { CustomerKey(req[w].order.customer) }
      [] pc[w] = "sale_stock" ->
            { ProductRow(p) : p \in { q \in Products : Deducted(req[w].order, q) > 0 } }
      [] pc[w] = "sale_customer" -> { CustomerRow(req[w].order.customer) }
      [] pc[w] = "cancel_sale" -> { SaleRow(req[w].sale) }
      [] pc[w] = "cancel_customer" -> { CustomerRow(sales[req[w].sale].order.customer) }
      [] pc[w] \in {"close_turn", "move_turn"} -> { TurnRow(req[w].turn) }
      [] pc[w] = "expense_turn" -> { TurnRow(t) : t \in Earliest(req[w].cand) }
      [] pc[w] = "adjust_product" -> { ProductRow(req[w].product) }
      [] OTHER -> {}

WaitsFor(v, w) == v # w /\ \E n \in Need(v), h \in held[w] : Conflict(n, h)

Granted(w) == \A v \in Workers : ~WaitsFor(w, v)

-----------------------------------------------------------------------------
(* Faulty variants of steps below.  No handler takes them: each stands for *)
(* a slip the code could have had, and shows that a property notices it.   *)

\* The open turn is looked for without FOR UPDATE.
SaleReadTurn(w) ==
    LET r == req[w]
    IN  /\ pc[w] = "sale_turn"
        /\ \E t \in Latest(r.cand) :
            IF IsOpen(t)
            THEN Go(w, "sale_products", {}, [r EXCEPT !.turn = t, !.cand = {}])
            ELSE Abort(w)

\* Stock is validated without FOR UPDATE.
SaleReadProducts(w) ==
    LET o == req[w].order
    IN  /\ pc[w] = "sale_products"
        /\ IF \A p \in Products : Demand(o, p) <= stock[p]
           THEN Go(w, "sale_folio", {}, req[w])
           ELSE Abort(w)

\* The folio is read first and written back later.
SaleReadFolio(w) ==
    LET r == req[w]
    IN  /\ pc[w] = "sale_folio"
        /\ Go(w, "sale_insert", {},
              [r EXCEPT !.number = last[<<SerieOf(r.order), turns[r.turn].terminal>>] + 1])

\* The credit check reads the customer without FOR UPDATE.
SaleReadCustomer(w) ==
    /\ pc[w] = "sale_customer"
    /\ IF AccountAllows(req[w].order)
       THEN Go(w, "sale_commit", {}, req[w])
       ELSE Abort(w)

\* The status of the sale is checked without FOR UPDATE.
CancelReadSale(w) ==
    /\ pc[w] = "cancel_sale"
    /\ IF sales[req[w].sale].status = "completed"
       THEN Go(w, "cancel_products", {}, req[w])
       ELSE Abort(w)

\* The other spelling of the status.
CancelMisspelt(w) ==
    LET s == req[w].sale
    IN  /\ pc[w] = "cancel_commit"
        /\ sales' = [sales EXCEPT ![s].status = "canceled"]
        /\ End(w)
        /\ UNCHANGED <<turns, stock, adjusted, active, last, credit, terms, wallet, unassigned>>

\* close_turn reads its turn without FOR UPDATE.
CloseReadTurn(w) ==
    /\ pc[w] = "close_turn"
    /\ IF IsOpen(req[w].turn)
       THEN Go(w, "close_sum", {}, req[w])
       ELSE Abort(w)

\* A movement checks the turn before it waits for it, and not again.
MoveCheckedEarlier(w) ==
    /\ pc[w] = "move_turn"
    /\ Granted(w)
    /\ Go(w, "move_commit", Need(w), req[w])

\* An expense takes the turn it found without looking at it again.
ExpenseCheckedEarlier(w) ==
    LET r == req[w]
    IN  /\ pc[w] = "expense_turn"
        /\ Granted(w)
        /\ \E t \in Earliest(r.cand) :
            Go(w, "move_commit", {TurnRow(t)}, [r EXCEPT !.turn = t, !.cand = {}])

\* An adjustment computes the new stock from a row it has not locked.
AdjustReadProduct(w) ==
    LET r == req[w]
    IN  /\ pc[w] = "adjust_product"
        /\ IF active[r.product] /\ stock[r.product] + r.delta >= 0
           THEN Go(w, "adjust_commit", {},
                   [r EXCEPT !.value = stock[r.product] + r.delta])
           ELSE Abort(w)

-----------------------------------------------------------------------------
(* POST /sales/ : create_sale                                              *)

OpenTurnsOf(u) == { t \in DOMAIN turns : turns[t].user = u /\ IsOpen(t) }

\* The candidates are those of the statement's snapshot, cut to one terminal
\* when the request has the X-Terminal-Id header; want is body.turn_id, 0 if
\* the client sent none.
BeginSale(w) ==
    \E u \in Users, o \in Orders :
    \E cand \in { OpenTurnsOf(u) } \cup
                { { t \in OpenTurnsOf(u) : turns[t].terminal = term } : term \in Terminals } :
    \E want \in {0} \cup OpenTurnsOf(u) :
        /\ Len(sales) < MaxSales
        /\ cand # {}
        /\ Begin(w, "sale", "sale_turn",
                 [Blank EXCEPT !.order = o, !.cand = cand, !.turn = want])

\* The newest candidate; one that was closed while the lock was awaited is
\* skipped.
SaleLockTurn(w) ==
    LET r == req[w]
    IN  /\ pc[w] = "sale_turn"
        /\ Granted(w)
        /\ \E t \in Latest(r.cand) :
            IF IsOpen(t)
            THEN IF r.turn \in {0, t}
                 THEN Go(w, "sale_products", {TurnRow(t)}, [r EXCEPT !.turn = t, !.cand = {}])
                 ELSE Abort(w)
            ELSE IF r.cand = {t} THEN Abort(w)
                 ELSE Go(w, "sale_turn", {}, [r EXCEPT !.cand = @ \ {t}])

\* FOR UPDATE NOWAIT on the active rows, then the checks on what they show:
\* every line exists, and the demand for each row locked is in stock.
SaleLockProducts(w) ==
    LET o == req[w].order
        rows == { p \in RowsOf(o) : active[p] }
        locks == { ProductRow(p) : p \in rows }
    IN  /\ pc[w] = "sale_products"
        /\ IF /\ \A l \in locks : Free(w, l)
              /\ Lines(o) \subseteq rows
              /\ \A p \in rows \cap Products : Demand(o, p) > 0 => Demand(o, p) <= stock[p]
           THEN Go(w, "sale_folio", locks, req[w])
           ELSE Abort(w)

\* The UPDATE of secuencias inside the INSERT: its row stays locked.  (The row
\* itself, which the statement before creates if need be, is there from Init.)
SaleTakeFolio(w) ==
    LET r == req[w]
        st == <<SerieOf(r.order), turns[r.turn].terminal>>
    IN  /\ pc[w] = "sale_folio"
        /\ Granted(w)
        /\ Go(w, "sale_insert", {SequenceRow(st)}, [r EXCEPT !.number = last[st] + 1])

\* The foreign key check that ends the INSERT locks the key of the customer.
SaleInsert(w) ==
    /\ pc[w] = "sale_insert"
    /\ Granted(w)
    /\ Go(w, "sale_stock", Need(w), req[w])

\* The UPDATE of products, which may still have to wait for kit parts that
\* were inactive and so not locked; it takes their locks together.
SaleDeduct(w) ==
    /\ pc[w] = "sale_stock"
    /\ Granted(w)
    /\ Go(w, IF MovesAccount(req[w].order) THEN "sale_customer" ELSE "sale_commit",
          Need(w), req[w])

\* _process_credit_payment, _process_wallet_payment
SaleLockCustomer(w) ==
    /\ pc[w] = "sale_customer"
    /\ Granted(w)
    /\ IF AccountAllows(req[w].order)
       THEN Go(w, "sale_commit", Need(w), req[w])
       ELSE Abort(w)

SaleCommit(w) ==
    LET o == req[w].order
        t == req[w].turn
        c == o.customer
    IN  /\ pc[w] = "sale_commit"
        /\ last' = [last EXCEPT ![<<SerieOf(o), turns[t].terminal>>] = req[w].number]
        /\ sales' = Append(sales, [order |-> o, turn |-> t, terminal |-> turns[t].terminal,
                                   number |-> req[w].number, status |-> "completed"])
        /\ stock' = [p \in Products |-> stock[p] - Deducted(o, p)]
        /\ credit' = IF o.method = "credit"
                     THEN [credit EXCEPT ![c] = @ + o.amount] ELSE credit
        /\ wallet' = IF o.method # "credit" /\ MovesAccount(o)
                     THEN [wallet EXCEPT ![c] = @ - o.amount] ELSE wallet
        /\ End(w)
        /\ UNCHANGED <<turns, adjusted, active, terms, unassigned>>

Sale(w) ==
    \/ BeginSale(w) \/ SaleLockTurn(w) \/ SaleLockProducts(w) \/ SaleTakeFolio(w)
    \/ SaleInsert(w) \/ SaleDeduct(w) \/ SaleLockCustomer(w) \/ SaleCommit(w)

-----------------------------------------------------------------------------
(* POST /sales/{id}/cancel : perform_sale_cancellation                     *)

BeginCancel(w) ==
    \E s \in DOMAIN sales : Begin(w, "cancel", "cancel_sale", [Blank EXCEPT !.sale = s])

CancelLockSale(w) ==
    /\ pc[w] = "cancel_sale"
    /\ Granted(w)
    /\ IF sales[req[w].sale].status = "completed"
       THEN Go(w, "cancel_products", Need(w), req[w])
       ELSE Abort(w)

\* FOR UPDATE NOWAIT, on inactive rows too.
CancelLockProducts(w) ==
    LET o == sales[req[w].sale].order
        locks == { ProductRow(p) : p \in RowsOf(o) }
    IN  /\ pc[w] = "cancel_products"
        /\ IF \A l \in locks : Free(w, l)
           THEN Go(w, IF MovesAccount(o) THEN "cancel_customer" ELSE "cancel_commit",
                   locks, req[w])
           ELSE Abort(w)

CancelLockCustomer(w) ==
    /\ pc[w] = "cancel_customer"
    /\ Granted(w)
    /\ Go(w, "cancel_commit", Need(w), req[w])

CancelCommit(w) ==
    LET s == req[w].sale
        o == sales[s].order
        c == o.customer
    IN  /\ pc[w] = "cancel_commit"
        /\ sales' = [sales EXCEPT ![s].status = "cancelled"]
        /\ stock' = [p \in Products |-> stock[p] + Restored(o, p)]
        /\ credit' = IF o.method = "credit"
                     THEN [credit EXCEPT ![c] = Relieved(@, o.amount)] ELSE credit
        /\ wallet' = IF o.method # "credit" /\ MovesAccount(o)
                     THEN [wallet EXCEPT ![c] = @ + o.amount] ELSE wallet
        /\ End(w)
        /\ UNCHANGED <<turns, adjusted, active, last, terms, unassigned>>

Cancellation(w) ==
    \/ BeginCancel(w) \/ CancelLockSale(w) \/ CancelLockProducts(w)
    \/ CancelLockCustomer(w) \/ CancelCommit(w)

-----------------------------------------------------------------------------
(* Turns and cash: open_turn, close_turn, create_cash_movement,            *)
(* register_expense                                                        *)

BeginOpen(w) ==
    \E u \in Users, term \in Terminals :
        /\ Len(turns) < MaxTurns
        /\ Begin(w, "open", "open_check", [Blank EXCEPT !.user = u, !.terminal = term])

OpenOn(term) == { t \in DOMAIN turns : turns[t].terminal = term /\ IsOpen(t) }

\* The SELECT waits for the rows it finds.  If it finds none there is nothing
\* to lock: the INSERT that follows is a step of its own.
OpenCheck(w) ==
    LET found == OpenOn(req[w].terminal)
    IN  /\ pc[w] = "open_check"
        /\ \/ found = {} /\ Go(w, "open_insert", {}, req[w])
           \/ /\ \E t \in found : Free(w, TurnRow(t))
              /\ Abort(w)

OpenInsert(w) ==
    /\ pc[w] = "open_insert"
    /\ turns' = Append(turns, [user |-> req[w].user, terminal |-> req[w].terminal,
                               status |-> "open", moves |-> 0, counted |-> {}, tally |-> 0])
    /\ End(w)
    /\ UNCHANGED <<sales, stock, adjusted, active, last, credit, terms, wallet, unassigned>>

BeginClose(w) ==
    \E t \in DOMAIN turns : Begin(w, "close", "close_turn", [Blank EXCEPT !.turn = t])

CloseLockTurn(w) ==
    /\ pc[w] = "close_turn"
    /\ Granted(w)
    /\ IF IsOpen(req[w].turn)
       THEN Go(w, "close_sum", Need(w), req[w])
       ELSE Abort(w)

\* calculate_turn_summary
CloseSum(w) ==
    LET t == req[w].turn
    IN  /\ pc[w] = "close_sum"
        /\ Go(w, "close_commit", {}, [req[w] EXCEPT !.counted = CompletedCash(t),
                                                    !.tally = turns[t].moves])

CloseCommit(w) ==
    /\ pc[w] = "close_commit"
    /\ turns' = [turns EXCEPT ![req[w].turn].status = "closed",
                              ![req[w].turn].counted = req[w].counted,
                              ![req[w].turn].tally = req[w].tally]
    /\ End(w)
    /\ UNCHANGED <<sales, stock, adjusted, active, last, credit, terms, wallet, unassigned>>

BeginMove(w) ==
    \E t \in DOMAIN turns :
        /\ turns[t].moves < MaxMoves
        /\ Begin(w, "move", "move_turn", [Blank EXCEPT !.turn = t])

MoveLockTurn(w) ==
    /\ pc[w] = "move_turn"
    /\ Granted(w)
    /\ IF IsOpen(req[w].turn)
       THEN Go(w, "move_commit", Need(w), req[w])
       ELSE Abort(w)

\* An expense goes to the oldest open turn of its user, or to none.
BeginExpense(w) ==
    \E u \in Users :
        /\ unassigned < MaxMoves
        /\ \A t \in OpenTurnsOf(u) : turns[t].moves < MaxMoves
        /\ Begin(w, "expense", IF OpenTurnsOf(u) = {} THEN "move_commit" ELSE "expense_turn",
                 [Blank EXCEPT !.cand = OpenTurnsOf(u)])

ExpenseLockTurn(w) ==
    LET r == req[w]
    IN  /\ pc[w] = "expense_turn"
        /\ Granted(w)
        /\ \E t \in Earliest(r.cand) :
            IF IsOpen(t)
            THEN Go(w, "move_commit", {TurnRow(t)}, [r EXCEPT !.turn = t, !.cand = {}])
            ELSE Go(w, IF r.cand = {t} THEN "move_commit" ELSE "expense_turn", {},
                    [r EXCEPT !.cand = @ \ {t}])

MoveCommit(w) ==
    LET t == req[w].turn
    IN  /\ pc[w] = "move_commit"
        /\ IF t = 0
           THEN unassigned' = unassigned + 1 /\ UNCHANGED turns
           ELSE turns' = [turns EXCEPT ![t].moves = @ + 1] /\ UNCHANGED unassigned
        /\ End(w)
        /\ UNCHANGED <<sales, stock, adjusted, active, last, credit, terms, wallet>>

Till(w) ==
    \/ BeginOpen(w) \/ OpenCheck(w) \/ OpenInsert(w)
    \/ BeginClose(w) \/ CloseLockTurn(w) \/ CloseSum(w) \/ CloseCommit(w)
    \/ BeginMove(w) \/ MoveLockTurn(w) \/ MoveCommit(w)
    \/ BeginExpense(w) \/ ExpenseLockTurn(w)

-----------------------------------------------------------------------------
(* Back office: adjust_stock, update_product, update_customer              *)

BeginAdjust(w) ==
    \E p \in Products, d \in Deltas :
        /\ adjusted[p] + d \in -MaxAdjusted .. MaxAdjusted
        /\ Begin(w, "adjust", "adjust_product", [Blank EXCEPT !.product = p, !.delta = d])

\* The new stock is computed from the row as it was locked.
AdjustLockProduct(w) ==
    LET r == req[w]
    IN  /\ pc[w] = "adjust_product"
        /\ Granted(w)
        /\ IF active[r.product] /\ stock[r.product] + r.delta >= 0
           THEN Go(w, "adjust_commit", Need(w),
                   [r EXCEPT !.value = stock[r.product] + r.delta])
           ELSE Abort(w)

AdjustCommit(w) ==
    LET r == req[w]
    IN  /\ pc[w] = "adjust_commit"
        /\ stock' = [stock EXCEPT ![r.product] = r.value]
        /\ adjusted' = [adjusted EXCEPT ![r.product] = @ + r.delta]
        /\ End(w)
        /\ UNCHANGED <<turns, sales, active, last, credit, terms, wallet, unassigned>>

\* A FOR UPDATE and the UPDATE of the row it locked; nothing they write depends
\* on what they read, and nothing between the two can wait.
UpdateProduct(w, p, b) ==
    /\ "product" \in Ops
    /\ pc[w] = "idle"
    /\ Free(w, ProductRow(p))
    /\ active' = [active EXCEPT ![p] = b]
    /\ UNCHANGED <<turns, sales, stock, adjusted, last, credit, terms, wallet, unassigned,
                   pc, req, held>>

UpdateCustomer(w, c, v) ==
    /\ "customer" \in Ops
    /\ pc[w] = "idle"
    /\ Free(w, CustomerRow(c))
    /\ terms' = [terms EXCEPT ![c] = v]
    /\ UNCHANGED <<turns, sales, stock, adjusted, active, last, credit, wallet, unassigned,
                   pc, req, held>>

BackOffice(w) ==
    \/ BeginAdjust(w) \/ AdjustLockProduct(w) \/ AdjustCommit(w)
    \/ \E p \in Retirable, b \in BOOLEAN : UpdateProduct(w, p, b)
    \/ \E c \in Customers, v \in NewTerms : UpdateCustomer(w, c, v)

-----------------------------------------------------------------------------

\* A client that disconnects, a command_timeout, an exception, a crash of the
\* backend: an open transaction may be rolled back before any of its steps.
Rollback(w) == pc[w] # "idle" /\ Abort(w)

Handler(w) == Sale(w) \/ Cancellation(w) \/ Till(w) \/ BackOffice(w)

Next == \E w \in Workers : Handler(w) \/ Rollback(w)

Spec == Init /\ [][Next]_vars

-----------------------------------------------------------------------------
(* Deadlock and progress                                                   *)

\* Every member of D waits for a member of D.
Deadlocked(D) == D # {} /\ \A v \in D : \E w \in D : WaitsFor(v, w)

\* No handlers ever wait for each other in a circle: "global order: TURNS ->
\* PRODUCTS -> CUSTOMERS", sales/routes.py.
NoLockCycle == \A D \in SUBSET Workers : ~Deadlocked(D)

\* PostgreSQL's deadlock detector aborts one member of a circle.
Victim(w) == (\E D \in SUBSET Workers : w \in D /\ Deadlocked(D)) /\ Abort(w)

\* A handler that can go on does.  A lock wait ends although others keep taking
\* the same lock, because PostgreSQL queues those who wait for a row.
Fairness ==
    \A w \in Workers : SF_vars(pc[w] # "idle" /\ Handler(w)) /\ WF_vars(Victim(w))

FairSpec == Spec /\ Fairness

\* Every request is answered: no handler waits for ever, whatever the others
\* do and whichever locks they hold.
RequestsEnd == \A w \in Workers : pc[w] # "idle" ~> pc[w] = "idle"

-----------------------------------------------------------------------------
(* What the locks protect                                                  *)

\* The steps of a sale that come after its turn, its products and its folio
\* were locked.
InTurn == {"sale_products", "sale_folio", "sale_insert", "sale_stock", "sale_customer",
           "sale_commit"}
HasProducts == InTurn \ {"sale_products"}
HasFolio == HasProducts \ {"sale_folio"}
SaleSteps == InTurn \cup {"sale_turn"}
CancelSteps == {"cancel_sale", "cancel_products", "cancel_customer", "cancel_commit"}
OpenSteps == {"open_check", "open_insert"}
CloseSteps == {"close_turn", "close_sum", "close_commit"}
MoveSteps == {"move_turn", "expense_turn", "move_commit"}
AdjustSteps == {"adjust_product", "adjust_commit"}

Rows == ({"turns", "sales"} \X Nat) \cup ({"products"} \X (Products \cup Kits))
          \cup ({"secuencias"} \X (Series \X Terminals)) \cup ({"customers"} \X Customers)
LockType == [row: Rows, mode: {"update", "key"}]

Steps == {"idle"} \cup SaleSteps \cup CancelSteps \cup OpenSteps \cup CloseSteps
           \cup MoveSteps \cup AdjustSteps

ReqType ==
    [turn: Nat, cand: SUBSET Nat, order: Orders \cup {NoOrder}, number: Nat, sale: Nat,
     product: Products \cup {0}, value: Int, delta: Int, counted: SUBSET Nat, tally: Nat,
     user: Users \cup {0}, terminal: Terminals \cup {0}]

\* The request of w names rows that exist.
RequestOK(w) ==
    /\ pc[w] \in SaleSteps => req[w].order \in Orders
    /\ pc[w] = "sale_customer" => MovesAccount(req[w].order)
    /\ pc[w] = "cancel_customer" => MovesAccount(sales[req[w].sale].order)
    /\ pc[w] = "expense_turn" => req[w].turn = 0
    /\ pc[w] \in {"sale_turn", "expense_turn"} => req[w].cand \subseteq DOMAIN turns
    /\ pc[w] \in CancelSteps => req[w].sale \in DOMAIN sales
    /\ pc[w] \in OpenSteps => req[w].user \in Users /\ req[w].terminal \in Terminals
    /\ pc[w] \in CloseSteps \cup {"move_turn"} => req[w].turn \in DOMAIN turns
    /\ pc[w] \in AdjustSteps => req[w].product \in Products /\ req[w].delta \in Deltas

RequestsOK ==
    /\ pc \in [Workers -> Steps]
    /\ req \in [Workers -> ReqType]
    /\ held \in [Workers -> SUBSET LockType]
    /\ \A w \in Workers : RequestOK(w)

\* No two workers hold locks that conflict.
LocksExclude ==
    \A v, w \in Workers : v # w =>
        \A a \in held[v], b \in held[w] : ~Conflict(a, b)

\* The update locks w holds at each step.
HoldsLocks(w) ==
    LET r == req[w]
        o == r.order
        undone == sales[r.sale].order
    IN  /\ pc[w] \in InTurn => TurnRow(r.turn) \in held[w]
        /\ pc[w] \in HasProducts =>
            /\ \A p \in Lines(o) : ProductRow(p) \in held[w]
            /\ \A p \in Products \ Fragile :
                Deducted(o, p) > 0 => ProductRow(p) \in held[w]
        /\ pc[w] \in HasFolio =>
            SequenceRow(<<SerieOf(o), turns[r.turn].terminal>>) \in held[w]
        /\ pc[w] = "sale_commit" /\ MovesAccount(o) => CustomerRow(o.customer) \in held[w]
        /\ pc[w] \in CancelSteps \ {"cancel_sale"} => SaleRow(r.sale) \in held[w]
        /\ pc[w] \in {"sale_customer", "sale_commit"} =>
            \A p \in Products : Deducted(o, p) > 0 => ProductRow(p) \in held[w]
        /\ pc[w] \in {"cancel_customer", "cancel_commit"} =>
            \A p \in Products : Deducted(undone, p) > 0 => ProductRow(p) \in held[w]
        /\ pc[w] = "cancel_commit" /\ MovesAccount(undone) =>
            CustomerRow(undone.customer) \in held[w]
        /\ pc[w] \in {"close_sum", "close_commit"} => TurnRow(r.turn) \in held[w]
        /\ pc[w] = "move_commit" /\ r.turn # 0 => TurnRow(r.turn) \in held[w]
        /\ pc[w] = "adjust_commit" => ProductRow(r.product) \in held[w]

\* Whatever w has checked or read and will rely on at its commit is still true
\* at every step until then.
ChecksHold(w) ==
    LET r == req[w]
        o == r.order
    IN  /\ pc[w] \in InTurn => IsOpen(r.turn)
        /\ pc[w] \in HasProducts => /\ \A p \in Lines(o) : active[p]
                                    /\ StockCovers(o)
        /\ pc[w] \in HasFolio =>
            r.number = last[<<SerieOf(o), turns[r.turn].terminal>>] + 1
        /\ pc[w] = "sale_commit" /\ MovesAccount(o) => AccountAllows(o)
        /\ pc[w] \in CancelSteps \ {"cancel_sale"} => sales[r.sale].status = "completed"
        /\ pc[w] \in {"close_sum", "close_commit"} => IsOpen(r.turn)
        /\ pc[w] = "close_commit" =>
            /\ CompletedCash(r.turn) \subseteq r.counted
            /\ r.counted \subseteq CashSales(r.turn)
            /\ r.tally = turns[r.turn].moves
        /\ pc[w] = "move_commit" /\ r.turn # 0 => IsOpen(r.turn)
        /\ pc[w] = "adjust_commit" =>
            /\ active[r.product]
            /\ r.value = stock[r.product] + r.delta
            /\ r.value >= 0

\* No handler acts on something that stopped being true: each holds, on the
\* rows its checks were about, locks that nobody else can hold.
IInv ==
    /\ TypeOK
    /\ RequestsOK
    /\ LocksExclude
    /\ \A w \in Workers : HoldsLocks(w) /\ ChecksHold(w)

\* The handlers implement the ledger of whole operations: each one takes
\* effect at its commit, on checks that are true at that instant.
RefinesStore == StoreSpec

\* The docstring of open_turn: "Enforce at most one open turn per terminal."
OneOpenTurnPerTerminal ==
    \A term \in Terminals : Cardinality(OpenOn(term)) <= 1
=============================================================================
