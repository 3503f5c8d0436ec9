# POSVENDELO, specified

TLA+ models of the point of sale and of the services around it, the TLC runs
that check them on small instances, and TLAPS proofs of what holds for every
shop.  Paths are relative to the repository; `backend/modules` is
`src/backend/modules` and `control-plane` is `src/control-plane`.

1. [The system](#1-the-system)
2. [What is hard about it](#2-what-is-hard-about-it)
3. [Modules](#3-modules)
4. [Runs](#4-runs)
5. [Fairness](#5-fairness)
6. [Proofs](#6-proofs)
7. [What the models found](#7-what-the-models-found)
8. [What is not modelled](#8-what-is-not-modelled)
9. [What remains](#9-what-remains)

## 1. The system

A **node** is a FastAPI process with a PostgreSQL database, on the shop's
computer.  Tills (Electron renderers), the owner's app and other branches call
it over HTTP.  A **control plane** is a second service with a database of its
own where tenants, branches, licences, releases and cloud accounts live; nodes
poll it.  A **desktop agent** (the main process of Electron) updates the app
and the node.  Three services are outside: the tax authority's certifier (PAC)
and Facturapi, which stamp invoices, and Cloudflare, which runs tunnels.

The node:

| Component | State it keeps | Operations | Correct when |
|---|---|---|---|
| Sales (`backend/modules/sales`) | `sales`, `sale_items`, `secuencias`, `credit_history` | create, cancel, search, reports | stock, accounts and folios agree with the sales that stand; lines, tax and total add up |
| Turns and cash (`turns`, `shared/turn_service.py`) | `turns`, `cash_movements` | open, close, cash movement, summary | a closing counts everything; nothing enters a closed turn; one open turn per terminal |
| Expenses (`expenses`) | `cash_movements` | register, summary | an expense lands in an open turn or in none |
| Inventory (`inventory`) | `products.stock`, `inventory_movements` | adjust, alerts | no adjustment is lost to a sale, or a sale to it |
| Products (`products`) | `products`, `kit_components`, `price_history` | create, update, price, deactivate, remote stock | the journals explain price and stock |
| Losses (`mermas`) | `loss_records`, stock | approve, reject | a loss is taken once |
| Customers (`customers`) | `customers` | create, update, deactivate, credit | charges respect the terms in force; nobody appears twice or comes back |
| Employees (`employees`) | `employees` | create, update, deactivate | a code is one employee's |
| Sync (`sync`) | products, customers | push, pull | a push forgets no change |
| Pages (`dashboard`, reports, summaries) | materialized views | read | pages agree on one figure |
| Remote requests (`remote`, `main.py`, `control-plane/modules/cloud`) | `pending_remote_changes`, `remote_notifications`, `cloud_remote_requests` | queue, poll, confirm, acknowledge, expire | carried out at most once; both sides agree |
| Transfer saga (`sales/saga.py`) | `saga_instances`, `saga_steps`, `shadow_stock` | execute, compensate | all steps or none |
| Domain events (`shared/domain_event.py`, `event_bridge.py`) | `domain_events` | publish, replay | no event lost or forgotten as processed |
| Sale events (`sales/event_sourcing.py`) | `sale_events` | append, project | the rebuilt sale is what its events say |
| Auth (`auth`, `shared/auth.py`) | users, tokens, revocations, devices | set-up, login, logout, pair, revoke | a revoked token stops working; a pairing token serves once |
| Invoicing (`fiscal/cfdi_service.py`, `cfdi_builder.py`, `global_invoicing.py`, `payment_complement.py`) | `cfdis`, `fiscal_config.folio_actual`, the authority's documents | invoice, credit note, receipt, cancel; a global invoice that is never sent | what is stamped is recorded; documents add up |
| Database wrapper (`backend/db`) | pool of 10 connections | acquire, transaction, named parameters | requests end; a statement means what was written |
| Renderer client (`frontend/src/renderer/src/posApi.ts`) | request slots and queue, session | every API call | a call that waits for a slot gets one; a ticket is sold once |

The control plane and the agent:

| Component | State it keeps | Operations | Correct when |
|---|---|---|---|
| Cloud accounts (`control-plane/modules/cloud`) | users, memberships, sessions, codes, resets | register, login, link, change and reset passwords, branches | setting a password ends every session; limits hold |
| Licences (`licenses`, `branches`, `shared/license_state.py`) | `tenant_licenses`, fingerprints; the node's signed copy | register, issue, renew, revoke, remind | one trial per machine that is found again; node and control plane judge alike |
| Releases and updates (`releases`, `frontend/src/main/localAgent.ts`) | releases, channels, pins; executables, `.env`, descriptions | publish, assign, pin, update, roll back | there is always something whole to start or go back to |
| Tunnels (`tunnel`) | tunnels, `tunnel_configs`, host names | provision | one tunnel per branch, and its name leads to it |
| Fleet (`heartbeat`, `dashboard`, `owner`, `alarms`) | `heartbeats`, branches' columns | heartbeat, pages, alerts | a branch shows what it told last; pages agree |
| Payments (`owner`, `control-plane/security.py`) | `payment_requests`, signed sessions | report, list, review | a report is known once, to its tenant only |

They interact through two databases, row by row, and a few HTTP calls.  A
handler of the node takes a connection from the pool, opens one transaction
and issues statements; two handlers meet only where one waits for a row lock
of the other or reads what the other committed.  A sale touches the rows of
its turn, its products and kit parts, its folio sequence and its customer; a
cancellation those of the sale, its products and its customer; a closing, a
movement and an expense the turn; an adjustment a product.  That is why the
core is one model of six tables and nine handlers rather than one model per
router.  The manager's remote cancellation calls the same
`perform_sale_cancellation`.  Handlers of the control plane, in contrast,
mostly commit each statement by itself, so a call may break off between any
two and two calls may interleave there.  Node and control plane share no
transaction: requests, outcomes, heartbeats and licences cross by polling and
by calls that are made once.

## 2. What is hard about it

The complete list, with lines, is `hazards` in `PROJECT.json`.  By kind:

* **Checks and the writes that rely on them are statements apart.**  Stock is
  validated, then a folio is drawn, then the sale is inserted, then stock is
  deducted, then the account is charged.  Everything hangs on what is locked
  in between, and on transactions that began before a lock was released and go
  on with an older snapshot.  The branch limit, the first owner, customer
  names and employee codes are checked without a lock.
* **Locks the code does not name.**  The insertion of a sale takes a key lock
  on the customer for a foreign key.  `FOR UPDATE` on an empty result locks
  nothing.  A UNIQUE index makes an insertion wait for another transaction.
* **Rows skipped while waiting.**  `ORDER BY id LIMIT 1 FOR UPDATE` drops a
  row that no longer qualifies and takes the next.
* **Two systems, no common transaction.**  A reply is lost after the sender
  committed; an acknowledgement is sent once; the authority stamps a document
  and the row that should say so is refused; Cloudflare has served a request
  that was reported as failed.
* **Crashes and power cuts** between a saga's step and its journal, between
  the two statements of a registration, between `cp` and `mv` of an update.
* **Retries**: a sale that answers after the till's limit of time, a replay of
  events while their publication is still under way, a payment reported again.
* **Stale copies**: a till pushes rows of a list it pulled earlier; the node
  judges a licence by a signed copy; materialized views nobody refreshes.
* **Counters at their limits**: the till's slots, the pool's connections, a
  page of 500 customers, a page of 1000 events, a look-up of 20 fingerprints.
* **Roundings** that must still add up over lines, documents and payments,
  after the columns rounded what the till asked for.

## 3. Modules

| Module | What it is |
|---|---|
| `StoreState` | the tables of the till, what an order takes and gives back, the properties |
| `Store` | the abstract specification: every operation at one instant, or not at all |
| `StoreTx` | the handlers, split at every statement that can wait, fail or read |
| `StoreProofs` | the proofs about them (section 6) |
| `OwnerRequests` | what an owner is promised about a request, abstractly |
| `RemoteRequests` | control plane, poll, manager and acknowledgement, with faults |
| `RemoteProofs` | the proofs about it |
| `CloudAccess` | what a session is good for, abstractly |
| `CloudAccounts` | accounts, sessions, link codes, branch limit, statement by statement |
| `Licensing` | registration of machines, licences, the node's gate, the reminders |
| `Updates` | releases and pins; the update and rollback of app and server |
| `Tunnels`, `Fleet`, `Payments` | a branch's tunnel; heartbeats and pages; sessions of owners and reported payments |
| `ControlPlaneProofs` | the proofs about the six modules before it, and about them together |
| `Transfers` | the transfer saga and its journal |
| `Outbox`, `SaleProjection` | domain events with handlers and replay; the projector of sale events against a reference |
| `Catalogue`, `CatalogueProofs` | price, stock, losses, and the till's stale rows; the proofs about them |
| `Tokens` | set-up, tokens, revocation, pairing |
| `Admission` | the till's slots, time limits and retries; the node's pool |
| `Customers`, `Employees`, `People` | the people a node keeps, and both together |
| `PeopleProofs` | the proofs about `Tokens`, `Customers` and `Employees` |
| `NodeProofs` | the proofs about `Outbox`, `Transfers`, `Admission` and `SaleProjection` |
| `MCNodeProofs` | the types of a node, that its parts leave each other alone, and what the statements and searches of `Queries` do |
| `Queries` | named parameters and search terms against what the server reads |
| `Invoicing` | the order documents are stamped and saved in |
| `Amounts`, `Figures` | what documents say; what pages compute |
| `FiscalProofs` | the proofs about `Invoicing` and `Figures` |
| `MCStoreTx`, `MCRemote`, `MCControlPlane`, `MCNode`, `MCFiscal`, `MCAmounts` | instances for TLC |

Every definition that models code names its lines under `map` in
`PROJECT.json`.

### Sales, turns, stock: `StoreState`, `Store`, `StoreTx`

**State.**  `turns`, `sales`, `stock`, `active`, `last`, `credit`, `terms` and
`wallet` are columns of the tables they are named for (the comments of
`StoreState` say which).  Two variables stand for journals: `adjusted[p]` is
the opening stock plus the `inventory_movements` of adjustments, and
`unassigned` counts the movements without a turn.  A closed turn keeps the set
of sales and the number of movements that its totals were computed from
(`counted`, `tally`) in place of the totals, so that *which* sale was left out
can be said.

**Orders.**  The body of `POST /sales/` is a record: quantities of the lines,
a kit and how many of it, the payment method, the serie and invoice flags the
folio depends on, the customer, and the amount the order moves on the
customer's account.  Stock and money are integers; the roundings are the
subject of `Amounts`.

**Steps.**  A handler in `StoreTx` is a sequence of actions, one per statement
that may wait for a lock, abort, or read something used later.  `Need(w)` is
the set of locks the next statement asks for; `Granted(w)` says nobody holds
one in conflict; `Free` is `NOWAIT`.  Writes become visible at the commit, so
they are all in the `...Commit` action, with the release of every lock; the
locks they take on the way are taken at the statements that take them.
`UPDATE products SET stock = stock - d` adds to what is committed, hence
`stock'` in `SaleCommit` is relative; `adjust_stock` writes a number it
computed, hence the absolute `value`.  `Rollback` may end a transaction before
any step: disconnections, timeouts, exceptions, ownership and role checks that
reject, and a crash of the process, which for the database is the end of every
open transaction.

`Store` has one action for each operation, with the guard the whole operation
must satisfy at the instant it takes effect.  `CloseTurn` lets the closing
count sales that were cancelled since they were read: that is what
`calculate_turn_summary` outside the sales' locks can do, and no more.
`StoreTx` extends `Store`, so the refinement mapping is the identity on the
tables (`RefinesStore == StoreSpec`).

**Abstractions to know of.**  `SetTerms` / `UpdateCustomer` may give any of
`NewTerms`; the code's `update_customer` cannot write `credit_authorized`, so
the model allows a little more than the code there.  The row of `secuencias`
for a serie and terminal exists from the start; the code inserts it with `ON
CONFLICT DO NOTHING` in the statement before.  Manual lines move no stock: an
order of nothing else has no lines in the model.  `UpdateProduct` and
`UpdateCustomer` are one step: their `FOR UPDATE` and their `UPDATE` concern
the same row and nothing they write depends on what they read.  Components of
a kit and what is sold by weight are constants.

### Requests of the owner: `RemoteRequests`

`cloud[r]` is the row of `cloud_remote_requests`, `pending[r]` that of the
node's `pending_remote_changes`, `poll` the loop in `main.py`.  `PollAsk` and
`PollFails` are the call that marks a batch delivered before its reply leaves;
`NodePending` and `PollStore` store it request by request; `PollNotify` is the
notification.  `ApprovePrice`, `ApproveUnknown` and `Reject` are
`confirm_remote_request` with its row lock; `NodeAck` / `LoseAck` are the one
acknowledgement after the commit.  `Crash` forgets what was in memory.
`form` is how the drivers hand out JSON: as text in this code, so that no
price change can be applied (section 7); the runs cover both forms.
`PromiseKept` is the refinement of `OwnerRequests`: a decision of the node is
the `decision`, a final status of the control plane is what was `told`.

### The control plane and the agent

* `CloudAccounts` has a `call` per worker, whose `next` is the statement to
  come; each step commits.  `BreakOff` may end a call between any two.  For
  `AccessKept` an account's accepted sessions are those whose version is the
  user's: the refinement of `CloudAccess`, in which setting a password ends
  them in the same instant.
* `Licensing` has a `task` per caller between the look-up of a fingerprint and
  the rows it inserts.  Hardware is a record of serials, where 0 is a generic
  one; parts may be replaced.  A look-up scores the `Looked` newest prints that
  share a part (20 in the code), so a print may be `Crowded` out.  `token` and `copy` are what a machine has of
  it.  Dates are days; the two functions that compute a state from them are
  both translated and compared, and so are the reminders of the two pages.
* `Updates` follows the files: `app`, `backups`, `rollback`, `env`, `undo`
  are what is on disk, each with whether it is whole; `script` and `update`
  are the process under way, which `PowerFails` ends anywhere.  What is offered
  comes of the channel a branch is `assigned` and its pin, what is named to go
  back to of the branch's `Own` channel, as the two look-ups of the manifest do.
* `Tunnels` separates Cloudflare (`made`, `dns`) from the two tables, and a
  failed request from one that was not served.  `Fleet` separates the row of
  a heartbeat from the branch it then updates.  `Payments` keeps of a session
  what its signature covers, nothing else being stored, and separates the
  payment's commit from the answer that may be lost.  The owner's pages accept
  a signed session until its term and a branch's token always; approving a
  payment does not touch the licence.  A review date with a time zone is
  refused by its column and is therefore not an input.

### The rest of the node

* `Transfers`: four steps with their compensations; the journal is written on
  connections of its own and its failure swallowed; `Crash` ends the process.
* `Outbox`: a publication is a task that calls handlers one after the other;
  a replay calls them again.  Every write of the store may be lost silently.
* `SaleProjection`: the projector goes over the rows one by one, the reference
  is a set of definitions that say of each part which event it comes from.
* `Catalogue`: a clerk's price change or approval reads, locks and writes in
  steps; a till's list may be as old as one likes when a row of it is pushed.
* `Tokens`: the database may be out of reach, which the check of revocations
  tolerates; with no `JWT_SECRET` a restart changes the key.
* `Admission`: the till's `activeRequests` and `requestQueue` are the two
  variables of `posApi.ts`; handlers go on after the till gave up.  Each kind
  of handler is a `Program` of what it does about connections; `has` is how
  many it holds, and the pool is counted over the handlers (`Connections`).
* `Customers`: the till's list changes as its own calls are answered, and a
  pushed row overwrites what somebody else did meanwhile.
* `Employees`: the look-up of a code, the row lock of an update, and the
  UNIQUE index, which makes a writer wait for another's commit.
* `Queries`: a text grows character by character and each prefix is compared
  as the wrapper's regular expressions rewrite it and as the server reads it.

### Documents and figures

* `Invoicing`: a call is at the authority, or between two statements after it.
  `stamps` and `voided` are the authority's, `cfdis` the node's.
  `cfdi_columns` says whether `cfdis` takes what `_save_cfdi` writes, `service`
  which certifier is configured.  A global invoice begins and never gets past
  `Encodes`: the Decimals in its body are refused before a request is made.
* `Amounts`: what a till asks for comes in parts of a cent and of a
  ten-thousandth (`Fine`), for the route bounds no decimals; what the columns
  and every `quantize` keep is rounded where the code rounds it.  The sale, its
  rows, the invoice, the request to Facturapi, the credit note and the payment
  receipt.  What Facturapi answers as the total is not in `src/`: it may add the
  tax, or leave the total out (`facturapi_totals`).
* `Figures`: every page's statement as an operator over the same rows.  A
  closing reads before it writes; a summary is two statements; days begin at
  two different hours.  An article's revenue is the subtotal of its items
  (`Net`), a sale's total is not; common lines have no article and are `Loose`,
  which the pages that join the products leave out (`Listed`).  Averages, `LIMIT`s and the alerts of stock are left
  out, and the statements of the executive's page are treated as one.

### Faulty variants

Some operators (in `StoreTx` under "Faulty variants", elsewhere next to the
step they vary, with a comment that begins "A fault") are steps the code could
have had by a slip: a lock forgotten, a check made too early, a misspelt
status, a write in the wrong order.  No specification uses them.  Substituted
for the step they vary, each makes TLC find one property violated; `mutants`
in `PROJECT.json` pairs them, one for each property of each run.

## 4. Runs

A run is an `MC` module with a `.cfg`.

### The till: `MCStoreTx`

Two connections (`Workers`) serve requests, with symmetry between them where
no liveness is checked; each run admits the handlers in `Ops`.

| Run | Handlers | Shop | Checks |
|---|---|---|---|
| `StoreTxLedger` | sale, cancel, adjust, customer | one cashier with a turn open on each of two tills; milk by the unit, ham by weight, a kit of both; one customer with credit limit 2 and 1 in the wallet | `TypeOK`, `StockBalance`, `AccountsReconcile`, `NothingOverdrawn`, `ChargesWithinTerms` |
| `StoreTxTills` | sale, open, close, move, expense | one cashier, one till, no turn open to begin with, at most two turns | `FoliosGapless`, `ClosedTurnsComplete`, `ClosedTurnsFrozen` |
| `StoreTxRefines` | all nine | one till, a cash sale with a kit and a credit sale, milk may be deactivated | `IInv`, `RefinesStore` |
| `StoreTxProgress` | sale, cancel, close, move | two tills, credit sales | `RequestsEnd` |
| `StoreTxTwoTills` | the same | the same | `NoLockCycle`: violated |
| `StoreTxOpen` | open | one till | `OneOpenTurnPerTerminal`: violated |
| `StoreTxKits` | sale, product | two tills; milk, and kits with milk, which may be deactivated | `NothingOversold`: violated |

* `StockBalance`: stock is the opening stock and the adjustments, less what
  each sale took, plus what its cancellation gave back, each exactly once.
* `AccountsReconcile`: what a customer owes is the sum of the credit sales
  that stand, and the wallet lacks exactly the wallet payments that stand.
* `NothingOverdrawn`: stock sold by the unit and wallets never go below zero.
* `ChargesWithinTerms`: at the commit of a charge, the balance is within the
  limit in force *then*, not the one read earlier.
* `FoliosGapless`: per serie and terminal the folios in use are 1..last, each
  once; sales that abort after drawing one leave no hole.
* `ClosedTurnsComplete`, `ClosedTurnsFrozen`: a closing counts every standing
  cash sale and every movement, and nothing is added afterwards.
* `RefinesStore`: every behaviour of the overlapping handlers is one of whole
  operations at instants; `IInv` is why.
* `RequestsEnd`: every request is answered.

**Bounds.**  `MaxTurns`, `MaxSales`, `MaxMoves` and `MaxAdjusted` bound, in
the guards of the `Begin...` actions, how many requests of a kind are made;
requests already under way may exceed them by one per connection.  Two
connections show every interference of one handler with another; a cycle of
locks needs two.  Two sales suffice for a duplicate folio, a double
cancellation, a limit overrun by two charges and a lost update; `StoreTxLedger`
gives a limit (2, lowered to 1) and a wallet (1) that two orders reach, and
stock (2 of each) that one order with a kit exhausts, so that an adjustment, a
second order or a cancellation in between matters.  Two turns in
`StoreTxTills` include both the legal succession of turns on one terminal and
two open at once, since `open_turn` lets that happen.  What more than two
connections could add is covered by the proofs, which fix no number.

Requests end and the system then rests only in idle states where some request
may still begin (a cancellation of a cancelled sale, which is refused, is
always possible once there is a sale); so deadlock is checked here.

### `Remote`

Three requests, two of them with one idempotency key, of which two change the
price of one product and one is of a type the node does not know; two
managers; polls that take two at a time.  Three with a limit of two is the
least in which a batch leaves something behind and breaks off in the middle.
`AppliedOnce`: a price is changed at most once per key and exactly when the
node's row says so.  `CloudAgrees`: the outcome shown is the one committed.
`LeftForGood`: what may be stranded, and by which fault only.
`QueueDrains`: a queued request is taken or expires.  `PromiseKept`: the
refinement of `OwnerRequests`.

### `ControlPlane`: ten scenes

The components share no state, so a behaviour begins by choosing a scene, and
the others stay as they began: the run explores the sum of their state
spaces, not the product.  `TypesOK` covers the module of the scene.

| Scene | Instance | Checks |
|---|---|---|
| accounts | two calls, two e-mails, two passwords, two users and two tenants, of which the first may grow to the limit of two branches and beyond, three rows of users, sessions, codes and resets in all | `ChecksOvershootByCalls`, `OrphanedForGood`, `AccessKept` (refines `CloudAccess`) |
| registering | two callers, one machine, whose disk serial was never read and of which no part is replaced; two tenants, two licences | `GrantedOnce` |
| crowding | two machines that share a processor, one of which may have its board replaced; one caller, who looks at the one newest print that shares a part; three tenants, three licences | `GrantedOnce` |
| ageing | one tenant, three days, a trial of one day, monthly and perpetual offers, days of grace | `GateAgrees` |
| channels | four releases of the app in two channels, of which the branch may be assigned either, and any pinned; nothing is installed | `RollbackGoesBack` |
| app, server | three versions in one channel, of which the second may be pinned; two power cuts at any steps of the app, one of the server | `RollbackGoesBack` |
| tunnels | two branches, two calls, two tunnels, one mishap or one order of the admin | `OneTunnel` |
| fleet | two branches, two heartbeats of three kinds, one other call, three moments | `OwnerPagesHold` |
| payments | two tenants, one with two branches, one payment reported at most twice, two reviews, one session | `OwnerPagesHold` |

A race between a check and a write needs two calls; the third row is the one
that shows an overshoot of a limit of two.  Three versions are needed for a
rollback to name a wrong one among older ones.  With one power
cut there is always a whole app; with two there may be half of one, as section 7
tells, and the rest of `RollbackGoesBack` holds all the same.

### `Node`: nine scenes

| Scene | Instance | Checks |
|---|---|---|
| transfers | two transfers of two units on a stock of three, one unit sold meanwhile, one fault and a crash | `TransferWhole` |
| outbox | two events, a handler that raises and one that does not, one replay, one lost write | `OutboxKeeps` |
| projection | every stream of up to four events over two goods, with pages of three | `ProjectionAgrees` |
| catalogue | two clerks, one product, one loss, two prices, one push | `CatalogueTraced` |
| tokens | two calls, two pairing tokens, two devices, two set-ups, one restart | `TokensHonoured` |
| admission | two calls through one slot, a pool of two, one retry, a ticket charged twice | `AdmissionHolds` |
| customers | two desks, two names, three rows, pages of two, two edits | `PeopleHold` |
| employees | two managers, two codes, three employees, five changes | `PeopleHold` |
| queries | every text of up to six characters out of two letters, quote and colon, with four sets of parameters; every term of up to three | `QueriesMeant` |

The sizes of the code (20 slots, 10 connections, pages of 500 and 1000) are
constants; each scene takes the smallest value at which the limit is reached.
Four events with a page of three reach the end of a page; six characters hold
a literal with a quote in it next to a marker, and a cast next to a name.

### `Fiscal`: four scenes, and `Deferred`

| Scene | Instance | Checks |
|---|---|---|
| invoicing | two calls, two sales, two stamps, two folios, one call that breaks off | `StampsAccounted` |
| amounts | every pair of nine kinds of lines (by the piece and by weight, wholesale, discounted, with tax included or not, at a price below zero, at a price in parts of a cent, of less than can be written), three ways of payment | `DocumentsAddUp` |
| turns | two tickets of three kinds, one of common lines and one with some, two turns, one movement | `FiguresAgree` |
| days | the same with one turn over three half-days and two time zones | `FiguresAgree` |

`Deferred` is `MCAmounts` by itself with one line and one document:
`DeferredIsDeclared` is violated.

Deadlock is not checked in `ControlPlane`, `Node`, `Fiscal` and `Deferred`:
their counters end at the bounds of the run, where a scene really has nothing
more to do.

## 5. Fairness

`StoreTx`' `FairSpec` assumes, for each connection,

* strong fairness of its handler's next step once it serves a request.  A
  handler waits only for row locks, and PostgreSQL queues those who wait for a
  row: a waiter cannot be passed over for ever while others keep taking the
  lock, which is what weak fairness would allow.  Beginning a request is not
  assumed, nor is `Rollback`;
* weak fairness of `Victim`: `deadlock_timeout` after a cycle forms, the
  detector aborts one member.

`command_timeout=30` (`src/backend/db/connection.py:53`) would end a wait as
well; `RequestsEnd` does not rely on it.  `SaleLockProducts` and
`CancelLockProducts` never wait (`NOWAIT`).

`RemoteRequests` assumes weak fairness of the steps of the poll loop, which
catches every error and sleeps (`src/backend/main.py:260-264`), and strong
fairness of `NodePending`: a poll that is tried for ever is answered again and
again, though replies may be lost in between.  Nothing is assumed of managers,
owners or acknowledgements.

The other specifications state no fairness, and no liveness is checked of
them: their calls are not retried by anything in the code.

## 6. Proofs

`tlapm` checks each module named `...Proofs`.  What is assumed of the
constants is named in the modules that declare them, and is about types,
finiteness and non-emptiness only: sets of workers, users, products,
customers, requests, managers, clerks, calls, handlers, events, tokens and
e-mails are arbitrary, and so
are the bounds of the runs.

**Store.**  Each action of `Store` preserves type correctness,
`NothingOverdrawn`, `ClosedTurnsComplete` and `FoliosGapless`, and satisfies
`ClosedTurnsFrozen` and `ChargesWithinTerms`: theorems `StoreTypes`,
`StoreOverdrawn`, `StoreComplete`, `StoreFolios`, `StoreFrozen`,
`StoreCharges`.  Assumed: `CatalogueAssumption`, `OrdersAssumption`,
`OpeningAssumption` (types of the catalogue, the orders and the opening state).

The two properties that are sums, `StockBalance` and `AccountsReconcile`, have
an inductive invariant of their own, `Ledger` (`StoreLedger`).  A sum is the
number of units of its rows (`Units`, `Total`), so that a row appended, or one
that a cancellation changes, is a lemma about cardinalities and no induction
over the rows; that the units are finitely many is carried in `Ledger`.
Relieving a debt stops at zero in the code (`Relieved`, a `GREATEST`); the
proof shows that the floor is never met, because the amount relieved is a part
of the sum that the debt is.  `StoreBalance` and `StoreReconciles` follow.

**StoreTx.**  None of these is inductive for the handlers: that stock stays
above zero at a commit depends on a check made several steps earlier.  The
invariant `IInv` is the argument of two-phase locking written out:

* `RequestsOK`: each request names rows that exist;
* `LocksExclude`: no two workers hold locks that conflict;
* `HoldsLocks(w)`: at each step `w` holds the update locks on the rows its
  earlier checks were about;
* `ChecksHold(w)`: what it checked or read is still true.

A step of one worker writes only rows it holds (`UpdateLocks`, `Exclusive`), so
it leaves what the others have locked as it was (`Untouched`), and so their
checks (`ChecksKept`).  That is one lemma per action: `...Begins`, `...Locks`,
`...Commits`.  `TxStep` assembles them, and along the way shows that each
commit is an action of `Store` (`SaleCommitSells`, `CloseCommitCloses`, ...)
and every other step a stutter.  `TxInvariant` and `TxRefines` follow, and from
`TxRefines` the properties proved of `Store` are inherited: `TxTypes`,
`TxOverdrawn`, `TxComplete`, `TxFrozen`, `TxFolios`, `TxCharges`, `TxBalance`,
`TxReconciles`.  Assumed
besides: `ChoicesAssumption` and `NoOrderAssumption`.

The exception in `HoldsLocks` for `Fragile` parts is the kit finding of
section 7: an inactive kit part is not locked when stock is checked, and that
is exactly what `NothingOverdrawn` has to leave out.

**Remote.**  `RemoteInv` adds to the types of both sides' rows: `AppliedRows`
(a request is counted as carried out exactly when its row says `applied`),
`OnePerKey` (two stored rows have different keys) and `AcksTrue` (an
acknowledgement under way carries the status that was committed).  The last is
what makes `CloudAgrees` inductive: the control plane writes what it is told,
and it is told after the commit.  `RemoteApplied`, `RemoteAgrees`, the action
property `RemoteLeft` and the refinement `RemoteKeepsPromise` follow, and
`RemoteTypes` from the first part.  In the
refinement a manager's commit is the decision of `OwnerRequests`, with the
price in the same step, the acknowledgement that arrives is the telling, and
every other step stutters.  `ForemostOfBatch` shows that the request a batch
goes on with is one of the batch, which needs the least element of a set of
numbers (from the well-foundedness of `<`).

**Accounts.**  Between the check of a password and the session it opens lie
statements of other calls, which may set another password.  The argument goes
by versions: setting a password raises the user's version, and no version
comes back.  `SessionsLetIn` says that whoever carries the version in force,
in a session or in a call about to open one, was let in with the password in
force; a registration enters with version 1, which is the version of an
account that nobody has changed.  With it go `Tables` (types, unique e-mails),
`RowsRefer` and `CallsRefer` (what rows and calls mention exists, and a call
at `limit`, `link`, ... has what that step reads).  `AccountsKeepAccess`
maps a session's row to a member of `open`, a write of a password to
`SetPassword`, and a registration to `SignUp`; all other steps stutter or take
members of `open` away.

`ChecksOvershoot` counts.  `Counted` states that the branches of a tenant with
the calls between the check and the insertion stay below the limit plus all
calls, and that the members by a code with the calls on their way to one are
no more than the calls.  A check that lets a call by resets the count (it
found less than the limit; it found no member of the tenant), and an insertion
turns a call under way into a row.  `LimitAssumption` asks for at least one
call and a limit of at least one: with neither the first tenant's branch would
be over the limit before anything happens.  `OrphansRemain` is an action
property from the same invariant.

**Tunnels.**  Two calls for one branch may make a tunnel each, and the one may
write the row while the other writes the name.  `TunnelsInv` says what can be
relied on in spite of it.  `Meet`: calls for one branch know of each other,
so that one that met none is alone.  `Alone`: what such a call has done still
stands (the tunnel it made, the name it pointed, the configuration it wrote).
`Whole`: a tunnel that is active and was not tangled is one, and no call is past
the check that would have returned it.  `MadeCounted`: the tunnels made for a
branch are no more than those in use, those that calls under way have made,
and those that a failure, a meeting or an order of the admin was counted for;
`CountKept` shows that a step of one call leaves that balance as it was.
`OneTunnelHolds` follows.

**Updates.**  `UpdatesInv` is `ControlInv` (a version is registered once),
`DesktopShape` (types), `ScriptAlone` (while a script works the app does not
run, and nothing else touches its files), `StagedNewer` (what is about to
replace the app is whole and newer, and from `move` on the backup of the app is
whole), `BackupsKept` (a backup is of the version it is named for, and the one
a rollback takes is there and no newer than the app), `CutsTold` and
`ServerInv` (what an update of the server will note, it read before it wrote).
`CutsTold` is what makes the first conjunct of the property inductive: a
description that names the app's own version takes one power cut, a backup so
named that is half a file a second one.  `RollbackHolds` follows.  That an offer
was made after what it would be rolled back to holds of a branch that gets the
app from its own channel and is not pinned; it needs the greatest of a set of
numbers (`NewestThereIs`), which is the well-foundedness of `<` again.

**Licensing.**  A registration looks for a fingerprint, and stores one two
statements later.  `TasksStand` says of each call what it may rely on by then
(`Stands`): what it holds refers to rows (`Holds`), and none of the rows that
were there when it looked was its tenant's (`SawNoLicence`), or matched, unless
newer ones that share a part had crowded it out (`SawNoPrint`, for any limit
`Looked`).  Rows are only added and their tenants and parts never
change (`Grown`), so what was seen stays so, and what was crowded
out stays crowded out (`CrowdedStays`), while other calls write.  With
`GrantedOnce` itself that is inductive: a row is stored with the number of
rows its call saw.  `GateAgrees` compares two functions of one licence's terms
and needs of a state only that its terms fit (`FitTerms`: a licence that is
not perpetual has an end, which creating, issuing, revoking and renewing
keep); the rest is arithmetic on the days (`StatusesAgree`,
`CopiesAgreeWhen`, `RemindersAgreeWhen`).

**Fleet and payments.**  A branch shows what its last heartbeat told unless
two of its heartbeats met: `PostsApart` (heartbeats of one branch under way
together blur it) and `PostIsLast` (one that met none is the last of its
branch's) carry that through the step between the two statements.  That the
pages agree is a case analysis of their conditions over a typed row
(`DashboardReasons`, `OwnersReasons`, `AlertReasons`), and that they count
alike a matter of disjoint unions: the owner's events are the alerts with the
two kinds of errors.  `ReportsCounted` counts a payment's rows: one for each
answer that was lost, one if it was acknowledged, one while a call waits; a
payment that is waited for was not acknowledged, and one call waits for it.

**Together.**  The modules of the control plane share no state
(`ScenesPlay`): `ControlPlaneTypes` and `OwnerPages` state the run's
invariants of the specification it runs.

**Catalogue.**  `CatalogueInv` is `Shape` (types), `RowsLocked` (who is about to
write holds the row's lock, and nobody else does), `ReadsTrue` (what a call
read of a row it holds is still so) and the property itself: a row of
`price_history` says the old price truly because the price was read under the
lock it is written under.  `LossesSettle` is the action property that a
decided loss stays decided.

**Invoicing.**  Between a stamp and the row that records it lies the end of
the authority's call, and other calls' statements.  `InvoicingInv` is `Shape`
(types), `JobsRely` (the row a call voids or marks and the row of the sale it
moves are in the tables; rows are only added, so `Grown` keeps what was
relied on: `RelyHeld`), `RowsFit`, `FoliosApart` (a reserved folio is below the
counter and nobody else's: the counter is read and raised under its row lock)
and `SavesFresh` (a stamp about to be recorded is in no row, is not void, and
is one call's), with the property itself.  `StampsAreAccounted` is then one
conjunct per way to lose a stamp, and that a sale leaves series B only with a
row of its own: a global invoice, which would move many, has no step after the
encoding of its request.

**Outbox.**  `OutboxInv` follows one event: `Progress` (until a handler
failed, the loud ones before the next have taken effect), `MarkedTruly` (a row
is marked by its own task, at its end and without a failure, or by a replay),
`Recorded` (while no write was lost, the row says how the task ended) and
`CalledOnce`, which counts: a handler has taken effect at most once for the
task that has passed it and once for each replay, and a replay under way that
has still to call it is not counted yet (`Awaits`).  `OutboxIsKept` follows.

**Transfers.**  What a saga leaves in the books after a crash or a lost entry
of its journal cannot be read off its own state.  `TransfersInv` therefore
says that there *is* an assignment of fates (nothing, reserved, deducted, or
deducted with its reservation released once more) such that stock and
reservations are the opening stock less the sums over the fates, and that fits
what is known of each transfer (`Explains`, `FateFits`).  A step changes the fate
of one transfer (`ExplainedAgain`), and a sum over transfers, which counts
units, changes by that transfer's quantity (`FateChanges`).  `MovesTruly`,
`JournalTruly` and `InstanceTruly` tie the movements and the journal to the
step a saga is at.  `TransfersAreWhole` follows.  Assumed besides types: the
transfers are finitely many.

**Admission.**  A call queues only while no slot is free and letting one in
frees none: `SlotsHeld`, with `QueueWaits` (who is in the queue waits, once).
`HandlersStand` says that a handler holds the connections of its step
(`HeldAt`) and serves one call that is on its way, or nobody's, and no two
handlers serve one call; `PoolFits` that no more connections are held than
there are.  `Programs` goes through the steps of every program: a handler that
holds a connection when it asks is of a kind that takes two, so handlers that
all ask and leave nothing in the pool hold one each, and are as many as the
pool has (`PoolStuck`, by a bijection).  `OneTicket` and `SalesCounted` count the sales made
against those shown, given up, and the one the till waits for; a sale that was
given up before it is made counts from the moment it was given up.
`AdmissionIsHeld` joins the three.

**Tokens, customers, employees.**  `TokensInv`: no call is accepted with a
revoked token (`LogoutsKept`); a call about to pair has a token that is open,
to itself, which is the lock on its row (`PairsApart`); devices are no more
than tokens used (`UsesCounted`); a set-up that was alone began without an
owner (`OwnerAlone`, `Unowned`).  `TokensAreHonoured` follows.
`CustomersInv` adds to the property what a call remembers of its look-up
(`LookedUp`): no active row of those it saw was created with the name.  Rows
that a page left out are counted (a full page has its size), hence
`TillAgrees` holds for any size of page.  `EmployeesInv` is `StaffShape`,
`RowsHeld`, `PendingApart` (no two uncommitted writes carry one code, which is
the UNIQUE index) and `CodesNoted` (`heldByOthers` has seen every code anybody
else has had since the call began).  `PeopleKeep` joins both parts of
`PeopleHold`, by the specification of either with the other's state unchanged.

**Figures.**  `FiguresInv` is `FiguresShape` (rows refer to turns, amounts are
naturals), `TurnsFit` (a turn being closed, or closed, lacks what was undone
since its sales were read and nothing else), `PageFits` (so does a summary,
of what it missed), `OwedFits` (the debt is the completed credit sales) and
`ViewsFit`.  Each step moves one row, so the sums over one turn, over the
credit sales and over the movements change by one term (`RowsAddUp`).
`FiguresHold` is then arithmetic of sums: a set of sales is split by a
condition (`TotalSplits`), by its methods (`Columns`), or by its hours, days or
articles (`SumOfGroups`), and what the joins list is the net without the
common lines (`ListedAndLoose`, `ListedOnly`).  A sum is the number of its units (`Sum`), which
makes it first-order: `SubsetInduction`, from the well-foundedness of strict
inclusion on finite sets, replaces the induction theorem that takes an
operator.  Assumed: sales, turns and movements are finitely many, amounts are
naturals; the parts of a mixed sale need not add up to its total, and a zone
is at most a day behind UTC.

**The projection of a sale.**  `SalesAreProjected` compares a recursion over
rows with definitions that look at all rows at once.  `Said(n)` is the state
that the first `n` rows say; it is `NothingYet` for none (`SaidFirst`), and one
row more changes it as `apply_event` does (`SaidNext`): an addition, a removal
or a change of quantity moves one item and leaves the others (`ItemAdded`,
`ItemRemoved`, `ItemChanged`, by which row is the first or the last of a kind,
`NewLast`, `SameFirst`), and the other rows move the discount, the status or
the payments.  `UpTo` takes this to every number of rows: a set of naturals
with 0 and with every successor up to a bound has them all.  The stream only
has to be typed, whatever page `get_events` reads.

**Types of a node.**  `NodeInv` joins the invariants of the parts with the
bounds of the run that they have no need of (`TransfersBounded`,
`AdmissionBounded` and so on: a call that is let in leaves the queue, so the
two together do not grow; a customer's row is never taken away, so what a till
lists is a row).  A step of a scene is a step of its part and leaves the others
alone (`EveryPartSteps`), hence `NodeTypes` and, once more, whatever the
invariants of the parts say.

**Amounts.**  `Altogether` is a recursive function, and what it computes for
lists of any length is an induction over naturals that is made first-order:
`UpToTheLast` says that a set with 0 and with every successor up to `N` has `N`,
from the well-foundedness of `<`, and `PartialSums` that a sum is the last of
its partial sums.  From it: sums keep an order (`SumsOrdered`), are linear
(`SumsCombine`), and stay within the sum of their slacks (`SumsWithin`).  Each
rounding is off by half of what it rounds to (`Rounded`, on both sides of
zero).  `RowApart` says how far the row that the columns keep is from what the
till asked for: half a cent a unit for the price, half a ten-thousandth of the
price for the quantity.  `TaxedLine` and `UntaxedLine` bound what this and the
roundings of a line make of it, `OutOfCents` takes the parts of a cent out of
it again, and `LinesComeTo` adds that up to the sale, whence the slack of
`InvoiceIsNear` and of `CreditIsNear`.  Where the till named nothing finer than
the columns, a row's subtotal is that of its document (`WholeSubtotals`), and a
credit note is within a cent a line of what is recorded of it (`TaxesAreNear`).
`AmountsInv` says that a row of the ledger is `SaleOf` some cart, that a row of
`cfdis` fits the ledger (`PaperFits`, which a sale more does not disturb:
`ImportesStay`) and that a complement fits the rows.  `DocumentsHold` follows;
`FiscalTypes` joins it with `InvoicingInv` and `FiguresInv`.  Assumed
(`AmountsAssumption`): the signs, which are all that the pydantic model of a line
enforces.  Of decimals it bounds none, and neither does the theorem: prices and
quantities come in `Fine` parts of a cent and of a ten-thousandth, for any
`Fine`, so every finite set of decimals is among them.  A wholesale price may be
negative, for it has no bound there, and the list may hold any price.

**Statements and searches.**  The recursions of `Queries` are functions of a
position, over texts of any length.  Each is shown to exist, which makes its
equation usable (`RecursionExists`, from the well-foundedness of `<`), and
`UpTo` and `Chain` carry a fact from one position to every later one.  For the
search: `Spelled` and `ReplaceIs` say where each character of a text is once
another was replaced, `ReplaceMore` where it is after the next replacement, and
`Escaped` where the term is in the pattern.  `RestOf` and `RestStep` say what
LIKE matches from each position of the pattern, hence `Found`: it matches the
texts that contain the term and no other.  For the statement: `TokenEnd` and
`ReadIs` are what the server reads, token by token, and `PlacedAre` what is
sent.  The wrapper does not read tokens; it looks at the characters around a
colon and at the quotes before it.  `Boundary` says that the two agree between
tokens (an even number of quotes, no open cast, not within a name) and
`NextBoundary` that they do after one token more, whence `ReadAsPlaced`.
`NamedAre` and `ArgsAre` say the same of the list of values.  Assumed
(`QueriesAssumption`): no letter is one of the characters that the code or the
server treats apart.  As in the property, the statement closes its quotes.

**Only model-checked.**  `RequestsEnd` and `QueueDrains` are liveness under
fairness, which this prover does not reach.  The violated properties are
refuted by their counterexamples.
## 7. What the models found

Each entry is in `findings` of `PROJECT.json` with its lines and the sentence
of the repository it disagrees with.  Four are counterexamples (`Deferred` and
the three `StoreTx` runs that expect a violation); the others were met while
translating, and the property named states what does hold.

**The till**

* Two tills, one customer: a lock cycle (`StoreTxTwoTills`).  The comment at
  `sales/routes.py:421` promises a global lock order, but `INSERT INTO sales`
  takes the key lock of the customer's row before the credit or wallet check
  asks for its update lock.  PostgreSQL aborts one; `StoreTxProgress` shows
  that everyone still ends.
* Two open turns on a terminal (`StoreTxOpen`): the check of `open_turn` locks
  nothing when it finds nothing, and no unique index backs it.
* Kits with a deactivated part (`StoreTxKits`): the stock check of the part is
  skipped, and it is deducted all the same.
* Goods by weight (`StockBalance`): `_build_stock_deductions` says it skips
  them, deducts them, and the cancellation does not put them back.
* Slots (`AdmissionHolds`): a queued call that is let in is counted twice.
  After 20 of them no slot is ever free until the page is reloaded.
* Customers past the 500th are never listed by a till (`PeopleHold`).

**Requests of the owner** (`Remote`)

* With JSON columns read as text, as both pools read them, no price change of
  an owner is ever applied (`AppliedOnce`).
* Requests are marked delivered before their reply has left; a lost reply or a
  broken batch leaves them for good (`LeftForGood`).
* Marking a request expired is rolled back by the 410 that follows it.

**Control plane and agent** (`ControlPlane`)

* The branch limit and "one account per link code" are overshot by calls that
  count at the same time (`ChecksOvershootByCalls`).
* A registration that breaks off between user and membership leaves an e-mail
  that is taken and cannot log in (`OrphanedForGood`).
* Registering a new business answers 500 after its commit: it assigns to a
  `Record` of asyncpg (`AccessKept`).
* Two power cuts, one in a rollback and one in the next update, leave a
  description of half an executable, which is why `RollbackGoesBack` asks for a
  whole one only up to the first.
* What a manifest names to go back to is of the branch's own channel, what it
  offers of the channel assigned, or pinned: the one may be newer than the other
  (`RollbackGoesBack`).
* A machine is looked for among the 20 newest fingerprints that share any one
  part with it.  Behind 20 machines with its processor it is not found, and
  gets another tenant and another trial when it is reinstalled (`GrantedOnce`).
* All uploads of artifacts share one address without an extension, which the
  agent refuses to open.
* `ensure_tunnel_provisioned` is not idempotent for two calls at once, nor
  between tenants whose branches chose one slug (`OneTunnel`).
* Alerts and the owner's page never see a full disk, because the driver hands
  out a `Decimal`; `is_online` is never set back to 0; the node's own
  heartbeat is never accepted (`OwnerPagesHold`).
* A renewed trial is reminded of as ended for good (`GateAgrees`).

**The rest of the node** (`Node`)

* No code reads the saga's journal back after a crash; nothing is added at the
  destination; and `reference_id` is an INTEGER where the saga writes text, so
  that with the columns of `schema.sql` every transfer fails (`TransferWhole`).
* A replay whose handlers fail marks its event processed, and the application
  creates its bus without a store (`OutboxKeeps`).
* A projection reads the first 1000 events only; `append` locks an aggregate,
  which PostgreSQL refuses (`ProjectionAgrees`).
* Two first set-ups at once both make an owner (`TokensHonoured`).
* A push overwrites stock and price and records neither (`CatalogueTraced`).

**Documents and figures** (`Fiscal`, `Deferred`)

* `Deferred`: through Facturapi a sale on credit is declared as paid at once.
* With the columns of `schema.sql` the row of a document is refused after it
  was stamped (`StampsAccounted`).
* No global invoice is ever sent or written: with Facturapi its body holds
  Decimals, which the encoding as JSON refuses, and without it a name is used
  before it is bound.  Sales of series B wait for one for good
  (`StampsAccounted`: none leaves the series without a row of its own).
* A row of `sale_items` keeps a price in cents and a subtotal computed from the
  price as it was asked for: 1000 pieces at 0.125 are sold for 145.00 with tax,
  and their credit note is of 150.80 (`DocumentsAddUp`).
* An invoice's tax is that of the undiscounted lines; a credit note states a
  quantity with two decimals and an amount computed with four; a payment
  receipt gives each related document the whole payment (`DocumentsAddUp`).
* Nothing refreshes the materialized views; a summary disagrees with its
  closing after a sale of the closed turn is cancelled; the lists of what was
  sold leave out common lines, which are of no product (`FiguresAgree`).

## 8. What is not modelled

* **Returns** (`fiscal/returns_engine.py`).  The route hands pydantic objects
  to `process_return`, which calls `get` on them; the exception rolls back
  before any write.  There is nothing to check until it runs.
* **Other engines under `fiscal/`**: forecasts, reports and books that no part
  modelled here reads.  `generate_global_cfdi_from_selection` has no caller.
  The amounts of a global invoice, of which nothing is kept, the
  synchronisation with Facturapi and the ingestion of XML are left out.
* **`register_loss`** leaves out a column that `schema.sql` requires: losses
  of `Catalogue` come from elsewhere.
* **Control plane**: `list_offline`, whose query the driver refuses; the audit
  log; the landing and download pages.
* **Hardware, printing, discovery, system, the catalogue of the SAT, schema
  migrations, the owner's app, installers, the renderer's display**: devices,
  files and screens.  **The PIN check and rate limits** are a comparison and a
  list of times within one process.
* **In what is modelled**: which strings the wrapper binds as dates; names,
  keys, seals and signatures of documents; `LIMIT`s, averages and one page's
  90 days; the Windows installer; a change of a kit's parts or of what is sold
  by weight between a sale and its cancellation (the one hazard in
  `PROJECT.json` without a property: components and `sale_type` are constants
  of `StoreTx`, and a property of them would restate that the code reads
  today's rows).
* `sync_push` and the approval of losses write stock as well; they are in
  `Catalogue`, not in `StoreTx`.  The ledger properties of `StoreTx` are
  about a node where they are idle.


## 9. What remains

What section 8 lists as not modelled.
