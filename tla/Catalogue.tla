------------------------------ MODULE Catalogue ------------------------------
(***************************************************************************)
(* The catalogue of a node: creating products, their price with the        *)
(* journal of its changes, their stock with its movements, the approval of *)
(* losses, and the list a till pulls and from which it later pushes a row, *)
(* old values included.  Rows are locked by PostgreSQL until commit.       *)
(***************************************************************************)
EXTENDS Integers

CONSTANTS
    Clerks,       \* the requests served at a time
    Products,
    Losses,
    LossOf,       \* the product and the quantity of each loss
    Prices,
    MaxStock,     \* bound of a run
    MaxPushes     \* bound of a run

ASSUME CatalogueAssumption ==
    /\ LossOf \in [Losses -> [product : Products, quantity : Nat]]
    /\ Prices \subseteq Nat \ {0} /\ MaxStock \in Nat \ {0} /\ MaxPushes \in Nat

VARIABLES
    item,         \* products: known by its SKU, active, price, stock
    price_history,\* its last row of each product, with the row before it
    moved,        \* the sum of inventory_movements of each product
    taken,        \* the movements that name each loss
    loss,         \* the status of each row of loss_records
    list,         \* what the till last pulled, as far as it pushes it back
    clerk,
    imposed,      \* what creations and pushes did to the stock
    unnoted,      \* the products whose price one of them set after the last row
    pushes

catalogue == <<item, price_history, moved, taken, loss, list, clerk, imposed, unnoted, pushes>>
journals == <<price_history, moved, taken, imposed, unnoted>>

Free == [at |-> "idle", rows |-> {}]
Unknown == [known |-> FALSE, active |-> FALSE, price |-> 0, stock |-> 0]
NotListed == [known |-> FALSE, stock |-> 0]
NoRow == [before |-> 0, old |-> 0, new |-> 0]
Item == [known : BOOLEAN, active : BOOLEAN, price : Prices \cup {0}, stock : 0..MaxStock]
Changes == [kind : {"add"}, n : -1..1] \cup [kind : {"set"}, n : 0..MaxStock]

CatalogueTypeOK ==
    /\ item \in [Products -> Item] /\ list \in [Products -> [known : BOOLEAN, stock : 0..MaxStock]]
    /\ \A p \in Products :
        price_history[p] \in [before : Prices \cup {0}, old : Prices \cup {0}, new : Prices \cup {0}]
    /\ \A p \in Products : moved[p] \in Int /\ imposed[p] \in Int
    /\ \A l \in Losses : taken[l] \in Nat /\ loss[l] \in {"pending", "approved", "rejected"}
    /\ \A c \in Clerks : clerk[c].at \in {"idle", "stock", "price", "loss", "create"}
                         /\ clerk[c].rows \subseteq Products \cup Losses
    /\ unnoted \subseteq Products /\ pushes \in 0..MaxPushes

\* Rows of loss_records get there by other means: the statement of register_loss
\* leaves out loss_type, which schema.sql requires.
CatalogueInit ==
    /\ \E K \in SUBSET Products : \E v \in Prices :
        item = [p \in Products |-> IF p \in K THEN [known |-> TRUE, active |-> TRUE, price |-> v, stock |-> 1]
                                   ELSE Unknown]
    /\ price_history = [p \in Products |-> NoRow]
    /\ moved = [p \in Products |-> 0] /\ taken = [l \in Losses |-> 0]
    /\ loss = [l \in Losses |-> "pending"]
    /\ list = [p \in Products |-> NotListed]
    /\ clerk = [c \in Clerks |-> Free]
    /\ imposed = [p \in Products |-> item[p].stock]
    /\ unnoted = Products /\ pushes = 0

Turns(c, t) == clerk' = [clerk EXCEPT ![c] = t]
Unlocked(row) == \A c \in Clerks : row \notin clerk[c].rows
Begins(c, t) ==
    /\ clerk[c].at = "idle" /\ Turns(c, t)
    /\ UNCHANGED <<item, journals, loss, list, pushes>>

\* A refusal, a timeout, the deadlock detector: the transaction is rolled back.
RollsBack(c) ==
    /\ clerk[c].at # "idle" /\ Turns(c, Free)
    /\ UNCHANGED <<item, journals, loss, list, pushes>>

-----------------------------------------------------------------------------
\* Products.

create_product(c, p, price, stock) ==
    /\ ~item[p].known
    /\ Begins(c, [at |-> "create", rows |-> {}, product |-> p, price |-> price, stock |-> stock])

Listed(p, new) ==
    /\ item' = [item EXCEPT ![p] = new]
    /\ imposed' = [imposed EXCEPT ![p] = @ + new.stock - item[p].stock]
    /\ unnoted' = IF new.price = item[p].price THEN unnoted ELSE unnoted \cup {p}

\* The SKU is unique: one who checked before another inserted is refused.
Created(c) ==
    /\ clerk[c].at = "create"
    /\ LET t == clerk[c] IN
        /\ ~item[t.product].known
        /\ Listed(t.product, [known |-> TRUE, active |-> TRUE, price |-> t.price, stock |-> t.stock])
    /\ Turns(c, Free)
    /\ UNCHANGED <<price_history, moved, taken, loss, list, pushes>>

\* update_product with is_active, delete_product.
SetsActive(c, p, a) ==
    /\ clerk[c].at = "idle" /\ item[p].known /\ Unlocked(p)
    /\ item' = [item EXCEPT ![p].active = a]
    /\ UNCHANGED <<journals, loss, list, clerk, pushes>>

\* A fault: the row is read without FOR UPDATE.
read_price(c, p, v) ==
    /\ item[p].known
    /\ Begins(c, [at |-> "price", rows |-> {}, product |-> p, old |-> item[p].price, new |-> v])

update_price(c, p, v) ==
    /\ item[p].known /\ Unlocked(p)
    /\ Begins(c, [at |-> "price", rows |-> {p}, product |-> p, old |-> item[p].price, new |-> v])

\* By its SKU, while it is active.
update_price_remote(c, p, v) ==
    /\ item[p].known /\ item[p].active /\ Unlocked(p)
    /\ Begins(c, [at |-> "price", rows |-> {p}, product |-> p, old |-> item[p].price, new |-> v])

PriceWritten(c) ==
    /\ clerk[c].at = "price"
    /\ LET t == clerk[c] p == clerk[c].product IN
        /\ item' = [item EXCEPT ![p].price = t.new]
        /\ IF t.new = t.old THEN UNCHANGED <<price_history, unnoted>>
           ELSE /\ price_history' = [price_history EXCEPT ![p] =
                        [before |-> IF p \in unnoted THEN 0 ELSE @.new, old |-> t.old, new |-> t.new]]
                /\ unnoted' = unnoted \ {p}
    /\ Turns(c, Free)
    /\ UNCHANGED <<moved, taken, imposed, loss, list, pushes>>

-----------------------------------------------------------------------------
\* Stock.

update_stock(c, p, change) ==
    /\ item[p].known /\ item[p].active /\ Unlocked(p)
    /\ Begins(c, [at |-> "stock", rows |-> {p}, product |-> p, change |-> change, saw |-> item[p].stock])

NewStock(t) == IF t.change.kind = "set" THEN t.change.n ELSE t.saw + t.change.n

\* A fault: the new stock is not compared with zero.
StockWrittenAnyway(c) ==
    /\ clerk[c].at = "stock" /\ NewStock(clerk[c]) <= MaxStock
    /\ LET t == clerk[c] IN
        /\ item' = [item EXCEPT ![t.product].stock = NewStock(t)]
        /\ moved' = [moved EXCEPT ![t.product] = @ + NewStock(t) - t.saw]
    /\ Turns(c, Free)
    /\ UNCHANGED <<price_history, taken, imposed, unnoted, loss, list, pushes>>

\* MaxStock bounds the run.
StockWritten(c) ==
    /\ clerk[c].at = "stock" /\ NewStock(clerk[c]) \in 0..MaxStock
    /\ LET t == clerk[c] IN
        /\ item' = [item EXCEPT ![t.product].stock = NewStock(t)]
        /\ moved' = [moved EXCEPT ![t.product] = @ + NewStock(t) - t.saw]
    /\ Turns(c, Free)
    /\ UNCHANGED <<price_history, taken, imposed, unnoted, loss, list, pushes>>

\* The row of the loss is locked before its status is looked at.
approve_merma(c, l) ==
    /\ Unlocked(l) /\ loss[l] = "pending"
    /\ Begins(c, [at |-> "loss", rows |-> {l}, loss |-> l])

Rejected(c) ==
    /\ clerk[c].at = "loss"
    /\ loss' = [loss EXCEPT ![clerk[c].loss] = "rejected"]
    /\ Turns(c, Free)
    /\ UNCHANGED <<item, journals, list, pushes>>

\* Whether the product is active is not asked.
Approved(c) ==
    /\ clerk[c].at = "loss"
    /\ LET l == clerk[c].loss p == LossOf[l].product q == LossOf[l].quantity IN
        /\ item[p].known /\ Unlocked(p) /\ item[p].stock >= q
        /\ loss' = [loss EXCEPT ![l] = "approved"]
        /\ item' = [item EXCEPT ![p].stock = @ - q]
        /\ moved' = [moved EXCEPT ![p] = @ - q]
        /\ taken' = [taken EXCEPT ![l] = @ + 1]
    /\ Turns(c, Free)
    /\ UNCHANGED <<price_history, imposed, unnoted, list, pushes>>

-----------------------------------------------------------------------------
\* The till's list.

sync_pull_products ==
    /\ list' = [p \in Products |->
          IF item[p].known /\ item[p].active THEN [known |-> TRUE, stock |-> item[p].stock] ELSE NotListed]
    /\ UNCHANGED <<item, journals, loss, clerk, pushes>>

\* The stock is that of the list, the price what the form holds; a row that was
\* deleted stays deleted.
sync_push(p, price) ==
    /\ list[p].known /\ Unlocked(p)
    /\ pushes < MaxPushes /\ pushes' = pushes + 1
    /\ Listed(p, [item[p] EXCEPT !.price = price, !.stock = list[p].stock])
    /\ UNCHANGED <<price_history, moved, taken, loss, list, clerk>>

sync_push_deleted(p) ==
    /\ list[p].known /\ Unlocked(p)
    /\ item' = [item EXCEPT ![p].active = FALSE]
    /\ list' = [list EXCEPT ![p] = NotListed]
    /\ UNCHANGED <<journals, loss, clerk, pushes>>

CatalogueNext ==
    \/ \E c \in Clerks :
        \/ RollsBack(c) \/ Created(c) \/ PriceWritten(c) \/ StockWritten(c)
        \/ Rejected(c) \/ Approved(c)
        \/ \E l \in Losses : approve_merma(c, l)
        \/ \E p \in Products :
            \/ \E a \in BOOLEAN : SetsActive(c, p, a)
            \/ \E change \in Changes : update_stock(c, p, change)
            \/ \E v \in Prices :
                update_price(c, p, v) \/ update_price_remote(c, p, v) \/ create_product(c, p, v, 1)
    \/ sync_pull_products
    \/ \E p \in Products : sync_push_deleted(p) \/ \E v \in Prices : sync_push(p, v)

CatalogueSpec == CatalogueInit /\ [][CatalogueNext]_catalogue

-----------------------------------------------------------------------------
\* The journals explain the tables.  Movements account for all of a product's
\* stock but what it was created with and what pushes, which record nothing,
\* wrote over it.  Each row of price_history starts from the price the row before
\* it ended with, and the last one ends with the price of today, unless a push or
\* the creation came in between.  A loss is taken from stock once, and only when
\* it is approved, however many approvals and rejections are under way.
CatalogueTraced ==
    /\ \A p \in Products :
        /\ item[p].stock = imposed[p] + moved[p]
        /\ price_history[p].before \in {0, price_history[p].old}
        /\ p \notin unnoted => item[p].price = price_history[p].new
    /\ \A l \in Losses : taken[l] = IF loss[l] = "approved" THEN 1 ELSE 0
=============================================================================
