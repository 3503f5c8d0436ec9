--------------------------- MODULE CatalogueProofs ---------------------------
(***************************************************************************)
(* That the journals of a catalogue explain its tables, for any clerks,    *)
(* products, losses, prices and stocks: the row lock that a request takes  *)
(* before it reads makes what it read true when it writes.                 *)
(***************************************************************************)
EXTENDS Catalogue, TLAPS

Entry == [known : BOOLEAN, stock : 0..MaxStock]
HistoryRow == [before : Prices \cup {0}, old : Prices \cup {0}, new : Prices \cup {0}]
Creating == [at : {"create"}, rows : {{}}, product : Products, price : Prices, stock : 0..MaxStock]
Pricing == [at : {"price"}, rows : SUBSET Products, product : Products, old : Prices \cup {0}, new : Prices]
Stocking == [at : {"stock"}, rows : SUBSET Products, product : Products, change : Changes, saw : 0..MaxStock]
Judging == [at : {"loss"}, rows : SUBSET Losses, loss : Losses]
Request == {Free} \cup Creating \cup Pricing \cup Stocking \cup Judging

\* What CatalogueTypeOK says, and what kind of functions the variables are.
Shape ==
    /\ item \in [Products -> Item] /\ list \in [Products -> Entry]
    /\ price_history \in [Products -> HistoryRow]
    /\ moved \in [Products -> Int] /\ imposed \in [Products -> Int]
    /\ taken \in [Losses -> Nat] /\ loss \in [Losses -> {"pending", "approved", "rejected"}]
    /\ clerk \in [Clerks -> Request]
    /\ unnoted \subseteq Products /\ pushes \in 0..MaxPushes

\* Who writes a row holds it, alone; and a product's row is there.
RowsLocked ==
    /\ \A c \in Clerks :
        /\ clerk[c].at \in {"stock", "price"} =>
              clerk[c].product \in clerk[c].rows /\ item[clerk[c].product].known
        /\ clerk[c].at = "loss" => clerk[c].loss \in clerk[c].rows
    /\ \A c, d \in Clerks : c # d => clerk[c].rows \cap clerk[d].rows = {}

\* What a request read of a row it holds is still so.
ReadsTrue ==
    \A c \in Clerks :
        /\ clerk[c].at = "stock" => clerk[c].saw = item[clerk[c].product].stock
        /\ clerk[c].at = "price" => clerk[c].old = item[clerk[c].product].price
        /\ clerk[c].at = "loss" => loss[clerk[c].loss] = "pending"

\* The inductive invariant.
CatalogueInv == Shape /\ RowsLocked /\ ReadsTrue /\ CatalogueTraced

-----------------------------------------------------------------------------
LEMMA CatalogueStart == CatalogueInit => CatalogueInv
<1> SUFFICES ASSUME CatalogueInit PROVE CatalogueInv
  OBVIOUS
<1>1. PICK K \in SUBSET Products, v \in Prices :
        item = [p \in Products |-> IF p \in K THEN [known |-> TRUE, active |-> TRUE, price |-> v, stock |-> 1]
                                   ELSE Unknown]
  BY DEF CatalogueInit
<1>2. item \in [Products -> Item]
  BY <1>1, CatalogueAssumption DEF Item, Unknown
<1>3. \A p \in Products : imposed[p] = item[p].stock /\ moved[p] = 0
  BY DEF CatalogueInit
<1>4. imposed \in [Products -> Int]
  BY <1>2 DEF CatalogueInit, Item
<1>5. Shape
  <2>1. NoRow \in HistoryRow /\ NotListed \in Entry /\ Free \in Request
    BY CatalogueAssumption DEF HistoryRow, Entry, Request, NoRow, NotListed
  <2>2. list \in [Products -> Entry] /\ price_history \in [Products -> HistoryRow] /\ clerk \in [Clerks -> Request]
    BY <2>1 DEF CatalogueInit
  <2>3. moved \in [Products -> Int] /\ taken \in [Losses -> Nat] /\ loss \in [Losses -> {"pending", "approved", "rejected"}]
    BY DEF CatalogueInit
  <2>4. unnoted \subseteq Products /\ pushes \in 0..MaxPushes
    BY CatalogueAssumption DEF CatalogueInit
  <2> QED
    BY <1>2, <1>4, <2>2, <2>3, <2>4 DEF Shape
<1>6. RowsLocked /\ ReadsTrue
  BY DEF CatalogueInit, RowsLocked, ReadsTrue, Free
<1>7. CatalogueTraced
  BY <1>2, <1>3 DEF CatalogueInit, CatalogueTraced, NoRow, Item
<1> QED
  BY <1>5, <1>6, <1>7 DEF CatalogueInv

LEMMA RequestOf ==
  ASSUME Shape, NEW c \in Clerks
  PROVE  /\ clerk[c].at = "create" => clerk[c] \in Creating
         /\ clerk[c].at = "price" => clerk[c] \in Pricing
         /\ clerk[c].at = "stock" => clerk[c] \in Stocking
         /\ clerk[c].at = "loss" => clerk[c] \in Judging
         /\ clerk[c].at = "idle" => clerk[c] = Free
<1>1. clerk[c] \in Request
  BY DEF Shape
<1> QED
  BY <1>1 DEF Request, Free, Creating, Pricing, Stocking, Judging

\* A request that begins reads rows it has just locked.
LEMMA RequestBegins ==
  ASSUME CatalogueInv, NEW c \in Clerks, NEW t \in Request, Begins(c, t),
         \A row \in t.rows : Unlocked(row),
         t.at \in {"stock", "price"} => t.product \in t.rows /\ item[t.product].known,
         t.at = "stock" => t.saw = item[t.product].stock,
         t.at = "price" => t.old = item[t.product].price,
         t.at = "loss" => t.loss \in t.rows /\ loss[t.loss] = "pending"
  PROVE  CatalogueInv'
<1> USE DEF CatalogueInv
<1>1. clerk' = [clerk EXCEPT ![c] = t] /\ UNCHANGED <<item, journals, loss, list, pushes>>
  BY DEF Begins, Turns
<1>2. Shape'
  BY <1>1 DEF Shape, journals
<1>3. \A d \in Clerks : clerk'[d] = IF d = c THEN t ELSE clerk[d]
  BY <1>1 DEF Shape
<1>4. RowsLocked'
  BY <1>1, <1>3 DEF RowsLocked, Unlocked
<1>5. ReadsTrue'
  BY <1>1, <1>3 DEF ReadsTrue
<1>6. CatalogueTraced'
  BY <1>1 DEF CatalogueTraced, journals
<1> QED
  BY <1>2, <1>4, <1>5, <1>6

\* What the others read of the rows they hold is not written by this request.
OthersKeep(c) ==
    \A d \in Clerks \ {c} :
        /\ clerk[d].at \in {"stock", "price"} => item'[clerk[d].product] = item[clerk[d].product]
        /\ clerk[d].at = "loss" => loss'[clerk[d].loss] = loss[clerk[d].loss]

\* A request that ends has written no row the others hold.
LEMMA RequestEnds ==
  ASSUME CatalogueInv, NEW c \in Clerks, Turns(c, Free), Shape', CatalogueTraced', OthersKeep(c)
  PROVE  CatalogueInv'
<1> USE DEF CatalogueInv
<1>1. \A d \in Clerks : clerk'[d] = IF d = c THEN Free ELSE clerk[d]
  BY DEF Shape, Turns
<1>2. RowsLocked'
  BY <1>1 DEF RowsLocked, Free, OthersKeep
<1>3. ReadsTrue'
  BY <1>1 DEF ReadsTrue, Free, OthersKeep
<1> QED
  BY <1>2, <1>3

\* It has when the rows it writes are its own.
LEMMA OwnRows ==
  ASSUME CatalogueInv, NEW c \in Clerks,
         \A p \in Products \ clerk[c].rows : item'[p] = item[p],
         \A l \in Losses \ clerk[c].rows : loss'[l] = loss[l]
  PROVE  OthersKeep(c)
<1> USE DEF CatalogueInv
<1> SUFFICES ASSUME NEW d \in Clerks, d # c
             PROVE  /\ clerk[d].at \in {"stock", "price"} => item'[clerk[d].product] = item[clerk[d].product]
                    /\ clerk[d].at = "loss" => loss'[clerk[d].loss] = loss[clerk[d].loss]
  BY DEF OthersKeep
<1>1. clerk[d].at \in {"stock", "price"} => clerk[d].product \in Products
  BY RequestOf DEF Pricing, Stocking
<1>2. clerk[d].at = "loss" => clerk[d].loss \in Losses
  BY RequestOf DEF Judging
<1> QED
  BY <1>1, <1>2 DEF RowsLocked

LEMMA RollBackStep ==
  ASSUME CatalogueInv, NEW c \in Clerks, RollsBack(c)
  PROVE  CatalogueInv'
<1> USE DEF CatalogueInv
<1>1. UNCHANGED <<item, journals, loss, list, pushes>> /\ Turns(c, Free)
  BY DEF RollsBack
<1>2. Shape'
  BY <1>1 DEF Shape, journals, Turns, Request
<1>3. CatalogueTraced'
  BY <1>1 DEF CatalogueTraced, journals
<1> QED
  BY <1>1, <1>2, <1>3, OwnRows, RequestEnds

\* A row of products is written in one place, and what it is written with is noted.
LEMMA ListedTraced ==
  ASSUME CatalogueInv, NEW p \in Products, NEW new \in Item, Listed(p, new),
         UNCHANGED <<price_history, moved, taken, loss>>
  PROVE  /\ item' \in [Products -> Item] /\ imposed' \in [Products -> Int]
         /\ unnoted' \subseteq Products /\ CatalogueTraced'
<1> USE DEF CatalogueInv
<1>1. /\ item' = [item EXCEPT ![p] = new]
      /\ imposed' = [imposed EXCEPT ![p] = imposed[p] + new.stock - item[p].stock]
      /\ unnoted' = IF new.price = item[p].price THEN unnoted ELSE unnoted \cup {p}
  BY DEF Listed
<1>2. /\ new.stock \in Int /\ \A q \in Products : item[q].stock \in Int
      /\ \A q \in Products : imposed[q] \in Int /\ moved[q] \in Int
  BY CatalogueAssumption DEF Shape, Item
<1>3. item' \in [Products -> Item] /\ imposed' \in [Products -> Int] /\ unnoted' \subseteq Products
  BY <1>1, <1>2 DEF Shape
<1>4. \A q \in Products : item'[q].stock = imposed'[q] + moved'[q]
  BY <1>1, <1>2 DEF Shape, CatalogueTraced
<1>5. \A q \in Products : q \notin unnoted' => item'[q].price = price_history'[q].new
  BY <1>1 DEF Shape, CatalogueTraced
<1> QED
  BY <1>3, <1>4, <1>5 DEF CatalogueTraced

LEMMA CreatedStep ==
  ASSUME CatalogueInv, NEW c \in Clerks, Created(c)
  PROVE  CatalogueInv'
<1> USE DEF CatalogueInv
<1> DEFINE p == clerk[c].product
           new == [known |-> TRUE, active |-> TRUE, price |-> clerk[c].price, stock |-> clerk[c].stock]
<1>1. /\ clerk[c].at = "create" /\ ~item[p].known /\ Listed(p, new) /\ Turns(c, Free)
      /\ UNCHANGED <<price_history, moved, taken, loss, list, pushes>>
  BY DEF Created
<1>2. p \in Products /\ new \in Item
  BY <1>1, RequestOf DEF Creating, Item
<1> HIDE DEF p, new
<1>3. /\ item' \in [Products -> Item] /\ imposed' \in [Products -> Int]
      /\ unnoted' \subseteq Products /\ CatalogueTraced'
  BY <1>1, <1>2, ListedTraced
<1>4. Shape'
  BY <1>1, <1>3 DEF Shape, Turns, Request
<1>5. \A q \in Products : item'[q] = IF q = p THEN new ELSE item[q]
  BY <1>1 DEF Shape, Listed
<1>6. OthersKeep(c)
  <2> SUFFICES ASSUME NEW d \in Clerks, d # c, clerk[d].at \in {"stock", "price"}
               PROVE  item'[clerk[d].product] = item[clerk[d].product]
    BY <1>1 DEF OthersKeep
  <2>1. clerk[d].product \in Products
    BY RequestOf DEF Pricing, Stocking
  <2> QED
    BY <2>1, <1>1, <1>5 DEF RowsLocked
<1> QED
  BY <1>1, <1>3, <1>4, <1>6, RequestEnds

LEMMA PriceStep ==
  ASSUME CatalogueInv, NEW c \in Clerks, PriceWritten(c)
  PROVE  CatalogueInv'
<1> USE DEF CatalogueInv
<1> DEFINE t == clerk[c]
           p == clerk[c].product
<1>1. /\ t.at = "price" /\ item' = [item EXCEPT ![p].price = t.new] /\ Turns(c, Free)
      /\ IF t.new = t.old THEN UNCHANGED <<price_history, unnoted>>
         ELSE /\ price_history' = [price_history EXCEPT ![p] =
                      [before |-> IF p \in unnoted THEN 0 ELSE price_history[p].new, old |-> t.old, new |-> t.new]]
              /\ unnoted' = unnoted \ {p}
      /\ UNCHANGED <<moved, taken, imposed, loss, list, pushes>>
  BY DEF PriceWritten
<1>2. p \in Products /\ t.old \in Prices \cup {0} /\ t.new \in Prices
  BY <1>1, RequestOf DEF Pricing
<1>3. t.old = item[p].price /\ p \in t.rows
  BY <1>1 DEF ReadsTrue, RowsLocked
<1> HIDE DEF p, t
<1>4. item[p] \in Item /\ price_history[p] \in HistoryRow
  BY <1>2 DEF Shape
<1>5. item' = [item EXCEPT ![p] = [item[p] EXCEPT !.price = t.new]]
  BY <1>1, <1>2 DEF Shape
<1>6. [item[p] EXCEPT !.price = t.new] \in Item
  BY <1>2, <1>4 DEF Item
<1>7. \A q \in Products : item'[q].stock = item[q].stock /\ item'[q].price = IF q = p THEN t.new ELSE item[q].price
  BY <1>2, <1>4, <1>5 DEF Shape, Item
<1>8. price_history' \in [Products -> HistoryRow] /\ unnoted' \subseteq Products
  BY <1>1, <1>2, <1>4 DEF Shape, HistoryRow
<1>9. Shape'
  BY <1>1, <1>5, <1>6, <1>8 DEF Shape, Turns, Request
<1>10. CatalogueTraced'
  <2>1. CASE t.new = t.old
    BY <1>1, <1>3, <1>7, <2>1 DEF CatalogueTraced
  <2>2. CASE t.new # t.old
    <3>1. \A q \in Products : price_history'[q] =
            IF q = p THEN [before |-> IF p \in unnoted THEN 0 ELSE price_history[p].new, old |-> t.old, new |-> t.new]
            ELSE price_history[q]
      BY <1>1, <2>2 DEF Shape
    <3> QED
      BY <1>1, <1>2, <1>3, <1>7, <2>2, <3>1 DEF CatalogueTraced
  <2> QED
    BY <2>1, <2>2
<1>11. OthersKeep(c)
  BY <1>1, <1>3, <1>5, OwnRows DEF Shape, t
<1> QED
  BY <1>1, <1>9, <1>10, <1>11, RequestEnds

\* What a movement says is what the stock changed by, for the stock was read under
\* the lock.
LEMMA StockStep ==
  ASSUME CatalogueInv, NEW c \in Clerks, StockWritten(c)
  PROVE  CatalogueInv'
<1> USE DEF CatalogueInv
<1> DEFINE t == clerk[c]
           p == clerk[c].product
           n == NewStock(clerk[c])
<1>1. /\ t.at = "stock" /\ n \in 0..MaxStock /\ item' = [item EXCEPT ![p].stock = n]
      /\ moved' = [moved EXCEPT ![p] = moved[p] + n - t.saw] /\ Turns(c, Free)
      /\ UNCHANGED <<price_history, taken, imposed, unnoted, loss, list, pushes>>
  BY DEF StockWritten
<1>2. p \in Products /\ t.saw \in 0..MaxStock
  BY <1>1, RequestOf DEF Stocking
<1>3. t.saw = item[p].stock /\ p \in t.rows
  BY <1>1 DEF ReadsTrue, RowsLocked
<1> HIDE DEF p, t, n
<1>4. item[p] \in Item /\ n \in Int /\ t.saw \in Int
  BY <1>1, <1>2, CatalogueAssumption DEF Shape
<1>5. item' = [item EXCEPT ![p] = [item[p] EXCEPT !.stock = n]]
  BY <1>1, <1>2 DEF Shape
<1>6. [item[p] EXCEPT !.stock = n] \in Item
  BY <1>1, <1>4 DEF Item
<1>7. \A q \in Products : item'[q].price = item[q].price /\ item'[q].stock = IF q = p THEN n ELSE item[q].stock
  BY <1>2, <1>4, <1>5 DEF Shape, Item
<1>8. Shape'
  BY <1>1, <1>2, <1>4, <1>5, <1>6 DEF Shape, Turns, Request
<1>9. \A q \in Products : item'[q].stock = imposed'[q] + moved'[q]
  BY <1>1, <1>2, <1>3, <1>4, <1>7 DEF CatalogueTraced, Shape
<1>10. CatalogueTraced'
  BY <1>1, <1>7, <1>9 DEF CatalogueTraced
<1>11. OthersKeep(c)
  BY <1>1, <1>3, <1>5, OwnRows DEF Shape, t
<1> QED
  BY <1>1, <1>8, <1>10, <1>11, RequestEnds

LEMMA RejectStep ==
  ASSUME CatalogueInv, NEW c \in Clerks, Rejected(c)
  PROVE  CatalogueInv'
<1> USE DEF CatalogueInv
<1> DEFINE l == clerk[c].loss
<1>1. /\ clerk[c].at = "loss" /\ loss' = [loss EXCEPT ![l] = "rejected"] /\ Turns(c, Free)
      /\ UNCHANGED <<item, journals, list, pushes>>
  BY DEF Rejected
<1>2. l \in Losses /\ l \in clerk[c].rows /\ loss[l] = "pending"
  BY <1>1, RequestOf DEF Judging, RowsLocked, ReadsTrue
<1> HIDE DEF l
<1>3. Shape'
  BY <1>1, <1>2 DEF Shape, journals, Turns, Request
<1>4. CatalogueTraced'
  BY <1>1, <1>2 DEF CatalogueTraced, journals, Shape
<1>5. OthersKeep(c)
  BY <1>1, <1>2, OwnRows DEF Shape
<1> QED
  BY <1>1, <1>3, <1>4, <1>5, RequestEnds

\* The row of the product is locked in the step that takes from it.
LEMMA ApproveStep ==
  ASSUME CatalogueInv, NEW c \in Clerks, Approved(c)
  PROVE  CatalogueInv'
<1> USE DEF CatalogueInv
<1> DEFINE l == clerk[c].loss
           p == LossOf[clerk[c].loss].product
           q == LossOf[clerk[c].loss].quantity
<1>1. /\ clerk[c].at = "loss" /\ Unlocked(p) /\ item[p].stock >= q
      /\ loss' = [loss EXCEPT ![l] = "approved"]
      /\ item' = [item EXCEPT ![p].stock = item[p].stock - q]
      /\ moved' = [moved EXCEPT ![p] = moved[p] - q] /\ taken' = [taken EXCEPT ![l] = taken[l] + 1]
      /\ Turns(c, Free)
      /\ UNCHANGED <<price_history, imposed, unnoted, list, pushes>>
  BY DEF Approved
<1>2. l \in Losses /\ l \in clerk[c].rows /\ loss[l] = "pending"
  BY <1>1, RequestOf DEF Judging, RowsLocked, ReadsTrue
<1>3. p \in Products /\ q \in Nat
  BY <1>2, CatalogueAssumption
<1> HIDE DEF l, p, q
<1>4. item[p] \in Item /\ item[p].stock - q \in 0..MaxStock
  BY <1>1, <1>3, CatalogueAssumption DEF Shape, Item
<1>5. item' = [item EXCEPT ![p] = [item[p] EXCEPT !.stock = item[p].stock - q]]
  BY <1>1, <1>3 DEF Shape
<1>6. [item[p] EXCEPT !.stock = item[p].stock - q] \in Item
  BY <1>4 DEF Item
<1>7. \A r \in Products :
        item'[r].price = item[r].price /\ item'[r].stock = IF r = p THEN item[p].stock - q ELSE item[r].stock
  BY <1>3, <1>4, <1>5 DEF Shape, Item
<1>8. Shape'
  BY <1>1, <1>2, <1>3, <1>5, <1>6 DEF Shape, Turns, Request
<1>9. CatalogueTraced'
  <2>1. \A r \in Products : item'[r].stock = imposed'[r] + moved'[r]
    BY <1>1, <1>3, <1>7, CatalogueAssumption DEF CatalogueTraced, Shape, Item
  <2>2. \A k \in Losses : taken'[k] = IF loss'[k] = "approved" THEN 1 ELSE 0
    BY <1>1, <1>2 DEF CatalogueTraced, Shape
  <2> QED
    BY <1>1, <1>7, <2>1, <2>2 DEF CatalogueTraced
<1>10. OthersKeep(c)
  <2> SUFFICES ASSUME NEW d \in Clerks, d # c
               PROVE  /\ clerk[d].at \in {"stock", "price"} => item'[clerk[d].product] = item[clerk[d].product]
                      /\ clerk[d].at = "loss" => loss'[clerk[d].loss] = loss[clerk[d].loss]
    BY DEF OthersKeep
  <2>1. p \notin clerk[d].rows /\ l \notin clerk[d].rows
    BY <1>1, <1>2 DEF Unlocked, RowsLocked
  <2>2. clerk[d].at \in {"stock", "price"} => clerk[d].product \in Products /\ clerk[d].product # p
    BY <2>1, RequestOf DEF Pricing, Stocking, RowsLocked
  <2>3. clerk[d].at = "loss" => clerk[d].loss \in Losses /\ clerk[d].loss # l
    BY <2>1, RequestOf DEF Judging, RowsLocked
  <2> QED
    BY <1>1, <1>3, <1>5, <2>2, <2>3 DEF Shape
<1> QED
  BY <1>1, <1>8, <1>9, <1>10, RequestEnds

\* The writes that are no request's: of rows that nobody holds, or of columns nobody
\* read.
LEMMA FreeRows ==
  ASSUME CatalogueInv, UNCHANGED <<clerk, loss>>, Shape', CatalogueTraced',
         \A p \in Products : item'[p] # item[p] =>
             \/ Unlocked(p) /\ (item[p].known => item'[p].known)
             \/ item'[p].stock = item[p].stock /\ item'[p].price = item[p].price /\ item'[p].known = item[p].known
  PROVE  CatalogueInv'
<1> USE DEF CatalogueInv
<1> SUFFICES ASSUME NEW d \in Clerks, clerk[d].at \in {"stock", "price"}
             PROVE  LET p == clerk[d].product IN
                    item'[p].known /\ item'[p].stock = item[p].stock /\ item'[p].price = item[p].price
  BY DEF RowsLocked, ReadsTrue
<1>1. clerk[d].product \in Products /\ ~Unlocked(clerk[d].product) /\ item[clerk[d].product].known
  BY RequestOf DEF Pricing, Stocking, RowsLocked, Unlocked
<1> QED
  BY <1>1

LEMMA ActiveStep ==
  ASSUME CatalogueInv, NEW p \in Products, NEW a \in BOOLEAN,
         item' = [item EXCEPT ![p].active = a],
         UNCHANGED <<price_history, moved, taken, loss, imposed, unnoted, clerk, pushes>>, list' \in [Products -> Entry]
  PROVE  CatalogueInv'
<1> USE DEF CatalogueInv
<1>1. item[p] \in Item
  BY DEF Shape
<1>2. item' = [item EXCEPT ![p] = [item[p] EXCEPT !.active = a]]
  BY DEF Shape
<1>3. [item[p] EXCEPT !.active = a] \in Item
  BY <1>1 DEF Item
<1>4. \A q \in Products :
        item'[q].stock = item[q].stock /\ item'[q].price = item[q].price /\ item'[q].known = item[q].known
  BY <1>1, <1>2 DEF Shape, Item
<1>5. Shape'
  BY <1>2, <1>3 DEF Shape
<1>6. CatalogueTraced'
  BY <1>4 DEF CatalogueTraced
<1> QED
  BY <1>4, <1>5, <1>6, FreeRows

LEMMA PullStep ==
  ASSUME CatalogueInv, sync_pull_products
  PROVE  CatalogueInv'
<1> USE DEF CatalogueInv
<1>1. /\ list' = [p \in Products |->
            IF item[p].known /\ item[p].active THEN [known |-> TRUE, stock |-> item[p].stock] ELSE NotListed]
      /\ UNCHANGED <<item, journals, loss, clerk, pushes>>
  BY DEF sync_pull_products
<1>2. list' \in [Products -> Entry]
  BY <1>1, CatalogueAssumption DEF Shape, Item, Entry, NotListed
<1>3. Shape'
  BY <1>1, <1>2 DEF Shape, journals
<1>4. CatalogueTraced'
  BY <1>1 DEF CatalogueTraced, journals
<1> QED
  BY <1>1, <1>3, <1>4, FreeRows

\* A push writes over the stock; what it did to it is noted, and so is the price.
LEMMA PushStep ==
  ASSUME CatalogueInv, NEW p \in Products, NEW v \in Prices, sync_push(p, v)
  PROVE  CatalogueInv'
<1> USE DEF CatalogueInv
<1> DEFINE new == [item[p] EXCEPT !.price = v, !.stock = list[p].stock]
<1>1. /\ Unlocked(p) /\ Listed(p, new) /\ pushes < MaxPushes /\ pushes' = pushes + 1
      /\ UNCHANGED <<price_history, moved, taken, loss, list, clerk>>
  BY DEF sync_push
<1>2. new \in Item /\ new.known = item[p].known
  BY ZenonT(40) DEF Shape, Item, Entry
<1> HIDE DEF new
<1>3. /\ item' \in [Products -> Item] /\ imposed' \in [Products -> Int]
      /\ unnoted' \subseteq Products /\ CatalogueTraced'
  BY <1>1, <1>2, ListedTraced
<1>4. pushes' \in 0..MaxPushes
  BY <1>1, CatalogueAssumption DEF Shape
<1>5. Shape'
  BY <1>1, <1>3, <1>4 DEF Shape
<1>6. item' = [item EXCEPT ![p] = new]
  BY <1>1 DEF Listed
<1>7. ASSUME NEW q \in Products, item'[q] # item[q]
      PROVE  Unlocked(q) /\ (item[q].known => item'[q].known)
  <2>1. q = p
    BY <1>6, <1>7 DEF Shape
  <2> QED
    BY <1>1, <1>2, <1>6, <2>1 DEF Shape
<1> QED
  BY <1>1, <1>3, <1>5, <1>7, FreeRows

LEMMA PushDeletedStep ==
  ASSUME CatalogueInv, NEW p \in Products, sync_push_deleted(p)
  PROVE  CatalogueInv'
<1>1. /\ item' = [item EXCEPT ![p].active = FALSE] /\ list' = [list EXCEPT ![p] = NotListed]
      /\ UNCHANGED <<price_history, moved, taken, loss, imposed, unnoted, clerk, pushes>>
  BY DEF sync_push_deleted, journals
<1>2. NotListed \in Entry
  BY CatalogueAssumption DEF NotListed, Entry
<1> QED
  BY <1>1, <1>2, ActiveStep DEF CatalogueInv, Shape

-----------------------------------------------------------------------------
\* The requests that begin, each with the rows it locks.
LEMMA BeginningStep ==
  ASSUME CatalogueInv, NEW c \in Clerks,
         \/ \E l \in Losses : approve_merma(c, l)
         \/ \E p \in Products : \E change \in Changes : update_stock(c, p, change)
         \/ \E p \in Products : \E v \in Prices :
              update_price(c, p, v) \/ update_price_remote(c, p, v) \/ create_product(c, p, v, 1)
  PROVE  CatalogueInv'
<1> USE DEF CatalogueInv
<1>1. ASSUME NEW l \in Losses, approve_merma(c, l) PROVE CatalogueInv'
  <2> DEFINE t == [at |-> "loss", rows |-> {l}, loss |-> l]
  <2>1. Begins(c, t) /\ Unlocked(l) /\ loss[l] = "pending"
    BY <1>1 DEF approve_merma
  <2>2. t \in Request
    BY DEF Request, Judging
  <2> QED
    BY <2>1, <2>2, RequestBegins
<1>2. ASSUME NEW p \in Products, NEW change \in Changes, update_stock(c, p, change) PROVE CatalogueInv'
  <2> DEFINE t == [at |-> "stock", rows |-> {p}, product |-> p, change |-> change, saw |-> item[p].stock]
  <2>1. Begins(c, t) /\ Unlocked(p) /\ item[p].known
    BY <1>2 DEF update_stock
  <2>2. t \in Request
    BY DEF Request, Stocking, Shape, Item
  <2> QED
    BY <2>1, <2>2, RequestBegins
<1>3. ASSUME NEW p \in Products, NEW v \in Prices, update_price(c, p, v) \/ update_price_remote(c, p, v)
      PROVE  CatalogueInv'
  <2> DEFINE t == [at |-> "price", rows |-> {p}, product |-> p, old |-> item[p].price, new |-> v]
  <2>1. Begins(c, t) /\ Unlocked(p) /\ item[p].known
    BY <1>3 DEF update_price, update_price_remote
  <2>2. t \in Request
    BY DEF Request, Pricing, Shape, Item
  <2> QED
    BY <2>1, <2>2, RequestBegins
<1>4. ASSUME NEW p \in Products, NEW v \in Prices, create_product(c, p, v, 1) PROVE CatalogueInv'
  <2> DEFINE t == [at |-> "create", rows |-> {}, product |-> p, price |-> v, stock |-> 1]
  <2>1. Begins(c, t)
    BY <1>4 DEF create_product
  <2>2. t \in Request
    BY CatalogueAssumption DEF Request, Creating
  <2> QED
    BY <2>1, <2>2, RequestBegins
<1> QED
  BY <1>1, <1>2, <1>3, <1>4

LEMMA CatalogueStep == CatalogueInv /\ [CatalogueNext]_catalogue => CatalogueInv'
<1> SUFFICES ASSUME CatalogueInv, [CatalogueNext]_catalogue PROVE CatalogueInv'
  OBVIOUS
<1>1. ASSUME NEW c \in Clerks, RollsBack(c) PROVE CatalogueInv'
  BY <1>1, RollBackStep
<1>2. ASSUME NEW c \in Clerks, Created(c) PROVE CatalogueInv'
  BY <1>2, CreatedStep
<1>3. ASSUME NEW c \in Clerks, PriceWritten(c) PROVE CatalogueInv'
  BY <1>3, PriceStep
<1>4. ASSUME NEW c \in Clerks, StockWritten(c) PROVE CatalogueInv'
  BY <1>4, StockStep
<1>5. ASSUME NEW c \in Clerks, Rejected(c) PROVE CatalogueInv'
  BY <1>5, RejectStep
<1>6. ASSUME NEW c \in Clerks, Approved(c) PROVE CatalogueInv'
  BY <1>6, ApproveStep
<1>7. ASSUME NEW c \in Clerks, NEW p \in Products, NEW a \in BOOLEAN, SetsActive(c, p, a) PROVE CatalogueInv'
  BY <1>7, ActiveStep DEF SetsActive, journals, CatalogueInv, Shape
<1>8. ASSUME sync_pull_products PROVE CatalogueInv'
  BY <1>8, PullStep
<1>9. ASSUME NEW p \in Products, sync_push_deleted(p) PROVE CatalogueInv'
  BY <1>9, PushDeletedStep
<1>10. ASSUME NEW p \in Products, NEW v \in Prices, sync_push(p, v) PROVE CatalogueInv'
  BY <1>10, PushStep
<1>11. CASE UNCHANGED catalogue
  BY <1>11 DEF catalogue, CatalogueInv, Shape, RowsLocked, ReadsTrue, CatalogueTraced
<1> QED
  BY <1>1, <1>2, <1>3, <1>4, <1>5, <1>6, <1>7, <1>8, <1>9, <1>10, <1>11, BeginningStep DEF CatalogueNext

\* What a request read of a row it holds stays true until it writes, whoever else
\* prices, counts, approves or pushes: SELECT ... FOR UPDATE in products and mermas.
THEOREM CatalogueInvariant == CatalogueSpec => []CatalogueInv
BY CatalogueStart, CatalogueStep, PTL DEF CatalogueSpec

\* The journals explain the tables: movements the stock, price_history the price, and
\* a loss is taken from stock once, when it is approved.
THEOREM JournalsTrace == CatalogueSpec => []CatalogueTraced
BY CatalogueInvariant, PTL DEF CatalogueInv

\* No stock goes below zero, and no row leaves its type.
THEOREM CatalogueTypes == CatalogueSpec => []CatalogueTypeOK
<1>1. CatalogueInv => CatalogueTypeOK
  <2> SUFFICES ASSUME CatalogueInv PROVE CatalogueTypeOK
    OBVIOUS
  <2>1. \A c \in Clerks : clerk[c].at \in {"idle", "stock", "price", "loss", "create"}
                          /\ clerk[c].rows \subseteq Products \cup Losses
    BY DEF CatalogueInv, Shape, Request, Free, Creating, Pricing, Stocking, Judging
  <2> QED
    BY <2>1 DEF CatalogueTypeOK, CatalogueInv, Shape, Entry, HistoryRow
<1> QED
  BY <1>1, CatalogueInvariant, PTL

\* A loss that was approved or rejected stays so: its status was looked at under the
\* lock that the decision is written under.
THEOREM LossesSettle ==
  CatalogueSpec => [][\A l \in Losses : loss[l] # "pending" => loss'[l] = loss[l]]_catalogue
<1>1. ASSUME CatalogueInv, CatalogueNext, NEW l \in Losses, loss[l] # "pending"
      PROVE  loss'[l] = loss[l]
  <2>1. ASSUME NEW c \in Clerks, Rejected(c) \/ Approved(c) PROVE loss'[l] = loss[l]
    <3>1. clerk[c].at = "loss" /\ clerk[c].loss # l
      BY <1>1, <2>1 DEF Rejected, Approved, CatalogueInv, ReadsTrue
    <3>2. \E s \in {"approved", "rejected"} : loss' = [loss EXCEPT ![clerk[c].loss] = s]
      BY <2>1 DEF Rejected, Approved
    <3> QED
      BY <1>1, <3>1, <3>2 DEF CatalogueInv, Shape
  <2> QED
    BY ZenonT(40), <1>1, <2>1 DEF CatalogueNext, RollsBack, Created, PriceWritten, StockWritten, approve_merma, Begins,
       SetsActive, update_stock, update_price, update_price_remote, create_product, sync_pull_products,
       sync_push, sync_push_deleted
<1>2. CatalogueInv /\ [CatalogueNext]_catalogue
        => [\A l \in Losses : loss[l] # "pending" => loss'[l] = loss[l]]_catalogue
  BY <1>1
<1> QED
  BY <1>2, CatalogueInvariant, PTL DEF CatalogueSpec
=============================================================================
