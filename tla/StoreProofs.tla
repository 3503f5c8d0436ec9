----------------------------- MODULE StoreProofs -----------------------------
(***************************************************************************)
(* What the whole operations of Store guarantee, whatever the catalogue,   *)
(* the orders, the customers and the tills: each invariant is inductive    *)
(* together with TypeOK.  And that the handlers of StoreTx implement       *)
(* Store, for any number of connections, customers, products, orders and   *)
(* tills.                                                                  *)
(*                                                                         *)
(* The argument of the second is the one two-phase locking rests on.       *)
(* Whatever a handler checked or read is about rows it keeps locked until  *)
(* it ends (HoldsLocks); locks exclude each other (LocksExclude), so a     *)
(* step of another handler touches none of those rows (Untouched), and     *)
(* what was checked is still true at the commit (ChecksHold).  The commit  *)
(* is then an operation of Store.                                          *)
(***************************************************************************)
EXTENDS StoreTx, SequenceTheorems, FiniteSetTheorems, TLAPS

-----------------------------------------------------------------------------
(* Types                                                                   *)

LEMMA TypeInit == StoreInit => TypeOK
  BY CatalogueAssumption, OrdersAssumption, OpeningAssumption DEF StoreInit, TypeOK, SaleType

\* What one order does to each product is a number of units.
LEMMA Quantities ==
  ASSUME NEW o \in Orders, NEW p \in Products
  PROVE  /\ FromKit(o, p) \in Nat
         /\ Demand(o, p) \in Nat
         /\ Deducted(o, p) \in Nat
         /\ Restored(o, p) \in Nat
<1>1. o \in OrderType
  BY OrdersAssumption
<1>2. o.items[p] \in Nat /\ o.kits \in Nat /\ o.kit \in Kits
  BY <1>1 DEF OrderType
<1>3. Parts[o.kit][p] \in Nat
  BY <1>2, CatalogueAssumption
<1>4. FromKit(o, p) \in Nat
  BY <1>2, <1>3 DEF FromKit
<1> QED
  BY <1>2, <1>4 DEF Demand, Deducted, Restored

LEMMA TypeStep == TypeOK /\ [StoreNext]_store => TypeOK'
<1> SUFFICES ASSUME TypeOK, [StoreNext]_store PROVE TypeOK'
  OBVIOUS
<1> USE DEF TypeOK
<1>1. ASSUME NEW u \in Users, NEW term \in Terminals, OpenTurn(u, term) PROVE TypeOK'
  <2>1. turns' \in Seq(TurnType)
    BY <1>1 DEF OpenTurn, TurnType
  <2> QED BY <1>1, <2>1 DEF OpenTurn
<1>2. ASSUME NEW t \in DOMAIN turns, NEW counted \in SUBSET CashSales(t), CloseTurn(t, counted) PROVE TypeOK'
  <2>1. turns' \in Seq(TurnType)
    <3>1. counted \in SUBSET Nat
      BY <1>2 DEF CashSales
    <3>2. turns[t] \in TurnType
      BY ElementOfSeq
    <3>3. [turns[t] EXCEPT !.status = "closed", !.counted = counted, !.tally = turns[t].moves] \in TurnType
      BY <3>1, <3>2 DEF TurnType
    <3>4. turns' = [turns EXCEPT ![t] = [turns[t] EXCEPT !.status = "closed", !.counted = counted, !.tally = turns[t].moves]]
      BY <1>2, <3>2 DEF CloseTurn, TurnType
    <3> QED BY <3>3, <3>4, ExceptSeq
  <2> QED BY <1>2, <2>1 DEF CloseTurn
<1>3. ASSUME NEW t \in DOMAIN turns, MoveCash(t) PROVE TypeOK'
  <2>1. turns[t] \in TurnType
    BY ElementOfSeq
  <2>2. [turns[t] EXCEPT !.moves = @ + 1] \in TurnType
    <3>1. turns[t].moves + 1 \in Nat
      BY <2>1 DEF TurnType
    <3> QED
      BY <2>1, <3>1 DEF TurnType
  <2>3. turns' = [turns EXCEPT ![t] = [turns[t] EXCEPT !.moves = @ + 1]]
    BY <1>3, <2>1 DEF MoveCash, TurnType
  <2>4. turns' \in Seq(TurnType)
    BY <2>2, <2>3, ExceptSeq
  <2> QED
    BY <1>3, <2>4 DEF MoveCash
<1>4. ASSUME NEW t \in DOMAIN turns, NEW o \in Orders, Sell(o, t) PROVE TypeOK'
  <2> DEFINE st == <<SerieOf(o), turns[t].terminal>>
             new == [order |-> o, turn |-> t, terminal |-> turns[t].terminal,
                     number |-> last[st] + 1, status |-> "completed"]
  <2>1. o \in OrderType
    BY OrdersAssumption
  <2>2. turns[t].terminal \in Terminals
    <3>1. turns[t] \in TurnType
      BY ElementOfSeq
    <3> QED
      BY <3>1 DEF TurnType
  <2>3. st \in Series \X Terminals
    BY <2>1, <2>2 DEF SerieOf, OrderType, Series
  <2>4. sales' \in Seq(SaleType)
    BY <1>4, <2>2, <2>3 DEF Sell, SaleType
  <2>5. last' \in [Series \X Terminals -> Nat]
    BY <1>4, <2>3 DEF Sell
  <2>6. stock' \in [Products -> Int]
    BY <1>4, Quantities DEF Sell
  <2>7. credit' \in [Customers -> Nat]
    BY <1>4, <2>1, OrdersAssumption DEF Sell, OrderType
  <2>8. wallet' \in [Customers -> Int]
    BY <1>4, <2>1, OrdersAssumption DEF Sell, OrderType
  <2> QED
    BY <1>4, <2>4, <2>5, <2>6, <2>7, <2>8 DEF Sell
<1>5. ASSUME MoveUnassigned PROVE TypeOK'
  BY <1>5 DEF MoveUnassigned
<1>6. ASSUME NEW s \in DOMAIN sales, Cancel(s) PROVE TypeOK'
  <2> DEFINE o == sales[s].order
  <2>1. sales[s] \in SaleType /\ o \in Orders /\ o \in OrderType
    <3>1. sales[s] \in SaleType
      BY ElementOfSeq
    <3> QED
      BY <3>1, OrdersAssumption DEF SaleType
  <2>2. sales' \in Seq(SaleType)
    <3>1. [sales[s] EXCEPT !.status = "cancelled"] \in SaleType
      BY <2>1 DEF SaleType
    <3>2. sales' = [sales EXCEPT ![s] = [sales[s] EXCEPT !.status = "cancelled"]]
      BY <1>6 DEF Cancel
    <3> QED
      BY <3>1, <3>2, ExceptSeq
  <2>3. stock' \in [Products -> Int]
    BY <1>6, <2>1, Quantities DEF Cancel
  <2>4. credit' \in [Customers -> Nat]
    <3>1. \A b \in Nat : Relieved(b, o.amount) \in Nat
      BY <2>1 DEF OrderType, Relieved
    <3>2. ASSUME o.customer \in Customers
          PROVE  Relieved(credit[o.customer], o.amount) \in Nat
      BY <3>1, <3>2
    <3>3. credit' = credit \/ credit' = [credit EXCEPT ![o.customer] =
                                               Relieved(credit[o.customer], o.amount)]
      BY <1>6 DEF Cancel
    <3> QED
      BY <3>2, <3>3
  <2>5. wallet' \in [Customers -> Int]
    <3>1. o.amount \in Int
      BY <2>1 DEF OrderType
    <3>2. wallet' = wallet \/ wallet' = [wallet EXCEPT ![o.customer] = @ + o.amount]
      BY <1>6 DEF Cancel
    <3> QED
      BY <3>1, <3>2
  <2> QED
    BY <1>6, <2>2, <2>3, <2>4, <2>5 DEF Cancel
<1>7. ASSUME NEW p \in Products, NEW d \in Deltas, AdjustStock(p, d) PROVE TypeOK'
  BY <1>7, ChoicesAssumption DEF AdjustStock
<1>8. ASSUME NEW p \in Retirable, NEW b \in BOOLEAN, SetActive(p, b) PROVE TypeOK'
  BY <1>8 DEF SetActive
<1>9. ASSUME NEW c \in Customers, NEW v \in NewTerms, SetTerms(c, v) PROVE TypeOK'
  BY <1>9, ChoicesAssumption DEF SetTerms
<1>10. CASE UNCHANGED store
  BY <1>10 DEF store
<1> QED
  BY <1>1, <1>2, <1>3, <1>4, <1>5, <1>6, <1>7, <1>8, <1>9, <1>10 DEF StoreNext

\* Every table keeps its shape under every operation of the point of sale.
THEOREM StoreTypes == StoreSpec => []TypeOK
  BY TypeInit, TypeStep, PTL DEF StoreSpec

-----------------------------------------------------------------------------
(* Stock and wallets                                                       *)

LEMMA OverdrawnInit == StoreInit => NothingOverdrawn
  BY OpeningAssumption DEF StoreInit, NothingOverdrawn

\* A kit part that nobody may deactivate is always among the rows checked, and
\* what is not sold by weight is deducted exactly as it was demanded.
LEMMA OverdrawnStep ==
  TypeOK /\ NothingOverdrawn /\ [StoreNext]_store => NothingOverdrawn'
<1> SUFFICES ASSUME TypeOK, NothingOverdrawn, [StoreNext]_store PROVE NothingOverdrawn'
  OBVIOUS
<1> USE DEF NothingOverdrawn
<1>1. ASSUME NEW u \in Users, NEW term \in Terminals, OpenTurn(u, term)
      PROVE  NothingOverdrawn'
  BY <1>1 DEF OpenTurn
<1>2. ASSUME NEW t \in DOMAIN turns, NEW counted \in SUBSET CashSales(t), CloseTurn(t, counted)
      PROVE  NothingOverdrawn'
  BY <1>2 DEF CloseTurn
<1>3. ASSUME NEW t \in DOMAIN turns, MoveCash(t) PROVE NothingOverdrawn'
  BY <1>3 DEF MoveCash
<1>4. ASSUME NEW t \in DOMAIN turns, NEW o \in Orders, Sell(o, t) PROVE NothingOverdrawn'
  <2>1. ASSUME NEW p \in Products \ (Bulk \cup Fragile) PROVE stock'[p] >= 0
    <3>1. Demand(o, p) = Deducted(o, p) /\ Deducted(o, p) \in Nat
      BY Quantities DEF Demand, Deducted
    <3>2. Demand(o, p) > 0 => Demand(o, p) <= stock[p]
      BY <1>4, <2>1 DEF Sell, StockCovers
    <3>3. stock'[p] = stock[p] - Deducted(o, p)
      BY <1>4 DEF Sell
    <3> QED
      BY <3>1, <3>2, <3>3 DEF TypeOK
  <2>2. ASSUME NEW c \in Customers PROVE wallet'[c] >= 0
    <3>1. o.amount \in Nat
      BY OrdersAssumption DEF OrderType
    <3>2. CASE o.method # "credit" /\ MovesAccount(o)
      <4>1. o.amount <= wallet[o.customer]
        BY <1>4, <3>2 DEF Sell, AccountAllows
      <4>2. wallet' = [wallet EXCEPT ![o.customer] = @ - o.amount]
        BY <1>4, <3>2 DEF Sell
      <4> QED
        BY <3>1, <4>1, <4>2 DEF TypeOK
    <3>3. CASE ~(o.method # "credit" /\ MovesAccount(o))
      BY <1>4, <3>3 DEF Sell
    <3> QED
      BY <3>2, <3>3
  <2> QED
    BY <2>1, <2>2
<1>5. ASSUME MoveUnassigned PROVE NothingOverdrawn'
  BY <1>5 DEF MoveUnassigned
<1>6. ASSUME NEW s \in DOMAIN sales, Cancel(s) PROVE NothingOverdrawn'
  <2> DEFINE o == sales[s].order
  <2>1. o \in Orders /\ o \in OrderType
    <3>1. sales[s] \in SaleType
      BY ElementOfSeq DEF TypeOK
    <3> QED
      BY <3>1, OrdersAssumption DEF SaleType
  <2>2. ASSUME NEW p \in Products \ (Bulk \cup Fragile) PROVE stock'[p] >= 0
    <3>1. stock'[p] = stock[p] + Restored(o, p)
      BY <1>6 DEF Cancel
    <3>2. Restored(o, p) \in Nat
      BY <2>1, Quantities
    <3> QED
      BY <3>1, <3>2 DEF TypeOK
  <2>3. ASSUME NEW c \in Customers PROVE wallet'[c] >= 0
    <3>1. o.amount \in Nat
      BY <2>1 DEF OrderType
    <3>2. wallet \in [Customers -> Int] /\ wallet[c] \in Int /\ wallet[c] >= 0
      BY DEF TypeOK
    <3>3. CASE wallet' = wallet
      BY <3>2, <3>3
    <3>4. CASE wallet' = [wallet EXCEPT ![o.customer] = wallet[o.customer] + o.amount]
      BY <3>1, <3>2, <3>4
    <3> QED
      BY <1>6, <3>3, <3>4 DEF Cancel
  <2> QED
    BY <2>2, <2>3
<1>7. ASSUME NEW p \in Products, NEW d \in Deltas, AdjustStock(p, d) PROVE NothingOverdrawn'
  BY <1>7 DEF AdjustStock, TypeOK
<1>8. ASSUME NEW p \in Retirable, NEW b \in BOOLEAN, SetActive(p, b) PROVE NothingOverdrawn'
  BY <1>8 DEF SetActive
<1>9. ASSUME NEW c \in Customers, NEW v \in NewTerms, SetTerms(c, v) PROVE NothingOverdrawn'
  BY <1>9 DEF SetTerms
<1>10. CASE UNCHANGED store
  BY <1>10 DEF store
<1> QED
  BY <1>1, <1>2, <1>3, <1>4, <1>5, <1>6, <1>7, <1>8, <1>9, <1>10 DEF StoreNext

\* No sale takes more of a product sold by the unit than there is, and none
\* pays with money the wallet does not hold.
THEOREM StoreOverdrawn == StoreSpec => []NothingOverdrawn
  BY StoreTypes, OverdrawnInit, OverdrawnStep, PTL DEF StoreSpec

-----------------------------------------------------------------------------
(* Turns                                                                   *)

LEMMA CompleteInit == StoreInit => ClosedTurnsComplete
  BY OpeningAssumption DEF StoreInit, ClosedTurnsComplete

\* A sale or a cancellation that leaves turns alone keeps what closed turns
\* recorded complete, if a sale it adds is in a turn that is open.
LEMMA CompleteStep ==
  TypeOK /\ ClosedTurnsComplete /\ [StoreNext]_store => ClosedTurnsComplete'
<1> SUFFICES ASSUME TypeOK, ClosedTurnsComplete, [StoreNext]_store
             PROVE  ClosedTurnsComplete'
  OBVIOUS
<1> USE DEF ClosedTurnsComplete, CompletedCash, CashSales
<1>1. ASSUME NEW u \in Users, NEW term \in Terminals, OpenTurn(u, term)
      PROVE  ClosedTurnsComplete'
  <2>1. \A t \in DOMAIN turns' : turns'[t].status = "closed" =>
            t \in DOMAIN turns /\ turns'[t] = turns[t]
    BY <1>1 DEF OpenTurn, TypeOK
  <2> QED
    BY <1>1, <2>1 DEF OpenTurn
<1>2. ASSUME NEW t \in DOMAIN turns, NEW counted \in SUBSET CashSales(t), CloseTurn(t, counted)
      PROVE  ClosedTurnsComplete'
  <2>1. turns[t] \in TurnType
    BY ElementOfSeq DEF TypeOK
  <2>2. DOMAIN turns' = DOMAIN turns
    BY <1>2 DEF CloseTurn
  <2>3. turns'[t].counted = counted /\ turns'[t].tally = turns'[t].moves
    BY <1>2, <2>1 DEF CloseTurn, TurnType
  <2>4. \A i \in DOMAIN turns : i # t => turns'[i] = turns[i]
    BY <1>2 DEF CloseTurn
  <2>5. sales' = sales
    BY <1>2 DEF CloseTurn
  <2>6. CompletedCash(t) \subseteq counted /\ counted \subseteq CashSales(t)
    BY <1>2 DEF CloseTurn
  <2>7. ASSUME NEW i \in DOMAIN turns, turns'[i].status = "closed"
        PROVE  /\ CompletedCash(i) \subseteq turns'[i].counted
               /\ turns'[i].counted \subseteq CashSales(i)
               /\ turns'[i].tally = turns'[i].moves
    <3>1. CASE i = t
      BY <3>1, <2>3, <2>6
    <3>2. CASE i # t
      BY <3>2, <2>4, <2>7
    <3> QED
      BY <3>1, <3>2
  <2> QED
    BY ONLY <2>2, <2>5, <2>7
<1>3. ASSUME NEW t \in DOMAIN turns, MoveCash(t) PROVE ClosedTurnsComplete'
  <2>1. DOMAIN turns' = DOMAIN turns
    BY <1>3 DEF MoveCash
  <2>2. turns[t] \in TurnType
    BY ElementOfSeq DEF TypeOK
  <2>3. turns'[t].status = "open"
    BY <1>3, <2>2 DEF MoveCash, IsOpen, TurnType
  <2>4. \A i \in DOMAIN turns : i # t => turns'[i] = turns[i]
    BY <1>3 DEF MoveCash
  <2>5. sales' = sales
    BY <1>3 DEF MoveCash
  <2>6. ASSUME NEW i \in DOMAIN turns, turns'[i].status = "closed" PROVE turns'[i] = turns[i]
    BY <2>3, <2>4, <2>6
  <2> QED
    BY <2>1, <2>5, <2>6
<1>4. ASSUME NEW t \in DOMAIN turns, NEW o \in Orders, Sell(o, t) PROVE ClosedTurnsComplete'
  <2>1. turns' = turns /\ turns[t].status = "open"
    BY <1>4 DEF Sell, IsOpen
  <2>2. DOMAIN sales' = DOMAIN sales \cup {Len(sales) + 1}
    BY <1>4 DEF Sell, TypeOK
  <2>3. \A s \in DOMAIN sales : sales'[s] = sales[s]
    BY <1>4 DEF Sell, TypeOK
  <2>4. sales'[Len(sales) + 1].turn = t
    BY <1>4 DEF Sell, TypeOK
  <2>5. ASSUME NEW i \in DOMAIN turns, turns[i].status = "closed"
        PROVE  CashSales(i)' = CashSales(i) /\ CompletedCash(i)' = CompletedCash(i)
    BY <2>1, <2>2, <2>3, <2>4, <2>5
  <2> QED
    BY <2>1, <2>5
<1>5. ASSUME MoveUnassigned PROVE ClosedTurnsComplete'
  BY <1>5 DEF MoveUnassigned
<1>6. ASSUME NEW s \in DOMAIN sales, Cancel(s) PROVE ClosedTurnsComplete'
  <2>1. turns' = turns /\ DOMAIN sales' = DOMAIN sales
    BY <1>6 DEF Cancel
  <2>2. sales[s] \in SaleType
    BY ElementOfSeq DEF TypeOK
  <2>3. /\ sales'[s].order = sales[s].order
        /\ sales'[s].turn = sales[s].turn
        /\ sales[s].status = "completed"
    BY <1>6, <2>2 DEF Cancel, SaleType
  <2>4. \A i \in DOMAIN sales : i # s => sales'[i] = sales[i]
    BY <1>6 DEF Cancel
  <2>5. ASSUME NEW i \in DOMAIN turns
        PROVE  CashSales(i)' = CashSales(i) /\ CompletedCash(i)' \subseteq CompletedCash(i)
    BY <2>1, <2>3, <2>4
  <2> QED
    BY <2>1, <2>5
<1>7. ASSUME NEW p \in Products, NEW d \in Deltas, AdjustStock(p, d) PROVE ClosedTurnsComplete'
  BY <1>7 DEF AdjustStock
<1>8. ASSUME NEW p \in Retirable, NEW b \in BOOLEAN, SetActive(p, b) PROVE ClosedTurnsComplete'
  BY <1>8 DEF SetActive
<1>9. ASSUME NEW c \in Customers, NEW v \in NewTerms, SetTerms(c, v) PROVE ClosedTurnsComplete'
  BY <1>9 DEF SetTerms
<1>10. CASE UNCHANGED store
  BY <1>10 DEF store
<1> QED
  BY <1>1, <1>2, <1>3, <1>4, <1>5, <1>6, <1>7, <1>8, <1>9, <1>10 DEF StoreNext

\* What close_turn wrote down covers every cash sale that stands in the turn
\* and every movement of the turn, for ever after.
THEOREM StoreComplete == StoreSpec => []ClosedTurnsComplete
  BY StoreTypes, CompleteInit, CompleteStep, PTL DEF StoreSpec

\* A closed turn's row is never written again, and a sale is recorded in a turn
\* that is still open.
LEMMA FrozenStep ==
  ASSUME TypeOK, [StoreNext]_store
  PROVE  /\ \A t \in DOMAIN turns : turns[t].status = "closed" => turns'[t] = turns[t]
         /\ \A s \in DOMAIN sales' \ DOMAIN sales : IsOpen(sales'[s].turn)
<1> DEFINE Frozen == \A t \in DOMAIN turns : turns[t].status = "closed" => turns'[t] = turns[t]
           Opened == \A s \in DOMAIN sales' \ DOMAIN sales : IsOpen(sales'[s].turn)
<1>1. ASSUME NEW u \in Users, NEW term \in Terminals, OpenTurn(u, term)
      PROVE  Frozen /\ Opened
  BY <1>1 DEF OpenTurn, TypeOK
<1>2. ASSUME NEW t \in DOMAIN turns, NEW counted \in SUBSET CashSales(t), CloseTurn(t, counted)
      PROVE  Frozen /\ Opened
  BY <1>2 DEF CloseTurn, IsOpen
<1>3. ASSUME NEW t \in DOMAIN turns, MoveCash(t) PROVE Frozen /\ Opened
  BY <1>3 DEF MoveCash, IsOpen
<1>4. ASSUME NEW t \in DOMAIN turns, NEW o \in Orders, Sell(o, t) PROVE Frozen /\ Opened
  <2>1. turns' = turns /\ IsOpen(t)
    BY <1>4 DEF Sell
  <2>2. DOMAIN sales' = DOMAIN sales \cup {Len(sales) + 1}
    BY <1>4 DEF Sell, TypeOK
  <2>3. sales'[Len(sales) + 1].turn = t
    BY <1>4 DEF Sell, TypeOK
  <2> QED
    BY <2>1, <2>2, <2>3
<1>5. CASE MoveUnassigned
  BY <1>5 DEF MoveUnassigned
<1>6. ASSUME NEW s \in DOMAIN sales, Cancel(s) PROVE Frozen /\ Opened
  BY <1>6 DEF Cancel
<1>7. ASSUME NEW p \in Products, NEW d \in Deltas, AdjustStock(p, d) PROVE Frozen /\ Opened
  BY <1>7 DEF AdjustStock
<1>8. ASSUME NEW p \in Retirable, NEW b \in BOOLEAN, SetActive(p, b) PROVE Frozen /\ Opened
  BY <1>8 DEF SetActive
<1>9. ASSUME NEW c \in Customers, NEW v \in NewTerms, SetTerms(c, v) PROVE Frozen /\ Opened
  BY <1>9 DEF SetTerms
<1>10. CASE UNCHANGED store
  BY <1>10 DEF store
<1> QED
  BY <1>1, <1>2, <1>3, <1>4, <1>5, <1>6, <1>7, <1>8, <1>9, <1>10 DEF StoreNext

\* Nothing is added to a turn once it is closed.
THEOREM StoreFrozen == StoreSpec => ClosedTurnsFrozen
<1>1. TypeOK /\ [StoreNext]_store =>
        [ /\ \A t \in DOMAIN turns : turns[t].status = "closed" => turns'[t] = turns[t]
          /\ \A s \in DOMAIN sales' \ DOMAIN sales : IsOpen(sales'[s].turn) ]_store
  BY FrozenStep
<1> QED
  BY <1>1, StoreTypes, PTL DEF StoreSpec, ClosedTurnsFrozen

-----------------------------------------------------------------------------
(* Folios                                                                  *)

LEMMA FoliosInit == StoreInit => FoliosGapless
  BY OpeningAssumption DEF StoreInit, FoliosGapless

LEMMA FoliosStep == TypeOK /\ FoliosGapless /\ [StoreNext]_store => FoliosGapless'
<1> SUFFICES ASSUME TypeOK, FoliosGapless, [StoreNext]_store PROVE FoliosGapless'
  OBVIOUS
<1> DEFINE Issued(st) == { s \in DOMAIN sales : Sequence(s) = st }
           Gapless(st) ==
             /\ { sales[s].number : s \in Issued(st) } = 1 .. last[st]
             /\ \A s, u \in Issued(st) : sales[s].number = sales[u].number => s = u
<1> USE DEF Sequence
<1>1. \A st \in Series \X Terminals : Gapless(st)
  BY DEF FoliosGapless
<1>2. CASE sales' = sales /\ last' = last
  BY <1>2 DEF FoliosGapless
<1>3. ASSUME NEW t \in DOMAIN turns, NEW o \in Orders, Sell(o, t) PROVE FoliosGapless'
  <2> DEFINE q == <<SerieOf(o), turns[t].terminal>>
             n == Len(sales) + 1
  <2>1. q \in Series \X Terminals
    <3>1. turns[t] \in TurnType /\ o \in OrderType
      BY ElementOfSeq, OrdersAssumption DEF TypeOK
    <3> QED
      BY <3>1 DEF TurnType, OrderType, SerieOf, Series
  <2>2. DOMAIN sales' = DOMAIN sales \cup {n} /\ n \notin DOMAIN sales
    BY <1>3 DEF Sell, TypeOK
  <2>3. \A s \in DOMAIN sales : sales'[s] = sales[s]
    BY <1>3 DEF Sell, TypeOK
  <2>4. /\ sales'[n].number = last[q] + 1
        /\ sales'[n].order = o
        /\ sales'[n].terminal = turns[t].terminal
    BY <1>3 DEF Sell, TypeOK
  <2>5. last[q] \in Nat /\ last'[q] = last[q] + 1
    BY <1>3, <2>1 DEF Sell, TypeOK
  <2>6. \A st \in Series \X Terminals : st # q => last'[st] = last[st]
    BY <1>3 DEF Sell, TypeOK
  <2>7. ASSUME NEW st \in Series \X Terminals, st # q PROVE Gapless(st)'
    <3>1. Issued(st)' = Issued(st)
      BY <2>2, <2>3, <2>4, <2>7
    <3> QED
      BY <1>1, <2>3, <2>6, <2>7, <3>1
  <2>8. ASSUME NEW st, st = q PROVE Gapless(st)'
    <3>1. Issued(st)' = Issued(st) \cup {n}
      BY <2>2, <2>3, <2>4, <2>8
    <3>2. { sales'[s].number : s \in Issued(st)' } = (1 .. last[st]) \cup {last[st] + 1}
      BY <1>1, <2>1, <2>3, <2>4, <2>8, <3>1
    <3>3. (1 .. last[st]) \cup {last[st] + 1} = 1 .. last'[st]
      BY <2>5, <2>8
    <3>4. \A s \in Issued(st) : sales'[s].number \in 1 .. last[st]
      BY <1>1, <2>1, <2>3, <2>8
    <3>5. \A s, u \in Issued(st)' : sales'[s].number = sales'[u].number => s = u
      BY <1>1, <2>1, <2>3, <2>4, <2>5, <2>8, <3>1, <3>4
    <3> QED
      BY <3>2, <3>3, <3>5
  <2> QED
    BY <2>7, <2>8 DEF FoliosGapless
<1>4. ASSUME NEW s \in DOMAIN sales, Cancel(s) PROVE FoliosGapless'
  <2>1. sales[s] \in SaleType
    BY ElementOfSeq DEF TypeOK
  <2>2. DOMAIN sales' = DOMAIN sales /\ last' = last
    BY <1>4 DEF Cancel
  <2>3. \A i \in DOMAIN sales : /\ sales'[i].number = sales[i].number
                               /\ sales'[i].order = sales[i].order
                               /\ sales'[i].terminal = sales[i].terminal
    BY <1>4, <2>1 DEF Cancel, SaleType
  <2>4. ASSUME NEW st \in Series \X Terminals PROVE Gapless(st)'
    <3>1. Issued(st)' = Issued(st)
      BY <2>2, <2>3
    <3> QED
      BY <1>1, <2>2, <2>3, <3>1
  <2> QED
    BY <2>4 DEF FoliosGapless
<1> QED
  BY <1>2, <1>3, <1>4 DEF StoreNext, store, OpenTurn, CloseTurn, MoveCash, MoveUnassigned,
     AdjustStock, SetActive, SetTerms

\* The folios of a serie on a terminal are 1, 2, ..., ultimo_numero, once each.
THEOREM StoreFolios == StoreSpec => []FoliosGapless
  BY StoreTypes, FoliosInit, FoliosStep, PTL DEF StoreSpec

-----------------------------------------------------------------------------
(* Credit                                                                  *)

LEMMA ChargesStep ==
  ASSUME TypeOK, [StoreNext]_store, NEW c \in Customers, credit'[c] > credit[c]
  PROVE  terms[c] = 0 \/ (terms[c] > 0 /\ credit'[c] <= terms[c])
<1>1. ASSUME NEW t \in DOMAIN turns, NEW o \in Orders, Sell(o, t)
      PROVE  terms[c] = 0 \/ (terms[c] > 0 /\ credit'[c] <= terms[c])
  <2>1. CASE o.method = "credit"
    <3>1. MovesAccount(o) /\ o.customer \in Customers /\ o.amount \in Nat
      BY <2>1, OrdersAssumption DEF OrderType
    <3>2. credit' = [credit EXCEPT ![o.customer] = @ + o.amount]
      BY <1>1, <2>1 DEF Sell
    <3>3. c = o.customer
      BY <3>2 DEF TypeOK
    <3>4. AccountAllows(o)
      BY <1>1, <3>1 DEF Sell
    <3>5. terms[c] \in TermsType
      BY DEF TypeOK
    <3> QED
      BY <2>1, <3>2, <3>3, <3>4, <3>5 DEF AccountAllows, TypeOK, TermsType, Inactive, NoCredit
  <2>2. CASE o.method # "credit"
    BY <1>1, <2>2 DEF Sell, TypeOK
  <2> QED
    BY <2>1, <2>2
<1>2. ASSUME NEW s \in DOMAIN sales, Cancel(s) PROVE FALSE
  <2> DEFINE o == sales[s].order
  <2>1. o.amount \in Nat
    <3>1. sales[s] \in SaleType
      BY ElementOfSeq DEF TypeOK
    <3> QED
      BY <3>1, OrdersAssumption DEF SaleType, OrderType
  <2>2. credit' = credit \/ credit' = [credit EXCEPT ![o.customer] = Relieved(credit[o.customer], o.amount)]
    BY <1>2 DEF Cancel
  <2>3. Relieved(credit[c], o.amount) \in Nat /\ Relieved(credit[c], o.amount) <= credit[c]
    BY <2>1 DEF TypeOK, Relieved
  <2>4. credit[c] \in Nat /\ credit'[c] \in {credit[c], Relieved(credit[c], o.amount)}
    BY <2>2 DEF TypeOK
  <2> QED
    BY <2>3, <2>4
<1>3. CASE credit' = credit
  BY <1>3 DEF TypeOK
<1> QED
  BY <1>1, <1>2, <1>3 DEF StoreNext, store, OpenTurn, CloseTurn, MoveCash, MoveUnassigned,
     AdjustStock, SetActive, SetTerms

\* No charge takes a customer beyond the credit they have at that instant.
THEOREM StoreCharges == StoreSpec => ChargesWithinTerms
<1>1. TypeOK /\ [StoreNext]_store =>
        [ \A c \in Customers : credit'[c] > credit[c] =>
            terms[c] = 0 \/ (terms[c] > 0 /\ credit'[c] <= terms[c]) ]_store
  BY ChargesStep
<1> QED
  BY <1>1, StoreTypes, PTL DEF StoreSpec, ChargesWithinTerms
-----------------------------------------------------------------------------
(* Sums                                                                    *)

\* Units of x join units of others.
LEMMA UnitsJoin ==
  ASSUME NEW R, IsFiniteSet(R), NEW x, NEW n \in Nat, R \cap ({x} \X (1 .. n)) = {}
  PROVE  /\ IsFiniteSet(R \cup ({x} \X (1 .. n)))
         /\ Cardinality(R \cup ({x} \X (1 .. n))) = Cardinality(R) + n
<1> DEFINE X == {x} \X (1 .. n)
<1>1. IsFiniteSet({x}) /\ Cardinality({x}) = 1
  BY FS_Singleton
<1>2. IsFiniteSet(1 .. n) /\ Cardinality(1 .. n) = n
  BY FS_Interval
<1>3. IsFiniteSet(X) /\ Cardinality(X) = Cardinality({x}) * Cardinality(1 .. n)
  BY <1>1, <1>2, FS_Product
<1>4. Cardinality(X) = n
  BY <1>1, <1>2, <1>3
<1>5. R \cap X = {} /\ Cardinality(R \cap X) = 0
  BY FS_EmptySet
<1>6. /\ IsFiniteSet(R \cup X)
      /\ Cardinality(R \cup X) = Cardinality(R) + Cardinality(X) - Cardinality(R \cap X)
  BY <1>3, FS_Union
<1>7. Cardinality(R) \in Nat
  BY FS_CardinalityType
<1> QED
  BY <1>4, <1>5, <1>6, <1>7

\* Nothing sums up to nothing.
LEMMA TotalOfNone ==
  ASSUME NEW f, DOMAIN f = {}
  PROVE  IsFiniteSet(Units(f)) /\ Total(f) = 0
<1>1. Units(f) = {}
  BY DEF Units
<1> QED
  BY <1>1, FS_EmptySet DEF Total

\* One more value adds itself to the sum.
LEMMA TotalGrows ==
  ASSUME NEW f, IsFiniteSet(Units(f)), NEW g, NEW x, x \notin DOMAIN f,
         DOMAIN g = DOMAIN f \cup {x}, \A y \in DOMAIN f : g[y] = f[y], g[x] \in Nat
  PROVE  IsFiniteSet(Units(g)) /\ Total(g) = Total(f) + g[x]
<1>1. Units(g) = Units(f) \cup ({x} \X (1 .. g[x]))
  BY DEF Units
<1>2. Units(f) \cap ({x} \X (1 .. g[x])) = {}
  BY DEF Units
<1>3. /\ IsFiniteSet(Units(f) \cup ({x} \X (1 .. g[x])))
      /\ Cardinality(Units(f) \cup ({x} \X (1 .. g[x]))) = Cardinality(Units(f)) + g[x]
  BY <1>2, UnitsJoin
<1> QED
  BY <1>1, <1>3 DEF Total

\* A value that changes changes the sum by as much, and is a part of it.
LEMMA TotalChanges ==
  ASSUME NEW f, IsFiniteSet(Units(f)), NEW g, NEW x \in DOMAIN f, DOMAIN g = DOMAIN f,
         \A y \in DOMAIN f : y # x => g[y] = f[y], f[x] \in Nat, g[x] \in Nat
  PROVE  /\ IsFiniteSet(Units(g))
         /\ Total(g) = Total(f) - f[x] + g[x]
         /\ f[x] <= Total(f)
<1> DEFINE R == Units(f) \ ({x} \X (1 .. f[x]))
<1>1. IsFiniteSet(R)
  BY FS_Difference
<1>2. Cardinality(R) \in Nat
  BY <1>1, FS_CardinalityType
<1>3. /\ Units(f) = R \cup ({x} \X (1 .. f[x]))
      /\ R \cap ({x} \X (1 .. f[x])) = {}
  BY DEF Units
<1>4. R = UNION { {y} \X (1 .. f[y]) : y \in DOMAIN f \ {x} }
  BY DEF Units
<1>5. /\ Units(g) = R \cup ({x} \X (1 .. g[x]))
      /\ R \cap ({x} \X (1 .. g[x])) = {}
  BY <1>4 DEF Units
<1> HIDE DEF R
<1>6. Total(f) = Cardinality(R) + f[x]
  <2>1. Cardinality(R \cup ({x} \X (1 .. f[x]))) = Cardinality(R) + f[x]
    BY <1>1, <1>3, UnitsJoin
  <2> QED
    BY <1>3, <2>1 DEF Total
<1>7. IsFiniteSet(Units(g)) /\ Total(g) = Cardinality(R) + g[x]
  <2>1. /\ IsFiniteSet(R \cup ({x} \X (1 .. g[x])))
        /\ Cardinality(R \cup ({x} \X (1 .. g[x]))) = Cardinality(R) + g[x]
    BY <1>1, <1>5, UnitsJoin
  <2> QED
    BY <1>5, <2>1 DEF Total
<1> QED
  BY <1>2, <1>6, <1>7
-----------------------------------------------------------------------------
(* The ledger                                                              *)

\* The units of a product that sales took and cancellations put back are
\* finitely many, and account for its stock.
Balanced(p) ==
    /\ IsFiniteSet(Units(Took(p)))
    /\ IsFiniteSet(Units(GaveBack(p)))
    /\ stock[p] = adjusted[p] - Total(Took(p)) + Total(GaveBack(p))

\* So are those of a customer's sales that stand, and account for what they owe
\* and have.
Reconciled(c) ==
    /\ IsFiniteSet(Units(Owes(c)))
    /\ IsFiniteSet(Units(Spent(c)))
    /\ credit[c] = Total(Owes(c))
    /\ wallet[c] = InitWallet[c] - Total(Spent(c))

Ledger == (\A p \in Products : Balanced(p)) /\ (\A c \in Customers : Reconciled(c))

\* A sum of finitely many units is a number.
LEMMA TotalIsNat ==
  ASSUME NEW f, IsFiniteSet(Units(f))
  PROVE  Total(f) \in Nat
  BY FS_CardinalityType DEF Total

LEMMA LedgerInit == StoreInit => Ledger
<1> SUFFICES ASSUME StoreInit PROVE Ledger
  OBVIOUS
<1>1. DOMAIN sales = {}
  BY DEF StoreInit
<1>2. ASSUME NEW p \in Products PROVE Balanced(p)
  <2>1. DOMAIN Took(p) = {} /\ DOMAIN GaveBack(p) = {}
    BY <1>1 DEF Took, GaveBack
  <2>2. stock[p] = adjusted[p] /\ adjusted[p] \in Nat
    BY OpeningAssumption DEF StoreInit
  <2> QED
    BY <2>1, <2>2, TotalOfNone DEF Balanced
<1>3. ASSUME NEW c \in Customers PROVE Reconciled(c)
  <2>1. DOMAIN Owes(c) = {} /\ DOMAIN Spent(c) = {}
    BY <1>1 DEF Owes, Spent
  <2>2. credit[c] = 0 /\ wallet[c] = InitWallet[c] /\ InitWallet[c] \in Nat
    BY OpeningAssumption DEF StoreInit
  <2> QED
    BY <2>1, <2>2, TotalOfNone DEF Reconciled
<1> QED
  BY <1>2, <1>3 DEF Ledger

\* A sale is one more entry, completed, in every one of the four sums.
LEMMA SaleEntered ==
  ASSUME TypeOK, NEW t \in DOMAIN turns, NEW o \in Orders, Sell(o, t)
  PROVE  /\ DOMAIN sales' = DOMAIN sales \cup {Len(sales) + 1}
         /\ Len(sales) + 1 \notin DOMAIN sales
         /\ \A s \in DOMAIN sales : sales'[s] = sales[s]
         /\ sales'[Len(sales) + 1].order = o
         /\ sales'[Len(sales) + 1].status = "completed"
  BY DEF Sell, TypeOK

\* What a sale takes of a product it takes of the stock.
LEMMA SaleBalances ==
  ASSUME TypeOK, NEW t \in DOMAIN turns, NEW o \in Orders, Sell(o, t),
         NEW p \in Products, Balanced(p)
  PROVE  Balanced(p)'
<1> DEFINE n == Len(sales) + 1
<1> HIDE DEF n
<1>1. /\ DOMAIN sales' = DOMAIN sales \cup {n}
      /\ n \notin DOMAIN sales
      /\ \A s \in DOMAIN sales : sales'[s] = sales[s]
      /\ sales'[n].order = o
      /\ sales'[n].status = "completed"
  BY SaleEntered DEF n
<1>2. Deducted(o, p) \in Nat
  BY Quantities
<1>3. /\ DOMAIN Took(p)' = DOMAIN Took(p) \cup {n}
      /\ n \notin DOMAIN Took(p)
      /\ \A s \in DOMAIN Took(p) : Took(p)'[s] = Took(p)[s]
      /\ Took(p)'[n] = Deducted(o, p)
  BY <1>1 DEF Took, Deducted, FromKit
<1>4. IsFiniteSet(Units(Took(p)')) /\ Total(Took(p)') = Total(Took(p)) + Deducted(o, p)
  BY <1>2, <1>3, TotalGrows DEF Balanced
<1>5. /\ DOMAIN GaveBack(p)' = DOMAIN GaveBack(p) \cup {n}
      /\ n \notin DOMAIN GaveBack(p)
      /\ \A s \in DOMAIN GaveBack(p) : GaveBack(p)'[s] = GaveBack(p)[s]
      /\ GaveBack(p)'[n] = 0
  BY <1>1 DEF GaveBack, Restored, Deducted, FromKit
<1>6. IsFiniteSet(Units(GaveBack(p)')) /\ Total(GaveBack(p)') = Total(GaveBack(p)) + 0
  BY <1>5, TotalGrows DEF Balanced
<1>7. stock'[p] = stock[p] - Deducted(o, p) /\ adjusted' = adjusted
  BY DEF Sell
<1>8. /\ stock[p] \in Int /\ adjusted[p] \in Int
      /\ Total(Took(p)) \in Nat /\ Total(GaveBack(p)) \in Nat
  BY TotalIsNat DEF TypeOK, Balanced
<1> QED
  BY <1>2, <1>4, <1>6, <1>7, <1>8 DEF Balanced

\* What a sale moves on its customer's account it moves on one of the two
\* balances, by its method; other customers' sums get a zero.
LEMMA SaleReconciles ==
  ASSUME TypeOK, NEW t \in DOMAIN turns, NEW o \in Orders, Sell(o, t),
         NEW c \in Customers, Reconciled(c)
  PROVE  Reconciled(c)'
<1> DEFINE n == Len(sales) + 1
           due == IF o.customer = c /\ o.method = "credit" THEN o.amount ELSE 0
           paid == IF o.customer = c /\ o.method # "credit" THEN o.amount ELSE 0
<1> HIDE DEF n
<1>1. /\ DOMAIN sales' = DOMAIN sales \cup {n}
      /\ n \notin DOMAIN sales
      /\ \A s \in DOMAIN sales : sales'[s] = sales[s]
      /\ sales'[n].order = o
      /\ sales'[n].status = "completed"
  BY SaleEntered DEF n
<1>2. o.amount \in Nat /\ due \in Nat /\ paid \in Nat
  BY OrdersAssumption DEF OrderType
<1>3. /\ DOMAIN Owes(c)' = DOMAIN Owes(c) \cup {n}
      /\ n \notin DOMAIN Owes(c)
      /\ \A s \in DOMAIN Owes(c) : Owes(c)'[s] = Owes(c)[s]
      /\ Owes(c)'[n] = due
  BY <1>1 DEF Owes, Stands
<1>4. /\ DOMAIN Spent(c)' = DOMAIN Spent(c) \cup {n}
      /\ n \notin DOMAIN Spent(c)
      /\ \A s \in DOMAIN Spent(c) : Spent(c)'[s] = Spent(c)[s]
      /\ Spent(c)'[n] = paid
  BY <1>1 DEF Spent, Stands
<1>5. credit'[c] = credit[c] + due
  <2>1. CASE o.method = "credit"
    BY <1>2, <2>1 DEF Sell, TypeOK
  <2>2. CASE o.method # "credit"
    BY <2>2 DEF Sell, TypeOK
  <2> QED
    BY <2>1, <2>2
<1>6. wallet'[c] = wallet[c] - paid
  <2>1. CASE o.method # "credit" /\ MovesAccount(o)
    BY <1>2, <2>1 DEF Sell, TypeOK
  <2>2. CASE ~(o.method # "credit" /\ MovesAccount(o))
    <3>1. wallet' = wallet
      BY <2>2 DEF Sell
    <3>2. paid = 0
      BY <1>2, <2>2 DEF MovesAccount
    <3> QED
      BY <3>1, <3>2 DEF TypeOK
  <2> QED
    BY <2>1, <2>2
<1> HIDE DEF due, paid
<1>7. IsFiniteSet(Units(Owes(c)')) /\ Total(Owes(c)') = Total(Owes(c)) + due
  BY <1>2, <1>3, TotalGrows DEF Reconciled
<1>8. IsFiniteSet(Units(Spent(c)')) /\ Total(Spent(c)') = Total(Spent(c)) + paid
  BY <1>2, <1>4, TotalGrows DEF Reconciled
<1>9. Total(Owes(c)) \in Nat /\ Total(Spent(c)) \in Nat /\ InitWallet[c] \in Nat
  BY TotalIsNat, OpeningAssumption DEF Reconciled
<1> QED
  BY <1>2, <1>5, <1>6, <1>7, <1>8, <1>9 DEF Reconciled

\* A cancellation changes the status of one sale, which stood.
LEMMA SaleStruck ==
  ASSUME TypeOK, NEW s \in DOMAIN sales, Cancel(s)
  PROVE  /\ sales[s].order \in Orders
         /\ sales[s].status = "completed"
         /\ DOMAIN sales' = DOMAIN sales
         /\ \A i \in DOMAIN sales : i # s => sales'[i] = sales[i]
         /\ sales'[s].order = sales[s].order
         /\ sales'[s].status = "cancelled"
<1>1. sales[s] \in SaleType
  BY ElementOfSeq DEF TypeOK
<1> QED
  BY <1>1 DEF Cancel, SaleType

\* What a cancellation puts back, it puts back once.
LEMMA CancelBalances ==
  ASSUME TypeOK, NEW s \in DOMAIN sales, Cancel(s), NEW p \in Products, Balanced(p)
  PROVE  Balanced(p)'
<1> DEFINE o == sales[s].order
           back == Restored(o, p)
<1>1. /\ o \in Orders
      /\ sales[s].status = "completed"
      /\ DOMAIN sales' = DOMAIN sales
      /\ \A i \in DOMAIN sales : i # s => sales'[i] = sales[i]
      /\ sales'[s].order = o
      /\ sales'[s].status = "cancelled"
  BY SaleStruck
<1>2. back \in Nat
  BY <1>1, Quantities
<1>3. Took(p)' = Took(p)
  BY <1>1 DEF Took, Deducted, FromKit
<1>4. /\ s \in DOMAIN GaveBack(p)
      /\ DOMAIN GaveBack(p)' = DOMAIN GaveBack(p)
      /\ \A i \in DOMAIN GaveBack(p) : i # s => GaveBack(p)'[i] = GaveBack(p)[i]
      /\ GaveBack(p)[s] = 0
      /\ GaveBack(p)'[s] = back
  BY <1>1 DEF GaveBack, Restored, Deducted, FromKit
<1>5. stock'[p] = stock[p] + back /\ adjusted' = adjusted
  BY DEF Cancel
<1> HIDE DEF back
<1>6. IsFiniteSet(Units(GaveBack(p)')) /\ Total(GaveBack(p)') = Total(GaveBack(p)) - 0 + back
  BY <1>2, <1>4, TotalChanges DEF Balanced
<1>7. IsFiniteSet(Units(Took(p)')) /\ Total(Took(p)') = Total(Took(p))
  BY <1>3 DEF Balanced, Units, Total
<1>8. /\ stock[p] \in Int /\ adjusted[p] \in Int
      /\ Total(Took(p)) \in Nat /\ Total(GaveBack(p)) \in Nat
  BY TotalIsNat DEF TypeOK, Balanced
<1> QED
  BY <1>2, <1>5, <1>6, <1>7, <1>8 DEF Balanced

\* A cancellation takes off a balance what the sale put there.  The floor of
\* credit_balance at zero is never met: the amount is a part of what is owed.
LEMMA CancelReconciles ==
  ASSUME TypeOK, NEW s \in DOMAIN sales, Cancel(s), NEW c \in Customers, Reconciled(c)
  PROVE  Reconciled(c)'
<1> DEFINE o == sales[s].order
           due == IF o.customer = c /\ o.method = "credit" THEN o.amount ELSE 0
           paid == IF o.customer = c /\ o.method # "credit" THEN o.amount ELSE 0
<1>1. /\ o \in Orders
      /\ sales[s].status = "completed"
      /\ DOMAIN sales' = DOMAIN sales
      /\ \A i \in DOMAIN sales : i # s => sales'[i] = sales[i]
      /\ sales'[s].order = o
      /\ sales'[s].status = "cancelled"
  BY SaleStruck
<1>2. o.amount \in Nat /\ due \in Nat /\ paid \in Nat
  BY <1>1, OrdersAssumption DEF OrderType
<1>3. /\ s \in DOMAIN Owes(c)
      /\ DOMAIN Owes(c)' = DOMAIN Owes(c)
      /\ \A i \in DOMAIN Owes(c) : i # s => Owes(c)'[i] = Owes(c)[i]
      /\ Owes(c)[s] = due
      /\ Owes(c)'[s] = 0
  BY <1>1 DEF Owes, Stands
<1>4. /\ s \in DOMAIN Spent(c)
      /\ DOMAIN Spent(c)' = DOMAIN Spent(c)
      /\ \A i \in DOMAIN Spent(c) : i # s => Spent(c)'[i] = Spent(c)[i]
      /\ Spent(c)[s] = paid
      /\ Spent(c)'[s] = 0
  BY <1>1 DEF Spent, Stands
<1>5. /\ IsFiniteSet(Units(Owes(c)'))
      /\ Total(Owes(c)') = Total(Owes(c)) - due + 0
      /\ due <= Total(Owes(c))
  <2> HIDE DEF due
  <2> QED
    BY <1>2, <1>3, TotalChanges DEF Reconciled
<1>6. /\ IsFiniteSet(Units(Spent(c)'))
      /\ Total(Spent(c)') = Total(Spent(c)) - paid + 0
  <2> HIDE DEF paid
  <2> QED
    BY <1>2, <1>4, TotalChanges DEF Reconciled
<1>7. due <= credit[c] /\ credit[c] \in Nat /\ wallet[c] \in Int
  BY <1>5 DEF Reconciled, TypeOK
<1>8. credit'[c] = credit[c] - due
  <2>1. CASE o.method = "credit" /\ o.customer = c
    <3>1. credit'[c] = Relieved(credit[c], o.amount) /\ due = o.amount
      BY <2>1 DEF Cancel, TypeOK
    <3> QED
      BY <1>2, <1>7, <3>1 DEF Relieved
  <2>2. CASE o.method = "credit" /\ o.customer # c
    <3>1. credit'[c] = credit[c] /\ due = 0
      BY <2>2 DEF Cancel, TypeOK
    <3> QED
      BY <1>7, <3>1
  <2>3. CASE o.method # "credit"
    <3>1. credit'[c] = credit[c] /\ due = 0
      BY <2>3 DEF Cancel, TypeOK
    <3> QED
      BY <1>7, <3>1
  <2> QED
    BY <2>1, <2>2, <2>3
<1>9. wallet'[c] = wallet[c] + paid
  <2>1. CASE o.method # "credit" /\ MovesAccount(o)
    BY <1>2, <2>1 DEF Cancel, TypeOK
  <2>2. CASE ~(o.method # "credit" /\ MovesAccount(o))
    <3>1. wallet' = wallet
      BY <2>2 DEF Cancel
    <3>2. paid = 0
      BY <1>2, <2>2 DEF MovesAccount
    <3> QED
      BY <1>7, <3>1, <3>2
  <2> QED
    BY <2>1, <2>2
<1> HIDE DEF due, paid
<1>10. Total(Owes(c)) \in Nat /\ Total(Spent(c)) \in Nat /\ InitWallet[c] \in Nat
  BY TotalIsNat, OpeningAssumption DEF Reconciled
<1> QED
  BY <1>2, <1>5, <1>6, <1>8, <1>9, <1>10 DEF Reconciled

\* Where neither sales nor balances change, nor do the sums.
LEMMA LedgerLeft ==
  ASSUME Ledger, UNCHANGED <<sales, stock, adjusted, credit, wallet>>
  PROVE  Ledger'
<1>1. ASSUME NEW p \in Products PROVE Balanced(p)'
  <2>1. Took(p)' = Took(p) /\ GaveBack(p)' = GaveBack(p)
    BY DEF Took, GaveBack, Deducted, Restored, FromKit
  <2> QED
    BY <2>1 DEF Ledger, Balanced
<1>2. ASSUME NEW c \in Customers PROVE Reconciled(c)'
  <2>1. Owes(c)' = Owes(c) /\ Spent(c)' = Spent(c)
    BY DEF Owes, Spent, Stands
  <2> QED
    BY <2>1 DEF Ledger, Reconciled
<1> QED
  BY <1>1, <1>2 DEF Ledger

LEMMA LedgerStep == TypeOK /\ Ledger /\ [StoreNext]_store => Ledger'
<1> SUFFICES ASSUME TypeOK, Ledger, [StoreNext]_store PROVE Ledger'
  OBVIOUS
<1>1. ASSUME NEW t \in DOMAIN turns, NEW o \in Orders, Sell(o, t) PROVE Ledger'
  BY <1>1, SaleBalances, SaleReconciles DEF Ledger
<1>2. ASSUME NEW s \in DOMAIN sales, Cancel(s) PROVE Ledger'
  BY <1>2, CancelBalances, CancelReconciles DEF Ledger
<1>3. ASSUME NEW q \in Products, NEW d \in Deltas, AdjustStock(q, d) PROVE Ledger'
  <2>1. UNCHANGED <<sales, credit, wallet>>
    BY <1>3 DEF AdjustStock
  <2>2. ASSUME NEW c \in Customers PROVE Reconciled(c)'
    <3>1. Owes(c)' = Owes(c) /\ Spent(c)' = Spent(c)
      BY <2>1 DEF Owes, Spent, Stands
    <3> QED
      BY <2>1, <3>1 DEF Ledger, Reconciled
  <2>3. ASSUME NEW p \in Products PROVE Balanced(p)'
    <3>1. Balanced(p)
      BY DEF Ledger
    <3>2. Took(p)' = Took(p) /\ GaveBack(p)' = GaveBack(p)
      BY <2>1 DEF Took, GaveBack, Deducted, Restored, FromKit
    <3>3. /\ IsFiniteSet(Units(Took(p)')) /\ IsFiniteSet(Units(GaveBack(p)'))
          /\ Total(Took(p)') = Total(Took(p)) /\ Total(GaveBack(p)') = Total(GaveBack(p))
      BY <3>1, <3>2 DEF Balanced
    <3>4. /\ Total(Took(p)) \in Nat /\ Total(GaveBack(p)) \in Nat
          /\ stock[p] \in Int /\ adjusted[p] \in Int /\ d \in Int
      BY <3>1, TotalIsNat, ChoicesAssumption DEF Balanced, TypeOK
    <3>5. stock'[p] - stock[p] = adjusted'[p] - adjusted[p] /\ stock'[p] \in Int /\ adjusted'[p] \in Int
      BY <1>3, <3>4 DEF AdjustStock, TypeOK
    <3> QED
      BY <3>1, <3>3, <3>4, <3>5 DEF Balanced
  <2> QED
    BY <2>2, <2>3 DEF Ledger
<1>4. CASE UNCHANGED <<sales, stock, adjusted, credit, wallet>>
  BY <1>4, LedgerLeft
<1> QED
  BY <1>1, <1>2, <1>3, <1>4 DEF StoreNext, store, OpenTurn, CloseTurn, MoveCash, MoveUnassigned,
     SetActive, SetTerms

\* Sums of finitely many units agree with stock and with the accounts.
THEOREM StoreLedger == StoreSpec => []Ledger
  BY StoreTypes, LedgerInit, LedgerStep, PTL DEF StoreSpec

\* Stock is what adjustments left, less every sale, plus every cancellation.
THEOREM StoreBalance == StoreSpec => []StockBalance
<1>1. Ledger => StockBalance
  BY DEF Ledger, Balanced, StockBalance
<1> QED
  BY <1>1, StoreLedger, PTL

\* A customer owes the credit sales that stand, and has what they did not spend.
THEOREM StoreReconciles == StoreSpec => []AccountsReconcile
<1>1. Ledger => AccountsReconcile
  BY DEF Ledger, Reconciled, AccountsReconcile
<1> QED
  BY <1>1, StoreLedger, PTL

-----------------------------------------------------------------------------
(* The handlers of StoreTx                                                 *)

\* What IInv says of one worker.
Good(w) == RequestOK(w) /\ HoldsLocks(w) /\ ChecksHold(w)

\* The step changes no row that v has locked, adds no sale to a turn that v
\* has locked, and forgets no turn and no sale.
Untouched(v) ==
    /\ \A t \in DOMAIN turns :
        /\ t \in DOMAIN turns'
        /\ turns'[t].terminal = turns[t].terminal
        /\ TurnRow(t) \in held[v] => turns'[t] = turns[t]
    /\ \A s \in DOMAIN sales :
        /\ s \in DOMAIN sales'
        /\ sales'[s].order = sales[s].order
        /\ sales'[s].turn = sales[s].turn
        /\ SaleRow(s) \in held[v] => sales'[s].status = sales[s].status
    /\ \A s \in DOMAIN sales' :
        TurnRow(sales'[s].turn) \in held[v] =>
            /\ s \in DOMAIN sales
            /\ sales'[s].status = "completed" => sales[s].status = "completed"
    /\ \A p \in Products : ProductRow(p) \in held[v] => stock'[p] = stock[p]
    /\ \A p \in Products \cup Kits : ProductRow(p) \in held[v] => active'[p] = active[p]
    /\ \A st \in Series \X Terminals : SequenceRow(st) \in held[v] => last'[st] = last[st]
    /\ \A c \in Customers : CustomerRow(c) \in held[v] =>
        credit'[c] = credit[c] /\ terms'[c] = terms[c] /\ wallet'[c] = wallet[c]

-----------------------------------------------------------------------------
(* Locks                                                                   *)

LEMMA LockTypes ==
  /\ \A t \in Nat : TurnRow(t) \in LockType /\ SaleRow(t) \in LockType
  /\ \A p \in Products \cup Kits : ProductRow(p) \in LockType
  /\ \A st \in Series \X Terminals : SequenceRow(st) \in LockType
  /\ \A c \in Customers : CustomerRow(c) \in LockType /\ CustomerKey(c) \in LockType
  BY DEF LockType, Rows, Locked, TurnRow, SaleRow, ProductRow, SequenceRow, CustomerRow,
         CustomerKey

LEMMA BlankType == Blank \in ReqType
  BY DEF Blank, ReqType

\* An update lock of one worker is not held by another.
LEMMA Exclusive ==
  ASSUME LocksExclude, NEW v \in Workers, NEW w \in Workers, v # w,
         NEW l, l.mode = "update", l \in held[w]
  PROVE  l \notin held[v]
  BY DEF LocksExclude, Conflict

LEMMA UpdateLocks ==
  /\ \A t : TurnRow(t).mode = "update" /\ SaleRow(t).mode = "update"
  /\ \A p : ProductRow(p).mode = "update"
  /\ \A st : SequenceRow(st).mode = "update"
  /\ \A c : CustomerRow(c).mode = "update"
  BY DEF Locked, TurnRow, SaleRow, ProductRow, SequenceRow, CustomerRow

LEMMA GrantedFree ==
  ASSUME NEW w \in Workers, Granted(w), NEW l \in Need(w)
  PROVE  Free(w, l)
  BY DEF Granted, WaitsFor, Free

LEMMA LocksGrow ==
  ASSUME LocksExclude, NEW w \in Workers, NEW locks, held \in [Workers -> SUBSET LockType],
         held' = [held EXCEPT ![w] = locks],
         \A l \in locks \ held[w] : Free(w, l)
  PROVE  LocksExclude'
<1> SUFFICES ASSUME NEW u \in Workers, NEW v \in Workers, u # v,
                    NEW a \in held'[u], NEW b \in held'[v]
             PROVE  ~Conflict(a, b)
  BY DEF LocksExclude, Conflict
<1>1. \A l \in locks : \A v1 \in Workers \ {w} : \A h \in held[v1] : ~Conflict(l, h)
  BY DEF LocksExclude, Free
<1>2. CASE u = w
  BY <1>1, <1>2
<1>3. CASE v = w
  <2>1. ~Conflict(b, a)
    BY <1>1, <1>3
  <2> QED
    BY <2>1 DEF Conflict
<1>4. CASE u # w /\ v # w
  BY <1>4 DEF LocksExclude
<1> QED
  BY <1>2, <1>3, <1>4

-----------------------------------------------------------------------------
(* A step of one worker leaves what the others rely on                     *)

LEMMA Unmoved == ASSUME UNCHANGED store, NEW v \in Workers PROVE Untouched(v)
  BY DEF store, Untouched

LEMMA RequestKept ==
  ASSUME IInv, NEW v \in Workers, Untouched(v), pc'[v] = pc[v], req'[v] = req[v]
  PROVE  RequestOK(v)'
<1> DEFINE r == req[v]
<1>1. RequestOK(v)
  BY DEF IInv, RequestsOK
<1>2. \A s \in DOMAIN sales : s \in DOMAIN sales' /\ sales'[s].order = sales[s].order
  BY DEF Untouched
<1>3. DOMAIN turns \subseteq DOMAIN turns'
  BY DEF Untouched
<1>4. pc[v] = "cancel_customer" => r.sale \in DOMAIN sales
  BY <1>1 DEF RequestOK, CancelSteps
<1> QED
  BY <1>1, <1>2, <1>3, <1>4 DEF RequestOK, MovesAccount

LEMMA LocksKept ==
  ASSUME IInv, NEW v \in Workers, Untouched(v),
         pc'[v] = pc[v], req'[v] = req[v], held'[v] = held[v]
  PROVE  HoldsLocks(v)'
<1> DEFINE r == req[v]
<1>1. HoldsLocks(v) /\ RequestOK(v) /\ ChecksHold(v)
  BY DEF IInv, RequestsOK
<1>2. pc[v] \in CancelSteps => sales'[r.sale].order = sales[r.sale].order
  BY <1>1 DEF RequestOK, Untouched
<1>3. pc[v] \in HasFolio => turns'[r.turn].terminal = turns[r.turn].terminal
  BY <1>1 DEF ChecksHold, IsOpen, Untouched, HasFolio, HasProducts
<1> QED
  BY <1>1, <1>2, <1>3 DEF HoldsLocks, CancelSteps

\* The rows a sale has to keep from its stock check on: a part that nobody may
\* deactivate was locked with the lines.
LEMMA DemandLocked ==
  ASSUME IInv, NEW v \in Workers, pc[v] \in HasProducts, NEW p \in Products,
         Demand(req[v].order, p) > 0, p \in Fragile => req[v].order.items[p] > 0
  PROVE  ProductRow(p) \in held[v]
<1> DEFINE o == req[v].order
<1>1. HoldsLocks(v) /\ o \in Orders
  BY DEF IInv, RequestsOK, RequestOK, HasProducts, InTurn, SaleSteps
<1>2. CASE p \in Fragile
  BY <1>1, <1>2 DEF HoldsLocks, Lines
<1>3. CASE p \notin Fragile
  <2>1. /\ o.items[p] \in Nat /\ FromKit(o, p) \in Nat
    BY <1>1, OrdersAssumption, Quantities DEF OrderType
  <2>2. Deducted(o, p) > 0
    BY <2>1 DEF Demand, Deducted
  <2> QED
    BY <1>1, <1>3, <2>2 DEF HoldsLocks
<1> QED
  BY <1>2, <1>3

LEMMA ChecksKept ==
  ASSUME IInv, NEW v \in Workers, Untouched(v),
         pc'[v] = pc[v], req'[v] = req[v], held'[v] = held[v]
  PROVE  ChecksHold(v)'
<1> DEFINE r == req[v]
           o == r.order
           st == <<SerieOf(o), turns[r.turn].terminal>>
<1>1. HoldsLocks(v) /\ RequestOK(v) /\ ChecksHold(v)
  BY DEF IInv, RequestsOK
<1>2. ASSUME NEW t, IsOpen(t), TurnRow(t) \in held[v]
      PROVE  IsOpen(t)' /\ turns'[t] = turns[t]
  BY <1>2 DEF Untouched, IsOpen
<1>3. pc[v] \in InTurn => IsOpen(r.turn)' /\ turns'[r.turn] = turns[r.turn]
  BY <1>1, <1>2 DEF HoldsLocks, ChecksHold
<1>4. ASSUME pc[v] \in HasProducts
      PROVE  (\A p \in Lines(o) : active'[p]) /\ StockCovers(o)'
  <2>1. o \in Orders /\ o \in OrderType
    BY <1>1, <1>4, OrdersAssumption DEF RequestOK, HasProducts, InTurn, SaleSteps
  <2>2. Lines(o) \subseteq Products \cup Kits
    BY <2>1 DEF Lines, OrderType
  <2>3. \A p \in Lines(o) : active'[p]
    BY <1>1, <1>4, <2>2 DEF HoldsLocks, ChecksHold, Untouched
  <2>4. ASSUME NEW p \in Products, Demand(o, p) > 0, p \in Fragile => o.items[p] > 0
        PROVE  Demand(o, p) <= stock'[p]
    <3>1. stock'[p] = stock[p]
      BY <1>4, <2>4, DemandLocked DEF Untouched
    <3> QED
      BY <1>1, <1>4, <2>4, <3>1 DEF ChecksHold, StockCovers
  <2> QED
    BY <2>3, <2>4 DEF StockCovers
<1>5. ASSUME pc[v] \in HasFolio
      PROVE  r.number = last'[<<SerieOf(o), turns'[r.turn].terminal>>] + 1
  <2>1. IsOpen(r.turn) /\ turns'[r.turn] = turns[r.turn]
    BY <1>1, <1>3, <1>5 DEF ChecksHold, HasFolio, HasProducts
  <2>2. o \in OrderType
    BY <1>1, <1>5, OrdersAssumption DEF RequestOK, HasFolio, HasProducts, InTurn, SaleSteps
  <2>3. turns[r.turn] \in TurnType
    BY <2>1, ElementOfSeq DEF IInv, TypeOK, IsOpen
  <2>4. st \in Series \X Terminals
    BY <2>2, <2>3 DEF TurnType, OrderType, SerieOf, Series
  <2> QED
    BY <1>1, <1>5, <2>1, <2>4 DEF HoldsLocks, ChecksHold, Untouched
<1>6. ASSUME pc[v] = "sale_commit", MovesAccount(o)
      PROVE  AccountAllows(o)'
  <2>1. o.customer \in Customers
    BY <1>1, <1>6, OrdersAssumption DEF RequestOK, InTurn, SaleSteps
  <2> QED
    BY <1>1, <1>6, <2>1 DEF HoldsLocks, ChecksHold, AccountAllows, Untouched
<1>7. ASSUME pc[v] \in CancelSteps \ {"cancel_sale"}
      PROVE  sales'[r.sale].status = "completed"
  BY <1>1, <1>7 DEF RequestOK, HoldsLocks, ChecksHold, Untouched
<1>8. pc[v] \in {"close_sum", "close_commit"} => IsOpen(r.turn)' /\ turns'[r.turn] = turns[r.turn]
  BY <1>1, <1>2 DEF HoldsLocks, ChecksHold
<1>9. ASSUME pc[v] = "close_commit"
      PROVE  /\ CompletedCash(r.turn)' \subseteq r.counted
             /\ r.counted \subseteq CashSales(r.turn)'
             /\ r.tally = turns'[r.turn].moves
  <2>1. TurnRow(r.turn) \in held[v]
    BY <1>1, <1>9 DEF HoldsLocks
  <2>2. \A s \in DOMAIN sales' : sales'[s].turn = r.turn =>
            /\ s \in DOMAIN sales
            /\ sales'[s].status = "completed" => sales[s].status = "completed"
    BY <2>1 DEF Untouched
  <2>3. \A s \in DOMAIN sales : /\ s \in DOMAIN sales'
                                /\ sales'[s].order = sales[s].order
                                /\ sales'[s].turn = sales[s].turn
    BY DEF Untouched
  <2>4. /\ CompletedCash(r.turn) \subseteq r.counted
        /\ r.counted \subseteq CashSales(r.turn)
        /\ r.tally = turns[r.turn].moves
    BY <1>1, <1>9 DEF ChecksHold
  <2> QED
    BY <1>8, <1>9, <2>2, <2>3, <2>4 DEF CompletedCash, CashSales
<1>10. pc[v] = "move_commit" /\ r.turn # 0 => IsOpen(r.turn)'
  BY <1>1, <1>2 DEF HoldsLocks, ChecksHold
<1>11. ASSUME pc[v] = "adjust_commit"
       PROVE  active'[r.product] /\ r.value = stock'[r.product] + r.delta /\ r.value >= 0
  <2>1. r.product \in Products /\ ProductRow(r.product) \in held[v]
    BY <1>1, <1>11 DEF RequestOK, HoldsLocks, AdjustSteps
  <2> QED
    BY <1>1, <1>11, <2>1 DEF ChecksHold, Untouched
<1> QED
  BY <1>3, <1>4, <1>5, <1>6, <1>7, <1>8, <1>9, <1>10, <1>11 DEF ChecksHold

-----------------------------------------------------------------------------
(* The kinds of step handlers are made of                                  *)

\* A worker moves to another step, and touches no row that others have locked.
LEMMA WorkerStep ==
  ASSUME IInv, TypeOK', NEW w \in Workers,
         NEW step \in Steps, pc' = [pc EXCEPT ![w] = step],
         NEW r \in ReqType, req' = [req EXCEPT ![w] = r],
         NEW locks \in SUBSET LockType, held' = [held EXCEPT ![w] = locks],
         \A l \in locks \ held[w] : Free(w, l),
         \A v \in Workers \ {w} : Untouched(v),
         Good(w)'
  PROVE  IInv'
<1>1. pc' \in [Workers -> Steps] /\ req' \in [Workers -> ReqType]
  BY DEF IInv, RequestsOK
<1>2. held' \in [Workers -> SUBSET LockType]
  BY DEF IInv, RequestsOK
<1>3. LocksExclude'
  BY LocksGrow DEF IInv, RequestsOK
<1>4. ASSUME NEW v \in Workers PROVE Good(v)'
  <2>1. CASE v = w
    BY <2>1
  <2>2. CASE v # w
    <3>1. pc'[v] = pc[v] /\ req'[v] = req[v] /\ held'[v] = held[v]
      BY <2>2 DEF IInv, RequestsOK
    <3> QED
      BY <2>2, <3>1, RequestKept, LocksKept, ChecksKept DEF Good
  <2> QED
    BY <2>1, <2>2
<1> QED
  BY <1>1, <1>2, <1>3, <1>4 DEF IInv, RequestsOK, Good

LEMMA BeginStep ==
  ASSUME IInv, NEW w \in Workers, NEW op, NEW step \in Steps, NEW r \in ReqType,
         Begin(w, op, step, r), Good(w)'
  PROVE  IInv'
<1>1. TypeOK'
  BY TypeStep DEF Begin, IInv
<1>2. held' = [held EXCEPT ![w] = held[w]] /\ held[w] \in SUBSET LockType
  BY DEF Begin, IInv, RequestsOK
<1>3. \A v \in Workers : Untouched(v)
  BY Unmoved DEF Begin
<1>4. pc' = [pc EXCEPT ![w] = step] /\ req' = [req EXCEPT ![w] = r]
  BY DEF Begin
<1> QED
  BY <1>1, <1>2, <1>3, <1>4, WorkerStep

LEMMA GoStep ==
  ASSUME IInv, NEW w \in Workers, NEW step \in Steps, NEW r \in ReqType,
         NEW locks \in SUBSET LockType, \A l \in locks : Free(w, l),
         Go(w, step, locks, r), Good(w)'
  PROVE  IInv'
<1>1. TypeOK'
  BY TypeStep DEF Go, IInv
<1>2. held' = [held EXCEPT ![w] = held[w] \cup locks] /\ held[w] \cup locks \in SUBSET LockType
  BY DEF Go, IInv, RequestsOK
<1>3. \A v \in Workers : Untouched(v)
  BY Unmoved DEF Go
<1>4. pc' = [pc EXCEPT ![w] = step] /\ req' = [req EXCEPT ![w] = r]
  BY DEF Go
<1>5. \A l \in (held[w] \cup locks) \ held[w] : Free(w, l)
  OBVIOUS
<1> QED
  BY <1>1, <1>2, <1>3, <1>4, <1>5, WorkerStep

LEMMA EndStep ==
  ASSUME IInv, TypeOK', NEW w \in Workers, End(w), \A v \in Workers \ {w} : Untouched(v)
  PROVE  IInv'
<1>1. pc'[w] = "idle"
  BY DEF End, IInv, RequestsOK
<1>2. Good(w)'
  BY <1>1 DEF Good, RequestOK, HoldsLocks, ChecksHold, SaleSteps, InTurn, HasProducts, HasFolio,
     CancelSteps, OpenSteps, CloseSteps, MoveSteps, AdjustSteps
<1>3. "idle" \in Steps /\ {} \in SUBSET LockType
  BY DEF Steps
<1>4. /\ pc' = [pc EXCEPT ![w] = "idle"]
      /\ req' = [req EXCEPT ![w] = Blank]
      /\ held' = [held EXCEPT ![w] = {}]
  BY DEF End
<1> QED
  BY <1>2, <1>3, <1>4, BlankType, WorkerStep

LEMMA AbortStep == ASSUME IInv, NEW w \in Workers, Abort(w) PROVE IInv'
<1>1. TypeOK'
  BY TypeStep DEF Abort, IInv
<1>2. \A v \in Workers : Untouched(v)
  BY Unmoved DEF Abort
<1> QED
  BY <1>1, <1>2, EndStep DEF Abort

-----------------------------------------------------------------------------
(* create_sale                                                             *)

\* A worker that goes on keeps the locks it had.
LEMMA Kept ==
  ASSUME IInv, NEW w \in Workers, NEW step, NEW r, NEW locks, Go(w, step, locks, r)
  PROVE  /\ pc'[w] = step /\ req'[w] = r /\ held'[w] = held[w] \cup locks
         /\ turns' = turns /\ sales' = sales /\ stock' = stock /\ active' = active
         /\ last' = last /\ credit' = credit /\ terms' = terms /\ wallet' = wallet
  BY DEF Go, IInv, RequestsOK, store

LEMMA SaleBegins == ASSUME IInv, NEW w \in Workers, BeginSale(w) PROVE IInv'
<1>1. PICK u \in Users, o \in Orders :
        \E cand \in { OpenTurnsOf(u) } \cup
                    { { t \in OpenTurnsOf(u) : turns[t].terminal = term } : term \in Terminals } :
        \E want \in {0} \cup OpenTurnsOf(u) :
          Begin(w, "sale", "sale_turn", [Blank EXCEPT !.order = o, !.cand = cand, !.turn = want])
  BY DEF BeginSale
<1>2. OpenTurnsOf(u) \subseteq DOMAIN turns /\ DOMAIN turns \subseteq Nat
  BY DEF OpenTurnsOf, IInv, TypeOK
<1>3. PICK cand \in SUBSET DOMAIN turns, want \in Nat :
        Begin(w, "sale", "sale_turn", [Blank EXCEPT !.order = o, !.cand = cand, !.turn = want])
  <2>1. \A term \in Terminals : { t \in OpenTurnsOf(u) : turns[t].terminal = term }
                                  \in SUBSET DOMAIN turns
    BY <1>2
  <2> QED
    BY <1>1, <1>2, <2>1
<1> DEFINE r == [Blank EXCEPT !.order = o, !.cand = cand, !.turn = want]
<1>7. r \in ReqType /\ r.order = o /\ r.cand = cand
  BY <1>2, BlankType DEF ReqType
<1>4. pc'[w] = "sale_turn" /\ req'[w] = r /\ turns' = turns
  BY <1>3 DEF Begin, IInv, RequestsOK, store
<1>5. Good(w)'
  BY <1>4, <1>7 DEF Good, RequestOK, HoldsLocks, ChecksHold, SaleSteps, InTurn,
     HasProducts, HasFolio, CancelSteps, OpenSteps, CloseSteps, AdjustSteps
<1>6. "sale_turn" \in Steps
  BY DEF Steps, SaleSteps
<1> QED
  BY <1>3, <1>5, <1>6, <1>7, BeginStep

LEMMA SaleLocksTurn == ASSUME IInv, NEW w \in Workers, SaleLockTurn(w) PROVE IInv'
<1> DEFINE r == req[w]
<1>1. /\ pc[w] = "sale_turn" /\ Granted(w) /\ r \in ReqType
      /\ r.order \in Orders /\ r.cand \subseteq DOMAIN turns
  BY DEF SaleLockTurn, IInv, RequestsOK, RequestOK, SaleSteps
<1>2. PICK t \in Latest(r.cand) :
        \/ IsOpen(t) /\ Go(w, "sale_products", {TurnRow(t)}, [r EXCEPT !.turn = t, !.cand = {}])
        \/ Go(w, "sale_turn", {}, [r EXCEPT !.cand = @ \ {t}])
        \/ Abort(w)
  BY DEF SaleLockTurn
<1>3. t \in r.cand /\ t \in Nat /\ TurnRow(t) \in LockType
  BY <1>1, LockTypes DEF Latest, IInv, TypeOK
<1>4. CASE IsOpen(t) /\ Go(w, "sale_products", {TurnRow(t)}, [r EXCEPT !.turn = t, !.cand = {}])
  <2> DEFINE r1 == [r EXCEPT !.turn = t, !.cand = {}]
  <2>1. TurnRow(t) \in Need(w)
    BY <1>1, <1>2 DEF Need
  <2>2. r1 \in ReqType /\ r1.turn = t /\ r1.order = r.order
    BY <1>1, <1>3 DEF ReqType
  <2>3. Good(w)'
    <3>1. pc'[w] = "sale_products" /\ req'[w] = r1 /\ TurnRow(t) \in held'[w] /\ IsOpen(t)'
      BY <1>4, Kept DEF IsOpen
    <3>2. RequestOK(w)'
      BY <1>1, <2>2, <3>1 DEF RequestOK, CancelSteps, OpenSteps, CloseSteps, AdjustSteps
    <3>3. HoldsLocks(w)'
      BY <2>2, <3>1 DEF HoldsLocks, HasProducts, HasFolio, CancelSteps
    <3>4. ChecksHold(w)'
      BY <2>2, <3>1 DEF ChecksHold, HasProducts, HasFolio, CancelSteps
    <3> QED
      BY <3>2, <3>3, <3>4 DEF Good
  <2>4. "sale_products" \in Steps
    BY DEF Steps, SaleSteps, InTurn
  <2>5. Free(w, TurnRow(t))
    BY <1>1, <2>1, GrantedFree
  <2> QED
    BY <1>3, <1>4, <2>2, <2>3, <2>4, <2>5, GoStep
<1>5. CASE Go(w, "sale_turn", {}, [r EXCEPT !.cand = @ \ {t}])
  <2> DEFINE r1 == [r EXCEPT !.cand = r.cand \ {t}]
  <2>1. r1 \in ReqType /\ r1.cand \subseteq r.cand /\ r1.order = r.order
    BY <1>1 DEF ReqType
  <2>2. Good(w)'
    <3>1. pc'[w] = "sale_turn" /\ req'[w] = r1 /\ turns' = turns
      BY <1>5, Kept
    <3>2. RequestOK(w)'
      BY <1>1, <2>1, <3>1 DEF RequestOK, CancelSteps, OpenSteps, CloseSteps, AdjustSteps
    <3>3. HoldsLocks(w)' /\ ChecksHold(w)'
      BY <3>1 DEF HoldsLocks, ChecksHold, InTurn, HasProducts, HasFolio, CancelSteps
    <3> QED
      BY <3>2, <3>3 DEF Good
  <2>3. "sale_turn" \in Steps
    BY DEF Steps, SaleSteps
  <2> QED
    BY <1>5, <2>1, <2>2, <2>3, GoStep
<1> QED
  BY <1>2, <1>4, <1>5, AbortStep

LEMMA SaleLocksProducts == ASSUME IInv, NEW w \in Workers, SaleLockProducts(w) PROVE IInv'
<1> DEFINE r == req[w]
           o == r.order
           rows == { p \in RowsOf(o) : active[p] }
           locks == { ProductRow(p) : p \in rows }
<1>1. /\ pc[w] = "sale_products" /\ r \in ReqType /\ o \in Orders /\ o \in OrderType
      /\ HoldsLocks(w) /\ ChecksHold(w)
  BY OrdersAssumption DEF SaleLockProducts, IInv, RequestsOK, RequestOK, SaleSteps, InTurn
<1>2. CASE Abort(w)
  BY <1>2, AbortStep
<1>3. CASE /\ \A l \in locks : Free(w, l)
           /\ Lines(o) \subseteq rows
           /\ \A p \in rows \cap Products : Demand(o, p) > 0 => Demand(o, p) <= stock[p]
           /\ Go(w, "sale_folio", locks, r)
  <2>1. RowsOf(o) \subseteq Products \cup Kits
    BY <1>1 DEF RowsOf, Lines, OrderType
  <2>2. locks \in SUBSET LockType
    BY <2>1, LockTypes
  <2>3. \A p \in Products : o.items[p] \in Nat /\ FromKit(o, p) \in Nat
    BY <1>1, Quantities DEF OrderType
  <2>4. ASSUME NEW p \in Products, Deducted(o, p) > 0, p \in Fragile => o.items[p] > 0
        PROVE  p \in rows
    <3>1. p \in RowsOf(o)
      BY <2>3, <2>4 DEF Deducted, RowsOf, Lines
    <3>2. CASE o.items[p] > 0
      BY <1>3, <3>2 DEF Lines
    <3>3. CASE ~(o.items[p] > 0)
      <4>1. FromKit(o, p) > 0
        BY <2>3, <2>4, <3>3 DEF Deducted
      <4>2. Parts[o.kit][p] \in Nat /\ o.kits \in Nat /\ o.kit \in Kits
        BY <1>1, CatalogueAssumption DEF OrderType
      <4>3. Parts[o.kit][p] # 0
        BY <4>1, <4>2 DEF FromKit
      <4>4. p \notin Retirable
        BY <2>4, <3>3, <4>2, <4>3 DEF Fragile
      <4> QED
        BY <3>1, <4>4 DEF IInv, TypeOK
    <3> QED
      BY <3>2, <3>3
  <2>5. ASSUME NEW p \in Products, Demand(o, p) > 0 PROVE Deducted(o, p) > 0
    BY <2>3, <2>5 DEF Demand, Deducted
  <2>6. HoldsLocks(w)'
    <3>1. pc'[w] = "sale_folio" /\ req'[w] = r /\ held'[w] = held[w] \cup locks
      BY <1>3, Kept
    <3>2. TurnRow(r.turn) \in held'[w]
      BY <1>1, <3>1 DEF HoldsLocks, InTurn
    <3>3. \A p \in Lines(o) : ProductRow(p) \in held'[w]
      BY <1>3, <3>1
    <3>4. \A p \in Products \ Fragile : Deducted(o, p) > 0 => ProductRow(p) \in held'[w]
      BY <2>4, <3>1
    <3> QED
      BY <3>1, <3>2, <3>3, <3>4 DEF HoldsLocks, HasFolio, HasProducts, CancelSteps
  <2>7. ChecksHold(w)'
    <3>1. StockCovers(o)
      BY <1>3, <2>4, <2>5 DEF StockCovers
    <3>2. \A p \in Lines(o) : active[p]
      BY <1>3
    <3>3. IsOpen(r.turn)
      BY <1>1 DEF ChecksHold, InTurn
    <3> QED
      BY <1>3, <3>1, <3>2, <3>3, Kept DEF ChecksHold, StockCovers, IsOpen, HasFolio,
         HasProducts, CancelSteps
  <2>8. RequestOK(w)'
    BY <1>1, <1>3, Kept DEF RequestOK, CancelSteps, OpenSteps, CloseSteps, AdjustSteps
  <2>9. "sale_folio" \in Steps
    BY DEF Steps, SaleSteps, InTurn
  <2> QED
    BY <1>1, <1>3, <2>2, <2>6, <2>7, <2>8, <2>9, GoStep DEF Good
<1> QED
  BY <1>2, <1>3 DEF SaleLockProducts

\* What is known of a sale once its products are locked.
LEMMA SaleFacts ==
  ASSUME IInv, NEW w \in Workers, pc[w] \in HasProducts
  PROVE  LET r == req[w]
             o == r.order
         IN  /\ r \in ReqType /\ o \in Orders /\ o \in OrderType
             /\ IsOpen(r.turn) /\ turns[r.turn] \in TurnType
             /\ <<SerieOf(o), turns[r.turn].terminal>> \in Series \X Terminals
             /\ TurnRow(r.turn) \in held[w]
             /\ \A p \in Lines(o) : ProductRow(p) \in held[w] /\ active[p]
             /\ \A p \in Products \ Fragile : Deducted(o, p) > 0 => ProductRow(p) \in held[w]
             /\ StockCovers(o)
<1> DEFINE r == req[w]
           o == r.order
<1>1. HoldsLocks(w) /\ ChecksHold(w) /\ RequestOK(w) /\ r \in ReqType
  BY DEF IInv, RequestsOK
<1>2. o \in Orders /\ o \in OrderType
  BY <1>1, OrdersAssumption DEF RequestOK, HasProducts, InTurn, SaleSteps
<1>3. IsOpen(r.turn)
  BY <1>1 DEF ChecksHold, HasProducts
<1>4. turns[r.turn] \in TurnType
  BY <1>3, ElementOfSeq DEF IInv, TypeOK, IsOpen
<1>5. <<SerieOf(o), turns[r.turn].terminal>> \in Series \X Terminals
  BY <1>2, <1>4 DEF OrderType, TurnType, SerieOf, Series
<1>6. TurnRow(r.turn) \in held[w]
  BY <1>1 DEF HoldsLocks, HasProducts
<1>7. \A p \in Lines(o) : ProductRow(p) \in held[w] /\ active[p]
  BY <1>1 DEF HoldsLocks, ChecksHold
<1>8. \A p \in Products \ Fragile : Deducted(o, p) > 0 => ProductRow(p) \in held[w]
  BY <1>1 DEF HoldsLocks
<1>9. StockCovers(o)
  BY <1>1 DEF ChecksHold
<1> QED
  BY <1>1, <1>2, <1>3, <1>4, <1>5, <1>6, <1>7, <1>8, <1>9

LEMMA SaleTakesFolio == ASSUME IInv, NEW w \in Workers, SaleTakeFolio(w) PROVE IInv'
<1> DEFINE r == req[w]
           o == r.order
           st == <<SerieOf(o), turns[r.turn].terminal>>
           r1 == [r EXCEPT !.number = last[st] + 1]
<1>1. /\ pc[w] = "sale_folio" /\ pc[w] \in HasProducts /\ Granted(w)
      /\ Go(w, "sale_insert", {SequenceRow(st)}, r1)
  BY DEF SaleTakeFolio, HasProducts, InTurn
<1>2. r1 \in ReqType /\ r1.turn = r.turn /\ r1.order = o /\ r1.number = last[st] + 1
  <2>1. last[st] + 1 \in Nat
    <3>1. st \in Series \X Terminals
      BY <1>1, SaleFacts
    <3>2. last[st] \in Nat
      BY <3>1 DEF IInv, TypeOK
    <3> QED
      BY <3>2
  <2> QED
    BY SMTT(30), <1>1, <2>1, SaleFacts DEF ReqType
<1>3. SequenceRow(st) \in LockType
  BY <1>1, SaleFacts, LockTypes
<1>4. Free(w, SequenceRow(st))
  <2>1. SequenceRow(st) \in Need(w)
    BY <1>1 DEF Need
  <2> QED
    BY <1>1, <2>1, GrantedFree
<1>5. Good(w)'
  <2>1. /\ pc'[w] = "sale_insert" /\ req'[w] = r1 /\ held'[w] = held[w] \cup {SequenceRow(st)}
        /\ turns' = turns /\ stock' = stock /\ active' = active /\ last' = last
    BY <1>1, Kept
  <2>2. RequestOK(w)'
    BY <1>1, <1>2, <2>1, SaleFacts DEF RequestOK, CancelSteps, OpenSteps, CloseSteps, AdjustSteps
  <2>3. HoldsLocks(w)'
    BY <1>1, <1>2, <2>1, SaleFacts DEF HoldsLocks, CancelSteps
  <2>4. ChecksHold(w)'
    BY <1>1, <1>2, <2>1, SaleFacts DEF ChecksHold, StockCovers, IsOpen, CancelSteps
  <2> QED
    BY <2>2, <2>3, <2>4 DEF Good
<1>6. "sale_insert" \in Steps
  BY DEF Steps, SaleSteps, InTurn
<1> QED
  BY <1>1, <1>2, <1>3, <1>4, <1>5, <1>6, GoStep

\* The steps after the folio keep everything and may add locks.
LEMMA FolioFacts ==
  ASSUME IInv, NEW w \in Workers, pc[w] \in HasFolio
  PROVE  LET r == req[w]
             st == <<SerieOf(r.order), turns[r.turn].terminal>>
         IN  pc[w] \in HasProducts /\ SequenceRow(st) \in held[w] /\ r.number = last[st] + 1
  BY DEF IInv, HoldsLocks, ChecksHold, HasFolio

LEMMA SaleGoesOn ==
  ASSUME IInv, NEW w \in Workers, pc[w] \in HasFolio, NEW step \in HasFolio,
         NEW locks \in SUBSET LockType, \A l \in locks : Free(w, l),
         Go(w, step, locks, req[w]),
         step = "sale_customer" => MovesAccount(req[w].order),
         step \in {"sale_customer", "sale_commit"} =>
           \A p \in Products : Deducted(req[w].order, p) > 0 =>
             ProductRow(p) \in held[w] \cup locks,
         step = "sale_commit" /\ MovesAccount(req[w].order) =>
           AccountAllows(req[w].order) /\ CustomerRow(req[w].order.customer) \in held[w] \cup locks
  PROVE  IInv'
<1> DEFINE r == req[w]
           o == r.order
<1>1. pc[w] \in HasProducts
  BY DEF HasFolio
<1>2. /\ pc'[w] = step /\ req'[w] = r /\ held'[w] = held[w] \cup locks
      /\ turns' = turns /\ stock' = stock /\ active' = active /\ last' = last
      /\ credit' = credit /\ wallet' = wallet /\ terms' = terms
  BY Kept
<1>3. step \in Steps /\ step \in HasProducts /\ step \in InTurn
  BY DEF HasFolio, HasProducts, InTurn, Steps, SaleSteps
<1>4. RequestOK(w)'
  BY <1>1, <1>2, SaleFacts DEF RequestOK, HasFolio, HasProducts, InTurn, CancelSteps, OpenSteps,
     CloseSteps, AdjustSteps
<1>5. HoldsLocks(w)'
  BY <1>1, <1>2, <1>3, SaleFacts, FolioFacts DEF HoldsLocks, HasFolio, HasProducts, InTurn,
     CancelSteps
<1>6. ChecksHold(w)'
  BY <1>1, <1>2, <1>3, SaleFacts, FolioFacts DEF ChecksHold, StockCovers, AccountAllows, IsOpen,
     HasFolio, HasProducts, InTurn, CancelSteps
<1>7. r \in ReqType
  BY <1>1, SaleFacts
<1> QED
  BY <1>3, <1>4, <1>5, <1>6, <1>7, GoStep DEF Good

LEMMA NeedTypes ==
  ASSUME IInv, NEW w \in Workers, pc[w] \in {"sale_insert", "sale_stock", "sale_customer"}
  PROVE  Need(w) \in SUBSET LockType
<1> DEFINE o == req[w].order
<1>1. o \in OrderType /\ o \in Orders
  BY SaleFacts DEF HasProducts, InTurn
<1>2. CASE pc[w] = "sale_insert"
  BY <1>1, <1>2, LockTypes DEF Need, OrderType
<1>3. CASE pc[w] = "sale_stock"
  BY <1>3, LockTypes DEF Need
<1>4. CASE pc[w] = "sale_customer"
  <2>1. o.customer \in Customers
    BY <1>1, <1>4, OrdersAssumption DEF IInv, RequestsOK, RequestOK
  <2> QED
    BY <1>4, <2>1, LockTypes DEF Need
<1> QED
  BY <1>2, <1>3, <1>4

LEMMA SaleInserts == ASSUME IInv, NEW w \in Workers, SaleInsert(w) PROVE IInv'
<1>1. /\ pc[w] = "sale_insert" /\ Granted(w)
      /\ Go(w, "sale_stock", Need(w), req[w])
  BY DEF SaleInsert
<1>2. pc[w] \in HasFolio /\ "sale_stock" \in HasFolio
  BY <1>1 DEF HasFolio, HasProducts, InTurn
<1> QED
  BY <1>1, <1>2, NeedTypes, GrantedFree, SaleGoesOn

LEMMA SaleDeducts == ASSUME IInv, NEW w \in Workers, SaleDeduct(w) PROVE IInv'
<1> DEFINE o == req[w].order
           step == IF MovesAccount(o) THEN "sale_customer" ELSE "sale_commit"
<1>1. pc[w] = "sale_stock" /\ Granted(w) /\ Go(w, step, Need(w), req[w])
  BY DEF SaleDeduct
<1>2. pc[w] \in HasFolio /\ step \in HasFolio
  BY <1>1 DEF HasFolio, HasProducts, InTurn
<1>3. \A p \in Products : Deducted(o, p) > 0 => ProductRow(p) \in held[w] \cup Need(w)
  BY <1>1 DEF Need
<1>4. step = "sale_customer" => MovesAccount(o)
  OBVIOUS
<1>5. ~(step = "sale_commit" /\ MovesAccount(o))
  OBVIOUS
<1> QED
  BY <1>1, <1>2, <1>3, <1>4, <1>5, NeedTypes, GrantedFree, SaleGoesOn

LEMMA SaleLocksCustomer == ASSUME IInv, NEW w \in Workers, SaleLockCustomer(w) PROVE IInv'
<1> DEFINE o == req[w].order
<1>1. CASE Abort(w)
  BY <1>1, AbortStep
<1>2. CASE AccountAllows(o) /\ Go(w, "sale_commit", Need(w), req[w])
  <2>1. pc[w] = "sale_customer" /\ Granted(w)
    BY DEF SaleLockCustomer
  <2>2. pc[w] \in HasFolio /\ "sale_commit" \in HasFolio
    BY <2>1 DEF HasFolio, HasProducts, InTurn
  <2>3. \A p \in Products : Deducted(o, p) > 0 => ProductRow(p) \in held[w] \cup Need(w)
    BY <2>1 DEF IInv, HoldsLocks
  <2>4. CustomerRow(o.customer) \in held[w] \cup Need(w)
    BY <2>1 DEF Need
  <2> QED
    BY <1>2, <2>1, <2>2, <2>3, <2>4, NeedTypes, GrantedFree, SaleGoesOn
<1> QED
  BY <1>1, <1>2 DEF SaleLockCustomer

\* The commit of a sale is an operation of Store on what is in the database.
LEMMA SaleCommitSells ==
  ASSUME IInv, NEW w \in Workers, SaleCommit(w)
  PROVE  Sell(req[w].order, req[w].turn) /\ StoreNext
<1> DEFINE r == req[w]
           o == r.order
<1>1. pc[w] = "sale_commit" /\ pc[w] \in HasFolio /\ pc[w] \in HasProducts
  BY DEF SaleCommit, HasFolio, HasProducts, InTurn
<1>2. MovesAccount(o) => AccountAllows(o)
  BY <1>1 DEF IInv, ChecksHold
<1>3. Sell(o, r.turn)
  BY <1>1, <1>2, SaleFacts, FolioFacts DEF SaleCommit, Sell
<1>4. r.turn \in DOMAIN turns /\ o \in Orders
  BY <1>1, SaleFacts DEF IsOpen
<1> QED
  BY <1>3, <1>4 DEF StoreNext

LEMMA SaleCommits == ASSUME IInv, NEW w \in Workers, SaleCommit(w) PROVE IInv'
<1> DEFINE r == req[w]
           o == r.order
           q == <<SerieOf(o), turns[r.turn].terminal>>
           n == Len(sales) + 1
<1>1. TypeOK'
  BY SaleCommitSells, TypeStep DEF IInv
<1>2. pc[w] = "sale_commit" /\ pc[w] \in HasFolio /\ pc[w] \in HasProducts
  BY DEF SaleCommit, HasFolio, HasProducts, InTurn
<1>3. HoldsLocks(w)
  BY DEF IInv
<1>4. ASSUME NEW v \in Workers, v # w PROVE Untouched(v)
  <2>1. /\ DOMAIN sales' = DOMAIN sales \cup {n}
        /\ \A s \in DOMAIN sales : sales'[s] = sales[s]
        /\ sales'[n].turn = r.turn
        /\ turns' = turns /\ active' = active /\ terms' = terms
    BY DEF SaleCommit, IInv, TypeOK
  <2>2. TurnRow(r.turn) \notin held[v]
    <3>1. TurnRow(r.turn) \in held[w] /\ LocksExclude
      BY <1>2, SaleFacts DEF IInv
    <3> QED
      BY <1>4, <3>1, Exclusive, UpdateLocks
  <2>3. ASSUME NEW p \in Products, ProductRow(p) \in held[v] PROVE stock'[p] = stock[p]
    <3>1. ~(Deducted(o, p) > 0)
      BY <1>2, <1>3, <1>4, <2>3, Exclusive, UpdateLocks DEF HoldsLocks, IInv
    <3>2. o \in Orders
      BY <1>2, SaleFacts
    <3>3. Deducted(o, p) = 0
      BY <3>1, <3>2, Quantities
    <3> QED
      BY <3>3 DEF SaleCommit, IInv, TypeOK
  <2>4. ASSUME NEW st \in Series \X Terminals, SequenceRow(st) \in held[v]
        PROVE  last'[st] = last[st]
    <3>1. st # q
      BY <1>2, <1>4, <2>4, FolioFacts, Exclusive, UpdateLocks DEF IInv
    <3> QED
      BY <3>1 DEF SaleCommit, IInv, TypeOK
  <2>5. ASSUME NEW c \in Customers, CustomerRow(c) \in held[v]
        PROVE  credit'[c] = credit[c] /\ wallet'[c] = wallet[c]
    <3>1. MovesAccount(o) => c # o.customer
      BY <1>2, <1>3, <1>4, <2>5, Exclusive, UpdateLocks DEF HoldsLocks, IInv
    <3>2. o.method = "credit" => MovesAccount(o)
      BY <1>2, SaleFacts, OrdersAssumption
    <3> QED
      BY <3>1, <3>2 DEF SaleCommit, IInv, TypeOK
  <2> QED
    BY <2>1, <2>2, <2>3, <2>4, <2>5 DEF Untouched
<1> QED
  BY <1>1, <1>4, EndStep DEF SaleCommit

-----------------------------------------------------------------------------
(* perform_sale_cancellation                                               *)

LEMMA CancelBegins == ASSUME IInv, NEW w \in Workers, BeginCancel(w) PROVE IInv'
<1>1. PICK s \in DOMAIN sales : Begin(w, "cancel", "cancel_sale", [Blank EXCEPT !.sale = s])
  BY DEF BeginCancel
<1> DEFINE r == [Blank EXCEPT !.sale = s]
<1>2. r \in ReqType /\ r.sale = s
  <2>1. s \in Nat
    BY DEF IInv, TypeOK
  <2> QED
    BY <2>1, BlankType DEF ReqType
<1>3. pc'[w] = "cancel_sale" /\ req'[w] = r /\ sales' = sales
  BY <1>1 DEF Begin, IInv, RequestsOK, store
<1>4. Good(w)'
  BY <1>2, <1>3 DEF Good, RequestOK, HoldsLocks, ChecksHold, SaleSteps, InTurn,
     HasProducts, HasFolio, CancelSteps, OpenSteps, CloseSteps, AdjustSteps
<1>5. "cancel_sale" \in Steps
  BY DEF Steps, CancelSteps
<1> QED
  BY <1>1, <1>2, <1>4, <1>5, BeginStep

\* The sale a cancellation is about.
LEMMA CancelFacts ==
  ASSUME IInv, NEW w \in Workers, pc[w] \in CancelSteps
  PROVE  LET r == req[w]
             o == sales[r.sale].order
         IN  /\ r \in ReqType /\ r.sale \in DOMAIN sales /\ r.sale \in Nat
             /\ sales[r.sale] \in SaleType /\ o \in Orders /\ o \in OrderType
             /\ MovesAccount(o) => o.customer \in Customers
             /\ pc[w] # "cancel_sale" =>
                 SaleRow(r.sale) \in held[w] /\ sales[r.sale].status = "completed"
<1> DEFINE r == req[w]
<1>1. r \in ReqType /\ r.sale \in DOMAIN sales /\ r.sale \in Nat
  BY DEF IInv, RequestsOK, RequestOK, TypeOK
<1>2. sales[r.sale] \in SaleType
  BY <1>1, ElementOfSeq DEF IInv, TypeOK
<1>3. sales[r.sale].order \in Orders
  BY <1>2 DEF SaleType
<1>4. pc[w] # "cancel_sale" => SaleRow(r.sale) \in held[w] /\ sales[r.sale].status = "completed"
  BY DEF IInv, HoldsLocks, ChecksHold
<1> QED
  BY <1>1, <1>2, <1>3, <1>4, OrdersAssumption

LEMMA CancelGoesOn ==
  ASSUME IInv, NEW w \in Workers, pc[w] \in CancelSteps,
         NEW step \in CancelSteps \ {"cancel_sale"},
         NEW locks \in SUBSET LockType, \A l \in locks : Free(w, l),
         Go(w, step, locks, req[w]),
         sales[req[w].sale].status = "completed",
         SaleRow(req[w].sale) \in held[w] \cup locks,
         step = "cancel_customer" => MovesAccount(sales[req[w].sale].order),
         step \in {"cancel_customer", "cancel_commit"} =>
           \A p \in Products : Deducted(sales[req[w].sale].order, p) > 0 =>
             ProductRow(p) \in held[w] \cup locks,
         step = "cancel_commit" /\ MovesAccount(sales[req[w].sale].order) =>
           CustomerRow(sales[req[w].sale].order.customer) \in held[w] \cup locks
  PROVE  IInv'
<1> DEFINE r == req[w]
<1>1. pc'[w] = step /\ req'[w] = r /\ held'[w] = held[w] \cup locks /\ sales' = sales
  BY Kept
<1>2. step \in Steps
  BY DEF Steps
<1>3. r \in ReqType /\ r.sale \in DOMAIN sales
  BY CancelFacts
<1>4. RequestOK(w)'
  BY <1>1, <1>3 DEF RequestOK, CancelSteps, SaleSteps, InTurn, OpenSteps, CloseSteps, AdjustSteps
<1>5. HoldsLocks(w)' /\ ChecksHold(w)'
  BY <1>1 DEF HoldsLocks, ChecksHold, CancelSteps, InTurn, HasProducts, HasFolio
<1> QED
  BY <1>2, <1>3, <1>4, <1>5, GoStep DEF Good

LEMMA CancelLocksSale == ASSUME IInv, NEW w \in Workers, CancelLockSale(w) PROVE IInv'
<1>1. CASE Abort(w)
  BY <1>1, AbortStep
<1>2. CASE /\ sales[req[w].sale].status = "completed"
           /\ Go(w, "cancel_products", Need(w), req[w])
  <2>1. pc[w] = "cancel_sale" /\ Granted(w) /\ Need(w) = {SaleRow(req[w].sale)}
    BY DEF CancelLockSale, Need
  <2>2. pc[w] \in CancelSteps /\ "cancel_products" \in CancelSteps \ {"cancel_sale"}
    BY <2>1 DEF CancelSteps
  <2>3. Need(w) \in SUBSET LockType
    BY <2>1, <2>2, CancelFacts, LockTypes
  <2> QED
    BY <1>2, <2>1, <2>2, <2>3, GrantedFree, CancelGoesOn
<1> QED
  BY <1>1, <1>2 DEF CancelLockSale

LEMMA CancelLocksProducts == ASSUME IInv, NEW w \in Workers, CancelLockProducts(w) PROVE IInv'
<1> DEFINE o == sales[req[w].sale].order
           locks == { ProductRow(p) : p \in RowsOf(o) }
           step == IF MovesAccount(o) THEN "cancel_customer" ELSE "cancel_commit"
<1>1. CASE Abort(w)
  BY <1>1, AbortStep
<1>2. CASE (\A l \in locks : Free(w, l)) /\ Go(w, step, locks, req[w])
  <2>1. pc[w] = "cancel_products" /\ pc[w] \in CancelSteps
    BY DEF CancelLockProducts, CancelSteps
  <2>2. step \in CancelSteps \ {"cancel_sale"}
    BY DEF CancelSteps
  <2>3. o \in OrderType /\ o \in Orders
    BY <2>1, CancelFacts
  <2>4. RowsOf(o) \subseteq Products \cup Kits
    BY <2>3 DEF RowsOf, Lines, OrderType
  <2>5. locks \in SUBSET LockType
    BY <2>4, LockTypes
  <2>6. ASSUME NEW p \in Products, Deducted(o, p) > 0 PROVE p \in RowsOf(o)
    <3>1. o.items[p] \in Nat /\ FromKit(o, p) \in Nat
      BY <2>3, Quantities DEF OrderType
    <3> QED
      BY <2>6, <3>1 DEF Deducted, RowsOf, Lines
  <2>7. sales[req[w].sale].status = "completed" /\ SaleRow(req[w].sale) \in held[w]
    BY <2>1, CancelFacts
  <2> QED
    BY <1>2, <2>1, <2>2, <2>5, <2>6, <2>7, CancelGoesOn
<1> QED
  BY <1>1, <1>2 DEF CancelLockProducts

LEMMA CancelLocksCustomer == ASSUME IInv, NEW w \in Workers, CancelLockCustomer(w) PROVE IInv'
<1> DEFINE o == sales[req[w].sale].order
<1>1. /\ pc[w] = "cancel_customer" /\ Granted(w) /\ Need(w) = {CustomerRow(o.customer)}
      /\ Go(w, "cancel_commit", Need(w), req[w])
  BY DEF CancelLockCustomer, Need
<1>2. pc[w] \in CancelSteps /\ "cancel_commit" \in CancelSteps \ {"cancel_sale"}
  BY <1>1 DEF CancelSteps
<1>3. MovesAccount(o)
  BY <1>1 DEF IInv, RequestsOK, RequestOK
<1>4. Need(w) \in SUBSET LockType
  <2>1. o.customer \in Customers
    BY <1>2, <1>3, CancelFacts
  <2> QED
    BY <1>1, <2>1, LockTypes
<1>5. sales[req[w].sale].status = "completed" /\ SaleRow(req[w].sale) \in held[w]
  BY <1>1, <1>2, CancelFacts
<1>6. \A p \in Products : Deducted(o, p) > 0 => ProductRow(p) \in held[w]
  BY <1>1 DEF IInv, HoldsLocks
<1> QED
  BY <1>1, <1>2, <1>4, <1>5, <1>6, GrantedFree, CancelGoesOn

LEMMA CancelCommitCancels ==
  ASSUME IInv, NEW w \in Workers, CancelCommit(w)
  PROVE  Cancel(req[w].sale) /\ StoreNext
<1>1. pc[w] = "cancel_commit" /\ pc[w] \in CancelSteps
  BY DEF CancelCommit, CancelSteps
<1>2. Cancel(req[w].sale) /\ req[w].sale \in DOMAIN sales
  BY <1>1, CancelFacts DEF CancelCommit, Cancel
<1> QED
  BY <1>2 DEF StoreNext

LEMMA CancelCommits == ASSUME IInv, NEW w \in Workers, CancelCommit(w) PROVE IInv'
<1> DEFINE s == req[w].sale
           o == sales[s].order
<1>1. TypeOK'
  BY CancelCommitCancels, TypeStep DEF IInv
<1>2. pc[w] = "cancel_commit" /\ pc[w] \in CancelSteps
  BY DEF CancelCommit, CancelSteps
<1>3. HoldsLocks(w) /\ LocksExclude
  BY DEF IInv
<1>4. ASSUME NEW v \in Workers, v # w PROVE Untouched(v)
  <2>1. sales[s] \in SaleType /\ s \in DOMAIN sales /\ o \in Orders
    BY <1>2, CancelFacts
  <2>2. /\ DOMAIN sales' = DOMAIN sales
        /\ \A i \in DOMAIN sales : i # s => sales'[i] = sales[i]
        /\ sales'[s].order = o /\ sales'[s].turn = sales[s].turn
        /\ sales[s].status = "completed"
        /\ turns' = turns /\ active' = active /\ terms' = terms /\ last' = last
    BY <1>2, <2>1, CancelFacts DEF CancelCommit, SaleType
  <2>3. SaleRow(s) \notin held[v]
    <3>1. SaleRow(s) \in held[w]
      BY <1>2, CancelFacts
    <3> QED
      BY <1>3, <1>4, <3>1, Exclusive, UpdateLocks
  <2>4. ASSUME NEW p \in Products, ProductRow(p) \in held[v] PROVE stock'[p] = stock[p]
    <3>1. ~(Deducted(o, p) > 0)
      BY <1>2, <1>3, <1>4, <2>4, Exclusive, UpdateLocks DEF HoldsLocks
    <3>2. Deducted(o, p) = 0
      BY <2>1, <3>1, Quantities
    <3>3. Restored(o, p) = 0
      BY <3>2 DEF Restored
    <3> QED
      BY SMTT(30), <3>3 DEF CancelCommit, IInv, TypeOK
  <2>5. ASSUME NEW c \in Customers, CustomerRow(c) \in held[v]
        PROVE  credit'[c] = credit[c] /\ wallet'[c] = wallet[c]
    <3>1. MovesAccount(o) => c # o.customer
      BY <1>2, <1>3, <1>4, <2>5, Exclusive, UpdateLocks DEF HoldsLocks
    <3>2. o.method = "credit" => MovesAccount(o)
      BY <2>1, OrdersAssumption
    <3> QED
      BY <3>1, <3>2 DEF CancelCommit, IInv, TypeOK
  <2> QED
    BY <2>2, <2>3, <2>4, <2>5 DEF Untouched
<1> QED
  BY <1>1, <1>4, EndStep DEF CancelCommit

-----------------------------------------------------------------------------
(* open_turn, close_turn, create_cash_movement, register_expense           *)

LEMMA OpenBegins == ASSUME IInv, NEW w \in Workers, BeginOpen(w) PROVE IInv'
<1>1. PICK u \in Users, term \in Terminals :
        Begin(w, "open", "open_check", [Blank EXCEPT !.user = u, !.terminal = term])
  BY DEF BeginOpen
<1> DEFINE r == [Blank EXCEPT !.user = u, !.terminal = term]
<1>2. r \in ReqType /\ r.user = u /\ r.terminal = term
  BY BlankType DEF ReqType
<1>3. pc'[w] = "open_check" /\ req'[w] = r
  BY <1>1 DEF Begin, IInv, RequestsOK
<1>4. Good(w)'
  BY <1>2, <1>3 DEF Good, RequestOK, HoldsLocks, ChecksHold, SaleSteps, InTurn,
     HasProducts, HasFolio, CancelSteps, OpenSteps, CloseSteps, AdjustSteps
<1>5. "open_check" \in Steps
  BY DEF Steps, OpenSteps
<1> QED
  BY <1>1, <1>2, <1>4, <1>5, BeginStep

LEMMA OpenChecks == ASSUME IInv, NEW w \in Workers, OpenCheck(w) PROVE IInv'
<1>1. CASE Abort(w)
  BY <1>1, AbortStep
<1>2. CASE pc[w] = "open_check" /\ Go(w, "open_insert", {}, req[w])
  <2>1. req[w] \in ReqType /\ req[w].user \in Users /\ req[w].terminal \in Terminals
    BY <1>2 DEF IInv, RequestsOK, RequestOK, OpenSteps
  <2>2. pc'[w] = "open_insert" /\ req'[w] = req[w]
    BY <1>2, Kept
  <2>3. Good(w)'
    BY <2>1, <2>2 DEF Good, RequestOK, HoldsLocks, ChecksHold, SaleSteps, InTurn,
       HasProducts, HasFolio, CancelSteps, OpenSteps, CloseSteps, AdjustSteps
  <2>4. "open_insert" \in Steps
    BY DEF Steps, OpenSteps
  <2> QED
    BY <1>2, <2>1, <2>3, <2>4, GoStep
<1> QED
  BY <1>1, <1>2 DEF OpenCheck

LEMMA OpenInsertOpens ==
  ASSUME IInv, NEW w \in Workers, OpenInsert(w)
  PROVE  OpenTurn(req[w].user, req[w].terminal) /\ StoreNext
<1>1. req[w].user \in Users /\ req[w].terminal \in Terminals
  BY DEF OpenInsert, IInv, RequestsOK, RequestOK, OpenSteps
<1>2. OpenTurn(req[w].user, req[w].terminal)
  BY DEF OpenInsert, OpenTurn
<1> QED
  BY <1>1, <1>2 DEF StoreNext

LEMMA OpenInserts == ASSUME IInv, NEW w \in Workers, OpenInsert(w) PROVE IInv'
<1>1. TypeOK'
  BY OpenInsertOpens, TypeStep DEF IInv
<1>2. ASSUME NEW v \in Workers PROVE Untouched(v)
  <2>1. \A t \in DOMAIN turns : t \in DOMAIN turns' /\ turns'[t] = turns[t]
    BY DEF OpenInsert, IInv, TypeOK
  <2> QED
    BY <2>1 DEF OpenInsert, Untouched
<1> QED
  BY <1>1, <1>2, EndStep DEF OpenInsert

\* A request about a turn that exists.
LEMMA TurnRequest ==
  ASSUME IInv, NEW t \in DOMAIN turns
  PROVE  [Blank EXCEPT !.turn = t] \in ReqType /\ [Blank EXCEPT !.turn = t].turn = t
<1>1. t \in Nat
  BY DEF IInv, TypeOK
<1> QED
  BY <1>1, BlankType DEF ReqType

LEMMA CloseBegins == ASSUME IInv, NEW w \in Workers, BeginClose(w) PROVE IInv'
<1>1. PICK t \in DOMAIN turns : Begin(w, "close", "close_turn", [Blank EXCEPT !.turn = t])
  BY DEF BeginClose
<1> DEFINE r == [Blank EXCEPT !.turn = t]
<1>2. r \in ReqType /\ r.turn = t
  BY TurnRequest
<1>3. pc'[w] = "close_turn" /\ req'[w] = r /\ turns' = turns
  BY <1>1 DEF Begin, IInv, RequestsOK, store
<1>4. Good(w)'
  BY <1>2, <1>3 DEF Good, RequestOK, HoldsLocks, ChecksHold, SaleSteps, InTurn,
     HasProducts, HasFolio, CancelSteps, OpenSteps, CloseSteps, AdjustSteps
<1>5. "close_turn" \in Steps
  BY DEF Steps, CloseSteps
<1> QED
  BY <1>1, <1>2, <1>4, <1>5, BeginStep

LEMMA CloseLocksTurn == ASSUME IInv, NEW w \in Workers, CloseLockTurn(w) PROVE IInv'
<1> DEFINE r == req[w]
<1>1. CASE Abort(w)
  BY <1>1, AbortStep
<1>2. CASE IsOpen(r.turn) /\ Go(w, "close_sum", Need(w), r)
  <2>1. pc[w] = "close_turn" /\ Granted(w) /\ Need(w) = {TurnRow(r.turn)}
    BY DEF CloseLockTurn, Need
  <2>2. r \in ReqType /\ r.turn \in Nat
    BY DEF IInv, RequestsOK, ReqType
  <2>3. Need(w) \in SUBSET LockType
    BY <2>1, <2>2, LockTypes
  <2>4. pc'[w] = "close_sum" /\ req'[w] = r /\ TurnRow(r.turn) \in held'[w] /\ turns' = turns
    BY <1>2, <2>1, Kept
  <2>5. RequestOK(w)'
    BY <1>2, <2>4 DEF RequestOK, IsOpen, SaleSteps, InTurn, CancelSteps, OpenSteps, AdjustSteps
  <2>6. HoldsLocks(w)' /\ ChecksHold(w)'
    BY <1>2, <2>4 DEF HoldsLocks, ChecksHold, IsOpen, InTurn, HasProducts, HasFolio, CancelSteps
  <2>7. "close_sum" \in Steps
    BY DEF Steps, CloseSteps
  <2> QED
    BY <1>2, <2>1, <2>2, <2>3, <2>5, <2>6, <2>7, GrantedFree, GoStep DEF Good
<1> QED
  BY <1>1, <1>2 DEF CloseLockTurn

LEMMA CloseSums == ASSUME IInv, NEW w \in Workers, CloseSum(w) PROVE IInv'
<1> DEFINE r == req[w]
           t == r.turn
           r1 == [r EXCEPT !.counted = CompletedCash(t), !.tally = turns[t].moves]
<1>1. pc[w] = "close_sum" /\ Go(w, "close_commit", {}, r1)
  BY DEF CloseSum
<1>2. IsOpen(t) /\ TurnRow(t) \in held[w] /\ r \in ReqType
  BY <1>1 DEF IInv, HoldsLocks, ChecksHold, RequestsOK
<1>3. turns[t] \in TurnType
  BY <1>2, ElementOfSeq DEF IInv, TypeOK, IsOpen
<1>4. turns[t].moves \in Nat /\ CompletedCash(t) \in SUBSET Nat
  BY SMTT(30), <1>3 DEF TurnType, CompletedCash, CashSales, IInv, TypeOK
<1>5. /\ r1 \in ReqType /\ r1.turn = t /\ r1.counted = CompletedCash(t)
      /\ r1.tally = turns[t].moves
  BY <1>2, <1>4 DEF ReqType
<1>6. /\ pc'[w] = "close_commit" /\ req'[w] = r1 /\ held[w] \subseteq held'[w]
      /\ turns' = turns /\ sales' = sales
  <2> HIDE DEF r1
  <2> QED
    BY <1>1, Kept
<1>7. RequestOK(w)'
  BY <1>2, <1>5, <1>6 DEF RequestOK, IsOpen, SaleSteps, InTurn, CancelSteps, OpenSteps,
     AdjustSteps
<1>8. HoldsLocks(w)'
  BY <1>2, <1>5, <1>6 DEF HoldsLocks, InTurn, HasProducts, HasFolio, CancelSteps
<1>9. ChecksHold(w)'
  <2>1. CompletedCash(t)' \subseteq CompletedCash(t) /\ CompletedCash(t) \subseteq CashSales(t)'
    BY <1>6 DEF CompletedCash, CashSales
  <2> QED
    BY <1>2, <1>5, <1>6 DEF ChecksHold, IsOpen, CompletedCash, CashSales, InTurn, HasProducts,
       HasFolio, CancelSteps
<1>10. "close_commit" \in Steps
  BY DEF Steps, CloseSteps
<1> QED
  BY <1>1, <1>5, <1>7, <1>8, <1>9, <1>10, GoStep DEF Good

LEMMA CloseCommitCloses ==
  ASSUME IInv, NEW w \in Workers, CloseCommit(w)
  PROVE  CloseTurn(req[w].turn, req[w].counted) /\ StoreNext
<1> DEFINE r == req[w]
<1>1. pc[w] = "close_commit"
  BY DEF CloseCommit
<1>2. /\ IsOpen(r.turn) /\ r.tally = turns[r.turn].moves
      /\ CompletedCash(r.turn) \subseteq r.counted /\ r.counted \subseteq CashSales(r.turn)
  BY <1>1 DEF IInv, ChecksHold
<1>3. CloseTurn(r.turn, r.counted)
  BY <1>2 DEF CloseCommit, CloseTurn
<1> QED
  BY <1>2, <1>3 DEF StoreNext, IsOpen

\* A step that writes the row of one turn, which its worker has locked.
LEMMA TurnWritten ==
  ASSUME IInv, NEW v \in Workers, NEW w \in Workers, v # w, NEW t \in Nat,
         t # 0 => TurnRow(t) \in held[w],
         DOMAIN turns' = DOMAIN turns,
         \A i \in DOMAIN turns : turns'[i].terminal = turns[i].terminal,
         \A i \in DOMAIN turns : i # t => turns'[i] = turns[i],
         UNCHANGED <<sales, stock, active, last, credit, terms, wallet>>
  PROVE  Untouched(v)
<1>1. t # 0 => TurnRow(t) \notin held[v]
  BY Exclusive, UpdateLocks DEF IInv
<1>2. 0 \notin DOMAIN turns
  BY DEF IInv, TypeOK
<1> QED
  BY <1>1, <1>2 DEF Untouched

LEMMA CloseCommits == ASSUME IInv, NEW w \in Workers, CloseCommit(w) PROVE IInv'
<1> DEFINE t == req[w].turn
<1>1. TypeOK'
  BY CloseCommitCloses, TypeStep DEF IInv
<1>2. TurnRow(t) \in held[w] /\ t \in Nat /\ t \in DOMAIN turns
  BY DEF CloseCommit, IInv, HoldsLocks, ChecksHold, IsOpen, RequestsOK, ReqType
<1>3. turns[t] \in TurnType
  BY <1>2, ElementOfSeq DEF IInv, TypeOK
<1>4. DOMAIN turns' = DOMAIN turns /\ \A i \in DOMAIN turns : i # t => turns'[i] = turns[i]
  BY DEF CloseCommit
<1>5. turns'[t].terminal = turns[t].terminal
  BY <1>2, <1>3 DEF CloseCommit, TurnType
<1>6. \A v \in Workers \ {w} : Untouched(v)
  BY <1>2, <1>4, <1>5, TurnWritten DEF CloseCommit
<1> QED
  BY <1>1, <1>6, EndStep DEF CloseCommit

LEMMA MoveBegins == ASSUME IInv, NEW w \in Workers, BeginMove(w) PROVE IInv'
<1>1. PICK t \in DOMAIN turns : Begin(w, "move", "move_turn", [Blank EXCEPT !.turn = t])
  BY DEF BeginMove
<1> DEFINE r == [Blank EXCEPT !.turn = t]
<1>2. r \in ReqType /\ r.turn = t
  BY TurnRequest
<1>3. pc'[w] = "move_turn" /\ req'[w] = r /\ turns' = turns
  BY <1>1 DEF Begin, IInv, RequestsOK, store
<1>4. Good(w)'
  BY <1>2, <1>3 DEF Good, RequestOK, HoldsLocks, ChecksHold, SaleSteps, InTurn,
     HasProducts, HasFolio, CancelSteps, OpenSteps, CloseSteps, AdjustSteps
<1>5. "move_turn" \in Steps
  BY DEF Steps, MoveSteps
<1> QED
  BY <1>1, <1>2, <1>4, <1>5, BeginStep

\* A movement is about to be inserted, in a turn that is locked or in none.
LEMMA MoveGoesOn ==
  ASSUME IInv, NEW w \in Workers, NEW r \in ReqType,
         NEW locks \in SUBSET LockType, \A l \in locks : Free(w, l),
         Go(w, "move_commit", locks, r),
         r.turn # 0 => IsOpen(r.turn) /\ TurnRow(r.turn) \in held[w] \cup locks
  PROVE  IInv'
<1>1. pc'[w] = "move_commit" /\ req'[w] = r /\ held'[w] = held[w] \cup locks /\ turns' = turns
  BY Kept
<1>2. RequestOK(w)'
  BY <1>1 DEF RequestOK, SaleSteps, InTurn, CancelSteps, OpenSteps, CloseSteps, AdjustSteps
<1>3. HoldsLocks(w)' /\ ChecksHold(w)'
  BY <1>1 DEF HoldsLocks, ChecksHold, IsOpen, InTurn, HasProducts, HasFolio, CancelSteps
<1>4. "move_commit" \in Steps
  BY DEF Steps, MoveSteps
<1> QED
  BY <1>2, <1>3, <1>4, GoStep DEF Good

LEMMA MoveLocksTurn == ASSUME IInv, NEW w \in Workers, MoveLockTurn(w) PROVE IInv'
<1> DEFINE r == req[w]
<1>1. CASE Abort(w)
  BY <1>1, AbortStep
<1>2. CASE IsOpen(r.turn) /\ Go(w, "move_commit", Need(w), r)
  <2>1. pc[w] = "move_turn" /\ Granted(w) /\ Need(w) = {TurnRow(r.turn)}
    BY DEF MoveLockTurn, Need
  <2>2. r \in ReqType /\ r.turn \in Nat
    BY DEF IInv, RequestsOK, ReqType
  <2>3. Need(w) \in SUBSET LockType
    BY <2>1, <2>2, LockTypes
  <2> QED
    BY <1>2, <2>1, <2>2, <2>3, GrantedFree, MoveGoesOn
<1> QED
  BY <1>1, <1>2 DEF MoveLockTurn

LEMMA ExpenseBegins == ASSUME IInv, NEW w \in Workers, BeginExpense(w) PROVE IInv'
<1>1. PICK u \in Users :
        Begin(w, "expense", IF OpenTurnsOf(u) = {} THEN "move_commit" ELSE "expense_turn",
              [Blank EXCEPT !.cand = OpenTurnsOf(u)])
  BY DEF BeginExpense
<1> DEFINE r == [Blank EXCEPT !.cand = OpenTurnsOf(u)]
           step == IF OpenTurnsOf(u) = {} THEN "move_commit" ELSE "expense_turn"
<1>2. OpenTurnsOf(u) \subseteq DOMAIN turns /\ OpenTurnsOf(u) \in SUBSET Nat
  BY DEF OpenTurnsOf, IInv, TypeOK
<1>3. r \in ReqType /\ r.cand = OpenTurnsOf(u)
  BY <1>2, BlankType DEF ReqType
<1>4. r.turn = 0
  BY DEF Blank
<1>5. pc'[w] = step /\ req'[w] = r /\ turns' = turns
  BY <1>1 DEF Begin, IInv, RequestsOK, store
<1>6. Good(w)'
  <2> HIDE DEF r
  <2>1. RequestOK(w)'
    BY <1>2, <1>3, <1>4, <1>5 DEF RequestOK, SaleSteps, InTurn, CancelSteps, OpenSteps,
       CloseSteps, AdjustSteps
  <2>2. HoldsLocks(w)' /\ ChecksHold(w)'
    BY <1>4, <1>5 DEF HoldsLocks, ChecksHold, InTurn, HasProducts, HasFolio, CancelSteps
  <2> QED
    BY <2>1, <2>2 DEF Good
<1>7. step \in Steps
  BY DEF Steps, MoveSteps
<1> QED
  BY <1>1, <1>3, <1>6, <1>7, BeginStep

LEMMA ExpenseLocksTurn == ASSUME IInv, NEW w \in Workers, ExpenseLockTurn(w) PROVE IInv'
<1> DEFINE r == req[w]
<1>1. /\ pc[w] = "expense_turn" /\ Granted(w) /\ r \in ReqType
      /\ r.cand \subseteq DOMAIN turns /\ r.turn = 0
  BY DEF ExpenseLockTurn, IInv, RequestsOK, RequestOK
<1>2. PICK t \in Earliest(r.cand) :
        \/ IsOpen(t) /\ Go(w, "move_commit", {TurnRow(t)}, [r EXCEPT !.turn = t, !.cand = {}])
        \/ Go(w, "move_commit", {}, [r EXCEPT !.cand = @ \ {t}])
        \/ Go(w, "expense_turn", {}, [r EXCEPT !.cand = @ \ {t}])
  BY DEF ExpenseLockTurn
<1>3. t \in r.cand /\ t \in Nat /\ TurnRow(t) \in LockType
  BY <1>1, LockTypes DEF Earliest, IInv, TypeOK
<1>4. CASE IsOpen(t) /\ Go(w, "move_commit", {TurnRow(t)}, [r EXCEPT !.turn = t, !.cand = {}])
  <2> DEFINE r1 == [r EXCEPT !.turn = t, !.cand = {}]
  <2>1. r1 \in ReqType /\ r1.turn = t
    BY <1>1, <1>3 DEF ReqType
  <2>2. Free(w, TurnRow(t))
    <3>1. TurnRow(t) \in Need(w)
      BY <1>1, <1>2 DEF Need
    <3> QED
      BY <1>1, <3>1, GrantedFree
  <2>3. IsOpen(t) /\ Go(w, "move_commit", {TurnRow(t)}, r1)
    BY <1>4
  <2> HIDE DEF r1
  <2> QED
    BY <1>3, <2>1, <2>2, <2>3, MoveGoesOn
<1> DEFINE r2 == [r EXCEPT !.cand = r.cand \ {t}]
<1>5. r2 \in ReqType /\ r2.cand \subseteq r.cand /\ r2.turn = 0
  BY <1>1 DEF ReqType
<1>6. CASE Go(w, "move_commit", {}, r2)
  <2> HIDE DEF r2
  <2> QED
    BY <1>5, <1>6, MoveGoesOn
<1>7. CASE Go(w, "expense_turn", {}, r2)
  <2> HIDE DEF r2
  <2>1. pc'[w] = "expense_turn" /\ req'[w] = r2 /\ turns' = turns
    BY <1>7, Kept
  <2>2. RequestOK(w)'
    BY <1>1, <1>5, <2>1 DEF RequestOK, SaleSteps, InTurn, CancelSteps, OpenSteps, CloseSteps,
       AdjustSteps
  <2>3. HoldsLocks(w)' /\ ChecksHold(w)'
    BY <2>1 DEF HoldsLocks, ChecksHold, InTurn, HasProducts, HasFolio, CancelSteps
  <2>4. "expense_turn" \in Steps
    BY DEF Steps, MoveSteps
  <2> QED
    BY <1>5, <1>7, <2>2, <2>3, <2>4, GoStep DEF Good
<1> QED
  BY <1>2, <1>4, <1>6, <1>7

LEMMA MoveCommitMoves ==
  ASSUME IInv, NEW w \in Workers, MoveCommit(w)
  PROVE  (MoveUnassigned \/ MoveCash(req[w].turn)) /\ StoreNext
<1> DEFINE t == req[w].turn
<1>1. CASE t = 0
  <2>1. MoveUnassigned
    BY <1>1 DEF MoveCommit, MoveUnassigned
  <2> QED
    BY <2>1 DEF StoreNext
<1>2. CASE t # 0
  <2>1. IsOpen(t)
    BY <1>2 DEF MoveCommit, IInv, ChecksHold
  <2>2. MoveCash(t)
    BY <1>2, <2>1 DEF MoveCommit, MoveCash
  <2> QED
    BY <2>1, <2>2 DEF StoreNext, IsOpen
<1> QED
  BY <1>1, <1>2

LEMMA MoveCommits == ASSUME IInv, NEW w \in Workers, MoveCommit(w) PROVE IInv'
<1> DEFINE t == req[w].turn
<1>1. TypeOK'
  BY MoveCommitMoves, TypeStep DEF IInv
<1>2. t \in Nat /\ (t # 0 => IsOpen(t) /\ TurnRow(t) \in held[w])
  BY DEF MoveCommit, IInv, HoldsLocks, ChecksHold, RequestsOK, ReqType
<1>3. t # 0 => turns[t] \in TurnType
  BY <1>2, ElementOfSeq DEF IInv, TypeOK, IsOpen
<1>4. DOMAIN turns' = DOMAIN turns /\ \A i \in DOMAIN turns : i # t => turns'[i] = turns[i]
  BY DEF MoveCommit
<1>5. t # 0 => turns'[t].terminal = turns[t].terminal
  BY <1>2, <1>3 DEF MoveCommit, IsOpen, TurnType
<1>6. 0 \notin DOMAIN turns
  BY DEF IInv, TypeOK
<1>7. \A v \in Workers \ {w} : Untouched(v)
  BY <1>2, <1>4, <1>5, <1>6, TurnWritten DEF MoveCommit
<1> QED
  BY <1>1, <1>7, EndStep DEF MoveCommit

-----------------------------------------------------------------------------
(* adjust_stock, update_product, update_customer                           *)

LEMMA AdjustBegins == ASSUME IInv, NEW w \in Workers, BeginAdjust(w) PROVE IInv'
<1>1. PICK p \in Products, d \in Deltas :
        Begin(w, "adjust", "adjust_product", [Blank EXCEPT !.product = p, !.delta = d])
  BY DEF BeginAdjust
<1> DEFINE r == [Blank EXCEPT !.product = p, !.delta = d]
<1>2. r \in ReqType /\ r.product = p /\ r.delta = d
  BY BlankType, ChoicesAssumption DEF ReqType
<1>3. pc'[w] = "adjust_product" /\ req'[w] = r
  BY <1>1 DEF Begin, IInv, RequestsOK
<1>4. Good(w)'
  BY <1>2, <1>3 DEF Good, RequestOK, HoldsLocks, ChecksHold, SaleSteps, InTurn,
     HasProducts, HasFolio, CancelSteps, OpenSteps, CloseSteps, AdjustSteps
<1>5. "adjust_product" \in Steps
  BY DEF Steps, AdjustSteps
<1> QED
  BY <1>1, <1>2, <1>4, <1>5, BeginStep

LEMMA AdjustLocksProduct == ASSUME IInv, NEW w \in Workers, AdjustLockProduct(w) PROVE IInv'
<1> DEFINE r == req[w]
           r1 == [r EXCEPT !.value = stock[r.product] + r.delta]
<1>1. CASE Abort(w)
  BY <1>1, AbortStep
<1>2. CASE /\ active[r.product] /\ stock[r.product] + r.delta >= 0
           /\ Go(w, "adjust_commit", Need(w), r1)
  <2>1. /\ pc[w] = "adjust_product" /\ Granted(w) /\ Need(w) = {ProductRow(r.product)}
        /\ r \in ReqType /\ r.product \in Products /\ r.delta \in Deltas
    BY DEF AdjustLockProduct, Need, IInv, RequestsOK, RequestOK, AdjustSteps
  <2>2. stock[r.product] + r.delta \in Int
    <3>1. stock[r.product] \in Int /\ r.delta \in Int
      BY <2>1, ChoicesAssumption DEF IInv, TypeOK
    <3> QED
      BY <3>1
  <2>3. /\ r1 \in ReqType /\ r1.product = r.product /\ r1.delta = r.delta
        /\ r1.value = stock[r.product] + r.delta
    BY <2>1, <2>2 DEF ReqType
  <2>4. Need(w) \in SUBSET LockType
    BY <2>1, LockTypes
  <2> HIDE DEF r1
  <2>5. /\ pc'[w] = "adjust_commit" /\ req'[w] = r1 /\ ProductRow(r.product) \in held'[w]
        /\ stock' = stock /\ active' = active
    BY <1>2, <2>1, Kept
  <2>6. RequestOK(w)'
    BY <2>1, <2>3, <2>5 DEF RequestOK, SaleSteps, InTurn, CancelSteps, OpenSteps, CloseSteps
  <2>7. HoldsLocks(w)' /\ ChecksHold(w)'
    BY <1>2, <2>3, <2>5 DEF HoldsLocks, ChecksHold, InTurn, HasProducts, HasFolio, CancelSteps
  <2>8. "adjust_commit" \in Steps
    BY DEF Steps, AdjustSteps
  <2> QED
    BY <1>2, <2>1, <2>3, <2>4, <2>6, <2>7, <2>8, GrantedFree, GoStep DEF Good
<1> QED
  BY <1>1, <1>2 DEF AdjustLockProduct

LEMMA AdjustCommitAdjusts ==
  ASSUME IInv, NEW w \in Workers, AdjustCommit(w)
  PROVE  AdjustStock(req[w].product, req[w].delta) /\ StoreNext
<1> DEFINE r == req[w]
<1>1. pc[w] = "adjust_commit" /\ r.product \in Products /\ r.delta \in Deltas
  BY DEF AdjustCommit, IInv, RequestsOK, RequestOK, AdjustSteps
<1>2. active[r.product] /\ r.value = stock[r.product] + r.delta /\ r.value >= 0
  BY <1>1 DEF IInv, ChecksHold
<1>3. AdjustStock(r.product, r.delta)
  BY <1>2 DEF AdjustCommit, AdjustStock
<1> QED
  BY <1>1, <1>3 DEF StoreNext

LEMMA AdjustCommits == ASSUME IInv, NEW w \in Workers, AdjustCommit(w) PROVE IInv'
<1> DEFINE p == req[w].product
<1>1. TypeOK'
  BY AdjustCommitAdjusts, TypeStep DEF IInv
<1>2. ProductRow(p) \in held[w]
  BY DEF AdjustCommit, IInv, HoldsLocks
<1>3. ASSUME NEW v \in Workers, v # w PROVE Untouched(v)
  <2>1. ProductRow(p) \notin held[v]
    BY <1>2, <1>3, Exclusive, UpdateLocks DEF IInv
  <2>2. \A q \in Products : ProductRow(q) \in held[v] => stock'[q] = stock[q]
    BY <2>1 DEF AdjustCommit, IInv, TypeOK
  <2> QED
    BY <2>2 DEF AdjustCommit, Untouched
<1> QED
  BY <1>1, <1>3, EndStep DEF AdjustCommit

\* A step of a worker between requests, on a row nobody else has locked.
LEMMA IdleStep ==
  ASSUME IInv, TypeOK', NEW w \in Workers, pc[w] = "idle", UNCHANGED <<pc, req, held>>,
         \A v \in Workers \ {w} : Untouched(v)
  PROVE  IInv'
<1>1. Good(w)'
  BY DEF Good, RequestOK, HoldsLocks, ChecksHold, SaleSteps, InTurn, HasProducts, HasFolio,
     CancelSteps, OpenSteps, CloseSteps, AdjustSteps
<1>2. \A v \in Workers \ {w} : Good(v)'
  BY RequestKept, LocksKept, ChecksKept DEF Good
<1>3. LocksExclude'
  BY DEF IInv, LocksExclude, Conflict
<1> QED
  BY <1>1, <1>2, <1>3 DEF IInv, RequestsOK, Good

LEMMA ProductUpdates ==
  ASSUME IInv, NEW w \in Workers, NEW p \in Retirable, NEW b \in BOOLEAN, UpdateProduct(w, p, b)
  PROVE  IInv' /\ StoreNext
<1>1. SetActive(p, b) /\ StoreNext
  BY DEF UpdateProduct, SetActive, StoreNext
<1>2. TypeOK'
  BY <1>1, TypeStep DEF IInv
<1>3. ASSUME NEW v \in Workers, v # w PROVE Untouched(v)
  <2>1. ProductRow(p) \notin held[v]
    BY <1>3, UpdateLocks DEF UpdateProduct, Free, Conflict
  <2> QED
    BY <2>1 DEF UpdateProduct, Untouched, IInv, TypeOK
<1> QED
  BY <1>1, <1>2, <1>3, IdleStep DEF UpdateProduct

LEMMA CustomerUpdates ==
  ASSUME IInv, NEW w \in Workers, NEW c \in Customers, NEW x \in NewTerms,
         UpdateCustomer(w, c, x)
  PROVE  IInv' /\ StoreNext
<1>1. SetTerms(c, x) /\ StoreNext
  BY DEF UpdateCustomer, SetTerms, StoreNext
<1>2. TypeOK'
  BY <1>1, TypeStep DEF IInv
<1>3. ASSUME NEW v \in Workers, v # w PROVE Untouched(v)
  <2>1. CustomerRow(c) \notin held[v]
    BY <1>3, UpdateLocks DEF UpdateCustomer, Free, Conflict
  <2> QED
    BY <2>1 DEF UpdateCustomer, Untouched, IInv, TypeOK
<1> QED
  BY <1>1, <1>2, <1>3, IdleStep DEF UpdateCustomer

-----------------------------------------------------------------------------
(* All together                                                            *)

LEMMA TxInit == Init => IInv
<1> SUFFICES ASSUME Init PROVE IInv
  OBVIOUS
<1>1. TypeOK
  BY TypeInit DEF Init
<1>2. pc \in [Workers -> Steps] /\ req \in [Workers -> ReqType]
      /\ held \in [Workers -> SUBSET LockType]
  BY BlankType DEF Init, Steps
<1>3. LocksExclude
  BY DEF Init, LocksExclude
<1>4. ASSUME NEW w \in Workers PROVE RequestOK(w) /\ HoldsLocks(w) /\ ChecksHold(w)
  <2>1. pc[w] = "idle"
    BY DEF Init
  <2> QED
    BY <2>1 DEF RequestOK, HoldsLocks, ChecksHold, SaleSteps, InTurn, HasProducts, HasFolio,
       CancelSteps, OpenSteps, CloseSteps, AdjustSteps
<1> QED
  BY <1>1, <1>2, <1>3, <1>4 DEF IInv, RequestsOK

\* Each action keeps IInv; each is a step of Store or changes no table.
LEMMA TxStep ==
  ASSUME IInv, [Next]_vars
  PROVE  IInv' /\ [StoreNext]_store
<1>1. ASSUME NEW w \in Workers, Sale(w) PROVE IInv' /\ [StoreNext]_store
  <2>1. CASE BeginSale(w)
    BY <2>1, SaleBegins DEF BeginSale, Begin
  <2>2. CASE SaleLockTurn(w)
    BY <2>2, SaleLocksTurn DEF SaleLockTurn, Go, Abort
  <2>3. CASE SaleLockProducts(w)
    BY <2>3, SaleLocksProducts DEF SaleLockProducts, Go, Abort
  <2>4. CASE SaleTakeFolio(w)
    BY <2>4, SaleTakesFolio DEF SaleTakeFolio, Go
  <2>5. CASE SaleInsert(w)
    BY <2>5, SaleInserts DEF SaleInsert, Go
  <2>6. CASE SaleDeduct(w)
    BY <2>6, SaleDeducts DEF SaleDeduct, Go
  <2>7. CASE SaleLockCustomer(w)
    BY <2>7, SaleLocksCustomer DEF SaleLockCustomer, Go, Abort
  <2>8. CASE SaleCommit(w)
    BY <2>8, SaleCommits, SaleCommitSells
  <2> QED
    BY <1>1, <2>1, <2>2, <2>3, <2>4, <2>5, <2>6, <2>7, <2>8 DEF Sale
<1>2. ASSUME NEW w \in Workers, Cancellation(w) PROVE IInv' /\ [StoreNext]_store
  <2>1. CASE BeginCancel(w)
    BY <2>1, CancelBegins DEF BeginCancel, Begin
  <2>2. CASE CancelLockSale(w)
    BY <2>2, CancelLocksSale DEF CancelLockSale, Go, Abort
  <2>3. CASE CancelLockProducts(w)
    BY <2>3, CancelLocksProducts DEF CancelLockProducts, Go, Abort
  <2>4. CASE CancelLockCustomer(w)
    BY <2>4, CancelLocksCustomer DEF CancelLockCustomer, Go
  <2>5. CASE CancelCommit(w)
    BY <2>5, CancelCommits, CancelCommitCancels
  <2> QED
    BY <1>2, <2>1, <2>2, <2>3, <2>4, <2>5 DEF Cancellation
<1>3. ASSUME NEW w \in Workers, Till(w) PROVE IInv' /\ [StoreNext]_store
  <2>1. CASE BeginOpen(w)
    BY <2>1, OpenBegins DEF BeginOpen, Begin
  <2>2. CASE OpenCheck(w)
    BY <2>2, OpenChecks DEF OpenCheck, Go, Abort
  <2>3. CASE OpenInsert(w)
    BY <2>3, OpenInserts, OpenInsertOpens
  <2>4. CASE BeginClose(w)
    BY <2>4, CloseBegins DEF BeginClose, Begin
  <2>5. CASE CloseLockTurn(w)
    BY <2>5, CloseLocksTurn DEF CloseLockTurn, Go, Abort
  <2>6. CASE CloseSum(w)
    BY <2>6, CloseSums DEF CloseSum, Go
  <2>7. CASE CloseCommit(w)
    BY <2>7, CloseCommits, CloseCommitCloses
  <2>8. CASE BeginMove(w)
    BY <2>8, MoveBegins DEF BeginMove, Begin
  <2>9. CASE MoveLockTurn(w)
    BY <2>9, MoveLocksTurn DEF MoveLockTurn, Go, Abort
  <2>10. CASE MoveCommit(w)
    BY <2>10, MoveCommits, MoveCommitMoves
  <2>11. CASE BeginExpense(w)
    BY <2>11, ExpenseBegins DEF BeginExpense, Begin
  <2>12. CASE ExpenseLockTurn(w)
    BY <2>12, ExpenseLocksTurn DEF ExpenseLockTurn, Go
  <2> QED
    BY <1>3, <2>1, <2>2, <2>3, <2>4, <2>5, <2>6, <2>7, <2>8, <2>9, <2>10, <2>11, <2>12 DEF Till
<1>4. ASSUME NEW w \in Workers, BackOffice(w) PROVE IInv' /\ [StoreNext]_store
  <2>1. CASE BeginAdjust(w)
    BY <2>1, AdjustBegins DEF BeginAdjust, Begin
  <2>2. CASE AdjustLockProduct(w)
    BY <2>2, AdjustLocksProduct DEF AdjustLockProduct, Go, Abort
  <2>3. CASE AdjustCommit(w)
    BY <2>3, AdjustCommits, AdjustCommitAdjusts
  <2>4. CASE \E p \in Retirable, b \in BOOLEAN : UpdateProduct(w, p, b)
    BY <2>4, ProductUpdates
  <2>5. CASE \E c \in Customers, x \in NewTerms : UpdateCustomer(w, c, x)
    BY <2>5, CustomerUpdates
  <2> QED
    BY <1>4, <2>1, <2>2, <2>3, <2>4, <2>5 DEF BackOffice
<1>5. ASSUME NEW w \in Workers, Rollback(w) PROVE IInv' /\ [StoreNext]_store
  BY <1>5, AbortStep DEF Rollback, Abort
<1>6. CASE UNCHANGED vars
  <2>1. UNCHANGED store /\ UNCHANGED <<pc, req, held>>
    BY <1>6 DEF vars, store
  <2>2. TypeOK'
    BY <2>1, TypeStep DEF IInv
  <2>3. \A v \in Workers : Good(v)'
    BY <2>1, Unmoved, RequestKept, LocksKept, ChecksKept DEF Good
  <2>4. LocksExclude'
    BY <2>1 DEF IInv, LocksExclude, Conflict
  <2> QED
    BY <2>1, <2>2, <2>3, <2>4 DEF IInv, RequestsOK, Good
<1> QED
  BY <1>1, <1>2, <1>3, <1>4, <1>5, <1>6 DEF Next, Handler

\* What every handler checked is true until it commits, and it holds the locks
\* that keep it so.
THEOREM TxInvariant == Spec => []IInv
<1>1. IInv /\ [Next]_vars => IInv'
  BY TxStep
<1> QED
  BY <1>1, TxInit, PTL DEF Spec

\* The handlers implement the operations of Store: every transaction takes
\* effect at its commit, all of it or nothing.
THEOREM TxRefines == Spec => RefinesStore
<1>1. Init => StoreInit
  BY DEF Init
<1>2. IInv /\ [Next]_vars => [StoreNext]_store
  BY TxStep
<1> QED
  BY <1>1, <1>2, TxInvariant, PTL DEF Spec, RefinesStore, StoreSpec

\* Every table keeps its shape, whatever the handlers do.
THEOREM TxTypes == Spec => []TypeOK
  BY TxRefines, StoreTypes, PTL DEF RefinesStore

\* However sales, cancellations and adjustments overlap, no stock that is
\* checked and no wallet becomes negative.
THEOREM TxOverdrawn == Spec => []NothingOverdrawn
  BY TxRefines, StoreOverdrawn, PTL DEF RefinesStore

\* However sales, movements and cancellations overlap with close_turn, what it
\* recorded is complete.
THEOREM TxComplete == Spec => []ClosedTurnsComplete
  BY TxRefines, StoreComplete, PTL DEF RefinesStore

\* However a sale, a movement and the closing of its turn overlap, nothing is
\* added to the turn afterwards.
THEOREM TxFrozen == Spec => ClosedTurnsFrozen
  BY TxRefines, StoreFrozen, PTL DEF RefinesStore

\* However sales overlap and abort, folios are given out once each, in order.
THEOREM TxFolios == Spec => []FoliosGapless
  BY TxRefines, StoreFolios, PTL DEF RefinesStore

\* However credit sales and changes of credit terms overlap, a charge stays
\* within the terms in force when it commits.
THEOREM TxCharges == Spec => ChargesWithinTerms
  BY TxRefines, StoreCharges, PTL DEF RefinesStore

\* However sales, cancellations and adjustments overlap or abort, each takes
\* and puts back its units once: no write of stock is lost.
THEOREM TxBalance == Spec => []StockBalance
  BY TxRefines, StoreBalance, PTL DEF RefinesStore

\* However they overlap or abort, each charge and each reversal reaches its
\* customer's balances once.
THEOREM TxReconciles == Spec => []AccountsReconcile
  BY TxRefines, StoreReconciles, PTL DEF RefinesStore
=============================================================================
