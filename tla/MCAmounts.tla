----------------------------- MODULE MCAmounts -----------------------------
(***************************************************************************)
(* An instance of Amounts for TLC: goods by the piece and by weight, with  *)
(* and without tax in the price, discounts, and prices that do not divide. *)
(***************************************************************************)
EXTENDS Amounts

CONSTANTS piece, kilo

Line(product, price, wholesale, is_wholesale, qty, discount, includes_tax) ==
    [product |-> product, price |-> price, price_wholesale |-> wholesale, is_wholesale |-> is_wholesale,
     qty |-> qty, discount |-> discount, price_includes_tax |-> includes_tax]

\* The price a till sends for a listed product is never that of the list, and what
\* it sends for the wholesale price of a common line may be less than nothing.  Two
\* lines are finer than the columns: 12.5 cents a piece, and less than can be written.
MCLines ==
    {Line(piece, 1, Unset, FALSE, Fine * 50000, 0, TRUE),
     Line(piece, 1, Unset, TRUE, Fine * 30000, Fine * 333, TRUE),
     Line(kilo, 1, 2, TRUE, Fine * 1250, 0, TRUE),
     Line(kilo, 1, Unset, FALSE, Fine * 3333 + 1, Fine * 5 + 1, FALSE),
     Line(Common, Fine * 350, Unset, FALSE, Fine * 20000, Fine * 1000, TRUE),
     Line(Common, Fine * 350, Fine * 299, TRUE, Fine * 10000, 0, FALSE),
     Line(Common, Fine * 350, -Fine * 99, TRUE, Fine * 5000, 0, TRUE),
     Line(Common, (Fine * 25) \div 2, Unset, FALSE, Fine * 1000000, 0, FALSE),
     Line(Common, Fine * 123456, Unset, FALSE, 1, 0, FALSE)}

\* Without a wholesale price the other one stands.
MCPriceList ==
    [p \in {piece, kilo} |->
        IF p = piece THEN [price |-> 1000, price_wholesale |-> 0, common |-> FALSE]
        ELSE [price |-> 8999, price_wholesale |-> 8505, common |-> FALSE]]

AmountsSpec == AmountsInit /\ [][AmountsNext]_amounts
=============================================================================
