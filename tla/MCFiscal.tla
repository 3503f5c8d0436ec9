------------------------------ MODULE MCFiscal ------------------------------
(***************************************************************************)
(* Instances for TLC of Invoicing (two calls at a time, two sales), of     *)
(* Amounts and of Figures, which share no state: a behaviour chooses the   *)
(* scene it plays in.  The figures have two: turns, on one day, and days,  *)
(* with one turn and no closing or summary.                                *)
(***************************************************************************)
EXTENDS Invoicing, MCAmounts, Figures, TLC

CONSTANTS w1, w2, s1, s2

MCSymmetry == Permutations(Workers) \cup Permutations(Sales)

\* A sale paid in cash, one on credit, of a common line, and one paid in parts, of which
\* one from the wallet, that is to be invoiced and has a common line among its items.
MCKinds ==
    LET Kind(method, serie, total, net, article, loose) ==
        [method |-> method, serie |-> serie, total |-> total, net |-> net, cash |-> 0, card |-> 0, transfer |-> 0,
         article |-> article, loose |-> loose]
    IN {Kind("cash", "B", 4, 3, "a", 0), Kind("credit", "B", 2, 2, "none", 2),
        [Kind("mixed", "A", 8, 7, "a", 3) EXCEPT !.cash = 4, !.card = 2, !.transfer = 1]}

VARIABLE scene

MCInit ==
    /\ InvoicingInit /\ AmountsInit /\ FiguresInit
    /\ scene \in {"invoicing", "amounts", "turns", "days"}
    /\ scene # "invoicing" => cfdi_columns = "fitting" /\ service = "pac"
    /\ scene # "days" => behind = 0

MCNext ==
    /\ UNCHANGED scene
    /\ \/ scene = "invoicing" /\ InvoicingNext /\ UNCHANGED <<amounts, figures>>
       \/ scene = "amounts" /\ AmountsNext /\ UNCHANGED <<invoicing, figures>>
       \/ scene = "turns" /\ FiguresNext /\ UNCHANGED <<now, views, invoicing, amounts>>
       \/ /\ scene = "days" /\ FiguresNext /\ UNCHANGED <<page, invoicing, amounts>>
          /\ \A k \in Shifts : shift'[k].status # "closing"
          /\ Cardinality({k \in Shifts : shift'[k].status # "none"}) <= 1

MCSpec == MCInit /\ [][MCNext]_<<invoicing, amounts, figures, scene>>

\* Types, of the three modules.
TypesOK == InvoicingTypeOK /\ AmountsTypeOK /\ FiguresTypeOK

\* The figures that the pages of a node give of one thing, each with statements
\* of its own, differ by what the interleaving and the clocks explain, no more.
FiguresAgree == scene \in {"turns", "days"} => FiguresExplained
=============================================================================
