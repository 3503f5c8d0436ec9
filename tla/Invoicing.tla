----------------------------- MODULE Invoicing -----------------------------
(***************************************************************************)
(* The invoices of the backend: one of a sale, by the PAC or by Facturapi; *)
(* credit notes, payment receipts and cancellations; and the global one of *)
(* the sales of series B, which never leaves the program.  A request to    *)
(* the authority that stamps sits between statements that commit one by    *)
(* one, and a call may break off anywhere.                                 *)
(***************************************************************************)
EXTENDS Naturals, Sequences, FiniteSets

CONSTANTS
    Workers,      \* the calls served at a time
    Sales,
    MaxStamps,    \* bound of a run: stamps and local invoices
    MaxFolio,     \* bound of a run: the folios reserved
    MaxBroken     \* bound of a run: lost answers and calls broken off

ASSUME InvoicingAssumption == {MaxStamps, MaxFolio, MaxBroken} \subseteq Nat

VARIABLES
    cfdi_columns, \* whether cfdis takes what _save_cfdi writes
    service,      \* who stamps
    sale,         \* what is of each sale
    folio_actual,
    stamps,       \* the documents the authority stamped
    voided,       \* those it has cancelled
    cfdis,
    job,          \* what each call is doing
    broken,       \* how many calls broke off or lost an answer
    excused       \* the stamps those calls had made or were cancelling

invoicing == <<cfdi_columns, service, sale, folio_actual, stamps, voided, cfdis, job, broken, excused>>
config == <<cfdi_columns, service>>
authority == <<stamps, voided>>

Kinds == {"invoice", "global", "credit", "receipt"}
Idle == [at |-> "idle"]

InvoicingTypeOK ==
    /\ cfdi_columns \in {"schema", "fitting"} /\ service \in {"facturapi", "pac"}
    /\ \A s \in Sales : sale[s] \in [serie : {"none", "A", "B"}, cancelled : BOOLEAN, born : {"none", "A", "B"}]
    /\ folio_actual \in 1..MaxFolio + 1
    /\ \A n \in DOMAIN stamps : stamps[n].kind \in Kinds /\ stamps[n].sales \subseteq Sales
                                /\ stamps[n].folio \in 0..MaxFolio
    /\ voided \subseteq DOMAIN stamps /\ excused \subseteq DOMAIN stamps
    /\ \A k \in DOMAIN cfdis :
        /\ cfdis[k].stamp \in DOMAIN stamps /\ cfdis[k].sale \subseteq Sales
        /\ Cardinality(cfdis[k].sale) <= 1
        /\ cfdis[k].state \in {"valid", "cancelled"}
    /\ \A w \in Workers : job[w].at \in {"idle", "reserve", "send", "save", "promote", "void", "mark"}
    /\ broken \in 0..MaxBroken

\* cfdis.folio is TEXT in schema.sql and _save_cfdi passes a number; sales has no cfdi_uuid.
InvoicingInit ==
    /\ cfdi_columns \in {"schema", "fitting"}
    /\ service \in {"facturapi", "pac"}
    /\ sale = [s \in Sales |-> [serie |-> "none", cancelled |-> FALSE, born |-> "none"]]
    /\ folio_actual = 1
    /\ stamps = <<>> /\ voided = {} /\ cfdis = <<>>
    /\ job = [w \in Workers |-> Idle]
    /\ broken = 0 /\ excused = {}

Does(w, t) == job' = [job EXCEPT ![w] = t]
Stands(w, at) == job[w].at = at
Doc(w) == job[w].doc
\* Bounds the run.
Room == Len(stamps) + Cardinality({w \in Workers : job[w].at \in {"reserve", "send"}}) < MaxStamps

Document(kind, S) == [kind |-> kind, sales |-> S, folio |-> 0]

-----------------------------------------------------------------------------
\* Sales come and are cancelled, whatever is invoiced of them.

Sells(s, serie) ==
    /\ sale[s].serie = "none"
    /\ sale' = [sale EXCEPT ![s].serie = serie, ![s].born = serie]
    /\ UNCHANGED <<config, folio_actual, authority, cfdis, job, broken, excused>>

CancelsSale(s) ==
    /\ sale[s].serie # "none" /\ ~sale[s].cancelled
    /\ sale' = [sale EXCEPT ![s].cancelled = TRUE]
    /\ UNCHANGED <<config, folio_actual, authority, cfdis, job, broken, excused>>

-----------------------------------------------------------------------------
\* Calls begin.

Starts(w, t) ==
    /\ Stands(w, "idle") /\ Room
    /\ Does(w, t)
    /\ UNCHANGED <<config, sale, folio_actual, authority, cfdis, broken, excused>>

\* The sale is neither locked nor looked at for its status or an earlier invoice.
generate_cfdi_for_sale(w, s) ==
    /\ sale[s].serie # "none"
    /\ Starts(w, [at |-> IF service = "facturapi" THEN "send" ELSE "reserve",
                  doc |-> Document("invoice", {s})])

generate_credit_note(w, k) ==
    /\ k \in DOMAIN cfdis
    /\ Starts(w, [at |-> "reserve", doc |-> Document("credit", {})])

generate_payment_receipt(w, k) ==
    /\ k \in DOMAIN cfdis
    /\ Starts(w, [at |-> "send", doc |-> Document("receipt", {})])

get_uninvoiced_serie_b_sales ==
    {s \in Sales :
        /\ sale[s].serie = "B" /\ ~sale[s].cancelled
        /\ \A k \in DOMAIN cfdis : s \notin cfdis[k].sale}

\* Without Facturapi a name is used before it is bound, and without a key for it
\* json.dumps refuses the amounts: no request is drawn up, and nothing is written.
generate_global_cfdi(w) ==
    /\ get_uninvoiced_serie_b_sales # {} /\ service = "facturapi"
    /\ Starts(w, [at |-> "send", doc |-> Document("global", get_uninvoiced_serie_b_sales)])

-----------------------------------------------------------------------------
\* The folio.

\* A fault: the counter is read, and moved only when the invoice is done.
ReadFolio(w) ==
    /\ Stands(w, "reserve")
    /\ Does(w, [at |-> "send", doc |-> [Doc(w) EXCEPT !.folio = folio_actual]])
    /\ UNCHANGED <<config, sale, folio_actual, authority, cfdis, broken, excused>>

\* A fault: the value returned is that after the increment.
NextFolio(w) ==
    /\ Stands(w, "reserve")
    /\ folio_actual <= MaxFolio
    /\ folio_actual' = folio_actual + 1
    /\ Does(w, [at |-> "send", doc |-> [Doc(w) EXCEPT !.folio = folio_actual + 1]])
    /\ UNCHANGED <<config, sale, authority, cfdis, broken, excused>>

\* One statement increments the counter and returns what it was.
reserve_folio(w) ==
    /\ Stands(w, "reserve")
    /\ folio_actual <= MaxFolio
    /\ folio_actual' = folio_actual + 1
    /\ Does(w, [at |-> "send", doc |-> [Doc(w) EXCEPT !.folio = folio_actual]])
    /\ UNCHANGED <<config, sale, authority, cfdis, broken, excused>>

-----------------------------------------------------------------------------
\* The authority.

\* The body of a request is encoded as JSON before it is sent, which the Decimals of
\* a global invoice are not: the caller gets the error, as it gets that of a refusal.
Encodes(doc) == doc.kind # "global"

Stamped(w) ==
    /\ Stands(w, "send") /\ Encodes(Doc(w))
    /\ stamps' = Append(stamps, Doc(w))
    /\ Does(w, [at |-> "save", doc |-> Doc(w), stamp |-> Len(stamps) + 1])
    /\ UNCHANGED <<config, sale, folio_actual, voided, cfdis, broken, excused>>

Refused(w) ==
    /\ Stands(w, "send")
    /\ Does(w, Idle)
    /\ UNCHANGED <<config, sale, folio_actual, authority, cfdis, broken, excused>>

\* A timeout after the document was stamped is an error like any other.
StampedUnheard(w) ==
    /\ Stands(w, "send") /\ Encodes(Doc(w)) /\ broken < MaxBroken
    /\ stamps' = Append(stamps, Doc(w))
    /\ excused' = excused \cup {Len(stamps) + 1}
    /\ broken' = broken + 1
    /\ Does(w, Idle)
    /\ UNCHANGED <<config, sale, folio_actual, voided, cfdis>>

-----------------------------------------------------------------------------
\* Recording.

Row(w, S) == [sale |-> S, stamp |-> job[w].stamp, state |-> "valid"]

\* The error is caught by the caller: the call fails with a document stamped.
SaveRefused(w) ==
    /\ Stands(w, "save") /\ cfdi_columns = "schema"
    /\ Doc(w).kind # "receipt"
    /\ Does(w, Idle)
    /\ UNCHANGED <<config, sale, folio_actual, authority, cfdis, broken, excused>>

save_cfdi(w) ==
    /\ Stands(w, "save") /\ cfdi_columns = "fitting"
    /\ Doc(w).kind \in {"invoice", "credit"}
    /\ cfdis' = Append(cfdis, Row(w, Doc(w).sales))
    /\ Does(w, IF Doc(w).kind = "invoice" THEN [at |-> "promote", doc |-> Doc(w)] ELSE Idle)
    /\ UNCHANGED <<config, sale, folio_actual, authority, broken, excused>>

\* The row of a receipt has a folio of its own, which the column takes.
save_payment_receipt(w) ==
    /\ Stands(w, "save") /\ Doc(w).kind = "receipt"
    /\ cfdis' = Append(cfdis, Row(w, {}))
    /\ Does(w, Idle)
    /\ UNCHANGED <<config, sale, folio_actual, authority, broken, excused>>

\* Out of the columns of schema.sql this update is one too: sales has no cfdi_uuid.
promote_sale_to_serie_a(w) ==
    /\ Stands(w, "promote")
    /\ sale' = [s \in Sales |-> IF s \in Doc(w).sales THEN [sale[s] EXCEPT !.serie = "A"] ELSE sale[s]]
    /\ Does(w, Idle)
    /\ UNCHANGED <<config, folio_actual, authority, cfdis, broken, excused>>

-----------------------------------------------------------------------------
\* Cancelling an invoice.

cancel_cfdi(w, k) ==
    /\ Stands(w, "idle")
    /\ Does(w, [at |-> "void", stamp |-> cfdis[k].stamp])
    /\ UNCHANGED <<config, sale, folio_actual, authority, cfdis, broken, excused>>

Voided(w) ==
    /\ Stands(w, "void")
    /\ \/ voided' = voided \cup {job[w].stamp} /\ Does(w, [job[w] EXCEPT !.at = "mark"])
       \/ UNCHANGED voided /\ Does(w, Idle)
    /\ UNCHANGED <<config, sale, folio_actual, stamps, cfdis, broken, excused>>

MarkCancelled(w) ==
    /\ Stands(w, "mark")
    /\ cfdis' = [k \in DOMAIN cfdis |-> IF cfdis[k].stamp = job[w].stamp
                                        THEN [cfdis[k] EXCEPT !.state = "cancelled"] ELSE cfdis[k]]
    /\ Does(w, Idle)
    /\ UNCHANGED <<config, sale, folio_actual, authority, broken, excused>>

\* The process dies, or the connection breaks: what is stamped stays stamped.
BreaksOff(w) ==
    /\ ~Stands(w, "idle") /\ broken < MaxBroken
    /\ broken' = broken + 1
    /\ excused' = IF job[w].at \in {"save", "mark"} THEN excused \cup {job[w].stamp} ELSE excused
    /\ Does(w, Idle)
    /\ UNCHANGED <<config, sale, folio_actual, authority, cfdis>>

InvoicingNext ==
    \/ \E s \in Sales : Sells(s, "A") \/ Sells(s, "B") \/ CancelsSale(s)
    \/ \E w \in Workers :
        \/ \E s \in Sales : generate_cfdi_for_sale(w, s)
        \/ \E k \in DOMAIN cfdis :
            generate_credit_note(w, k) \/ generate_payment_receipt(w, k) \/ cancel_cfdi(w, k)
        \/ generate_global_cfdi(w) \/ reserve_folio(w)
        \/ Stamped(w) \/ Refused(w) \/ StampedUnheard(w)
        \/ SaveRefused(w) \/ save_cfdi(w) \/ save_payment_receipt(w)
        \/ promote_sale_to_serie_a(w)
        \/ Voided(w) \/ MarkCancelled(w) \/ BreaksOff(w)

InvoicingSpec == InvoicingInit /\ [][InvoicingNext]_invoicing

-----------------------------------------------------------------------------
Kept(n) == \E k \in DOMAIN cfdis : cfdis[k].stamp = n
InHand(n) == \E w \in Workers : job[w].at \in {"save", "mark"} /\ job[w].stamp = n

FoliosOnce ==
    \A m, n \in DOMAIN stamps : stamps[m].folio = stamps[n].folio /\ stamps[n].folio # 0 => m = n
StampsRecorded ==
    \A n \in DOMAIN stamps \ excused :
        /\ cfdi_columns = "fitting" => Kept(n) \/ InHand(n)
        /\ n \in voided => InHand(n) \/ \A k \in DOMAIN cfdis : cfdis[k].stamp = n => cfdis[k].state = "cancelled"
RowsCancelled == \A k \in DOMAIN cfdis : cfdis[k].state = "cancelled" => cfdis[k].stamp \in voided

SalesDocumented ==
    \A s \in Sales : sale[s].born = "B" /\ sale[s].serie = "A" => \E k \in DOMAIN cfdis : s \in cfdis[k].sale

\* No two documents are stamped with one folio, however the calls interleave; and
\* what the authority stamped or cancelled the backend has recorded, or a call is
\* about to, or the call broke off or was not answered - or, with the columns of
\* schema.sql, the row was refused after the stamp.  A sale leaves series B only
\* when a row of its own is recorded: that of a global invoice never is.
StampsAccounted == FoliosOnce /\ StampsRecorded /\ RowsCancelled /\ SalesDocumented
=============================================================================
