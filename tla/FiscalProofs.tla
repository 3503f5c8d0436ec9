---------------------------- MODULE FiscalProofs ----------------------------
(***************************************************************************)
(* That what the authority stamps is accounted for, that a sale leaves     *)
(* series B only with a document, that the pages of a node agree on the    *)
(* figures of its sales, and that a sale and its documents add up: for any *)
(* calls, sales, stamps, folios, turns, movements, clocks, interruptions,  *)
(* prices, quantities and discounts.                                       *)
(***************************************************************************)
EXTENDS MCFiscal, SequenceTheorems, FiniteSetTheorems, NaturalsInduction, WellFoundedInduction, TLAPS

Ticket == [serie : {"none", "A", "B"}, cancelled : BOOLEAN, born : {"none", "A", "B"}]
Paper == [kind : Kinds, sales : SUBSET Sales, folio : 0..MaxFolio]
Record == [sale : SUBSET Sales, stamp : Nat, state : {"valid", "cancelled"}]

Drafting == [at : {"reserve", "send", "promote"}, doc : Paper]
Saving == [at : {"save"}, doc : Paper, stamp : Nat]
Voiding == [at : {"void", "mark"}, stamp : Nat]
Job == {Idle} \cup Drafting \cup Saving \cup Voiding

Shape ==
    /\ cfdi_columns \in {"schema", "fitting"} /\ service \in {"facturapi", "pac"}
    /\ sale \in [Sales -> Ticket]
    /\ folio_actual \in 1..MaxFolio + 1
    /\ stamps \in Seq(Paper) /\ cfdis \in Seq(Record)
    /\ voided \subseteq DOMAIN stamps /\ excused \subseteq DOMAIN stamps
    /\ job \in [Workers -> Job]
    /\ broken \in 0..MaxBroken

\* A document that is not global is of one sale, or of none.
Single(S) == S = {} \/ \E s \in Sales : S = {s}

Fits(doc) == doc.kind # "global" => Single(doc.sales)

\* What a call relies on that other calls could write.
Relies(j, ss, vs, cs) ==
    /\ j.at \in {"reserve", "send", "save"} => Fits(j.doc)
    /\ j.at \in {"save", "void", "mark"} => j.stamp \in DOMAIN ss
    /\ j.at = "promote" => \E k \in DOMAIN cs : j.doc.sales \subseteq cs[k].sale
    /\ j.at \in {"void", "mark"} => \E k \in DOMAIN cs : cs[k].stamp = j.stamp
    /\ j.at = "mark" => j.stamp \in vs
JobsRely == \A w \in Workers : Relies(job[w], stamps, voided, cfdis)

\* A row of cfdis is of a stamp, and of one sale or none.
RowsFit ==
    /\ \A k \in DOMAIN cfdis : cfdis[k].stamp \in DOMAIN stamps /\ Single(cfdis[k].sale)
    /\ \A n \in voided : Kept(n)

\* A folio that was reserved is below the counter, and nobody else's.
FoliosApart ==
    /\ \A n \in DOMAIN stamps : stamps[n].folio < folio_actual
    /\ \A w \in Workers :
        /\ Stands(w, "reserve") => Doc(w).folio = 0
        /\ Stands(w, "send") => Doc(w).folio < folio_actual
        /\ Stands(w, "send") /\ Doc(w).folio # 0 =>
            /\ \A n \in DOMAIN stamps : stamps[n].folio # Doc(w).folio
            /\ \A v \in Workers : Stands(v, "send") /\ Doc(v).folio = Doc(w).folio => v = w

\* A stamp that is about to be recorded is in no row yet, and one call's.
SavesFresh ==
    \A w \in Workers : Stands(w, "save") =>
        /\ ~Kept(job[w].stamp) /\ job[w].stamp \notin voided
        /\ \A v \in Workers : Stands(v, "save") /\ job[v].stamp = job[w].stamp => v = w

\* The inductive invariant.
InvoicingInv ==
    Shape /\ JobsRely /\ RowsFit /\ FoliosApart /\ SavesFresh /\ StampsAccounted

-----------------------------------------------------------------------------
LEMMA Appended ==
  ASSUME NEW S, NEW rows \in Seq(S), NEW row \in S
  PROVE  /\ Append(rows, row) \in Seq(S) /\ Len(rows) \in Nat
         /\ DOMAIN Append(rows, row) = DOMAIN rows \cup {Len(rows) + 1}
         /\ Len(rows) + 1 \notin DOMAIN rows
         /\ \A i \in DOMAIN rows : Append(rows, row)[i] = rows[i]
         /\ Append(rows, row)[Len(rows) + 1] = row
<1>1. /\ Append(rows, row) \in Seq(S) /\ Len(Append(rows, row)) = Len(rows) + 1
      /\ \A i \in 1..Len(rows) : Append(rows, row)[i] = rows[i]
      /\ Append(rows, row)[Len(rows) + 1] = row
  BY AppendProperties
<1>2. Len(rows) \in Nat /\ DOMAIN rows = 1..Len(rows)
  BY LenProperties
<1>3. DOMAIN Append(rows, row) = 1..Len(Append(rows, row))
  BY <1>1, LenProperties
<1> QED
  BY <1>1, <1>2, <1>3

LEMMA Tabled ==
  ASSUME Shape
  PROVE  /\ Len(stamps) \in Nat /\ Len(cfdis) \in Nat
         /\ DOMAIN stamps = 1..Len(stamps) /\ DOMAIN cfdis = 1..Len(cfdis)
         /\ \A n \in DOMAIN stamps : stamps[n] \in Paper
         /\ \A k \in DOMAIN cfdis : cfdis[k] \in Record
<1>1. stamps \in Seq(Paper) /\ cfdis \in Seq(Record)
  BY DEF Shape
<1>2. /\ Len(stamps) \in Nat /\ Len(cfdis) \in Nat
      /\ DOMAIN stamps = 1..Len(stamps) /\ DOMAIN cfdis = 1..Len(cfdis)
  BY <1>1, LenProperties
<1> QED
  BY <1>1, <1>2, ElementOfSeq

LEMMA JobOf ==
  ASSUME Shape, NEW w \in Workers
  PROVE  /\ job[w] \in Job
         /\ job[w].at \in {"reserve", "send", "promote"} => job[w] \in Drafting
         /\ job[w].at = "save" => job[w] \in Saving
         /\ job[w].at \in {"void", "mark"} => job[w] \in Voiding
         /\ job[w].at \in {"reserve", "send", "save", "promote"} => job[w].doc \in Paper
         /\ job[w].at \in {"idle", "reserve", "send", "save", "promote", "void", "mark"}
<1>1. job[w] \in Job
  BY DEF Shape
<1>2. /\ job[w].at \in {"reserve", "send", "promote"} => job[w] \in Drafting
      /\ job[w].at = "save" => job[w] \in Saving
      /\ job[w].at \in {"void", "mark"} => job[w] \in Voiding
      /\ job[w].at \in {"idle", "reserve", "send", "save", "promote", "void", "mark"}
  BY <1>1 DEF Job, Idle, Drafting, Saving, Voiding
<1> QED
  BY <1>1, <1>2 DEF Drafting, Saving

LEMMA Done ==
  ASSUME Shape, NEW w \in Workers, NEW t, Does(w, t)
  PROVE  \A v \in Workers : job'[v] = IF v = w THEN t ELSE job[v]
BY DEF Shape, Does

-----------------------------------------------------------------------------
\* The tables grow, and what is known of a row stays.
Grown ==
    /\ DOMAIN stamps \subseteq DOMAIN stamps' /\ voided \subseteq voided'
    /\ DOMAIN cfdis \subseteq DOMAIN cfdis'
    /\ \A k \in DOMAIN cfdis :
        cfdis'[k].stamp = cfdis[k].stamp /\ cfdis'[k].sale = cfdis[k].sale

\* What a call relies on, it relies on still.
LEMMA RelyHeld ==
  ASSUME InvoicingInv, Grown, NEW v \in Workers
  PROVE  Relies(job[v], stamps', voided', cfdis')
<1>1. Relies(job[v], stamps, voided, cfdis)
  BY DEF InvoicingInv, JobsRely
<1>2. job[v].at \in {"reserve", "send", "save"} => job[v].doc \in Paper
  BY JobOf DEF InvoicingInv
<1> QED
  BY <1>1, <1>2 DEF Relies, Fits, Grown, Paper

LEMMA RelyStays ==
  ASSUME InvoicingInv, Grown, NEW w \in Workers, NEW t,
         \A v \in Workers : job'[v] = IF v = w THEN t ELSE job[v],
         Relies(t, stamps', voided', cfdis')
  PROVE  JobsRely'
<1> SUFFICES ASSUME NEW v \in Workers PROVE Relies(job'[v], stamps', voided', cfdis')
  BY DEF JobsRely
<1>1. CASE v = w
  BY <1>1
<1>2. CASE v # w
  BY <1>2, RelyHeld
<1> QED
  BY <1>1, <1>2

\* Steps that neither reserve a folio nor use one.
LEMMA FoliosStay ==
  ASSUME InvoicingInv, UNCHANGED <<stamps, folio_actual>>, NEW w \in Workers, NEW t,
         \A v \in Workers : job'[v] = IF v = w THEN t ELSE job[v],
         t.at \in {"reserve", "send"} => t.doc.folio = 0
  PROVE  FoliosApart' /\ FoliosOnce'
<1>1. folio_actual \in Nat /\ 0 < folio_actual
  BY InvoicingAssumption DEF InvoicingInv, Shape
<1> QED
  BY <1>1 DEF InvoicingInv, FoliosApart, StampsAccounted, FoliosOnce, Stands, Doc

\* Steps that make no row, and void nothing.
LEMMA SavesStay ==
  ASSUME InvoicingInv, NEW w \in Workers, NEW t,
         \A v \in Workers : job'[v] = IF v = w THEN t ELSE job[v], t.at # "save",
         voided' = voided, DOMAIN cfdis' = DOMAIN cfdis,
         \A k \in DOMAIN cfdis : cfdis'[k].stamp = cfdis[k].stamp
  PROVE  SavesFresh'
BY DEF InvoicingInv, SavesFresh, Stands, Kept

\* Calls that begin or end with nothing stamped in hand, and sales.
LEMMA RecordsStay ==
  ASSUME InvoicingInv, UNCHANGED <<cfdi_columns, stamps, voided, cfdis>>, excused \subseteq excused',
         NEW w \in Workers, NEW t, \A v \in Workers : job'[v] = IF v = w THEN t ELSE job[v],
         \/ job[w].at \notin {"save", "mark"}
         \/ job[w].at = "save" /\ cfdi_columns = "schema"
         \/ job[w].stamp \in excused'
  PROVE  StampsRecorded' /\ RowsCancelled' /\ RowsFit'
<1>1. RowsCancelled' /\ RowsFit'
  BY DEF InvoicingInv, StampsAccounted, RowsCancelled, RowsFit, Kept
<1>2. ASSUME NEW n \in DOMAIN stamps \ excused', InHand(n)
      PROVE  InHand(n)' \/ (cfdi_columns = "schema" /\ n \notin voided)
  <2>1. PICK v \in Workers : job[v].at \in {"save", "mark"} /\ job[v].stamp = n
    BY <1>2 DEF InHand
  <2>2. CASE v # w
    BY <2>1, <2>2 DEF InHand
  <2>3. CASE v = w
    <3>1. cfdi_columns = "schema" /\ Stands(w, "save")
      BY <1>2, <2>1, <2>3 DEF Stands
    <3>2. n \notin voided
      BY <2>1, <2>3, <3>1 DEF InvoicingInv, SavesFresh
    <3> QED
      BY <3>1, <3>2
  <2> QED
    BY <2>2, <2>3
<1>3. ASSUME NEW n \in DOMAIN stamps' \ excused'
      PROVE  /\ cfdi_columns' = "fitting" => Kept(n)' \/ InHand(n)'
             /\ n \in voided' => InHand(n)'
                  \/ \A k \in DOMAIN cfdis' : cfdis'[k].stamp = n => cfdis'[k].state = "cancelled"
  <2>1. n \in DOMAIN stamps \ excused /\ n \in DOMAIN stamps \ excused'
    BY <1>3
  <2>2. /\ cfdi_columns = "fitting" => Kept(n) \/ InHand(n)
        /\ n \in voided => InHand(n)
             \/ \A k \in DOMAIN cfdis : cfdis[k].stamp = n => cfdis[k].state = "cancelled"
    BY <2>1 DEF InvoicingInv, StampsAccounted, StampsRecorded
  <2>3. Kept(n)' <=> Kept(n)
    BY DEF Kept
  <2> QED
    BY <1>2, <2>1, <2>2, <2>3
<1> QED
  BY <1>1, <1>3 DEF StampsRecorded

\* Steps that leave the rows and the series.
LEMMA SalesStay ==
  ASSUME InvoicingInv, UNCHANGED <<sale, cfdis>>
  PROVE  SalesDocumented'
BY DEF InvoicingInv, StampsAccounted, SalesDocumented

-----------------------------------------------------------------------------
\* The steps, one lemma for each kind of them.
LEMMA Assembled ==
  ASSUME Shape', JobsRely', RowsFit', FoliosApart', FoliosOnce', SavesFresh', StampsRecorded', RowsCancelled',
         SalesDocumented'
  PROVE  InvoicingInv'
BY DEF InvoicingInv, StampsAccounted

\* A call that begins.
LEMMA Begins ==
  ASSUME InvoicingInv, NEW w \in Workers, NEW t, Stands(w, "idle"), Does(w, t),
         UNCHANGED <<config, sale, folio_actual, authority, cfdis, broken, excused>>,
         t \in Job, Relies(t, stamps, voided, cfdis), t.at \notin {"save"},
         t.at \in {"reserve", "send"} => t.doc.folio = 0
  PROVE  InvoicingInv'
<1> USE DEF config, authority
<1>1. Shape /\ \A v \in Workers : job'[v] = IF v = w THEN t ELSE job[v]
  BY Done DEF InvoicingInv
<1>2. Shape'
  BY <1>1 DEF Shape, Does
<1>3. JobsRely'
  BY <1>1, RelyStays DEF Grown
<1>4. FoliosApart' /\ FoliosOnce'
  BY <1>1, FoliosStay
<1>5. SavesFresh'
  BY <1>1, SavesStay
<1>6. StampsRecorded' /\ RowsCancelled' /\ RowsFit'
  BY <1>1, RecordsStay DEF Stands
<1>7. SalesDocumented'
  BY SalesStay
<1> QED
  BY <1>2, <1>3, <1>4, <1>5, <1>6, <1>7, Assembled

LEMMA Drafted ==
  ASSUME InvoicingInv, NEW kind \in Kinds, NEW S \in SUBSET Sales, NEW at \in {"reserve", "send"}
  PROVE  LET t == [at |-> at, doc |-> Document(kind, S)] IN
         t \in Job /\ t.doc.folio = 0 /\ Document(kind, S) \in Paper
<1>1. 0 \in 0..MaxFolio
  BY InvoicingAssumption
<1> QED
  BY <1>1 DEF Document, Job, Drafting, Paper

LEMMA InvoiceBegins ==
  ASSUME InvoicingInv, NEW w \in Workers, NEW s \in Sales, generate_cfdi_for_sale(w, s)
  PROVE  InvoicingInv'
<1> DEFINE at == IF service = "facturapi" THEN "send" ELSE "reserve"
           t == [at |-> at, doc |-> Document("invoice", {s})]
<1>1. Stands(w, "idle") /\ Does(w, t)
      /\ UNCHANGED <<config, sale, folio_actual, authority, cfdis, broken, excused>>
  BY DEF generate_cfdi_for_sale, Starts
<1>2. t \in Job /\ t.doc.folio = 0 /\ t.at \in {"reserve", "send"}
  BY Drafted DEF Kinds
<1>3. Relies(t, stamps, voided, cfdis)
  BY DEF Relies, Fits, Document, Single
<1> QED
  BY <1>1, <1>2, <1>3, Begins

LEMMA PaperBegins ==
  ASSUME InvoicingInv, NEW w \in Workers, NEW k \in DOMAIN cfdis,
         generate_credit_note(w, k) \/ generate_payment_receipt(w, k)
  PROVE  InvoicingInv'
<1> DEFINE for_note == [at |-> "reserve", doc |-> Document("credit", {})]
           for_payment == [at |-> "send", doc |-> Document("receipt", {})]
<1>1. /\ Stands(w, "idle") /\ (Does(w, for_note) \/ Does(w, for_payment))
      /\ UNCHANGED <<config, sale, folio_actual, authority, cfdis, broken, excused>>
  BY DEF generate_credit_note, generate_payment_receipt, Starts
<1>2. for_note \in Job /\ for_note.doc.folio = 0 /\ for_payment \in Job /\ for_payment.doc.folio = 0
  BY Drafted DEF Kinds
<1>3. Relies(for_note, stamps, voided, cfdis) /\ Relies(for_payment, stamps, voided, cfdis)
  BY DEF Relies, Fits, Document, Single
<1>4. for_note.at = "reserve" /\ for_payment.at = "send"
  OBVIOUS
<1> HIDE DEF for_note, for_payment
<1> QED
  BY <1>1, <1>2, <1>3, <1>4, Begins

LEMMA GlobalBegins ==
  ASSUME InvoicingInv, NEW w \in Workers, generate_global_cfdi(w)
  PROVE  InvoicingInv'
<1> DEFINE S == get_uninvoiced_serie_b_sales
           t == [at |-> "send", doc |-> Document("global", S)]
<1>1. Stands(w, "idle") /\ Does(w, t)
      /\ UNCHANGED <<config, sale, folio_actual, authority, cfdis, broken, excused>>
  BY DEF generate_global_cfdi, Starts
<1>2. S \in SUBSET Sales
  BY DEF get_uninvoiced_serie_b_sales
<1>3. t \in Job /\ t.doc.folio = 0 /\ t.at = "send"
  BY <1>2, Drafted DEF Kinds
<1>4. t.doc.kind = "global"
  BY DEF Document
<1> HIDE DEF t
<1>5. Relies(t, stamps, voided, cfdis)
  BY <1>3, <1>4 DEF Relies, Fits
<1> QED
  BY <1>1, <1>3, <1>5, Begins

LEMMA CancelBegins ==
  ASSUME InvoicingInv, NEW w \in Workers, NEW k \in DOMAIN cfdis, cancel_cfdi(w, k)
  PROVE  InvoicingInv'
<1> DEFINE t == [at |-> "void", stamp |-> cfdis[k].stamp]
<1>1. Stands(w, "idle") /\ Does(w, t)
      /\ UNCHANGED <<config, sale, folio_actual, authority, cfdis, broken, excused>>
  BY DEF cancel_cfdi
<1>2. t \in Job
  <2>1. cfdis[k] \in Record
    BY Tabled DEF InvoicingInv
  <2> QED
    BY <2>1 DEF Job, Voiding, Record
<1>3. Relies(t, stamps, voided, cfdis)
  BY DEF Relies, InvoicingInv, RowsFit
<1> QED
  BY <1>1, <1>2, <1>3, Begins

\* A call that ends or breaks off.
LEMMA Ends ==
  ASSUME InvoicingInv, NEW w \in Workers, Refused(w) \/ SaveRefused(w) \/ BreaksOff(w)
  PROVE  InvoicingInv'
<1>1. /\ Does(w, Idle)
      /\ UNCHANGED <<cfdi_columns, service, sale, folio_actual, stamps, voided, cfdis>>
      /\ \/ UNCHANGED <<broken, excused>>
         \/ broken < MaxBroken /\ broken' = broken + 1
            /\ excused' = IF job[w].at \in {"save", "mark"} THEN excused \cup {job[w].stamp} ELSE excused
  BY DEF Refused, SaveRefused, BreaksOff, config, authority
<1>2. Shape /\ \A v \in Workers : job'[v] = IF v = w THEN Idle ELSE job[v]
  BY <1>1, Done DEF InvoicingInv
<1>3. job[w].at \in {"save", "mark"} => job[w].stamp \in DOMAIN stamps
  BY DEF InvoicingInv, JobsRely, Relies
<1>4. broken' \in 0..MaxBroken /\ excused' \subseteq DOMAIN stamps /\ excused \subseteq excused'
  <2>1. broken \in 0..MaxBroken /\ excused \subseteq DOMAIN stamps
    BY DEF InvoicingInv, Shape
  <2> QED
    BY <1>1, <1>3, <2>1, InvoicingAssumption
<1>5. Shape'
  BY <1>1, <1>2, <1>4 DEF Shape, Does, Job
<1>6. Relies(Idle, stamps, voided, cfdis) /\ Idle.at = "idle"
  BY DEF Relies, Idle
<1>7. JobsRely'
  BY <1>1, <1>2, <1>6, RelyStays DEF Grown
<1>8. FoliosApart' /\ FoliosOnce'
  BY <1>1, <1>2, <1>6, FoliosStay
<1>9. SavesFresh'
  BY <1>1, <1>2, <1>6, SavesStay
<1>10. StampsRecorded' /\ RowsCancelled' /\ RowsFit'
  <2>1. \/ job[w].at \notin {"save", "mark"}
        \/ job[w].at = "save" /\ cfdi_columns = "schema"
        \/ job[w].stamp \in excused'
    BY DEF Refused, SaveRefused, BreaksOff, Stands
  <2> QED
    BY <1>1, <1>2, <1>4, <2>1, RecordsStay
<1>11. SalesDocumented'
  BY <1>1, SalesStay
<1> QED
  BY <1>5, <1>7, <1>8, <1>9, <1>10, <1>11, Assembled

\* The counter and the document take the folio in one statement.
LEMMA FolioReserved ==
  ASSUME InvoicingInv, NEW w \in Workers, reserve_folio(w)
  PROVE  InvoicingInv'
<1> DEFINE doc == [Doc(w) EXCEPT !.folio = folio_actual]
           t == [at |-> "send", doc |-> doc]
<1>1. /\ Stands(w, "reserve") /\ Does(w, t) /\ folio_actual <= MaxFolio /\ folio_actual' = folio_actual + 1
      /\ UNCHANGED <<cfdi_columns, service, sale, stamps, voided, cfdis, broken, excused>>
  BY DEF reserve_folio, config, authority
<1>2. Shape /\ \A v \in Workers : job'[v] = IF v = w THEN t ELSE job[v]
  BY <1>1, Done DEF InvoicingInv
<1>3. Doc(w) \in Paper /\ folio_actual \in Nat /\ folio_actual # 0 /\ MaxFolio \in Nat
  BY <1>1, <1>2, JobOf, InvoicingAssumption DEF Stands, Doc, Shape
<1>4. /\ doc \in Paper /\ doc.folio = folio_actual
      /\ doc.kind = Doc(w).kind /\ doc.sales = Doc(w).sales
  BY <1>1, <1>3 DEF Paper
<1>5. Shape'
  <2>1. t \in Job
    BY <1>4 DEF Job, Drafting
  <2>2. folio_actual' \in 1..MaxFolio + 1
    BY <1>1, <1>3
  <2> HIDE DEF t
  <2> QED
    BY <1>1, <1>2, <2>1, <2>2 DEF Shape, Does
<1>6. JobsRely'
  <2>1. Relies(job[w], stamps, voided, cfdis)
    BY DEF InvoicingInv, JobsRely
  <2>2. Fits(Doc(w))
    BY <1>1, <2>1 DEF Relies, Doc, Stands
  <2>3. Fits(doc)
    BY <1>4, <2>2 DEF Fits
  <2>4. t.at = "send" /\ t.doc = doc
    OBVIOUS
  <2> HIDE DEF t
  <2>5. Relies(t, stamps, voided, cfdis)
    BY <2>3, <2>4 DEF Relies
  <2> QED
    BY <1>1, <1>2, <2>5, RelyStays DEF Grown
<1>7. FoliosApart' /\ FoliosOnce'
  <2>1. /\ \A n \in DOMAIN stamps : stamps[n].folio \in Nat /\ stamps[n].folio < folio_actual
        /\ \A v \in Workers : Stands(v, "send") => Doc(v).folio \in Nat /\ Doc(v).folio < folio_actual
    <3>1. \A n \in DOMAIN stamps : stamps[n].folio \in Nat
      BY <1>2, <1>3, Tabled DEF Paper
    <3>2. \A v \in Workers : Stands(v, "send") => Doc(v).folio \in Nat
      BY <1>2, <1>3, JobOf DEF Stands, Doc, Paper
    <3> QED
      BY <3>1, <3>2 DEF InvoicingInv, FoliosApart
  <2>2. FoliosOnce'
    BY <1>1 DEF InvoicingInv, StampsAccounted, FoliosOnce
  <2>3. t.at = "send" /\ t.doc = doc
    OBVIOUS
  <2> HIDE DEF t, doc
  <2>4. \A n \in DOMAIN stamps' : stamps'[n].folio < folio_actual'
    BY <1>1, <1>3, <2>1
  <2>5. ASSUME NEW v \in Workers
        PROVE  /\ Stands(v, "reserve")' => Doc(v)'.folio = 0
               /\ Stands(v, "send")' => Doc(v)'.folio < folio_actual'
               /\ Stands(v, "send")' /\ Doc(v)'.folio # 0 =>
                    /\ \A n \in DOMAIN stamps' : stamps'[n].folio # Doc(v)'.folio
                    /\ \A u \in Workers : Stands(u, "send")' /\ Doc(u)'.folio = Doc(v)'.folio => u = v
    <3>1. CASE v = w
      BY <1>1, <1>2, <1>3, <1>4, <2>1, <2>3, <3>1 DEF Stands, Doc
    <3>2. CASE v # w
      BY <1>1, <1>2, <1>3, <1>4, <2>1, <2>3, <3>2 DEF Stands, Doc, InvoicingInv, FoliosApart
    <3> QED
      BY <3>1, <3>2
  <2> QED
    BY <2>2, <2>4, <2>5 DEF FoliosApart
<1>8. SavesFresh'
  BY <1>1, <1>2, SavesStay
<1>9. StampsRecorded' /\ RowsCancelled' /\ RowsFit'
  BY <1>1, <1>2, RecordsStay DEF Stands
<1>10. SalesDocumented'
  BY <1>1, SalesStay
<1> QED
  BY <1>5, <1>6, <1>7, <1>8, <1>9, <1>10, Assembled

\* A document is stamped, and the call knows it or does not.
LEMMA AuthorityStamps ==
  ASSUME InvoicingInv, NEW w \in Workers, Stamped(w) \/ StampedUnheard(w)
  PROVE  InvoicingInv'
<1>1. PICK n : n = Len(stamps) + 1
  OBVIOUS
<1>2. PICK t : t = IF Stamped(w) THEN [at |-> "save", doc |-> Doc(w), stamp |-> n] ELSE Idle
  OBVIOUS
<1>3. /\ Stands(w, "send") /\ stamps' = Append(stamps, Doc(w)) /\ Does(w, t)
      /\ UNCHANGED <<cfdi_columns, service, sale, folio_actual, voided, cfdis>>
      /\ excused' \subseteq excused \cup {n} /\ excused \subseteq excused'
      /\ t.at = "save" \/ (t = Idle /\ n \in excused')
      /\ broken' \in 0..MaxBroken
  <2>1. CASE Stamped(w)
    BY <1>1, <1>2, <2>1 DEF Stamped, config, InvoicingInv, Shape
  <2>2. CASE StampedUnheard(w) /\ ~Stamped(w)
    <3>1. broken \in 0..MaxBroken /\ broken < MaxBroken /\ broken' = broken + 1
      BY <2>2 DEF StampedUnheard, InvoicingInv, Shape
    <3>2. broken' \in 0..MaxBroken
      BY <3>1, InvoicingAssumption
    <3> QED
      BY <1>1, <1>2, <2>2, <3>2 DEF StampedUnheard, config
  <2> QED
    BY <2>1, <2>2
<1>4. t.at = "save" => t = [at |-> "save", doc |-> Doc(w), stamp |-> n]
  BY <1>2 DEF Idle
<1>5. Shape /\ \A v \in Workers : job'[v] = IF v = w THEN t ELSE job[v]
  BY <1>3, Done DEF InvoicingInv
<1>6. Doc(w) \in Paper
  BY <1>3, <1>5, JobOf DEF Stands, Doc
<1>7. /\ stamps' \in Seq(Paper) /\ DOMAIN stamps' = DOMAIN stamps \cup {n} /\ n \notin DOMAIN stamps /\ n \in Nat
      /\ stamps'[n] = Doc(w) /\ \A m \in DOMAIN stamps : stamps'[m] = stamps[m]
  BY <1>1, <1>3, <1>5, <1>6, Appended DEF Shape
<1>8. Shape'
  <2>1. t \in Job
    BY <1>2, <1>6, <1>7 DEF Job, Saving
  <2> QED
    BY <1>3, <1>5, <1>7, <2>1 DEF Shape, Does
<1>9. Fits(Doc(w))
  BY <1>3 DEF InvoicingInv, JobsRely, Relies, Doc, Stands
<1>10. JobsRely'
  <2>1. Relies(t, stamps', voided', cfdis')
    BY <1>3, <1>4, <1>7, <1>9 DEF Relies, Idle
  <2> QED
    BY <1>3, <1>5, <1>7, <2>1, RelyStays DEF Grown
<1>11. RowsFit' /\ RowsCancelled'
  BY <1>3, <1>7, <1>9 DEF InvoicingInv, RowsFit, StampsAccounted, RowsCancelled, Kept, Fits
<1>12. \A m \in DOMAIN stamps : stamps[m].folio = Doc(w).folio => Doc(w).folio = 0
  BY <1>3 DEF InvoicingInv, FoliosApart
<1>13. FoliosOnce'
  BY <1>7, <1>12 DEF InvoicingInv, StampsAccounted, FoliosOnce
<1>14. FoliosApart'
  <2>1. t.at \notin {"send", "reserve"}
    BY <1>3 DEF Idle
  <2>2. Doc(w).folio < folio_actual
    BY <1>3 DEF InvoicingInv, FoliosApart
  <2>3. \A m \in DOMAIN stamps' : stamps'[m].folio < folio_actual'
    BY <1>3, <1>7, <2>2 DEF InvoicingInv, FoliosApart
  <2>4. ASSUME NEW v \in Workers, v # w, Stands(v, "send"), Doc(v).folio # 0
        PROVE  \A m \in DOMAIN stamps' : stamps'[m].folio # Doc(v).folio
    <3>1. Doc(w).folio # Doc(v).folio
      BY <1>3, <2>4 DEF InvoicingInv, FoliosApart
    <3> QED
      BY <1>7, <2>4, <3>1 DEF InvoicingInv, FoliosApart
  <2> QED
    BY <1>3, <1>5, <2>1, <2>3, <2>4 DEF InvoicingInv, FoliosApart, Stands, Doc
<1>15. SavesFresh'
  <2>1. ~Kept(n) /\ n \notin voided
    BY <1>7 DEF Kept, InvoicingInv, RowsFit, Shape
  <2>2. \A v \in Workers : Stands(v, "save") => job[v].stamp # n
    BY <1>7 DEF InvoicingInv, JobsRely, Relies, Stands
  <2>3. \A m : Kept(m)' = Kept(m)
    BY <1>3 DEF Kept
  <2>4. t.at # "save" => t.at = "idle"
    BY <1>3 DEF Idle
  <2>5. t.at = "save" => t.stamp = n
    BY <1>4
  <2> QED
    BY <1>3, <1>5, <2>1, <2>2, <2>3, <2>4, <2>5 DEF InvoicingInv, SavesFresh, Stands
<1>16. StampsRecorded'
  <2>1. \A m : InHand(m) => InHand(m)'
    BY <1>3, <1>5 DEF InHand, Stands
  <2>2. n \notin excused' => InHand(n)'
    BY <1>3, <1>4, <1>5 DEF InHand
  <2>3. \A m : Kept(m)' = Kept(m)
    BY <1>3 DEF Kept
  <2> QED
    BY <1>3, <1>7, <2>1, <2>2, <2>3 DEF InvoicingInv, StampsAccounted, StampsRecorded
<1>17. SalesDocumented'
  BY <1>3, SalesStay
<1> QED
  BY <1>8, <1>10, <1>11, <1>13, <1>14, <1>15, <1>16, <1>17, Assembled

\* Sales are rung up and cancelled.
LEMMA SalesChange ==
  ASSUME InvoicingInv, NEW s \in Sales, Sells(s, "A") \/ Sells(s, "B") \/ CancelsSale(s)
  PROVE  InvoicingInv'
<1>1. /\ UNCHANGED <<cfdi_columns, service, folio_actual, stamps, voided, cfdis, job, broken, excused>>
      /\ \/ sale[s].serie = "none" /\ sale' = [sale EXCEPT ![s].serie = "A", ![s].born = "A"]
         \/ sale[s].serie = "none" /\ sale' = [sale EXCEPT ![s].serie = "B", ![s].born = "B"]
         \/ sale' = [sale EXCEPT ![s].cancelled = TRUE]
  BY DEF Sells, CancelsSale, config, authority
<1>2. Shape /\ sale[s] \in Ticket
  BY DEF InvoicingInv, Shape
<1>3. /\ sale' \in [Sales -> Ticket]
      /\ \A z \in Sales : z # s => sale'[z] = sale[z]
      /\ sale[s].serie # "none" => sale'[s].serie = sale[s].serie /\ sale'[s].born = sale[s].born
      /\ sale'[s].serie # sale[s].serie => sale'[s].born = sale'[s].serie
  <2>1. ASSUME NEW serie \in {"A", "B"}, sale' = [sale EXCEPT ![s].serie = serie, ![s].born = serie]
        PROVE  /\ \A z \in Sales : z # s => sale'[z] = sale[z]
               /\ sale'[s] \in Ticket /\ sale'[s].serie = serie /\ sale'[s].born = serie
    BY <1>2, <2>1 DEF Shape, Ticket
  <2>2. ASSUME sale' = [sale EXCEPT ![s].cancelled = TRUE]
        PROVE  /\ \A z \in Sales : z # s => sale'[z] = sale[z]
               /\ sale'[s] \in Ticket /\ sale'[s].serie = sale[s].serie /\ sale'[s].born = sale[s].born
    BY <1>2, <2>2 DEF Shape, Ticket
  <2>3. sale' \in [Sales -> Ticket]
    <3>1. DOMAIN sale' = Sales /\ sale' = [z \in Sales |-> sale'[z]]
      BY <1>1, <1>2 DEF Shape
    <3>2. \A z \in Sales : sale'[z] \in Ticket
      BY <1>1, <1>2, <2>1, <2>2 DEF Shape
    <3> QED
      BY <3>1, <3>2
  <2> QED
    BY <1>1, <2>1, <2>2, <2>3
<1>4. Shape'
  BY <1>1, <1>2, <1>3 DEF Shape
<1>5. Grown
  BY <1>1, <1>3 DEF Grown
<1>6. JobsRely'
  <2>1. \A v \in Workers : Relies(job[v], stamps', voided', cfdis')
    BY <1>5, RelyHeld
  <2> QED
    BY <1>1, <2>1 DEF JobsRely
<1>7. FoliosApart' /\ FoliosOnce'
  BY <1>1 DEF InvoicingInv, FoliosApart, StampsAccounted, FoliosOnce, Stands, Doc
<1>8. SavesFresh' /\ StampsRecorded' /\ RowsCancelled' /\ RowsFit'
  BY <1>1 DEF InvoicingInv, SavesFresh, StampsAccounted, StampsRecorded, RowsCancelled, RowsFit, Stands, Kept, InHand
<1>9. SalesDocumented'
  BY <1>1, <1>2, <1>3 DEF InvoicingInv, StampsAccounted, SalesDocumented, Ticket
<1> QED
  BY <1>4, <1>6, <1>7, <1>8, <1>9, Assembled

LEMMA RowAdded ==
  ASSUME Shape, NEW row \in Record
  PROVE  LET k == Len(cfdis) + 1
             rows == Append(cfdis, row) IN
         /\ rows \in Seq(Record) /\ DOMAIN rows = DOMAIN cfdis \cup {k} /\ k \notin DOMAIN cfdis
         /\ rows[k] = row /\ \A i \in DOMAIN cfdis : rows[i] = cfdis[i]
         /\ k \in Nat
<1>1. cfdis \in Seq(Record) /\ Len(cfdis) \in Nat
  BY Tabled DEF Shape
<1> QED
  BY <1>1, Appended

\* The row of a document, which its call was the only one to have in hand.
LEMMA RowRecorded ==
  ASSUME InvoicingInv, NEW w \in Workers, NEW t, NEW row \in Record, NEW k, k = Len(cfdis) + 1,
         Stands(w, "save"), Does(w, t), cfdis' = Append(cfdis, row),
         UNCHANGED <<cfdi_columns, service, sale, folio_actual, stamps, voided, broken, excused>>,
         row.stamp = job[w].stamp, row.state = "valid", Single(row.sale),
         t \in Job, t.at \in {"idle", "promote"}, Relies(t, stamps, voided, cfdis')
  PROVE  InvoicingInv'
<1>1. Shape /\ \A v \in Workers : job'[v] = IF v = w THEN t ELSE job[v]
  BY Done DEF InvoicingInv
<1>2. PICK n : n = job[w].stamp
  OBVIOUS
<1>3. n \in DOMAIN stamps /\ ~Kept(n) /\ n \notin voided
      /\ \A v \in Workers : Stands(v, "save") /\ job[v].stamp = n => v = w
  BY <1>2 DEF InvoicingInv, JobsRely, Relies, SavesFresh, Stands
<1>4. /\ cfdis' \in Seq(Record) /\ DOMAIN cfdis' = DOMAIN cfdis \cup {k} /\ k \notin DOMAIN cfdis
      /\ cfdis'[k] = row /\ \A i \in DOMAIN cfdis : cfdis'[i] = cfdis[i]
  BY <1>1, Appended DEF Shape
<1>5. Shape'
  BY <1>1, <1>4 DEF Shape, Does
<1>6. JobsRely'
  BY <1>1, <1>4, RelyStays DEF Grown
<1>7. FoliosApart' /\ FoliosOnce'
  BY <1>1, FoliosStay
<1>8. \A m : Kept(m)' <=> (Kept(m) \/ m = n)
  BY <1>2, <1>4 DEF Kept
<1>9. RowsFit' /\ RowsCancelled'
  <2>1. RowsCancelled'
    BY <1>4 DEF InvoicingInv, StampsAccounted, RowsCancelled
  <2>2. \A m \in voided' : Kept(m)'
    BY <1>8 DEF InvoicingInv, RowsFit
  <2>3. ASSUME NEW i \in DOMAIN cfdis'
        PROVE  cfdis'[i].stamp \in DOMAIN stamps' /\ Single(cfdis'[i].sale)
    BY <1>2, <1>3, <1>4, <2>3 DEF InvoicingInv, RowsFit
  <2>4. \A i \in DOMAIN cfdis' : cfdis'[i].stamp \in DOMAIN stamps' /\ Single(cfdis[i].sale)'
    BY <2>3 DEF Single
  <2> QED
    BY <2>1, <2>2, <2>4 DEF RowsFit
<1>10. SavesFresh'
  <2>1. ASSUME NEW v \in Workers, Stands(v, "save")'
        PROVE  v # w /\ Stands(v, "save") /\ job'[v] = job[v] /\ job[v].stamp # n
    BY <1>1, <1>3, <2>1 DEF Stands
  <2> QED
    BY <1>8, <2>1 DEF InvoicingInv, SavesFresh
<1>11. StampsRecorded'
  <2>1. \A m : m # n /\ InHand(m) => InHand(m)'
    BY <1>1, <1>2 DEF InHand
  <2>2. ASSUME NEW m \in DOMAIN stamps' \ excused'
        PROVE  /\ cfdi_columns' = "fitting" => Kept(m)' \/ InHand(m)'
               /\ m \in voided' => InHand(m)'
                    \/ \A i \in DOMAIN cfdis' : cfdis'[i].stamp = m => cfdis'[i].state = "cancelled"
    <3>1. CASE m = n
      BY <1>3, <1>8, <3>1
    <3>2. CASE m # n
      BY <1>2, <1>4, <1>8, <2>1, <2>2, <3>2 DEF InvoicingInv, StampsAccounted, StampsRecorded
    <3> QED
      BY <3>1, <3>2
  <2> QED
    BY <2>2 DEF StampsRecorded
<1>12. SalesDocumented'
  BY ZenonT(40), <1>4 DEF InvoicingInv, StampsAccounted, SalesDocumented
<1> QED
  BY <1>5, <1>6, <1>7, <1>9, <1>10, <1>11, <1>12, Assembled

LEMMA InvoiceSaved ==
  ASSUME InvoicingInv, NEW w \in Workers, save_cfdi(w)
  PROVE  InvoicingInv'
<1>1. PICK k, row, t :
         /\ k = Len(cfdis) + 1 /\ row = Row(w, Doc(w).sales)
         /\ t = IF Doc(w).kind = "invoice" THEN [at |-> "promote", doc |-> Doc(w)] ELSE Idle
  OBVIOUS
<1>2. /\ Stands(w, "save") /\ Doc(w).kind \in {"invoice", "credit"}
      /\ cfdis' = Append(cfdis, row) /\ Does(w, t)
      /\ UNCHANGED <<cfdi_columns, service, sale, folio_actual, stamps, voided, broken, excused>>
  BY <1>1 DEF save_cfdi, config, authority
<1>3. Shape /\ job[w] \in Saving /\ Doc(w) \in Paper
  BY <1>2, JobOf DEF InvoicingInv, Stands, Doc
<1>4. row \in Record /\ row.stamp = job[w].stamp /\ row.state = "valid" /\ row.sale = Doc(w).sales
  BY <1>1, <1>2, <1>3 DEF Row, Record, Saving, Paper
<1>5. Single(row.sale)
  BY <1>2, <1>4 DEF InvoicingInv, JobsRely, Relies, Fits, Stands, Doc
<1>6. t \in Job /\ t.at \in {"idle", "promote"} /\ (t.at = "promote" => t.doc = Doc(w))
  BY <1>1, <1>3 DEF Job, Drafting, Idle
<1>7. DOMAIN cfdis' = DOMAIN cfdis \cup {k} /\ cfdis'[k] = row
  BY <1>1, <1>2, <1>3, <1>4, RowAdded
<1>8. Relies(t, stamps, voided, cfdis')
  BY <1>4, <1>6, <1>7 DEF Relies
<1> QED
  BY <1>1, <1>2, <1>4, <1>5, <1>6, <1>8, RowRecorded

LEMMA ReceiptSaved ==
  ASSUME InvoicingInv, NEW w \in Workers, save_payment_receipt(w)
  PROVE  InvoicingInv'
<1>1. PICK k, row : k = Len(cfdis) + 1 /\ row = Row(w, {})
  OBVIOUS
<1>2. /\ Stands(w, "save") /\ Doc(w).kind = "receipt"
      /\ cfdis' = Append(cfdis, row) /\ Does(w, Idle)
      /\ UNCHANGED <<cfdi_columns, service, sale, folio_actual, stamps, voided, broken, excused>>
  BY <1>1 DEF save_payment_receipt, config, authority
<1>3. Shape /\ job[w] \in Saving /\ Doc(w) \in Paper
  BY <1>2, JobOf DEF InvoicingInv, Stands, Doc
<1>4. row \in Record /\ row.stamp = job[w].stamp /\ row.state = "valid" /\ row.sale = {}
  BY <1>1, <1>3 DEF Row, Record, Saving
<1>5. Single(row.sale) /\ Idle \in Job /\ Idle.at = "idle" /\ Relies(Idle, stamps, voided, cfdis')
  BY <1>4 DEF Single, Job, Idle, Relies
<1> QED
  BY <1>1, <1>2, <1>4, <1>5, RowRecorded

\* A sale is moved to series A with the invoice that was recorded.
LEMMA SalePromoted ==
  ASSUME InvoicingInv, NEW w \in Workers, promote_sale_to_serie_a(w)
  PROVE  InvoicingInv'
<1>1. /\ Stands(w, "promote") /\ Does(w, Idle)
      /\ sale' = [s \in Sales |-> IF s \in Doc(w).sales THEN [sale[s] EXCEPT !.serie = "A"] ELSE sale[s]]
      /\ UNCHANGED <<cfdi_columns, service, folio_actual, stamps, voided, cfdis, broken, excused>>
  BY DEF promote_sale_to_serie_a, config, authority
<1>2. Shape /\ \A v \in Workers : job'[v] = IF v = w THEN Idle ELSE job[v]
  BY <1>1, Done DEF InvoicingInv
<1>3. \A s \in Sales : sale[s] \in Ticket
  BY <1>2 DEF Shape
<1>4. /\ sale' \in [Sales -> Ticket]
      /\ \A s \in Sales : sale'[s].born = sale[s].born
      /\ \A s \in Sales : s \notin Doc(w).sales => sale'[s] = sale[s]
      /\ \A s \in Sales : s \in Doc(w).sales => sale'[s].serie = "A"
  BY <1>1, <1>3 DEF Ticket
<1>5. Idle \in Job /\ Idle.at = "idle" /\ Relies(Idle, stamps, voided, cfdis)
  BY DEF Job, Idle, Relies
<1>6. Shape'
  BY <1>1, <1>2, <1>4, <1>5 DEF Shape, Does
<1>7. JobsRely'
  BY <1>1, <1>2, <1>4, <1>5, RelyStays DEF Grown
<1>8. FoliosApart' /\ FoliosOnce'
  BY <1>1, <1>2, <1>5, FoliosStay
<1>9. SavesFresh'
  BY <1>1, <1>2, <1>5, SavesStay
<1>10. StampsRecorded' /\ RowsCancelled' /\ RowsFit'
  BY <1>1, <1>2, RecordsStay DEF Stands
<1>11. SalesDocumented'
  <2>1. \E k \in DOMAIN cfdis : Doc(w).sales \subseteq cfdis[k].sale
    BY <1>1 DEF InvoicingInv, JobsRely, Relies, Stands, Doc
  <2> QED
    BY <1>1, <1>4, <2>1 DEF InvoicingInv, StampsAccounted, SalesDocumented
<1> QED
  BY <1>6, <1>7, <1>8, <1>9, <1>10, <1>11, Assembled

\* The authority cancels a document, or refuses to.
LEMMA AuthorityVoids ==
  ASSUME InvoicingInv, NEW w \in Workers, Voided(w)
  PROVE  InvoicingInv'
<1>1. PICK n, t : n = job[w].stamp /\ t = IF voided' = voided \cup {n} /\ Does(w, [job[w] EXCEPT !.at = "mark"])
                                           THEN [job[w] EXCEPT !.at = "mark"] ELSE Idle
  OBVIOUS
<1>2. /\ Stands(w, "void") /\ Does(w, t)
      /\ \/ voided' = voided \cup {n} /\ t = [job[w] EXCEPT !.at = "mark"]
         \/ voided' = voided /\ t = Idle
      /\ UNCHANGED <<cfdi_columns, service, sale, folio_actual, stamps, cfdis, broken, excused>>
  BY <1>1 DEF Voided, config
<1>3. Shape /\ job[w] \in Voiding /\ \A v \in Workers : job'[v] = IF v = w THEN t ELSE job[v]
  BY <1>2, Done, JobOf DEF InvoicingInv, Stands
<1>4. n \in DOMAIN stamps /\ \E k \in DOMAIN cfdis : cfdis[k].stamp = n
  BY <1>1, <1>2 DEF InvoicingInv, JobsRely, Relies, Stands
<1>5. /\ t \in Job
      /\ \/ t.at = "mark" /\ t.stamp = n /\ voided' = voided \cup {n}
         \/ t.at = "idle" /\ voided' = voided
  BY <1>1, <1>2, <1>3 DEF Job, Voiding, Idle
<1>6. Shape'
  <2>1. voided' \subseteq DOMAIN stamps'
    BY <1>2, <1>3, <1>4 DEF Shape
  <2> QED
    BY <1>2, <1>3, <1>5, <2>1 DEF Shape, Does
<1>7. JobsRely'
  <2>1. Relies(t, stamps', voided', cfdis')
    BY <1>2, <1>4, <1>5 DEF Relies
  <2> QED
    BY <1>2, <1>3, <2>1, RelyStays DEF Grown
<1>8. FoliosApart' /\ FoliosOnce'
  BY <1>2, <1>3, <1>5, FoliosStay
<1>9. Kept(n) /\ \A m : Kept(m)' <=> Kept(m)
  BY <1>2, <1>4 DEF Kept
<1>10. SavesFresh'
  <2>1. ASSUME NEW v \in Workers, Stands(v, "save")'
        PROVE  Stands(v, "save") /\ job'[v] = job[v] /\ job[v].stamp # n
    <3>1. Stands(v, "save") /\ job'[v] = job[v]
      BY <1>3, <1>5, <2>1 DEF Stands
    <3> QED
      BY <1>9, <3>1 DEF InvoicingInv, SavesFresh
  <2> QED
    BY <1>5, <1>9, <2>1 DEF InvoicingInv, SavesFresh
<1>11. RowsCancelled' /\ RowsFit'
  BY <1>2, <1>5, <1>9 DEF InvoicingInv, StampsAccounted, RowsCancelled, RowsFit
<1>12. StampsRecorded'
  <2>1. \A m : InHand(m) => InHand(m)'
    BY <1>2, <1>3 DEF InHand, Stands
  <2>2. n \in voided' \ voided => InHand(n)'
    BY <1>3, <1>5 DEF InHand
  <2> QED
    BY <1>2, <1>5, <1>9, <2>1, <2>2 DEF InvoicingInv, StampsAccounted, StampsRecorded
<1>13. SalesDocumented'
  BY <1>2, SalesStay
<1> QED
  BY <1>6, <1>7, <1>8, <1>10, <1>11, <1>12, <1>13, Assembled

\* Every row of a document that was cancelled says so.
LEMMA CancellationMarked ==
  ASSUME InvoicingInv, NEW w \in Workers, MarkCancelled(w)
  PROVE  InvoicingInv'
<1>1. PICK n : n = job[w].stamp
  OBVIOUS
<1>2. /\ Stands(w, "mark") /\ Does(w, Idle)
      /\ UNCHANGED <<cfdi_columns, service, sale, folio_actual, stamps, voided, broken, excused>>
  BY DEF MarkCancelled, config, authority
<1>3. Shape /\ \A v \in Workers : job'[v] = IF v = w THEN Idle ELSE job[v]
  BY <1>2, Done DEF InvoicingInv
<1>4. n \in voided /\ Kept(n)
  BY <1>1, <1>2 DEF InvoicingInv, JobsRely, Relies, Stands, Kept
<1>5. /\ cfdis' \in Seq(Record) /\ DOMAIN cfdis' = DOMAIN cfdis
      /\ \A k \in DOMAIN cfdis :
            /\ cfdis'[k].stamp = cfdis[k].stamp /\ cfdis'[k].sale = cfdis[k].sale
            /\ cfdis'[k].state = IF cfdis[k].stamp = n THEN "cancelled" ELSE cfdis[k].state
  <2>1. \A k \in DOMAIN cfdis : cfdis[k] \in Record
    BY <1>3, Tabled
  <2>2. cfdis' = [k \in DOMAIN cfdis |-> IF cfdis[k].stamp = n
                                         THEN [cfdis[k] EXCEPT !.state = "cancelled"] ELSE cfdis[k]]
    BY <1>1 DEF MarkCancelled
  <2>3. DOMAIN cfdis' = DOMAIN cfdis /\ \A k \in DOMAIN cfdis : cfdis'[k] \in Record
    BY <2>1, <2>2 DEF Record
  <2>4. cfdis' \in Seq(Record)
    <3>1. DOMAIN cfdis = 1..Len(cfdis) /\ Len(cfdis) \in Nat
      BY <1>3, Tabled
    <3>2. cfdis' \in [1..Len(cfdis) -> Record]
      BY <2>2, <2>3, <3>1
    <3> QED
      BY <3>1, <3>2, SeqDef
  <2> QED
    BY <2>1, <2>2, <2>3, <2>4 DEF Record
<1>6. Idle \in Job /\ Idle.at = "idle" /\ Relies(Idle, stamps', voided', cfdis')
  BY DEF Job, Idle, Relies
<1>7. Shape'
  BY <1>2, <1>3, <1>5, <1>6 DEF Shape, Does
<1>8. JobsRely'
  BY <1>2, <1>3, <1>5, <1>6, RelyStays DEF Grown
<1>9. FoliosApart' /\ FoliosOnce'
  BY <1>2, <1>3, <1>6, FoliosStay
<1>10. SavesFresh'
  BY <1>2, <1>3, <1>5, <1>6, SavesStay
<1>11. \A m : Kept(m)' <=> Kept(m)
  BY <1>5 DEF Kept
<1>12. RowsCancelled'
  BY <1>2, <1>4, <1>5 DEF InvoicingInv, StampsAccounted, RowsCancelled
<1>13. RowsFit'
  BY <1>2, <1>5, <1>11 DEF InvoicingInv, RowsFit, Single
<1>14. StampsRecorded'
  <2>1. \A m : m # n /\ InHand(m) => InHand(m)'
    BY <1>1, <1>3 DEF InHand
  <2>2. ASSUME NEW m \in DOMAIN stamps' \ excused'
        PROVE  /\ cfdi_columns' = "fitting" => Kept(m)' \/ InHand(m)'
               /\ m \in voided' => InHand(m)'
                    \/ \A k \in DOMAIN cfdis' : cfdis'[k].stamp = m => cfdis'[k].state = "cancelled"
    <3>1. CASE m = n
      BY <1>4, <1>5, <1>11, <3>1
    <3>2. CASE m # n
      BY <1>2, <1>5, <1>11, <2>1, <2>2, <3>2 DEF InvoicingInv, StampsAccounted, StampsRecorded
    <3> QED
      BY <3>1, <3>2
  <2> QED
    BY <2>2 DEF StampsRecorded
<1>15. SalesDocumented'
  BY ZenonT(40), <1>2, <1>5 DEF InvoicingInv, StampsAccounted, SalesDocumented
<1> QED
  BY <1>7, <1>8, <1>9, <1>10, <1>12, <1>13, <1>14, <1>15, Assembled

-----------------------------------------------------------------------------
LEMMA InvoicingStarts == InvoicingInit => InvoicingInv
<1> SUFFICES ASSUME InvoicingInit PROVE InvoicingInv
  OBVIOUS
<1>1. stamps \in Seq(Paper) /\ DOMAIN stamps = {} /\ cfdis \in Seq(Record) /\ DOMAIN cfdis = {}
  <2>1. /\ <<>> \in Seq(Paper) /\ <<>> \in Seq(Record) /\ Len(<<>>) = 0
    BY EmptySeq
  <2>2. DOMAIN <<>> = {}
    OBVIOUS
  <2> QED
    BY <2>1, <2>2 DEF InvoicingInit
<1>2. Shape
  BY <1>1, InvoicingAssumption DEF InvoicingInit, Shape, Ticket, Job
<1>3. \A w \in Workers : job[w].at = "idle"
  BY DEF InvoicingInit, Idle
<1>4. JobsRely /\ RowsFit /\ FoliosApart /\ SavesFresh
  BY <1>1, <1>3 DEF InvoicingInit, JobsRely, Relies, RowsFit, FoliosApart, SavesFresh, Stands
<1>5. StampsAccounted
  BY <1>1 DEF InvoicingInit, StampsAccounted, FoliosOnce, StampsRecorded, RowsCancelled, SalesDocumented
<1> QED
  BY <1>2, <1>4, <1>5 DEF InvoicingInv

LEMMA InvoicingSteps == InvoicingInv /\ [InvoicingNext]_invoicing => InvoicingInv'
<1> SUFFICES ASSUME InvoicingInv, [InvoicingNext]_invoicing PROVE InvoicingInv'
  OBVIOUS
<1>1. ASSUME NEW w \in Workers,
             \/ \E s \in Sales : generate_cfdi_for_sale(w, s)
             \/ \E k \in DOMAIN cfdis :
                 generate_credit_note(w, k) \/ generate_payment_receipt(w, k) \/ cancel_cfdi(w, k)
             \/ generate_global_cfdi(w) \/ reserve_folio(w)
             \/ Stamped(w) \/ Refused(w) \/ StampedUnheard(w)
             \/ SaveRefused(w) \/ save_cfdi(w) \/ save_payment_receipt(w)
             \/ promote_sale_to_serie_a(w)
             \/ Voided(w) \/ MarkCancelled(w) \/ BreaksOff(w)
      PROVE  InvoicingInv'
  BY <1>1, InvoiceBegins, PaperBegins, CancelBegins, GlobalBegins, FolioReserved, AuthorityStamps, Ends,
     InvoiceSaved, ReceiptSaved, SalePromoted, AuthorityVoids, CancellationMarked
<1>2. ASSUME NEW s \in Sales, Sells(s, "A") \/ Sells(s, "B") \/ CancelsSale(s) PROVE InvoicingInv'
  BY <1>2, SalesChange
<1>3. CASE InvoicingNext
  BY <1>1, <1>2, <1>3 DEF InvoicingNext
<1>4. CASE UNCHANGED invoicing
  <2>1. /\ Shape' /\ RowsFit' /\ FoliosApart' /\ SavesFresh'
    BY <1>4 DEF invoicing, InvoicingInv, Shape, RowsFit, Single, FoliosApart, SavesFresh, Stands, Doc, Kept
  <2>2. JobsRely'
    BY <1>4 DEF invoicing, InvoicingInv, JobsRely
  <2>3. FoliosOnce'
    BY <1>4 DEF invoicing, InvoicingInv, StampsAccounted, FoliosOnce
  <2>4. StampsRecorded'
    BY <1>4 DEF invoicing, InvoicingInv, StampsAccounted, StampsRecorded, Kept, InHand
  <2>5. RowsCancelled'
    BY <1>4 DEF invoicing, InvoicingInv, StampsAccounted, RowsCancelled, Kept, InHand
  <2>6. SalesDocumented'
    BY <1>4, SalesStay DEF invoicing
  <2> QED
    BY <2>1, <2>2, <2>3, <2>4, <2>5, <2>6, Assembled
<1> QED
  BY <1>3, <1>4

\* The inductive invariant: what a call has in hand is there and is its own, a folio
\* that was reserved is nobody else's, and a row is of what was stamped and one sale.
THEOREM InvoicingInvariant == InvoicingSpec => []InvoicingInv
  BY InvoicingStarts, InvoicingSteps, PTL DEF InvoicingSpec

LEMMA InvoicingTypesHold == InvoicingInv => InvoicingTypeOK
<1> SUFFICES ASSUME InvoicingInv PROVE InvoicingTypeOK
  OBVIOUS
<1>1. Shape /\ RowsFit
  BY DEF InvoicingInv
<1>2. \A s \in Sales : sale[s] \in [serie : {"none", "A", "B"}, cancelled : BOOLEAN, born : {"none", "A", "B"}]
  BY <1>1 DEF Shape, Ticket
<1>3. \A n \in DOMAIN stamps : stamps[n].kind \in Kinds /\ stamps[n].sales \subseteq Sales
                               /\ stamps[n].folio \in 0..MaxFolio
  BY <1>1, Tabled DEF Paper
<1>4. ASSUME NEW k \in DOMAIN cfdis
      PROVE  /\ cfdis[k].stamp \in DOMAIN stamps /\ cfdis[k].sale \subseteq Sales
             /\ Cardinality(cfdis[k].sale) <= 1 /\ cfdis[k].state \in {"valid", "cancelled"}
  <2>1. Cardinality(cfdis[k].sale) <= 1
    <3>1. Single(cfdis[k].sale)
      BY <1>1 DEF RowsFit
    <3>2. CASE cfdis[k].sale = {}
      BY <3>2, FS_EmptySet
    <3>3. ASSUME NEW s \in Sales, cfdis[k].sale = {s} PROVE Cardinality(cfdis[k].sale) <= 1
      BY <3>3, FS_Singleton
    <3> QED
      BY <3>1, <3>2, <3>3 DEF Single
  <2> QED
    BY <1>1, <2>1, Tabled DEF RowsFit, Record
<1>5. \A w \in Workers : job[w].at \in {"idle", "reserve", "send", "save", "promote", "void", "mark"}
  BY <1>1, JobOf
<1> QED
  BY <1>1, <1>2, <1>3, <1>4, <1>5 DEF Shape, InvoicingTypeOK

\* Tables and calls keep to their types.
THEOREM InvoicingTypes == InvoicingSpec => []InvoicingTypeOK
  BY InvoicingTypesHold, InvoicingInvariant, PTL

\* reserve_folio gives each document a folio of its own; what was stamped or cancelled
\* is in cfdis, or in the hands of a call, or of one that broke off; and
\* promote_sale_to_serie_a moves a sale of series B only with a row of its own.
THEOREM StampsAreAccounted == InvoicingSpec => []StampsAccounted
<1>1. InvoicingInv => StampsAccounted
  BY DEF InvoicingInv
<1> QED
  BY <1>1, InvoicingInvariant, PTL

-----------------------------------------------------------------------------
(* Sums                                                                    *)

\* What holds of nothing, and of one element more, holds of a finite set.
LEMMA SubsetInduction ==
  ASSUME NEW D, IsFiniteSet(D), NEW F, {} \in F,
         \A T \in SUBSET D, x \in D : T \in F /\ x \notin T => T \cup {x} \in F
  PROVE  D \in F
<1> DEFINE Bad == (SUBSET D) \ F
<1> SUFFICES ASSUME D \notin F PROVE FALSE
  OBVIOUS
<1>1. IsWellFoundedOn(StrictSubsetOrdering(D), FiniteSubsetsOf(D))
  BY FS_StrictSubsetOrderingWellFounded
<1>2. Bad \subseteq FiniteSubsetsOf(D) /\ Bad # {}
  BY FS_FiniteSubsetsOfFinite
<1>3. PICK T : T \in Bad /\ \A U \in Bad : ~ (<<U, T>> \in StrictSubsetOrdering(D))
  BY <1>1, <1>2, WFMin
<1>0. T \in SUBSET D /\ T \notin F
  <2>1. T \in Bad
    BY <1>3
  <2> QED
    BY ONLY <2>1
<1>4. T # {}
  BY <1>0
<1>5. PICK x \in T : TRUE
  BY <1>4
<1>6. T \ {x} \in F
  <2>1. <<T \ {x}, T>> \in StrictSubsetOrdering(D)
    BY <1>3, <1>5 DEF StrictSubsetOrdering
  <2>2. T \ {x} \notin Bad
    BY <1>3, <2>1
  <2> QED
    BY <1>0, <2>2
<1>7. (T \ {x}) \cup {x} \in F
  <2>1. T \ {x} \in SUBSET D /\ x \in D /\ x \notin T \ {x}
    BY <1>0, <1>5
  <2> QED
    BY <1>6, <2>1
<1>8. (T \ {x}) \cup {x} = T
  BY <1>5
<1> QED
  BY <1>0, <1>7, <1>8

Units(f) == UNION {{x} \X (1..f[x]) : x \in DOMAIN f}

\* Units of x join units of others.
LEMMA UnitsJoin ==
  ASSUME NEW R, IsFiniteSet(R), NEW x, NEW n \in Nat, R \cap ({x} \X (1 .. n)) = {}
  PROVE  /\ IsFiniteSet(R \cup ({x} \X (1 .. n)))
         /\ Cardinality(R \cup ({x} \X (1 .. n))) = Cardinality(R) + n
<1> DEFINE X == {x} \X (1 .. n)
<1>1. IsFiniteSet({x}) /\ Cardinality({x}) = 1
  BY FS_Singleton
<1>2. IsFiniteSet(1 .. n) /\ Cardinality(1 .. n) = n
  BY FS_Interval
<1>3. IsFiniteSet(X) /\ Cardinality(X) = Cardinality({x}) * Cardinality(1 .. n)
  BY <1>1, <1>2, FS_Product
<1>4. Cardinality(X) = n
  BY <1>1, <1>2, <1>3
<1>5. R \cap X = {} /\ Cardinality(R \cap X) = 0
  BY FS_EmptySet
<1>6. /\ IsFiniteSet(R \cup X)
      /\ Cardinality(R \cup X) = Cardinality(R) + Cardinality(X) - Cardinality(R \cap X)
  BY <1>3, FS_Union
<1>7. Cardinality(R) \in Nat
  BY FS_CardinalityType
<1> QED
  BY <1>4, <1>5, <1>6, <1>7

\* A sum over a finite set is a number, of nothing none, and of one more as much more.
LEMMA UnitsFinite ==
  ASSUME NEW S, IsFiniteSet(S), NEW h, \A x \in S : h[x] \in Nat
  PROVE  IsFiniteSet(Units([x \in S |-> h[x]]))
<1> DEFINE F == {T \in SUBSET S : IsFiniteSet(Units([x \in T |-> h[x]]))}
<1>1. {} \in F
  <2>1. Units([x \in {} |-> h[x]]) = {}
    BY DEF Units
  <2> QED
    BY <2>1, FS_EmptySet
<1>2. ASSUME NEW T \in SUBSET S, NEW x \in S, T \in F, x \notin T
      PROVE  T \cup {x} \in F
  <2> DEFINE R == Units([y \in T |-> h[y]])
  <2>1. Units([y \in T \cup {x} |-> h[y]]) = R \cup ({x} \X (1 .. h[x]))
    BY DEF Units
  <2>2. R \cap ({x} \X (1 .. h[x])) = {}
    BY <1>2 DEF Units
  <2>3. IsFiniteSet(R)
    BY <1>2
  <2> HIDE DEF R
  <2>4. IsFiniteSet(R \cup ({x} \X (1 .. h[x])))
    BY <2>2, <2>3, UnitsJoin
  <2> QED
    BY <2>1, <2>4
<1> HIDE DEF F
<1>3. S \in F
  BY <1>1, <1>2, SubsetInduction
<1> QED
  BY <1>3 DEF F

LEMMA SumIsNat ==
  ASSUME NEW S, IsFiniteSet(S), NEW h, \A x \in S : h[x] \in Nat
  PROVE  Sum([x \in S |-> h[x]]) \in Nat
  BY UnitsFinite, FS_CardinalityType DEF Sum, Units

LEMMA SumOfNone ==
  ASSUME NEW h
  PROVE  Sum([x \in {} |-> h[x]]) = 0
<1>1. Units([x \in {} |-> h[x]]) = {}
  BY DEF Units
<1> QED
  BY <1>1, FS_EmptySet DEF Sum, Units

LEMMA SumSplits ==
  ASSUME NEW S, IsFiniteSet(S), NEW T, IsFiniteSet(T), S \cap T = {},
         NEW h, \A x \in S \cup T : h[x] \in Nat
  PROVE  Sum([x \in S \cup T |-> h[x]]) = Sum([x \in S |-> h[x]]) + Sum([x \in T |-> h[x]])
<1> DEFINE A == Units([x \in S |-> h[x]])
           B == Units([x \in T |-> h[x]])
<1>1. IsFiniteSet(A) /\ IsFiniteSet(B)
  BY UnitsFinite
<1>2. Units([x \in S \cup T |-> h[x]]) = A \cup B
  BY DEF Units
<1>3. A \cap B = {}
  BY DEF Units
<1>4. Sum([x \in S |-> h[x]]) = Cardinality(A) /\ Sum([x \in T |-> h[x]]) = Cardinality(B)
  BY DEF Sum, Units
<1>5. Sum([x \in S \cup T |-> h[x]]) = Cardinality(A \cup B)
  BY <1>2 DEF Sum, Units
<1> HIDE DEF A, B
<1>6. Cardinality(A \cup B) = Cardinality(A) + Cardinality(B) - Cardinality(A \cap B)
  BY <1>1, FS_Union
<1>7. Cardinality(A \cap B) = 0 /\ Cardinality(A) \in Nat /\ Cardinality(B) \in Nat
  BY <1>1, <1>3, FS_EmptySet, FS_CardinalityType
<1> QED
  BY <1>4, <1>5, <1>6, <1>7

LEMMA SumOfOne ==
  ASSUME NEW x, NEW h, h[x] \in Nat
  PROVE  Sum([y \in {x} |-> h[y]]) = h[x]
<1>1. Units([y \in {x} |-> h[y]]) = {} \cup ({x} \X (1 .. h[x]))
  BY DEF Units
<1>2. Cardinality({} \cup ({x} \X (1 .. h[x]))) = Cardinality({}) + h[x]
  <2>1. IsFiniteSet({}) /\ {} \cap ({x} \X (1 .. h[x])) = {}
    BY FS_EmptySet
  <2> QED
    BY <2>1, UnitsJoin
<1> QED
  BY <1>1, <1>2, FS_EmptySet DEF Sum, Units

LEMMA SumJoins ==
  ASSUME NEW S, IsFiniteSet(S), NEW x, x \notin S, NEW h, \A y \in S \cup {x} : h[y] \in Nat
  PROVE  Sum([y \in S \cup {x} |-> h[y]]) = Sum([y \in S |-> h[y]]) + h[x]
<1>1. IsFiniteSet({x}) /\ S \cap {x} = {} /\ h[x] \in Nat
  BY FS_Singleton
<1>2. Sum([y \in S \cup {x} |-> h[y]]) = Sum([y \in S |-> h[y]]) + Sum([y \in {x} |-> h[y]])
  BY <1>1, SumSplits
<1>3. Sum([y \in {x} |-> h[y]]) = h[x]
  BY <1>1, SumOfOne
<1> QED
  BY <1>2, <1>3

\* Elements of no value do not count.
LEMMA SumOfSome ==
  ASSUME NEW S, NEW T \in SUBSET S, NEW h, \A x \in S \ T : h[x] = 0
  PROVE  Sum([x \in T |-> h[x]]) = Sum([x \in S |-> h[x]])
<1>1. Units([x \in T |-> h[x]]) = Units([x \in S |-> h[x]])
  <2>1. ASSUME NEW u PROVE u \in Units([x \in S |-> h[x]]) <=> \E x \in S : u \in {x} \X (1 .. h[x])
    BY DEF Units
  <2>2. ASSUME NEW u PROVE u \in Units([x \in T |-> h[x]]) <=> \E x \in T : u \in {x} \X (1 .. h[x])
    BY DEF Units
  <2>3. \A x \in S \ T : 1 .. h[x] = {}
    BY SMT
  <2>4. \A x \in S \ T : \A u : u \notin {x} \X (1 .. h[x])
    BY <2>3
  <2> QED
    BY <2>1, <2>2, <2>4
<1> QED
  BY <1>1 DEF Sum, Units

LEMMA SumAdds ==
  ASSUME NEW S, IsFiniteSet(S), NEW f, NEW g, NEW h,
         \A x \in S : f[x] \in Nat /\ g[x] \in Nat /\ h[x] = f[x] + g[x]
  PROVE  Sum([x \in S |-> h[x]]) = Sum([x \in S |-> f[x]]) + Sum([x \in S |-> g[x]])
<1> DEFINE Adds(T) == Sum([x \in T |-> h[x]]) = Sum([x \in T |-> f[x]]) + Sum([x \in T |-> g[x]])
           F == {T \in SUBSET S : Adds(T)}
<1>1. {} \in F
  <2>1. Sum([x \in {} |-> h[x]]) = 0 /\ Sum([x \in {} |-> f[x]]) = 0 /\ Sum([x \in {} |-> g[x]]) = 0
    BY SumOfNone
  <2> QED
    BY <2>1
<1>2. ASSUME NEW T \in SUBSET S, NEW x \in S, T \in F, x \notin T
      PROVE  T \cup {x} \in F
  <2>1. IsFiniteSet(T) /\ x \notin T
    BY <1>2, FS_Subset
  <2>2. (\A y \in T \cup {x} : f[y] \in Nat) /\ (\A y \in T \cup {x} : g[y] \in Nat)
           /\ (\A y \in T \cup {x} : h[y] \in Nat)
    OBVIOUS
  <2>3. Sum([y \in T \cup {x} |-> f[y]]) = Sum([y \in T |-> f[y]]) + f[x]
    BY ONLY <2>1, <2>2, SumJoins
  <2>4. Sum([y \in T \cup {x} |-> g[y]]) = Sum([y \in T |-> g[y]]) + g[x]
    BY ONLY <2>1, <2>2, SumJoins
  <2>5. Sum([y \in T \cup {x} |-> h[y]]) = Sum([y \in T |-> h[y]]) + h[x]
    BY ONLY <2>1, <2>2, SumJoins
  <2>6. Sum([y \in T |-> f[y]]) \in Nat /\ Sum([y \in T |-> g[y]]) \in Nat
    BY ONLY <2>1, <2>2, SumIsNat
  <2>7. Adds(T)
    BY <1>2
  <2>8. h[x] = f[x] + g[x] /\ f[x] \in Nat /\ g[x] \in Nat
    OBVIOUS
  <2>9. Adds(T \cup {x})
    BY ONLY <2>3, <2>4, <2>5, <2>6, <2>7, <2>8
  <2> QED
    BY <2>9
<1> HIDE DEF F
<1>3. S \in F
  BY <1>1, <1>2, SubsetInduction
<1> QED
  BY <1>3 DEF F

\* Sums of groups sum up to the sum of all that have a group.
LEMMA SumOfGroups ==
  ASSUME NEW S, IsFiniteSet(S), NEW K, IsFiniteSet(K), NEW h, \A x \in S : h[x] \in Nat, NEW key
  PROVE  Sum([k \in K |-> Sum([x \in {y \in S : key[y] = k} |-> h[x]])])
            = Sum([x \in {y \in S : key[y] \in K} |-> h[x]])
<1> DEFINE Group(k) == {y \in S : key[y] = k}
           Groups(T) == {y \in S : key[y] \in T}
           sums == [k \in K |-> Sum([x \in Group(k) |-> h[x]])]
           Add(T) == Sum([k \in T |-> sums[k]]) = Sum([x \in Groups(T) |-> h[x]])
           F == {T \in SUBSET K : Add(T)}
<1>1. \A k \in K : IsFiniteSet(Group(k)) /\ \A x \in Group(k) : h[x] \in Nat
  BY FS_Subset
<1>2. \A k \in K : Sum([x \in Group(k) |-> h[x]]) \in Nat
  BY ONLY <1>1, SumIsNat
<1>3. \A k \in K : sums[k] = Sum([x \in Group(k) |-> h[x]]) /\ sums[k] \in Nat
  BY <1>2
<1>4. {} \in F
  <2>1. Groups({}) = {}
    OBVIOUS
  <2>2. Sum([k \in {} |-> sums[k]]) = 0 /\ Sum([x \in {} |-> h[x]]) = 0
    BY SumOfNone
  <2>3. Add({})
    BY <2>1, <2>2
  <2> QED
    BY <2>3
<1>5. ASSUME NEW T \in SUBSET K, NEW k \in K, T \in F, k \notin T
      PROVE  T \cup {k} \in F
  <2>1. IsFiniteSet(T) /\ k \notin T
    BY <1>5, FS_Subset
  <2>2. \A j \in T \cup {k} : sums[j] \in Nat
    BY <1>3
  <2>3. Groups(T \cup {k}) = Groups(T) \cup Group(k) /\ Groups(T) \cap Group(k) = {}
    BY <1>5
  <2>4. IsFiniteSet(Groups(T)) /\ IsFiniteSet(Group(k))
    BY FS_Subset
  <2>10. (\A x \in Groups(T) \cup Group(k) : h[x] \in Nat) /\ Groups(T) \cap Group(k) = {}
    BY <2>3
  <2>5. sums[k] = Sum([x \in Group(k) |-> h[x]])
    BY <1>3
  <2>6. Add(T)
    BY <1>5
  <2> HIDE DEF sums, Groups, Group
  <2>7. Sum([j \in T \cup {k} |-> sums[j]]) = Sum([j \in T |-> sums[j]]) + sums[k]
    BY ONLY <2>1, <2>2, SumJoins
  <2>8. Sum([x \in Groups(T) \cup Group(k) |-> h[x]])
            = Sum([x \in Groups(T) |-> h[x]]) + Sum([x \in Group(k) |-> h[x]])
    BY ONLY <2>4, <2>10, SumSplits
  <2>9. Add(T \cup {k})
    BY ONLY <2>3, <2>5, <2>6, <2>7, <2>8
  <2> QED
    BY <2>9
<1> HIDE DEF F
<1>6. K \in F
  BY <1>4, <1>5, SubsetInduction
<1>7. Add(K)
  BY <1>6 DEF F
<1>8. [k \in K |-> sums[k]] = [k \in K |-> Sum([x \in {y \in S : key[y] = k} |-> h[x]])]
  OBVIOUS
<1> QED
  BY <1>7, <1>8

-----------------------------------------------------------------------------
(* The figures                                                             *)

Ticketed ==
    [status : {"completed", "cancelled"}, shift : Shifts, at : Nat, method : Methods, serie : {"A", "B"},
     total : Nat, net : Nat, cash : Nat, card : Nat, transfer : Nat, article : {kind.article : kind \in SaleKinds},
     loose : Nat]
\* Its common lines are some of its items, and all of them if it is of no article.
Parted(t) == t.loose <= t.net /\ (t.article = "none" => t.loose = t.net)
OpenTurn == [status : {"open"}, start : Nat]
ClosingTurn == [status : {"closing"}, start : Nat, system_sales : Int]
ClosedTurn == [status : {"closed"}, start : Nat, system_sales : Int, final_cash : Int, difference : Int]
Movement == [status : {"noted"}, shift : Shifts, type : {"in", "out", "expense"}, amount : Nat, at : Nat]
MethodRows == UNION {[M -> [total : Nat, mixed_cash_sum : Nat]] : M \in SUBSET Methods}
Reading == [at : {"reading"}, shift : Shifts, rows : MethodRows, missed : Int]
Shown == [at : {"shown"}, missed : Int, expected_cash : Int, is : Int]

FiguresShape ==
    /\ now \in 0..MaxTime /\ behind \in Offsets
    /\ ticket \in [Tickets -> {NoRow} \cup Ticketed]
    /\ \A x \in Tickets : ticket[x] \in Ticketed => Parted(ticket[x])
    /\ shift \in [Shifts -> {NoRow} \cup OpenTurn \cup ClosingTurn \cup ClosedTurn]
    /\ note \in [Notes -> {NoRow} \cup Movement]
    /\ views \in [made : BOOLEAN, of : SUBSET Tickets]
    /\ page \in {Blank} \cup Reading \cup Shown
    /\ undone \in [Shifts -> Nat] /\ touched \in BOOLEAN

\* The sales of a turn that stand, in given rows, and the cash they brought.
Stand(tk, k) == {x \in Tickets : tk[x].status = "completed" /\ tk[x].shift = k}
CashIn(r) == CASE r.method = "cash" -> r.total [] r.method = "mixed" -> r.cash [] OTHER -> 0
TurnCash(tk, k) == Sum([x \in Stand(tk, k) |-> CashIn(tk[x])])
Lent(tk) == {x \in Tickets : tk[x].status = "completed" /\ tk[x].method = "credit"}
Owing(tk) == Sum([x \in Lent(tk) |-> tk[x].total])
Moved(nt, k, types) ==
    Sum([n \in {m \in Notes : nt[m].status = "noted" /\ nt[m].type \in types /\ nt[m].shift = k} |-> nt[n].amount])

\* A sale is of a turn that was opened; only a turn that is being closed, or was,
\* has cash of cancelled sales in what its closing read.
TurnsFit ==
    /\ \A x \in Tickets : ticket[x].status # "none" => shift[ticket[x].shift].status # "none"
    /\ \A k \in Shifts :
        /\ shift[k].status \in {"none", "open"} => undone[k] = 0
        /\ shift[k].status \in {"closing", "closed"} => shift[k].system_sales = TurnCash(ticket, k) + undone[k]
        /\ shift[k].status = "closed" =>
            shift[k].final_cash - shift[k].difference
                = InitialCash + shift[k].system_sales + Moved(note, k, {"in"}) - Moved(note, k, {"out", "expense"})

\* A summary missed what was sold and cancelled since its first statement.
PageFits ==
    /\ page.at = "reading" => CashOfRows(page.rows) = TurnCash(ticket, page.shift) - page.missed
    /\ page.at = "shown" => page.expected_cash = page.is - page.missed

OwedFits == owed = Owing(ticket)

ViewsFit ==
    /\ \A x \in views.of : ticket[x].status # "none"
    /\ views.made /\ ~touched => views.of = {x \in Tickets : ticket[x].status = "completed"}

FiguresInv == FiguresShape /\ TurnsFit /\ PageFits /\ OwedFits /\ ViewsFit

LEMMA CashInIsNat ==
  ASSUME NEW r \in Ticketed
  PROVE  CashIn(r) \in Nat
  BY DEF CashIn, Ticketed

\* The rows of a finite set, with one more.
LEMMA SumGrows ==
  ASSUME NEW S, IsFiniteSet(S), NEW x, x \notin S, NEW f, NEW g,
         \A y \in S : f[y] \in Nat /\ g[y] = f[y], g[x] \in Nat
  PROVE  Sum([y \in S \cup {x} |-> g[y]]) = Sum([y \in S |-> f[y]]) + g[x]
<1>1. \A y \in S \cup {x} : g[y] \in Nat
  OBVIOUS
<1>2. Sum([y \in S \cup {x} |-> g[y]]) = Sum([y \in S |-> g[y]]) + g[x]
  BY <1>1, SumJoins
<1>3. [y \in S |-> g[y]] = [y \in S |-> f[y]]
  OBVIOUS
<1> QED
  BY <1>2, <1>3

LEMMA TicketsFinite ==
  /\ \A S \in SUBSET Tickets : IsFiniteSet(S)
  /\ \A S \in SUBSET Notes : IsFiniteSet(S)
  /\ \A S \in SUBSET Shifts : IsFiniteSet(S)
  BY FiguresAssumption, FS_Subset

\* The cash of a turn with one more sale, and what is owed.
LEMMA TurnCashGrows ==
  ASSUME NEW tk, NEW tn, NEW k, NEW x \in Tickets, x \notin Stand(tk, k), Stand(tn, k) = Stand(tk, k) \cup {x},
         \A y \in Stand(tk, k) : CashIn(tk[y]) \in Nat /\ CashIn(tn[y]) = CashIn(tk[y]),
         CashIn(tn[x]) \in Nat
  PROVE  TurnCash(tn, k) = TurnCash(tk, k) + CashIn(tn[x])
<1> DEFINE f == [y \in Tickets |-> CashIn(tk[y])]
           g == [y \in Tickets |-> CashIn(tn[y])]
           S == Stand(tk, k)
<1>1. S \in SUBSET Tickets /\ IsFiniteSet(S)
  BY TicketsFinite DEF Stand
<1>2. \A y \in S : f[y] \in Nat /\ g[y] = f[y]
  BY <1>1
<1>3. g[x] = CashIn(tn[x]) /\ g[x] \in Nat
  OBVIOUS
<1>4. TurnCash(tk, k) = Sum([y \in S |-> f[y]])
  <2>1. [y \in S |-> f[y]] = [y \in S |-> CashIn(tk[y])]
    BY <1>1
  <2> QED
    BY <2>1 DEF TurnCash
<1>5. TurnCash(tn, k) = Sum([y \in S \cup {x} |-> g[y]])
  <2>1. [y \in S \cup {x} |-> g[y]] = [y \in S \cup {x} |-> CashIn(tn[y])]
    BY <1>1
  <2> QED
    BY <2>1 DEF TurnCash
<1> HIDE DEF f, g, S
<1>6. x \notin S
  BY DEF S
<1>8. IsFiniteSet(S)
  BY <1>1
<1>9. g[x] \in Nat
  BY <1>3
<1>7. Sum([y \in S \cup {x} |-> g[y]]) = Sum([y \in S |-> f[y]]) + g[x]
  BY ONLY <1>2, <1>6, <1>8, <1>9, SumGrows
<1> QED
  BY <1>3, <1>4, <1>5, <1>7

LEMMA OwingGrows ==
  ASSUME NEW tk, NEW tn, NEW x \in Tickets, x \notin Lent(tk), Lent(tn) = Lent(tk) \cup {x},
         \A y \in Lent(tk) : tk[y].total \in Nat /\ tn[y].total = tk[y].total,
         tn[x].total \in Nat
  PROVE  Owing(tn) = Owing(tk) + tn[x].total
<1> DEFINE f == [y \in Tickets |-> tk[y].total]
           g == [y \in Tickets |-> tn[y].total]
           S == Lent(tk)
<1>1. S \in SUBSET Tickets /\ IsFiniteSet(S)
  BY TicketsFinite DEF Lent
<1>2. \A y \in S : f[y] \in Nat /\ g[y] = f[y]
  BY <1>1
<1>3. g[x] = tn[x].total /\ g[x] \in Nat
  OBVIOUS
<1>4. Owing(tk) = Sum([y \in S |-> f[y]])
  <2>1. [y \in S |-> f[y]] = [y \in S |-> tk[y].total]
    BY <1>1
  <2> QED
    BY <2>1 DEF Owing
<1>5. Owing(tn) = Sum([y \in S \cup {x} |-> g[y]])
  <2>1. [y \in S \cup {x} |-> g[y]] = [y \in S \cup {x} |-> tn[y].total]
    BY <1>1
  <2> QED
    BY <2>1 DEF Owing
<1> HIDE DEF f, g, S
<1>6. x \notin S
  BY DEF S
<1>8. IsFiniteSet(S)
  BY <1>1
<1>9. g[x] \in Nat
  BY <1>3
<1>7. Sum([y \in S \cup {x} |-> g[y]]) = Sum([y \in S |-> f[y]]) + g[x]
  BY ONLY <1>2, <1>6, <1>8, <1>9, SumGrows
<1> QED
  BY <1>3, <1>4, <1>5, <1>7

\* Rows that differ in none of the sales of a turn give the same cash.
LEMMA TurnCashSame ==
  ASSUME NEW tk, NEW tn, NEW k, Stand(tn, k) = Stand(tk, k),
         \A y \in Stand(tk, k) : CashIn(tn[y]) = CashIn(tk[y])
  PROVE  TurnCash(tn, k) = TurnCash(tk, k)
  BY DEF TurnCash

LEMMA OwingSame ==
  ASSUME NEW tk, NEW tn, Lent(tn) = Lent(tk), \A y \in Lent(tk) : tn[y].total = tk[y].total
  PROVE  Owing(tn) = Owing(tk)
  BY DEF Owing

\* A sale made.
LEMMA SaleCounts ==
  ASSUME NEW tk \in [Tickets -> {NoRow} \cup Ticketed], NEW x \in Tickets, tk[x].status = "none",
         NEW r \in Ticketed, r.status = "completed",
         NEW tn \in [Tickets -> {NoRow} \cup Ticketed], tn[x] = r, \A y \in Tickets : y # x => tn[y] = tk[y]
  PROVE  /\ \A k \in Shifts : TurnCash(tn, k) = IF k = r.shift THEN TurnCash(tk, k) + CashIn(r) ELSE TurnCash(tk, k)
         /\ Owing(tn) = IF r.method = "credit" THEN Owing(tk) + r.total ELSE Owing(tk)
<1>1. tn[x] = r /\ \A y \in Tickets : y # x => tn[y] = tk[y]
  OBVIOUS
<1>2. r.total \in Nat /\ CashIn(r) \in Nat
  BY CashInIsNat DEF Ticketed
<1>3. \A y \in Tickets : tk[y].status = "completed" => tk[y] \in Ticketed /\ y # x
  BY DEF NoRow
<1>4. \A y \in Tickets : tk[y].status = "completed" => tk[y].total \in Nat /\ CashIn(tk[y]) \in Nat
  BY <1>3, CashInIsNat DEF Ticketed
<1>5. ASSUME NEW k \in Shifts
      PROVE  TurnCash(tn, k) = IF k = r.shift THEN TurnCash(tk, k) + CashIn(r) ELSE TurnCash(tk, k)
  <2>1. CASE k = r.shift
    <3>1. x \notin Stand(tk, k)
      BY DEF Stand
    <3>2. Stand(tn, k) = Stand(tk, k) \cup {x}
      BY <1>1, <2>1 DEF Stand
    <3>3. \A y \in Stand(tk, k) : CashIn(tk[y]) \in Nat /\ CashIn(tn[y]) = CashIn(tk[y])
      BY <1>1, <1>3, <1>4 DEF Stand
    <3>4. CashIn(tn[x]) \in Nat
      BY <1>1, <1>2
    <3>5. TurnCash(tn, k) = TurnCash(tk, k) + CashIn(tn[x])
      BY ONLY x \in Tickets, <3>1, <3>2, <3>3, <3>4, TurnCashGrows
    <3> QED
      BY <1>1, <2>1, <3>5
  <2>2. CASE k # r.shift
    <3>1. Stand(tn, k) = Stand(tk, k)
      BY <1>1, <2>2 DEF Stand
    <3>2. \A y \in Stand(tk, k) : CashIn(tn[y]) = CashIn(tk[y])
      BY <1>1, <1>3 DEF Stand
    <3> QED
      BY <2>2, <3>1, <3>2, TurnCashSame
  <2> QED
    BY <2>1, <2>2
<1>6. Owing(tn) = IF r.method = "credit" THEN Owing(tk) + r.total ELSE Owing(tk)
  <2>1. CASE r.method = "credit"
    <3>1. x \notin Lent(tk)
      BY DEF Lent
    <3>2. Lent(tn) = Lent(tk) \cup {x}
      BY <1>1, <2>1 DEF Lent
    <3>3. \A y \in Lent(tk) : tk[y].total \in Nat /\ tn[y].total = tk[y].total
      BY <1>1, <1>3, <1>4 DEF Lent
    <3>4. tn[x].total \in Nat
      BY <1>1, <1>2
    <3>5. Owing(tn) = Owing(tk) + tn[x].total
      BY ONLY x \in Tickets, <3>1, <3>2, <3>3, <3>4, OwingGrows
    <3> QED
      BY <1>1, <2>1, <3>5
  <2>2. CASE r.method # "credit"
    <3>1. Lent(tn) = Lent(tk)
      BY <1>1, <2>2 DEF Lent
    <3>2. \A y \in Lent(tk) : tn[y].total = tk[y].total
      BY <1>1, <1>3 DEF Lent
    <3> QED
      BY <2>2, <3>1, <3>2, OwingSame
  <2> QED
    BY <2>1, <2>2
<1> QED
  BY <1>5, <1>6

\* A sale cancelled.
LEMMA CancelCounts ==
  ASSUME NEW tk \in [Tickets -> {NoRow} \cup Ticketed], NEW x \in Tickets, tk[x].status = "completed",
         NEW tn \in [Tickets -> {NoRow} \cup Ticketed], tn[x].status = "cancelled",
         \A y \in Tickets : y # x => tn[y] = tk[y]
  PROVE  /\ \A k \in Shifts : TurnCash(tk, k) = IF k = tk[x].shift THEN TurnCash(tn, k) + CashIn(tk[x]) ELSE TurnCash(tn, k)
         /\ Owing(tk) = IF tk[x].method = "credit" THEN Owing(tn) + tk[x].total ELSE Owing(tn)
<1>0. tk[x] \in Ticketed
  BY DEF NoRow
<1>1. \A y \in Tickets : y # x => tn[y] = tk[y]
  OBVIOUS
<1>2. tn[x].status = "cancelled"
  OBVIOUS
<1>4. \A y \in Tickets : tn[y].status = "completed" => tn[y] \in Ticketed /\ y # x
  BY <1>2 DEF NoRow
<1>5. \A y \in Tickets : tn[y].status = "completed" => tn[y].total \in Nat /\ CashIn(tn[y]) \in Nat
  BY <1>4, CashInIsNat DEF Ticketed
<1>6. CashIn(tk[x]) \in Nat /\ tk[x].total \in Nat
  BY <1>0, CashInIsNat DEF Ticketed
<1>7. ASSUME NEW k \in Shifts
      PROVE  TurnCash(tk, k) = IF k = tk[x].shift THEN TurnCash(tn, k) + CashIn(tk[x]) ELSE TurnCash(tn, k)
  <2>1. CASE k = tk[x].shift
    <3>1. x \notin Stand(tn, k)
      BY <1>2 DEF Stand
    <3>2. Stand(tk, k) = Stand(tn, k) \cup {x}
      BY <1>1, <1>2, <2>1 DEF Stand
    <3>3. \A y \in Stand(tn, k) : CashIn(tn[y]) \in Nat /\ CashIn(tk[y]) = CashIn(tn[y])
      BY <1>1, <1>4, <1>5 DEF Stand
    <3>5. TurnCash(tk, k) = TurnCash(tn, k) + CashIn(tk[x])
      BY ONLY x \in Tickets, <1>6, <3>1, <3>2, <3>3, TurnCashGrows
    <3> QED
      BY <2>1, <3>5
  <2>2. CASE k # tk[x].shift
    <3>1. Stand(tk, k) = Stand(tn, k)
      BY <1>1, <1>2, <2>2 DEF Stand
    <3>2. \A y \in Stand(tn, k) : CashIn(tk[y]) = CashIn(tn[y])
      BY <1>1, <1>4 DEF Stand
    <3>3. TurnCash(tk, k) = TurnCash(tn, k)
      BY ONLY <3>1, <3>2, TurnCashSame
    <3> QED
      BY <2>2, <3>3
  <2> QED
    BY <2>1, <2>2
<1>8. Owing(tk) = IF tk[x].method = "credit" THEN Owing(tn) + tk[x].total ELSE Owing(tn)
  <2>1. CASE tk[x].method = "credit"
    <3>1. x \notin Lent(tn)
      BY <1>2 DEF Lent
    <3>2. Lent(tk) = Lent(tn) \cup {x}
      BY <1>1, <1>2, <2>1 DEF Lent
    <3>3. \A y \in Lent(tn) : tn[y].total \in Nat /\ tk[y].total = tn[y].total
      BY <1>1, <1>4, <1>5 DEF Lent
    <3>5. Owing(tk) = Owing(tn) + tk[x].total
      BY ONLY x \in Tickets, <1>6, <3>1, <3>2, <3>3, OwingGrows
    <3> QED
      BY <2>1, <3>5
  <2>2. CASE tk[x].method # "credit"
    <3>1. Lent(tk) = Lent(tn)
      BY <1>1, <1>2, <2>2 DEF Lent
    <3>2. \A y \in Lent(tn) : tk[y].total = tn[y].total
      BY <1>1, <1>4 DEF Lent
    <3> QED
      BY <2>2, <3>1, <3>2, OwingSame
  <2> QED
    BY <2>1, <2>2
<1> QED
  BY <1>7, <1>8

LEMMA CashOfTurn ==
  ASSUME NEW k \in Shifts
  PROVE  Cash(OfShift(k)) = TurnCash(ticket, k)
<1>1. OfShift(k) = Stand(ticket, k)
  BY DEF OfShift, Completed, Stand
<1>2. \A x \in Tickets : CashOf(x) = CashIn(ticket[x])
  BY DEF CashOf, CashIn
<1>3. [x \in Stand(ticket, k) |-> CashOf(x)] = [x \in Stand(ticket, k) |-> CashIn(ticket[x])]
  BY <1>2 DEF Stand
<1> QED
  BY <1>1, <1>3 DEF Cash, TurnCash

LEMMA DrawerOfTurn ==
  ASSUME NEW k \in Shifts, NEW c
  PROVE  Drawer(c, k) = InitialCash + c + Moved(note, k, {"in"}) - Moved(note, k, {"out", "expense"})
<1>1. ASSUME NEW types
      PROVE  Amount({n \in Noted(types) : note[n].shift = k}) = Moved(note, k, types)
  <2>1. {n \in Noted(types) : note[n].shift = k}
            = {m \in Notes : note[m].status = "noted" /\ note[m].type \in types /\ note[m].shift = k}
    BY DEF Noted
  <2> QED
    BY <2>1 DEF Amount, Moved
<1> QED
  BY <1>1 DEF Drawer

LEMMA TurnCashIsNat ==
  ASSUME NEW tk \in [Tickets -> {NoRow} \cup Ticketed], NEW k \in Shifts
  PROVE  TurnCash(tk, k) \in Nat
<1> DEFINE S == Stand(tk, k)
           h == [x \in S |-> CashIn(tk[x])]
<1>1. IsFiniteSet(S)
  BY TicketsFinite DEF Stand
<1>2. \A x \in S : tk[x] \in Ticketed
  BY DEF Stand, NoRow
<1>3. \A x \in S : h[x] \in Nat
  BY <1>2, CashInIsNat
<1>4. [x \in S |-> h[x]] = [x \in S |-> CashIn(tk[x])]
  OBVIOUS
<1>5. TurnCash(tk, k) = Sum([x \in S |-> h[x]])
  BY <1>4 DEF TurnCash
<1> HIDE DEF S, h
<1>6. Sum([x \in S |-> h[x]]) \in Nat
  BY ONLY <1>1, <1>3, SumIsNat
<1> QED
  BY <1>5, <1>6

LEMMA OwingIsNat ==
  ASSUME NEW tk \in [Tickets -> {NoRow} \cup Ticketed]
  PROVE  Owing(tk) \in Nat
<1> DEFINE S == Lent(tk)
           h == [x \in S |-> tk[x].total]
<1>1. IsFiniteSet(S)
  BY TicketsFinite DEF Lent
<1>2. \A x \in S : tk[x] \in Ticketed
  BY DEF Lent, NoRow
<1>3. \A x \in S : h[x] \in Nat
  BY <1>2 DEF Ticketed
<1>4. [x \in S |-> h[x]] = [x \in S |-> tk[x].total]
  OBVIOUS
<1>5. Owing(tk) = Sum([x \in S |-> h[x]])
  BY <1>4 DEF Owing
<1> HIDE DEF S, h
<1>6. Sum([x \in S |-> h[x]]) \in Nat
  BY ONLY <1>1, <1>3, SumIsNat
<1> QED
  BY <1>5, <1>6

LEMMA MovedIsNat ==
  ASSUME FiguresShape, NEW k, NEW types
  PROVE  Moved(note, k, types) \in Nat
<1> DEFINE S == {m \in Notes : note[m].status = "noted" /\ note[m].type \in types /\ note[m].shift = k}
           h == [x \in S |-> note[x].amount]
<1>1. IsFiniteSet(S)
  BY TicketsFinite
<1>2. \A x \in S : note[x] \in Movement
  BY DEF FiguresShape, NoRow
<1>3. \A x \in S : h[x] \in Nat
  BY <1>2 DEF Movement
<1>4. [x \in S |-> h[x]] = [x \in S |-> note[x].amount]
  OBVIOUS
<1>5. Moved(note, k, types) = Sum([x \in S |-> h[x]])
  BY <1>4 DEF Moved
<1> HIDE DEF S, h
<1>6. Sum([x \in S |-> h[x]]) \in Nat
  BY ONLY <1>1, <1>3, SumIsNat
<1> QED
  BY <1>5, <1>6

\* The rows of a summary's first statement add up to the turn's cash.
LEMMA RowsAddUp ==
  ASSUME FiguresShape, NEW k \in Shifts
  PROVE  by_method(k) \in MethodRows /\ CashOfRows(by_method(k)) = TurnCash(ticket, k)
<1> DEFINE S == OfShift(k)
           Of(m) == {x \in S : ticket[x].method = m}
           totals == [x \in Tickets |-> ticket[x].total]
           parts == [x \in Tickets |-> ticket[x].cash]
           M == {ticket[x].method : x \in S}
           rows == [m \in M |-> [total |-> Total(Of(m)), mixed_cash_sum |-> Sum([x \in Of(m) |-> ticket[x].cash])]]
<1>0. by_method(k) = rows
  BY DEF by_method
<1>1. S \in SUBSET Tickets /\ IsFiniteSet(S) /\ \A m : IsFiniteSet(Of(m))
  BY TicketsFinite DEF OfShift, Completed
<1>2. \A x \in S : ticket[x] \in Ticketed
  BY DEF FiguresShape, OfShift, Completed, NoRow
<1>3. \A x \in S : totals[x] \in Nat /\ parts[x] \in Nat /\ totals[x] = ticket[x].total /\ parts[x] = ticket[x].cash
  BY <1>1, <1>2 DEF Ticketed
<1>4. ASSUME NEW m
      PROVE  /\ Total(Of(m)) = Sum([x \in Of(m) |-> totals[x]])
             /\ Sum([x \in Of(m) |-> ticket[x].cash]) = Sum([x \in Of(m) |-> parts[x]])
             /\ Total(Of(m)) \in Nat /\ Sum([x \in Of(m) |-> ticket[x].cash]) \in Nat
  <2>1. [x \in Of(m) |-> totals[x]] = [x \in Of(m) |-> ticket[x].total]
    BY <1>3
  <2>2. [x \in Of(m) |-> parts[x]] = [x \in Of(m) |-> ticket[x].cash]
    BY <1>3
  <2>3. IsFiniteSet(Of(m)) /\ (\A x \in Of(m) : totals[x] \in Nat) /\ (\A x \in Of(m) : parts[x] \in Nat)
    BY <1>1, <1>3
  <2>4. Sum([x \in Of(m) |-> totals[x]]) \in Nat
    BY ONLY <2>3, SumIsNat
  <2>5. Sum([x \in Of(m) |-> parts[x]]) \in Nat
    BY ONLY <2>3, SumIsNat
  <2> QED
    BY <2>1, <2>2, <2>4, <2>5 DEF Total
<1>5. rows \in MethodRows
  <2>1. M \in SUBSET Methods
    BY <1>2 DEF Ticketed
  <2>2. rows \in [M -> [total : Nat, mixed_cash_sum : Nat]]
    BY <1>4
  <2> HIDE DEF rows, M
  <2> QED
    BY <2>1, <2>2 DEF MethodRows
<1> DEFINE f == [x \in S |-> IF ticket[x].method = "cash" THEN ticket[x].total ELSE 0]
           g == [x \in S |-> IF ticket[x].method = "mixed" THEN ticket[x].cash ELSE 0]
           h == [x \in S |-> CashIn(ticket[x])]
<1>6. \A x \in S : f[x] \in Nat /\ g[x] \in Nat /\ h[x] = f[x] + g[x]
  BY <1>2 DEF CashIn, Ticketed
<1>7. Sum([x \in S |-> h[x]]) = Sum([x \in S |-> f[x]]) + Sum([x \in S |-> g[x]])
  <2> HIDE DEF f, g, h, S
  <2>1. IsFiniteSet(S)
    BY <1>1
  <2> QED
    BY ONLY <1>6, <2>1, SumAdds
<1>8. Sum([x \in S |-> h[x]]) = TurnCash(ticket, k)
  <2>1. S = Stand(ticket, k)
    BY DEF OfShift, Completed, Stand
  <2>2. [x \in S |-> h[x]] = [x \in S |-> CashIn(ticket[x])]
    OBVIOUS
  <2> QED
    BY <2>1, <2>2 DEF TurnCash
<1>9. Sum([x \in S |-> f[x]]) = IF "cash" \in M THEN Total(Of("cash")) ELSE 0
  <2>1. Sum([x \in Of("cash") |-> f[x]]) = Sum([x \in S |-> f[x]])
    <3>1. Of("cash") \in SUBSET S /\ \A x \in S \ Of("cash") : f[x] = 0
      OBVIOUS
    <3> HIDE DEF f, S, Of
    <3> QED
      BY ONLY <3>1, SumOfSome
  <2>2. [x \in Of("cash") |-> f[x]] = [x \in Of("cash") |-> ticket[x].total]
    OBVIOUS
  <2>3. Sum([x \in S |-> f[x]]) = Total(Of("cash"))
    BY <2>1, <2>2 DEF Total
  <2>4. CASE "cash" \in M
    BY <2>3, <2>4
  <2>5. CASE "cash" \notin M
    <3>1. Of("cash") = {}
      BY <2>5
    <3>2. Sum([x \in {} |-> f[x]]) = 0
      BY SumOfNone
    <3> QED
      BY <2>1, <2>5, <3>1, <3>2
  <2> QED
    BY <2>4, <2>5
<1>10. Sum([x \in S |-> g[x]]) = IF "mixed" \in M THEN Sum([x \in Of("mixed") |-> ticket[x].cash]) ELSE 0
  <2>1. Sum([x \in Of("mixed") |-> g[x]]) = Sum([x \in S |-> g[x]])
    <3>1. Of("mixed") \in SUBSET S /\ \A x \in S \ Of("mixed") : g[x] = 0
      OBVIOUS
    <3> HIDE DEF g, S, Of
    <3> QED
      BY ONLY <3>1, SumOfSome
  <2>2. [x \in Of("mixed") |-> g[x]] = [x \in Of("mixed") |-> ticket[x].cash]
    OBVIOUS
  <2>3. Sum([x \in S |-> g[x]]) = Sum([x \in Of("mixed") |-> ticket[x].cash])
    BY <2>1, <2>2
  <2>4. CASE "mixed" \in M
    BY <2>3, <2>4
  <2>5. CASE "mixed" \notin M
    <3>1. Of("mixed") = {}
      BY <2>5
    <3>2. Sum([x \in {} |-> g[x]]) = 0
      BY SumOfNone
    <3> QED
      BY <2>1, <2>5, <3>1, <3>2
  <2> QED
    BY <2>4, <2>5
<1>11. CashOfRows(rows) = (IF "cash" \in M THEN Total(Of("cash")) ELSE 0)
            + (IF "mixed" \in M THEN Sum([x \in Of("mixed") |-> ticket[x].cash]) ELSE 0)
  <2>1. DOMAIN rows = M
    OBVIOUS
  <2>2. \A m \in M : rows[m].total = Total(Of(m)) /\ rows[m].mixed_cash_sum = Sum([x \in Of(m) |-> ticket[x].cash])
    OBVIOUS
  <2> HIDE DEF rows, M, Of, S
  <2> QED
    BY <2>1, <2>2 DEF CashOfRows
<1> HIDE DEF rows, M, Of, S, f, g, h
<1> QED
  BY <1>0, <1>5, <1>7, <1>8, <1>9, <1>10, <1>11

LEMMA FiguresStart == FiguresInit => FiguresInv
<1> SUFFICES ASSUME FiguresInit PROVE FiguresInv
  OBVIOUS
<1>1. FiguresShape
  <2>0. MaxTime \in Nat
    BY FiguresAssumption
  <2>4. now \in 0..MaxTime
    BY <2>0 DEF FiguresInit
  <2>1. behind \in Offsets /\ touched \in BOOLEAN
    BY DEF FiguresInit
  <2>2. views \in [made : BOOLEAN, of : SUBSET Tickets]
    BY DEF FiguresInit
  <2>3. /\ ticket \in [Tickets -> {NoRow} \cup Ticketed]
        /\ shift \in [Shifts -> {NoRow} \cup OpenTurn \cup ClosingTurn \cup ClosedTurn]
        /\ note \in [Notes -> {NoRow} \cup Movement]
        /\ page \in {Blank} \cup Reading \cup Shown
        /\ undone \in [Shifts -> Nat]
    BY DEF FiguresInit
  <2>5. \A x \in Tickets : ticket[x] \notin Ticketed
    BY DEF FiguresInit, NoRow, Ticketed
  <2> QED
    BY <2>1, <2>2, <2>3, <2>4, <2>5 DEF FiguresShape
<1>2. \A x \in Tickets : ticket[x] = NoRow
  BY DEF FiguresInit
<1>3. TurnsFit
  BY DEF FiguresInit, TurnsFit, NoRow
<1>4. PageFits
  BY DEF FiguresInit, PageFits, Blank
<1>5. OwedFits
  <2>1. Lent(ticket) = {}
    BY <1>2 DEF Lent, NoRow
  <2> DEFINE h == [x \in Tickets |-> ticket[x].total]
  <2>2. Sum([x \in {} |-> h[x]]) = 0
    BY SumOfNone
  <2>3. [x \in {} |-> h[x]] = [x \in {} |-> ticket[x].total]
    OBVIOUS
  <2> QED
    BY <2>1, <2>2, <2>3 DEF FiguresInit, OwedFits, Owing
<1>6. ViewsFit
  BY DEF FiguresInit, ViewsFit
<1> QED
  BY <1>1, <1>3, <1>4, <1>5, <1>6 DEF FiguresInv

\* What a step leaves alone.
LEMMA TurnsStay ==
  ASSUME TurnsFit, UNCHANGED <<ticket, shift, note, undone>>
  PROVE  TurnsFit'
  BY DEF TurnsFit

LEMMA PageStays ==
  ASSUME PageFits, UNCHANGED <<ticket, page>>
  PROVE  PageFits'
  BY DEF PageFits, CashOfRows

LEMMA OwedStays ==
  ASSUME OwedFits, UNCHANGED <<ticket, owed>>
  PROVE  OwedFits'
  BY DEF OwedFits

LEMMA ViewsStay ==
  ASSUME ViewsFit, UNCHANGED <<ticket, views, touched>>
  PROVE  ViewsFit'
  BY DEF ViewsFit

LEMMA TurnOpens ==
  ASSUME FiguresInv, NEW k \in Shifts, open_turn(k)
  PROVE  FiguresInv'
<1>1. FiguresShape /\ TurnsFit /\ PageFits /\ OwedFits /\ ViewsFit
  BY DEF FiguresInv
<1>2. shift' = [shift EXCEPT ![k] = [status |-> "open", start |-> now]] /\ now \in Nat
  BY <1>1 DEF open_turn, FiguresShape
<1>3. FiguresShape'
  <2>1. [status |-> "open", start |-> now] \in OpenTurn
    BY <1>2 DEF OpenTurn
  <2> QED
    BY <1>1, <1>2, <2>1 DEF open_turn, FiguresShape
<1>4. TurnsFit'
  <2>1. \A j \in Shifts : shift'[j] = IF j = k THEN [status |-> "open", start |-> now] ELSE shift[j]
    BY <1>1, <1>2 DEF FiguresShape
  <2>2. shift[k].status = "none" /\ UNCHANGED <<ticket, note, undone>>
    BY DEF open_turn
  <2>3. \A x \in Tickets : ticket[x].status # "none" => ticket[x].shift \in Shifts
    BY <1>1 DEF FiguresShape, NoRow, Ticketed
  <2> QED
    BY <1>1, <2>1, <2>2, <2>3 DEF TurnsFit
<1> QED
  BY <1>1, <1>3, <1>4, PageStays, OwedStays, ViewsStay DEF open_turn, FiguresInv

LEMMA ClosingReads ==
  ASSUME FiguresInv, NEW k \in Shifts, closing_reads(k)
  PROVE  FiguresInv'
<1>1. FiguresShape /\ TurnsFit /\ PageFits /\ OwedFits /\ ViewsFit
  BY DEF FiguresInv
<1> DEFINE row == [status |-> "closing", start |-> shift[k].start, system_sales |-> TurnCash(ticket, k)]
<1>2. shift' = [shift EXCEPT ![k] = row] /\ shift[k].status = "open"
  BY CashOfTurn DEF closing_reads, calculate_turn_summary
<1>3. shift[k].start \in Nat /\ TurnCash(ticket, k) \in Nat
  BY <1>1, <1>2, TurnCashIsNat DEF FiguresShape, NoRow, OpenTurn, ClosingTurn, ClosedTurn
<1>4. FiguresShape'
  <2>1. row \in ClosingTurn
    BY <1>3 DEF ClosingTurn
  <2> HIDE DEF row
  <2> QED
    BY <1>1, <1>2, <2>1 DEF closing_reads, FiguresShape
<1>5. TurnsFit'
  <2>1. \A j \in Shifts : shift'[j] = IF j = k THEN row ELSE shift[j]
    BY <1>1, <1>2 DEF FiguresShape
  <2>2. UNCHANGED <<ticket, note, undone>>
    BY DEF closing_reads
  <2>3. \A x \in Tickets : ticket[x].status # "none" => ticket[x].shift \in Shifts
    BY <1>1 DEF FiguresShape, NoRow, Ticketed
  <2>4. undone[k] = 0
    BY <1>1, <1>2 DEF TurnsFit
  <2> QED
    BY <1>1, <1>3, <2>1, <2>2, <2>3, <2>4 DEF TurnsFit
<1> QED
  BY <1>1, <1>4, <1>5, PageStays, OwedStays, ViewsStay DEF closing_reads, FiguresInv

LEMMA TurnCloses ==
  ASSUME FiguresInv, NEW k \in Shifts, NEW final \in Int, close_turn(k, final)
  PROVE  FiguresInv'
<1>1. FiguresShape /\ TurnsFit /\ PageFits /\ OwedFits /\ ViewsFit
  BY DEF FiguresInv
<1> DEFINE sold == shift[k].system_sales
           ins == Moved(note, k, {"in"})
           outs == Moved(note, k, {"out", "expense"})
           row == [status |-> "closed", start |-> shift[k].start, system_sales |-> sold,
                   final_cash |-> final, difference |-> final - (InitialCash + sold + ins - outs)]
<1>2. shift' = [shift EXCEPT ![k] = row] /\ shift[k].status = "closing"
  BY DrawerOfTurn DEF close_turn
<1>3. shift[k].start \in Nat /\ sold \in Int /\ ins \in Nat /\ outs \in Nat /\ InitialCash \in Int
  BY <1>1, <1>2, MovedIsNat, FiguresAssumption DEF FiguresShape, NoRow, OpenTurn, ClosingTurn, ClosedTurn
<1>4. FiguresShape'
  <2>1. row \in ClosedTurn
    <3> HIDE DEF sold, ins, outs
    <3> QED
      BY <1>3 DEF ClosedTurn
  <2> HIDE DEF row
  <2> QED
    BY <1>1, <1>2, <2>1 DEF close_turn, FiguresShape
<1>5. TurnsFit'
  <2>1. \A j \in Shifts : shift'[j] = IF j = k THEN row ELSE shift[j]
    BY <1>1, <1>2 DEF FiguresShape
  <2>2. UNCHANGED <<ticket, note, undone>>
    BY DEF close_turn
  <2>3. \A x \in Tickets : ticket[x].status # "none" => ticket[x].shift \in Shifts
    BY <1>1 DEF FiguresShape, NoRow, Ticketed
  <2>4. sold = TurnCash(ticket, k) + undone[k]
    BY <1>1, <1>2 DEF TurnsFit
  <2>5. row.final_cash - row.difference = InitialCash + row.system_sales + ins - outs
    <3> HIDE DEF sold, ins, outs
    <3> QED
      BY <1>3
  <2>6. row.status = "closed" /\ row.system_sales = sold
    OBVIOUS
  <2> HIDE DEF row
  <2>7. \A x \in Tickets : ticket'[x].status # "none" => shift'[ticket'[x].shift].status # "none"
    BY <1>1, <2>1, <2>2, <2>3, <2>6 DEF TurnsFit
  <2> QED
    BY <1>1, <2>1, <2>2, <2>4, <2>5, <2>6, <2>7 DEF TurnsFit
<1> QED
  BY <1>1, <1>4, <1>5, PageStays, OwedStays, ViewsStay DEF close_turn, FiguresInv

LEMMA MovementIsNoted ==
  ASSUME FiguresInv, NEW n \in Notes, NEW k \in Shifts, NEW type \in {"in", "out", "expense"}, NEW amount \in Nat,
         create_cash_movement(n, k, type, amount)
  PROVE  FiguresInv'
<1>1. FiguresShape /\ TurnsFit /\ PageFits /\ OwedFits /\ ViewsFit
  BY DEF FiguresInv
<1> DEFINE row == [status |-> "noted", shift |-> k, type |-> type, amount |-> amount, at |-> now]
<1>2. note' = [note EXCEPT ![n] = row] /\ note[n].status = "none" /\ shift[k].status = "open" /\ now \in Nat
  BY <1>1 DEF create_cash_movement, FiguresShape
<1>3. FiguresShape'
  <2>1. row \in Movement
    BY <1>2 DEF Movement
  <2> HIDE DEF row
  <2> QED
    BY <1>1, <1>2, <2>1 DEF create_cash_movement, FiguresShape
<1>4. \A m \in Notes : note'[m] = IF m = n THEN row ELSE note[m]
  BY <1>1, <1>2 DEF FiguresShape
<1>5. ASSUME NEW j \in Shifts, j # k, NEW types
      PROVE  Moved(note', j, types) = Moved(note, j, types)
  <2> DEFINE Of(nt) == {m \in Notes : nt[m].status = "noted" /\ nt[m].type \in types /\ nt[m].shift = j}
  <2>1. row.shift # j
    BY <1>5
  <2> HIDE DEF row
  <2>2. Of(note') = Of(note) /\ \A m \in Of(note) : note'[m] = note[m]
    BY <1>2, <1>4, <2>1
  <2>3. [m \in Of(note) |-> note'[m].amount] = [m \in Of(note) |-> note[m].amount]
    BY <2>2
  <2> QED
    BY <2>2, <2>3 DEF Moved
<1>6. TurnsFit'
  <2>1. UNCHANGED <<ticket, shift, undone>>
    BY DEF create_cash_movement
  <2> QED
    BY ZenonT(40), <1>1, <1>2, <1>5, <2>1 DEF TurnsFit
<1> QED
  BY <1>1, <1>3, <1>6, PageStays, OwedStays, ViewsStay DEF create_cash_movement, FiguresInv

\* A summary that is being put together, with something it missed.
LEMMA MissesShape ==
  ASSUME FiguresShape, NEW k \in Shifts, NEW c \in Int, Misses(k, c)
  PROVE  /\ page' \in {Blank} \cup Reading \cup Shown
         /\ page.at = "reading" /\ page.shift = k =>
                /\ page'.at = "reading" /\ page'.shift = k /\ page'.rows = page.rows
                /\ page'.missed = page.missed + c /\ page.missed \in Int
         /\ ~ (page.at = "reading" /\ page.shift = k) => page' = page
<1>1. CASE page.at = "reading" /\ page.shift = k
  <2>1. page' = [page EXCEPT !.missed = @ + c]
    BY <1>1 DEF Misses
  <2>2. page \in Reading
    BY <1>1 DEF FiguresShape, Blank, Shown
  <2>3. /\ page' \in Reading
        /\ page'.at = "reading" /\ page'.shift = k /\ page'.rows = page.rows
        /\ page'.missed = page.missed + c /\ page.missed \in Int
    BY ONLY <1>1, <2>1, <2>2, c \in Int DEF Reading
  <2> QED
    BY <1>1, <2>3
<1>2. CASE ~ (page.at = "reading" /\ page.shift = k)
  BY <1>2 DEF Misses, FiguresShape
<1> QED
  BY <1>1, <1>2

LEMMA SaleIsMade ==
  ASSUME FiguresInv, NEW x \in Tickets, NEW k \in Shifts, NEW kind \in SaleKinds, SaleMade(x, k, kind)
  PROVE  FiguresInv'
<1>1. FiguresShape /\ TurnsFit /\ PageFits /\ OwedFits /\ ViewsFit
  BY DEF FiguresInv
<1> DEFINE row == [status |-> "completed", shift |-> k, at |-> now, method |-> kind.method, serie |-> kind.serie,
                   total |-> kind.total, net |-> kind.net, cash |-> kind.cash, card |-> kind.card,
                   transfer |-> kind.transfer, article |-> kind.article, loose |-> kind.loose]
           c == CashIn(row)
<1>2. /\ ticket[x].status = "none" /\ shift[k].status = "open" /\ ticket' = [ticket EXCEPT ![x] = row]
      /\ touched' = TRUE /\ UNCHANGED <<now, behind, shift, note, views, undone>>
  BY DEF SaleMade
<1>3. now \in Nat
  BY <1>1 DEF FiguresShape
<1>4. row \in Ticketed
  BY <1>3, FiguresAssumption DEF Ticketed
<1>5. /\ row.status = "completed" /\ row.shift = k /\ row.method = kind.method /\ row.total = kind.total
      /\ row.total \in Nat
  BY <1>4 DEF Ticketed
<1>6. c \in Nat
  BY <1>4, CashInIsNat
<1>7. ticket \in [Tickets -> {NoRow} \cup Ticketed]
  BY <1>1 DEF FiguresShape
<1>8. ticket'[x] = row
  BY <1>2, <1>7
<1>9. Misses(k, c)
  <2>1. CashOf(x)' = c
    BY <1>8 DEF CashOf, CashIn
  <2> QED
    BY <2>1 DEF SaleMade, Misses
<1> HIDE DEF row, c
<1>10. /\ ticket' \in [Tickets -> {NoRow} \cup Ticketed]
       /\ \A j \in Shifts : TurnCash(ticket', j) = IF j = k THEN TurnCash(ticket, j) + c ELSE TurnCash(ticket, j)
       /\ Owing(ticket') = IF kind.method = "credit" THEN Owing(ticket) + kind.total ELSE Owing(ticket)
  <2>1. ticket' \in [Tickets -> {NoRow} \cup Ticketed] /\ \A y \in Tickets : y # x => ticket'[y] = ticket[y]
    BY <1>2, <1>4, <1>7
  <2>3. /\ \A j \in Shifts : TurnCash(ticket', j)
                = IF j = row.shift THEN TurnCash(ticket, j) + CashIn(row) ELSE TurnCash(ticket, j)
        /\ Owing(ticket') = IF row.method = "credit" THEN Owing(ticket) + row.total ELSE Owing(ticket)
    <3>1. ticket[x].status = "none" /\ row.status = "completed"
      BY <1>2, <1>5
    <3> QED
      BY ONLY x \in Tickets, <1>4, <1>7, <1>8, <2>1, <3>1, SaleCounts
  <2>2. CashIn(row) = c
    BY DEF c
  <2> QED
    BY <1>5, <2>1, <2>2, <2>3
<1>11. page' \in {Blank} \cup Reading \cup Shown
  BY <1>1, <1>6, <1>9, MissesShape
<1>12. FiguresShape'
  <2>1. Parted(row)
    BY FiguresAssumption DEF Parted, row
  <2>2. \A y \in Tickets : ticket'[y] = IF y = x THEN row ELSE ticket[y]
    BY <1>2, <1>7
  <2>3. \A y \in Tickets : ticket'[y] \in Ticketed => Parted(ticket'[y])
    BY <1>1, <2>1, <2>2 DEF FiguresShape
  <2> QED
    BY <1>1, <1>2, <1>10, <1>11, <2>3 DEF FiguresShape, Parted
<1>13. TurnsFit'
  <2>1. \A y \in Tickets : ticket'[y] = IF y = x THEN row ELSE ticket[y]
    BY <1>2, <1>7
  <2>2. \A y \in Tickets : ticket'[y].status # "none" => shift'[ticket'[y].shift].status # "none"
    BY <1>1, <1>2, <1>5, <2>1 DEF TurnsFit
  <2> QED
    BY <1>1, <1>2, <1>10, <2>2 DEF TurnsFit
<1>14. PageFits'
  <2>1. CASE page.at = "reading" /\ page.shift = k
    <3>1. /\ page'.at = "reading" /\ page'.shift = k /\ page'.rows = page.rows
          /\ page'.missed = page.missed + c /\ page.missed \in Int
      BY <1>1, <1>6, <1>9, <2>1, MissesShape
    <3>2. CashOfRows(page.rows) = TurnCash(ticket, k) - page.missed
      BY <1>1, <2>1 DEF PageFits
    <3>3. CashOfRows(page'.rows) = CashOfRows(page.rows)
      BY <3>1 DEF CashOfRows
    <3>4. TurnCash(ticket', k) = TurnCash(ticket, k) + c /\ TurnCash(ticket, k) \in Nat
      BY <1>7, <1>10, TurnCashIsNat
    <3>5. CashOfRows(page'.rows) = TurnCash(ticket', page'.shift) - page'.missed
      BY <1>6, <3>1, <3>2, <3>3, <3>4
    <3> QED
      BY <3>1, <3>5 DEF PageFits, CashOfRows
  <2>2. CASE ~ (page.at = "reading" /\ page.shift = k)
    <3>1. page' = page
      BY <1>1, <1>6, <1>9, <2>2, MissesShape
    <3>2. page.at = "reading" => page.shift \in Shifts
      BY <1>1 DEF FiguresShape, Blank, Shown, Reading
    <3>3. page.at = "reading" => TurnCash(ticket', page.shift) = TurnCash(ticket, page.shift)
      BY <1>10, <2>2, <3>2
    <3> QED
      BY <1>1, <3>1, <3>3 DEF PageFits, CashOfRows
  <2> QED
    BY <2>1, <2>2
<1>15. OwedFits'
  BY <1>1, <1>10 DEF OwedFits, SaleMade
<1>16. ViewsFit'
  BY <1>1, <1>2, <1>5, <1>7 DEF ViewsFit
<1> QED
  BY <1>12, <1>13, <1>14, <1>15, <1>16 DEF FiguresInv

LEMMA SaleIsCancelled ==
  ASSUME FiguresInv, NEW x \in Tickets, perform_sale_cancellation(x)
  PROVE  FiguresInv'
<1>1. FiguresShape /\ TurnsFit /\ PageFits /\ OwedFits /\ ViewsFit
  BY DEF FiguresInv
<1>2. /\ ticket[x].status = "completed" /\ ticket' = [ticket EXCEPT ![x].status = "cancelled"]
      /\ touched' = TRUE /\ UNCHANGED <<now, behind, shift, note, views>>
  BY DEF perform_sale_cancellation
<1>3. ticket \in [Tickets -> {NoRow} \cup Ticketed] /\ ticket[x] \in Ticketed
  BY <1>1, <1>2 DEF FiguresShape, NoRow
<1>4. PICK k \in Shifts : k = ticket[x].shift
  BY <1>3 DEF Ticketed
<1>5. PICK c \in Nat : c = CashIn(ticket[x])
  BY <1>3, CashInIsNat
<1>6. CashOf(x) = c
  BY <1>5 DEF CashOf, CashIn
<1>7. undone' = [undone EXCEPT ![k] = IF shift[k].status = "open" THEN @ ELSE @ + c] /\ Misses(k, -c)
  BY <1>4, <1>6 DEF perform_sale_cancellation
<1>14. \A y \in Tickets : ticket'[y] = IF y = x THEN [ticket[x] EXCEPT !.status = "cancelled"] ELSE ticket[y]
  BY <1>2, <1>3
<1>15. ticket'[x].shift = k /\ ticket'[x].status = "cancelled" /\ ticket'[x] \in Ticketed
  BY ONLY <1>3, <1>4, <1>14, x \in Tickets DEF Ticketed
<1>20. ticket' = [y \in Tickets |-> ticket'[y]]
  BY <1>2, <1>3
<1>8. /\ ticket' \in [Tickets -> {NoRow} \cup Ticketed]
      /\ \A j \in Shifts : TurnCash(ticket, j) = IF j = k THEN TurnCash(ticket', j) + c ELSE TurnCash(ticket', j)
      /\ Owing(ticket) = IF ticket[x].method = "credit" THEN Owing(ticket') + ticket[x].total ELSE Owing(ticket')
  <2>1. ticket' \in [Tickets -> {NoRow} \cup Ticketed]
    BY ONLY <1>14, <1>15, <1>3, <1>20
  <2>2. /\ \A j \in Shifts : TurnCash(ticket, j) = IF j = ticket[x].shift THEN TurnCash(ticket', j) + CashIn(ticket[x])
                                                   ELSE TurnCash(ticket', j)
        /\ Owing(ticket) = IF ticket[x].method = "credit" THEN Owing(ticket') + ticket[x].total ELSE Owing(ticket')
    <3>1. ticket[x].status = "completed" /\ ticket'[x].status = "cancelled"
      BY <1>2, <1>15
    <3>2. \A y \in Tickets : y # x => ticket'[y] = ticket[y]
      BY <1>14
    <3> QED
      BY ONLY x \in Tickets, <1>3, <2>1, <3>1, <3>2, CancelCounts
  <2> QED
    BY <1>4, <1>5, <2>1, <2>2
<1>9. page' \in {Blank} \cup Reading \cup Shown
  <2>1. -c \in Int
    BY <1>5
  <2> QED
    BY <1>1, <1>7, <2>1, MissesShape
<1>10. undone \in [Shifts -> Nat]
  BY <1>1 DEF FiguresShape
<1>11. FiguresShape'
  <2>1. undone' \in [Shifts -> Nat]
    BY <1>5, <1>7, <1>10
  <2>2. Parted(ticket'[x])
    BY <1>1, <1>3, <1>14 DEF FiguresShape, Parted, Ticketed
  <2>3. \A y \in Tickets : ticket'[y] \in Ticketed => Parted(ticket'[y])
    BY <1>1, <1>14, <2>2 DEF FiguresShape
  <2> QED
    BY <1>1, <1>2, <1>8, <1>9, <2>1, <2>3 DEF FiguresShape, Parted
<1>12. \A j \in Shifts : TurnCash(ticket', j) \in Nat
  <2>1. ticket' \in [Tickets -> {NoRow} \cup Ticketed]
    BY <1>8
  <2> QED
    BY ONLY <2>1, TurnCashIsNat
<1>13. \A j \in Shifts : undone'[j] = IF j = k /\ shift[k].status # "open" THEN undone[j] + c ELSE undone[j]
  BY <1>7, <1>10
<1>16. TurnsFit'
  <2>1. shift[k].status # "none"
    BY <1>1, <1>2, <1>4 DEF TurnsFit
  <2>2. \A y \in Tickets : ticket'[y].status # "none" => shift'[ticket'[y].shift].status # "none"
    BY <1>1, <1>2, <1>14, <1>15, <2>1 DEF TurnsFit
  <2>3. ASSUME NEW j \in Shifts
        PROVE  /\ shift'[j].status \in {"none", "open"} => undone'[j] = 0
               /\ shift'[j].status \in {"closing", "closed"} =>
                    shift'[j].system_sales = TurnCash(ticket', j) + undone'[j]
               /\ shift'[j].status = "closed" =>
                    shift'[j].final_cash - shift'[j].difference
                        = InitialCash + shift'[j].system_sales + Moved(note', j, {"in"}) - Moved(note', j, {"out", "expense"})
    <3>1. shift'[j] = shift[j] /\ note' = note
      BY <1>2
    <3>2. shift[j].status \in {"closing", "closed"} =>
            TurnCash(ticket, j) + undone[j] = TurnCash(ticket', j) + undone'[j]
      <4>1. undone[j] \in Nat /\ TurnCash(ticket', j) \in Nat
        BY <1>10, <1>12
      <4> QED
        BY <1>5, <1>8, <1>13, <4>1
    <3> QED
      BY <1>1, <1>13, <2>1, <3>1, <3>2 DEF TurnsFit
  <2> QED
    BY <2>2, <2>3 DEF TurnsFit
<1>17. PageFits'
  <2>0. -c \in Int
    BY <1>5
  <2>1. CASE page.at = "reading" /\ page.shift = k
    <3>1. /\ page'.at = "reading" /\ page'.shift = k /\ page'.rows = page.rows
          /\ page'.missed = page.missed + (-c) /\ page.missed \in Int
      BY <1>1, <1>7, <2>0, <2>1, MissesShape
    <3>2. CashOfRows(page.rows) = TurnCash(ticket, k) - page.missed
      BY <1>1, <2>1 DEF PageFits
    <3>3. CashOfRows(page'.rows) = CashOfRows(page.rows)
      BY <3>1 DEF CashOfRows
    <3>4. TurnCash(ticket, k) = TurnCash(ticket', k) + c /\ TurnCash(ticket', k) \in Nat
      BY <1>8, <1>12
    <3>5. CashOfRows(page'.rows) = TurnCash(ticket', page'.shift) - page'.missed
      BY <1>5, <3>1, <3>2, <3>3, <3>4
    <3> QED
      BY <3>1, <3>5 DEF PageFits, CashOfRows
  <2>2. CASE ~ (page.at = "reading" /\ page.shift = k)
    <3>1. page' = page
      BY <1>1, <1>7, <2>0, <2>2, MissesShape
    <3>2. page.at = "reading" => page.shift \in Shifts
      BY <1>1 DEF FiguresShape, Blank, Shown, Reading
    <3>3. page.at = "reading" => TurnCash(ticket', page.shift) = TurnCash(ticket, page.shift)
      BY <1>8, <2>2, <3>2
    <3> QED
      BY <1>1, <3>1, <3>3 DEF PageFits, CashOfRows
  <2> QED
    BY <2>1, <2>2
<1>18. OwedFits'
  <2>1. Owing(ticket') \in Nat
    <3>1. ticket' \in [Tickets -> {NoRow} \cup Ticketed]
      BY <1>8
    <3> QED
      BY ONLY <3>1, OwingIsNat
  <2>2. ticket[x].total \in Nat
    BY <1>3 DEF Ticketed
  <2>3. owed = Owing(ticket)
    BY <1>1 DEF OwedFits
  <2>4. owed' = IF ticket[x].method # "credit" THEN owed
                ELSE IF owed > ticket[x].total THEN owed - ticket[x].total ELSE 0
    BY DEF perform_sale_cancellation
  <2>5. owed' = Owing(ticket')
    BY <1>8, <2>1, <2>2, <2>3, <2>4
  <2> QED
    BY <2>5 DEF OwedFits
<1>19. ViewsFit'
  <2>1. \A y \in Tickets : ticket[y].status # "none" => ticket'[y].status # "none"
    BY <1>14, <1>15
  <2>2. views.of \subseteq Tickets
    BY <1>1 DEF FiguresShape
  <2> QED
    BY <1>1, <1>2, <2>1, <2>2 DEF ViewsFit
<1> QED
  BY <1>11, <1>16, <1>17, <1>18, <1>19 DEF FiguresInv

LEMMA SummaryBegins ==
  ASSUME FiguresInv, NEW k \in Shifts, get_turn_summary(k)
  PROVE  FiguresInv'
<1>1. FiguresShape /\ TurnsFit /\ PageFits /\ OwedFits /\ ViewsFit
  BY DEF FiguresInv
<1> DEFINE rows == by_method(k)
<1>2. /\ page' = [at |-> "reading", shift |-> k, rows |-> rows, missed |-> 0]
      /\ UNCHANGED <<now, behind, ticket, shift, note, owed, views, undone, touched>>
  BY DEF get_turn_summary
<1>3. rows \in MethodRows /\ CashOfRows(rows) = TurnCash(ticket, k)
  BY <1>1, RowsAddUp
<1>4. TurnCash(ticket, k) \in Nat
  BY <1>1, TurnCashIsNat DEF FiguresShape
<1> HIDE DEF rows
<1>5. page' \in Reading
  BY <1>2, <1>3 DEF Reading
<1>6. FiguresShape'
  BY <1>1, <1>2, <1>5 DEF FiguresShape
<1>7. PageFits'
  <2>1. CashOfRows(page'.rows) = CashOfRows(rows)
    BY <1>2 DEF CashOfRows
  <2>2. CashOfRows(page'.rows) = TurnCash(ticket', page'.shift) - page'.missed
    BY <1>2, <1>3, <1>4, <2>1
  <2> QED
    BY <1>2, <2>2 DEF PageFits, CashOfRows
<1> QED
  BY <1>1, <1>2, <1>6, <1>7, TurnsStay, OwedStays, ViewsStay DEF FiguresInv

LEMMA SummaryIsShown ==
  ASSUME FiguresInv, SummaryShown
  PROVE  FiguresInv'
<1>1. FiguresShape /\ TurnsFit /\ PageFits /\ OwedFits /\ ViewsFit
  BY DEF FiguresInv
<1>2. page \in Reading
  BY <1>1 DEF SummaryShown, FiguresShape, Blank, Shown
<1>3. PICK k \in Shifts : k = page.shift
  BY <1>2 DEF Reading
<1>4. PICK missed \in Int : missed = page.missed
  BY <1>2 DEF Reading
<1> DEFINE was == CashOfRows(page.rows)
           cash == TurnCash(ticket, k)
           ins == Moved(note, k, {"in"})
           outs == Moved(note, k, {"out", "expense"})
<1>5. was = cash - missed
  BY <1>1, <1>3, <1>4 DEF SummaryShown, PageFits
<1>6. cash \in Nat /\ ins \in Nat /\ outs \in Nat /\ InitialCash \in Int
  <2>1. cash \in Nat
    BY <1>1, TurnCashIsNat DEF FiguresShape
  <2>2. ins \in Nat /\ outs \in Nat
    BY <1>1, MovedIsNat
  <2>3. InitialCash \in Int
    BY FiguresAssumption
  <2> QED
    BY <2>1, <2>2, <2>3
<1>7. page' = [at |-> "shown", missed |-> missed, expected_cash |-> InitialCash + was + ins - outs,
               is |-> InitialCash + cash + ins - outs]
  <2>1. Drawer(was, k) = InitialCash + was + ins - outs
    BY DrawerOfTurn
  <2>2. Drawer(Cash(OfShift(k)), k) = InitialCash + cash + ins - outs
    BY CashOfTurn, DrawerOfTurn
  <2>3. page' = [at |-> "shown", missed |-> missed, expected_cash |-> Drawer(was, k),
                 is |-> Drawer(Cash(OfShift(k)), k)]
    BY <1>3, <1>4 DEF SummaryShown, calculate_turn_summary
  <2> HIDE DEF was, cash, ins, outs
  <2> QED
    BY <2>1, <2>2, <2>3
<1>8. UNCHANGED <<now, behind, ticket, shift, note, owed, views, undone, touched>>
  BY DEF SummaryShown
<1> HIDE DEF was, cash, ins, outs
<1>9. page' \in Shown
  BY <1>5, <1>6, <1>7 DEF Shown
<1>10. FiguresShape'
  BY <1>1, <1>8, <1>9 DEF FiguresShape
<1>11. PageFits'
  <2>1. page'.expected_cash = page'.is - page'.missed /\ page'.at = "shown"
    BY <1>5, <1>6, <1>7
  <2> QED
    BY <2>1 DEF PageFits
<1> QED
  BY <1>1, <1>8, <1>10, <1>11, TurnsStay, OwedStays, ViewsStay DEF FiguresInv

LEMMA SummaryIsLeft ==
  ASSUME FiguresInv, SummaryLeft
  PROVE  FiguresInv'
<1>1. FiguresShape /\ TurnsFit /\ PageFits /\ OwedFits /\ ViewsFit
  BY DEF FiguresInv
<1>2. FiguresShape'
  BY <1>1 DEF SummaryLeft, FiguresShape
<1>3. PageFits'
  BY DEF SummaryLeft, PageFits, Blank
<1> QED
  BY <1>1, <1>2, <1>3, TurnsStay, OwedStays, ViewsStay DEF SummaryLeft, FiguresInv

LEMMA ViewsAreMade ==
  ASSUME FiguresInv, views_are_made
  PROVE  FiguresInv'
<1>1. FiguresShape /\ TurnsFit /\ PageFits /\ OwedFits /\ ViewsFit
  BY DEF FiguresInv
<1>2. /\ views' = [made |-> TRUE, of |-> Completed] /\ touched' = FALSE
      /\ UNCHANGED <<now, behind, ticket, shift, note, owed, page, undone>>
  BY DEF views_are_made
<1>3. views' \in [made : BOOLEAN, of : SUBSET Tickets]
  BY <1>2 DEF Completed
<1>4. FiguresShape'
  BY <1>1, <1>2, <1>3 DEF FiguresShape
<1>5. ViewsFit'
  BY <1>2 DEF ViewsFit, Completed
<1> QED
  BY <1>1, <1>2, <1>4, <1>5, TurnsStay, PageStays, OwedStays DEF FiguresInv

LEMMA TimePasses ==
  ASSUME FiguresInv, Passes
  PROVE  FiguresInv'
<1>1. FiguresShape /\ TurnsFit /\ PageFits /\ OwedFits /\ ViewsFit
  BY DEF FiguresInv
<1>2. now' \in 0..MaxTime
  <2>1. now \in 0..MaxTime /\ MaxTime \in Nat
    BY <1>1, FiguresAssumption DEF FiguresShape
  <2> QED
    BY <2>1 DEF Passes
<1>3. FiguresShape'
  BY <1>1, <1>2 DEF Passes, FiguresShape
<1> QED
  BY <1>1, <1>3, TurnsStay, PageStays, OwedStays, ViewsStay DEF Passes, FiguresInv

LEMMA FiguresStep == FiguresInv /\ [FiguresNext]_figures => FiguresInv'
<1> SUFFICES ASSUME FiguresInv, [FiguresNext]_figures PROVE FiguresInv'
  OBVIOUS
<1>1. ASSUME NEW k \in Shifts, open_turn(k) PROVE FiguresInv'
  BY <1>1, TurnOpens
<1>2. ASSUME NEW k \in Shifts, closing_reads(k) PROVE FiguresInv'
  BY <1>2, ClosingReads
<1>3. ASSUME NEW k \in Shifts, get_turn_summary(k) PROVE FiguresInv'
  BY <1>3, SummaryBegins
<1>4. ASSUME NEW k \in Shifts, close_turn(k, InitialCash) PROVE FiguresInv'
  <2>1. InitialCash \in Int
    BY FiguresAssumption
  <2> QED
    BY <1>4, <2>1, TurnCloses
<1>5. ASSUME NEW k \in Shifts, NEW x \in Tickets, NEW kind \in SaleKinds, SaleMade(x, k, kind) PROVE FiguresInv'
  BY <1>5, SaleIsMade
<1>6. ASSUME NEW k \in Shifts, NEW n \in Notes, NEW type \in {"in", "out", "expense"},
             create_cash_movement(n, k, type, 1)
      PROVE  FiguresInv'
  BY <1>6, MovementIsNoted
<1>7. ASSUME NEW x \in Tickets, perform_sale_cancellation(x) PROVE FiguresInv'
  BY <1>7, SaleIsCancelled
<1>8. CASE SummaryShown
  BY <1>8, SummaryIsShown
<1>9. CASE SummaryLeft
  BY <1>9, SummaryIsLeft
<1>10. CASE views_are_made
  BY <1>10, ViewsAreMade
<1>11. CASE Passes
  BY <1>11, TimePasses
<1>12. CASE UNCHANGED figures
  <2>1. FiguresShape /\ TurnsFit /\ PageFits /\ OwedFits /\ ViewsFit
    BY DEF FiguresInv
  <2>2. FiguresShape'
    BY <1>12, <2>1 DEF FiguresShape, figures
  <2> QED
    BY <1>12, <2>1, <2>2, TurnsStay, PageStays, OwedStays, ViewsStay DEF figures, FiguresInv
<1> QED
  BY <1>1, <1>2, <1>3, <1>4, <1>5, <1>6, <1>7, <1>8, <1>9, <1>10, <1>11, <1>12 DEF FiguresNext

-----------------------------------------------------------------------------
(* What the pages show                                                     *)

Sold == {x \in Tickets : ticket[x].status # "none"}

LEMMA ImageFinite ==
  ASSUME NEW S, IsFiniteSet(S), NEW key
  PROVE  IsFiniteSet({key[x] : x \in S})
<1> DEFINE T == {key[x] : x \in S}
           f == [x \in S |-> key[x]]
<1>1. f \in Surjection(S, T)
  BY DEF Surjection
<1> HIDE DEF f, T
<1>2. IsFiniteSet(T)
  BY <1>1, FS_Surjection
<1> QED
  BY <1>2 DEF T

\* Totals and nets of sets of sales.
LEMMA Columns ==
  ASSUME FiguresShape
  PROVE  /\ Sold \in SUBSET Tickets /\ IsFiniteSet(Sold)
         /\ \A x \in Sold : ticket[x] \in Ticketed /\ ticket[x].total \in Nat /\ ticket[x].net \in Nat
                             /\ ticket[x].loose \in Nat /\ ticket[x].net - ticket[x].loose \in Nat
                             /\ (ticket[x].article = "none" => ticket[x].net - ticket[x].loose = 0)
<1>1. \A x \in Sold : ticket[x] \in Ticketed /\ Parted(ticket[x])
  BY DEF FiguresShape, Sold, NoRow
<1>2. \A x \in Sold : ticket[x].total \in Nat /\ ticket[x].net \in Nat /\ ticket[x].loose \in Nat
  BY <1>1 DEF Ticketed
<1>3. \A x \in Sold : ticket[x].net - ticket[x].loose \in Nat
                      /\ (ticket[x].article = "none" => ticket[x].net - ticket[x].loose = 0)
  BY <1>1, <1>2 DEF Parted
<1> QED
  BY <1>1, <1>2, <1>3, TicketsFinite DEF Sold

LEMMA TotalSplits ==
  ASSUME FiguresShape, NEW S \in SUBSET Sold, NEW T \in SUBSET Sold, S \cap T = {}
  PROVE  Total(S) \in Nat /\ Total(T) \in Nat /\ Total(S \cup T) = Total(S) + Total(T)
<1> DEFINE h == [x \in Tickets |-> ticket[x].total]
<1>1. IsFiniteSet(S) /\ IsFiniteSet(T)
  BY Columns, TicketsFinite
<1>2. \A x \in S \cup T : h[x] \in Nat /\ h[x] = ticket[x].total
  BY Columns
<1>3. /\ [x \in S |-> h[x]] = [x \in S |-> ticket[x].total]
      /\ [x \in T |-> h[x]] = [x \in T |-> ticket[x].total]
      /\ [x \in S \cup T |-> h[x]] = [x \in S \cup T |-> ticket[x].total]
  BY <1>2
<1> HIDE DEF h
<1>4. (\A x \in S \cup T : h[x] \in Nat) /\ (\A x \in S : h[x] \in Nat) /\ (\A x \in T : h[x] \in Nat)
  BY <1>2
<1>5. Sum([x \in S \cup T |-> h[x]]) = Sum([x \in S |-> h[x]]) + Sum([x \in T |-> h[x]])
  BY ONLY <1>1, <1>4, S \cap T = {}, SumSplits
<1>6. Sum([x \in S |-> h[x]]) \in Nat
  BY ONLY <1>1, <1>4, SumIsNat
<1>7. Sum([x \in T |-> h[x]]) \in Nat
  BY ONLY <1>1, <1>4, SumIsNat
<1> QED
  BY <1>3, <1>5, <1>6, <1>7 DEF Total

LEMMA AmountSplits ==
  ASSUME FiguresShape, NEW S \in SUBSET Notes, NEW T \in SUBSET Notes, S \cap T = {},
         \A n \in S \cup T : note[n].status = "noted"
  PROVE  Amount(S) \in Nat /\ Amount(T) \in Nat /\ Amount(S \cup T) = Amount(S) + Amount(T)
<1> DEFINE h == [n \in Notes |-> note[n].amount]
<1>1. IsFiniteSet(S) /\ IsFiniteSet(T)
  BY TicketsFinite
<1>2. \A n \in S \cup T : h[n] \in Nat /\ h[n] = note[n].amount
  BY DEF FiguresShape, NoRow, Movement
<1>3. /\ [n \in S |-> h[n]] = [n \in S |-> note[n].amount]
      /\ [n \in T |-> h[n]] = [n \in T |-> note[n].amount]
      /\ [n \in S \cup T |-> h[n]] = [n \in S \cup T |-> note[n].amount]
  BY <1>2
<1> HIDE DEF h
<1>4. (\A x \in S \cup T : h[x] \in Nat) /\ (\A x \in S : h[x] \in Nat) /\ (\A x \in T : h[x] \in Nat)
  BY <1>2
<1>5. Sum([x \in S \cup T |-> h[x]]) = Sum([x \in S |-> h[x]]) + Sum([x \in T |-> h[x]])
  BY ONLY <1>1, <1>4, S \cap T = {}, SumSplits
<1>6. Sum([x \in S |-> h[x]]) \in Nat
  BY ONLY <1>1, <1>4, SumIsNat
<1>7. Sum([x \in T |-> h[x]]) \in Nat
  BY ONLY <1>1, <1>4, SumIsNat
<1> QED
  BY <1>3, <1>5, <1>6, <1>7 DEF Amount

\* Rows of groups add up to what was grouped.
LEMMA TotalOfGroups ==
  ASSUME FiguresShape, NEW S \in SUBSET Sold, NEW key, NEW K, IsFiniteSet(K), \A x \in S : key[x] \in K
  PROVE  /\ Sum([k \in K |-> Total({x \in S : key[x] = k})]) = Total(S)
         /\ Sum([k \in K |-> Listed({x \in S : key[x] = k})]) = Listed(S)
<1>1. IsFiniteSet(S) /\ {y \in S : key[y] \in K} = S
  BY Columns, TicketsFinite
<1>2. Sum([k \in K |-> Total({x \in S : key[x] = k})]) = Total(S)
  <2> DEFINE h == [x \in Tickets |-> ticket[x].total]
  <2>1. \A x \in S : h[x] \in Nat /\ h[x] = ticket[x].total
    BY Columns
  <2>2. \A T \in SUBSET S : [x \in T |-> h[x]] = [x \in T |-> ticket[x].total]
    BY <2>1
  <2>3. \A T \in SUBSET S : Total(T) = Sum([x \in T |-> h[x]])
    BY <2>2 DEF Total
  <2> HIDE DEF h
  <2>4. \A x \in S : h[x] \in Nat
    BY <2>1
  <2>5. Sum([k \in K |-> Sum([x \in {y \in S : key[y] = k} |-> h[x]])])
            = Sum([x \in {y \in S : key[y] \in K} |-> h[x]])
    BY ONLY <1>1, <2>4, IsFiniteSet(K), SumOfGroups
  <2>6. \A k \in K : Total({x \in S : key[x] = k}) = Sum([x \in {y \in S : key[y] = k} |-> h[x]])
    BY <2>3
  <2>7. [k \in K |-> Total({x \in S : key[x] = k})] = [k \in K |-> Sum([x \in {y \in S : key[y] = k} |-> h[x]])]
    BY <2>6
  <2> QED
    BY <1>1, <2>3, <2>5, <2>7
<1>3. Sum([k \in K |-> Listed({x \in S : key[x] = k})]) = Listed(S)
  <2> DEFINE h == [x \in Tickets |-> ticket[x].net - ticket[x].loose]
  <2>1. \A x \in S : h[x] \in Nat /\ h[x] = ticket[x].net - ticket[x].loose
    BY Columns
  <2>2. \A T \in SUBSET S : [x \in T |-> h[x]] = [x \in T |-> ticket[x].net - ticket[x].loose]
    BY <2>1
  <2>3. \A T \in SUBSET S : Listed(T) = Sum([x \in T |-> h[x]])
    BY <2>2 DEF Listed
  <2> HIDE DEF h
  <2>4. \A x \in S : h[x] \in Nat
    BY <2>1
  <2>5. Sum([k \in K |-> Sum([x \in {y \in S : key[y] = k} |-> h[x]])])
            = Sum([x \in {y \in S : key[y] \in K} |-> h[x]])
    BY ONLY <1>1, <2>4, IsFiniteSet(K), SumOfGroups
  <2>6. \A k \in K : Listed({x \in S : key[x] = k}) = Sum([x \in {y \in S : key[y] = k} |-> h[x]])
    BY <2>3
  <2>7. [k \in K |-> Listed({x \in S : key[x] = k})] = [k \in K |-> Sum([x \in {y \in S : key[y] = k} |-> h[x]])]
    BY <2>6
  <2> QED
    BY <1>1, <2>3, <2>5, <2>7
<1> QED
  BY <1>2, <1>3

\* What the items of some sales come to is what those of an article do and the rest.
LEMMA ListedAndLoose ==
  ASSUME FiguresShape, NEW S \in SUBSET Sold
  PROVE  Listed(S) \in Nat /\ Loose(S) \in Nat /\ Net(S) = Listed(S) + Loose(S)
<1> DEFINE f == [x \in Tickets |-> ticket[x].net - ticket[x].loose]
           g == [x \in Tickets |-> ticket[x].loose]
           h == [x \in Tickets |-> ticket[x].net]
<1>1. IsFiniteSet(S) /\ S \in SUBSET Tickets
  BY Columns, TicketsFinite
<1>2. \A x \in S : f[x] \in Nat /\ g[x] \in Nat /\ h[x] \in Nat /\ h[x] = f[x] + g[x]
  BY <1>1, Columns
<1>3. /\ [x \in S |-> f[x]] = [x \in S |-> ticket[x].net - ticket[x].loose]
      /\ [x \in S |-> g[x]] = [x \in S |-> ticket[x].loose]
      /\ [x \in S |-> h[x]] = [x \in S |-> ticket[x].net]
  BY <1>1
<1> HIDE DEF f, g, h
<1>4. Sum([x \in S |-> h[x]]) = Sum([x \in S |-> f[x]]) + Sum([x \in S |-> g[x]])
  <2>1. \A x \in S : f[x] \in Nat /\ g[x] \in Nat /\ h[x] = f[x] + g[x]
    BY <1>2
  <2> QED
    BY ONLY <1>1, <2>1, SumAdds
<1>5. Sum([x \in S |-> f[x]]) \in Nat
  <2>1. \A x \in S : f[x] \in Nat
    BY <1>2
  <2> QED
    BY ONLY <1>1, <2>1, SumIsNat
<1>6. Sum([x \in S |-> g[x]]) \in Nat
  <2>1. \A x \in S : g[x] \in Nat
    BY <1>2
  <2> QED
    BY ONLY <1>1, <2>1, SumIsNat
<1> QED
  BY <1>3, <1>4, <1>5, <1>6 DEF Listed, Loose, Net

\* A sale of no article counts for nothing among the articles.
LEMMA ListedOnly ==
  ASSUME FiguresShape, NEW S \in SUBSET Sold
  PROVE  Listed({x \in S : ticket[x].article # "none"}) = Listed(S)
<1> DEFINE h == [x \in Tickets |-> ticket[x].net - ticket[x].loose]
           T == {x \in S : ticket[x].article # "none"}
<1>1. S \in SUBSET Tickets /\ T \in SUBSET S
  BY Columns
<1>2. \A x \in S \ T : h[x] = 0
  BY <1>1, Columns
<1>3. /\ [x \in S |-> h[x]] = [x \in S |-> ticket[x].net - ticket[x].loose]
      /\ [x \in T |-> h[x]] = [x \in T |-> ticket[x].net - ticket[x].loose]
  BY <1>1
<1> HIDE DEF h, T
<1>4. Sum([x \in T |-> h[x]]) = Sum([x \in S |-> h[x]])
  BY ONLY <1>1, <1>2, SumOfSome
<1> QED
  BY <1>3, <1>4 DEF Listed, T

\* The rows of hours and of articles.
LEMMA HoursAddUp ==
  ASSUME FiguresShape, NEW S \in SUBSET Sold
  PROVE  Sum(ByHour(S)) = Total(S) /\ Sum(Ranking(S)) = Net(S) - Loose(S)
<1>1. IsFiniteSet(S) /\ S \in SUBSET Tickets
  BY Columns, TicketsFinite
<1>2. Sum(ByHour(S)) = Total(S)
  <2> DEFINE key == [x \in Tickets |-> Hour(x)]
             K == {key[x] : x \in S}
  <2>1. \A x \in S : key[x] = Hour(x)
    BY <1>1
  <2>2. K = {Hour(x) : x \in S} /\ \A k : {x \in S : key[x] = k} = {x \in S : Hour(x) = k}
    BY <2>1
  <2>3. ByHour(S) = [k \in K |-> Total({x \in S : key[x] = k})]
    BY <2>2 DEF ByHour
  <2> HIDE DEF key
  <2>4. IsFiniteSet(K)
    BY <1>1, ImageFinite
  <2>5. \A x \in S : key[x] \in K
    OBVIOUS
  <2> HIDE DEF K
  <2>6. Sum([k \in K |-> Total({x \in S : key[x] = k})]) = Total(S)
    BY <2>4, <2>5, TotalOfGroups
  <2> QED
    BY <2>3, <2>6
<1>3. Sum(Ranking(S)) = Listed(S)
  <2> DEFINE key == [x \in Tickets |-> ticket[x].article]
             R == {x \in S : ticket[x].article # "none"}
             K == {key[x] : x \in R}
  <2>1. \A x \in S : key[x] = ticket[x].article
    BY <1>1
  <2>2. /\ K = {ticket[x].article : x \in S} \ {"none"}
        /\ \A k \in K : {x \in R : key[x] = k} = {x \in S : ticket[x].article = k}
    BY <2>1
  <2>3. Ranking(S) = [k \in K |-> Listed({x \in R : key[x] = k})]
    BY <2>2 DEF Ranking
  <2>4. IsFiniteSet(R) /\ R \in SUBSET Sold /\ Listed(R) = Listed(S)
    BY <1>1, FS_Subset, ListedOnly
  <2> HIDE DEF key, R
  <2>5. IsFiniteSet(K)
    BY <2>4, ImageFinite
  <2>6. \A x \in R : key[x] \in K
    OBVIOUS
  <2> HIDE DEF K
  <2>7. Sum([k \in K |-> Listed({x \in R : key[x] = k})]) = Listed(R)
    BY <2>4, <2>5, <2>6, TotalOfGroups
  <2> QED
    BY <2>3, <2>4, <2>7
<1>4. Listed(S) = Net(S) - Loose(S)
  BY ListedAndLoose
<1> QED
  BY <1>2, <1>3, <1>4

LEMMA DaysAddUp ==
  ASSUME FiguresShape, views.of \in SUBSET Sold
  PROVE  Sum(daily_sales_summary) = Total(views.of)
<1> DEFINE S == views.of
           key == [x \in Tickets |-> LocalDay(ticket[x].at)]
           K == {key[x] : x \in S}
<1>1. IsFiniteSet(S) /\ S \in SUBSET Tickets
  BY Columns, TicketsFinite
<1>2. \A x \in S : key[x] = LocalDay(ticket[x].at)
  BY <1>1
<1>3. K = {LocalDay(ticket[x].at) : x \in S} /\ \A k : {x \in S : key[x] = k} = {x \in S : LocalDay(ticket[x].at) = k}
  BY <1>2
<1>4. daily_sales_summary = [k \in K |-> Total({x \in S : key[x] = k})]
  BY <1>3 DEF daily_sales_summary
<1> HIDE DEF key, S
<1>5. IsFiniteSet(K)
  BY <1>1, ImageFinite
<1>6. \A x \in S : key[x] \in K
  OBVIOUS
<1>7. S \in SUBSET Sold
  BY DEF S
<1> HIDE DEF K
<1>8. Sum([k \in K |-> Total({x \in S : key[x] = k})]) = Total(S)
  BY <1>5, <1>6, <1>7, TotalOfGroups
<1> QED
  BY <1>4, <1>8 DEF S

LEMMA ClosingsAreExplained == FiguresInv => ClosingsExplained
<1> SUFFICES ASSUME FiguresInv, NEW k \in Shifts, shift[k].status = "closed"
             PROVE  /\ shift[k].final_cash - shift[k].difference = calculate_turn_summary(k).expected_cash + undone[k]
                    /\ shift[k].system_sales = calculate_turn_summary(k).cash_sales + undone[k]
  BY DEF ClosingsExplained
<1> DEFINE cash == TurnCash(ticket, k)
           ins == Moved(note, k, {"in"})
           outs == Moved(note, k, {"out", "expense"})
<1>1. FiguresShape /\ TurnsFit
  BY DEF FiguresInv
<1>2. Cash(OfShift(k)) = cash
  BY CashOfTurn
<1>3. Drawer(cash, k) = InitialCash + cash + ins - outs
  BY DrawerOfTurn
<1>4. calculate_turn_summary(k).cash_sales = cash /\ calculate_turn_summary(k).expected_cash = Drawer(cash, k)
  BY <1>2 DEF calculate_turn_summary
<1>5. /\ shift[k].system_sales = cash + undone[k]
      /\ shift[k].final_cash - shift[k].difference = InitialCash + shift[k].system_sales + ins - outs
  BY <1>1 DEF TurnsFit
<1>6. cash \in Nat /\ ins \in Nat /\ outs \in Nat /\ InitialCash \in Int /\ undone[k] \in Nat
  <2>1. cash \in Nat /\ undone[k] \in Nat
    BY <1>1, TurnCashIsNat DEF FiguresShape
  <2>2. ins \in Nat /\ outs \in Nat
    BY <1>1, MovedIsNat
  <2>3. InitialCash \in Int
    BY FiguresAssumption
  <2> QED
    BY <2>1, <2>2, <2>3
<1> HIDE DEF cash, ins, outs
<1> QED
  BY <1>3, <1>4, <1>5, <1>6

LEMMA PanelIsRight == FiguresInv => PanelAgrees
<1> SUFFICES ASSUME FiguresInv, NEW k \in Shifts
             PROVE  LET panel == get_turn_status(k)
                        Of(methods) == {x \in OfShift(k) : ticket[x].method \in methods}
                    IN  /\ panel.cash_sales = calculate_turn_summary(k).cash_sales
                        /\ panel.cash_sales + panel.card_sales + panel.transfer_sales
                                + Total(Of({"credit", "wallet", "mixed"}))
                            = panel.total_sales
                              + Sum([x \in Of({"mixed"}) |-> ticket[x].cash + ticket[x].card + ticket[x].transfer])
  BY DEF PanelAgrees, NewestOpen
<1> DEFINE S == OfShift(k)
           Of(methods) == {x \in S : ticket[x].method \in methods}
           Part(m) == [x \in S |-> IF ticket[x].method = m THEN ticket[x].total
                                   ELSE IF ticket[x].method = "mixed" THEN ticket[x][m] ELSE 0]
           a == Part("cash")
           b == Part("card")
           c == Part("transfer")
           ab == [x \in S |-> a[x] + b[x]]
           abc == [x \in S |-> ab[x] + c[x]]
           Rest == Of({"credit", "wallet", "mixed"})
           Mixed == Of({"mixed"})
           d == [x \in S |-> IF x \in Rest THEN ticket[x].total ELSE 0]
           e == [x \in S |-> IF x \in Mixed THEN ticket[x].cash + ticket[x].card + ticket[x].transfer ELSE 0]
           t == [x \in S |-> ticket[x].total]
           all == [x \in S |-> abc[x] + d[x]]
<1>1. FiguresShape
  BY DEF FiguresInv
<1>2. S \in SUBSET Sold /\ IsFiniteSet(S)
  <2>1. S \in SUBSET Sold
    BY DEF OfShift, Completed, Sold
  <2> QED
    BY <1>1, <2>1, Columns, TicketsFinite
<1>3. \A x \in S : ticket[x] \in Ticketed
  BY <1>1, <1>2, Columns
<1>4. \A x \in S : a[x] \in Nat /\ b[x] \in Nat /\ c[x] \in Nat /\ d[x] \in Nat /\ e[x] \in Nat /\ t[x] \in Nat
  BY <1>3 DEF Ticketed
<1>5. \A x \in S : a[x] + b[x] + c[x] + d[x] = t[x] + e[x]
  BY <1>3 DEF Ticketed, Methods
<1>6. \A x \in S : ab[x] = a[x] + b[x] /\ abc[x] = ab[x] + c[x] /\ all[x] = abc[x] + d[x]
  OBVIOUS
<1>7. /\ get_turn_status(k).cash_sales = Sum(a) /\ get_turn_status(k).card_sales = Sum(b)
      /\ get_turn_status(k).transfer_sales = Sum(c) /\ get_turn_status(k).total_sales = Sum(t)
  BY DEF get_turn_status, Total
<1>8. calculate_turn_summary(k).cash_sales = Sum(a)
  <2>1. \A x \in S : CashOf(x) = a[x]
    BY <1>3 DEF CashOf, Ticketed
  <2>2. [x \in S |-> CashOf(x)] = a
    BY <2>1
  <2> QED
    BY <2>2 DEF calculate_turn_summary, Cash
<1>9. Sum(d) = Total(Rest)
  <2>1. Rest \in SUBSET S /\ \A x \in S \ Rest : d[x] = 0
    OBVIOUS
  <2>2. [x \in Rest |-> d[x]] = [x \in Rest |-> ticket[x].total] /\ [x \in S |-> d[x]] = d
    OBVIOUS
  <2> HIDE DEF S, Rest, d
  <2>3. Sum([x \in Rest |-> d[x]]) = Sum([x \in S |-> d[x]])
    BY ONLY <2>1, SumOfSome
  <2> QED
    BY <2>2, <2>3 DEF Total
<1>10. Sum(e) = Sum([x \in Mixed |-> ticket[x].cash + ticket[x].card + ticket[x].transfer])
  <2>1. Mixed \in SUBSET S /\ \A x \in S \ Mixed : e[x] = 0
    OBVIOUS
  <2>2. /\ [x \in Mixed |-> e[x]] = [x \in Mixed |-> ticket[x].cash + ticket[x].card + ticket[x].transfer]
        /\ [x \in S |-> e[x]] = e
    OBVIOUS
  <2> HIDE DEF S, Mixed, e
  <2>3. Sum([x \in Mixed |-> e[x]]) = Sum([x \in S |-> e[x]])
    BY ONLY <2>1, SumOfSome
  <2> QED
    BY <2>2, <2>3
<1>11. /\ [x \in S |-> a[x]] = a /\ [x \in S |-> b[x]] = b /\ [x \in S |-> c[x]] = c /\ [x \in S |-> d[x]] = d
       /\ [x \in S |-> e[x]] = e /\ [x \in S |-> t[x]] = t
       /\ [x \in S |-> ab[x]] = ab /\ [x \in S |-> abc[x]] = abc /\ [x \in S |-> all[x]] = all
  OBVIOUS
<1> HIDE DEF a, b, c, d, e, t, ab, abc, all, S, Rest, Mixed
<1>12. Sum(ab) = Sum(a) + Sum(b)
  <2>1. \A x \in S : a[x] \in Nat /\ b[x] \in Nat /\ ab[x] = a[x] + b[x]
    BY <1>4, <1>6
  <2>2. Sum([x \in S |-> ab[x]]) = Sum([x \in S |-> a[x]]) + Sum([x \in S |-> b[x]])
    BY <1>2, <2>1, SumAdds
  <2> QED
    BY <1>11, <2>2
<1>13. Sum(abc) = Sum(ab) + Sum(c)
  <2>1. \A x \in S : ab[x] \in Nat /\ c[x] \in Nat /\ abc[x] = ab[x] + c[x]
    BY <1>4, <1>6
  <2>2. Sum([x \in S |-> abc[x]]) = Sum([x \in S |-> ab[x]]) + Sum([x \in S |-> c[x]])
    BY <1>2, <2>1, SumAdds
  <2> QED
    BY <1>11, <2>2
<1>14. Sum(all) = Sum(abc) + Sum(d)
  <2>1. \A x \in S : abc[x] \in Nat /\ d[x] \in Nat /\ all[x] = abc[x] + d[x]
    BY <1>4, <1>6
  <2>2. Sum([x \in S |-> all[x]]) = Sum([x \in S |-> abc[x]]) + Sum([x \in S |-> d[x]])
    BY <1>2, <2>1, SumAdds
  <2> QED
    BY <1>11, <2>2
<1>15. Sum(all) = Sum(t) + Sum(e)
  <2>1. \A x \in S : t[x] \in Nat /\ e[x] \in Nat /\ all[x] = t[x] + e[x]
    BY <1>4, <1>5, <1>6
  <2>2. Sum([x \in S |-> all[x]]) = Sum([x \in S |-> t[x]]) + Sum([x \in S |-> e[x]])
    BY <1>2, <2>1, SumAdds
  <2> QED
    BY <1>11, <2>2
<1>16. Sum(a) + Sum(b) + Sum(c) + Total(Rest)
        = Sum(t) + Sum([x \in Mixed |-> ticket[x].cash + ticket[x].card + ticket[x].transfer])
  BY <1>9, <1>10, <1>12, <1>13, <1>14, <1>15
<1> QED
  BY <1>7, <1>8, <1>16 DEF Rest, Mixed, S

LEMMA DaysAreRight == FiguresInv => DaysAgree
<1> SUFFICES ASSUME FiguresInv PROVE DaysAgree
  OBVIOUS
<1>1. FiguresShape
  BY DEF FiguresInv
<1>2. UtcToday \in SUBSET Sold /\ SessionToday \in SUBSET Sold
  BY DEF UtcToday, SessionToday, Completed, Sold
<1>3. Sum(ByHour(UtcToday)) = Total(UtcToday) /\ Sum(Ranking(UtcToday)) = Net(UtcToday) - Loose(UtcToday)
  BY <1>1, <1>2, HoursAddUp
<1>4. search_sales(UtcDay(now), UtcDay(now), "completed") = UtcToday
  <2>1. SlotsPerDay \in Nat \ {0}
    BY FiguresAssumption
  <2>2. \A t \in Nat : UtcDay(t) \in Int
    BY <2>1 DEF UtcDay
  <2>3. now \in Nat /\ \A x \in Completed : ticket[x].at \in Nat
    BY <1>1 DEF FiguresShape, Completed, NoRow, Ticketed
  <2>4. \A x \in Completed : UtcDay(ticket[x].at) \in UtcDay(now)..UtcDay(now) <=> UtcDay(ticket[x].at) = UtcDay(now)
    BY <2>2, <2>3
  <2> HIDE DEF UtcDay
  <2>5. \A x \in Tickets : ticket[x].status \in (IF "completed" = "all" THEN {"completed", "cancelled"} ELSE {"completed"})
                            <=> ticket[x].status = "completed"
    OBVIOUS
  <2> QED
    BY <2>4, <2>5 DEF search_sales, UtcToday, Completed
<1>5. Total(UtcToday) - Total(SessionToday) = Total(UtcToday \ SessionToday) - Total(SessionToday \ UtcToday)
  <2> DEFINE both == UtcToday \cap SessionToday
             left == UtcToday \ SessionToday
             right == SessionToday \ UtcToday
  <2>1. Total(both) \in Nat /\ Total(left) \in Nat /\ Total(both \cup left) = Total(both) + Total(left)
    <3>1. both \in SUBSET Sold /\ left \in SUBSET Sold /\ both \cap left = {}
      BY <1>2
    <3> HIDE DEF both, left
    <3> QED
      BY <1>1, <3>1, TotalSplits
  <2>2. Total(right) \in Nat /\ Total(both \cup right) = Total(both) + Total(right)
    <3>1. both \in SUBSET Sold /\ right \in SUBSET Sold /\ both \cap right = {}
      BY <1>2
    <3> HIDE DEF both, right
    <3> QED
      BY <1>1, <3>1, TotalSplits
  <2>3. both \cup left = UtcToday /\ both \cup right = SessionToday
    OBVIOUS
  <2>4. Total(UtcToday) = Total(both) + Total(left) /\ Total(SessionToday) = Total(both) + Total(right)
    BY <2>1, <2>2, <2>3
  <2> HIDE DEF both, left, right
  <2>5. Total(UtcToday) - Total(SessionToday) = Total(left) - Total(right)
    BY <2>1, <2>2, <2>4
  <2> QED
    BY <2>5 DEF left, right
<1>6. /\ get_executive_dashboard.revenue = Total(UtcToday) /\ get_quick_status.total_hoy = Total(UtcToday)
      /\ get_quick_status.ventas_hoy = get_executive_dashboard.transactions
      /\ get_executive_dashboard.hourly = ByHour(UtcToday) /\ get_executive_dashboard.top = Ranking(UtcToday)
      /\ get_sales_today = Total(SessionToday) /\ get_system_status.total_today = Total(SessionToday)
  BY DEF get_executive_dashboard, get_quick_status, get_sales_today, get_system_status
<1> QED
  BY <1>3, <1>4, <1>5, <1>6 DEF DaysAgree

LEMMA YearsAreRight == FiguresInv => YearsAgree
<1> SUFFICES ASSUME FiguresInv PROVE YearsAgree
  OBVIOUS
<1> DEFINE year == YearOf(UtcDay(now))
           A == OfYear("A")
           B == OfYear("B")
           Year == {x \in Completed : YearOf(UtcDay(ticket[x].at)) = year}
           spent == SpentIn({"out", "expense"}, year)
           income == Total(Year)
           taxes == (Total(A) * 16) \div 116
<1>1. FiguresShape
  BY DEF FiguresInv
<1>2. A \cup B = Year /\ A \cap B = {} /\ A \in SUBSET Sold /\ B \in SUBSET Sold /\ Year \in SUBSET Sold
  <2>1. \A x \in Completed : x \in Sold /\ ticket[x].serie \in {"A", "B"}
    BY <1>1, Columns DEF Completed, Sold, Ticketed
  <2> QED
    BY <2>1 DEF OfYear
<1>3. Total(A) \in Nat /\ Total(B) \in Nat /\ income = Total(A) + Total(B)
  <2> HIDE DEF A, B, Year
  <2> QED
    BY <1>1, <1>2, TotalSplits
<1>4. taxes \in Nat /\ taxes <= Total(A)
  <2> HIDE DEF A
  <2> QED
    BY <1>3
<1>5. spent \in Nat /\ spent - SpentIn({"expense"}, year) = SpentIn({"out"}, year)
  <2> DEFINE Of(types) == {n \in Noted(types) : YearOf(LocalDay(note[n].at)) = year}
  <2>1. /\ Of({"expense"}) \in SUBSET Notes /\ Of({"out"}) \in SUBSET Notes /\ Of({"expense"}) \cap Of({"out"}) = {}
        /\ Of({"expense"}) \cup Of({"out"}) = Of({"out", "expense"})
        /\ \A n \in Of({"expense"}) \cup Of({"out"}) : note[n].status = "noted"
    BY DEF Noted
  <2>2. \A types : SpentIn(types, year) = Amount(Of(types))
    BY DEF SpentIn
  <2> HIDE DEF Of, year
  <2>3. /\ Amount(Of({"expense"})) \in Nat /\ Amount(Of({"out"})) \in Nat
        /\ Amount(Of({"expense"}) \cup Of({"out"})) = Amount(Of({"expense"})) + Amount(Of({"out"}))
    BY <1>1, <2>1, AmountSplits
  <2>4. /\ SpentIn({"expense"}, year) = Amount(Of({"expense"})) /\ SpentIn({"out"}, year) = Amount(Of({"out"}))
        /\ SpentIn({"out", "expense"}, year) = Amount(Of({"out", "expense"}))
    BY ONLY <2>2
  <2>5. Amount(Of({"out", "expense"})) = Amount(Of({"expense"})) + Amount(Of({"out"}))
    BY <2>1, <2>3
  <2> QED
    BY <2>3, <2>4, <2>5
<1>6. /\ get_wealth.ingresos_total = income /\ get_wealth.gastos = spent /\ get_wealth.impuestos = taxes
      /\ get_wealth.disponible_retiro = IF income - spent - taxes > 0 THEN income - spent - taxes ELSE 0
      /\ get_resico.serie_a = Total(A) /\ get_resico.total = Total(A) + Total(B)
      /\ get_expense_summary.year = SpentIn({"expense"}, year)
  BY DEF get_wealth, get_resico, get_expense_summary
<1>7. get_wealth.disponible_retiro <= get_resico.total
  <2> HIDE DEF income, spent, taxes, A, B
  <2> QED
    BY <1>3, <1>4, <1>5, <1>6
<1>8. ASSUME \A x \in Completed : YearOf(UtcDay(ticket[x].at)) = YearOf(UtcDay(now))
      PROVE  get_resico.total = Sum([k \in Shifts |-> calculate_turn_summary(k).total_sales])
  <2>1. Year = Completed
    BY <1>8
  <2> DEFINE key == [x \in Tickets |-> ticket[x].shift]
  <2>2. \A k \in Shifts : {x \in Completed : key[x] = k} = OfShift(k)
    BY DEF OfShift, Completed
  <2>3. Completed \in SUBSET Sold /\ IsFiniteSet(Shifts) /\ \A x \in Completed : key[x] \in Shifts
    BY <1>1, Columns, TicketsFinite DEF Completed, Sold, Ticketed
  <2> HIDE DEF key
  <2>4. Sum([k \in Shifts |-> Total({x \in Completed : key[x] = k})]) = Total(Completed)
    BY <1>1, <2>3, TotalOfGroups
  <2>5. [k \in Shifts |-> Total({x \in Completed : key[x] = k})]
            = [k \in Shifts |-> calculate_turn_summary(k).total_sales]
    <3>1. \A k \in Shifts : calculate_turn_summary(k).total_sales = Total({x \in Completed : key[x] = k})
      BY <2>2 DEF calculate_turn_summary
    <3> QED
      BY <3>1
  <2> QED
    BY <1>3, <1>6, <2>1, <2>4, <2>5
<1> HIDE DEF income, spent, taxes, A, B, Year
<1> QED
  BY <1>3, <1>4, <1>5, <1>6, <1>7, <1>8 DEF YearsAgree, year

LEMMA CreditIsRight == FiguresInv => CreditAgrees
<1> SUFFICES ASSUME FiguresInv PROVE CreditAgrees
  OBVIOUS
<1>1. OnCredit = Lent(ticket)
  BY DEF OnCredit, Completed, Lent
<1>2. Total(OnCredit) = Owing(ticket)
  BY <1>1 DEF Total, Owing
<1> QED
  BY <1>2 DEF FiguresInv, OwedFits, CreditAgrees, get_customer_credit

LEMMA ReportsAreRight == FiguresInv => ReportsAgree
<1> SUFFICES ASSUME FiguresInv PROVE ReportsAgree
  OBVIOUS
<1>1. FiguresShape /\ ViewsFit
  BY DEF FiguresInv
<1>2. views.of \in SUBSET Sold
  BY <1>1 DEF FiguresShape, ViewsFit, Sold
<1>3. sync_pull_sales = {x \in Tickets : ticket[x].status = "completed"}
  <2>1. \A x \in Tickets : ticket[x].status \in {"none", "completed", "cancelled"}
    BY <1>1 DEF FiguresShape, NoRow, Ticketed
  <2> QED
    BY <2>1 DEF sync_pull_sales
<1>4. Sum(ByHour(views.of)) = Total(views.of) /\ Sum(Ranking(views.of)) = Net(views.of) - Loose(views.of)
  <2>1. ASSUME NEW S \in SUBSET Sold PROVE Sum(ByHour(S)) = Total(S) /\ Sum(Ranking(S)) = Net(S) - Loose(S)
    BY <1>1, HoursAddUp
  <2> QED
    BY <1>2, <2>1
<1>5. Sum(daily_sales_summary) = Total(views.of)
  BY <1>1, <1>2, DaysAddUp
<1> QED
  BY <1>1, <1>3, <1>4, <1>5 DEF ViewsFit, ReportsAgree, hourly_heatmap, product_sales_ranking

LEMMA FiguresAreExplained == FiguresInv => FiguresExplained
<1>1. FiguresInv => SummariesExplained
  BY DEF FiguresInv, PageFits, SummariesExplained
<1> QED
  BY <1>1, ClosingsAreExplained, PanelIsRight, DaysAreRight, YearsAreRight, CreditIsRight, ReportsAreRight
  DEF FiguresExplained

\* The inductive invariant of the figures: rows have their types, a closing stored
\* what its turn's sales come to with those cancelled since, a summary that is being
\* put together lacks what it missed, and the customer owes what was lent.
THEOREM FiguresInvariant == MCSpec => []FiguresInv
<1>1. MCInit => FiguresInv
  BY FiguresStart DEF MCInit
<1>2. FiguresInv /\ [MCNext]_<<invoicing, amounts, figures, scene>> => FiguresInv'
  <2>1. [MCNext]_<<invoicing, amounts, figures, scene>> => [FiguresNext]_figures
    BY DEF MCNext
  <2> QED
    BY <2>1, FiguresStep
<1> QED
  BY <1>1, <1>2, PTL DEF MCSpec

\* close_turn, the summary of a turn, the panel of the owner, the dashboards, the
\* expenses, the customer's credit and the reports agree on the figures of the sales,
\* up to what commits between the statements of one page and to the two clocks.
THEOREM FiguresHold == MCSpec => []FiguresAgree
<1>1. FiguresInv => FiguresAgree
  BY FiguresAreExplained DEF FiguresAgree
<1> QED
  BY <1>1, FiguresInvariant, PTL

-----------------------------------------------------------------------------
(* The arithmetic of amounts                                               *)

\* What holds at 0, and one further wherever it holds, holds at N.
LEMMA UpToTheLast ==
  ASSUME NEW N \in Nat, NEW E, 0 \in E, \A k \in 1 .. N : k - 1 \in E => k \in E
  PROVE  N \in E
<1> DEFINE Bad == (0 .. N) \ E
           Less == {ss \in Nat \X Nat : ss[1] < ss[2]}
<1> SUFFICES ASSUME N \notin E PROVE FALSE
  OBVIOUS
<1>1. Bad \in SUBSET Nat /\ Bad # {}
  OBVIOUS
<1>2. IsWellFoundedOn(Less, Nat)
  BY NatLessThanWellFounded DEF OpToRel
<1>3. PICK k \in Bad : \A j \in Bad : <<j, k>> \notin Less
  BY <1>1, <1>2, WFMin
<1>4. k \in 1 .. N /\ k - 1 \in 0 .. N /\ k \notin E
  BY <1>3
<1>5. <<k - 1, k>> \in Less
  BY <1>4
<1>6. k - 1 \in E
  BY <1>3, <1>4, <1>5
<1> QED
  BY <1>4, <1>6

\* The sum of a sequence is the last of its partial sums.
LEMMA PartialSums ==
  ASSUME NEW N \in Nat, NEW v \in [1 .. N -> Int]
  PROVE  \E u \in [0 .. N -> Int] :
            u[0] = 0 /\ (\A k \in 1 .. N : u[k] = u[k - 1] + v[k]) /\ Altogether(v) = u[N]
<1> DEFINE Runs(g, k) == g = [n \in 0 .. k |-> IF n = 0 THEN 0 ELSE g[n - 1] + v[n]]
           E == {k \in 0 .. N : \E g \in [0 .. k -> Int] : Runs(g, k)}
           upto == CHOOSE g : Runs(g, N)
<1>1. Len(v) = N
  OBVIOUS
<1>2. N \in E
  <2>1. 0 \in E
    <3>1. Runs([n \in 0 .. 0 |-> 0], 0) /\ [n \in 0 .. 0 |-> 0] \in [0 .. 0 -> Int]
      OBVIOUS
    <3> HIDE DEF Runs
    <3> QED
      BY <3>1
  <2>2. ASSUME NEW k \in 1 .. N, k - 1 \in E PROVE k \in E
    <3>1. PICK g \in [0 .. k - 1 -> Int] : Runs(g, k - 1)
      BY <2>2
    <3> DEFINE h == [n \in 0 .. k |-> IF n = k THEN g[k - 1] + v[k] ELSE g[n]]
    <3>2. \A n \in 0 .. k - 1 : h[n] = g[n]
      OBVIOUS
    <3>3. h \in [0 .. k -> Int]
      OBVIOUS
    <3>4. \A n \in 0 .. k : h[n] = IF n = 0 THEN 0 ELSE h[n - 1] + v[n]
      BY <3>1, <3>2
    <3>5. Runs(h, k)
      BY <3>4
    <3> HIDE DEF Runs, h
    <3> QED
      BY <3>3, <3>5
  <2> HIDE DEF E
  <2> QED
    BY <2>1, <2>2, UpToTheLast
<1>3. Runs(upto, N)
  BY <1>2
<1>4. Altogether(v) = upto[N]
  BY <1>1 DEF Altogether
<1> HIDE DEF upto
<1>5. \E g \in [0 .. N -> Int] : Runs(g, N)
  BY <1>2
<1>6. \A n \in 0 .. N : upto[n] \in Int
  <2> DEFINE G == {n \in 0 .. N : upto[n] \in Int}
  <2>1. 0 \in G
    BY <1>3
  <2>2. ASSUME NEW n \in 1 .. N, n - 1 \in G PROVE n \in G
    BY <1>3, <2>2
  <2> SUFFICES ASSUME NEW m \in 0 .. N PROVE m \in G
    OBVIOUS
  <2> HIDE DEF G
  <2>3. m \in Nat /\ \A n \in 1 .. m : n - 1 \in G => n \in G
    BY <2>2
  <2> QED
    BY <2>1, <2>3, UpToTheLast
<1>7. upto = [n \in 0 .. N |-> IF n = 0 THEN 0 ELSE upto[n - 1] + v[n]]
  BY <1>3
<1>8. upto \in [0 .. N -> Int] /\ upto[0] = 0 /\ \A k \in 1 .. N : upto[k] = upto[k - 1] + v[k]
  BY <1>6, <1>7
<1> QED
  BY <1>4, <1>8

LEMMA SumIsInt ==
  ASSUME NEW N \in Nat, NEW v \in [1 .. N -> Int]
  PROVE  Altogether(v) \in Int
  BY PartialSums

\* Sums are ordered as their terms are.
LEMMA SumsOrdered ==
  ASSUME NEW N \in Nat, NEW v \in [1 .. N -> Int], NEW w \in [1 .. N -> Int],
         \A i \in 1 .. N : v[i] <= w[i]
  PROVE  Altogether(v) <= Altogether(w)
<1>1. PICK x \in [0 .. N -> Int] :
        x[0] = 0 /\ (\A k \in 1 .. N : x[k] = x[k - 1] + v[k]) /\ Altogether(v) = x[N]
  BY PartialSums
<1>2. PICK y \in [0 .. N -> Int] :
        y[0] = 0 /\ (\A k \in 1 .. N : y[k] = y[k - 1] + w[k]) /\ Altogether(w) = y[N]
  BY PartialSums
<1> DEFINE E == {k \in 0 .. N : x[k] <= y[k]}
<1>3. 0 \in E
  BY <1>1, <1>2
<1>4. ASSUME NEW k \in 1 .. N, k - 1 \in E PROVE k \in E
  BY <1>1, <1>2, <1>4
<1> HIDE DEF E
<1>5. N \in E
  BY <1>3, <1>4, UpToTheLast
<1> QED
  BY <1>1, <1>2, <1>5 DEF E

Combined(v, c, w) == [i \in DOMAIN v |-> v[i] + c * w[i]]

\* The sum of a combination is the combination of the sums.
LEMMA SumsCombine ==
  ASSUME NEW N \in Nat, NEW v \in [1 .. N -> Int], NEW w \in [1 .. N -> Int], NEW c \in Int
  PROVE  /\ Combined(v, c, w) \in [1 .. N -> Int]
         /\ \A i \in 1 .. N : Combined(v, c, w)[i] = v[i] + c * w[i]
         /\ Altogether(Combined(v, c, w)) = Altogether(v) + c * Altogether(w)
<1> DEFINE z == Combined(v, c, w)
<1>0. z \in [1 .. N -> Int] /\ \A i \in 1 .. N : z[i] = v[i] + c * w[i]
  BY DEF Combined
<1> HIDE DEF z
<1>1. PICK x \in [0 .. N -> Int] :
        x[0] = 0 /\ (\A k \in 1 .. N : x[k] = x[k - 1] + v[k]) /\ Altogether(v) = x[N]
  BY PartialSums
<1>2. PICK y \in [0 .. N -> Int] :
        y[0] = 0 /\ (\A k \in 1 .. N : y[k] = y[k - 1] + w[k]) /\ Altogether(w) = y[N]
  BY PartialSums
<1>3. PICK u \in [0 .. N -> Int] :
        u[0] = 0 /\ (\A k \in 1 .. N : u[k] = u[k - 1] + z[k]) /\ Altogether(z) = u[N]
  BY <1>0, PartialSums
<1> DEFINE E == {k \in 0 .. N : u[k] = x[k] + c * y[k]}
<1>4. 0 \in E
  BY <1>1, <1>2, <1>3
<1>5. ASSUME NEW k \in 1 .. N, k - 1 \in E PROVE k \in E
  <2> DEFINE a == y[k - 1]  b == w[k]
  <2>1. a \in Int /\ b \in Int
    OBVIOUS
  <2> HIDE DEF a, b
  <2>2. c * (a + b) = c * a + c * b
    BY ONLY <2>1, c \in Int
  <2>3. /\ u[k] = u[k - 1] + z[k] /\ x[k] = x[k - 1] + v[k] /\ y[k] = a + b
        /\ z[k] = v[k] + c * b /\ u[k - 1] = x[k - 1] + c * a
    BY <1>0, <1>1, <1>2, <1>3, <1>5 DEF a, b
  <2>4. c * a \in Int /\ c * b \in Int /\ x[k - 1] \in Int /\ v[k] \in Int
    BY <2>1
  <2> DEFINE ca == c * a  cb == c * b
  <2>5. c * y[k] = ca + cb /\ z[k] = v[k] + cb /\ u[k - 1] = x[k - 1] + ca
    BY <2>2, <2>3
  <2>6. ca \in Int /\ cb \in Int
    BY <2>4
  <2> DEFINE X == x[k - 1]  V == v[k]
  <2>7. /\ X \in Int /\ V \in Int /\ u[k] = (X + ca) + (V + cb) /\ x[k] = X + V
        /\ c * y[k] = ca + cb
    BY <2>3, <2>4, <2>5
  <2> HIDE DEF ca, cb, X, V
  <2>8. (X + ca) + (V + cb) = (X + V) + (ca + cb)
    BY ONLY <2>6, <2>7
  <2>9. u[k] = x[k] + c * y[k]
    BY ONLY <2>7, <2>8
  <2> QED
    BY <2>9
<1> HIDE DEF E
<1>6. N \in E
  BY <1>4, <1>5, UpToTheLast
<1> QED
  BY <1>0, <1>1, <1>2, <1>3, <1>6 DEF E, z

\* N times the same number.
LEMMA SumOfSame ==
  ASSUME NEW N \in Nat, NEW c \in Int
  PROVE  Altogether([i \in 1 .. N |-> c]) = N * c
<1> DEFINE v == [i \in 1 .. N |-> c]
<1>1. PICK x \in [0 .. N -> Int] :
        x[0] = 0 /\ (\A k \in 1 .. N : x[k] = x[k - 1] + v[k]) /\ Altogether(v) = x[N]
  BY PartialSums
<1> DEFINE E == {k \in 0 .. N : x[k] = k * c}
<1>2. 0 \in E
  BY <1>1
<1>3. ASSUME NEW k \in 1 .. N, k - 1 \in E PROVE k \in E
  <2>1. x[k] = (k - 1) * c + c
    <3>1. x[k] = x[k - 1] + v[k] /\ v[k] = c
      BY <1>1
    <3>2. x[k - 1] = (k - 1) * c
      BY <1>3
    <3> QED
      BY <3>1, <3>2
  <2>2. (k - 1) * c + c = k * c
    OBVIOUS
  <2> QED
    BY <2>1, <2>2
<1> HIDE DEF E
<1>4. N \in E
  BY <1>2, <1>3, UpToTheLast
<1> QED
  BY <1>1, <1>4 DEF E

-----------------------------------------------------------------------------
LEMMA Quotient ==
  ASSUME NEW a \in Nat, NEW d \in Nat \ {0}
  PROVE  a \div d \in Nat /\ d * (a \div d) <= a /\ a < d * (a \div d) + d
  OBVIOUS

\* Rounding moves a number by half a unit at most.
LEMMA Rounded ==
  ASSUME NEW n \in Int, NEW d \in Nat \ {0}
  PROVE  /\ RoundHalfUp(n, d) \in Int
         /\ d * RoundHalfUp(n, d) - n \in -(d \div 2) .. d \div 2
         /\ n >= 0 => RoundHalfUp(n, d) >= 0
<1> DEFINE h == d \div 2
<1>1. h \in Nat /\ d - h <= h + 1
  OBVIOUS
<1> HIDE DEF h
<1>2. CASE n >= 0
  <2> DEFINE q == (n + h) \div d
  <2>1. n + h \in Nat
    BY <1>1, <1>2
  <2>2. q \in Nat /\ d * q <= n + h /\ n + h < d * q + d
    BY <2>1, Quotient
  <2>3. RoundHalfUp(n, d) = q
    BY <1>2 DEF RoundHalfUp, h
  <2> HIDE DEF q
  <2> DEFINE m == d * q
  <2>4. m \in Int
    BY <2>2
  <2> HIDE DEF m
  <2>5. m - n \in -h .. h
    BY <1>1, <2>2, <2>4 DEF m
  <2> QED
    BY <2>2, <2>3, <2>5 DEF m, h
<1>3. CASE ~(n >= 0)
  <2> DEFINE q == (h - n) \div d
  <2>1. h - n \in Nat
    BY <1>1, <1>3
  <2>2. q \in Nat /\ d * q <= h - n /\ h - n < d * q + d
    BY <2>1, Quotient
  <2>3. RoundHalfUp(n, d) = -q
    BY <1>3 DEF RoundHalfUp, h
  <2> HIDE DEF q
  <2> DEFINE m == d * q
  <2>4. m \in Int /\ d * (-q) = -m
    BY <2>2
  <2> HIDE DEF m
  <2>5. -m - n \in -h .. h
    BY <1>1, <2>2, <2>4 DEF m
  <2> QED
    BY <1>3, <2>2, <2>3, <2>4, <2>5 DEF h
<1> QED
  BY <1>2, <1>3

-----------------------------------------------------------------------------
(* Lines                                                                    *)

\* A factor that is not negative keeps an order.
LEMMA Scaled ==
  ASSUME NEW q \in Nat, NEW a \in Int, NEW b \in Int, a <= b
  PROVE  q * a <= q * b
  OBVIOUS

\* And one that is not zero can be taken out.
LEMMA Cancelled ==
  ASSUME NEW g \in Nat \ {0}, NEW a \in Int, NEW m \in Int, g * a \in -(g * m) .. g * m
  PROVE  a \in -m .. m
<1>1. ASSUME a >= m + 1 PROVE FALSE
  <2>1. g * (m + 1) <= g * a
    BY <1>1, Scaled
  <2>2. g * (m + 1) = g * m + g
    OBVIOUS
  <2> QED
    BY <2>1, <2>2
<1>2. ASSUME a <= -m - 1 PROVE FALSE
  <2>1. g * a <= g * (-m - 1)
    BY <1>2, Scaled
  <2>2. g * (-m - 1) = -(g * m) - g
    OBVIOUS
  <2> QED
    BY <2>1, <2>2
<1> QED
  BY <1>1, <1>2

LEMMA ProductWithin ==
  ASSUME NEW m \in Nat, NEW n \in Nat, NEW a \in -m .. m, NEW b \in -n .. n
  PROVE  a * b \in -(m * n) .. m * n
<1>1. PICK c \in Nat, minus \in {TRUE, FALSE} : c <= m /\ a = IF minus THEN -c ELSE c
  <2>1. a >= 0 => a \in Nat /\ a <= m
    OBVIOUS
  <2>2. a < 0 => -a \in Nat /\ -a <= m /\ a = -(-a)
    OBVIOUS
  <2> QED
    BY <2>1, <2>2
<1>2. c * b <= c * n /\ c * (-n) <= c * b
  BY <1>1, Scaled
<1>3. n * c <= n * m
  BY <1>1, Scaled
<1>4. c * n = n * c /\ n * m = m * n /\ c * (-n) = -(c * n) /\ (-c) * b = -(c * b)
  OBVIOUS
<1>5. c * b \in Int /\ m * n \in Int /\ c * n \in Int /\ n * c \in Int /\ n * m \in Int
  OBVIOUS
<1>6. c * b \in -(m * n) .. m * n
  BY <1>2, <1>3, <1>4, <1>5
<1> QED
  BY <1>1, <1>4, <1>5, <1>6

\* A unit and a cent can be halved.
LEMMA UnitIsEven == Unit \in Nat \ {0} /\ Unit \div 2 \in Nat /\ 2 * (Unit \div 2) = Unit
  BY DEF Unit

LEMMA CentIsEven ==
  /\ Fine \in Nat \ {0} /\ Fine * Fine \in Nat \ {0} /\ Cent \in Nat \ {0}
  /\ Cent = (Fine * Fine) * Unit /\ Cent \div 2 \in Nat /\ 2 * (Cent \div 2) = Cent
  /\ Cent \div 2 = (Fine * Fine) * (Unit \div 2)
<1>1. Fine \in Nat \ {0}
  BY AmountsAssumption DEF AmountsAssumption
<1>2. Fine * Fine \in Nat \ {0}
  BY <1>1
<1> DEFINE g == Fine * Fine
<1>3. Cent = 10000 * g
  <2>1. 10000 * Fine * Fine = 10000 * (Fine * Fine)
    BY <1>1
  <2> QED
    BY <2>1 DEF Cent, Unit
<1>4. Unit = 10000 /\ Unit \div 2 = 5000
  BY DEF Unit
<1>5. g \in Nat \ {0}
  BY <1>2
<1> HIDE DEF g
<1>6. Cent \div 2 = 5000 * g
  BY <1>3, <1>5
<1>7. Cent = g * Unit /\ Cent \div 2 = g * (Unit \div 2)
  BY <1>3, <1>4, <1>5, <1>6
<1> QED
  BY <1>1, <1>2, <1>3, <1>5, <1>6, <1>7 DEF g

LEMMA PriceIsInt ==
  ASSUME NEW l \in Lines
  PROVE  /\ Price(l) \in Int /\ l.qty \in Nat \ {0} /\ l.discount \in Nat
         /\ l.price_includes_tax \in BOOLEAN /\ Due(l) \in Int
<1>1. /\ l.product \in DOMAIN PriceList \cup {Common} /\ l.price \in Nat
      /\ l.price_wholesale \in Int \cup {Unset} /\ l.qty \in Nat \ {0} /\ l.discount \in Nat
      /\ l.price_includes_tax \in BOOLEAN
  <2>1. l \in [product : DOMAIN PriceList \cup {Common}, price : Nat, price_wholesale : Int \cup {Unset},
                is_wholesale : BOOLEAN, qty : Nat \ {0}, discount : Nat, price_includes_tax : BOOLEAN]
    BY AmountsAssumption DEF AmountsAssumption
  <2> QED
    BY <2>1
<1>2. Fine \in Nat
  BY CentIsEven
<1>3. Price(l) \in Int
  <2>1. CASE l.product = Common \/ PriceList[l.product].common
    BY <1>1, <2>1 DEF Price
  <2>2. CASE ~(l.product = Common \/ PriceList[l.product].common)
    <3>1. /\ PriceList[l.product].price \in Int
          /\ PriceList[l.product].price_wholesale \in Int
      BY <1>1, <2>2, AmountsAssumption DEF AmountsAssumption
    <3>2. PriceList[l.product].price * Fine \in Int /\ PriceList[l.product].price_wholesale * Fine \in Int
      BY <1>2, <3>1
    <3> QED
      BY <2>2, <3>1, <3>2 DEF Price
  <2> QED
    BY <2>1, <2>2
<1>4. Due(l) \in Int
  <2>1. l.qty * Price(l) \in Int /\ l.discount * Unit * Fine \in Int
    BY <1>1, <1>2, <1>3, UnitIsEven
  <2> QED
    BY <2>1 DEF Due
<1> QED
  BY <1>1, <1>3, <1>4

LEMMA TaxRounded ==
  ASSUME NEW n \in Int
  PROVE  /\ Tax(n) \in Int /\ 100 * Tax(n) - 16 * n \in -50 .. 50
         /\ n >= 0 => Tax(n) >= 0
         /\ WithoutTax(n, 1) \in Int
         /\ n >= 0 => WithoutTax(n, 1) >= 0 /\ WithoutTax(n, 1) <= n
<1> DEFINE m == n * 16  k == n * 100  t == Tax(n)  u == WithoutTax(n, 1)
<1>1. m \in Int /\ k \in Int /\ (n >= 0 => m >= 0 /\ k >= 0) /\ m = 16 * n /\ k = 100 * n
  OBVIOUS
<1>2. t = RoundHalfUp(m, 100) /\ u = RoundHalfUp(k, 116)
  BY DEF Tax, WithoutTax, Percent
<1> HIDE DEF m, k, t, u
<1>0. 100 \div 2 = 50 /\ 116 \div 2 = 58
  OBVIOUS
<1>3. t \in Int /\ 100 * t - m \in -(100 \div 2) .. 100 \div 2 /\ (m >= 0 => t >= 0)
  BY <1>1, <1>2 DEF RoundHalfUp
<1>4. u \in Int /\ 116 * u - k \in -(116 \div 2) .. 116 \div 2 /\ (k >= 0 => u >= 0)
  BY <1>1, <1>2 DEF RoundHalfUp
<1>5. /\ t \in Int /\ 100 * t - 16 * n \in -50 .. 50
      /\ n >= 0 => t >= 0 /\ u >= 0
      /\ u \in Int /\ 116 * u - 100 * n \in -58 .. 58
  BY <1>0, <1>1, <1>3, <1>4
<1>6. n >= 0 => u <= n
  BY <1>5
<1> QED
  BY <1>5, <1>6 DEF t, u

\* Tax is taken out of parts of a cent as of cents.
LEMMA FineWithoutTax ==
  ASSUME NEW n \in Int
  PROVE  /\ WithoutTax(n, Fine) \in Int
         /\ 116 * (Fine * WithoutTax(n, Fine)) - 100 * n \in -(58 * Fine) .. 58 * Fine
         /\ n >= 0 => WithoutTax(n, Fine) >= 0
<1> DEFINE k == n * 100  d == (100 + Percent) * Fine  u == WithoutTax(n, Fine)
<1>1. Fine \in Nat \ {0}
  BY CentIsEven
<1>2. k \in Int /\ k = 100 * n /\ (n >= 0 => k >= 0) /\ d \in Nat \ {0} /\ d = 116 * Fine
  BY <1>1 DEF Percent
<1>3. u = RoundHalfUp(k, d)
  BY DEF WithoutTax
<1> HIDE DEF k, d, u
<1>4. d \div 2 = 58 * Fine
  BY <1>1, <1>2
<1>5. u \in Int /\ d * u - k \in -(d \div 2) .. d \div 2 /\ (k >= 0 => u >= 0)
  BY ONLY <1>2, <1>3, Rounded, ZenonT(40)
<1>6. d * u = 116 * (Fine * u)
  BY <1>1, <1>2, <1>5
<1> QED
  BY <1>2, <1>4, <1>5, <1>6 DEF u

\* What a column rounds, from parts of its unit.
LEMMA FineRounded ==
  ASSUME NEW n \in Int
  PROVE  /\ RoundHalfUp(n, Fine) \in Int
         /\ 2 * (Fine * RoundHalfUp(n, Fine) - n) \in -Fine .. Fine
         /\ n >= 0 => RoundHalfUp(n, Fine) >= 0
<1>1. Fine \in Nat \ {0} /\ 2 * (Fine \div 2) <= Fine /\ Fine \div 2 \in Nat
  BY CentIsEven
<1> DEFINE u == RoundHalfUp(n, Fine)  f == Fine \div 2  z == Fine * u
<1>2. u \in Int /\ z - n \in -f .. f /\ (n >= 0 => u >= 0)
  BY <1>1, Rounded
<1>3. z \in Int
  BY <1>1, <1>2
<1> HIDE DEF u, f, z
<1>4. 2 * (z - n) \in -Fine .. Fine
  BY <1>1, <1>2, <1>3 DEF f
<1> QED
  BY <1>2, <1>4 DEF u, z

\* A column takes a whole number as it is.
LEMMA WholeIsKept ==
  ASSUME NEW n \in Int
  PROVE  RoundHalfUp(n * Fine, Fine) = n
<1> DEFINE u == RoundHalfUp(n * Fine, Fine)
<1>1. Fine \in Nat \ {0} /\ n * Fine \in Int
  BY CentIsEven
<1>2. u \in Int /\ 2 * (Fine * u - n * Fine) \in -Fine .. Fine
  BY <1>1, FineRounded
<1> HIDE DEF u
<1>3. Fine * (2 * (u - n)) = 2 * (Fine * u - n * Fine) /\ Fine * 1 = Fine
  BY <1>1, <1>2
<1>4. 2 * (u - n) \in -1 .. 1
  <2>1. Fine * (2 * (u - n)) \in -(Fine * 1) .. Fine * 1 /\ 2 * (u - n) \in Int /\ 1 \in Int
    BY <1>2, <1>3
  <2> QED
    BY <1>1, <2>1, Cancelled
<1>5. u = n
  BY <1>2, <1>4
<1> QED
  BY <1>5 DEF u

LEMMA CentsRounded ==
  ASSUME NEW n \in Int
  PROVE  /\ RoundHalfUp(n, Cent) \in Int
         /\ Cent * RoundHalfUp(n, Cent) - n \in -(Cent \div 2) .. Cent \div 2
         /\ n >= 0 => RoundHalfUp(n, Cent) >= 0
  BY CentIsEven, Rounded

LEMMA ImporteRounded ==
  ASSUME NEW row, row.qty \in Nat, row.price \in Int
  PROVE  /\ Importe(row) \in Int
         /\ Unit * Importe(row) - row.qty * row.price \in -(Unit \div 2) .. Unit \div 2
<1>1. row.qty * row.price \in Int
  OBVIOUS
<1> QED
  BY <1>1, UnitIsEven, Rounded DEF Importe

\* A rounding is scaled with what it rounds.
LEMMA ScaledRounding ==
  ASSUME NEW U \in Nat, NEW j \in Nat, NEW k \in Nat, NEW h \in Nat, NEW a \in Int, NEW b \in Int,
         j * a - k * b \in -h .. h
  PROVE  j * (U * a) - k * (U * b) \in -(h * U) .. h * U
<1>1. U * (j * a - k * b) = j * (U * a) - k * (U * b)
  OBVIOUS
<1> DEFINE z == j * a - k * b
<1>2. z \in Int /\ -h <= z /\ z <= h /\ -h \in Int
  OBVIOUS
<1> HIDE DEF z
<1>3. U * (-h) <= U * z /\ U * z <= U * h
  BY ONLY <1>2, U \in Nat, h \in Nat, Scaled
<1>4. U * (-h) = -(h * U) /\ U * h = h * U /\ U * z \in Int /\ h * U \in Int
  BY <1>2
<1>5. U * z \in -(h * U) .. h * U
  BY <1>3, <1>4
<1> QED
  BY <1>1, <1>5 DEF z

\* Two factors that are each off by a half, and their product.
LEMMA ProductsApart ==
  ASSUME NEW F \in Nat, NEW q \in Int, NEW rq \in Nat, NEW J \in Int, NEW p \in Int, NEW A \in Nat,
         p \in -A .. A, 2 * (F * rq - q) \in -F .. F, 116 * (F * p) - J \in -(58 * F) .. 58 * F
  PROVE  116 * (F * F * (rq * p)) - q * J \in -(F * F * (58 * (rq + A) + 29)) .. F * F * (58 * (rq + A) + 29)
<1> DEFINE eps == F * rq - q  del == 116 * (F * p) - J  M == 116 * A + 58
<1>1. eps \in Int /\ del \in Int /\ 2 * eps \in -F .. F /\ del \in -(58 * F) .. 58 * F /\ 58 * F \in Nat
  OBVIOUS
<1>2. J \in -(F * M) .. F * M /\ F * M \in Nat
  <2>1. F * p \in -(F * A) .. F * A
    <3>1. p <= A /\ -A <= p /\ -A \in Int
      OBVIOUS
    <3>2. F * p <= F * A /\ F * (-A) <= F * p
      BY <3>1, Scaled
    <3>3. F * (-A) = -(F * A) /\ F * p \in Int /\ F * A \in Int
      OBVIOUS
    <3> QED
      BY <3>2, <3>3
  <2>2. F * M = 116 * (F * A) + 58 * F
    OBVIOUS
  <2>3. F * p \in Int /\ F * A \in Nat
    OBVIOUS
  <2> DEFINE fp == F * p  fA == F * A  fM == F * M
  <2>4. /\ fp \in -fA .. fA /\ fM = 116 * fA + 58 * F /\ fp \in Int /\ fA \in Nat
        /\ 116 * fp - J \in -(58 * F) .. 58 * F
    BY <2>1, <2>2, <2>3
  <2> HIDE DEF fp, fA, fM
  <2>5. J \in -fM .. fM /\ fM \in Nat
    BY <2>4
  <2> QED
    BY <2>5 DEF fM
<1> DEFINE Je == J * (2 * eps)  rd == (F * rq) * del  G == F * F
<1> HIDE DEF eps, del
<1>3. Je \in -((F * M) * F) .. (F * M) * F
  BY <1>1, <1>2, ProductWithin
<1>4. rd \in -((F * rq) * (58 * F)) .. (F * rq) * (58 * F)
  <2>1. F * rq \in Nat /\ F * rq \in -(F * rq) .. F * rq
    OBVIOUS
  <2> QED
    BY <1>1, <2>1, ProductWithin
<1>5. (F * M) * F = 2 * (G * (58 * A + 29)) /\ (F * rq) * (58 * F) = G * (58 * rq)
  BY <1>1
<1>6. 116 * (G * (rq * p)) - q * J = J * eps + rd
  <2>1. (F * rq) * (116 * (F * p)) = 116 * (G * (rq * p))
    OBVIOUS
  <2>2. F * rq = eps + q /\ 116 * (F * p) = del + J
    BY DEF eps, del
  <2> DEFINE a == F * rq
  <2>3. a \in Int /\ a = eps + q
    BY <2>2
  <2> HIDE DEF a
  <2>4. a * (del + J) = a * del + (eps + q) * J
    BY <1>1, <2>3
  <2>5. (eps + q) * J = J * eps + q * J
    BY <1>1
  <2>6. J * eps \in Int /\ q * J \in Int /\ a * del \in Int
    BY <1>1, <2>3
  <2>7. a * (116 * (F * p)) = a * del + J * eps + q * J
    BY <2>2, <2>4, <2>5, <2>6
  <2>8. a * (116 * (F * p)) = 116 * (G * (rq * p)) /\ a * del = rd
    BY <2>1 DEF a
  <2> DEFINE x == 116 * (G * (rq * p))  y == J * eps  z == q * J
  <2>9. x = rd + y + z /\ y \in Int /\ z \in Int /\ rd \in Int
    BY <2>6, <2>7, <2>8
  <2> HIDE DEF x, y, z, rd
  <2>10. x - z = y + rd
    BY <2>9
  <2> QED
    BY <2>10 DEF x, y, z
<1>7. Je = 2 * (J * eps) /\ J * eps \in Int /\ rd \in Int /\ G * (58 * A + 29) \in Int /\ G * (58 * rq) \in Int
  BY <1>1
<1>8. G * (58 * (rq + A) + 29) = G * (58 * A + 29) + G * (58 * rq)
  OBVIOUS
<1> DEFINE je == J * eps  g1 == G * (58 * A + 29)  g2 == G * (58 * rq)
<1>9. /\ 2 * je \in -(2 * g1) .. 2 * g1 /\ rd \in -g2 .. g2 /\ je \in Int /\ rd \in Int
      /\ g1 \in Int /\ g2 \in Int
  BY <1>3, <1>4, <1>5, <1>7
<1> HIDE DEF je, g1, g2, rd
<1>10. je + rd \in -(g1 + g2) .. g1 + g2
  BY <1>9
<1> QED
  BY <1>6, <1>8, <1>10 DEF je, g1, g2

LEMMA RowApart ==
  ASSUME NEW q \in Nat, NEW J \in Int, NEW row, row.qty = RoundHalfUp(q, Fine), row.price \in Int,
         116 * (Fine * row.price) - J \in -(58 * Fine) .. 58 * Fine
  PROVE  /\ row.qty \in Nat /\ OffBy(row) \in Nat
         /\ 116 * (Fine * Fine * (row.qty * row.price)) - q * J
              \in -(Fine * Fine * OffBy(row)) .. Fine * Fine * OffBy(row)
<1> DEFINE rq == row.qty  p == row.price  A == IF p < 0 THEN -p ELSE p
<1>1. rq \in Nat /\ p \in Int /\ Fine \in Nat /\ 2 * (Fine * rq - q) \in -Fine .. Fine
  <2>1. rq = RoundHalfUp(q, Fine) /\ q \in Int /\ q >= 0 /\ p \in Int
    OBVIOUS
  <2> HIDE DEF rq, p
  <2>2. rq \in Int /\ rq >= 0 /\ 2 * (Fine * rq - q) \in -Fine .. Fine
    BY ONLY <2>1, FineRounded, Zenon
  <2> QED
    BY <2>1, <2>2, CentIsEven
<1>2. A \in Nat /\ p \in -A .. A
  BY <1>1
<1>3. OffBy(row) = 58 * (rq + A) + 29
  BY DEF OffBy
<1> HIDE DEF rq, p, A
<1>4. 116 * (Fine * p) - J \in -(58 * Fine) .. 58 * Fine
  BY DEF p
<1>5. 116 * (Fine * Fine * (rq * p)) - q * J
        \in -(Fine * Fine * (58 * (rq + A) + 29)) .. Fine * Fine * (58 * (rq + A) + 29)
  BY <1>1, <1>2, <1>4, ProductsApart
<1>6. 58 * (rq + A) + 29 \in Nat
  BY <1>1, <1>2
<1> QED
  BY <1>1, <1>3, <1>5, <1>6 DEF rq, p

\* A line of a document and its tax, in what a quantity of a till times a price comes in.
LEMMA ImporteIs ==
  ASSUME NEW row, row.qty \in Nat, row.price \in Int
  PROVE  /\ Importe(row) \in Int /\ Tax(Importe(row)) \in Int
         /\ Fine * Fine * (row.qty * row.price) \in Int
         /\ Cent * Importe(row) - Fine * Fine * (row.qty * row.price) \in -(Cent \div 2) .. Cent \div 2
         /\ 100 * (Cent * Tax(Importe(row))) - 16 * (Cent * Importe(row)) \in -(50 * Cent) .. 50 * Cent
<1> DEFINE I == Importe(row)  T == Tax(I)  x == row.qty * row.price  g == Fine * Fine  h == Unit \div 2
<1>1. /\ I \in Int /\ Unit * I - x \in -h .. h /\ x \in Int
  BY ImporteRounded
<1>2. T \in Int /\ 100 * T - 16 * I \in -50 .. 50
  BY <1>1, TaxRounded
<1>3. /\ g \in Nat /\ h \in Nat /\ Unit \in Nat /\ Cent = g * Unit /\ Cent \in Nat /\ Cent \div 2 = g * h
  BY CentIsEven, UnitIsEven
<1> HIDE DEF I, T, x, g, h
<1>4. Cent * I - g * x \in -(Cent \div 2) .. Cent \div 2
  <2> DEFINE a == Unit * I
  <2>1. a \in Int /\ 1 * a - 1 * x \in -h .. h /\ g * a = Cent * I
    BY <1>1, <1>3
  <2> HIDE DEF a
  <2>2. 1 * (g * a) - 1 * (g * x) \in -(h * g) .. h * g
    BY <1>1, <1>3, <2>1, ScaledRounding
  <2>3. g * a \in Int /\ g * x \in Int /\ h * g = g * h
    BY <1>1, <1>3, <2>1
  <2> QED
    BY <1>3, <2>1, <2>2, <2>3
<1>5. 100 * (Cent * T) - 16 * (Cent * I) \in -(50 * Cent) .. 50 * Cent
  BY <1>1, <1>2, <1>3, ScaledRounding
<1>6. g * x \in Int
  BY <1>1, <1>3
<1> QED
  BY <1>1, <1>2, <1>4, <1>5, <1>6 DEF I, T, x, g

\* What is within roundings of as many cents is within those of the row.
LEMMA OutOfCents ==
  ASSUME NEW a \in Int, NEW e \in Int, NEW R \in Nat,
         100 * (Cent * a) - 116 * (Cent * e)
           \in -(Fine * Fine * R + 216 * Cent) .. Fine * Fine * R + 216 * Cent
  PROVE  100 * (Unit * a) - 116 * (Unit * e) \in -(R + 216 * Unit) .. R + 216 * Unit
<1> DEFINE g == Fine * Fine  z == 100 * (Unit * a) - 116 * (Unit * e)  m == R + 216 * Unit
<1>1. g \in Nat \ {0} /\ Cent = g * Unit /\ Unit \in Nat
  BY CentIsEven, UnitIsEven
<1> HIDE DEF g
<1>2. z \in Int /\ m \in Int
  BY <1>1
<1>3. g * z = 100 * (Cent * a) - 116 * (Cent * e)
  <2>1. g * z = 100 * (g * (Unit * a)) - 116 * (g * (Unit * e))
    BY <1>1
  <2>2. g * (Unit * a) = (g * Unit) * a /\ g * (Unit * e) = (g * Unit) * e
    BY <1>1
  <2> QED
    BY <1>1, <2>1, <2>2
<1>4. g * m = g * R + 216 * Cent
  BY <1>1
<1> HIDE DEF z, m
<1>5. g * z \in -(g * m) .. g * m
  BY <1>3, <1>4 DEF g
<1>6. z \in -m .. m
  BY <1>1, <1>2, <1>5, Cancelled
<1> QED
  BY <1>6 DEF z, m

LEMMA DistributesOverThree ==
  ASSUME NEW U \in Int, NEW a \in Int, NEW b \in Int, NEW c \in Int
  PROVE  U * (a + b - c) = U * a + U * b - U * c
  OBVIOUS

\* What the roundings of a line come to together: those of its row, and 2.16 cents.
LEMMA RoundingsAddUp ==
  ASSUME NEW C \in Nat, NEW h \in Nat, NEW R \in Int, NEW x \in Int, NEW y \in Int, NEW CD \in Int,
         NEW Ce \in Int, NEW CI \in Int, NEW CT \in Int, NEW CW \in Int, 2 * h = C,
         116 * x - 100 * y \in -R .. R, CI - x \in -h .. h,
         100 * CT - 16 * CI \in -(50 * C) .. 50 * C, 116 * Ce - 100 * CD \in -(58 * C) .. 58 * C,
         CW - (y - CD) \in -h .. h
  PROVE  100 * (CI + CT - CW) - 116 * Ce \in -(R + 216 * C) .. R + 216 * C
  OBVIOUS

LEMMA UntaxedRoundingsAddUp ==
  ASSUME NEW C \in Nat, NEW h \in Nat, NEW R \in Int, NEW x \in Int, NEW y \in Int, NEW Ce \in Int,
         NEW CI \in Int, NEW CT \in Int, NEW CL \in Int, NEW CV \in Int, 2 * h = C,
         116 * x - 116 * y \in -R .. R, CI - x \in -h .. h, 100 * CT - 16 * CI \in -(50 * C) .. 50 * C,
         100 * CV - 16 * CL \in -(50 * C) .. 50 * C, CL - (y - Ce) \in -h .. h
  PROVE  100 * (CI + CT - (CL + CV)) - 116 * Ce \in -(R + 216 * C) .. R + 216 * C
  OBVIOUS

LEMMA RowRoundingsAddUp ==
  ASSUME NEW C \in Nat, NEW h \in Nat, NEW R \in Int, NEW x \in Int, NEW y \in Int, NEW CS \in Int,
         NEW CI \in Int, NEW CT \in Int, 2 * h = C, 116 * x - 116 * y \in -R .. R,
         CI - x \in -h .. h, 100 * CT - 16 * CI \in -(50 * C) .. 50 * C, CS - y \in -h .. h
  PROVE  100 * (CI + CT) - 116 * CS \in -(R + 216 * C) .. R + 216 * C
  OBVIOUS

\* A row, and what its document makes of it against the subtotal it keeps.
RowIs(row) ==
    /\ row.qty \in Nat /\ row.price \in Int /\ row.subtotal \in Int /\ OffBy(row) \in Nat
    /\ Importe(row) \in Int /\ Tax(Importe(row)) \in Int
    /\ 100 * (Unit * (Importe(row) + Tax(Importe(row)))) - 116 * (Unit * row.subtotal)
         \in -(OffBy(row) + 216 * Unit) .. OffBy(row) + 216 * Unit

LEMMA UntaxedRowApart ==
  ASSUME NEW c, c.qty \in Nat, c.price \in Int
  PROVE  LET row == ItemRow(c)  x == Fine * Fine * (row.qty * row.price)  R == Fine * Fine * OffBy(row)
         IN  /\ row.qty \in Nat /\ row.price \in Int /\ OffBy(row) \in Nat
             /\ 116 * x - 116 * (c.qty * c.price) \in -R .. R
<1> DEFINE row == ItemRow(c)  q == c.qty  k == c.price
<1>1. q \in Nat /\ k \in Int /\ row.qty = RoundHalfUp(q, Fine) /\ row.price = RoundHalfUp(k, Fine)
  BY DEF ItemRow
<1> HIDE DEF row, q, k
<1> DEFINE p == row.price  J == 116 * k
<1>2. p \in Int /\ 2 * (Fine * p - k) \in -Fine .. Fine /\ Fine \in Nat /\ J \in Int
  <2>1. p = RoundHalfUp(k, Fine) /\ J \in Int
    BY <1>1
  <2> HIDE DEF p, J
  <2>2. p \in Int /\ 2 * (Fine * p - k) \in -Fine .. Fine
    BY ONLY <1>1, <2>1, FineRounded, Zenon
  <2> QED
    BY <2>1, <2>2, CentIsEven
<1>3. 116 * (Fine * p) - J \in -(58 * Fine) .. 58 * Fine
  <2> DEFINE z == Fine * p
  <2>1. z \in Int /\ 2 * (z - k) \in -Fine .. Fine
    BY <1>2
  <2> HIDE DEF z
  <2>2. 116 * z - 116 * k \in -(58 * Fine) .. 58 * Fine
    BY <1>1, <1>2, <2>1
  <2> QED
    BY <2>2 DEF z
<1>4. q * J = 116 * (q * k)
  BY <1>1
<1> HIDE DEF J
<1>5. /\ row.qty \in Nat /\ OffBy(row) \in Nat
      /\ 116 * (Fine * Fine * (row.qty * row.price)) - q * J
           \in -(Fine * Fine * OffBy(row)) .. Fine * Fine * OffBy(row)
  BY <1>1, <1>2, <1>3, RowApart
<1> QED
  BY <1>2, <1>4, <1>5 DEF row, q, k

LEMMA RowCalculated ==
  ASSUME NEW c, c.qty \in Nat, c.price \in Int
  PROVE  RowIs(ItemRow(c))
<1> DEFINE row == ItemRow(c)  y == c.qty * c.price  S == row.subtotal  I == Importe(row)  T == Tax(I)
           x == Fine * Fine * (row.qty * row.price)  r == OffBy(row)  R == Fine * Fine * r
           h == Cent \div 2
<1>1. /\ row.qty \in Nat /\ row.price \in Int /\ r \in Nat /\ 116 * x - 116 * y \in -R .. R
  BY UntaxedRowApart
<1>2. y \in Int /\ S = RoundHalfUp(y, Cent)
  BY DEF ItemRow
<1>3. row.subtotal = S /\ Importe(row) = I /\ Tax(Importe(row)) = T /\ OffBy(row) = r
  OBVIOUS
<1> HIDE DEF row, y, S, r
<1>4. S \in Int /\ Cent * S - y \in -h .. h
  BY <1>2, CentsRounded
<1>5. /\ I \in Int /\ T \in Int /\ x \in Int /\ Cent * I - x \in -h .. h
      /\ 100 * (Cent * T) - 16 * (Cent * I) \in -(50 * Cent) .. 50 * Cent
  BY <1>1, ImporteIs
<1>6. Cent \in Nat /\ h \in Nat /\ 2 * h = Cent /\ Fine * Fine \in Nat
  BY CentIsEven
<1> HIDE DEF I, T, x, h
<1> DEFINE CI == Cent * I  CT == Cent * T  CS == Cent * S
<1>7. /\ CI \in Int /\ CT \in Int /\ CS \in Int /\ R \in Int /\ Cent * (I + T) = CI + CT
  BY <1>1, <1>4, <1>5, <1>6
<1> HIDE DEF R
<1>8. CI - x \in -h .. h /\ 100 * CT - 16 * CI \in -(50 * Cent) .. 50 * Cent /\ CS - y \in -h .. h
  BY <1>4, <1>5
<1> HIDE DEF CI, CT, CS
<1>9. 100 * (CI + CT) - 116 * CS \in -(R + 216 * Cent) .. R + 216 * Cent
  BY <1>1, <1>2, <1>5, <1>6, <1>7, <1>8, RowRoundingsAddUp
<1> DEFINE a == I + T
<1>10. a \in Int /\ 100 * (Cent * a) - 116 * (Cent * S) \in -(Fine * Fine * r + 216 * Cent) .. Fine * Fine * r + 216 * Cent
  BY <1>5, <1>7, <1>9 DEF CS, R
<1> HIDE DEF a
<1>11. 100 * (Unit * a) - 116 * (Unit * S) \in -(r + 216 * Unit) .. r + 216 * Unit
  BY <1>1, <1>4, <1>10, OutOfCents
<1>12. RowIs(row)
  BY <1>1, <1>3, <1>4, <1>5, <1>11 DEF RowIs, a
<1> QED
  BY <1>12 DEF row

\* What a line has to do with its row and with what is paid of it.
LineIs(l, c, row) ==
    /\ c.qty = l.qty /\ c.price \in Int /\ c.line_discount \in Nat /\ c.with_tax \in Nat
    /\ Price(l) % Fine = 0 => \E b \in Int : c.price = b * Fine
    /\ Due(l) >= 0 =>
        /\ 100 * (Unit * (Importe(row) + Tax(Importe(row)) - c.with_tax)) - 116 * (Unit * c.line_discount)
             \in -(OffBy(row) + 216 * Unit) .. OffBy(row) + 216 * Unit
        /\ l.price_includes_tax => Cent * c.with_tax - Due(l) \in -(Cent \div 2) .. Cent \div 2

LEMMA Divided ==
  ASSUME NEW n \in Int, n % Fine = 0
  PROVE  \E b \in Int : n = b * Fine
<1>1. Fine \in Nat \ {0}
  BY CentIsEven
<1>2. n \div Fine \in Int /\ n = (n \div Fine) * Fine
  BY <1>1, SMTT(30)
<1> QED
  BY <1>2

LEMMA TaxedLine ==
  ASSUME NEW l \in Lines, l.price_includes_tax, Price(l) > 0
  PROVE  LineIs(l, Taxed(l), ItemRow(Taxed(l)))
<1> DEFINE c == Taxed(l)  row == ItemRow(c)  q == l.qty  P == Price(l)  D == l.discount
           p == WithoutTax(P, Fine)  e == WithoutTax(D, Fine)  I == Importe(row)  T == Tax(I)
           W == c.with_tax  due == Due(l)  h == Cent \div 2  r == OffBy(row)  g == Fine * Fine
           K == Unit * Fine
<1>1. P \in Int /\ P > 0 /\ q \in Nat \ {0} /\ D \in Nat /\ due \in Int /\ due = q * P - D * Unit * Fine
  BY PriceIsInt DEF Due
<1>2. /\ c.qty = q /\ c.price = p * Fine /\ c.line_discount = e /\ W = RoundHalfUp(NotNegative(due), Cent)
      /\ row.qty = RoundHalfUp(c.qty, Fine) /\ row.price = RoundHalfUp(c.price, Fine)
  BY DEF Taxed, Due, ItemRow
<1>3. /\ I = Importe(row) /\ T = Tax(I) /\ W = c.with_tax /\ q = l.qty /\ due = Due(l) /\ h = Cent \div 2
      /\ p = WithoutTax(P, Fine) /\ e = WithoutTax(D, Fine) /\ P = Price(l) /\ r = OffBy(row)
  OBVIOUS
<1>4. Cent \in Nat \ {0} /\ h \in Nat /\ 2 * h = Cent /\ Fine \in Nat /\ g \in Nat /\ K \in Nat
      /\ Cent = Fine * K
  <2>1. Fine * (Unit * Fine) = (Fine * Fine) * Unit
    BY CentIsEven, UnitIsEven
  <2> QED
    BY <2>1, CentIsEven, UnitIsEven
<1> HIDE DEF c, row, q, P, D, p, e, I, T, W, due, h, r
<1>5. p \in Int /\ 116 * (Fine * p) - 100 * P \in -(58 * Fine) .. 58 * Fine
  BY <1>1, <1>3, FineWithoutTax
<1>6. e \in Nat /\ 116 * (Fine * e) - 100 * D \in -(58 * Fine) .. 58 * Fine
  <2>1. D \in Int /\ D >= 0
    BY <1>1
  <2>2. e \in Int /\ e >= 0 /\ 116 * (Fine * e) - 100 * D \in -(58 * Fine) .. 58 * Fine
    BY ONLY <1>3, <2>1, FineWithoutTax, Zenon
  <2> QED
    BY <2>2
<1>7. row.price = p
  BY <1>2, <1>5, WholeIsKept
<1>8. W \in Nat /\ (due >= 0 => Cent * W - due \in -h .. h)
  <2> DEFINE n == NotNegative(due)
  <2>1. n \in Nat /\ (due >= 0 => n = due) /\ W = RoundHalfUp(n, Cent)
    BY <1>1, <1>2 DEF NotNegative
  <2> HIDE DEF n
  <2>2. W \in Nat /\ Cent * W - n \in -h .. h
    BY <1>3, <2>1, CentsRounded
  <2> QED
    BY <2>1, <2>2
<1> DEFINE x == g * (row.qty * row.price)  y == q * P  J == 100 * P  R == g * r
<1>9. row.qty \in Nat /\ r \in Nat /\ 116 * x - q * J \in -R .. R
  <2>1. /\ row.qty = RoundHalfUp(q, Fine) /\ row.price \in Int /\ J \in Int /\ q \in Nat
        /\ 116 * (Fine * row.price) - J \in -(58 * Fine) .. 58 * Fine
    BY <1>1, <1>2, <1>5, <1>7
  <2> HIDE DEF J
  <2> QED
    BY <1>3, <2>1, RowApart
<1>10. /\ I \in Int /\ T \in Int /\ x \in Int /\ Cent * I - x \in -h .. h
       /\ 100 * (Cent * T) - 16 * (Cent * I) \in -(50 * Cent) .. 50 * Cent
  BY <1>3, <1>5, <1>7, <1>9, ImporteIs
<1>11. q * J = 100 * y /\ y \in Int /\ R \in Int
  BY <1>1, <1>4, <1>9
<1> DEFINE CI == Cent * I  CT == Cent * T  CW == Cent * W  Ce == Cent * e  CD == D * Unit * Fine
<1>12. /\ CI \in Int /\ CT \in Int /\ CW \in Int /\ Ce \in Int /\ CD \in Int
       /\ Cent * (I + T - W) = CI + CT - CW
  BY <1>1, <1>4, <1>6, <1>8, <1>10, UnitIsEven, DistributesOverThree
<1>13. 116 * Ce - 100 * CD \in -(58 * Cent) .. 58 * Cent
  <2> DEFINE fe == Fine * e  f58 == 58 * Fine
  <2>1. fe \in Int /\ f58 \in Nat /\ 116 * fe - 100 * D \in -f58 .. f58 /\ D \in Int
    BY <1>1, <1>4, <1>6
  <2>2. K * fe = Ce /\ K * D = CD /\ f58 * K = 58 * Cent
    <3>1. Unit \in Nat
      BY UnitIsEven
    <3> QED
      BY <1>1, <1>4, <1>6, <3>1
  <2> HIDE DEF fe, f58, K
  <2>3. 116 * (K * fe) - 100 * (K * D) \in -(f58 * K) .. f58 * K
    BY <1>4, <2>1, ScaledRounding
  <2> QED
    BY <2>2, <2>3
<1>14. due = y - CD
  BY <1>1
<1> HIDE DEF x, y, J, R, CI, CT, CW, Ce, CD, K, g
<1>15. due >= 0 => 100 * (CI + CT - CW) - 116 * Ce \in -(R + 216 * Cent) .. R + 216 * Cent
  <2> SUFFICES ASSUME due >= 0 PROVE 100 * (CI + CT - CW) - 116 * Ce \in -(R + 216 * Cent) .. R + 216 * Cent
    OBVIOUS
  <2>1. CW - (y - CD) \in -h .. h /\ CI - x \in -h .. h /\ 100 * CT - 16 * CI \in -(50 * Cent) .. 50 * Cent
    BY <1>8, <1>10, <1>14 DEF CW, CI, CT
  <2>2. 116 * x - 100 * y \in -R .. R
    BY <1>9, <1>11
  <2> QED
    BY <1>4, <1>10, <1>11, <1>12, <1>13, <2>1, <2>2, RoundingsAddUp
<1> DEFINE a == I + T - W
<1>16. a \in Int /\ (due >= 0 => 100 * (Unit * a) - 116 * (Unit * e) \in -(r + 216 * Unit) .. r + 216 * Unit)
  <2>1. a \in Int /\ e \in Int
    BY <1>6, <1>8, <1>10
  <2>2. due >= 0 => 100 * (Cent * a) - 116 * (Cent * e)
                      \in -(Fine * Fine * r + 216 * Cent) .. Fine * Fine * r + 216 * Cent
    BY <1>12, <1>15 DEF Ce, R, g
  <2> HIDE DEF a
  <2> QED
    BY <1>9, <2>1, <2>2, OutOfCents
<1>17. c.price \in Int /\ \E b \in Int : c.price = b * Fine
  BY <1>2, <1>4, <1>5
<1> HIDE DEF a
<1>18. LineIs(l, c, row)
  <2>1. due >= 0 => 100 * (Unit * (Importe(row) + Tax(Importe(row)) - c.with_tax)) - 116 * (Unit * c.line_discount)
                      \in -(OffBy(row) + 216 * Unit) .. OffBy(row) + 216 * Unit
    BY <1>2, <1>3, <1>16 DEF a
  <2> QED
    BY <1>2, <1>3, <1>6, <1>8, <1>17, <2>1 DEF LineIs
<1> QED
  BY <1>18 DEF c, row

\* A discount may be more than a line by what rounding made of it, no more.
LEMMA DiscountedRounds ==
  ASSUME NEW C \in Nat \ {0}, NEW h \in Nat, NEW y \in Int, NEW Ce \in Int, NEW CD \in Int, NEW L \in Int,
         2 * h = C, y - CD >= 0, Ce - CD \in -h .. h,
         L = RoundHalfUp(NotNegative(y - Ce), C)
  PROVE  C * L - (y - Ce) \in -(C \div 2) .. C \div 2
<1>1. C \div 2 = h
  OBVIOUS
<1>2. CASE y - Ce >= 0
  BY <1>2, Rounded DEF NotNegative
<1>3. CASE y - Ce < 0
  <2>1. L = 0
    BY <1>1, <1>3 DEF NotNegative, RoundHalfUp
  <2>2. C * L = 0
    BY <2>1
  <2> QED
    BY <1>1, <1>3, <2>2
<1> QED
  BY <1>2, <1>3

LEMMA NothingRounds ==
  ASSUME NEW C \in Nat \ {0}
  PROVE  RoundHalfUp(0, C) = 0
<1> DEFINE h == C \div 2
<1>1. h \in Nat /\ h < C
  OBVIOUS
<1>2. RoundHalfUp(0, C) = (0 + h) \div C
  BY DEF RoundHalfUp
<1> HIDE DEF h
<1>3. (0 + h) \div C = 0
  BY <1>1
<1> QED
  BY <1>2, <1>3

LEMMA UntaxedLine ==
  ASSUME NEW l \in Lines, ~(l.price_includes_tax /\ Price(l) > 0)
  PROVE  LineIs(l, Untaxed(l), ItemRow(Untaxed(l)))
<1> DEFINE c == Untaxed(l)  row == ItemRow(c)  q == l.qty  P == Price(l)  D == l.discount
           e == RoundHalfUp(D, Fine)  I == Importe(row)  T == Tax(I)  y == q * P
           L == RoundHalfUp(NotNegative(y - e * Cent), Cent)  V == Tax(L)
           W == c.with_tax  due == Due(l)  h == Cent \div 2  r == OffBy(row)  g == Fine * Fine
           K == Unit * Fine  x == g * (row.qty * row.price)
<1>1. /\ P \in Int /\ q \in Nat \ {0} /\ D \in Nat /\ due \in Int /\ due = y - D * Unit * Fine /\ y \in Int
      /\ l.price_includes_tax => P <= 0
  BY PriceIsInt DEF Due
<1>2. c.qty = q /\ c.price = P /\ c.line_discount = e /\ W = L + V
  BY DEF Untaxed
<1>3. row.qty \in Nat /\ row.price \in Int /\ r \in Nat /\ 116 * x - 116 * y \in -(g * r) .. g * r
  <2>1. c.qty \in Nat /\ c.price \in Int /\ c.qty * c.price = y
    BY <1>1, <1>2
  <2> HIDE DEF c, y
  <2> QED
    BY <2>1, UntaxedRowApart
<1>4. Cent \in Nat \ {0} /\ h \in Nat /\ 2 * h = Cent /\ Fine \in Nat /\ g \in Nat /\ K \in Nat
      /\ Cent = Fine * K
  <2>1. Fine * (Unit * Fine) = (Fine * Fine) * Unit
    BY CentIsEven, UnitIsEven
  <2> QED
    BY <2>1, CentIsEven, UnitIsEven
<1>5. /\ I = Importe(row) /\ T = Tax(I) /\ W = c.with_tax /\ q = l.qty /\ due = Due(l) /\ h = Cent \div 2
      /\ e = RoundHalfUp(D, Fine) /\ P = Price(l) /\ r = OffBy(row) /\ V = Tax(L)
      /\ L = RoundHalfUp(NotNegative(y - e * Cent), Cent)
  OBVIOUS
<1>6. /\ I \in Int /\ T \in Int /\ x \in Int /\ Cent * I - x \in -h .. h
      /\ 100 * (Cent * T) - 16 * (Cent * I) \in -(50 * Cent) .. 50 * Cent
  <2> HIDE DEF row
  <2> QED
    BY <1>3, ImporteIs
<1> HIDE DEF c, row, q, P, D, e, I, T, W, due, h, r, y, L, V, x
<1>7. e \in Nat /\ 2 * (Fine * e - D) \in -Fine .. Fine
  <2>1. D \in Int /\ D >= 0
    BY <1>1
  <2>2. e \in Int /\ e >= 0 /\ 2 * (Fine * e - D) \in -Fine .. Fine
    BY ONLY <1>5, <2>1, FineRounded, Zenon
  <2> QED
    BY <2>2
<1> DEFINE Ce == Cent * e  CD == D * Unit * Fine  n == NotNegative(y - Ce)
<1>8. Ce \in Nat /\ CD \in Nat /\ Ce - CD \in -h .. h
  <2> DEFINE fe == Fine * e
  <2>1. fe \in Int /\ 2 * fe - 2 * D \in -Fine .. Fine /\ D \in Int
    BY <1>1, <1>4, <1>7
  <2>2. K * fe = Ce /\ K * D = CD /\ Fine * K = Cent /\ Ce \in Nat /\ CD \in Nat
    <3>1. Unit \in Nat
      BY UnitIsEven
    <3> QED
      BY <1>1, <1>4, <1>7, <3>1
  <2> HIDE DEF fe, K, Ce, CD
  <2>3. 2 * (K * fe) - 2 * (K * D) \in -(Fine * K) .. Fine * K
    BY <1>4, <2>1, ScaledRounding
  <2> QED
    BY <1>4, <2>2, <2>3
<1>9. n \in Nat /\ n \in Int /\ n >= 0 /\ (y - Ce <= 0 => n = 0) /\ L = RoundHalfUp(n, Cent)
  <2>1. e * Cent = Ce
    BY <1>4, <1>7
  <2> HIDE DEF Ce
  <2> QED
    BY <1>1, <1>5, <1>8, <2>1 DEF NotNegative
<1> HIDE DEF n
<1>10. L \in Nat /\ (n = 0 => L = 0)
  <2>1. L \in Int /\ L >= 0
    BY <1>9, CentsRounded
  <2>2. n = 0 => L = 0
    BY <1>4, <1>9, NothingRounds
  <2> QED
    BY <2>1, <2>2
<1>11. V \in Nat /\ 100 * V - 16 * L \in -50 .. 50 /\ (L = 0 => V = 0)
  <2>1. L \in Int /\ L >= 0
    BY <1>10
  <2>2. V \in Int /\ V >= 0 /\ 100 * V - 16 * L \in -50 .. 50
    BY <1>5, <2>1, TaxRounded
  <2> QED
    BY <2>1, <2>2
<1>12. W \in Nat
  BY <1>2, <1>10, <1>11
<1> DEFINE CI == Cent * I  CT == Cent * T  CL == Cent * L  CV == Cent * V  R == g * r
<1>13. /\ CI \in Int /\ CT \in Int /\ CL \in Int /\ CV \in Int /\ R \in Int
       /\ Cent * (I + T - W) = CI + CT - (CL + CV)
  <2>1. Cent * (I + T - W) = CI + CT - Cent * W
    BY <1>4, <1>6, <1>12, DistributesOverThree
  <2>2. Cent * W = CL + CV
    BY <1>2, <1>4, <1>10, <1>11
  <2> QED
    BY <1>3, <1>4, <1>6, <1>10, <1>11, <2>1, <2>2
<1>14. 100 * CV - 16 * CL \in -(50 * Cent) .. 50 * Cent
  BY <1>4, <1>10, <1>11, ScaledRounding
<1>15. due >= 0 => CL - (y - Ce) \in -h .. h
  <2> SUFFICES ASSUME due >= 0 PROVE CL - (y - Ce) \in -h .. h
    OBVIOUS
  <2>1. y - CD >= 0 /\ CD \in Int /\ Ce \in Int /\ L \in Int
    BY <1>1, <1>8, <1>10
  <2> HIDE DEF Ce, CD
  <2> QED
    BY <1>1, <1>4, <1>5, <1>8, <1>9, <2>1, DiscountedRounds DEF n
<1>16. due = y - CD
  BY <1>1
<1>17. 116 * x - 116 * y \in -R .. R /\ CI - x \in -h .. h /\ 100 * CT - 16 * CI \in -(50 * Cent) .. 50 * Cent
  BY <1>3, <1>6
<1> HIDE DEF CI, CT, CL, CV, R, Ce, CD, g
<1>18. due >= 0 => 100 * (CI + CT - (CL + CV)) - 116 * Ce \in -(R + 216 * Cent) .. R + 216 * Cent
  BY <1>1, <1>4, <1>6, <1>8, <1>13, <1>14, <1>15, <1>17, UntaxedRoundingsAddUp
<1> DEFINE a == I + T - W
<1>19. a \in Int /\ (due >= 0 => 100 * (Unit * a) - 116 * (Unit * e) \in -(r + 216 * Unit) .. r + 216 * Unit)
  <2>1. a \in Int /\ e \in Int
    BY <1>6, <1>7, <1>12
  <2>2. due >= 0 => 100 * (Cent * a) - 116 * (Cent * e)
                      \in -(Fine * Fine * r + 216 * Cent) .. Fine * Fine * r + 216 * Cent
    BY <1>13, <1>18 DEF Ce, R, g
  <2> HIDE DEF a
  <2> QED
    BY <1>3, <2>1, <2>2, OutOfCents
<1>20. due >= 0 /\ l.price_includes_tax => Cent * W - due \in -h .. h
  <2> SUFFICES ASSUME due >= 0, l.price_includes_tax PROVE Cent * W - due \in -h .. h
    OBVIOUS
  <2>1. y <= 0
    <3>1. P <= 0 /\ q \in Nat
      BY <1>1
    <3>2. q * P <= q * 0 /\ q * 0 = 0
      BY <1>1, <3>1, Scaled
    <3> QED
      BY <3>2 DEF y
  <2>2. due = 0 /\ y - Ce <= 0
    BY <1>1, <1>8, <1>16, <2>1
  <2>3. W = 0
    BY <1>2, <1>9, <1>10, <1>11, <2>2
  <2>4. Cent * W = 0
    BY <1>4, <2>3
  <2> QED
    BY <1>4, <2>2, <2>4
<1>21. c.price \in Int /\ (P % Fine = 0 => \E b \in Int : c.price = b * Fine)
  BY <1>1, <1>2, Divided
<1> HIDE DEF a
<1>22. LineIs(l, c, row)
  <2>1. due >= 0 => 100 * (Unit * (Importe(row) + Tax(Importe(row)) - c.with_tax)) - 116 * (Unit * c.line_discount)
                      \in -(OffBy(row) + 216 * Unit) .. OffBy(row) + 216 * Unit
    BY <1>2, <1>5, <1>19 DEF a
  <2>2. due >= 0 /\ l.price_includes_tax => Cent * c.with_tax - due \in -h .. h
    BY <1>5, <1>20
  <2>3. c.qty = l.qty /\ c.line_discount \in Nat /\ c.with_tax \in Nat
    BY <1>2, <1>5, <1>7, <1>12
  <2> QED
    BY <1>5, <1>21, <2>1, <2>2, <2>3 DEF LineIs
<1> QED
  BY <1>22 DEF c, row

LEMMA LineCalculated ==
  ASSUME NEW l \in Lines
  PROVE  LineIs(l, calculate_item(l), ItemRow(calculate_item(l)))
<1>1. CASE l.price_includes_tax /\ Price(l) > 0
  BY <1>1, TaxedLine DEF calculate_item
<1>2. CASE ~(l.price_includes_tax /\ Price(l) > 0)
  BY <1>2, UntaxedLine DEF calculate_item
<1> QED
  BY <1>1, <1>2

-----------------------------------------------------------------------------
(* Sales                                                                    *)

\* A sum of terms that are not negative is at least each of them.
LEMMA SumOfNaturals ==
  ASSUME NEW N \in Nat, NEW v \in [1 .. N -> Nat]
  PROVE  Altogether(v) \in Nat /\ \A i \in 1 .. N : v[i] <= Altogether(v)
<1>1. v \in [1 .. N -> Int]
  OBVIOUS
<1>2. PICK u \in [0 .. N -> Int] :
        u[0] = 0 /\ (\A k \in 1 .. N : u[k] = u[k - 1] + v[k]) /\ Altogether(v) = u[N]
  BY <1>1, PartialSums
<1> DEFINE E == {k \in 0 .. N : u[k] \in Nat /\ \A i \in 1 .. k : v[i] <= u[k]}
<1>3. 0 \in E
  BY <1>2
<1>4. ASSUME NEW k \in 1 .. N, k - 1 \in E PROVE k \in E
  <2>1. u[k] = u[k - 1] + v[k] /\ v[k] \in Nat /\ u[k - 1] \in Nat /\ \A i \in 1 .. k - 1 : v[i] <= u[k - 1]
    BY <1>2, <1>4
  <2>2. ASSUME NEW i \in 1 .. k PROVE v[i] <= u[k]
    <3>1. CASE i = k
      BY <2>1, <3>1
    <3>2. CASE i \in 1 .. k - 1
      <4>1. v[i] \in Nat /\ v[i] <= u[k - 1]
        BY <2>1, <3>2
      <4> QED
        BY <2>1, <4>1
    <3> QED
      BY <3>1, <3>2
  <2>3. u[k] \in Nat
    BY <2>1
  <2> QED
    BY <2>2, <2>3
<1> HIDE DEF E
<1>5. N \in E
  BY <1>3, <1>4, UpToTheLast
<1> QED
  BY <1>2, <1>5 DEF E

Calculated(c) == [i \in DOMAIN c |-> calculate_item(c[i])]
SaleOf(c, method) ==
    LET totals == sale_totals(Calculated(c)) IN
    [lines |-> c, items |-> [i \in DOMAIN c |-> ItemRow(Calculated(c)[i])],
     total |-> totals.total, subtotal |-> totals.subtotal, tax |-> totals.tax,
     discount |-> totals.discount, payment_method |-> method]
SaleRows == {s \in {SaleOf(c, method) : c \in Seq(Lines), method \in Payments} : s.lines # <<>> /\ s.total > 0}

\* The numbers of a sale, each of its lines.
WithTaxes(s) == [i \in 1 .. Len(s.lines) |-> calculate_item(s.lines[i]).with_tax]
Discounts(s) == [i \in 1 .. Len(s.lines) |-> calculate_item(s.lines[i]).line_discount]

LEMMA SaleIs ==
  ASSUME NEW s \in SaleRows
  PROVE  /\ Len(s.lines) \in Nat \ {0} /\ s.lines \in [1 .. Len(s.lines) -> Lines]
         /\ DOMAIN s.items = 1 .. Len(s.lines) /\ Len(s.items) = Len(s.lines)
         /\ \A i \in 1 .. Len(s.lines) : s.items[i] = ItemRow(calculate_item(s.lines[i]))
         /\ s.total = Altogether(WithTaxes(s)) /\ s.total > 0
         /\ s.discount = Altogether(Discounts(s))
         /\ s.subtotal = WithoutTax(s.total, 1) /\ s.tax = s.total - WithoutTax(s.total, 1)
<1>1. PICK c \in Seq(Lines), method \in Payments : s = SaleOf(c, method)
  BY DEF SaleRows
<1>2. s.lines # <<>> /\ s.total > 0
  BY DEF SaleRows
<1>3. /\ s.lines = c /\ s.items = [i \in DOMAIN c |-> ItemRow(Calculated(c)[i])]
      /\ s.total = sale_totals(Calculated(c)).total /\ s.subtotal = sale_totals(Calculated(c)).subtotal
      /\ s.tax = sale_totals(Calculated(c)).tax /\ s.discount = sale_totals(Calculated(c)).discount
  BY <1>1 DEF SaleOf
<1>4. /\ Len(c) \in Nat \ {0} /\ DOMAIN c = 1 .. Len(c) /\ c \in [1 .. Len(c) -> Lines]
  BY <1>2, <1>3, LenProperties, EmptySeq
<1> DEFINE N == Len(c)  K == Calculated(c)
<1>5. /\ DOMAIN K = 1 .. N /\ \A i \in 1 .. N : K[i] = calculate_item(c[i])
  BY <1>4 DEF Calculated
<1>6. /\ [i \in DOMAIN K |-> K[i].with_tax] = WithTaxes(s)
      /\ [i \in DOMAIN K |-> K[i].line_discount] = Discounts(s)
  <2> HIDE DEF K
  <2> QED
    BY <1>3, <1>5 DEF WithTaxes, Discounts
<1>7. /\ s.total = Altogether(WithTaxes(s)) /\ s.discount = Altogether(Discounts(s))
      /\ s.subtotal = WithoutTax(s.total, 1) /\ s.tax = s.total - WithoutTax(s.total, 1)
  <2> HIDE DEF K
  <2>1. s.total = sale_totals(K).total /\ s.subtotal = sale_totals(K).subtotal
        /\ s.tax = sale_totals(K).tax /\ s.discount = sale_totals(K).discount
    BY <1>3 DEF K
  <2> QED
    BY <1>6, <2>1 DEF sale_totals
<1>8. DOMAIN s.items = 1 .. N /\ \A i \in 1 .. N : s.items[i] = ItemRow(calculate_item(c[i]))
  <2> HIDE DEF K
  <2>1. s.items = [i \in DOMAIN c |-> ItemRow(K[i])]
    BY <1>3 DEF K
  <2> QED
    BY <1>4, <1>5, <2>1
<1>9. Len(s.items) = N
  <2>1. s.items = [i \in 1 .. N |-> ItemRow(Calculated(c)[i])]
    BY <1>3, <1>4
  <2> QED
    BY <1>4, <2>1
<1> QED
  BY <1>2, <1>3, <1>4, <1>7, <1>8, <1>9

\* A row is of its line, and has amounts of its own.
LEMMA ItemIs ==
  ASSUME NEW s \in SaleRows, NEW i \in 1 .. Len(s.lines)
  PROVE  /\ s.lines[i] \in Lines /\ s.items[i] = ItemRow(calculate_item(s.lines[i]))
         /\ LineIs(s.lines[i], calculate_item(s.lines[i]), s.items[i]) /\ RowIs(s.items[i])
<1> DEFINE l == s.lines[i]  c == calculate_item(l)
<1>1. l \in Lines /\ s.items[i] = ItemRow(c)
  BY SaleIs
<1>2. LineIs(l, c, ItemRow(c)) /\ l.qty \in Nat
  BY <1>1, LineCalculated, PriceIsInt
<1> HIDE DEF l, c
<1>3. c.qty \in Nat /\ c.price \in Int
  BY <1>2 DEF LineIs
<1>4. RowIs(ItemRow(c))
  BY <1>3, RowCalculated
<1> QED
  BY <1>1, <1>2, <1>4 DEF l, c

\* Its sums are numbers.
LEMMA SaleNumbers ==
  ASSUME NEW s \in SaleRows
  PROVE  /\ Importes(s.items) \in [1 .. Len(s.lines) -> Int] /\ Taxes(s.items) \in [1 .. Len(s.lines) -> Int]
         /\ WithTaxes(s) \in [1 .. Len(s.lines) -> Int] /\ Discounts(s) \in [1 .. Len(s.lines) -> Int]
         /\ Altogether(Importes(s.items)) \in Int /\ Altogether(Taxes(s.items)) \in Int
         /\ s.total \in Nat \ {0} /\ s.total \in Int /\ s.discount \in Nat /\ s.subtotal \in Nat /\ s.tax \in Nat
         /\ s.subtotal + s.tax = s.total
         /\ [i \in DOMAIN s.items |-> s.items[i].subtotal] \in [1 .. Len(s.lines) -> Int]
         /\ Altogether([i \in DOMAIN s.items |-> s.items[i].subtotal]) \in Int
<1> DEFINE N == Len(s.lines)
<1>1. N \in Nat \ {0} /\ DOMAIN s.items = 1 .. N
  BY SaleIs
<1> HIDE DEF N
<1>2. ASSUME NEW i \in 1 .. N
      PROVE  /\ Importe(s.items[i]) \in Int /\ Tax(Importe(s.items[i])) \in Int
             /\ calculate_item(s.lines[i]).with_tax \in Nat /\ calculate_item(s.lines[i]).line_discount \in Nat
             /\ s.items[i].subtotal \in Int
  <2>1. LineIs(s.lines[i], calculate_item(s.lines[i]), s.items[i])
    BY ItemIs DEF N
  <2>2. RowIs(s.items[i])
    BY ItemIs DEF N
  <2>3. calculate_item(s.lines[i]).with_tax \in Nat /\ calculate_item(s.lines[i]).line_discount \in Nat
    BY ONLY <2>1 DEF LineIs
  <2> QED
    BY ONLY <2>2, <2>3 DEF RowIs
<1>3. Importes(s.items) \in [1 .. N -> Int] /\ Taxes(s.items) \in [1 .. N -> Int]
  BY <1>1, <1>2 DEF Importes, Taxes
<1>4. WithTaxes(s) \in [1 .. N -> Nat] /\ Discounts(s) \in [1 .. N -> Nat]
  BY <1>2 DEF WithTaxes, Discounts, N
<1>5. WithTaxes(s) \in [1 .. N -> Int] /\ Discounts(s) \in [1 .. N -> Int]
  BY <1>4
<1>6. Altogether(Importes(s.items)) \in Int /\ Altogether(Taxes(s.items)) \in Int
  BY <1>1, <1>3, SumIsInt
<1>7. s.total \in Nat \ {0} /\ s.discount \in Nat
  <2>1. s.total = Altogether(WithTaxes(s)) /\ s.total > 0 /\ s.discount = Altogether(Discounts(s))
    BY SaleIs
  <2>2. Altogether(WithTaxes(s)) \in Nat /\ Altogether(Discounts(s)) \in Nat
    BY <1>1, <1>4, SumOfNaturals
  <2> QED
    BY <2>1, <2>2
<1>8. s.subtotal \in Nat /\ s.tax \in Nat /\ s.subtotal + s.tax = s.total
  <2>1. WithoutTax(s.total, 1) \in Nat /\ WithoutTax(s.total, 1) <= s.total
    BY <1>7, TaxRounded
  <2>2. s.subtotal = WithoutTax(s.total, 1) /\ s.tax = s.total - WithoutTax(s.total, 1)
    BY SaleIs
  <2> QED
    BY <1>7, <2>1, <2>2
<1>9. [i \in DOMAIN s.items |-> s.items[i].subtotal] \in [1 .. N -> Int]
  BY <1>1, <1>2
<1>10. Altogether([i \in DOMAIN s.items |-> s.items[i].subtotal]) \in Int
  BY <1>1, <1>9, SumIsInt
<1> QED
  BY <1>3, <1>5, <1>6, <1>7, <1>8, <1>9, <1>10 DEF N

LEMMA SumOfZeros ==
  ASSUME NEW N \in Nat
  PROVE  /\ [i \in 1 .. N |-> 0] \in [1 .. N -> Int] /\ Altogether([i \in 1 .. N |-> 0]) = 0
<1> DEFINE c == 0
<1>1. c \in Int /\ N * c = 0 /\ c = 0
  OBVIOUS
<1> HIDE DEF c
<1>2. Altogether([i \in 1 .. N |-> c]) = N * c
  BY <1>1, SumOfSame
<1> QED
  BY <1>1, <1>2

\* Terms that are within others sum to what is within their sum.
LEMMA SumsWithin ==
  ASSUME NEW N \in Nat, NEW v \in [1 .. N -> Int], NEW w \in [1 .. N -> Int],
         \A i \in 1 .. N : v[i] \in -w[i] .. w[i]
  PROVE  Altogether(v) \in -Altogether(w) .. Altogether(w)
<1>0. PICK minus \in Int : minus = -1
  OBVIOUS
<1> DEFINE zero == [i \in 1 .. N |-> 0]
           less == Combined(zero, minus, w)
<1>1. zero \in [1 .. N -> Int] /\ Altogether(zero) = 0 /\ DOMAIN zero = 1 .. N /\ \A i \in 1 .. N : zero[i] = 0
  BY SumOfZeros
<1> HIDE DEF zero
<1>2. /\ less \in [1 .. N -> Int] /\ Altogether(less) = Altogether(zero) + minus * Altogether(w)
      /\ \A i \in 1 .. N : less[i] = zero[i] + minus * w[i]
  BY ZenonT(40), <1>1, SumsCombine
<1>3. \A i \in 1 .. N : less[i] = -w[i]
  BY <1>0, <1>1, <1>2
<1>4. Altogether(v) \in Int /\ Altogether(w) \in Int
  BY SumIsInt
<1> HIDE DEF less
<1>5. Altogether(less) <= Altogether(v) /\ Altogether(v) <= Altogether(w)
  <2>1. \A i \in 1 .. N : less[i] <= v[i] /\ v[i] <= w[i]
    BY <1>3
  <2> QED
    BY <1>2, <2>1, SumsOrdered
<1> QED
  BY <1>0, <1>1, <1>2, <1>4, <1>5

\* What is within a sum of roundings is within its whole part.
LEMMA WithinQuotient ==
  ASSUME NEW D \in Int, NEW M \in Nat, NEW d \in Nat \ {0}, d * D \in -M .. M
  PROVE  D \in -(M \div d) .. M \div d
<1> DEFINE q == M \div d
<1>1. q \in Nat /\ d * q <= M /\ M < d * q + d
  BY Quotient
<1> HIDE DEF q
<1>2. ASSUME D >= q + 1 PROVE FALSE
  <2>1. d * (q + 1) <= d * D
    BY <1>1, <1>2, Scaled
  <2>2. d * (q + 1) = d * q + d
    BY <1>1
  <2> QED
    BY <1>1, <2>1, <2>2
<1>3. ASSUME D <= -q - 1 PROVE FALSE
  <2>1. d * D <= d * (-q - 1)
    BY <1>1, <1>3, Scaled
  <2>2. d * (-q - 1) = -(d * q) - d
    BY <1>1
  <2> QED
    BY <1>1, <2>1, <2>2
<1>4. D \in -q .. q
  BY <1>1, <1>2, <1>3
<1> QED
  BY <1>4 DEF q

\* Differences of the lines sum to those of the sale, by whatever they are measured.
LEMMA LinesComeTo ==
  ASSUME NEW s \in SaleRows, NEW vW \in [1 .. Len(s.lines) -> Int], NEW vE \in [1 .. Len(s.lines) -> Int],
         \A i \in 1 .. Len(s.lines) :
            100 * (Unit * (Importe(s.items[i]) + Tax(Importe(s.items[i])) - vW[i])) - 116 * (Unit * vE[i])
              \in -(OffBy(s.items[i]) + 216 * Unit) .. OffBy(s.items[i]) + 216 * Unit
  PROVE  LET b == [i \in DOMAIN s.items |-> OffBy(s.items[i]) + 216 * Unit]
         IN  /\ Altogether(b) \in Nat
             /\ 100 * (Unit * (Altogether(Importes(s.items)) + Altogether(Taxes(s.items)) - Altogether(vW)))
                  - 116 * (Unit * Altogether(vE)) \in -Altogether(b) .. Altogether(b)
<1> DEFINE N == Len(s.lines)  b == [i \in DOMAIN s.items |-> OffBy(s.items[i]) + 216 * Unit]
           vI == Importes(s.items)  vT == Taxes(s.items)  zero == [i \in 1 .. N |-> 0]
<1>1. /\ N \in Nat /\ DOMAIN s.items = 1 .. N
      /\ vI \in [1 .. N -> Int] /\ vT \in [1 .. N -> Int] /\ vW \in [1 .. N -> Int] /\ vE \in [1 .. N -> Int]
  BY SaleIs, SaleNumbers
<1>0. Unit \in Nat \ {0} /\ 100 * Unit \in Int /\ -(116 * Unit) \in Int
  BY UnitIsEven
<1>2. PICK one \in Int, minus \in Int, up \in Int, down \in Int :
        one = 1 /\ minus = -1 /\ up = 100 * Unit /\ down = -(116 * Unit)
  BY <1>0
<1> DEFINE both == Combined(vI, one, vT)
           rest == Combined(both, minus, vW)
           scaled == Combined(zero, up, rest)
           a == Combined(scaled, down, vE)
<1>3. ASSUME NEW i \in 1 .. N
      PROVE  /\ OffBy(s.items[i]) \in Nat
             /\ 100 * (Unit * (vI[i] + vT[i] - vW[i])) - 116 * (Unit * vE[i])
                  \in -(OffBy(s.items[i]) + 216 * Unit) .. OffBy(s.items[i]) + 216 * Unit
  <2>1. vI[i] = Importe(s.items[i]) /\ vT[i] = Tax(Importe(s.items[i]))
    BY <1>1, <1>3 DEF Importes, Taxes
  <2>2. OffBy(s.items[i]) \in Nat
    BY <1>3, ItemIs DEF RowIs
  <2> HIDE DEF vI, vT
  <2> QED
    BY <1>3, <2>1, <2>2
<1> HIDE DEF N, vI, vT
<1>4. zero \in [1 .. N -> Int] /\ Altogether(zero) = 0 /\ DOMAIN zero = 1 .. N /\ \A i \in 1 .. N : zero[i] = 0
  BY <1>1, SumOfZeros
<1> HIDE DEF zero
<1>5. /\ both \in [1 .. N -> Int] /\ Altogether(both) = Altogether(vI) + one * Altogether(vT)
      /\ \A i \in 1 .. N : both[i] = vI[i] + one * vT[i]
  <2>1. N \in Nat /\ vI \in [1 .. N -> Int] /\ vT \in [1 .. N -> Int]
    BY <1>1
  <2> QED
    BY ONLY <2>1, one \in Int, SumsCombine, ZenonT(40)
<1> HIDE DEF both
<1>6. /\ rest \in [1 .. N -> Int] /\ Altogether(rest) = Altogether(both) + minus * Altogether(vW)
      /\ \A i \in 1 .. N : rest[i] = both[i] + minus * vW[i]
  <2>1. N \in Nat /\ both \in [1 .. N -> Int] /\ vW \in [1 .. N -> Int]
    BY <1>1, <1>5
  <2> QED
    BY ONLY <2>1, minus \in Int, SumsCombine, ZenonT(40)
<1> HIDE DEF rest
<1>7. /\ scaled \in [1 .. N -> Int] /\ Altogether(scaled) = Altogether(zero) + up * Altogether(rest)
      /\ \A i \in 1 .. N : scaled[i] = zero[i] + up * rest[i]
  <2>1. N \in Nat /\ zero \in [1 .. N -> Int] /\ rest \in [1 .. N -> Int]
    BY <1>1, <1>4, <1>6
  <2> QED
    BY ONLY <2>1, up \in Int, SumsCombine, ZenonT(40)
<1> HIDE DEF scaled
<1>8. /\ a \in [1 .. N -> Int] /\ Altogether(a) = Altogether(scaled) + down * Altogether(vE)
      /\ \A i \in 1 .. N : a[i] = scaled[i] + down * vE[i]
  <2>1. N \in Nat /\ scaled \in [1 .. N -> Int] /\ vE \in [1 .. N -> Int]
    BY <1>1, <1>7
  <2> QED
    BY ONLY <2>1, down \in Int, SumsCombine, ZenonT(40)
<1> HIDE DEF a
<1>9. ASSUME NEW U \in Int, NEW x \in Int, NEW y \in Int
      PROVE  0 + (100 * U) * x + (-(116 * U)) * y = 100 * (U * x) - 116 * (U * y)
  OBVIOUS
<1>10. \A i \in 1 .. N : a[i] = 100 * (Unit * (vI[i] + vT[i] - vW[i])) - 116 * (Unit * vE[i])
  <2> SUFFICES ASSUME NEW i \in 1 .. N
               PROVE  a[i] = 100 * (Unit * (vI[i] + vT[i] - vW[i])) - 116 * (Unit * vE[i])
    OBVIOUS
  <2>1. vI[i] \in Int /\ vT[i] \in Int /\ vW[i] \in Int /\ vE[i] \in Int
    BY <1>1
  <2>2. rest[i] = vI[i] + vT[i] - vW[i] /\ rest[i] \in Int
    BY SMTT(30), <1>2, <1>5, <1>6, <2>1
  <2>3. a[i] = 0 + (100 * Unit) * rest[i] + (-(116 * Unit)) * vE[i]
    BY <1>2, <1>4, <1>7, <1>8
  <2>4. a[i] = 100 * (Unit * rest[i]) - 116 * (Unit * vE[i])
    <3> DEFINE x == rest[i]  y == vE[i]  U == Unit
    <3>1. x \in Int /\ y \in Int /\ U \in Int /\ a[i] = 0 + (100 * U) * x + (-(116 * U)) * y
      BY <1>0, <2>1, <2>2, <2>3
    <3> HIDE DEF x, y, U
    <3>2. 0 + (100 * U) * x + (-(116 * U)) * y = 100 * (U * x) - 116 * (U * y)
      BY ONLY <3>1, <1>9
    <3> QED
      BY <3>1, <3>2 DEF x, y, U
  <2> DEFINE r == rest[i]  q == vI[i] + vT[i] - vW[i]
  <2>5. r = q /\ a[i] = 100 * (Unit * r) - 116 * (Unit * vE[i])
    BY <2>2, <2>4
  <2> HIDE DEF r, q
  <2>6. a[i] = 100 * (Unit * q) - 116 * (Unit * vE[i])
    BY ONLY <2>5
  <2> QED
    BY <2>6 DEF q
<1>11. Altogether(a) = 100 * (Unit * (Altogether(vI) + Altogether(vT) - Altogether(vW))) - 116 * (Unit * Altogether(vE))
  <2>1. /\ Altogether(vI) \in Int /\ Altogether(vT) \in Int /\ Altogether(vW) \in Int
        /\ Altogether(vE) \in Int
    BY <1>1, SumIsInt
  <2>2. /\ Altogether(rest) = Altogether(vI) + Altogether(vT) - Altogether(vW)
        /\ Altogether(rest) \in Int
    BY <1>2, <1>5, <1>6, <2>1
  <2>3. Altogether(a) = 0 + (100 * Unit) * Altogether(rest) + (-(116 * Unit)) * Altogether(vE)
    BY <1>2, <1>4, <1>7, <1>8
  <2>4. Altogether(a) = 100 * (Unit * Altogether(rest)) - 116 * (Unit * Altogether(vE))
    <3> DEFINE x == Altogether(rest)  y == Altogether(vE)  U == Unit
    <3>1. x \in Int /\ y \in Int /\ U \in Int /\ Altogether(a) = 0 + (100 * U) * x + (-(116 * U)) * y
      BY <1>0, <2>1, <2>2, <2>3
    <3> HIDE DEF x, y, U
    <3>2. 0 + (100 * U) * x + (-(116 * U)) * y = 100 * (U * x) - 116 * (U * y)
      BY ONLY <3>1, <1>9
    <3> QED
      BY <3>1, <3>2 DEF x, y, U
  <2> DEFINE r == Altogether(rest)  q == Altogether(vI) + Altogether(vT) - Altogether(vW)
  <2>5. r = q /\ Altogether(a) = 100 * (Unit * r) - 116 * (Unit * Altogether(vE))
    BY <2>2, <2>4
  <2> HIDE DEF r, q
  <2>6. Altogether(a) = 100 * (Unit * q) - 116 * (Unit * Altogether(vE))
    BY ONLY <2>5
  <2> QED
    BY <2>6 DEF q
<1>12. b \in [1 .. N -> Nat] /\ \A i \in 1 .. N : b[i] = OffBy(s.items[i]) + 216 * Unit
  <2>1. \A i \in 1 .. N : OffBy(s.items[i]) + 216 * Unit \in Nat
    BY <1>0, <1>3
  <2> QED
    BY <1>1, <2>1
<1> HIDE DEF b
<1>13. b \in [1 .. N -> Int] /\ Altogether(b) \in Nat
  <2>1. b \in [1 .. N -> Int]
    BY <1>12
  <2> QED
    BY <1>1, <1>12, <2>1, SumOfNaturals
<1>14. \A i \in 1 .. N : a[i] \in -b[i] .. b[i]
  BY <1>3, <1>10, <1>12
<1>15. Altogether(a) \in -Altogether(b) .. Altogether(b)
  BY <1>1, <1>8, <1>13, <1>14, SumsWithin
<1> QED
  BY <1>11, <1>13, <1>15 DEF b, vI, vT

\* And what they come to, less a base and its tax, is within the slack of the rows.
LEMMA WithinSlack ==
  ASSUME NEW items, NEW B \in Nat, NEW z \in Int, NEW E \in Int,
         B = Altogether([i \in DOMAIN items |-> OffBy(items[i]) + 216 * Unit]),
         100 * (Unit * z) - 116 * (Unit * E) \in -B .. B
  PROVE  z - E - Tax(E) \in -Slack(items) .. Slack(items)
<1> DEFINE T == Tax(E)  D == z - E - T  U == Unit
<1>1. 100 * (U * z) - 116 * (U * E) \in -B .. B
  OBVIOUS
<1>3. T \in Int /\ 100 * T - 16 * E \in -50 .. 50
  BY TaxRounded
<1>5. Slack(items) = (B + 50 * U) \div (100 * U)
  BY DEF Slack
<1>6. U \in Nat \ {0}
  BY UnitIsEven
<1> HIDE DEF T, U
<1>7. 100 * (U * T) - 16 * (U * E) \in -(50 * U) .. 50 * U
  BY <1>3, <1>6, ScaledRounding
<1>8. D = z - E - T /\ D \in Int
  BY <1>3
<1> HIDE DEF D
<1>9. U * D = U * z - U * E - U * T
  BY <1>3, <1>6, <1>8
<1>10. (100 * U) * D = 100 * (U * D)
  BY <1>6, <1>8
<1> DEFINE Uz == U * z  UE == U * E  UT == U * T  UD == U * D
<1>11. Uz \in Int /\ UE \in Int /\ UT \in Int /\ UD \in Int
  BY <1>3, <1>6, <1>8
<1> HIDE DEF Uz, UE, UT, UD
<1>12. 100 * UD \in -(B + 50 * U) .. B + 50 * U
  <2>1. UD = Uz - UE - UT /\ 100 * Uz - 116 * UE \in -B .. B /\ 100 * UT - 16 * UE \in -(50 * U) .. 50 * U
    BY <1>1, <1>7, <1>9 DEF Uz, UE, UT, UD
  <2> QED
    BY ONLY B \in Nat, <1>6, <1>11, <2>1
<1>13. D \in -((B + 50 * U) \div (100 * U)) .. (B + 50 * U) \div (100 * U)
  <2> DEFINE M == B + 50 * U  d == 100 * U
  <2>1. M \in Nat /\ d \in Nat \ {0} /\ d * D \in -M .. M
    BY <1>6, <1>10, <1>12 DEF UD
  <2> HIDE DEF M, d
  <2>2. D \in -(M \div d) .. M \div d
    BY <1>8, <2>1, WithinQuotient
  <2> QED
    BY <2>2 DEF M, d
<1> QED
  BY <1>5, <1>13 DEF D, T

\* An invoice comes to what was paid and the tax of the discount, up to roundings.
LEMMA InvoiceIsNear ==
  ASSUME NEW s \in SaleRows, Uncut(s)
  PROVE  Near(build_comprobante(s).total, s.total + Tax(s.discount), Slack(s.items))
<1> DEFINE N == Len(s.lines)  vW == WithTaxes(s)  vE == Discounts(s)
           B == Altogether([i \in DOMAIN s.items |-> OffBy(s.items[i]) + 216 * Unit])
           X == Altogether(Importes(s.items))  Y == Altogether(Taxes(s.items))
           W == Altogether(vW)  E == Altogether(vE)  T == Tax(E)  z == X + Y - W
<1>1. ASSUME NEW i \in 1 .. N
      PROVE  100 * (Unit * (Importe(s.items[i]) + Tax(Importe(s.items[i])) - vW[i])) - 116 * (Unit * vE[i])
               \in -(OffBy(s.items[i]) + 216 * Unit) .. OffBy(s.items[i]) + 216 * Unit
  <2>1. LineIs(s.lines[i], calculate_item(s.lines[i]), s.items[i])
    BY <1>1, ItemIs
  <2>2. Due(s.lines[i]) >= 0
    BY <1>1, SaleIs DEF Uncut
  <2>3. vW[i] = calculate_item(s.lines[i]).with_tax /\ vE[i] = calculate_item(s.lines[i]).line_discount
    BY <1>1 DEF WithTaxes, Discounts
  <2> HIDE DEF vW, vE
  <2> QED
    BY <2>1, <2>2, <2>3 DEF LineIs
<1>2. s.total = W /\ s.discount = E /\ vW \in [1 .. N -> Int] /\ vE \in [1 .. N -> Int]
  BY SaleIs, SaleNumbers
<1> HIDE DEF vW, vE
<1>3. X \in Int /\ Y \in Int /\ W \in Int /\ E \in Int /\ T \in Int
  <2>1. X \in Int /\ Y \in Int /\ W \in Nat /\ E \in Nat
    BY <1>2, SaleNumbers
  <2> HIDE DEF E
  <2>2. T \in Int
    BY <2>1, TaxRounded
  <2> QED
    BY <2>1, <2>2
<1>4. B \in Nat /\ 100 * (Unit * z) - 116 * (Unit * E) \in -B .. B
  BY ONLY s \in SaleRows, <1>1, <1>2, LinesComeTo, ZenonT(40)
<1>5. build_comprobante(s).total = X - E + Y
  BY <1>2 DEF build_comprobante
<1>6. z - E - T \in -Slack(s.items) .. Slack(s.items)
  <2>1. B = Altogether([i \in DOMAIN s.items |-> OffBy(s.items[i]) + 216 * Unit]) /\ z \in Int
    BY <1>3
  <2> HIDE DEF B, z, E
  <2> QED
    BY <1>3, <1>4, <2>1, WithinSlack
<1>7. s.total = W /\ Tax(s.discount) = T
  BY <1>2
<1> HIDE DEF X, Y, W, E, T
<1>8. X - E + Y - (W + T) = z - E - T
  BY <1>3
<1>9. Near(X - E + Y, W + T, Slack(s.items))
  BY <1>3, <1>6, <1>8 DEF Near
<1> QED
  BY <1>5, <1>7, <1>9

\* A credit note comes to the subtotals the sale keeps and their tax, up to roundings.
LEMMA CreditIsNear ==
  ASSUME NEW s \in SaleRows
  PROVE  LET S == Altogether([i \in DOMAIN s.items |-> s.items[i].subtotal])
         IN  Near(Altogether(Importes(s.items)) + Altogether(Taxes(s.items)), S + Tax(S), Slack(s.items))
<1> DEFINE N == Len(s.lines)  zero == [i \in 1 .. N |-> 0]  vS == [i \in DOMAIN s.items |-> s.items[i].subtotal]
           B == Altogether([i \in DOMAIN s.items |-> OffBy(s.items[i]) + 216 * Unit])
           X == Altogether(Importes(s.items))  Y == Altogether(Taxes(s.items))
           S == Altogether(vS)  T == Tax(S)  z == X + Y - Altogether(zero)
<1>1. N \in Nat /\ DOMAIN s.items = 1 .. N
  BY SaleIs
<1>2. zero \in [1 .. N -> Int] /\ Altogether(zero) = 0 /\ \A i \in 1 .. N : zero[i] = 0
  BY <1>1, SumOfZeros
<1>3. ASSUME NEW i \in 1 .. N
      PROVE  100 * (Unit * (Importe(s.items[i]) + Tax(Importe(s.items[i])) - zero[i])) - 116 * (Unit * vS[i])
               \in -(OffBy(s.items[i]) + 216 * Unit) .. OffBy(s.items[i]) + 216 * Unit
  <2>1. RowIs(s.items[i])
    BY <1>3, ItemIs
  <2>2. zero[i] = 0 /\ vS[i] = s.items[i].subtotal
    BY <1>1, <1>2, <1>3
  <2>3. Importe(s.items[i]) + Tax(Importe(s.items[i])) - zero[i] = Importe(s.items[i]) + Tax(Importe(s.items[i]))
    BY <2>1, <2>2 DEF RowIs
  <2> HIDE DEF zero, vS
  <2> QED
    BY <2>1, <2>2, <2>3 DEF RowIs
<1>4. X \in Int /\ Y \in Int /\ S \in Int /\ T \in Int /\ vS \in [1 .. N -> Int]
  BY SaleNumbers, TaxRounded
<1> HIDE DEF zero, vS
<1>5. B \in Nat /\ 100 * (Unit * z) - 116 * (Unit * S) \in -B .. B
  BY ONLY s \in SaleRows, <1>2, <1>3, <1>4, LinesComeTo, ZenonT(40)
<1>6. z - S - T \in -Slack(s.items) .. Slack(s.items)
  <2>1. B = Altogether([i \in DOMAIN s.items |-> OffBy(s.items[i]) + 216 * Unit]) /\ z \in Int
    BY <1>2, <1>4
  <2> HIDE DEF B, z, S
  <2> QED
    BY <1>4, <1>5, <2>1, WithinSlack
<1>7. S = Altogether([i \in DOMAIN s.items |-> s.items[i].subtotal]) /\ T = Tax(S)
  BY DEF vS
<1> HIDE DEF X, Y, S, T
<1>8. X + Y - (S + T) = z - S - T
  BY <1>2, <1>4
<1>9. Near(X + Y, S + T, Slack(s.items))
  BY <1>2, <1>4, <1>6, <1>8 DEF Near
<1> QED
  BY <1>7, <1>9 DEF X, Y

\* A weighted difference of two sums is within as much for each term.
LEMMA SumsDiffer ==
  ASSUME NEW N \in Nat, NEW v \in [1 .. N -> Int], NEW w \in [1 .. N -> Int],
         NEW j \in Int, NEW k \in Int, NEW h \in Int,
         \A i \in 1 .. N : j * v[i] + k * w[i] \in -h .. h
  PROVE  j * Altogether(v) + k * Altogether(w) \in -(N * h) .. N * h
<1> DEFINE zero == [i \in 1 .. N |-> 0]
           one == Combined(zero, j, v)
           both == Combined(one, k, w)
           same == [i \in 1 .. N |-> h]
<1>1. zero \in [1 .. N -> Int] /\ Altogether(zero) = 0 /\ \A i \in 1 .. N : zero[i] = 0
  BY SumOfZeros
<1>2. same \in [1 .. N -> Int] /\ Altogether(same) = N * h /\ \A i \in 1 .. N : same[i] = h
  BY SumOfSame
<1> HIDE DEF zero, same
<1>3. /\ one \in [1 .. N -> Int] /\ Altogether(one) = Altogether(zero) + j * Altogether(v)
      /\ \A i \in 1 .. N : one[i] = zero[i] + j * v[i]
  <2>1. zero \in [1 .. N -> Int]
    BY <1>1
  <2> QED
    BY <2>1, SumsCombine
<1> HIDE DEF one
<1>4. /\ both \in [1 .. N -> Int] /\ Altogether(both) = Altogether(one) + k * Altogether(w)
      /\ \A i \in 1 .. N : both[i] = one[i] + k * w[i]
  <2>1. one \in [1 .. N -> Int]
    BY <1>3
  <2> QED
    BY <2>1, SumsCombine
<1> HIDE DEF both
<1>5. \A i \in 1 .. N : both[i] \in -same[i] .. same[i]
  <2> SUFFICES ASSUME NEW i \in 1 .. N PROVE both[i] \in -same[i] .. same[i]
    OBVIOUS
  <2>1. both[i] = 0 + j * v[i] + k * w[i] /\ same[i] = h /\ j * v[i] + k * w[i] \in -h .. h
    BY <1>1, <1>2, <1>3, <1>4
  <2>2. j * v[i] \in Int /\ k * w[i] \in Int
    OBVIOUS
  <2> QED
    BY <2>1, <2>2
<1>6. Altogether(both) \in -Altogether(same) .. Altogether(same)
  BY <1>2, <1>4, <1>5, SumsWithin
<1>7. j * Altogether(v) \in Int /\ k * Altogether(w) \in Int
  <2>1. Altogether(v) \in Int /\ Altogether(w) \in Int
    BY SumIsInt
  <2> QED
    BY <2>1
<1> QED
  BY <1>1, <1>2, <1>3, <1>4, <1>6, <1>7

\* The tax of the whole and the sum of the taxes differ by a cent a line at most.
LEMMA TaxesAreNear ==
  ASSUME NEW s \in SaleRows
  PROVE  Near(Altogether(Importes(s.items)) + Altogether(Taxes(s.items)),
              Altogether(Importes(s.items)) + Tax(Altogether(Importes(s.items))), Len(s.items))
<1> DEFINE N == Len(s.items)  vI == Importes(s.items)  vT == Taxes(s.items)
           X == Altogether(vI)  Y == Altogether(vT)  T == Tax(X)
<1>1. N \in Nat \ {0} /\ vI \in [1 .. N -> Int] /\ vT \in [1 .. N -> Int] /\ X \in Int /\ Y \in Int
  BY SaleIs, SaleNumbers
<1>2. ASSUME NEW i \in 1 .. N PROVE 100 * vT[i] - 16 * vI[i] \in -50 .. 50
  <2>1. vI[i] = Importe(s.items[i]) /\ vT[i] = Tax(Importe(s.items[i])) /\ Importe(s.items[i]) \in Int
    BY <1>2, SaleIs, ItemIs DEF Importes, Taxes, RowIs
  <2> HIDE DEF vI, vT
  <2> QED
    BY <2>1, TaxRounded
<1>3. T \in Int /\ 100 * T - 16 * X \in -50 .. 50
  BY <1>1, TaxRounded
<1> HIDE DEF N, vI, vT, X, Y, T
<1>4. PICK j \in Int, k \in Int, h \in Int : j = 100 /\ k = -16 /\ h = 50
  OBVIOUS
<1>5. \A i \in 1 .. N : j * vT[i] + k * vI[i] \in -h .. h
  <2> SUFFICES ASSUME NEW i \in 1 .. N PROVE j * vT[i] + k * vI[i] \in -h .. h
    OBVIOUS
  <2>1. vT[i] \in Int /\ vI[i] \in Int
    BY <1>1
  <2>2. 100 * vT[i] - 16 * vI[i] \in -50 .. 50
    BY <1>2
  <2> QED
    BY ONLY <1>4, <2>1, <2>2
<1>6. j * Altogether(vT) + k * Altogether(vI) \in -(N * h) .. N * h
  <2>1. N \in Nat /\ vI \in [1 .. N -> Int] /\ vT \in [1 .. N -> Int]
    BY <1>1
  <2> QED
    BY ONLY <1>5, <2>1, j \in Int, k \in Int, h \in Int, SumsDiffer
<1>7. 100 * Y - 16 * X \in -(50 * N) .. 50 * N
  BY SMTT(30), <1>1, <1>4, <1>6 DEF X, Y
<1>8. Y - T \in -N .. N
  BY <1>1, <1>3, <1>7
<1>9. X + Y - (X + T) \in -N .. N
  BY <1>1, <1>3, <1>8
<1>10. Near(X + Y, X + T, N)
  BY <1>1, <1>3, <1>9 DEF Near
<1>11. /\ Altogether(Importes(s.items)) = X /\ Altogether(Taxes(s.items)) = Y
       /\ Len(s.items) = N /\ Tax(X) = T
  BY DEF N, X, Y, T, vI, vT
<1> QED
  BY <1>10, <1>11, Zenon

\* A factor of both does not change a quotient.
LEMMA QuotientKept ==
  ASSUME NEW g \in Nat \ {0}, NEW n \in Nat, NEW d \in Nat \ {0}
  PROVE  (g * n) \div (g * d) = n \div d
<1> DEFINE q == n \div d  k == (g * n) \div (g * d)
<1>1. q \in Nat /\ d * q <= n /\ n < d * q + d
  BY Quotient
<1>2. k \in Nat /\ (g * d) * k <= g * n /\ g * n < (g * d) * k + g * d
  <2> DEFINE m == g * n  e == g * d
  <2>1. m \in Nat /\ e \in Nat \ {0}
    OBVIOUS
  <2> HIDE DEF m, e
  <2>2. m \div e \in Nat /\ e * (m \div e) <= m /\ m < e * (m \div e) + e
    BY <2>1, Quotient
  <2> QED
    BY <2>2 DEF m, e
<1> HIDE DEF q, k
<1> DEFINE dq == d * q  dk == d * k
<1>3. dq \in Int /\ dk \in Int /\ (g * d) * k = g * dk /\ g * dk + g * d = g * (dk + d)
  BY <1>1, <1>2
<1>4. dk <= n /\ n < dk + d
  <2> HIDE DEF dk
  <2>1. ASSUME dk >= n + 1 PROVE FALSE
    <3>1. g * (n + 1) <= g * dk /\ g * (n + 1) = g * n + g
      BY <1>3, <2>1, Scaled
    <3> QED
      BY <1>2, <1>3, <3>1
  <2>2. ASSUME dk + d <= n PROVE FALSE
    <3>1. g * (dk + d) <= g * n
      BY <1>3, <2>2, Scaled
    <3> QED
      BY <1>2, <1>3, <3>1
  <2> QED
    BY <1>3, <2>1, <2>2
<1>5. ASSUME q >= k + 1 PROVE FALSE
  <2>1. d * (k + 1) <= d * q /\ d * (k + 1) = dk + d
    BY <1>1, <1>2, <1>5, Scaled
  <2> QED
    BY <1>1, <1>3, <1>4, <2>1
<1>6. ASSUME k >= q + 1 PROVE FALSE
  <2>1. d * (q + 1) <= d * k /\ d * (q + 1) = dq + d
    BY <1>1, <1>2, <1>6, Scaled
  <2> QED
    BY <1>1, <1>3, <1>4, <2>1
<1>7. k = q
  BY <1>1, <1>2, <1>5, <1>6
<1> QED
  BY <1>7 DEF k, q

\* A row of a line that names no part of a cent or of a ten-thousandth keeps its subtotal.
LEMMA WholeRow ==
  ASSUME NEW a \in Nat, NEW b \in Int, NEW c, c.qty = a * Fine, c.price = b * Fine
  PROVE  ItemRow(c).subtotal = Importe(ItemRow(c))
<1> DEFINE g == Fine * Fine  x == a * b  h == Unit \div 2  row == ItemRow(c)
           S == RoundHalfUp(g * x, Cent)  I == RoundHalfUp(x, Unit)
<1>1. /\ g \in Nat \ {0} /\ Cent = g * Unit /\ Cent \in Nat \ {0} /\ Cent \div 2 = g * h /\ 2 * h = Unit
      /\ Unit \in Nat \ {0} /\ h \in Nat /\ Fine \in Nat
  BY CentIsEven, UnitIsEven
<1>2. x \in Int /\ c.qty * c.price = g * x
  <2>1. (a * Fine) * (b * Fine) = (Fine * Fine) * (a * b)
    BY <1>1
  <2> QED
    BY <2>1
<1>3. row.qty = a /\ row.price = b /\ row.subtotal = S
  <2>1. row.qty = RoundHalfUp(a * Fine, Fine) /\ row.price = RoundHalfUp(b * Fine, Fine) /\ row.subtotal = S
    BY <1>2 DEF ItemRow
  <2> QED
    BY <2>1, WholeIsKept
<1>4. Importe(row) = I
  BY <1>3 DEF Importe
<1> HIDE DEF g, x, h, row
<1>5. S = I
  <2>1. CASE x >= 0
    <3> DEFINE n == x + h
    <3>1. n \in Nat /\ g * x >= 0 /\ g * x + g * h = g * n /\ g * x \in Int
      <4>1. g * 0 <= g * x /\ g * 0 = 0
        BY <1>1, <1>2, <2>1, Scaled
      <4> QED
        BY <1>1, <1>2, <2>1, <4>1
    <3>2. S = (g * n) \div (g * Unit)
      BY <1>1, <3>1 DEF RoundHalfUp
    <3>3. I = n \div Unit
      BY <2>1 DEF RoundHalfUp, h
    <3> HIDE DEF n, S, I
    <3> QED
      BY <1>1, <3>1, <3>2, <3>3, QuotientKept
  <2>2. CASE x < 0
    <3> DEFINE n == h - x
    <3>1. n \in Nat /\ g * x < 0 /\ g * h - g * x = g * n /\ g * x \in Int
      <4>1. g * x <= g * (-1) /\ g * (-1) = -g
        BY <1>1, <1>2, <2>2, Scaled
      <4> QED
        BY <1>1, <1>2, <2>2, <4>1
    <3>2. S = -((g * n) \div (g * Unit))
      BY <1>1, <3>1 DEF RoundHalfUp
    <3>3. I = -(n \div Unit)
      BY <1>2, <2>2 DEF RoundHalfUp, h
    <3> HIDE DEF n, S, I
    <3> QED
      BY <1>1, <3>1, <3>2, <3>3, QuotientKept
  <2> QED
    BY <1>2, <2>1, <2>2
<1>6. ItemRow(c).subtotal = S /\ Importe(ItemRow(c)) = I
  BY <1>3, <1>4 DEF row
<1> QED
  BY <1>5, <1>6

\* Nothing finer was named: its subtotals are those of its document.
LEMMA WholeSubtotals ==
  ASSUME NEW s \in SaleRows, Whole(s)
  PROVE  [i \in DOMAIN s.items |-> s.items[i].subtotal] = Importes(s.items)
<1>1. DOMAIN s.items = 1 .. Len(s.lines) /\ DOMAIN s.lines = 1 .. Len(s.lines)
  BY SaleIs
<1>2. ASSUME NEW i \in 1 .. Len(s.lines) PROVE s.items[i].subtotal = Importe(s.items[i])
  <2> DEFINE l == s.lines[i]  c == calculate_item(l)
  <2>1. l \in Lines /\ s.items[i] = ItemRow(c) /\ LineIs(l, c, s.items[i]) /\ l.qty \in Nat
    BY <1>2, ItemIs, PriceIsInt
  <2>2. l.qty % Fine = 0 /\ Price(l) % Fine = 0
    BY <1>1, <1>2 DEF Whole
  <2> HIDE DEF l, c
  <2>3. PICK b \in Int : c.price = b * Fine
    BY <2>1, <2>2 DEF LineIs
  <2>4. PICK a \in Nat : c.qty = a * Fine
    <3>1. PICK k \in Int : l.qty = k * Fine
      BY <2>1, <2>2, Divided
    <3>2. k >= 0
      <4>1. ASSUME k <= -1 PROVE FALSE
        <5>1. Fine * k <= Fine * (-1) /\ Fine * (-1) = -Fine /\ Fine * k = k * Fine /\ Fine \in Nat \ {0}
          BY <4>1, CentIsEven, Scaled
        <5> QED
          BY <2>1, <3>1, <5>1
      <4> QED
        BY <4>1
    <3> QED
      BY <2>1, <3>1, <3>2 DEF LineIs
  <2>5. ItemRow(c).subtotal = Importe(ItemRow(c))
    BY <2>3, <2>4, WholeRow
  <2> QED
    BY <2>1, <2>5
<1> QED
  BY <1>1, <1>2 DEF Importes

\* A sale of prices with tax comes to what is due for its lines, at half a cent a line.
LEMMA IncludedIsNear ==
  ASSUME NEW s \in SaleRows, Uncut(s), \A i \in DOMAIN s.lines : s.lines[i].price_includes_tax
  PROVE  Near(Cent * s.total, Altogether([i \in DOMAIN s.lines |-> Due(s.lines[i])]),
              Len(s.lines) * (Cent \div 2))
<1> DEFINE N == Len(s.lines)  vW == WithTaxes(s)  vD == [i \in DOMAIN s.lines |-> Due(s.lines[i])]
           h == Cent \div 2
<1>1. /\ N \in Nat /\ vW \in [1 .. N -> Int] /\ s.total = Altogether(vW) /\ h \in Nat /\ Cent \in Nat
      /\ DOMAIN s.lines = 1 .. N
  BY SaleIs, SaleNumbers, CentIsEven
<1>2. ASSUME NEW i \in 1 .. N PROVE Due(s.lines[i]) \in Int /\ Cent * vW[i] - Due(s.lines[i]) \in -h .. h
  <2>1. /\ s.lines[i] \in Lines /\ LineIs(s.lines[i], calculate_item(s.lines[i]), s.items[i])
        /\ Due(s.lines[i]) >= 0 /\ s.lines[i].price_includes_tax
    BY <1>1, <1>2, ItemIs DEF Uncut
  <2>2. vW[i] = calculate_item(s.lines[i]).with_tax
    BY <1>2 DEF WithTaxes
  <2> HIDE DEF vW
  <2> QED
    BY <2>1, <2>2, PriceIsInt DEF LineIs
<1>3. vD \in [1 .. N -> Int] /\ \A i \in 1 .. N : vD[i] = Due(s.lines[i])
  BY <1>1, <1>2
<1> HIDE DEF N, vW, vD, h
<1>4. PICK j \in Int, k \in Int, g \in Int : j = Cent /\ k = -1 /\ g = h
  BY <1>1
<1>5. \A i \in 1 .. N : j * vW[i] + k * vD[i] \in -g .. g
  <2> SUFFICES ASSUME NEW i \in 1 .. N PROVE j * vW[i] + k * vD[i] \in -g .. g
    OBVIOUS
  <2>1. vD[i] \in Int /\ Cent * vW[i] \in Int /\ Cent * vW[i] - vD[i] \in -h .. h
    <3>1. vW[i] \in Int /\ vD[i] = Due(s.lines[i])
      BY <1>1, <1>3
    <3>2. Due(s.lines[i]) \in Int /\ Cent * vW[i] - Due(s.lines[i]) \in -h .. h
      BY <1>2
    <3>3. Cent * vW[i] \in Int
      BY <1>1, <3>1
    <3> QED
      BY <3>1, <3>2, <3>3
  <2> QED
    BY <1>4, <2>1
<1>6. j * Altogether(vW) + k * Altogether(vD) \in -(N * g) .. N * g
  BY ONLY <1>1, <1>3, <1>5, j \in Int, k \in Int, g \in Int, SumsDiffer
<1>7. Altogether(vW) \in Int /\ Altogether(vD) \in Int
  BY <1>1, <1>3, SumIsInt
<1>8. Cent * Altogether(vW) - Altogether(vD) \in -(N * h) .. N * h
  <2>1. Cent * Altogether(vW) \in Int
    BY <1>1, <1>7
  <2> QED
    BY <1>4, <1>6, <1>7, <2>1
<1> QED
  BY <1>1, <1>8 DEF Near, N, vD, h

-----------------------------------------------------------------------------
(* The documents                                                            *)

LedgerFits == ledger \in Seq(SaleRows)

LEMMA LedgerIs ==
  ASSUME LedgerFits
  PROVE  /\ Len(ledger) \in Nat /\ DOMAIN ledger = 1 .. Len(ledger)
         /\ \A n \in 1 .. Len(ledger) : ledger[n] \in SaleRows
  BY LenProperties DEF LedgerFits

PaperFits(paper) ==
    /\ paper.kind \in {"invoice", "facturapi", "credit"} /\ paper.total \in Int
    /\ paper.document.head.metodo \in {"PUE", "PPD"} /\ paper.of \in DOMAIN ledger
    /\ paper.kind \in {"invoice", "credit"} => AddsUp(paper) /\ Corresponds(paper)

Filed == {papers[k] : k \in DOMAIN papers}
PapersFit == papers \in Seq(Filed) /\ \A paper \in Filed : PaperFits(paper)

ReceiptFits ==
    receipt # Unset => \A k \in DOMAIN receipt.doctos :
        /\ k \in DOMAIN papers
        /\ receipt.doctos[k].pagado <= receipt.monto
        /\ receipt.doctos[k].pagado + receipt.doctos[k].insoluto = papers[k].total

AmountsInv == cart \in Seq(Lines) /\ LedgerFits /\ PapersFit /\ ReceiptFits

\* Concepts of rows of a sale add up to what the head of its document says.
LEMMA ConceptsAddUp ==
  ASSUME NEW items, NEW concepts, DOMAIN concepts = DOMAIN items,
         \A i \in DOMAIN items :
            concepts[i].importe = Importe(items[i]) /\ concepts[i].iva = Tax(Importe(items[i]))
  PROVE  /\ Altogether([i \in DOMAIN concepts |-> concepts[i].importe]) = Altogether(Importes(items))
         /\ Altogether([i \in DOMAIN concepts |-> concepts[i].iva]) = Altogether(Taxes(items))
<1>1. [i \in DOMAIN concepts |-> concepts[i].importe] = Importes(items)
  BY DEF Importes
<1>2. [i \in DOMAIN concepts |-> concepts[i].iva] = Taxes(items)
  BY DEF Taxes
<1> QED
  BY <1>1, <1>2

LEMMA InvoiceIsRight ==
  ASSUME LedgerFits, NEW n \in DOMAIN ledger,
         validate_payment_logic(build_comprobante(ledger[n]).metodo, build_comprobante(ledger[n]).forma)
  PROVE  PaperFits(Recorded("invoice", n, build(ledger[n]), ledger[n].total, ledger[n].subtotal, ledger[n].tax))
<1> DEFINE s == ledger[n]  d == build(s)  c == build_conceptos(s.items)
           paper == Recorded("invoice", n, d, s.total, s.subtotal, s.tax)
           X == Altogether(Importes(s.items))  Y == Altogether(Taxes(s.items))
<1>1. s \in SaleRows
  BY LedgerIs
<1>2. s = ledger[n] /\ d = build(s)
  OBVIOUS
<1>3. /\ paper.kind = "invoice" /\ paper.of = n /\ paper.document = d /\ paper.total = s.total
  BY DEF Recorded
<1> HIDE DEF s, d, paper
<1>4. /\ d.head = build_comprobante(s) /\ d.conceptos = c /\ d.impuestos = build_impuestos(s.items)
  BY <1>2 DEF build
<1>5. /\ build_comprobante(s).subtotal = X /\ build_comprobante(s).descuento = s.discount
      /\ build_comprobante(s).total = X - s.discount + Y
      /\ build_comprobante(s).metodo = determine_metodo_pago(s.payment_method)
      /\ build_impuestos(s.items).base = X /\ build_impuestos(s.items).iva = Y
  BY DEF build_comprobante, build_impuestos
<1>6. /\ DOMAIN c = DOMAIN s.items
      /\ \A i \in DOMAIN s.items :
            /\ c[i].cantidad = s.items[i].qty /\ c[i].valor = s.items[i].price
            /\ c[i].importe = Importe(s.items[i]) /\ c[i].iva = Tax(Importe(s.items[i]))
  BY DEF build_conceptos
<1> HIDE DEF c
<1>7. /\ Altogether([i \in DOMAIN c |-> c[i].importe]) = X /\ Altogether([i \in DOMAIN c |-> c[i].iva]) = Y
  BY <1>6, ConceptsAddUp
<1> HIDE DEF X, Y
<1>8. ASSUME NEW i \in DOMAIN c PROVE Near(c[i].cantidad * c[i].valor, c[i].importe * Unit, Unit \div 2)
  <2> DEFINE row == s.items[i]
  <2>1. row.qty \in Nat /\ row.price \in Int
    BY <1>1, <1>6, <1>8, SaleIs, ItemIs DEF RowIs
  <2>2. c[i].cantidad = row.qty /\ c[i].valor = row.price /\ c[i].importe = Importe(row)
    BY <1>6, <1>8
  <2> HIDE DEF row
  <2>3. Importe(row) \in Int /\ Unit * Importe(row) - row.qty * row.price \in -(Unit \div 2) .. Unit \div 2
    BY <2>1, ImporteRounded
  <2> DEFINE a == Unit * Importe(row)  b == row.qty * row.price  h == Unit \div 2
  <2>4. a \in Int /\ b \in Int /\ a - b \in -h .. h /\ h \in Nat /\ Importe(row) * Unit = a
    BY <2>1, <2>3, UnitIsEven
  <2> HIDE DEF a, b, h
  <2>5. b - a \in -h .. h
    BY <2>4
  <2> QED
    BY <2>2, <2>4, <2>5 DEF Near, b, h
<1>9. build_comprobante(s).metodo = "PPD" <=> build_comprobante(s).forma = "99"
  BY <1>2 DEF validate_payment_logic
<1>10. AddsUp(paper)
  BY <1>3, <1>4, <1>5, <1>7, <1>8, <1>9 DEF AddsUp
<1>11. Corresponds(paper)
  BY <1>1, <1>2, <1>3, <1>4, InvoiceIsNear DEF Corresponds
<1>12. s.total \in Int
  BY <1>1, SaleNumbers
<1>13. d.head.metodo \in {"PUE", "PPD"}
  BY <1>4, <1>5 DEF determine_metodo_pago
<1>14. PaperFits(paper)
  BY <1>3, <1>10, <1>11, <1>12, <1>13 DEF PaperFits
<1> QED
  BY <1>14 DEF paper, d, s

LEMMA CreditNoteIsRight ==
  ASSUME LedgerFits, NEW n \in DOMAIN ledger
  PROVE  LET items == ledger[n].items
             subtotal == Altogether([i \in DOMAIN items |-> items[i].subtotal])
         IN  PaperFits(Recorded("credit", n, build_credit_note(items),
                                subtotal + Tax(subtotal), subtotal, Tax(subtotal)))
<1> DEFINE s == ledger[n]  d == build_credit_note(s.items)  c == build_conceptos_credit_note(s.items)
           X == Altogether(Importes(s.items))  Y == Altogether(Taxes(s.items))
           S == Altogether([i \in DOMAIN s.items |-> s.items[i].subtotal])
           paper == Recorded("credit", n, d, S + Tax(S), S, Tax(S))
<1>1. s \in SaleRows
  BY LedgerIs
<1>2. s = ledger[n] /\ d = build_credit_note(s.items) /\ X = Altogether(Importes(s.items))
      /\ Y = Altogether(Taxes(s.items)) /\ paper = Recorded("credit", n, d, S + Tax(S), S, Tax(S))
      /\ S = Altogether([i \in DOMAIN s.items |-> s.items[i].subtotal])
  OBVIOUS
<1> HIDE DEF s, d, paper, X, Y, S
<1>3. paper.kind = "credit" /\ paper.of = n /\ paper.document = d /\ paper.total = S + Tax(S)
  BY <1>2 DEF Recorded
<1>4. /\ d.head = build_comprobante_egreso(s.items) /\ d.conceptos = c /\ d.impuestos = build_impuestos(s.items)
  BY <1>2 DEF build_credit_note
<1>5. X \in Int /\ Y \in Int /\ S \in Int /\ s.discount \in Nat /\ Tax(S) \in Int
  BY <1>1, <1>2, SaleNumbers, TaxRounded
<1>6. /\ d.head.subtotal = X /\ d.head.descuento = 0 /\ d.head.total = X + Y
      /\ d.head.metodo = "PPD" /\ d.head.forma = "99"
      /\ d.impuestos.base = X /\ d.impuestos.iva = Y
      /\ build_comprobante(s).total = X - s.discount + Y
  BY <1>2, <1>4 DEF build_comprobante, build_comprobante_egreso, build_impuestos
<1>7. /\ DOMAIN c = DOMAIN s.items
      /\ \A i \in DOMAIN s.items :
            c[i].importe = Importe(s.items[i]) /\ c[i].iva = Tax(Importe(s.items[i]))
  BY DEF build_conceptos_credit_note
<1> HIDE DEF c
<1>8. /\ Altogether([i \in DOMAIN c |-> c[i].importe]) = X /\ Altogether([i \in DOMAIN c |-> c[i].iva]) = Y
  BY <1>2, <1>7, ConceptsAddUp
<1>9. X + Y = X - 0 + Y /\ X + Y = (X - s.discount + Y) + s.discount
  BY <1>5
<1>10. AddsUp(paper)
  BY <1>3, <1>4, <1>6, <1>8, <1>9 DEF AddsUp
<1>11. Near(X + Y, S + Tax(S), IF Whole(s) THEN Len(s.items) ELSE Slack(s.items))
  <2>1. CASE Whole(s)
    <3>1. S = X
      BY <1>1, <1>2, <2>1, WholeSubtotals
    <3>2. Near(X + Y, X + Tax(X), Len(s.items))
      BY <1>1, <1>2, TaxesAreNear
    <3> QED
      BY <2>1, <3>1, <3>2
  <2>2. CASE ~Whole(s)
    <3>1. Near(X + Y, S + Tax(S), Slack(s.items))
      BY <1>1, <1>2, CreditIsNear
    <3> QED
      BY <2>2, <3>1
  <2> QED
    BY <2>1, <2>2
<1>12. Corresponds(paper)
  <2>1. d.head.total = build_comprobante(s).total + s.discount
    BY <1>6, <1>9
  <2>2. Near(d.head.total, paper.total, IF Whole(s) THEN Len(s.items) ELSE Slack(s.items))
    BY <1>3, <1>6, <1>11
  <2>3. ledger[paper.of] = s /\ paper.document = d /\ paper.kind = "credit" /\ paper.kind # "invoice"
    BY <1>2, <1>3
  <2> QED
    BY ONLY <2>1, <2>2, <2>3 DEF Corresponds
<1>13. PaperFits(paper)
  BY <1>3, <1>4, <1>5, <1>6, <1>10, <1>12 DEF PaperFits
<1> QED
  BY <1>2, <1>13

LEMMA FacturapiIsRight ==
  ASSUME LedgerFits, NEW n \in DOMAIN ledger, NEW request, request.head.metodo \in {"PUE", "PPD"}, NEW total \in Int
  PROVE  PaperFits(Recorded("facturapi", n, request, total, ledger[n].subtotal, ledger[n].tax))
<1> DEFINE paper == Recorded("facturapi", n, request, total, ledger[n].subtotal, ledger[n].tax)
<1>1. paper.kind = "facturapi" /\ paper.of = n /\ paper.document = request /\ paper.total = total
  BY DEF Recorded
<1> HIDE DEF paper
<1>2. PaperFits(paper)
  BY <1>1 DEF PaperFits
<1> QED
  BY <1>2 DEF paper

\* Whatever Facturapi answers is a number.
LEMMA FacturapiTotals ==
  ASSUME NEW s \in SaleRows
  PROVE  facturapi_totals(facturapi_items(s.items), s) \subseteq Int
<1> DEFINE N == Len(s.lines)  c == facturapi_items(s.items)
           v == [i \in DOMAIN c |-> RoundHalfUp(c[i].cantidad * c[i].valor, Unit)]
           base == Altogether(v)
<1>1. N \in Nat /\ DOMAIN s.items = 1 .. N /\ s.total \in Int
  BY SaleIs, SaleNumbers
<1>2. DOMAIN c = 1 .. N
  BY <1>1 DEF facturapi_items
<1>3. ASSUME NEW i \in 1 .. N PROVE RoundHalfUp(c[i].cantidad * c[i].valor, Unit) \in Int
  <2> DEFINE row == s.items[i]  q == IF row.qty = 0 THEN Unit ELSE row.qty
  <2>1. row.qty \in Nat /\ row.price \in Int
    BY <1>3, ItemIs DEF RowIs
  <2>2. c[i].cantidad = RoundHalfUp(q, 100) * 100 /\ c[i].valor = row.price
    BY <1>1, <1>3 DEF facturapi_items
  <2>3. q \in Nat
    BY <2>1, UnitIsEven
  <2> HIDE DEF row, q, c
  <2>4. RoundHalfUp(q, 100) \in Int
    BY <2>3, Rounded
  <2>5. c[i].cantidad * c[i].valor \in Int
    BY <2>1, <2>2, <2>4
  <2> QED
    BY <2>5, UnitIsEven, Rounded
<1> HIDE DEF N, c
<1>4. v \in [1 .. N -> Int]
  <2>1. \A i \in DOMAIN c : RoundHalfUp(c[i].cantidad * c[i].valor, Unit) \in Int
    BY <1>2, <1>3
  <2> QED
    BY <1>2, <2>1
<1>5. base \in Int
  <2> HIDE DEF v
  <2> QED
    BY <1>1, <1>4, SumIsInt
<1>6. facturapi_totals(c, s) = {base, base + Tax(base), s.total}
  BY DEF facturapi_totals
<1> HIDE DEF base
<1>7. Tax(base) \in Int
  BY <1>5, TaxRounded
<1>8. facturapi_totals(c, s) \subseteq Int
  BY <1>1, <1>5, <1>6, <1>7
<1> QED
  BY <1>8 DEF c

-----------------------------------------------------------------------------
(* The invariant                                                            *)

LEMMA PaperStays ==
  ASSUME ledger' = ledger, NEW paper, PaperFits(paper)
  PROVE  PaperFits(paper)'
<1>1. Corresponds(paper)' <=> Corresponds(paper)
  BY DEF Corresponds
<1> QED
  BY <1>1 DEF PaperFits

LEMMA LaterPaperFits ==
  ASSUME AmountsInv, NEW row, PaperFits(row), Records(row)
  PROVE  AmountsInv'
<1>1. /\ papers' = Append(papers, row) /\ cart' = cart /\ ledger' = ledger /\ receipt' = receipt
  BY DEF Records
<1> DEFINE N == Len(papers)
<1>2. N \in Nat /\ DOMAIN papers = 1 .. N /\ papers \in Seq(Filed)
  BY LenProperties DEF AmountsInv, PapersFit
<1> DEFINE R == Filed \cup {row}
<1>3. papers \in Seq(R) /\ row \in R
  <2>1. \A k \in 1 .. N : papers[k] \in Filed
    BY <1>2 DEF Filed
  <2> QED
    BY <1>2, <2>1
<1> HIDE DEF R
<1>4. /\ papers' \in Seq(R) /\ Len(papers') = N + 1
      /\ (\A k \in 1 .. N : papers'[k] = papers[k]) /\ papers'[N + 1] = row
  BY <1>1, <1>3, AppendProperties
<1>5. DOMAIN papers' = 1 .. N + 1
  BY <1>4, LenProperties
<1> HIDE DEF N
<1>6. Filed' = R
  BY <1>2, <1>4, <1>5 DEF Filed, R
<1>7. ASSUME NEW paper, PaperFits(paper) PROVE PaperFits(paper)'
  BY <1>1, <1>7, PaperStays
<1>8. \A paper \in Filed' : PaperFits(paper)
  BY <1>6 DEF AmountsInv, PapersFit, R
<1>9. PapersFit'
  BY <1>4, <1>7, <1>8, <1>6 DEF PapersFit
<1>10. ReceiptFits'
  BY <1>1, <1>2, <1>4, <1>5 DEF AmountsInv, ReceiptFits
<1> QED
  BY <1>1, <1>9, <1>10 DEF AmountsInv, LedgerFits

LEMMA AmountsStart == AmountsInit => AmountsInv
  BY DEF AmountsInit, AmountsInv, LedgerFits, PapersFit, Filed, ReceiptFits

LEMMA AmountsStay == AmountsInv /\ UNCHANGED amounts => AmountsInv'
<1> SUFFICES ASSUME AmountsInv, UNCHANGED amounts PROVE AmountsInv'
  OBVIOUS
<1>1. cart' = cart /\ ledger' = ledger /\ papers' = papers /\ receipt' = receipt
  BY DEF amounts
<1>2. PapersFit'
  BY <1>1, PaperStays DEF AmountsInv, PapersFit, Filed
<1> QED
  BY <1>1, <1>2 DEF AmountsInv, LedgerFits, ReceiptFits

LEMMA SaleKeepsAmounts ==
  ASSUME AmountsInv, NEW payment_method \in Payments, NEW received \in -3 .. 2,
         create_sale(payment_method, received)
  PROVE  AmountsInv'
<1> DEFINE row == SaleOf(cart, payment_method)
<1>1. /\ cart # <<>> /\ sale_totals(Calculated(cart)).total > 0 /\ ledger' = Append(ledger, row)
      /\ cart' = <<>> /\ papers' = papers /\ receipt' = receipt
  BY DEF create_sale, SaleOf, Calculated
<1>2. row \in SaleRows
  <2>1. row.lines = cart /\ row.total = sale_totals(Calculated(cart)).total
    BY DEF SaleOf
  <2>2. row \in {SaleOf(c, method) : c \in Seq(Lines), method \in Payments}
    BY DEF AmountsInv
  <2> HIDE DEF row
  <2> QED
    BY <1>1, <2>1, <2>2 DEF SaleRows
<1> HIDE DEF row
<1>3. LedgerFits /\ LedgerFits'
  BY <1>1, <1>2, AppendProperties DEF AmountsInv, LedgerFits
<1>4. /\ DOMAIN ledger \subseteq DOMAIN ledger' /\ \A n \in DOMAIN ledger : ledger'[n] = ledger[n]
  BY <1>1, <1>2, <1>3, AppendProperties DEF LedgerFits
<1>5. ASSUME NEW paper, PaperFits(paper) PROVE PaperFits(paper)'
  <2>1. paper.kind \in {"invoice", "credit"} => Corresponds(paper)'
    <3> SUFFICES ASSUME paper.kind \in {"invoice", "credit"} PROVE Corresponds(paper)'
      OBVIOUS
    <3>1. Corresponds(paper) /\ ledger'[paper.of] = ledger[paper.of]
      BY <1>4, <1>5 DEF PaperFits
    <3> QED
      BY <3>1 DEF Corresponds
  <2> QED
    BY <1>4, <1>5, <2>1 DEF PaperFits
<1>6. PapersFit'
  BY <1>1, <1>5 DEF AmountsInv, PapersFit, Filed
<1> QED
  BY <1>1, <1>3, <1>6 DEF AmountsInv, ReceiptFits

LEMMA ReceiptKeepsAmounts ==
  ASSUME AmountsInv, NEW K \in SUBSET DOMAIN papers, NEW amount \in Int, payment_receipt(K, amount)
  PROVE  AmountsInv'
<1>1. receipt' = build_payment_complement(K, amount) /\ cart' = cart /\ ledger' = ledger /\ papers' = papers
  BY DEF payment_receipt
<1>2. receipt'.monto = amount /\ DOMAIN receipt'.doctos = K
  BY <1>1 DEF build_payment_complement
<1>3. ASSUME NEW k \in K
      PROVE  /\ receipt'.doctos[k].pagado <= amount
             /\ receipt'.doctos[k].pagado + receipt'.doctos[k].insoluto = papers[k].total
  <2> DEFINE paid == IF amount < papers[k].total THEN amount ELSE papers[k].total
  <2>1. papers[k].total \in Int
    BY DEF AmountsInv, PapersFit, Filed, PaperFits
  <2>2. receipt'.doctos[k].pagado = paid /\ receipt'.doctos[k].insoluto = NotNegative(papers[k].total - paid)
    BY <1>1 DEF build_payment_complement
  <2> QED
    BY <2>1, <2>2 DEF NotNegative
<1>4. ReceiptFits'
  BY <1>1, <1>2, <1>3 DEF ReceiptFits
<1>5. PapersFit'
  BY <1>1, PaperStays DEF AmountsInv, PapersFit, Filed
<1> QED
  BY <1>1, <1>4, <1>5 DEF AmountsInv, LedgerFits

LEMMA AmountsStep == AmountsInv /\ [AmountsNext]_amounts => AmountsInv'
<1> SUFFICES ASSUME AmountsInv, [AmountsNext]_amounts PROVE AmountsInv'
  OBVIOUS
<1>0. LedgerFits /\ cart \in Seq(Lines)
  BY DEF AmountsInv
<1>1. CASE UNCHANGED amounts
  BY <1>1, AmountsStay
<1>2. ASSUME NEW l \in Lines, Scans(l) PROVE AmountsInv'
  <2>1. cart' = Append(cart, l) /\ ledger' = ledger /\ papers' = papers /\ receipt' = receipt
    BY <1>2 DEF Scans
  <2>2. PapersFit'
    BY <2>1, PaperStays DEF AmountsInv, PapersFit, Filed
  <2> QED
    BY <1>0, <2>1, <2>2, AppendProperties DEF AmountsInv, LedgerFits, ReceiptFits
<1>3. ASSUME NEW payment_method \in Payments, NEW received \in -3 .. 2, create_sale(payment_method, received)
      PROVE  AmountsInv'
  BY <1>3, SaleKeepsAmounts
<1>4. ASSUME NEW n \in DOMAIN ledger, invoice(n) PROVE AmountsInv'
  <2> DEFINE row == Recorded("invoice", n, build(ledger[n]), ledger[n].total, ledger[n].subtotal, ledger[n].tax)
  <2>1. Records(row)
        /\ validate_payment_logic(build_comprobante(ledger[n]).metodo, build_comprobante(ledger[n]).forma)
    BY <1>4 DEF invoice
  <2>2. PaperFits(row)
    BY <1>0, <2>1, InvoiceIsRight
  <2> HIDE DEF row
  <2> QED
    BY <2>1, <2>2, LaterPaperFits
<1>5. ASSUME NEW n \in DOMAIN ledger, NEW forma \in Forms, invoice_via_facturapi(n, forma) PROVE AmountsInv'
  <2> DEFINE request == [conceptos |-> facturapi_items(ledger[n].items),
                         head |-> [metodo |-> IF forma = "99" THEN "PPD" ELSE "PUE", forma |-> forma]]
  <2>1. PICK total \in facturapi_totals(request.conceptos, ledger[n]) :
            Records(Recorded("facturapi", n, request, total, ledger[n].subtotal, ledger[n].tax))
    BY <1>5 DEF invoice_via_facturapi
  <2>2. request.head.metodo \in {"PUE", "PPD"} /\ request.conceptos = facturapi_items(ledger[n].items)
    OBVIOUS
  <2> HIDE DEF request
  <2>3. total \in Int
    BY <1>0, <2>1, <2>2, LedgerIs, FacturapiTotals
  <2> DEFINE row == Recorded("facturapi", n, request, total, ledger[n].subtotal, ledger[n].tax)
  <2>4. PaperFits(row)
    BY <1>0, <2>2, <2>3, FacturapiIsRight
  <2>5. Records(row)
    BY <2>1
  <2> HIDE DEF row
  <2> QED
    BY <2>4, <2>5, LaterPaperFits
<1>6. ASSUME NEW k \in DOMAIN papers, credit_note(k) PROVE AmountsInv'
  <2> DEFINE n == papers[k].of  items == ledger[n].items
             subtotal == Altogether([i \in DOMAIN items |-> items[i].subtotal])
             row == Recorded("credit", n, build_credit_note(items),
                             subtotal + Tax(subtotal), subtotal, Tax(subtotal))
  <2>1. papers[k].kind \in {"invoice", "facturapi"} /\ Records(row)
    BY <1>6 DEF credit_note
  <2>2. n \in DOMAIN ledger
    BY <2>1 DEF AmountsInv, PapersFit, Filed, PaperFits
  <2> HIDE DEF n
  <2>3. PaperFits(row)
    BY <1>0, <2>2, CreditNoteIsRight
  <2> HIDE DEF row
  <2> QED
    BY <2>1, <2>3, LaterPaperFits
<1>7. ASSUME NEW k \in DOMAIN papers, NEW amount \in {papers[k].total, papers[k].total \div 2},
             NEW K \in SUBSET DOMAIN papers, payment_receipt(K, amount)
      PROVE  AmountsInv'
  <2>1. papers[k].total \in Int
    BY DEF AmountsInv, PapersFit, Filed, PaperFits
  <2>2. amount \in Int
    BY <1>7, <2>1
  <2> QED
    BY <1>7, <2>2, ReceiptKeepsAmounts
<1> QED
  BY <1>1, <1>2, <1>3, <1>4, <1>5, <1>6, <1>7 DEF AmountsNext

LEMMA AmountsAddUp == AmountsInv => DocumentsAddUp
<1> SUFFICES ASSUME AmountsInv PROVE DocumentsAddUp
  OBVIOUS
<1>1. ASSUME NEW n \in DOMAIN ledger
      PROVE  /\ ledger[n].subtotal + ledger[n].tax = ledger[n].total
             /\ Uncut(ledger[n]) /\ (\A i \in DOMAIN ledger[n].lines : ledger[n].lines[i].price_includes_tax) =>
                    Near(Cent * ledger[n].total,
                         Altogether([i \in DOMAIN ledger[n].lines |-> Due(ledger[n].lines[i])]),
                         Len(ledger[n].lines) * (Cent \div 2))
  <2> DEFINE s == ledger[n]
  <2>1. s \in SaleRows
    BY LedgerIs DEF AmountsInv
  <2> HIDE DEF s
  <2>2. s.subtotal + s.tax = s.total
    BY <2>1, SaleNumbers
  <2>3. Uncut(s) /\ (\A i \in DOMAIN s.lines : s.lines[i].price_includes_tax) =>
            Near(Cent * s.total, Altogether([i \in DOMAIN s.lines |-> Due(s.lines[i])]),
                 Len(s.lines) * (Cent \div 2))
    BY <2>1, IncludedIsNear
  <2> QED
    BY <2>2, <2>3 DEF s
<1>2. ASSUME NEW k \in DOMAIN papers
      PROVE  papers[k].kind \in {"invoice", "credit"} => AddsUp(papers[k]) /\ Corresponds(papers[k])
  BY DEF AmountsInv, PapersFit, Filed, PaperFits
<1>3. receipt # Unset => \A k \in DOMAIN receipt.doctos :
        /\ receipt.doctos[k].pagado <= receipt.monto
        /\ receipt.doctos[k].pagado + receipt.doctos[k].insoluto = papers[k].total
  BY DEF AmountsInv, ReceiptFits
<1> QED
  BY <1>1, <1>2, <1>3 DEF DocumentsAddUp

LEMMA AmountsTypes == AmountsInv => AmountsTypeOK
<1> SUFFICES ASSUME AmountsInv PROVE AmountsTypeOK
  OBVIOUS
<1>1. \A i \in DOMAIN cart : cart[i] \in Lines
  BY ElementOfSeq DEF AmountsInv
<1>2. ASSUME NEW n \in DOMAIN ledger
      PROVE  ledger[n].total \in Nat \ {0} /\ ledger[n].tax \in Nat /\ ledger[n].discount \in Nat
  BY LedgerIs, SaleNumbers DEF AmountsInv
<1>3. \A k \in DOMAIN papers :
        /\ papers[k].kind \in {"invoice", "facturapi", "credit"} /\ papers[k].total \in Int
        /\ papers[k].document.head.metodo \in {"PUE", "PPD"}
  BY DEF AmountsInv, PapersFit, Filed, PaperFits
<1> QED
  BY <1>1, <1>2, <1>3 DEF AmountsTypeOK

LEMMA FiguresTypes == FiguresInv => FiguresTypeOK
<1> SUFFICES ASSUME FiguresInv PROVE FiguresTypeOK
  OBVIOUS
<1>1. FiguresShape /\ owed = Owing(ticket)
  BY DEF FiguresInv, OwedFits
<1>2. owed \in Nat
  BY <1>1, OwingIsNat DEF FiguresShape
<1>3. \A x \in Tickets : ticket[x].status \in {"none", "completed", "cancelled"}
  BY <1>1 DEF FiguresShape, NoRow, Ticketed
<1>4. \A k \in Shifts : shift[k].status \in {"none", "open", "closing", "closed"} /\ undone[k] \in Nat
  BY <1>1 DEF FiguresShape, NoRow, OpenTurn, ClosingTurn, ClosedTurn
<1>5. \A n \in Notes : note[n].status \in {"none", "noted"}
  BY <1>1 DEF FiguresShape, NoRow, Movement
<1>6. page.at \in {"none", "reading", "shown"}
  BY <1>1 DEF FiguresShape, Blank, Reading, Shown
<1> QED
  BY <1>1, <1>2, <1>3, <1>4, <1>5, <1>6 DEF FiguresShape, FiguresTypeOK

-----------------------------------------------------------------------------
(* The documents and the types                                              *)

\* The inductive invariant of the amounts: a row of sales has what its lines come to,
\* a row of cfdis is of sales that are there and its document adds up to them, and a
\* payment complement splits what the documents it pays were owed.
THEOREM AmountsInvariant == MCSpec => []AmountsInv
<1>1. MCInit => AmountsInv
  BY AmountsStart DEF MCInit
<1>2. AmountsInv /\ [MCNext]_<<invoicing, amounts, figures, scene>> => AmountsInv'
  <2>1. [MCNext]_<<invoicing, amounts, figures, scene>> => [AmountsNext]_amounts
    BY DEF MCNext
  <2> QED
    BY <2>1, AmountsStep
<1> QED
  BY <1>1, <1>2, PTL DEF MCSpec

\* create_sale, the builder of invoices and credit notes and the payment complement: for
\* any prices, quantities and discounts, in whatever parts of a cent or of a
\* ten-thousandth, and any number of lines, a sale comes to its prices with tax up to
\* half a cent a line, an invoice to its sale and a credit note to its invoice up to what
\* the columns of the rows round and its lines make of it, and what is paid and left of a
\* document to what was owed.
THEOREM DocumentsHold == MCSpec => []DocumentsAddUp
  BY AmountsAddUp, AmountsInvariant, PTL

\* The tables of cfdis, sales, turns, movements and summaries, and the calls in
\* progress on them, keep to their types.
THEOREM FiscalTypes == MCSpec => []TypesOK
<1>1. MCInit => InvoicingInv
  BY InvoicingStarts DEF MCInit
<1>2. InvoicingInv /\ [MCNext]_<<invoicing, amounts, figures, scene>> => InvoicingInv'
  <2>1. [MCNext]_<<invoicing, amounts, figures, scene>> => [InvoicingNext]_invoicing
    BY DEF MCNext
  <2> QED
    BY <2>1, InvoicingSteps
<1>3. InvoicingInv /\ AmountsInv /\ FiguresInv => TypesOK
  BY InvoicingTypesHold, AmountsTypes, FiguresTypes DEF TypesOK
<1> QED
  BY <1>1, <1>2, <1>3, AmountsInvariant, FiguresInvariant, PTL DEF MCSpec
=============================================================================
