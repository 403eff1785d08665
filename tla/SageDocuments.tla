---------------------------- MODULE SageDocuments ----------------------------
(***************************************************************************)
(* How a document posted in Sage 200 or Sage 300 becomes what the Access   *)
(* Point Provider is told: the ODBC client reads it, the field mapper of   *)
(* that ERP maps it, the pipeline has the buyer's TIN checked, and the     *)
(* provider builds the payload.  A retry reads the document again through  *)
(* get_invoice_by_id, a second copy of the reading code.                   *)
(*                                                                         *)
(* Money and rates as in Payloads.  A blank text is "none", an empty       *)
(* column of numbers is 0, except that an empty RATETAX or fTaxRate is     *)
(* NoRate: the mappers tell it from 0, or mean to.                         *)
(*                                                                         *)
(* A definition directly followed by the one whose name it extends is a    *)
(* faulty variant, part of no specification.                               *)
(***************************************************************************)
EXTENDS Payloads

CONSTANTS
  Documents,  \* documents that the ERPs may hold
  Tries       \* bound: submissions of the document, the retries included

NoRate == -1

\* What the columns hold; amounts may have any sign.
Document ==
  [erp : {"sage200", "sage300"}, kind : STRING, gross : Int, tax : Int, number : STRING, entry : BOOLEAN,
   date : STRING, due : STRING, customer : STRING, address : SUBSET Nat, currency : STRING, rate : Int,
   linked : BOOLEAN, lines : Seq([qty : Int, price : Int, net : Int, vat : Int, rate : Nat \cup {NoRate}])]

ASSUME DocumentsAssumption == Documents \subseteq Document /\ Tries \in Nat

VARIABLES
  doc,     \* the document in the ERP
  via,     \* the company's provider
  tins,    \* the customers with a row in BuyerTINMapping
  stage,   \* what _process_single has in hand (see hand)
  hand,    \* the dictionary: raw after the pull, mapped after the mapper
  told,    \* the payloads sent so far
  changed  \* history: the buyer's TIN was registered, or judged, anew

docVars == <<doc, via, tins, stage, hand, told, changed>>

Debits == {"invoice", "debit note"}

DocInit ==
  /\ doc \in Documents
  /\ via \in {"digitax", "interswitch"}
  /\ tins \in SUBSET ({doc.customer} \ {"none"})
  /\ stage = "posted" /\ hand = doc /\ told = <<>> /\ changed = FALSE

-----------------------------------------------------------------------------
\* Reading: PostAR and _btblInvoiceLines of Sage 200, ARINVOICE, ARINVOICED and
\* ARCUSTOMER of Sage 300.

\* Sage 300's dates are YYYYMMDD numbers, or dates by the driver's grace.
ParseDate(raw) == IF raw = "yyyymmdd" THEN "iso" ELSE raw

InvoiceLines(d) == IF d.linked THEN d.lines ELSE <<>>

Header(d, gross, type, currency) ==
  [erp |-> d.erp, number |-> d.number, entry |-> d.entry, type |-> type,
   date |-> ParseDate(d.date), due |-> ParseDate(d.due),
   customer |-> d.customer, address |-> d.address, currency |-> currency, rate |-> d.rate,
   gross |-> gross, vat |-> Abs(d.tax), net |-> gross - Abs(d.tax), lines |-> InvoiceLines(d)]

Read200(d) ==
  LET debit == IF d.kind \in Debits THEN d.gross ELSE 0
      credit == IF d.kind \in Debits THEN 0 ELSE d.gross
  IN Header(d, IF debit > 0 THEN debit ELSE credit, IF debit > 0 THEN 1 ELSE 2, "NGN")

Read300(d) ==
  Header(d, d.gross,
         CASE d.kind = "invoice" -> 1 [] d.kind = "debit note" -> 2 [] OTHER -> 3, d.currency)

GetNewInvoices(d) == IF d.erp = "sage200" THEN Read200(d) ELSE Read300(d)

GetInvoiceByIdSigned(d) == [GetNewInvoices(d) EXCEPT !.vat = d.tax, !.net = d.gross - d.tax]

\* The query for one document: the same columns, but for TEXTSTRE3 of Sage 300.
GetInvoiceById(d) ==
  IF d.erp = "sage200" THEN Read200(d) ELSE [Read300(d) EXCEPT !.address = @ \ {3}]

-----------------------------------------------------------------------------
\* Mapping.
InvoiceNumber(r) ==
  IF r.number = "none" /\ r.erp = "sage300" /\ r.entry THEN "batch-entry" ELSE r.number

DocumentType(r) ==
  IF r.erp = "sage200" THEN CASE r.type = 2 -> "381" [] r.type = 3 -> "383" [] OTHER -> "380"
  ELSE CASE r.type = 2 -> "383" [] r.type = 3 -> "381" [] OTHER -> "380"

BuyerTIN(r) == IF r.customer \in tins THEN "tin" ELSE "none"
InvoiceType(r) == IF BuyerTIN(r) = "none" THEN "B2C" ELSE "B2B"

OrIfZero(n, default) == IF n = 0 THEN default ELSE n

\* Sage 200 takes a rate of 0 for a missing one.
LineRate(erp, l) ==
  IF l.rate = NoRate \/ (erp = "sage200" /\ l.rate = 0) THEN Standard ELSE l.rate

MapLine(erp, l) ==
  LET rate == LineRate(erp, l)
      qty == OrIfZero(l.qty, 1)
  IN [qty |-> qty, price |-> l.price, net |-> OrIfZero(l.net, Rounded(qty * l.price, 100)),
      vat |-> l.vat, rate |-> rate, category |-> Category(rate)]

MapLinesStandard(r) ==
  IF r.lines = <<>> THEN <<HeaderLine(r.net, r.vat, Standard)>>
  ELSE [k \in DOMAIN r.lines |-> MapLine(r.erp, r.lines[k])]

\* Without lines, one for the whole document, of one rate.
MapLines(r) ==
  IF r.lines = <<>> THEN <<HeaderLine(r.net, r.vat, IF r.vat > 0 THEN Standard ELSE 0)>>
  ELSE [k \in DOMAIN r.lines |-> MapLine(r.erp, r.lines[k])]

\* utils/currency.py: the central bank's page is never understood, so a rate is
\* the ERP's, or one of the table, or 1 when there is none.
FallbackRates == [c \in {"USD", "GBP", "EUR", "GHS", "ZAR"} |->
  CASE c = "USD" -> 1580 [] c = "GBP" -> 2000 [] c = "EUR" -> 1720 [] c = "GHS" -> 100 [] OTHER -> 85]
NGNExchangeRate(c) == IF c \in DOMAIN FallbackRates THEN FallbackRates[c] ELSE 1
ExchangeRate(r) ==
  IF r.currency = "NGN" THEN 0 ELSE IF r.rate > 0 THEN r.rate ELSE NGNExchangeRate(r.currency)

MappingError(r) == InvoiceNumber(r) = "none" \/ r.date = "none"

Mapped(r) ==
  [number |-> InvoiceNumber(r), date |-> r.date,
   due |-> IF r.erp = "sage200" THEN "none" ELSE r.due,
   type |-> DocumentType(r), kind |-> InvoiceType(r), tin |-> BuyerTIN(r),
   name |-> r.customer, address |-> r.address, net |-> r.net, vat |-> r.vat, gross |-> r.gross,
   lines |-> MapLines(r), currency |-> r.currency, rate |-> ExchangeRate(r)]

-----------------------------------------------------------------------------
\* The steps of a submission.
Pull ==
  /\ stage = "posted" /\ told = <<>> /\ Tries > 0
  /\ hand' = GetNewInvoices(doc) /\ stage' = "raw"
  /\ UNCHANGED <<doc, via, tins, told, changed>>

\* submit_single_invoice, for an invoice whose answer was lost or a refusal.
Repull ==
  /\ stage = "posted" /\ told # <<>> /\ Len(told) < Tries
  /\ hand' = GetInvoiceById(doc) /\ stage' = "raw"
  /\ UNCHANGED <<doc, via, tins, told, changed>>

Map ==
  /\ stage = "raw" /\ ~MappingError(hand)
  /\ hand' = Mapped(hand) /\ stage' = "mapped"
  /\ UNCHANGED <<doc, via, tins, told, changed>>

\* MappingError: no row yet, or a row that stays as it is.
Refuse ==
  /\ stage = "raw" /\ MappingError(hand)
  /\ stage' = "refused"
  /\ UNCHANGED <<doc, via, tins, hand, told, changed>>

\* validate_tin: DigiTax cannot check and says yes; Interswitch may say no, or
\* not answer, which counts as no.
Declare(valid) ==
  LET m == IF hand.tin # "none" /\ ~valid THEN [hand EXCEPT !.tin = "none"] ELSE hand
      p == Payload(via, m)
  IN
  /\ stage = "mapped"
  /\ valid \/ (via = "interswitch" /\ hand.tin # "none")
  /\ told' = Append(told, p)
  /\ changed' = (changed \/ (told # <<>> /\ told[Len(told)].tin # p.tin))
  /\ stage' = "posted" /\ hand' = doc
  /\ UNCHANGED <<doc, via, tins>>

\* The user enters the customer's TIN.
RegisterTIN ==
  /\ stage = "posted" /\ doc.customer \notin tins \cup {"none"}
  /\ tins' = tins \cup {doc.customer} /\ changed' = (told # <<>>)
  /\ UNCHANGED <<doc, via, stage, hand, told>>

DocNext == Pull \/ Repull \/ Map \/ Refuse \/ (\E v \in BOOLEAN : Declare(v)) \/ RegisterTIN

DocSpec == DocInit /\ [][DocNext]_docVars

-----------------------------------------------------------------------------
\* A line whose amounts survive: with a quantity, no discount (DigiTax is told
\* quantity and price only) and not given away (it is charged after all), not
\* zero-rated in Sage 200, at no rate that DigiTax is told a hundredfold (up to
\* 1 %) or that turns the rounding of unit prices into tax (over 50 %).
RateOf(l) == IF l.rate = NoRate THEN Standard ELSE l.rate
PlainLine(erp, l) ==
  /\ l.qty > 0 /\ l.net = Rounded(l.qty * l.price, 100)
  /\ l.vat = Rounded(l.net * RateOf(l), 10000)
  /\ erp = "sage200" => l.rate # 0
  /\ RateOf(l) = 0 \/ (RateOf(l) > 100 /\ RateOf(l) <= 5000)

\* The totals are those of the lines or, without lines, of one rate.
PlainTotals(d, net, vat) ==
  IF d.linked /\ d.lines # <<>> THEN net = Net(d.lines) /\ vat = Vat(d.lines)
  ELSE vat \in {0, Rounded(net * Standard, 10000)}

\* A document whose amounts survive: in naira, with such lines and totals.
Plain(d) ==
  /\ d.erp = "sage200" \/ d.currency = "NGN"
  /\ d.gross >= 0
  /\ \A k \in DOMAIN d.lines : PlainLine(d.erp, d.lines[k])
  /\ PlainTotals(d, d.gross - Abs(d.tax), Abs(d.tax))

\* What the provider is told charges the buyer what the ERP posted, and its sums
\* agree, up to a kobo for each unit sold: for a plain document, whichever ERP,
\* provider, document type or customer.
DeclaredIsPosted ==
  Plain(doc) =>
    \A k \in DOMAIN told :
      /\ Abs(Charged(told[k]) - doc.gross) <= Units(doc.lines) + 1
      /\ AddsUp(told[k], 1)

\* A retry, which reads the document with another query, tells the provider what
\* the first attempt told it.  Only a third address line of Sage 300 is lost, and
\* the buyer may be another when the TIN was entered, or judged, in between.
RetryDeclaresTheSame ==
  \A k \in 2 .. Len(told) :
    /\ Charged(told[k]) = Charged(told[1])
    /\ \/ changed
       \/ told[k] = told[1]
       \/ doc.erp = "sage300" /\ told[k] = [told[1] EXCEPT !.address = @ \ {3}]
=============================================================================
