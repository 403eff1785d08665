------------------------------ MODULE Workbooks ------------------------------
(***************************************************************************)
(* How an uploaded, watched or mailed file becomes what the Access Point   *)
(* Provider is told: get_parser picks the parser, the parser reads the     *)
(* rows of a standard sheet or the sheets of a Link Options workbook, the  *)
(* adapter holds back what does not add up, and each invoice is mapped and *)
(* sent.  What becomes of the rows and the upload then is ExcelIntake.     *)
(*                                                                         *)
(* Money and rates as in Payloads.  A cell is [is, v]: "nothing", "date",  *)
(* "number" (v, in ten thousandths) or a text, an atom.  A row of a        *)
(* printed sheet keeps its label, its item, its quantity and the numbers   *)
(* from column 12 on; a sheet's items and totals fit its last 25 rows.     *)
(*                                                                         *)
(* A definition directly followed by the one whose name it extends is a    *)
(* faulty variant, part of no specification.                               *)
(***************************************************************************)
EXTENDS Payloads, SequencesExt

CONSTANT Books  \* files that may arrive

Cells == [is : STRING, v : Int]
PrintedRows == [label : STRING, item : STRING, qty : Int, nums : Seq(Int)]
Sheets ==
  [name : STRING, tall : BOOLEAN, number : STRING, date : STRING, customer : STRING,
   headings : BOOLEAN, body : Seq(PrintedRows)]
Book ==
  [ext : STRING, content : STRING, headers : Seq(STRING), rows : Seq(Seq(Cells)), sheets : Seq(Sheets)]

\* A row has a cell under each header.
ASSUME BooksAssumption ==
  /\ Books \subseteq Book
  /\ \A b \in Books : \A r \in DOMAIN b.rows : Len(b.rows[r]) = Len(b.headers)

VARIABLES
  book,        \* the file
  provider,    \* the company's provider
  registered,  \* the customers with a TIN in BuyerTINMapping
  phase,       \* "received", "parsed", "refused": ExcelParseError
  result,      \* the ParseResult: the invoices and the errors, each under its row
  done,        \* how many of the invoices were processed
  sent         \* what was sent, in order: the row and its payload

bookVars == <<book, provider, registered, phase, result, done, sent>>

BookInit ==
  /\ book \in Books
  /\ provider \in {"digitax", "interswitch"}
  /\ registered \in SUBSET {"c"}
  /\ phase = "received"
  /\ result = [invoices |-> <<>>, errors |-> <<>>]
  /\ done = 0 /\ sent = <<>>

\* An .xlsx is recognised even under an .xls name.
IsPrinted(b) == b.ext = "xls" /\ b.content # "ooxml"
Opens(b) == b.content = IF IsPrinted(b) THEN "biff" ELSE "ooxml"

-----------------------------------------------------------------------------
\* The standard layout.  STANDARD_COLUMNS, in its order: a header is good for
\* each field one of whose aliases it contains.
Columns == <<"number", "date", "buyer", "tin", "description", "qty", "price", "rate", "vat",
             "gross", "currency">>
GoodFor(h) ==
  CASE h = "Invoice Number" -> {"number"}
    [] h \in {"Invoice Date", "Due Date"} -> {"date"}
    [] h \in {"Buyer Name", "Customer Name"} -> {"buyer"}
    [] h \in {"Buyer TIN", "Customer TIN"} -> {"buyer", "tin"}
    [] h = "Item Description" -> {"description"}
    [] h = "Quantity" -> {"qty"}
    [] h = "Unit Price (excl VAT)" -> {"price", "vat"}
    [] h = "VAT Rate" -> {"price", "rate", "vat"}
    [] h = "VAT Amount" -> {"vat"}
    [] h = "Gross Amount" -> {"gross"}
    [] h = "Total excl VAT" -> {"vat", "gross"}
    [] h = "Currency" -> {"currency"}
    [] OTHER -> {}

\* The columns of the file that the system hands out to be filled in.
Template == <<"Invoice Number", "Invoice Date", "Buyer Name", "Buyer TIN", "Item Description",
              "Quantity", "Unit Price (excl VAT)", "VAT Rate", "VAT Amount", "Gross Amount", "Currency">>

\* The elements of a finite set of numbers in order.
Ascending(S) ==
  CHOOSE q \in [1 .. Cardinality(S) -> S] : \A i, j \in DOMAIN q : i < j => q[i] < q[j]

\* A header that two fields could claim goes to both.
DetectColumnsShared(headers) ==
  [n \in DOMAIN Columns |->
     LET good == {i \in DOMAIN headers : Columns[n] \in GoodFor(headers[i])}
     IN IF good = {} THEN 0 ELSE Min(good)]

\* Each field in turn claims the first header good for it that is still free, if
\* any: the positions claimed, in the order of the fields.
DetectColumns(headers) ==
  LET claimed[n \in 0 .. Len(Columns)] ==
        IF n = 0 THEN <<>>
        ELSE LET map == claimed[n - 1]
                 free == {i \in DOMAIN headers : Columns[n] \in GoodFor(headers[i]) /\ i \notin Range(map)}
             IN Append(map, IF free = {} THEN 0 ELSE Min(free))
  IN claimed[Len(Columns)]

Nothing == [is |-> "nothing", v |-> 0]
Cell(b, r, f) ==
  LET i == DetectColumns(b.headers)[CHOOSE n \in DOMAIN Columns : Columns[n] = f]
  IN IF i = 0 THEN Nothing ELSE b.rows[r][i]

IsBlank(c) == c.is \in {"nothing", ""}

\* The cell as a number; what is no number counts as 0, and an empty cell as
\* the default.
ParseDecimal(c, default) ==
  CASE c.is = "nothing" -> default [] c.is = "number" -> c.v [] OTHER -> 0

\* A date cell has become the text of a datetime before it gets here, which no
\* format fits; ten characters that look like an ISO date are taken for one.
ParseSheetDate(c) ==
  CASE c.is \in {"yyyy-mm-dd", "dd/mm/yyyy"} -> "iso"
    [] c.is = "yyyy-99-99" -> "bad"
    [] c.is = "number" /\ c.v \div 10000 \in 30001 .. 59999 -> "iso"
    [] OTHER -> "none"

\* A row whose VAT must be worked out is lost to a TypeError (a Decimal times a
\* float), and so is one with a VAT of 0.
ExtractFails(b, r) ==
  /\ ParseDecimal(Cell(b, r, "vat"), 0) = 0
  /\ ParseDecimal(Cell(b, r, "price"), 0) # 0
  /\ ParseDecimal(Cell(b, r, "qty"), 10000) # 0

ExtractRow(b, r) ==
  LET Kobo(f) == Rounded(ParseDecimal(Cell(b, r, f), 0), 100) IN
  [row |-> r, number |-> Cell(b, r, "number").is, date |-> ParseSheetDate(Cell(b, r, "date")),
   buyer |-> Cell(b, r, "buyer").is,
   tin |-> IF IsBlank(Cell(b, r, "tin")) THEN "none" ELSE Cell(b, r, "tin").is,
   qty |-> ParseDecimal(Cell(b, r, "qty"), 10000) \div 10000,
   price |-> ParseDecimal(Cell(b, r, "price"), 0),
   rate |-> Rounded(ParseDecimal(Cell(b, r, "rate"), 100 * Standard), 100),
   vat |-> Kobo("vat"), gross |-> Kobo("gross"), net |-> Kobo("gross") - Kobo("vat"), lines |-> <<>>]

IsValidRow(b, r) ==
  LET x == ExtractRow(b, r)
      currency == Cell(b, r, "currency")
  IN
  /\ ~ExtractFails(b, r)
  /\ \A f \in {"number", "buyer", "description"} : ~IsBlank(Cell(b, r, f))
  /\ x.date # "none"
  /\ x.qty > 0 /\ x.price >= 0 /\ x.gross > 0
  /\ x.tin # "short"
  /\ IsBlank(currency) \/ currency.is = "NGN"

\* Errors are numbered by the rows of the sheet, invoices from the first below
\* the headers.
ParseStandard(b) ==
  LET rows == {r \in DOMAIN b.rows : \E i \in DOMAIN b.rows[r] : ~IsBlank(b.rows[r][i])}
      valid == Ascending({r \in rows : IsValidRow(b, r)})
      bad == Ascending({r \in rows : ~IsValidRow(b, r)})
  IN [invoices |-> [k \in DOMAIN valid |-> ExtractRow(b, valid[k])],
      errors |-> [k \in DOMAIN bad |-> bad[k] + 1]]

-----------------------------------------------------------------------------
\* A Link Options sheet.
Positive(row) == {i \in DOMAIN row.nums : row.nums[i] > 0}
FirstAmount(row) == row.nums[Min(Positive(row))]
LastAmount(row) == row.nums[Max(Positive(row))]

\* Below the headings, what has a quantity and a description, and a price; but
\* not a discount, a training, an implementation or a subscription.
IsLine(s, k) == s.headings /\ s.body[k].item = "item" /\ s.body[k].qty > 0 /\ Positive(s.body[k]) # {}
FindLines(s) ==
  LET lines == Ascending({k \in DOMAIN s.body : IsLine(s, k)})
  IN [n \in DOMAIN lines |-> [qty |-> s.body[lines[n]].qty, net |-> LastAmount(s.body[lines[n]])]]

Labelled(s, label) == {k \in DOMAIN s.body : s.body[k].label = label /\ Positive(s.body[k]) # {}}
First(s, label) == FirstAmount(s.body[Min(Labelled(s, label))])

\* A number by itself in the three rows above the total.
BareAmounts(s) ==
  LET total == Min(Labelled(s, "total")) IN
  {k \in DOMAIN s.body : /\ k \in total - 3 .. total - 1
                         /\ s.body[k].qty <= 0 /\ Cardinality(Positive(s.body[k])) = 1
                         /\ FirstAmount(s.body[k]) < First(s, "total")}

\* The amount of the VAT row; or the bare amount that is nearest to the total.
FindVAT(s) ==
  IF Labelled(s, "vat") # {} THEN First(s, "vat")
  ELSE IF Labelled(s, "total") = {} \/ BareAmounts(s) = {} THEN 0
  ELSE FirstAmount(s.body[Max(BareAmounts(s))])

\* The amount of the TOTAL row, or the last number over 1000 naira.
Large(row) == {i \in DOMAIN row.nums : row.nums[i] > 100000}
FindGross(s) ==
  LET rows == {k \in DOMAIN s.body : Large(s.body[k]) # {}}
      row == s.body[Max(rows)]
  IN IF Labelled(s, "total") # {} THEN First(s, "total")
     ELSE IF rows = {} THEN 0 ELSE row.nums[Max(Large(row))]

IsSkipped(s) == s.name = "skipped" \/ ~s.tall
IsInvoice(s) == ~IsSkipped(s) /\ s.number \notin {"none", "invoice"} /\ FindGross(s) # 0

\* The sheet at a position of the workbook, when these customers are known.
ParseSheet(b, k, known) ==
  LET s == b.sheets[k]
      net == FindGross(s) - FindVAT(s)
      lines == FindLines(s)
  IN [row |-> k, number |-> s.number, date |-> IF s.date = "text" THEN "bad" ELSE "iso",
      buyer |-> s.customer, tin |-> IF s.customer \in known THEN "tin" ELSE "none",
      qty |-> 1, price |-> 100 * net, net |-> net, vat |-> FindVAT(s), gross |-> FindGross(s),
      rate |-> IF net > 0 /\ FindVAT(s) > 0 THEN Rounded(10000 * FindVAT(s), net) ELSE 0, lines |-> lines]

\* The adapter: an invoice whose lines do not add up to it within a naira is
\* held back.
Tolerance == 100
IsHeldBack(inv) == inv.lines # <<>> /\ Abs(Net(inv.lines) - inv.net) > Tolerance

ParsePrintedByRow(b, known) ==
  LET found == {k \in DOMAIN b.sheets : IsInvoice(b.sheets[k])}
      heldBack == {k \in found : IsHeldBack(ParseSheet(b, k, known))}
      kept == Ascending(found \ heldBack)
      unread == {k \in DOMAIN b.sheets : k \notin ToSet(kept) /\ ~IsSkipped(b.sheets[k])}
  IN [invoices |-> [n \in DOMAIN kept |-> ParseSheet(b, kept[n], known)],
      errors |-> Ascending(heldBack) \o Ascending(unread)]

\* Every sheet that was not read, and is not passed over on purpose, is an error.
ParsePrinted(b, known) ==
  LET found == {k \in DOMAIN b.sheets : IsInvoice(b.sheets[k])}
      heldBack == {k \in found : IsHeldBack(ParseSheet(b, k, known))}
      kept == Ascending(found \ heldBack)
      unread == {k \in DOMAIN b.sheets : k \notin found /\ ~IsSkipped(b.sheets[k])}
  IN [invoices |-> [n \in DOMAIN kept |-> ParseSheet(b, kept[n], known)],
      errors |-> Ascending(heldBack) \o Ascending(unread)]

-----------------------------------------------------------------------------
\* ExcelFieldMapper: the last line takes what the others left of the VAT.
LinesFromSheet(inv) ==
  LET n == Len(inv.lines)
      VatOf(k) == Rounded(inv.lines[k].net * inv.rate, 10000)
      Line(k) ==
        [qty |-> inv.lines[k].qty, net |-> inv.lines[k].net, rate |-> inv.rate,
         price |-> Rounded(100 * inv.lines[k].net, inv.lines[k].qty), category |-> Category(inv.rate),
         vat |-> IF k < n THEN VatOf(k) ELSE inv.vat - SumFunctionOnSet([j \in 1 .. n |-> VatOf(j)], 1 .. n - 1)]
  IN [k \in 1 .. n |-> Line(k)]

BuildLines(inv) ==
  IF inv.lines # <<>> THEN LinesFromSheet(inv)
  ELSE <<[HeaderLine(inv.net, inv.vat, inv.rate) EXCEPT !.qty = inv.qty, !.price = inv.price]>>

MappedRow(inv) ==
  [number |-> inv.number, date |-> inv.date, due |-> "none", type |-> "380",
   kind |-> IF inv.tin = "none" THEN "B2C" ELSE "B2B", tin |-> inv.tin, name |-> inv.buyer,
   address |-> {}, net |-> inv.net, vat |-> inv.vat, gross |-> inv.gross, lines |-> BuildLines(inv)]

-----------------------------------------------------------------------------
CanRead == Opens(book) /\ (IsPrinted(book) => \E k \in DOMAIN book.sheets : IsInvoice(book.sheets[k]))

Parse ==
  /\ phase = "received" /\ CanRead
  /\ phase' = "parsed"
  /\ result' = IF IsPrinted(book) THEN ParsePrinted(book, registered) ELSE ParseStandard(book)
  /\ UNCHANGED <<book, provider, registered, done, sent>>

RefuseFile ==
  /\ phase = "received" /\ ~CanRead
  /\ phase' = "refused"
  /\ UNCHANGED <<book, provider, registered, result, done, sent>>

\* _process_row for the next invoice; one with an impossible date fails before
\* it is sent.
ProcessRow ==
  /\ phase = "parsed" /\ done < Len(result.invoices)
  /\ LET inv == result.invoices[done + 1] IN
     sent' = IF inv.date = "bad" THEN sent
             ELSE Append(sent, [row |-> inv.row, payload |-> Payload(provider, MappedRow(inv))])
  /\ done' = done + 1
  /\ UNCHANGED <<book, provider, registered, phase, result>>

BookNext == Parse \/ RefuseFile \/ ProcessRow
BookSpec == BookInit /\ [][BookNext]_bookVars

-----------------------------------------------------------------------------
\* A printed workbook loses no sheet: once it is read, each sheet of some length
\* and of no reserved name is one invoice, or one error, under its own position,
\* and nothing else is.
NoSheetVanishes ==
  phase = "parsed" /\ IsPrinted(book) =>
    \A k \in DOMAIN book.sheets :
      Cardinality({n \in DOMAIN result.invoices : result.invoices[n].row = k})
        + Cardinality({n \in DOMAIN result.errors : result.errors[n] = k})
        = IF IsSkipped(book.sheets[k]) THEN 0 ELSE 1

\* What a row of the template states, in kobo, when its own amounts agree, and
\* its rate is one that DigiTax is not told a hundredfold (up to 1 %) and under
\* which the rounding of the unit price stays below a kobo per unit (50 %).
StatedByRow(r) ==
  LET qty == r[6].v \div 10000
      net == Rounded(qty * r[7].v, 100)
      vat == Rounded(net * r[8].v, 1000000)
  IN IF /\ \A i \in 6 .. 10 : r[i].is = "number"
        /\ r[9].v = 100 * vat /\ r[10].v = 100 * (net + vat)
        /\ r[8].v = 0 \/ (r[8].v >= 10100 /\ r[8].v <= 500000)
     THEN [gross |-> net + vat, units |-> qty] ELSE [gross |-> -1, units |-> 0]

\* What a printed sheet states, when it has a TOTAL and its VAT is such a share
\* of the rest.
StatedBySheet(s) ==
  LET gross == FindGross(s) vat == FindVAT(s) IN
  IF Labelled(s, "total") # {} /\ (vat = 0 \/ (10000 * vat >= 101 * (gross - vat) /\ 3 * vat <= gross))
  THEN [gross |-> gross, units |-> Units(FindLines(s))]
  ELSE [gross |-> -1, units |-> 0]

\* What the provider is told charges the buyer what the row or the sheet states,
\* and its sums agree: up to two naira for lines that are a naira off, a kobo
\* for each unit sold and the rounding of the rate; whatever the reader skipped.
DeclaredAddsUp ==
  \A k \in DOMAIN sent :
    LET stated == IF IsPrinted(book) THEN StatedBySheet(book.sheets[sent[k].row])
                  ELSE StatedByRow(book.rows[sent[k].row])
        slack == stated.units + 2 + stated.gross \div 20000 + (IF IsPrinted(book) THEN 2 * Tolerance ELSE 0)
    IN (IsPrinted(book) \/ book.headers = Template) /\ stated.gross >= 0 =>
         /\ Abs(Charged(sent[k].payload) - stated.gross) <= slack
         /\ AddsUp(sent[k].payload, slack)

\* A row of numbers whose VAT amount is as its rate says.
WithVAT(row) ==
  [row EXCEPT ![9] = [is |-> "number",
                      v |-> 100 * Rounded(Rounded((row[6].v \div 10000) * row[7].v, 100) * row[8].v, 1000000)]]

\* The template's instructions: the VAT amount is calculated automatically if
\* blank, so a row that lacks nothing else is read as an invoice.
BlankVATIsCalculated ==
  phase = "parsed" /\ ~IsPrinted(book) /\ book.headers = Template =>
    \A r \in DOMAIN book.rows :
      /\ book.rows[r][9] = Nothing
      /\ \A i \in 6 .. 8 : book.rows[r][i].is = "number"
      /\ IsValidRow([book EXCEPT !.rows[r] = WithVAT(@)], r)
      => \E n \in DOMAIN result.invoices : result.invoices[n].row = r
=============================================================================
