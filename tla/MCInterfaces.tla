---------------------------- MODULE MCInterfaces ----------------------------
(***************************************************************************)
(* What happens at the system's edges, besides the submissions: the Sage   *)
(* 200 tokens, the statuses at the Access Point Provider, the documents    *)
(* read from Sage and the files read from disk, mail or the web.  The four *)
(* share no state, so each is run by itself while the others rest in one   *)
(* state, and no interleaving is lost.                                     *)
(***************************************************************************)
EXTENDS SageToken, ProviderSync, SageDocuments, Workbooks

\* A consumer's invoice is cleared once, the other one twice.
MCMaxIds == [r \in Rows |-> IF r \in Private THEN 1 ELSE 2]

-----------------------------------------------------------------------------
\* Documents.
Plainly(qty, price, rate) ==
  LET net == Rounded(qty * price, 100) IN
  [qty |-> qty, price |-> price, net |-> net, rate |-> rate,
   vat |-> Rounded(net * (IF rate = NoRate THEN Standard ELSE rate), 10000)]

\* One or two of an item at 3.3333 or 40 naira, at any rate, and three at the
\* lowest and the highest rate of a plain document; and the same with
\* 50 kobo off, given away, without a quantity or without VAT.
PlainLines == {Plainly(q, p, r) : q \in {1, 2}, p \in {33333, 400000}, r \in {NoRate, 0, Standard}}
  \cup {Plainly(3, 33350, r) : r \in {101, 5000}}
OddLines == {[l EXCEPT !.net = @ - 50] : l \in {Plainly(1, 400000, Standard)}}
  \cup {[l EXCEPT !.net = 0, !.vat = 0] : l \in {Plainly(1, 400000, Standard)}}
  \cup {[l EXCEPT !.qty = 0] : l \in {Plainly(1, 400000, Standard)}}
  \cup {[l EXCEPT !.vat = 0] : l \in {Plainly(2, 33333, NoRate)}}
MCLines == {<<>>} \cup {<<l>> : l \in PlainLines \cup OddLines}
  \cup {<<k, l>> : k \in PlainLines, l \in PlainLines \cup OddLines}

Sign(kind) == IF kind \in {"credit note", "receipt"} THEN -1 ELSE 1

Posted(erp, kind, lines) ==
  LET net == IF lines = <<>> THEN 8000 ELSE Net(lines)
      vat == IF lines = <<>> THEN 600 ELSE Vat(lines)
  IN [erp |-> erp, kind |-> kind, gross |-> net + vat, tax |-> Sign(kind) * vat, number |-> "n",
      entry |-> TRUE, date |-> "iso", due |-> "none", customer |-> "c", address |-> {1},
      currency |-> "NGN", rate |-> 0, linked |-> TRUE, lines |-> lines]

MCDocuments ==
  {d \in {Posted(e, "invoice", ls) : e \in {"sage200", "sage300"}, ls \in MCLines} : d.gross > 0}
  \cup {[Posted(e, "credit note", <<>>) EXCEPT !.tax = t, !.currency = c, !.rate = r]
          : e \in {"sage200", "sage300"}, t \in {0, -400, -600}, c \in {"NGN", "USD", "XAF"}, r \in {0, 15}}
  \cup {[Posted(e, k, <<Plainly(2, 400000, Standard)>>)
            EXCEPT !.number = n, !.entry = n = "n", !.date = t, !.due = t, !.customer = c,
                   !.address = a, !.linked = (c = "c")]
          : e \in {"sage200", "sage300"}, k \in {"debit note", "credit note"}, n \in {"n", "none"},
            t \in {"iso", "yyyymmdd", "none"}, c \in {"c", "none"}, a \in {{1}, {1, 3}}}

-----------------------------------------------------------------------------
\* Standard files: one or two of an item at 3.3333 or 40 naira, taxed or not;
\* and any one cell of a row empty, blank, a word, a date or nothing.
Number(v) == [is |-> "number", v |-> v]
Word(v) == [is |-> v, v |-> 0]

FullRow(qty, price, rate) ==
  LET net == Rounded(qty * price, 100)
      vat == Rounded(net * rate, 1000000)
  IN <<Word("n"), Word("dd/mm/yyyy"), Word("c"), Word("tin"), Word("d"), Number(10000 * qty), Number(price),
       Number(rate), Number(100 * vat), Number(100 * (net + vat)), Word("NGN")>>
AnyRow == FullRow(1, 400000, 75000)
BlankRow == [i \in 1 .. 11 |-> Nothing]
RowsOfFiles ==
  {FullRow(q, p, r) : q \in {1, 2}, p \in {33333, 400000}, r \in {0, 75000}}
  \cup {[AnyRow EXCEPT ![i] = c] : i \in 1 .. 11, c \in {Nothing, Word(""), Word("short"), Word("date")}}
  \cup {[AnyRow EXCEPT ![i] = Number(450000000)] : i \in 1 .. 5}
  \cup {[AnyRow EXCEPT ![i] = Number(0)] : i \in 6 .. 10}
  \cup {[AnyRow EXCEPT ![2] = Word(d)] : d \in {"yyyy-mm-dd", "yyyy-99-99"}}

StandardFile(headers, rows) == [ext |-> "xlsx", content |-> "ooxml", headers |-> headers, rows |-> rows, sheets |-> <<>>]
Swapped(s, i, j) == [s EXCEPT ![i] = s[j], ![j] = s[i]]

\* The template, with a row or three, and files whose columns stand in another
\* order: the TIN before the name, the rate or the VAT before the price.
StandardFiles ==
  {StandardFile(Template, <<r>>) : r \in RowsOfFiles}
  \cup {StandardFile(Template, <<r, BlankRow, AnyRow>>) : r \in RowsOfFiles}
  \cup {StandardFile(Swapped([Template EXCEPT ![3] = "Customer Name", ![4] = "Customer TIN"], s[1], s[2]),
                  <<Swapped(r, s[1], s[2])>>) : r \in RowsOfFiles, s \in {<<3, 4>>, <<7, 8>>, <<7, 9>>}}
  \cup {StandardFile([Template EXCEPT ![2] = "Due Date", ![8] = "Total excl VAT"], <<r>>) : r \in RowsOfFiles}

\* Printed sheets: items, a subtotal or a charge, the VAT with its label or
\* without, the total likewise.
PrintedRow(label, item, qty, nums) == [label |-> label, item |-> item, qty |-> qty, nums |-> nums]
Amount(label, n) == PrintedRow(label, "none", 0, <<n>>)
Items ==
  {<<>>} \cup {<<PrintedRow("", "item", q, <<n \div q, n>>)>> : q \in {1, 3}, n \in {10000, 250000}}
  \cup {<<PrintedRow("", "item", 3, <<3333, 10000>>), PrintedRow("", i, 1, <<250000, 250000>>)>>
          : i \in {"item", "skipped", "none"}}
  \cup {<<PrintedRow("", "item", 1, <<500, 500>>), PrintedRow("", "item", 2, <<1000, 2000>>),
          PrintedRow("", "item", 7, <<1071, 7500>>)>>}
Middles == {<<>>, <<Amount("other", 10000)>>, <<PrintedRow("other", "none", 0, <<>>), Amount("other", 500)>>}
VATs == {<<>>} \cup {<<Amount(l, v)>> : l \in {"vat", "other"}, v \in {0, 50, 750, 18750, 19500}}
Totals == {<<>>} \cup {<<Amount(l, t)>> : l \in {"total", "other"},
                                          t \in {0, 10000, 10750, 260000, 268750, 279500}}

Sheet(body) ==
  [name |-> "invoice", tall |-> TRUE, number |-> "n", date |-> "serial", customer |-> "c",
   headings |-> TRUE, body |-> body]
AnySheet == Sheet(<<PrintedRow("", "item", 3, <<3333, 10000>>), Amount("vat", 750), Amount("total", 10750)>>)
OddSheets ==
  {AnySheet, [AnySheet EXCEPT !.name = "skipped"], [AnySheet EXCEPT !.tall = FALSE],
   [AnySheet EXCEPT !.number = "none"], [AnySheet EXCEPT !.number = "invoice"],
   [AnySheet EXCEPT !.date = "text"], [AnySheet EXCEPT !.customer = "none"],
   [AnySheet EXCEPT !.headings = FALSE], [AnySheet EXCEPT !.body[3] = Amount("total", 99999)]}
Printed(sheets) == [ext |-> "xls", content |-> "biff", headers |-> <<>>, rows |-> <<>>, sheets |-> sheets]
PrintedFiles ==
  {Printed(<<Sheet(a \o b \o c \o d)>>) : a \in Items, b \in Middles, c \in VATs, d \in Totals}
  \cup {Printed(<<a, b, AnySheet>>) : a \in OddSheets, b \in OddSheets}

MCBooks ==
  StandardFiles \cup PrintedFiles
  \cup {[b EXCEPT !.ext = e, !.content = c]
          : b \in {StandardFile(Template, <<AnyRow>>), Printed(<<AnySheet>>)},
            e \in {"xls", "xlsx", "csv"}, c \in {"biff", "ooxml", "text"}}

-----------------------------------------------------------------------------
VARIABLE part

vars == <<part, tokenVars, syncVars, docVars, bookVars>>

ADocument == CHOOSE d \in Documents : TRUE
ABook == CHOOSE b \in Books : TRUE

Init ==
  /\ part \in {"tokens", "statuses", "documents", "workbooks"}
  /\ TokenInit /\ SyncInit
  /\ part = "documents" \/ (doc = ADocument /\ via = "digitax" /\ tins = {})
  /\ DocInit
  /\ part = "workbooks" \/ (book = ABook /\ provider = "digitax" /\ registered = {})
  /\ BookInit

Tokens == part = "tokens" /\ TokenNext /\ UNCHANGED <<part, syncVars, docVars, bookVars>>
Statuses == part = "statuses" /\ SyncNext /\ UNCHANGED <<part, tokenVars, docVars, bookVars>>
ReadDocuments == part = "documents" /\ DocNext /\ UNCHANGED <<part, tokenVars, syncVars, bookVars>>
ReadBooks == part = "workbooks" /\ BookNext /\ UNCHANGED <<part, tokenVars, syncVars, docVars>>

Spec == Init /\ [][Tokens \/ Statuses \/ ReadDocuments \/ ReadBooks]_vars
FairSpec == Spec /\ SyncFairness
=============================================================================
