------------------------------ MODULE Payloads ------------------------------
(***************************************************************************)
(* What is told to the Access Point Provider about a mapped invoice, and   *)
(* what it amounts to.  The dictionary that every field mapper returns is  *)
(* a record here; DigiTax gets items and works the amounts out itself,     *)
(* Interswitch gets the UBL document of firs/invoice_schema.py.            *)
(*                                                                         *)
(* Money is in kobo, a unit price in hundredths of a kobo and a VAT rate   *)
(* in hundredths of a percent (750 is 7.5 %), as integers.                 *)
(*                                                                         *)
(* A definition directly followed by the one whose name it extends is a    *)
(* faulty variant, part of no specification.                               *)
(***************************************************************************)
EXTENDS Integers, Sequences, FiniteSetsExt

Abs(n) == IF n < 0 THEN -n ELSE n

\* round(a / b), for b > 0.
Rounded(a, b) == IF a < 0 THEN -((b - 2 * a) \div (2 * b)) ELSE (2 * a + b) \div (2 * b)

\* A column of a sequence of lines, and its sum.
Nets(lines) == [k \in DOMAIN lines |-> lines[k].net]
Vats(lines) == [k \in DOMAIN lines |-> lines[k].vat]
Net(lines) == SumFunction(Nets(lines))
Vat(lines) == SumFunction(Vats(lines))
Units(lines) == SumFunction([k \in DOMAIN lines |-> lines[k].qty])

Standard == 750
Category(rate) == IF rate > 0 THEN "S" ELSE "Z"

\* The line that stands for an invoice without lines.
HeaderLine(net, vat, rate) ==
  [qty |-> 1, price |-> 100 * net, net |-> net, vat |-> vat, rate |-> rate,
   category |-> Category(rate)]

-----------------------------------------------------------------------------
\* A rate up to 1 % is taken for a fraction already.
TaxRate(rate) == IF rate > 100 THEN rate ELSE 100 * rate

Item(l) ==
  [qty |-> IF l.qty = 0 THEN 1 ELSE l.qty, price |-> Rounded(l.price, 100),
   rate |-> TaxRate(l.rate), category |-> l.category]

DigiTax(m) ==
  [app |-> "digitax", number |-> m.number, date |-> m.date, kind |-> m.kind,
   \* the commercial invoice shares the code of the credit note
   type |-> IF m.type = "380" THEN "381" ELSE m.type,
   due |-> m.due, tin |-> m.tin, name |-> m.name, address |-> m.address,
   items |-> [k \in DOMAIN m.lines |-> Item(m.lines[k])]]

\* TaxSubtotal: the lines of one category and rate.
Alike(lines, k) ==
  {j \in DOMAIN lines : lines[j].category = lines[k].category /\ lines[j].rate = lines[k].rate}
Subtotals(lines) ==
  {[category |-> lines[k].category, rate |-> lines[k].rate,
    taxable |-> SumFunctionOnSet(Nets(lines), Alike(lines, k)),
    tax |-> SumFunctionOnSet(Vats(lines), Alike(lines, k))] : k \in DOMAIN lines}

UBL(m) ==
  [app |-> "interswitch", number |-> m.number, date |-> m.date, kind |-> m.kind,
   type |-> m.type, due |-> m.due, tin |-> m.tin, name |-> m.name, address |-> m.address,
   net |-> m.net, vat |-> m.vat, gross |-> m.gross,
   lines |-> m.lines, subtotals |-> Subtotals(m.lines)]

\* A consumer's document names the buyer only and is an invoice whatever it was.
BuildB2C(m) == [UBL(m) EXCEPT !.type = "380", !.due = "none", !.tin = "none", !.address = {}]
BuildB2B(m) == UBL(m)

Payload(app, m) ==
  IF app = "digitax" THEN DigiTax(m)
  ELSE IF m.kind = "B2C" THEN BuildB2C(m) ELSE BuildB2B(m)

-----------------------------------------------------------------------------
ItemTotal(i) == LET net == i.qty * i.price IN net + Rounded(net * i.rate, 10000)

\* The amount a payload charges the buyer.
ItemTotals(items) == [k \in DOMAIN items |-> ItemTotal(items[k])]
Charged(p) == IF p.app = "digitax" THEN SumFunction(ItemTotals(p.items)) ELSE p.gross

\* The sums and taxes of a document agree, within a kobo for each line.
AddsUp(p, tolerance) ==
  p.app = "interswitch" =>
    LET slack == tolerance + Len(p.lines) IN
    /\ p.net + p.vat = p.gross
    /\ Abs(Net(p.lines) - p.net) <= slack
    /\ Abs(Vat(p.lines) - p.vat) <= slack
    /\ \A s \in p.subtotals : Abs(s.tax - Rounded(s.taxable * s.rate, 10000)) <= slack
=============================================================================
