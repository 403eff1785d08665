-------------------------- MODULE InvoiceClearance --------------------------
(***************************************************************************)
(* What the middleware promises about the Invoice Reference Numbers (IRNs) *)
(* of the invoices it carries from the ERP to FIRS, whatever its workers,  *)
(* retries and failures do:                                                *)
(*                                                                         *)
(*   - an IRN is only ever one the access point provider (APP) issued for  *)
(*     that very invoice;                                                  *)
(*   - once the middleware has recorded an IRN it always has one;          *)
(*   - the ERP is only told an IRN when the middleware has recorded one.   *)
(*                                                                         *)
(* The k-th IRN issued for an invoice is the number k; 0 is "no IRN".      *)
(***************************************************************************)
EXTENDS Naturals

CONSTANT Invoices       \* invoices of one client, by their id in the ERP

VARIABLES
  issued,       \* issued[i]: how many IRNs the APP issued for i
  irn,          \* irn[i]: the IRN in the middleware's database
  sage          \* sage[i]: the IRN in the ERP

vars == <<issued, irn, sage>>

Init ==
  /\ issued = [i \in Invoices |-> 0]
  /\ irn    = [i \in Invoices |-> 0]
  /\ sage   = [i \in Invoices |-> 0]

\* The APP clears the invoice, more than once when a call is repeated.
Issue(i) ==
  /\ issued'[i] \in Nat /\ issued'[i] > issued[i]
  /\ issued' = [issued EXCEPT ![i] = issued'[i]]
  /\ UNCHANGED <<irn, sage>>

Record(i) ==
  /\ \E k \in 1 .. issued[i] : irn' = [irn EXCEPT ![i] = k]
  /\ UNCHANGED <<issued, sage>>

Deliver(i) ==
  /\ irn[i] # 0
  /\ \E k \in 1 .. issued[i] : sage' = [sage EXCEPT ![i] = k]
  /\ UNCHANGED <<issued, irn>>

Next == \E i \in Invoices : Issue(i) \/ Record(i) \/ Deliver(i)

Spec == Init /\ [][Next]_vars
=============================================================================
