------------------------- MODULE MCInvoiceLifecycle -------------------------
EXTENDS InvoiceLifecycle, TLC

Symmetry == Permutations(Workers)
=============================================================================
