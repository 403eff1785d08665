--------------------------- MODULE MCExcelIntake ---------------------------
EXTENDS ExcelIntake, TLC

Symmetry == Permutations(Workers) \cup Permutations(Uploads)
=============================================================================
