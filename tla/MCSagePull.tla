----------------------------- MODULE MCSagePull -----------------------------
EXTENDS SagePull, TLC

Symmetry == Permutations(Pullers)
=============================================================================
