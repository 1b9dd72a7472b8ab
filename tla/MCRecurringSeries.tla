-------------------------- MODULE MCRecurringSeries --------------------------
EXTENDS RecurringSeries, TLC

Symmetry == Permutations(Members)
=============================================================================
