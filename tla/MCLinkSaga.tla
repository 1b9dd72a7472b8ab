----------------------------- MODULE MCLinkSaga -----------------------------
EXTENDS LinkSaga, TLC

Symmetry == Permutations(Attempts) \cup Permutations(Items) \cup Permutations(Links)
            \cup Permutations(Unlinks) \cup Permutations(Reapers)
=============================================================================
