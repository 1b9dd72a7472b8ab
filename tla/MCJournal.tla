----------------------------- MODULE MCJournal -----------------------------
EXTENDS Journal, TLC

Sessions == Permutations(Procs)
=============================================================================
