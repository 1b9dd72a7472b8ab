-------------------------- MODULE MCStatementIngest --------------------------
EXTENDS StatementIngest, TLC

Symmetry ==
  Permutations(Uploads) \cup Permutations(Members) \cup Permutations(Bodies)
    \cup Permutations(Tokens)
=============================================================================
