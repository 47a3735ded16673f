--------------------------- MODULE MCWindowSession ---------------------------
\* Model-checking instance of WindowSession.
EXTENDS WindowSession, TLC

\* Tokens and threads are only compared.
Symmetry == Permutations(Tokens) \cup Permutations(Threads) \cup Permutations(Notes)
=============================================================================
