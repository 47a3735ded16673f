--------------------------- MODULE MCFileMutation ---------------------------
\* Model-checking instances of FileMutation.
EXTENDS FileMutation, TLC

\* One note, and two notes of which one has two spellings.
OneFile == [p \in {1} |-> "a"]
OneKey == [p \in {1} |-> 1]
TwoNotes == [p \in {1, 2, 3} |-> IF p = 3 THEN "b" ELSE "a"]
TwoKeys == [p \in {1, 2, 3} |-> IF p = 3 THEN 2 ELSE 1]

\* Worker and mutex identities are interchangeable: nothing but equality is
\* asked of them.
Symmetry == Permutations(Workers) \cup Permutations(LockIds)
=============================================================================
