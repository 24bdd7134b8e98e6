------------------------------ MODULE MCChildren ------------------------------
EXTENDS Children, TLC

\* Calls of a chunk are interchangeable.
CallSymmetry == Permutations(Calls)
=============================================================================
