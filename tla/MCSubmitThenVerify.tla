------------------------- MODULE MCSubmitThenVerify --------------------------
EXTENDS SubmitThenVerify, TLC

Symmetry == Permutations(Forks)

=============================================================================
