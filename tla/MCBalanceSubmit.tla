--------------------------- MODULE MCBalanceSubmit ---------------------------
(* What the runs of BalanceSubmit share: forks are told apart by nothing else. *)
EXTENDS BalanceSubmit, TLC

Symmetry == Permutations(Forks)

=============================================================================
