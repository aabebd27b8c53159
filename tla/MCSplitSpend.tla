---------------------------- MODULE MCSplitSpend ----------------------------
(* Small instances of SplitSpend for TLC. *)
EXTENDS SplitSpend, TLC

\* Keys of the same kind, coins, blindings and contracts are interchangeable.
Symmetry == Permutations(Wallets) \cup Permutations(OtherClients)
              \cup Permutations(Coins) \cup Permutations(Blindings)

\* So are the positions of the tree, which nothing orders.
PositionSymmetry == Permutations(Index)
=============================================================================
