----------------------------- MODULE CoinLedger -----------------------------
(***************************************************************************)
(* What a shielded-coin ledger promises, whatever path a spend takes: the  *)
(* commitments it holds are never removed, and each is spent at most once. *)
(* SplitSpend implements this module (its ImplementsLedger).               *)
(***************************************************************************)
EXTENDS Sequences

CONSTANT Leaves     \* every commitment a Merkle leaf may hold

VARIABLES
    leaves,         \* the commitments in the tree
    spends          \* the commitments spent, in the order of the blocks

vars == <<leaves, spends>>

Spent == {spends[i] : i \in DOMAIN spends}

Init == leaves = {} /\ spends = <<>>

Mint == /\ \E l \in Leaves : leaves' = leaves \cup {l}
        /\ UNCHANGED spends

Spend == /\ \E l \in leaves \ Spent : spends' = Append(spends, l)
         /\ UNCHANGED leaves

Next == Mint \/ Spend

Spec == Init /\ [][Next]_vars
=============================================================================
