---------------------------- MODULE BlockVerdict ----------------------------
(***************************************************************************)
(* What may be said of one block of a chain by someone who can only ask:   *)
(* each thing learned was so at the moment it was asked, the chain moves   *)
(* on between two questions, and the verdict rests on what was learned.    *)
(* VerifyOnChain implements this module (its ImplementsVerdict).           *)
(***************************************************************************)

VARIABLES
    standing,   \* of the block: final or canonical; orphaned, or lost for good
    holds,      \* the block holds the transaction
    learned,    \* what the run has learned
    said        \* what it has said at its end

vars == <<standing, holds, learned, said>>

\* What a question may bring to light, and the standings in which it is so.
Facts == {"on", "off", "settled", "unsettled"}
IsSo(fact) ==
    standing \in CASE fact = "on"        -> {"canonical", "final"}
                   [] fact = "off"       -> {"orphaned", "lost"}
                   [] fact = "settled"   -> {"final", "lost"}
                   [] fact = "unsettled" -> {"canonical", "orphaned"}

Init ==
    /\ standing \in {"final", "canonical", "orphaned", "lost"}
    /\ holds \in BOOLEAN
    /\ learned = {}
    /\ said = "nothing"

\* A block leaves the best chain and comes back to it until its height is final;
\* it then is or is not on the chain for ever.
ChainMoves ==
    /\ \/ standing = "canonical" /\ standing' \in {"orphaned", "final"}
       \/ standing = "orphaned" /\ standing' \in {"canonical", "lost"}
    /\ UNCHANGED <<holds, learned, said>>

Learn ==
    /\ said = "nothing"
    /\ \E fact \in Facts : IsSo(fact) /\ learned' = learned \cup {fact}
    /\ UNCHANGED <<standing, holds, said>>

MaySay(verdict) ==
    \/ verdict = "failed"
    \/ verdict = "refuted" /\ (~holds \/ "off" \in learned)
    \/ verdict = "pending" /\ holds /\ {"on", "unsettled"} \subseteq learned
    \/ verdict = "final"   /\ holds /\ {"on", "settled"} \subseteq learned

Say ==
    /\ said = "nothing"
    /\ said' \in {"failed", "refuted", "pending", "final"} /\ MaySay(said')
    /\ learned' = {}
    /\ UNCHANGED <<standing, holds>>

Next == ChainMoves \/ Learn \/ Say

Spec == Init /\ [][Next]_vars
=============================================================================
