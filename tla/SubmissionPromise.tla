------------------------- MODULE SubmissionPromise --------------------------
(***************************************************************************)
(* What a run that submits one transaction promises its caller, whatever   *)
(* path the transaction takes to the node: how far the transaction has     *)
(* come, and what the run has claimed of it when it ended.                 *)
(* BalanceSubmit implements this module (its ImplementsPromise).           *)
(***************************************************************************)

VARIABLES
    tx,         \* private, out of the run's hands, taken by the node, or final
    claim       \* what the run has said when it ended

vars == <<tx, claim>>

Init == tx = "private" /\ claim = "running"

\* The run hands the transaction out while it goes on, and at no other time.
HandOut ==
    /\ tx = "private" /\ claim = "running"
    /\ tx' = "out"
    /\ UNCHANGED claim

\* What is out may be taken, and may become final, also after the run ended.
Take     == tx = "out" /\ tx' = "taken" /\ UNCHANGED claim
BeFinal  == tx = "taken" /\ tx' = "final" /\ UNCHANGED claim

\* A run that was to keep the transaction says so; one that was to submit it
\* claims no more than is so; and one that fails claims nothing.
Claims(said) ==
    \/ said = "kept" /\ tx = "private"
    \/ said = "submitted" /\ tx \in {"taken", "final"}
    \/ said = "finalized" /\ tx = "final"
    \/ said = "failed"

End ==
    /\ claim = "running"
    /\ \E said \in {"kept", "submitted", "finalized", "failed"} :
          Claims(said) /\ claim' = said
    /\ UNCHANGED tx

Next == HandOut \/ Take \/ BeFinal \/ End

Spec == Init /\ [][Next]_vars
=============================================================================
