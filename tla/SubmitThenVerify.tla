-------------------------- MODULE SubmitThenVerify ---------------------------
(***************************************************************************)
(* The end of the e2e: the helper submits and reports a block, and the     *)
(* verifier is then run on that block against the same node, while the     *)
(* chain goes on.                                                          *)
(***************************************************************************)
EXTENDS BalanceSubmit

VARIABLES target, call, answer, finalizedHash, verdict

Verifier == INSTANCE VerifyOnChain

verifierVars == <<target, call, answer, finalizedHash, verdict>>
allVars == <<vars, verifierVars>>

PipelineInit ==
    /\ Init
    /\ target = NoHash
    /\ call = "not started"
    /\ answer = Verifier!NoAnswer
    /\ finalizedHash = <<>>
    /\ verdict = Verifier!NoVerdict

\* The e2e (external) hands the reported block on.
StartVerifier ==
    /\ call = "not started"
    /\ ending = Succeeded /\ result.blockHash # NoHash
    /\ target' = result.blockHash
    /\ call' = "opened"
    /\ UNCHANGED <<vars, answer, finalizedHash, verdict>>

Submitting == Next /\ UNCHANGED verifierVars

Verifying ==
    /\ Verifier!VerifierStep \/ Verifier!NodeAnswers
    /\ UNCHANGED <<helperVars, sdk, socketVars, pool, watched>>

PipelineNext == Submitting \/ StartVerifier \/ Verifying

PipelineSpec == PipelineInit /\ [][PipelineNext]_allVars

-----------------------------------------------------------------------------
\* The independent witness agrees with the helper: a block reported as
\* finalized is verified, with its finalized flag set, unless a call
\* fails, whatever the chain does between the two runs.
FinalizedReportVerifies ==
    call = "done" /\ result.inclusionStatus = "finalized" =>
        \/ verdict = Verifier!Verified(TRUE)
        \/ verdict.why \in Verifier!CallFailures

=============================================================================
