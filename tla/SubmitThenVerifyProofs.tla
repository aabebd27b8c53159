----------------------- MODULE SubmitThenVerifyProofs ------------------------
(***************************************************************************)
(* The helper and then the verifier against one node: what is proved of    *)
(* each of them alone is put together.                                     *)
(***************************************************************************)
EXTENDS SubmitThenVerify, BalanceSubmitProofs

V == INSTANCE VerifyOnChainProofs

-----------------------------------------------------------------------------
(* The helper's, the verifier's and the proofs' views of the chain and of   *)
(* the verifier are one.                                                    *)

LEMMA SameChains ==
    /\ V!Chains = Chains /\ V!BlockHashes = BlockHashes
    /\ \A h, c : V!IsOn(h, c) <=> IsOn(h, c)
    /\ \A h : V!BlockHoldsTx(h) <=> BlockHoldsTx(h)
    /\ V!ChainOK <=> ChainOK
<1>1. V!Chains = Chains
  BY DEF Chains, V!Chains, Header, V!Header, SeqOf, V!SeqOf
<1>2. \A h, c : V!IsOn(h, c) <=> IsOn(h, c)
  BY DEF IsOn, V!IsOn, IsPrefix, V!IsPrefix
<1>3. \A h : V!BlockHoldsTx(h) <=> BlockHoldsTx(h)
  BY DEF BlockHoldsTx, V!BlockHoldsTx
<1>. QED  BY <1>1, <1>2, <1>3 DEF BlockHashes, V!BlockHashes, ChainOK, V!ChainOK

LEMMA SameValues ==
    /\ Verifier!NoAnswer = V!NoAnswer /\ Verifier!NoVerdict = V!NoVerdict
    /\ Verifier!Null = V!Null /\ Verifier!RpcError = V!RpcError
    /\ Verifier!Calls = V!Calls
    /\ \A h : Verifier!Block(h) = V!Block(h) /\ Verifier!Height(h) = V!Height(h)
    /\ \A f : Verifier!Verified(f) = V!Verified(f)
    /\ \A w : Verifier!Refused(w) = V!Refused(w)
BY DEF Verifier!NoAnswer, V!NoAnswer, Verifier!NoVerdict, V!NoVerdict, Verifier!Null,
       V!Null, Verifier!RpcError, V!RpcError, Verifier!Calls, V!Calls, Verifier!Block,
       V!Block, Verifier!Height, V!Height, Verifier!Verified, V!Verified,
       Verifier!Refused, V!Refused

LEMMA SameSteps ==
    /\ Verifier!NodeAnswers => V!NodeAnswers
    /\ Verifier!VerifierStep => V!VerifierStep
<1>1. Verifier!NodeAnswers => V!NodeAnswers
  BY SameValues
     DEF Verifier!NodeAnswers, V!NodeAnswers, Verifier!KnowsBlock, V!KnowsBlock,
         Verifier!IsOn, V!IsOn, Verifier!IsPrefix, V!IsPrefix, Verifier!HashAt, V!HashAt
<1>2. /\ \A n : Verifier!Ask(n) <=> V!Ask(n)
      /\ \A v : Verifier!End(v) <=> V!End(v)
      /\ Verifier!Resolved <=> V!Resolved
      /\ \A h : Verifier!BlockHoldsTx(h) <=> V!BlockHoldsTx(h)
      /\ \A h : Verifier!Canonical(h) <=> V!Canonical(h)
      /\ \A n : Verifier!FinalizedDepth(n) = V!FinalizedDepth(n)
  BY SameValues
     DEF Verifier!Ask, V!Ask, Verifier!End, V!End, Verifier!Resolved, V!Resolved,
         Verifier!BlockHoldsTx, V!BlockHoldsTx, Verifier!Canonical, V!Canonical,
         Verifier!FinalizedDepth, V!FinalizedDepth
<1>3. Verifier!VerifierStep => V!VerifierStep
  BY SameValues, <1>2
     DEF Verifier!VerifierStep, V!VerifierStep, Verifier!Opened, V!Opened,
         Verifier!GotBlock, V!GotBlock, Verifier!GotBlockHash, V!GotBlockHash,
         Verifier!GotFinalizedHead, V!GotFinalizedHead, Verifier!GotHeader, V!GotHeader,
         Verifier!GotError, V!GotError, Verifier!SocketFails, V!SocketFails,
         Verifier!CallTimeout, V!CallTimeout
<1>. QED  BY <1>1, <1>3

-----------------------------------------------------------------------------
(* What the steps of one do to the other *)

\* A step of the helper or its node moves the chain as the verifier's node may.
LEMMA HelperMovesChain ==
    ASSUME Next, UNCHANGED verifierVars
    PROVE  [V!Next]_(V!vars)
<1>1. \/ UNCHANGED <<best, final>>
      \/ \E c \in Chains : Import(c)
      \/ \E n \in 1..MaxHeight : Finalize(n)
  <2>1. HelperStep \/ WsOpen => UNCHANGED <<best, final>>
    BY DEF HelperStep, DryRun, WalletStarted, WalletSynced, Balanced, WalletFails,
           ProveFails, Finalized, SdkResolves, SdkFails, WsMessage, WsFails, RawTimeout,
           WsOpen, nodeVars
  <2>2. SdkReachesNode \/ NodeAccepts \/ NodeRefuses \/ NodeDrops \/ NodeStopsWatching
           => UNCHANGED <<best, final>>
    BY DEF SdkReachesNode, NodeAccepts, NodeRefuses, NodeDrops, NodeStopsWatching, nodeVars
  <2>3. \A c \in Chains : NodeImports(c) => Import(c)
    BY DEF NodeImports
  <2>4. \A n \in 1..MaxHeight : NodeFinalizes(n) => Finalize(n)
    BY DEF NodeFinalizes
  <2>. QED  BY <2>1, <2>2, <2>3, <2>4 DEF Next, NodeStep
<1>2. UNCHANGED <<target, call, answer, finalizedHash, verdict>>
  BY DEF verifierVars
<1>3. CASE UNCHANGED <<best, final>>
  BY <1>2, <1>3 DEF V!vars
<1>4. ASSUME NEW c \in Chains, Import(c)
      PROVE  V!Import(c)
  BY <1>4, SameChains DEF Import, V!Import
<1>5. ASSUME NEW n \in 1..MaxHeight, Finalize(n)
      PROVE  V!Finalize(n)
  BY <1>5 DEF Finalize, V!Finalize
<1>. QED  BY <1>1, <1>2, <1>3, <1>4, <1>5, SameChains DEF V!Next, V!ChainStep

\* The verifier only reads: it leaves the helper, its node and the chain alone.
LEMMA VerifyingOnlyReads ==
    ASSUME Verifying
    PROVE  UNCHANGED vars
<1>1. V!VerifierStep \/ V!NodeAnswers
  BY SameSteps DEF Verifying
<1>2. UNCHANGED <<best, final>>
  BY <1>1 DEF V!VerifierStep, V!NodeAnswers, V!Opened, V!GotError, V!GotBlock,
              V!GotBlockHash, V!GotFinalizedHead, V!GotHeader, V!SocketFails,
              V!CallTimeout
<1>. QED  BY <1>2 DEF Verifying, vars, nodeVars

\* The helper that has reported does not change its report.
LEMMA ReportStands ==
    ASSUME IInv, Next, ending = Succeeded
    PROVE  ending' = ending /\ result' = result
<1>1. step = "done" /\ ws \notin {"connecting", "open"}
  BY Endings DEF IInv, StepOK
<1>2. HelperStep \/ WsOpen => FALSE
  BY <1>1 DEF HelperStep, DryRun, WalletStarted, WalletSynced, Balanced, WalletFails,
              ProveFails, Finalized, SdkResolves, SdkFails, WsMessage, WsFails,
              RawTimeout, WsOpen
<1>3. NodeStep => UNCHANGED helperVars
  BY DEF NodeStep, SdkReachesNode, NodeAccepts, NodeRefuses, NodeDrops,
         NodeStopsWatching, NodeImports, NodeFinalizes
<1>. QED  BY <1>2, <1>3 DEF Next, helperVars

-----------------------------------------------------------------------------
(* The invariant of the two runs *)

BeforeVerifier ==
    /\ call = "not started"
    /\ answer = Verifier!NoAnswer /\ finalizedHash = <<>> /\ verdict = Verifier!NoVerdict

\* From the start of the verifier on, its own invariant holds of the block the
\* helper reported, and a block reported as final is being confirmed.
OnReportedBlock ==
    /\ ending = Succeeded
    /\ V!IInv
    /\ result.inclusionStatus = "finalized" => V!Confirmed

PipelineIInv == IInv /\ (BeforeVerifier \/ OnReportedBlock)

LEMMA StartStep ==
    ASSUME PipelineIInv, StartVerifier
    PROVE  PipelineIInv'
<1>1. /\ call = "not started" /\ target' = result.blockHash /\ call' = "opened"
      /\ ending = Succeeded /\ result.blockHash # NoHash
      /\ UNCHANGED vars
      /\ answer' = answer /\ finalizedHash' = finalizedHash /\ verdict' = verdict
  BY DEF StartVerifier
<1>2. UNCHANGED <<ending, result, best, final>>
  BY <1>1 DEF vars, helperVars, nodeVars
<1>3. IInv'
  BY <1>1, NextIInv DEF PipelineIInv
<1>4. BeforeVerifier
  BY <1>1 DEF PipelineIInv, OnReportedBlock, V!IInv, V!Calls
<1>5. /\ target' \in BlockHashes /\ BlockHoldsTx(target')
      /\ result.inclusionStatus = "finalized" => IsOn(target', final)
  BY <1>1 DEF PipelineIInv, IInv, TypeOK, Results, ResultOK
<1>6. V!IInv'
  <2>1. ChainOK /\ final \in Chains /\ Len(final) \in Nat
    BY ChainFromTypes, ChainType DEF PipelineIInv, IInv, ChainOK
  <2>2. <<>> \in Chains
    BY ChainAssumption DEF Chains, SeqOf
  <2>3. V!ChainOK'
    BY <1>2, <2>1, SameChains DEF V!ChainOK
  <2>4. V!AnswerOK' /\ V!VerdictOK'
    BY <1>1, <1>4, SameValues DEF BeforeVerifier, V!AnswerOK, V!VerdictOK
  <2>5. verdict'.finalized = FALSE
    BY <1>1, <1>4 DEF BeforeVerifier, Verifier!NoVerdict
  <2>6. target' \in V!BlockHashes
    BY <1>5, SameChains
  <2>7. call' \in V!Calls \cup {"opened", "done"}
    BY <1>1
  <2>8. finalizedHash' = <<>> /\ final' = final
    BY <1>1, <1>2, <1>4 DEF BeforeVerifier
  <2>9. finalizedHash' \in V!Chains /\ Len(finalizedHash') <= Len(final')
    <3>1. finalizedHash' \in V!Chains
      BY <2>2, <2>8, SameChains
    <3>. QED  BY <2>1, <2>8, <3>1
  <2>. QED  BY <2>3, <2>4, <2>5, <2>6, <2>7, <2>9 DEF V!IInv
<1>7. (result.inclusionStatus = "finalized" => V!Confirmed)'
  <2>. SUFFICES ASSUME result'.inclusionStatus = "finalized"
                PROVE  V!Confirmed'
    OBVIOUS
  <2>1. IsOn(target', final') /\ BlockHoldsTx(target')
    BY <1>2, <1>5
  <2>2. V!IsOn(target', final') /\ V!BlockHoldsTx(target')
    BY <2>1, SameChains
  <2>3. V!FinalBlock'
    BY <2>2 DEF V!FinalBlock, V!BlockHoldsTx
  <2>. QED  BY <1>1, <2>3 DEF V!Confirmed
<1>8. OnReportedBlock'
  BY <1>1, <1>2, <1>6, <1>7 DEF OnReportedBlock
<1>. QED  BY <1>3, <1>8 DEF PipelineIInv

LEMMA VerifierFollows ==
    ASSUME PipelineIInv, OnReportedBlock, [V!Next]_(V!vars), UNCHANGED <<ending, result>>
    PROVE  OnReportedBlock'
<1>1. V!IInv'
  BY V!NextIInv, ChainAssumption DEF OnReportedBlock
<1>2. V!Confirmed => V!Confirmed'
  BY V!ConfirmedStays, ChainAssumption DEF OnReportedBlock
<1>. QED  BY <1>1, <1>2 DEF OnReportedBlock

LEMMA PipelineNextIInv ==
    ASSUME PipelineIInv, [PipelineNext]_allVars
    PROVE  PipelineIInv'
<1>1. CASE Submitting
  <2>1. IInv' /\ [V!Next]_(V!vars) /\ UNCHANGED verifierVars
    BY <1>1, NextIInv, HelperMovesChain DEF Submitting, PipelineIInv
  <2>2. CASE BeforeVerifier
    BY <2>1, <2>2 DEF PipelineIInv, BeforeVerifier, verifierVars, Verifier!NoAnswer,
                      Verifier!NoVerdict
  <2>3. CASE OnReportedBlock
    <3>1. UNCHANGED <<ending, result>>
      BY <1>1, <2>3, ReportStands DEF Submitting, PipelineIInv, OnReportedBlock
    <3>. QED  BY <2>1, <2>3, <3>1, VerifierFollows DEF PipelineIInv
  <2>. QED  BY <2>2, <2>3 DEF PipelineIInv
<1>2. CASE StartVerifier
  BY <1>2, StartStep
<1>3. CASE Verifying
  <2>1. V!VerifierStep \/ V!NodeAnswers
    BY <1>3, SameSteps DEF Verifying
  <2>2. UNCHANGED vars
    BY <1>3, VerifyingOnlyReads
  <2>3. IInv'
    BY <2>2, NextIInv DEF PipelineIInv
  <2>4. call # "not started"
    BY <2>1 DEF V!VerifierStep, V!NodeAnswers, V!Opened, V!GotError, V!GotBlock,
                V!GotBlockHash, V!GotFinalizedHead, V!GotHeader, V!SocketFails,
                V!CallTimeout, V!Calls
  <2>5. OnReportedBlock
    BY <2>4 DEF PipelineIInv, BeforeVerifier
  <2>6. [V!Next]_(V!vars) /\ UNCHANGED <<ending, result>>
    BY <2>1, <2>2 DEF V!Next, vars, helperVars
  <2>. QED  BY <2>3, <2>5, <2>6, VerifierFollows DEF PipelineIInv
<1>4. CASE UNCHANGED allVars
  <2>1. UNCHANGED vars /\ UNCHANGED verifierVars
    BY <1>4 DEF allVars
  <2>2. IInv'
    BY <2>1, NextIInv DEF PipelineIInv
  <2>3. UNCHANGED <<ending, result, best, final, target, call, answer, finalizedHash, verdict>>
    BY <2>1 DEF vars, helperVars, nodeVars, verifierVars
  <2>4. CASE BeforeVerifier
    BY <2>2, <2>3, <2>4 DEF PipelineIInv, BeforeVerifier, Verifier!NoAnswer,
                            Verifier!NoVerdict
  <2>5. CASE OnReportedBlock
    <3>1. [V!Next]_(V!vars)
      BY <2>3 DEF V!vars
    <3>. QED  BY <2>2, <2>3, <2>5, <3>1, VerifierFollows DEF PipelineIInv
  <2>. QED  BY <2>4, <2>5 DEF PipelineIInv
<1>. QED  BY <1>1, <1>2, <1>3, <1>4 DEF PipelineNext

\* The helper's guarantee about the block it reports is what the verifier needs
\* to confirm it.
THEOREM Pipeline_IInv == PipelineSpec => []PipelineIInv
<1>1. PipelineInit => PipelineIInv
  BY InitIInv DEF PipelineInit, PipelineIInv, BeforeVerifier
<1>. QED  BY <1>1, PipelineNextIInv, PTL DEF PipelineSpec

\* A block that the helper reports as finalized is verified with its finalized
\* flag set unless a call fails, for any forks, any height of the chain, any
\* configuration of the helper and any steps of the chain between the calls.
THEOREM Pipeline_FinalizedReportVerifies == PipelineSpec => []FinalizedReportVerifies
<1>1. PipelineIInv => FinalizedReportVerifies
  BY SameValues DEF PipelineIInv, BeforeVerifier, OnReportedBlock, V!Confirmed,
                    FinalizedReportVerifies, Verifier!CallFailures, V!CallFailures
<1>. QED  BY <1>1, Pipeline_IInv, PTL

-----------------------------------------------------------------------------
(* The helper within the pipeline *)

\* The pipeline is a run of the helper with a verifier that only looks on: what
\* is proved of the helper alone holds in it.
THEOREM Pipeline_RunsHelper == PipelineSpec => Spec
<1>1. PipelineInit => Init
  BY DEF PipelineInit
<1>2. [PipelineNext]_allVars => [Next]_vars
  BY VerifyingOnlyReads DEF PipelineNext, Submitting, StartVerifier, allVars
<1>. QED  BY <1>1, <1>2, PTL DEF PipelineSpec, Spec

\* In the pipeline too, nothing leaves a run of the helper that ended without
\* handing it out, and a success claims no more than the node and the chain
\* have done by then.
THEOREM Pipeline_ImplementsPromise == PipelineSpec => ImplementsPromise
BY Pipeline_RunsHelper, Promised, PTL


=============================================================================
