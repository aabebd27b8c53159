------------------------- MODULE VerifyOnChainProofs --------------------------
(***************************************************************************)
(* The verifier's verdict, for chains of any height.  Its four answers are *)
(* from four moments; what ties them together is that the finalized head   *)
(* it asked for never gets lower.                                          *)
(***************************************************************************)
EXTENDS VerifyOnChain, NodeChainProofs

-----------------------------------------------------------------------------
(* Answers and verdicts are told apart by their fields. *)

LEMMA Answers ==
    /\ NoAnswer.answer = "none" /\ Null.answer = "null" /\ RpcError.answer = "error"
    /\ \A h : Block(h).answer = "block" /\ Block(h).of = h
    /\ \A n : Height(n).answer = "height" /\ Height(n).of = n
BY DEF NoAnswer, Null, RpcError, Block, Height

LEMMA Verdicts ==
    /\ NoVerdict.verified = FALSE /\ NoVerdict.finalized = FALSE /\ NoVerdict.why = "none"
    /\ \A f : Verified(f).verified = TRUE /\ Verified(f).finalized = f
              /\ Verified(f).why = "none"
    /\ \A w : Refused(w).verified = FALSE /\ Refused(w).finalized = FALSE
              /\ Refused(w).why = w
BY DEF NoVerdict, Verified, Refused

-----------------------------------------------------------------------------
(* The inductive invariant *)

Blocks == {Block(c) : c \in Chains}

\* What the node may have answered to the call under way.
AnswerOK ==
    \/ answer = NoAnswer
    \/ call \in Calls /\ answer = RpcError
    \/ call = "chain_getBlock" /\ answer \in {Null, Block(target)}
    \/ call = "chain_getBlockHash" /\ answer \in {Null} \cup Blocks
    \/ call = "chain_getFinalizedHead" /\ answer \in Blocks /\ Len(answer.of) <= Len(final)
    \/ call = "chain_getHeader" /\ answer \in {Null, Height(Len(finalizedHash))}

VerdictOK ==
    IF call = "done"
    THEN verdict \in {Verified(f) : f \in BOOLEAN} \cup {Refused(why) : why \in Refusals}
    ELSE verdict = NoVerdict

IInv ==
    /\ target \in BlockHashes
    /\ call \in Calls \cup {"opened", "done"}
    /\ ChainOK
    /\ finalizedHash \in Chains /\ Len(finalizedHash) <= Len(final)
    /\ AnswerOK /\ VerdictOK
    /\ verdict.finalized => Len(target) <= Len(final)

LEMMA IInvInit == Init => IInv
<1>. SUFFICES ASSUME Init
              PROVE  IInv
  OBVIOUS
<1>1. /\ target \in BlockHashes /\ call = "opened" /\ answer = NoAnswer
      /\ finalizedHash = <<>> /\ verdict = NoVerdict /\ best \in Chains
  BY DEF Init, StartsAt
<1>2. PICK n \in 0..Len(best) : final = SubSeq(best, 1, n)
  BY DEF Init
<1>3. n \in Nat /\ n <= Len(best)
  BY <1>1, <1>2, ChainType, SMT
<1>4. ChainOK /\ Len(final) \in Nat
  BY <1>1, <1>2, <1>3, Cut, CutIsOn DEF ChainOK
<1>5. finalizedHash \in Chains /\ Len(finalizedHash) <= Len(final)
  <2>1. SubSeq(best, 1, 0) = <<>>
    BY SubSeqEmpty, SMT
  <2>2. 0 \in Nat /\ 0 <= Len(best)
    BY <1>1, ChainType, SMT
  <2>3. SubSeq(best, 1, 0) \in Chains /\ Len(SubSeq(best, 1, 0)) = 0
    BY <1>1, <2>2, Cut
  <2>4. finalizedHash \in Chains /\ Len(finalizedHash) = 0
    BY <1>1, <2>1, <2>3
  <2>. QED  BY <1>4, <2>4, SMT
<1>. QED  BY <1>1, <1>4, <1>5, Verdicts DEF IInv, AnswerOK, VerdictOK

-----------------------------------------------------------------------------
(* The steps *)

LEMMA NodeAnswersKeepsIInv ==
    ASSUME IInv, NodeAnswers
    PROVE  IInv'
<1>1. UNCHANGED <<target, call, finalizedHash, verdict, best, final>>
  BY DEF NodeAnswers
<1>2. target \in BlockHashes /\ target \in Chains /\ Len(target) \in Nat
      /\ best \in Chains /\ final \in Chains /\ Len(best) \in Nat /\ Len(final) \in Nat
  BY ChainType DEF IInv, BlockHashes, ChainOK
<1>3. AnswerOK'
  <2>1. CASE call = "chain_getBlock" /\ answer' \in {Null, Block(target)}
    BY <1>1, <2>1 DEF AnswerOK
  <2>2. CASE call = "chain_getBlockHash" /\ answer' = HashAt(Len(target))
    <3>1. HashAt(Len(target)) \in {Null} \cup Blocks
      BY <1>2, Cut DEF HashAt, Blocks
    <3>. QED  BY <1>1, <2>2, <3>1 DEF AnswerOK
  <2>3. CASE call = "chain_getFinalizedHead" /\ answer' = Block(final)
    <3>1. Block(final) \in Blocks /\ Len(Block(final).of) <= Len(final)
      BY <1>2, Answers, SMT DEF Blocks
    <3>. QED  BY <1>1, <2>3, <3>1 DEF AnswerOK
  <2>4. CASE call = "chain_getHeader" /\ answer' \in {Null, Height(Len(finalizedHash))}
    BY <1>1, <2>4 DEF AnswerOK
  <2>5. CASE call \in Calls /\ answer' = RpcError
    BY <1>1, <2>5 DEF AnswerOK
  <2>. QED  BY <2>1, <2>2, <2>3, <2>4, <2>5 DEF NodeAnswers
<1>. QED  BY <1>1, <1>3 DEF IInv, VerdictOK, ChainOK

\* The verifier stops with a verdict that keeps what the finalized flag says.
LEMMA EndKeepsIInv ==
    ASSUME IInv, UNCHANGED <<target, finalizedHash, best, final>>,
           NEW v, End(v),
           v \in {Verified(f) : f \in BOOLEAN} \cup {Refused(why) : why \in Refusals},
           v.finalized => Len(target) <= Len(final)
    PROVE  IInv'
BY DEF IInv, End, AnswerOK, VerdictOK, ChainOK

\* It goes on to another call.
LEMMA AskKeepsIInv ==
    ASSUME IInv, UNCHANGED <<target, verdict, best, final>>, call # "done",
           NEW next \in Calls, Ask(next),
           finalizedHash' \in Chains, Len(finalizedHash') <= Len(final)
    PROVE  IInv'
BY DEF IInv, Ask, AnswerOK, VerdictOK, ChainOK, Calls

LEMMA VerifierKeepsIInv ==
    ASSUME IInv, VerifierStep
    PROVE  IInv'
<1>1. \A why \in Refusals :
         /\ Refused(why) \in {Verified(f) : f \in BOOLEAN} \cup {Refused(w) : w \in Refusals}
         /\ Refused(why).finalized = FALSE
  BY Verdicts
<1>2. finalizedHash \in Chains /\ Len(finalizedHash) <= Len(final)
  BY DEF IInv
<1>3. CASE Opened
  BY <1>2, <1>3, AskKeepsIInv DEF Opened, Calls
<1>4. CASE GotError
  BY <1>1, <1>4, EndKeepsIInv DEF GotError, Refusals, CallFailures
<1>5. CASE GotBlock
  <2>1. CASE End(Refused("no block")) \/ End(Refused("not found"))
    BY <1>1, <1>5, <2>1, EndKeepsIInv DEF GotBlock, Refusals
  <2>2. CASE Ask("chain_getBlockHash") /\ UNCHANGED verdict
    BY <1>2, <1>5, <2>2, AskKeepsIInv DEF GotBlock, Calls
  <2>. QED  BY <1>5, <2>1, <2>2 DEF GotBlock
<1>6. CASE GotBlockHash
  <2>1. CASE End(Refused("not canonical"))
    BY <1>1, <1>6, <2>1, EndKeepsIInv DEF GotBlockHash, Refusals
  <2>2. CASE Ask("chain_getFinalizedHead") /\ UNCHANGED verdict
    BY <1>2, <1>6, <2>2, AskKeepsIInv DEF GotBlockHash, Calls
  <2>. QED  BY <1>6, <2>1, <2>2 DEF GotBlockHash
<1>7. CASE GotFinalizedHead
  <2>1. answer \in Blocks /\ Len(answer.of) <= Len(final)
    BY <1>7 DEF IInv, AnswerOK, GotFinalizedHead, Resolved
  <2>2. answer.of \in Chains
    BY <2>1, Answers DEF Blocks
  <2>. QED  BY <1>7, <2>1, <2>2, AskKeepsIInv DEF GotFinalizedHead, Calls
<1>8. CASE GotHeader
  <2>1. CASE answer = Null
    <3>1. End(Refused("no header"))
      BY <1>8, <2>1 DEF GotHeader
    <3>. QED  BY <1>1, <1>8, <3>1, EndKeepsIInv DEF GotHeader, Refusals, CallFailures
  <2>2. CASE answer # Null
    <3>1. answer = Height(Len(finalizedHash))
      BY <1>8, <2>2 DEF IInv, AnswerOK, GotHeader, Resolved
    <3>2. answer.of = Len(finalizedHash)
      BY <3>1, Answers
    <3>. DEFINE f == FinalizedDepth(answer.of) >= 0
    <3>3. f \in BOOLEAN
      OBVIOUS
    <3>4. f => Len(target) <= Len(final)
      <4>1. Len(finalizedHash) \in Nat /\ Len(target) \in Nat /\ Len(final) \in Nat
        BY ChainType DEF IInv, ChainOK, BlockHashes
      <4>. QED  BY <1>2, <3>2, <4>1, SMT DEF FinalizedDepth
    <3>5. End(Verified(f)) /\ UNCHANGED <<target, finalizedHash, best, final>>
      BY <1>8, <2>2 DEF GotHeader
    <3>. HIDE DEF f
    <3>6. /\ Verified(f) \in {Verified(g) : g \in BOOLEAN} \cup {Refused(w) : w \in Refusals}
          /\ Verified(f).finalized = f
      BY <3>3, Verdicts
    <3>. QED  BY <3>4, <3>5, <3>6, EndKeepsIInv
  <2>. QED  BY <2>1, <2>2
<1>9. CASE SocketFails
  BY <1>1, <1>9, EndKeepsIInv DEF SocketFails, Refusals, CallFailures
<1>10. CASE CallTimeout
  BY <1>1, <1>10, EndKeepsIInv DEF CallTimeout, Refusals, CallFailures
<1>. QED
  BY <1>3, <1>4, <1>5, <1>6, <1>7, <1>8, <1>9, <1>10 DEF VerifierStep

\* The chain goes on: heights once final stay so.
LEMMA ChainStepKeepsIInv ==
    ASSUME IInv, ChainStep
    PROVE  IInv'
<1>1. UNCHANGED <<target, call, answer, finalizedHash, verdict>>
  BY DEF ChainStep
<1>2. ChainOK' /\ Len(final) <= Len(final')
  <2>1. CASE \E c \in Chains : Import(c)
    <3>1. ChainOK' /\ final' = final
      BY <2>1, ImportKeepsChain DEF IInv
    <3>2. Len(final) \in Nat
      BY ChainType DEF IInv, ChainOK
    <3>. QED  BY <3>1, <3>2, SMT
  <2>2. CASE \E n \in 1..MaxHeight : Finalize(n)
    BY <2>2, FinalizeKeepsChain DEF IInv
  <2>. QED  BY <2>1, <2>2 DEF ChainStep
<1>3. /\ Len(final) \in Nat /\ Len(final') \in Nat
      /\ Len(target) \in Nat /\ Len(finalizedHash) \in Nat
      /\ \A b \in Blocks : Len(b.of) \in Nat
  BY <1>2, ChainType, Answers DEF IInv, ChainOK, BlockHashes, Blocks
<1>4. \A n \in Nat : n <= Len(final) => n <= Len(final')
  BY <1>2, <1>3, SMT
<1>5. AnswerOK'
  BY <1>1, <1>3, <1>4 DEF IInv, AnswerOK
<1>. QED  BY <1>1, <1>2, <1>3, <1>4, <1>5 DEF IInv, VerdictOK

LEMMA NextIInv ==
    ASSUME IInv, [Next]_vars
    PROVE  IInv'
<1>1. UNCHANGED vars => IInv'
  BY DEF vars, IInv, AnswerOK, VerdictOK, ChainOK, Blocks
<1>. QED  BY <1>1, NodeAnswersKeepsIInv, VerifierKeepsIInv, ChainStepKeepsIInv DEF Next

\* The invariant is inductive.
THEOREM Spec_IInv == Spec => []IInv
BY IInvInit, NextIInv, PTL DEF Spec

-----------------------------------------------------------------------------
(* Types and the finalized flag *)

LEMMA IInvTypeOK == IInv => TypeOK
<1>. SUFFICES ASSUME IInv
              PROVE  TypeOK
  OBVIOUS
<1>1. \A v \in {Verified(f) : f \in BOOLEAN} \cup {Refused(why) : why \in Refusals} :
         v # NoVerdict
  BY Verdicts DEF Refusals, CallFailures
<1>2. call = "done" <=> verdict # NoVerdict
  BY <1>1 DEF IInv, VerdictOK
<1>3. Len(finalizedHash) \in 0..MaxHeight
  BY ChainType, ChainAssumption, SMT DEF IInv
<1>4. target \in Chains
  BY DEF IInv, BlockHashes
<1>5. answer \in {NoAnswer, Null, RpcError} \cup {Block(c) : c \in Chains}
                    \cup {Height(n) : n \in 0..MaxHeight}
  BY <1>3, <1>4 DEF IInv, AnswerOK, Blocks
<1>. QED  BY <1>2, <1>5 DEF IInv, VerdictOK, TypeOK

LEMMA IInvFlag == IInv => FinalizedFlagIsRight
<1>. SUFFICES ASSUME IInv, verdict.finalized, IsOn(target, best)
              PROVE  IsOn(target, final)
  BY DEF FinalizedFlagIsRight
<1>1. target \in Chains /\ Len(target) <= Len(final)
  BY DEF IInv, BlockHashes
<1>. QED  BY <1>1, OnSameChain DEF IInv, ChainOK

\* The state keeps its types for chains of any height.
THEOREM Spec_TypeOK == Spec => []TypeOK
BY Spec_IInv, IInvTypeOK, PTL

\* A block that is still canonical and was reported as final is final, for any
\* forks and any height.
THEOREM Spec_FinalizedFlagIsRight == Spec => []FinalizedFlagIsRight
BY Spec_IInv, IInvFlag, PTL

-----------------------------------------------------------------------------
(* A block that never is on the best chain, or does not hold the transaction *)

Orphan == ~IsOn(target, best) \/ ~BlockHoldsTx(target)

\* The verifier never gets past the answer to chain_getBlockHash.
Stuck ==
    /\ ~verdict.verified
    /\ call \notin {"chain_getFinalizedHead", "chain_getHeader"}
    /\ call = "chain_getBlockHash" => BlockHoldsTx(target) /\ answer # Block(target)

LEMMA StuckStays ==
    ASSUME IInv, Orphan, Stuck, [Next]_vars
    PROVE  Stuck'
<1>1. target' = target
  BY DEF vars, Next, VerifierStep, NodeAnswers, ChainStep, Opened, GotError, GotBlock,
         GotBlockHash, GotFinalizedHead, GotHeader, SocketFails, CallTimeout
<1>2. BlockHoldsTx(target)' <=> BlockHoldsTx(target)
  BY <1>1 DEF BlockHoldsTx
<1>3. \A why \in Refusals : End(Refused(why)) => Stuck'
  BY Verdicts DEF End, Stuck
<1>4. NoAnswer # Block(target) /\ Null # Block(target)
  BY Answers
<1>5. CASE UNCHANGED vars
  BY <1>5 DEF vars, Stuck, BlockHoldsTx
<1>6. CASE ChainStep
  BY <1>2, <1>6 DEF ChainStep, Stuck
<1>7. CASE NodeAnswers
  <2>1. call' = call /\ verdict' = verdict
    BY <1>7 DEF NodeAnswers
  <2>2. call = "chain_getBlockHash" => answer' # Block(target)
    <3>. SUFFICES ASSUME call = "chain_getBlockHash"
                  PROVE  answer' # Block(target)
      OBVIOUS
    <3>1. ~IsOn(target, best)
      BY DEF Orphan, Stuck
    <3>2. target \in Chains /\ best \in Chains /\ Len(target) \in Nat
      BY ChainType DEF IInv, BlockHashes, ChainOK
    <3>3. CASE answer' = HashAt(Len(target))
      <4>1. CASE Len(target) <= Len(best)
        <5>1. answer' = Block(SubSeq(best, 1, Len(target)))
          BY <3>3, <4>1 DEF HashAt
        <5>2. SubSeq(best, 1, Len(target)) # target
          BY <3>1, <3>2, <4>1, CutIsOn
        <5>3. answer'.of = SubSeq(best, 1, Len(target))
          BY <5>1, Answers DEF Block
        <5>4. Block(target).of = target
          BY DEF Block
        <5>. QED  BY <5>2, <5>3, <5>4
      <4>2. CASE ~(Len(target) <= Len(best))
        BY <1>4, <3>3, <4>2 DEF HashAt
      <4>. QED  BY <4>1, <4>2
    <3>4. CASE answer' = RpcError
      BY <3>4, Answers
    <3>. QED  BY <1>7, <3>3, <3>4 DEF NodeAnswers
  <2>. QED  BY <1>1, <1>2, <2>1, <2>2 DEF Stuck
<1>8. CASE VerifierStep
  <2>1. CASE Opened
    BY <2>1 DEF Opened, Ask, Stuck
  <2>2. CASE GotError \/ SocketFails \/ CallTimeout
    BY <1>3, <2>2 DEF GotError, SocketFails, CallTimeout, Refusals, CallFailures
  <2>3. CASE GotBlock
    <3>1. CASE End(Refused("no block")) \/ End(Refused("not found"))
      BY <1>3, <3>1 DEF Refusals
    <3>2. CASE /\ answer # Null /\ BlockHoldsTx(answer.of)
               /\ Ask("chain_getBlockHash") /\ UNCHANGED verdict
      <4>1. answer = Block(target)
        BY <2>3, <3>2 DEF IInv, AnswerOK, GotBlock, Resolved
      <4>2. BlockHoldsTx(target)
        BY <3>2, <4>1, Answers
      <4>. QED  BY <1>1, <1>2, <1>4, <3>2, <4>2 DEF Ask, Stuck
    <3>. QED  BY <2>3, <3>1, <3>2 DEF GotBlock
  <2>4. CASE GotBlockHash
    <3>1. ~Canonical(answer)
      BY <2>4 DEF GotBlockHash, Stuck, Canonical
    <3>2. End(Refused("not canonical"))
      BY <2>4, <3>1 DEF GotBlockHash
    <3>. QED  BY <1>3, <3>2 DEF Refusals
  <2>5. CASE GotFinalizedHead \/ GotHeader
    BY <2>5 DEF GotFinalizedHead, GotHeader, Stuck
  <2>. QED  BY <1>8, <2>1, <2>2, <2>3, <2>4, <2>5 DEF VerifierStep
<1>. QED  BY <1>5, <1>6, <1>7, <1>8 DEF Next

\* For any chains: what is on the best chain at no time during the run, or does
\* not hold the transaction, is not verified.
THEOREM Spec_OrphanNeverVerified == Spec => OrphanNeverVerified
<1>1. Init => Stuck
  BY Verdicts DEF Init, StartsAt, Stuck
<1>2. IInv /\ Orphan /\ Stuck /\ [Next]_vars => Stuck'
  BY StuckStays
<1>3. Stuck => ~verdict.verified
  BY DEF Stuck
<1>4. Orphan <=> ~IsOn(target, best) \/ ~BlockHoldsTx(target)
  BY DEF Orphan
<1>. QED  BY Spec_IInv, <1>1, <1>2, <1>3, <1>4, PTL DEF Spec, OrphanNeverVerified

-----------------------------------------------------------------------------
(* A block that is final *)

FinalBlock == IsOn(target, final) /\ BlockHoldsTx(target)

\* Each answer confirms it, or fails.
Confirmed ==
    /\ FinalBlock
    /\ call = "chain_getBlock" => answer \in {NoAnswer, RpcError, Block(target)}
    /\ call = "chain_getBlockHash" => answer \in {NoAnswer, RpcError, Block(target)}
    /\ call = "chain_getFinalizedHead" /\ answer \in Blocks => Len(target) <= Len(answer.of)
    /\ call = "chain_getHeader" => Len(target) <= Len(finalizedHash)
    /\ call = "done" => \/ verdict = Verified(TRUE)
                        \/ verdict.why \in CallFailures

LEMMA ConfirmedStays ==
    ASSUME IInv, Confirmed, [Next]_vars
    PROVE  Confirmed'
<1>1. target' = target
  BY DEF vars, Next, VerifierStep, NodeAnswers, ChainStep, Opened, GotError, GotBlock,
         GotBlockHash, GotFinalizedHead, GotHeader, SocketFails, CallTimeout
<1>2. /\ target \in Chains /\ Len(target) \in Nat
      /\ final \in Chains /\ Len(final) \in Nat /\ best \in Chains
      /\ IsOn(target, final) /\ BlockHoldsTx(target) /\ Len(target) <= Len(final)
      /\ IsOn(target, best)
  BY ChainType, OnChain, FinalIsBest DEF IInv, BlockHashes, ChainOK, Confirmed, FinalBlock
<1>3. ASSUME UNCHANGED final
      PROVE  FinalBlock'
  BY <1>1, <1>3 DEF Confirmed, FinalBlock, BlockHoldsTx
<1>4. \A why \in CallFailures : UNCHANGED final /\ End(Refused(why)) => Confirmed'
  BY <1>3, Verdicts DEF End, Confirmed
<1>5. CASE UNCHANGED vars
  BY <1>5 DEF vars, Confirmed, FinalBlock, BlockHoldsTx, Blocks
<1>6. CASE ChainStep
  <2>1. UNCHANGED <<target, call, answer, finalizedHash, verdict>>
    BY <1>6 DEF ChainStep
  <2>2. IsOn(target, final')
    <3>1. CASE \E c \in Chains : Import(c)
      BY <1>2, <3>1 DEF Import
    <3>2. CASE \E n \in 1..MaxHeight : Finalize(n)
      BY <1>2, <3>2, FinalStays DEF IInv
    <3>. QED  BY <1>6, <3>1, <3>2 DEF ChainStep
  <2>3. FinalBlock'
    BY <1>2, <2>1, <2>2 DEF FinalBlock, BlockHoldsTx
  <2>. QED  BY <2>1, <2>3 DEF Confirmed, Blocks
<1>7. CASE NodeAnswers
  <2>1. UNCHANGED <<call, finalizedHash, verdict, best, final>>
    BY <1>7 DEF NodeAnswers
  <2>2. HashAt(Len(target)) = Block(target)
    <3>1. Len(target) <= Len(best) /\ target = SubSeq(best, 1, Len(target))
      BY <1>2, OnChain
    <3>. QED  BY <3>1 DEF HashAt
  <2>3. call = "chain_getBlock" => answer' \in {NoAnswer, RpcError, Block(target)}
    BY <1>2, <1>7 DEF NodeAnswers
  <2>4. call = "chain_getBlockHash" => answer' \in {NoAnswer, RpcError, Block(target)}
    BY <1>7, <2>2 DEF NodeAnswers
  <2>5. call = "chain_getFinalizedHead" /\ answer' \in Blocks => Len(target) <= Len(answer'.of)
    <3>1. RpcError \notin Blocks
      BY Answers DEF Blocks
    <3>2. Block(final).of = final
      BY Answers
    <3>. QED  BY <1>2, <1>7, <3>1, <3>2 DEF NodeAnswers
  <2>6. Blocks' = Blocks
    BY DEF Blocks
  <2>. QED  BY <1>1, <1>3, <2>1, <2>3, <2>4, <2>5, <2>6 DEF Confirmed
<1>8. CASE VerifierStep
  <2>0. UNCHANGED final
    BY <1>8 DEF VerifierStep, Opened, GotError, GotBlock, GotBlockHash,
                GotFinalizedHead, GotHeader, SocketFails, CallTimeout
  <2>1. CASE Opened
    BY <1>3, <2>0, <2>1 DEF Opened, Ask, Confirmed
  <2>2. CASE GotError \/ SocketFails \/ CallTimeout
    BY <1>4, <2>0, <2>2 DEF GotError, SocketFails, CallTimeout, CallFailures
  <2>3. CASE GotBlock
    <3>1. answer = Block(target) /\ answer # Null
      BY <2>3, Answers DEF GotBlock, Resolved, Confirmed
    <3>2. BlockHoldsTx(answer.of)
      BY <1>2, <3>1, Answers
    <3>3. Ask("chain_getBlockHash")
      BY <2>3, <3>1, <3>2 DEF GotBlock
    <3>. QED  BY <1>3, <2>0, <3>3 DEF Ask, Confirmed
  <2>4. CASE GotBlockHash
    <3>1. answer = Block(target)
      BY <2>4 DEF GotBlockHash, Resolved, Confirmed
    <3>2. Ask("chain_getFinalizedHead")
      BY <2>4, <3>1 DEF GotBlockHash, Canonical
    <3>3. NoAnswer \notin Blocks
      BY Answers DEF Blocks
    <3>4. NoAnswer' = NoAnswer /\ Blocks' = Blocks
      BY DEF NoAnswer, Blocks
    <3>. QED  BY <1>3, <2>0, <3>2, <3>3, <3>4 DEF Ask, Confirmed
  <2>5. CASE GotFinalizedHead
    <3>1. answer \in Blocks
      BY <2>5 DEF IInv, AnswerOK, GotFinalizedHead, Resolved
    <3>2. finalizedHash' = answer.of /\ Ask("chain_getHeader")
      BY <2>5 DEF GotFinalizedHead
    <3>3. Len(target) <= Len(finalizedHash')
      BY <2>5, <3>1, <3>2 DEF GotFinalizedHead, Confirmed
    <3>. QED  BY <1>1, <1>3, <2>0, <3>2, <3>3 DEF Ask, Confirmed
  <2>6. CASE GotHeader
    <3>1. CASE answer = Null
      BY <1>4, <2>0, <2>6, <3>1 DEF GotHeader, CallFailures
    <3>2. CASE answer # Null
      <4>1. answer.of = Len(finalizedHash)
        BY <2>6, <3>2, Answers DEF IInv, AnswerOK, GotHeader, Resolved
      <4>2. Len(finalizedHash) \in Nat /\ Len(target) <= Len(finalizedHash)
        BY <2>6, ChainType DEF IInv, GotHeader, Confirmed
      <4>3. (FinalizedDepth(answer.of) >= 0) = TRUE
        BY <1>2, <4>1, <4>2, SMT DEF FinalizedDepth
      <4>4. End(Verified(TRUE))
        BY <2>6, <3>2, <4>3 DEF GotHeader
      <4>. QED  BY <1>3, <2>0, <4>4 DEF End, Confirmed
    <3>. QED  BY <3>1, <3>2
  <2>. QED  BY <1>8, <2>1, <2>2, <2>3, <2>4, <2>5, <2>6 DEF VerifierStep
<1>. QED  BY <1>5, <1>6, <1>7, <1>8 DEF Next

\* For any chains: a block that was final when the run began is verified as
\* final unless a call fails.
THEOREM Spec_FinalBlockIsVerified == Spec => FinalBlockIsVerified
<1>1. Init /\ FinalBlock => Confirmed
  BY DEF Init, StartsAt, Confirmed
<1>2. IInv /\ Confirmed /\ [Next]_vars => Confirmed'
  BY ConfirmedStays
<1>3. Confirmed => (call = "done" => \/ verdict = Verified(TRUE)
                                     \/ verdict.why \in CallFailures)
  BY DEF Confirmed
<1>4. FinalBlock <=> IsOn(target, final) /\ BlockHoldsTx(target)
  BY DEF FinalBlock
<1>. QED  BY Spec_IInv, <1>1, <1>2, <1>3, <1>4, PTL DEF Spec, FinalBlockIsVerified

-----------------------------------------------------------------------------
(* A block that stays on the best chain *)

\* No answer speaks against it.
Unrefuted ==
    /\ BlockHoldsTx(target)
    /\ call \in {"chain_getBlock", "chain_getBlockHash"} =>
          answer \in {NoAnswer, RpcError, Block(target)}
    /\ call = "done" => \/ verdict.verified
                        \/ verdict.why \in CallFailures

LEMMA UnrefutedStays ==
    ASSUME IInv, IsOn(target, best), Unrefuted, [Next]_vars
    PROVE  Unrefuted'
<1>1. target' = target
  BY DEF vars, Next, VerifierStep, NodeAnswers, ChainStep, Opened, GotError, GotBlock,
         GotBlockHash, GotFinalizedHead, GotHeader, SocketFails, CallTimeout
<1>2. BlockHoldsTx(target) /\ BlockHoldsTx(target)'
  BY <1>1 DEF Unrefuted, BlockHoldsTx
<1>3. /\ \A why \in CallFailures : End(Refused(why)) => Unrefuted'
      /\ \A fin : End(Verified(fin)) => Unrefuted'
  BY <1>2, Verdicts DEF End, Unrefuted
<1>4. \A next \in Calls : Ask(next) => Unrefuted'
  BY <1>2 DEF Ask, Unrefuted, Calls
<1>5. CASE UNCHANGED <<call, answer, verdict>>
  BY <1>1, <1>2, <1>5 DEF Unrefuted
<1>6. CASE NodeAnswers
  <2>1. HashAt(Len(target)) = Block(target)
    <3>1. target \in Chains /\ best \in Chains
      BY DEF IInv, BlockHashes, ChainOK
    <3>2. Len(target) <= Len(best) /\ target = SubSeq(best, 1, Len(target))
      BY <3>1, OnChain
    <3>. QED  BY <3>2 DEF HashAt
  <2>2. call' = call /\ verdict' = verdict
    BY <1>6 DEF NodeAnswers
  <2>3. call \in {"chain_getBlock", "chain_getBlockHash"} =>
           answer' \in {NoAnswer, RpcError, Block(target)}
    BY <1>6, <2>1 DEF NodeAnswers
  <2>. QED  BY <1>1, <1>2, <2>2, <2>3 DEF Unrefuted
<1>7. CASE VerifierStep
  <2>1. CASE Opened
    BY <1>4, <2>1 DEF Opened, Calls
  <2>2. CASE GotError \/ SocketFails \/ CallTimeout
    BY <1>3, <2>2 DEF GotError, SocketFails, CallTimeout, CallFailures
  <2>3. CASE GotBlock
    <3>1. answer = Block(target) /\ answer # Null
      BY <2>3, Answers DEF GotBlock, Resolved, Unrefuted
    <3>2. BlockHoldsTx(answer.of)
      BY <1>2, <3>1, Answers
    <3>3. Ask("chain_getBlockHash")
      BY <2>3, <3>1, <3>2 DEF GotBlock
    <3>. QED  BY <1>4, <3>3 DEF Calls
  <2>4. CASE GotBlockHash
    <3>1. answer = Block(target)
      BY <2>4 DEF GotBlockHash, Resolved, Unrefuted
    <3>2. Ask("chain_getFinalizedHead")
      BY <2>4, <3>1 DEF GotBlockHash, Canonical
    <3>. QED  BY <1>4, <3>2 DEF Calls
  <2>5. CASE GotFinalizedHead
    BY <1>4, <2>5 DEF GotFinalizedHead, Calls
  <2>6. CASE GotHeader
    BY <1>3, <2>6 DEF GotHeader, CallFailures
  <2>. QED  BY <1>7, <2>1, <2>2, <2>3, <2>4, <2>5, <2>6 DEF VerifierStep
<1>. QED  BY <1>5, <1>6, <1>7 DEF Next, ChainStep, vars

\* For any chains: a block with the transaction that stays on the best chain is
\* verified unless a call fails, whether it becomes final on the way or not.
THEOREM Spec_StandingBlockIsVerified == Spec => StandingBlockIsVerified
<1>1. Init /\ BlockHoldsTx(target) => Unrefuted
  BY DEF Init, StartsAt, Unrefuted
<1>2. IInv /\ IsOn(target, best) /\ Unrefuted /\ [Next]_vars => Unrefuted'
  BY UnrefutedStays
<1>3. Unrefuted => (call = "done" => \/ verdict.verified
                                     \/ verdict.why \in CallFailures)
  BY DEF Unrefuted
<1>. QED  BY Spec_IInv, <1>1, <1>2, <1>3, PTL DEF Spec, StandingBlockIsVerified

-----------------------------------------------------------------------------
(* The verdict rests on what was so: VerifyOnChain implements BlockVerdict. *)

On  == IsOn(target, best)
Low == Len(target) <= Len(final)

\* The standing of the block in two questions: is it on the best chain, and is
\* its height final.
StandingOK ==
    Standing = IF On THEN IF Low THEN "final" ELSE "canonical"
                     ELSE IF Low THEN "lost" ELSE "orphaned"

LEMMA StandingIs == IInv => StandingOK
<1>. SUFFICES ASSUME IInv
              PROVE  StandingOK
  OBVIOUS
<1>1. target \in Chains /\ final \in Chains /\ best \in Chains /\ IsOn(final, best)
      /\ Len(target) \in Nat /\ Len(final) \in Nat
  BY ChainType DEF IInv, ChainOK, BlockHashes
<1>2. IsOn(target, final) <=> On /\ Low
  BY <1>1, OnSameChain, FinalIsBest, OnChain DEF IInv, On, Low
<1>3. Len(target) > Len(final) <=> ~Low
  BY <1>1, SMT DEF Low
<1>4. Len(target) <= Len(final) <=> Low
  BY DEF Low
<1>. QED  BY <1>2, <1>3, <1>4 DEF StandingOK, Standing, On

\* While the chain goes on, the block comes to the best chain or leaves it, or
\* its height becomes final, one at a time; what is settled stays.
LEMMA StandingMoves ==
    ASSUME IInv, ChainStep
    PROVE  /\ Low => Low'
           /\ (On' <=> On) \/ (Low' = Low /\ ~Low)
<1>1. target' = target /\ target \in Chains /\ final \in Chains /\ best \in Chains
      /\ IsOn(final, best) /\ Len(target) \in Nat /\ Len(final) \in Nat
  BY ChainType DEF IInv, ChainOK, BlockHashes, ChainStep
<1>2. CASE \E c \in Chains : Import(c)
  <2>1. final' = final /\ best' \in Chains /\ IsOn(final, best')
    BY <1>2 DEF Import
  <2>2. Low' = Low
    BY <1>1, <2>1 DEF Low
  <2>3. Low => (On <=> IsOn(target, final)) /\ (On' <=> IsOn(target, final))
    BY <1>1, <2>1, OnSameChain, OnTransitive DEF Low, On
  <2>. QED  BY <2>2, <2>3
<1>3. CASE \E n \in 1..MaxHeight : Finalize(n)
  <2>1. best' = best /\ Len(final) <= Len(final') /\ Len(final') \in Nat
    BY <1>3, FinalizeKeepsChain, ChainType DEF IInv, ChainOK
  <2>2. On' <=> On
    BY <1>1, <2>1 DEF On
  <2>3. Low => Low'
    BY <1>1, <2>1, SMT DEF Low
  <2>. QED  BY <2>2, <2>3
<1>. QED  BY <1>2, <1>3 DEF ChainStep

\* What is learned, call by call.
LearnedOK ==
    /\ call \in {"opened", "done"} => Learned = {}
    /\ call = "chain_getBlock" => Learned = IF answer = Null THEN {"off"} ELSE {}
    /\ call = "chain_getBlockHash" =>
          Learned = IF answer = Block(target) THEN {"on"}
                    ELSE IF answer \in {NoAnswer, RpcError} THEN {} ELSE {"off"}
    /\ call = "chain_getFinalizedHead" =>
          Learned = IF answer \in {NoAnswer, RpcError} THEN {"on"}
                    ELSE IF Len(target) <= Len(answer.of) THEN {"on", "settled"}
                    ELSE {"on", "unsettled"}
    /\ call = "chain_getHeader" =>
          Learned = IF Len(target) <= Len(finalizedHash) THEN {"on", "settled"}
                    ELSE {"on", "unsettled"}

LEMMA LearnedAt == IInv => LearnedOK
<1>. SUFFICES ASSUME IInv
              PROVE  LearnedOK
  OBVIOUS
<1>1. Len(target) \in Nat /\ Len(finalizedHash) \in Nat
  BY ChainType DEF IInv, BlockHashes
<1>2. answer # Null \/ answer \notin {NoAnswer, RpcError}
  BY Answers
<1>3. Block(target) \notin {NoAnswer, RpcError}
  BY Answers
<1>4. CASE call \in {"opened", "done", "chain_getBlock"}
  BY <1>4 DEF LearnedOK, Learned, SawOn, SawOff, HeadKnown
<1>5. CASE call = "chain_getBlockHash"
  BY <1>3, <1>5 DEF LearnedOK, Learned, SawOn, SawOff, HeadKnown
<1>6. CASE call = "chain_getFinalizedHead"
  <2>1. ~SawOff /\ SawOn /\ KnownHead = answer.of
    BY <1>6 DEF SawOff, SawOn, KnownHead
  <2>2. HeadKnown <=> answer \notin {NoAnswer, RpcError}
    BY <1>6 DEF HeadKnown
  <2>3. HeadKnown => Len(answer.of) \in Nat
    BY <1>6, <2>2, Answers, ChainType DEF IInv, AnswerOK, Blocks
  <2>4. HeadKnown => /\ Len(answer.of) >= Len(target) <=> Len(target) <= Len(answer.of)
                     /\ Len(answer.of) < Len(target) <=> ~(Len(target) <= Len(answer.of))
    BY <1>1, <2>3, SMT
  <2>. QED  BY <1>6, <2>1, <2>2, <2>4 DEF LearnedOK, Learned
<1>7. CASE call = "chain_getHeader"
  <2>1. ~SawOff /\ SawOn /\ HeadKnown /\ KnownHead = finalizedHash
    BY <1>7 DEF SawOff, SawOn, HeadKnown, KnownHead
  <2>2. /\ Len(finalizedHash) >= Len(target) <=> Len(target) <= Len(finalizedHash)
        /\ Len(finalizedHash) < Len(target) <=> ~(Len(target) <= Len(finalizedHash))
    BY <1>1, SMT
  <2>. QED  BY <1>7, <2>1, <2>2 DEF LearnedOK, Learned
<1>. QED  BY <1>4, <1>5, <1>6, <1>7 DEF IInv, Calls

\* What a verdict says.
LEMMA SaidOf ==
    /\ verdict = NoVerdict => Said = "nothing"
    /\ verdict = Verified(TRUE) => Said = "final"
    /\ verdict = Verified(FALSE) => Said = "pending"
    /\ \A why \in {"no block", "not found", "not canonical"} :
          verdict = Refused(why) => Said = "refuted"
    /\ \A why \in CallFailures :
          verdict = Refused(why) => Said = "failed"
BY Verdicts DEF Said, CallFailures


LEMMA ChainStepMoves ==
    ASSUME IInv, ChainStep
    PROVE  [Verdict!Next]_(Verdict!vars)
<1>1. UNCHANGED <<target, call, answer, finalizedHash, verdict>>
  BY DEF ChainStep
<1>2. UNCHANGED <<BlockHoldsTx(target), Learned, Said>>
  BY <1>1 DEF BlockHoldsTx, Learned, SawOn, SawOff, HeadKnown, KnownHead, Said,
              NoAnswer, RpcError, Null, Block, NoVerdict, Verified
<1>3. IInv'
  BY ChainStepKeepsIInv
<1>4. StandingOK /\ StandingOK'
  BY <1>3, StandingIs, PTL
<1>5. Standing' = Standing \/ Verdict!ChainMoves
  BY <1>2, <1>4, StandingMoves DEF StandingOK, Verdict!ChainMoves
<1>. QED  BY <1>2, <1>5 DEF Verdict!Next, Verdict!vars


\* An answer of the node is so when it is given.
LEMMA NodeAnswersLearns ==
    ASSUME IInv, NodeAnswers
    PROVE  [Verdict!Next]_(Verdict!vars)
<1>1. UNCHANGED <<target, call, finalizedHash, verdict, best, final>> /\ answer = NoAnswer
  BY DEF NodeAnswers
<1>2. UNCHANGED <<Standing, BlockHoldsTx(target), Said>>
  BY <1>1 DEF Standing, BlockHoldsTx, Said, NoVerdict, Verified
<1>3. IInv'
  BY NodeAnswersKeepsIInv
<1>4. LearnedOK /\ LearnedOK'
  BY <1>3, LearnedAt, PTL
<1>5. StandingOK
  BY StandingIs
<1>6. /\ target \in Chains /\ best \in Chains /\ Len(target) \in Nat
      /\ On <=> IsOn(target, best)
  BY ChainType DEF IInv, ChainOK, BlockHashes, On
<1>7. call \in Calls
  BY DEF NodeAnswers, Calls
<1>8. Said = "nothing"
  BY <1>7, SaidOf DEF IInv, VerdictOK, Calls
<1>9. ASSUME NEW fact \in Verdict!Facts, Verdict!IsSo(fact),
             Learned' = Learned \cup {fact}
      PROVE  Verdict!Learn
  BY <1>2, <1>8, <1>9 DEF Verdict!Learn
<1>10. /\ On => Verdict!IsSo("on")
       /\ ~On => Verdict!IsSo("off")
       /\ Low => Verdict!IsSo("settled")
       /\ ~Low => Verdict!IsSo("unsettled")
       /\ {"on", "off", "settled", "unsettled"} = Verdict!Facts
  BY <1>5 DEF StandingOK, Verdict!IsSo, Verdict!Facts
<1>11. CASE call = "chain_getBlock"
  <2>1. Learned = {}
    BY <1>1, <1>4, <1>11, Answers DEF LearnedOK
  <2>2. CASE answer' = Null
    <3>1. ~On
      BY <1>11, <2>2, Answers DEF NodeAnswers, On
    <3>2. Learned' = {"off"}
      BY <1>1, <1>4, <1>11, <2>2 DEF LearnedOK
    <3>. QED  BY <1>9, <1>10, <2>1, <3>1, <3>2 DEF Verdict!Next
  <2>3. CASE answer' # Null
    BY <1>1, <1>2, <1>4, <1>11, <2>1, <2>3 DEF LearnedOK, Null, Verdict!vars
  <2>. QED  BY <2>2, <2>3
<1>12. CASE call = "chain_getBlockHash"
  <2>1. Learned = {}
    BY <1>1, <1>4, <1>12, Answers DEF LearnedOK
  <2>2. CASE answer' = RpcError
    BY <1>1, <1>2, <1>4, <1>12, <2>1, <2>2, Answers DEF LearnedOK, Verdict!vars
  <2>3. CASE answer' = HashAt(Len(target))
    <3>1. On <=> answer' = Block(target)
      <4>1. CASE Len(target) <= Len(best)
        <5>. DEFINE h == SubSeq(best, 1, Len(target))
        <5>1. answer' = Block(h)
          BY <2>3, <4>1 DEF HashAt
        <5>2. On <=> h = target
          BY <1>6, <4>1, OnChain, CutIsOn
        <5>3. \A a, b : Block(a) = Block(b) <=> a = b
          BY Answers
        <5>. QED  BY <5>1, <5>2, <5>3
      <4>2. CASE ~(Len(target) <= Len(best))
        <5>1. ~On
          BY <1>6, <4>2, OnChain
        <5>2. answer' = Null /\ Null # Block(target)
          BY <2>3, <4>2, Answers DEF HashAt
        <5>. QED  BY <5>1, <5>2
      <4>. QED  BY <4>1, <4>2
    <3>2. answer' \notin {NoAnswer, RpcError}
      BY <2>3, Answers DEF HashAt
    <3>3. Learned' = IF On THEN {"on"} ELSE {"off"}
      BY <1>1, <1>4, <1>12, <3>1, <3>2 DEF LearnedOK, NoAnswer, RpcError, Block
    <3>. QED  BY <1>9, <1>10, <2>1, <3>3 DEF Verdict!Next
  <2>. QED  BY <1>12, <2>2, <2>3 DEF NodeAnswers
<1>13. CASE call = "chain_getFinalizedHead"
  <2>1. Learned = {"on"}
    BY <1>1, <1>4, <1>13 DEF LearnedOK
  <2>2. CASE answer' = RpcError
    BY <1>1, <1>2, <1>4, <1>13, <2>1, <2>2 DEF LearnedOK, RpcError, Verdict!vars
  <2>3. CASE answer' = Block(final)
    <3>1. answer' \notin {NoAnswer, RpcError} /\ answer'.of = final
      BY <2>3, Answers
    <3>2. Learned' = IF Low THEN {"on", "settled"} ELSE {"on", "unsettled"}
      BY <1>1, <1>4, <1>13, <3>1 DEF LearnedOK, NoAnswer, RpcError, Low
    <3>. QED  BY <1>9, <1>10, <2>1, <3>2 DEF Verdict!Next
  <2>. QED  BY <1>13, <2>2, <2>3 DEF NodeAnswers
<1>14. CASE call = "chain_getHeader"
  BY <1>1, <1>2, <1>4, <1>14 DEF LearnedOK, Verdict!vars
<1>. QED  BY <1>7, <1>11, <1>12, <1>13, <1>14 DEF Calls


\* The run ends with what its last answer allows.
LEMMA EndSays ==
    ASSUME IInv, IInv', UNCHANGED <<target, best, final>>, call # "done",
           NEW v, End(v),
           \/ v.why \in CallFailures /\ v = Refused(v.why)
           \/ /\ v \in {Refused(why) : why \in {"no block", "not found", "not canonical"}}
              /\ ~BlockHoldsTx(target) \/ "off" \in Learned
           \/ /\ BlockHoldsTx(target) /\ "on" \in Learned
              /\ \/ v = Verified(TRUE) /\ "settled" \in Learned
                 \/ v = Verified(FALSE) /\ "unsettled" \in Learned
    PROVE  Verdict!Say
<1>1. UNCHANGED <<Standing, BlockHoldsTx(target)>>
  BY DEF Standing, BlockHoldsTx
<1>2. LearnedOK'
  BY LearnedAt, PTL
<1>3. Learned' = {}
  BY <1>2 DEF LearnedOK, End
<1>4. Said = "nothing"
  BY SaidOf DEF IInv, VerdictOK
<1>5. /\ (verdict = Verified(TRUE) => Said = "final")'
      /\ (verdict = Verified(FALSE) => Said = "pending")'
      /\ \A why \in {"no block", "not found", "not canonical"} :
            (verdict = Refused(why) => Said = "refuted")'
      /\ \A why \in CallFailures :
            (verdict = Refused(why) => Said = "failed")'
  BY Verdicts DEF Said, Verified, Refused, NoVerdict, CallFailures
<1>6. Said' \in {"failed", "refuted", "pending", "final"} /\ Verdict!MaySay(Said')
  BY <1>5 DEF End, Verdict!MaySay, Verified, Refused
<1>. QED  BY <1>1, <1>3, <1>4, <1>6 DEF Verdict!Say

\* A question asked changes neither what is so nor what has been learned.
LEMMA AskSaysNothing ==
    ASSUME IInv, IInv', UNCHANGED <<target, verdict, best, final>>, Learned' = Learned
    PROVE  UNCHANGED Verdict!vars
BY DEF Verdict!vars, Standing, BlockHoldsTx, Said, NoVerdict, Verified

\* Past the first call the block has been searched.
Searched == call \in Calls \ {"chain_getBlock"} => BlockHoldsTx(target)

LEMMA SearchedStays ==
    ASSUME IInv, Searched, [Next]_vars
    PROVE  Searched'
<1>1. CASE UNCHANGED vars \/ ChainStep \/ NodeAnswers
  BY <1>1 DEF vars, ChainStep, NodeAnswers, Searched, BlockHoldsTx, Calls
<1>2. CASE GotBlock
  <2>1. answer # Null => answer = Block(target) /\ answer.of = target
    BY <1>2, Answers DEF IInv, AnswerOK, GotBlock, Resolved
  <2>. QED  BY <1>2, <2>1 DEF GotBlock, End, Ask, Searched, BlockHoldsTx, Calls
<1>3. CASE Opened \/ GotBlockHash \/ GotFinalizedHead
  BY <1>3 DEF Opened, GotBlockHash, GotFinalizedHead, End, Ask, Searched, BlockHoldsTx, Calls
<1>4. CASE GotHeader \/ GotError \/ SocketFails \/ CallTimeout
  BY <1>4 DEF GotHeader, GotError, SocketFails, CallTimeout, End, Searched, Calls
<1>. QED  BY <1>1, <1>2, <1>3, <1>4 DEF Next, VerifierStep

LEMMA VerifierSays ==
    ASSUME IInv, Searched, VerifierStep
    PROVE  [Verdict!Next]_(Verdict!vars)
<1>1. IInv'
  BY VerifierKeepsIInv
<1>2. LearnedOK /\ LearnedOK'
  BY <1>1, LearnedAt, PTL
<1>3. \A why : Refused(why).why = why /\ Refused(why) = Refused(Refused(why).why)
  BY Verdicts
<1>4. Verdict!Say => Verdict!Next
  BY DEF Verdict!Next
<1>5. ASSUME NEW why \in CallFailures, End(Refused(why)),
             UNCHANGED <<target, best, final>>, call # "done"
      PROVE  Verdict!Next
  BY <1>1, <1>3, <1>4, <1>5, EndSays
<1>6. CASE Opened
  <2>1. Learned' = Learned
    BY <1>2, <1>6, Answers DEF Opened, Ask, LearnedOK, NoAnswer, Null
  <2>. QED  BY <1>1, <1>6, <2>1, AskSaysNothing DEF Opened
<1>7. CASE GotError \/ SocketFails \/ CallTimeout
  BY <1>5, <1>7 DEF GotError, SocketFails, CallTimeout, Calls, CallFailures
<1>8. CASE GotBlock
  <2>1. answer = Null \/ (answer = Block(target) /\ answer.of = target)
    BY <1>8, Answers DEF IInv, AnswerOK, GotBlock, Resolved
  <2>2. CASE answer = Null
    <3>1. End(Refused("no block")) /\ "off" \in Learned
      BY <1>2, <1>8, <2>2 DEF GotBlock, LearnedOK
    <3>. QED  BY <1>1, <1>3, <1>4, <1>8, <3>1, EndSays DEF GotBlock
  <2>3. CASE answer # Null /\ ~BlockHoldsTx(target)
    <3>1. End(Refused("not found"))
      BY <1>8, <2>1, <2>3 DEF GotBlock
    <3>. QED  BY <1>1, <1>3, <1>4, <1>8, <2>3, <3>1, EndSays DEF GotBlock
  <2>4. CASE answer # Null /\ BlockHoldsTx(target)
    <3>1. Ask("chain_getBlockHash") /\ UNCHANGED verdict
      BY <1>8, <2>1, <2>4 DEF GotBlock
    <3>2. Learned = {} /\ Learned' = {}
      BY <1>2, <1>8, <2>4, <3>1, Answers DEF GotBlock, Ask, LearnedOK, NoAnswer, RpcError, Block
    <3>. QED  BY <1>1, <1>8, <3>1, <3>2, AskSaysNothing DEF GotBlock
  <2>. QED  BY <2>2, <2>3, <2>4
<1>9. CASE GotBlockHash
  <2>1. CASE ~Canonical(answer)
    <3>1. End(Refused("not canonical")) /\ "off" \in Learned
      BY <1>2, <1>9, <2>1 DEF GotBlockHash, LearnedOK, Canonical, Resolved
    <3>. QED  BY <1>1, <1>3, <1>4, <1>9, <3>1, EndSays DEF GotBlockHash
  <2>2. CASE Canonical(answer)
    <3>1. Ask("chain_getFinalizedHead") /\ UNCHANGED verdict
      BY <1>9, <2>2 DEF GotBlockHash
    <3>2. Learned = {"on"} /\ Learned' = {"on"}
      BY <1>2, <1>9, <2>2, <3>1 DEF GotBlockHash, Canonical, Ask, LearnedOK, NoAnswer
    <3>. QED  BY <1>1, <1>9, <3>1, <3>2, AskSaysNothing DEF GotBlockHash
  <2>. QED  BY <2>1, <2>2
<1>10. CASE GotFinalizedHead
  <2>1. Learned' = Learned
    BY <1>2, <1>10 DEF GotFinalizedHead, Resolved, Ask, LearnedOK
  <2>. QED  BY <1>1, <1>10, <2>1, AskSaysNothing DEF GotFinalizedHead
<1>11. CASE GotHeader /\ answer = Null
  BY <1>5, <1>11 DEF GotHeader, CallFailures
<1>12. CASE GotHeader /\ answer # Null
  <2>1. answer.of = Len(finalizedHash)
    BY <1>12, Answers DEF IInv, AnswerOK, GotHeader, Resolved
  <2>2. Len(finalizedHash) \in Nat /\ Len(target) \in Nat
    BY ChainType DEF IInv, BlockHashes
  <2>. DEFINE f == FinalizedDepth(answer.of) >= 0
  <2>3. \/ f = TRUE /\ Len(target) <= Len(finalizedHash)
        \/ f = FALSE /\ ~(Len(target) <= Len(finalizedHash))
    BY <2>1, <2>2, SMT DEF FinalizedDepth
  <2>4. End(Verified(f)) /\ call # "done" /\ UNCHANGED <<target, best, final>>
    BY <1>12 DEF GotHeader
  <2>. HIDE DEF f
  <2>5. /\ "on" \in Learned
        /\ \/ f = TRUE /\ "settled" \in Learned
           \/ f = FALSE /\ "unsettled" \in Learned
    BY <1>2, <1>12, <2>3 DEF GotHeader, LearnedOK
  <2>6. BlockHoldsTx(target)
    BY <1>12 DEF GotHeader, Calls, Searched
  <2>. QED  BY <1>1, <1>4, <2>4, <2>5, <2>6, EndSays
<1>. QED  BY <1>6, <1>7, <1>8, <1>9, <1>10, <1>11, <1>12 DEF VerifierStep


\* For any forks and any height of the chain: every step of the run and of the
\* node is a step of BlockVerdict, so that what is printed follows from what was
\* so when it was asked.
THEOREM Spec_ImplementsVerdict == Spec => ImplementsVerdict
<1>1. Init => Searched
  BY DEF Init, StartsAt, Searched, Calls
<1>2. IInv /\ Searched /\ [Next]_vars => Searched'
  BY SearchedStays
<1>3. Init => Verdict!Init
  <2>. SUFFICES ASSUME Init
                PROVE  Verdict!Init
    OBVIOUS
  <2>1. IInv /\ StandingOK /\ LearnedOK
    BY IInvInit, StandingIs, LearnedAt
  <2>2. call = "opened" /\ verdict = NoVerdict
    BY DEF Init, StartsAt
  <2>3. BlockHoldsTx(target) \in BOOLEAN
    <3>1. /\ target \in Chains /\ target # <<>> /\ Len(target) \in Nat
          /\ \A i \in 1..Len(target) : target[i] \in Header
      BY <2>1, ChainType DEF IInv, BlockHashes
    <3>2. Len(target) # 0
      BY <3>1, ChainType, EmptySeq DEF BlockHashes
    <3>3. target[Len(target)] \in Header
      BY <3>1, <3>2, SMT
    <3>. QED  BY <3>3 DEF Header, BlockHoldsTx
  <2>. QED  BY <2>1, <2>2, <2>3, SaidOf DEF StandingOK, LearnedOK, Verdict!Init
<1>4. IInv /\ Searched /\ [Next]_vars => [Verdict!Next]_(Verdict!vars)
  <2>1. CASE UNCHANGED vars
    BY <2>1 DEF vars, Verdict!vars, Standing, BlockHoldsTx, Learned, SawOn, SawOff,
                HeadKnown, KnownHead, Said, NoAnswer, RpcError, Null, Block, NoVerdict,
                Verified
  <2>. QED  BY <2>1, ChainStepMoves, NodeAnswersLearns, VerifierSays DEF Next
<1>. QED  BY Spec_IInv, <1>1, <1>2, <1>3, <1>4, PTL DEF Spec, ImplementsVerdict, Verdict!Spec


=============================================================================
