--------------------------- MODULE VerifyOnChain ----------------------------
(***************************************************************************)
(* One run of tools/preview_verify_onchain.mjs: four RPC calls, one after  *)
(* the other, about the block in which the transaction was reported.  The  *)
(* node answers each at some time from the chain it then has, so the       *)
(* answers may be about different chains.                                  *)
(***************************************************************************)
EXTENDS NodeChain

VARIABLES
    target,         \* --block-hash
    call,           \* the await the verifier is at
    answer,         \* the node's answer to call, not yet received
    finalizedHash,  \* of chain_getFinalizedHead
    verdict         \* what is printed at the end

vars == <<target, call, answer, finalizedHash, verdict, best, final>>

NoAnswer == [answer |-> "none"]
Null     == [answer |-> "null"]
RpcError == [answer |-> "error"]
Block(hash) == [answer |-> "block", of |-> hash]
Height(n)   == [answer |-> "height", of |-> n]

Calls == {"chain_getBlock", "chain_getBlockHash", "chain_getFinalizedHead",
          "chain_getHeader"}

NoVerdict     == [verified |-> FALSE, finalized |-> FALSE, why |-> "none"]
Verified(fin) == [verified |-> TRUE, finalized |-> fin, why |-> "none"]
Refused(why)  == [verified |-> FALSE, finalized |-> FALSE, why |-> why]
CallFailures == {"rpc error", "no header", "socket", "timeout"}
Refusals == {"no block", "not found", "not canonical"} \cup CallFailures

StartsAt(hash) ==
    /\ target = hash
    /\ call = "opened"
    /\ answer = NoAnswer
    /\ finalizedHash = <<>>
    /\ verdict = NoVerdict

Init ==
    /\ \E hash \in BlockHashes : StartsAt(hash)
    /\ best \in Chains
    /\ final \in {SubSeq(best, 1, n) : n \in 0..Len(best)}

-----------------------------------------------------------------------------
(* Replies of the node (external) *)

\* A block of the best chain is known; one of another fork may be.
KnowsBlock(hash) == IsOn(hash, best) \/ Len(hash) <= Len(best)

HashAt(height) ==
    IF height <= Len(best) THEN Block(SubSeq(best, 1, height)) ELSE Null

NodeAnswers ==
    /\ answer = NoAnswer
    /\ \/ call = "chain_getBlock" /\ KnowsBlock(target) /\ answer' = Block(target)
       \/ call = "chain_getBlock" /\ ~IsOn(target, best) /\ answer' = Null
       \/ call = "chain_getBlockHash" /\ answer' = HashAt(Len(target))
       \/ call = "chain_getFinalizedHead" /\ answer' = Block(final)
       \/ call = "chain_getHeader" /\ answer' \in {Height(Len(finalizedHash)), Null}
       \/ call \in Calls /\ answer' = RpcError
    /\ UNCHANGED <<target, call, finalizedHash, verdict, best, final>>

-----------------------------------------------------------------------------
(* The verifier *)

Ask(next) == call' = next /\ answer' = NoAnswer

\* The printed verdict, or the catch of main.
End(v) ==
    /\ verdict' = v
    /\ call' = "done"
    /\ answer' = NoAnswer

Opened ==
    /\ call = "opened"
    /\ Ask("chain_getBlock")
    /\ UNCHANGED <<target, finalizedHash, verdict, best, final>>

\* The promise of the pending call has a result; it is rejected with an error.
Resolved == answer \notin {NoAnswer, RpcError}

GotError ==
    /\ call \in Calls /\ answer = RpcError
    /\ End(Refused("rpc error"))
    /\ UNCHANGED <<target, finalizedHash, best, final>>

\* The extrinsics of the block are searched for the transaction.
GotBlock ==
    /\ call = "chain_getBlock" /\ Resolved
    /\ \/ answer = Null /\ End(Refused("no block"))
       \/ answer # Null /\ ~BlockHoldsTx(answer.of) /\ End(Refused("not found"))
       \/ /\ answer # Null /\ BlockHoldsTx(answer.of)
          /\ Ask("chain_getBlockHash")
          /\ UNCHANGED verdict
    /\ UNCHANGED <<target, finalizedHash, best, final>>

Canonical_SameHeight(hash) == hash # Null
Canonical(hash) == hash = Block(target)

GotBlockHash ==
    /\ call = "chain_getBlockHash" /\ Resolved
    /\ \/ ~Canonical(answer) /\ End(Refused("not canonical"))
       \/ Canonical(answer) /\ Ask("chain_getFinalizedHead") /\ UNCHANGED verdict
    /\ UNCHANGED <<target, finalizedHash, best, final>>

GotFinalizedHead ==
    /\ call = "chain_getFinalizedHead" /\ Resolved
    /\ finalizedHash' = answer.of
    /\ Ask("chain_getHeader")
    /\ UNCHANGED <<target, verdict, best, final>>

FinalizedDepth_OffByOne(number) == number - Len(target) + 1
FinalizedDepth_Buried(number) == number - Len(target) - 1
FinalizedDepth(number) == number - Len(target)

GotHeader_RefusesPending ==
    /\ call = "chain_getHeader" /\ Resolved
    /\ IF answer = Null THEN End(Refused("no header"))
       ELSE IF FinalizedDepth(answer.of) >= 0 THEN End(Verified(TRUE))
       ELSE End(Refused("not canonical"))
    /\ UNCHANGED <<target, finalizedHash, best, final>>

\* The number of a null header cannot be read.
GotHeader ==
    /\ call = "chain_getHeader" /\ Resolved
    /\ \/ answer = Null /\ End(Refused("no header"))
       \/ answer # Null /\ End(Verified(FinalizedDepth(answer.of) >= 0))
    /\ UNCHANGED <<target, finalizedHash, best, final>>

\* onerror, or onclose with a call pending.
SocketFails ==
    /\ call \in Calls \cup {"opened"}
    /\ End(Refused("socket"))
    /\ UNCHANGED <<target, finalizedHash, best, final>>

CallTimeout_KeepsWaiting ==
    /\ call \in Calls
    /\ verdict' = Refused("timeout")
    /\ UNCHANGED <<target, call, answer, finalizedHash, best, final>>

\* The timer of a call; none runs while the socket opens.
CallTimeout ==
    /\ call \in Calls
    /\ End(Refused("timeout"))
    /\ UNCHANGED <<target, finalizedHash, best, final>>

VerifierStep ==
    \/ Opened \/ GotBlock \/ GotBlockHash \/ GotFinalizedHead \/ GotHeader
    \/ GotError \/ SocketFails \/ CallTimeout

ChainStep ==
    /\ \/ \E c \in Chains : Import(c)
       \/ \E n \in 1..MaxHeight : Finalize(n)
    /\ UNCHANGED <<target, call, answer, finalizedHash, verdict>>

Next == VerifierStep \/ NodeAnswers \/ ChainStep

Spec == Init /\ [][Next]_vars

\* Every call has a timer; neither the node nor the socket owes an answer.
FairSpec == Spec /\ WF_vars(CallTimeout)

-----------------------------------------------------------------------------
(* Properties *)

TypeOK ==
    /\ target \in BlockHashes
    /\ call \in Calls \cup {"opened", "done"}
    /\ call = "done" <=> verdict # NoVerdict
    /\ answer \in {NoAnswer, Null, RpcError} \cup {Block(c) : c \in Chains}
                     \cup {Height(n) : n \in 0..MaxHeight}
    /\ finalizedHash \in Chains
    /\ verdict \in {NoVerdict} \cup {Verified(f) : f \in BOOLEAN}
                     \cup {Refused(why) : why \in Refusals}

\* A verdict is about the transaction: a block that is on the best chain at no
\* time during the run, or that does not hold the transaction, is never
\* verified, however the four answers are spread over reorganisations.
OrphanNeverVerified ==
    [](~IsOn(target, best) \/ ~BlockHoldsTx(target)) => [](~verdict.verified)

\* The printed finalized flag compares heights only, at two different times.
\* It is right all the same for every block that is still canonical.
FinalizedFlagIsRight ==
    verdict.finalized /\ IsOn(target, best) => IsOn(target, final)

\* A block that was final when the run began is refused for no reason but a
\* call that fails or has no result, and verified with its finalized flag set.
FinalBlockIsVerified ==
    IsOn(target, final) /\ BlockHoldsTx(target) =>
        [](call = "done" => \/ verdict = Verified(TRUE)
                            \/ verdict.why \in CallFailures)

\* A block with the transaction that stays on the best chain while the verifier
\* runs is verified, pending or final, unless a call fails: what the chain does
\* above it, or with its finalized head, between the calls costs it nothing.
StandingBlockIsVerified ==
    BlockHoldsTx(target) /\ []IsOn(target, best) =>
        [](call = "done" => \/ verdict.verified
                            \/ verdict.why \in CallFailures)

\* Once the socket is open the verifier comes to a verdict, also when the node
\* is silent; while it opens no timer runs.
VerdictOnceOpen == (call \in Calls) ~> (call = "done")

\* The standing of the reported block, and what the run has learned of it when
\* it is at a call with an answer, or without one.
Standing ==
    CASE IsOn(target, final)                                   -> "final"
      [] ~IsOn(target, final) /\ Len(target) <= Len(final)     -> "lost"
      [] Len(target) > Len(final) /\ IsOn(target, best)        -> "canonical"
      [] OTHER                                                 -> "orphaned"
SawOff ==
    \/ call = "chain_getBlock" /\ answer = Null
    \/ call = "chain_getBlockHash" /\ answer \notin {NoAnswer, RpcError, Block(target)}
SawOn ==
    \/ call = "chain_getBlockHash" /\ answer = Block(target)
    \/ call \in {"chain_getFinalizedHead", "chain_getHeader"}
HeadKnown ==
    \/ call = "chain_getFinalizedHead" /\ answer \notin {NoAnswer, RpcError}
    \/ call = "chain_getHeader"
KnownHead == IF call = "chain_getHeader" THEN finalizedHash ELSE answer.of
Learned ==
    {fact \in {"on", "off", "settled", "unsettled"} :
        \/ fact = "on" /\ SawOn
        \/ fact = "off" /\ SawOff
        \/ fact = "settled" /\ HeadKnown /\ Len(KnownHead) >= Len(target)
        \/ fact = "unsettled" /\ HeadKnown /\ Len(KnownHead) < Len(target)}
Said ==
    CASE verdict = NoVerdict       -> "nothing"
      [] verdict = Verified(TRUE)  -> "final"
      [] verdict = Verified(FALSE) -> "pending"
      [] verdict.why \in {"no block", "not found", "not canonical"} -> "refuted"
      [] OTHER                     -> "failed"

Verdict == INSTANCE BlockVerdict WITH
    standing <- Standing, holds <- BlockHoldsTx(target),
    learned <- Learned, said <- Said

\* However the four answers are spread over reorganisations, every verdict
\* follows from things that were so when they were asked: verified means that
\* the block was canonical at one moment and, if called finalized, that its
\* height was final at a later one; refuted means that it was off the chain at
\* some moment or does not hold the transaction.
ImplementsVerdict == Verdict!Spec

=============================================================================
