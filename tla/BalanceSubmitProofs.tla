------------------------ MODULE BalanceSubmitProofs --------------------------
(***************************************************************************)
(* The balance/submit helper for every set of submit modes and targets of  *)
(* its configuration, any number of proof attempts, and every best chain   *)
(* the node may come to.                                                   *)
(***************************************************************************)
EXTENDS BalanceSubmit, NodeChainProofs

\* No submission path was started: the transaction has not left the helper.
NotLaunched ==
    /\ sdk = "idle" /\ ws = "none"
    /\ ~request /\ rx = <<>> /\ ~watched /\ pool = "none"

\* What every submission path requires before it starts.
Cleared ==
    /\ config.submit /\ ~config.dryRun
    /\ result.check # "failed"
    /\ config.validate => result.check = "ok"
    /\ ending.why \notin {"wallet", "prove", "check"}

\* The await the helper is at, and what goes on around it.
StepOK ==
    /\ ending = Running <=> step # "done"
    /\ config.dryRun => step \in {"start", "done"}
    /\ step \in {"start", "syncing", "balancing", "proving"} => NotLaunched
    /\ ~NotLaunched => Cleared
    /\ step = "raw" <=> ws \in {"connecting", "open"}
    /\ step = "sdk" => sdk = "submitting"

\* The node reports only on a transaction it took, and only such a one is in a
\* block of it.
WatchedOK == watched \/ HoldsTx(best) => pool # "none"

\* What a message from the node says of its pool and its final chain, as it
\* stays true while the message waits in the socket.
MessageOK(m, inPool, finalChain) ==
    /\ m # RpcError => inPool # "none"
    /\ m.kind = "status" /\ Included(m) =>
          /\ m.hash \in BlockHashes
          /\ BlockHoldsTx(m.hash)
          /\ m.status = "finalized" => IsOn(m.hash, finalChain)

\* The result record, before and after a submission wrote to it.
ResultOK ==
    /\ step # "done" => result.blockHash = NoHash
    /\ result.blockHash # NoHash => BlockHoldsTx(result.blockHash)
    /\ result.inclusionStatus = "finalized" =>
          result.blockHash \in BlockHashes /\ IsOn(result.blockHash, final)
    /\ result.blockHash # NoHash /\ config.waitFor = "finalized" =>
          result.inclusionStatus = "finalized"

MessagesOK == \A i \in 1..Len(rx) : MessageOK(rx[i], pool, final)

\* The inductive invariant.
IInv ==
    /\ TypeOK
    /\ StepOK
    /\ WatchedOK
    /\ MessagesOK
    /\ ResultOK
    /\ SuccessMeansSubmitted

-----------------------------------------------------------------------------
(* Endings and messages are told apart by their fields. *)

LEMMA Endings ==
    /\ Running.exit = "running" /\ Running.why = "none"
    /\ Succeeded.exit = "ok" /\ Succeeded.why = "none"
    /\ \A why : Failed(why).exit = "error" /\ Failed(why).why = why
    /\ Running # Succeeded
    /\ \A why : Failed(why) # Running /\ Failed(why) # Succeeded
BY DEF Running, Succeeded, Failed

LEMMA MessageFields ==
    /\ Reply.kind = "reply" /\ RpcError.kind = "error"
    /\ Reply # RpcError
    /\ \A s, f, h : /\ StatusOf(s, f, h).kind = "status"
                    /\ StatusOf(s, f, h).status = s
                    /\ StatusOf(s, f, h).form = f
                    /\ StatusOf(s, f, h).hash = h
                    /\ StatusOf(s, f, h) # RpcError
BY DEF Reply, RpcError, StatusOf

LEMMA MessageTypes ==
    /\ Reply \in Messages /\ RpcError \in Messages
    /\ \A s \in PlainStatuses : StatusOf(s, "string", NoHash) \in Messages
    /\ \A s \in ObjectStatuses, h \in BlockHashes \cup {NoHash} :
          StatusOf(s, "object", h) \in Messages
BY DEF Messages

LEMMA ShortConcatenations ==
    ASSUME NEW x, NEW y
    PROVE  /\ <<x>> \o <<y>> = <<x, y>>
           /\ <<x>> \o <<>> = <<x>>
           /\ <<>> \o <<x>> = <<x>>
<1>1. <<x>> \in Seq({x, y}) /\ <<y>> \in Seq({x, y}) /\ <<x, y>> \in Seq({x, y})
  OBVIOUS
<1>2. /\ <<x>> \o <<y>> \in Seq({x, y})
      /\ Len(<<x>> \o <<y>>) = 2
      /\ (<<x>> \o <<y>>)[1] = x /\ (<<x>> \o <<y>>)[2] = y
  BY <1>1, ConcatProperties
<1>3. <<x>> \o <<y>> = <<x, y>>
  <2> DEFINE s == <<x>> \o <<y>>
             t == <<x, y>>
  <2>1. /\ s \in Seq({x, y}) /\ t \in Seq({x, y}) /\ Len(s) = 2 /\ Len(t) = 2
        /\ s[1] = t[1] /\ s[2] = t[2]
    BY <1>1, <1>2
  <2> HIDE DEF s, t
  <2>2. Len(s) = Len(t) /\ \A i \in 1..Len(s) : s[i] = t[i]
    BY <2>1
  <2>3. s = t
    BY <2>1, <2>2, SeqEqual
  <2>. QED  BY <2>3 DEF s, t
<1>. QED  BY <1>1, <1>3, ConcatEmptySeq

\* A message stays as true as it was while the transaction stays with the node
\* and final blocks stay final.
LEMMA MessageStays ==
    ASSUME NEW m, MessageOK(m, pool, final),
           pool # "none" => pool' # "none",
           ChainOK,
           final' = final \/ \E n \in 1..MaxHeight : Finalize(n)
    PROVE  MessageOK(m, pool', final')
<1>1. m # RpcError => pool' # "none"
  BY DEF MessageOK
<1>2. ASSUME m.kind = "status", Included(m)
      PROVE  /\ m.hash \in BlockHashes
             /\ BlockHoldsTx(m.hash)
             /\ m.status = "finalized" => IsOn(m.hash, final')
  <2>1. /\ m.hash \in BlockHashes
        /\ BlockHoldsTx(m.hash)
        /\ m.status = "finalized" => IsOn(m.hash, final)
    BY <1>2 DEF MessageOK
  <2>2. m.hash \in Chains
    BY <2>1 DEF BlockHashes
  <2>3. CASE final' = final
    BY <2>1, <2>3
  <2>4. ASSUME NEW n \in 1..MaxHeight, Finalize(n)
        PROVE  IsOn(m.hash, final) => IsOn(m.hash, final')
    BY <2>2, <2>4, FinalStays
  <2>. QED  BY <2>1, <2>3, <2>4
<1>. QED  BY <1>1, <1>2 DEF MessageOK

\* The queue after the node has put more messages in it, or the helper has taken
\* the first.
LEMMA MessagesStay ==
    ASSUME MessagesOK, rx \in Seq(Messages),
           pool # "none" => pool' # "none",
           ChainOK,
           final' = final \/ \E n \in 1..MaxHeight : Finalize(n),
           rx' = rx \/ (rx # <<>> /\ rx' = Tail(rx))
    PROVE  MessagesOK'
<1>1. \A i \in 1..Len(rx) : MessageOK(rx[i], pool', final')
  BY MessageStays DEF MessagesOK
<1>2. CASE rx' = rx
  BY <1>1, <1>2 DEF MessagesOK
<1>3. CASE rx # <<>> /\ rx' = Tail(rx)
  <2>1. \A i \in 1..Len(rx') : rx'[i] = rx[i + 1] /\ i + 1 \in 1..Len(rx)
    BY <1>3
  <2>. QED  BY <1>1, <2>1 DEF MessagesOK
<1>. QED  BY <1>2, <1>3

LEMMA MessagesAppended ==
    ASSUME MessagesOK, rx \in Seq(Messages),
           pool # "none" => pool' # "none",
           ChainOK,
           final' = final \/ \E n \in 1..MaxHeight : Finalize(n),
           NEW msgs \in Seq(Messages),
           \A i \in 1..Len(msgs) : MessageOK(msgs[i], pool', final'),
           Report(msgs)
    PROVE  MessagesOK' /\ rx' \in Seq(Messages)
<1>1. \A i \in 1..Len(rx) : MessageOK(rx[i], pool', final')
  BY MessageStays DEF MessagesOK
<1>2. CASE rx' = rx
  BY <1>1, <1>2 DEF MessagesOK
<1>3. CASE rx' = rx \o msgs
  <2>1. /\ rx \o msgs \in Seq(Messages)
        /\ Len(rx \o msgs) = Len(rx) + Len(msgs)
        /\ \A i \in 1..Len(rx) : (rx \o msgs)[i] = rx[i]
        /\ \A i \in 1..Len(msgs) : (rx \o msgs)[Len(rx) + i] = msgs[i]
    BY ConcatProperties
  <2>2. Len(rx) \in Nat /\ Len(msgs) \in Nat
    OBVIOUS
  <2>3. ASSUME NEW i \in 1..Len(rx')
        PROVE  MessageOK(rx'[i], pool', final')
    <3>1. CASE i <= Len(rx)
      BY <1>1, <1>3, <2>1, <2>2, <2>3, <3>1
    <3>2. CASE ~(i <= Len(rx))
      <4>1. i - Len(rx) \in 1..Len(msgs) /\ i = Len(rx) + (i - Len(rx))
        BY <1>3, <2>1, <2>2, <2>3, <3>2
      <4>2. rx'[i] = msgs[i - Len(rx)]
        BY <1>3, <2>1, <4>1
      <4>. QED  BY <4>1, <4>2
    <3>. QED  BY <3>1, <3>2
  <2>. QED  BY <1>3, <2>1, <2>3 DEF MessagesOK
<1>. QED  BY <1>2, <1>3 DEF Report

-----------------------------------------------------------------------------
(* The steps *)

LEMMA ChainFromTypes == TypeOK => ChainOK
BY DEF TypeOK, ChainOK

\* Steps of the helper that read no message and touch no node.
LEMMA NodeUntouched ==
    ASSUME IInv, UNCHANGED <<rx, nodeVars>>
    PROVE  /\ MessagesOK' /\ WatchedOK'
           /\ /\ config' = config
              /\ result'.blockHash = result.blockHash
              /\ result'.inclusionStatus = result.inclusionStatus
              /\ step # "done" \/ step' = step
              => ResultOK'
<1>1. rx' = rx /\ pool' = pool /\ final' = final
  BY DEF nodeVars
<1>2. MessagesOK' /\ WatchedOK'
  BY <1>1 DEF IInv, MessagesOK, WatchedOK, HoldsTx, nodeVars
<1>. QED  BY <1>1, <1>2 DEF IInv, ResultOK, BlockHoldsTx

LEMMA EarlySteps ==
    ASSUME IInv,
           DryRun \/ WalletStarted \/ WalletSynced \/ Balanced \/ WalletFails \/ ProveFails
    PROVE  IInv'
<1>1. UNCHANGED <<config, result, sdk, request, rx, nodeVars>>
  BY DEF DryRun, WalletStarted, WalletSynced, Balanced, WalletFails, ProveFails, socketVars
<1>2. MessagesOK' /\ WatchedOK'
  BY <1>1, NodeUntouched
<1>3. NotLaunched /\ step \in {"start", "syncing", "balancing", "proving"}
  BY DEF IInv, StepOK, DryRun, WalletStarted, WalletSynced, Balanced, WalletFails, ProveFails
<1>4. ending = Running
  BY <1>3 DEF IInv, StepOK
<1>5. ws' = ws
  BY <1>3 DEF NotLaunched, DryRun, WalletStarted, WalletSynced, Balanced, WalletFails,
              ProveFails, Fail, socketVars
<1>6. NotLaunched'
  BY <1>1, <1>3, <1>5 DEF NotLaunched, nodeVars
<1>7. /\ attempt' \in 1..ProveAttempts
      /\ \/ /\ step' \in {"syncing", "balancing", "proving"} /\ ending' = ending
            /\ ~config.dryRun
         \/ step' = "done" /\ ending' = Succeeded /\ config.dryRun
         \/ step' = "done" /\ \E why \in {"wallet", "prove"} : ending' = Failed(why)
  BY <1>3, HelperAssumption
     DEF IInv, TypeOK, StepOK, DryRun, WalletStarted, WalletSynced, Balanced, WalletFails,
         ProveFails, Fail, Succeed
<1>8. TypeOK'
  BY <1>1, <1>4, <1>5, <1>7 DEF IInv, TypeOK, nodeVars, Causes
<1>9. StepOK'
  BY <1>1, <1>4, <1>5, <1>6, <1>7, Endings DEF StepOK, NotLaunched
<1>10. SuccessMeansSubmitted'
  BY <1>1, <1>4, <1>7, Endings DEF SuccessMeansSubmitted
<1>11. ResultOK'
  BY <1>1, <1>3, NodeUntouched
<1>. QED  BY <1>2, <1>8, <1>9, <1>10, <1>11 DEF IInv

LEMMA FinalizedStep ==
    ASSUME IInv, NEW a \in WellFormedAnswers, Finalized(a)
    PROVE  IInv'
<1> DEFINE check == IF ~config.validate THEN "skipped"
                    ELSE IF Validated(a) THEN "ok" ELSE "failed"
<1>1. UNCHANGED <<config, attempt, request, rx, nodeVars>>
  BY DEF Finalized
<1>2. step = "proving" /\ ~config.dryRun /\ NotLaunched /\ ending = Running /\ result \in Results
  BY DEF Finalized, IInv, StepOK, TypeOK
<1>3. /\ result' \in Results
      /\ result'.check = check
      /\ result'.blockHash = result.blockHash
      /\ result'.inclusionStatus = result.inclusionStatus
  BY <1>2 DEF Finalized, Results
<1>4. MessagesOK' /\ WatchedOK' /\ ResultOK'
  BY <1>1, <1>2, <1>3, NodeUntouched
<1>5. \/ /\ step' = "done" /\ sdk' = "idle" /\ ws' = "none"
         /\ \/ ending' = Failed("check")
            \/ ending' = Failed("config")
            \/ ending' = Succeeded /\ ~config.submit
      \/ /\ ending' = Running /\ check # "failed" /\ config.submit
         /\ \/ step' = "raw" /\ ws' = "connecting" /\ sdk' = "idle"
            \/ step' = "sdk" /\ ws' = "none" /\ sdk' = "submitting"
  BY <1>2 DEF Finalized, NotLaunched, Fail, Succeed, StartRaw
<1>6. TypeOK'
  BY <1>1, <1>3, <1>5 DEF IInv, TypeOK, nodeVars, Causes
<1>7. StepOK'
  <2>1. CASE step' = "done"
    BY <1>1, <1>2, <1>5, <2>1, Endings DEF StepOK, NotLaunched, nodeVars
  <2>2. CASE step' # "done"
    <3>1. Cleared'
      BY <1>1, <1>2, <1>3, <1>5, <2>2, Endings DEF Cleared
    <3>. QED  BY <1>1, <1>2, <1>5, <2>2, <3>1, Endings DEF StepOK, NotLaunched, nodeVars
  <2>. QED  BY <2>1, <2>2
<1>8. SuccessMeansSubmitted'
  BY <1>1, <1>5, Endings DEF SuccessMeansSubmitted
<1>. QED  BY <1>4, <1>6, <1>7, <1>8 DEF IInv

LEMMA SdkSteps ==
    ASSUME IInv, SdkResolves \/ \E late \in BOOLEAN : SdkFails(late)
    PROVE  IInv'
<1>1. UNCHANGED <<config, attempt, request, rx, nodeVars>>
  BY DEF SdkResolves, SdkFails, socketVars
<1>2. /\ step = "sdk" /\ sdk = "submitting" /\ ending = Running /\ result \in Results
      /\ ~config.dryRun /\ Cleared /\ ws \in {"none", "closed"}
  BY DEF SdkResolves, SdkFails, IInv, StepOK, NotLaunched, TypeOK
<1>3. /\ result' \in Results
      /\ result'.check = result.check
      /\ result'.blockHash = result.blockHash
      /\ result'.inclusionStatus # "finalized" \/ result' = result
  BY <1>2 DEF SdkResolves, SdkFails, Results
<1>4. \/ /\ step' = "done" /\ ending' = Succeeded /\ ws' = ws /\ sdk' = "over"
         /\ pool # "none" /\ result'.submitted
      \/ /\ step' = "done" /\ ending' \in {Failed("sdk"), Failed("config")}
         /\ ws' = ws /\ sdk' \in {"submitting", "over"} /\ result' = result
      \/ /\ step' = "raw" /\ ending' = ending /\ ws' = "connecting"
         /\ sdk' \in {"submitting", "over"} /\ result' = result
  BY <1>2 DEF SdkResolves, SdkFails, Succeed, StartRaw, Fail, Results, socketVars
<1>5. MessagesOK' /\ WatchedOK'
  BY <1>1, NodeUntouched
<1>6. ResultOK'
  BY <1>1, <1>2, <1>3, <1>4 DEF IInv, ResultOK, nodeVars, BlockHoldsTx
<1>7. TypeOK'
  BY <1>1, <1>2, <1>3, <1>4 DEF IInv, TypeOK, nodeVars, Causes
<1>8. StepOK'
  <2>1. Cleared'
    BY <1>1, <1>2, <1>3, <1>4, Endings DEF Cleared
  <2>. QED  BY <1>1, <1>2, <1>4, <2>1, Endings DEF StepOK, NotLaunched
<1>9. SuccessMeansSubmitted'
  BY <1>1, <1>2, <1>4, Endings DEF SuccessMeansSubmitted, nodeVars
<1>. QED  BY <1>5, <1>6, <1>7, <1>8, <1>9 DEF IInv

\* What onmessage does with the first message of the queue.
LEMMA MessageRead ==
    ASSUME IInv, WsMessage
    PROVE  /\ UNCHANGED <<config, attempt, sdk, request, nodeVars>>
           /\ rx # <<>> /\ rx' = Tail(rx) /\ ws = "open" /\ step = "raw"
           /\ \/ /\ UNCHANGED <<step, ending, ws, result>>
              \/ /\ \E why \in {"rpc error", "rejected"} : ending' = Failed(why)
                 /\ step' = "done" /\ ws' = "closed" /\ result' = result
              \/ /\ Finish("submitted", NoHash)
                 /\ config.waitFor = "submitted" /\ pool # "none"
              \/ \E status \in {"inBlock", "finalized"}, hash \in BlockHashes :
                    /\ Finish(status, hash)
                    /\ pool # "none" /\ BlockHoldsTx(hash)
                    /\ config.waitFor = "finalized" => status = "finalized"
                    /\ status = "finalized" => IsOn(hash, final)
<1> DEFINE m == Head(rx)
<1>1. UNCHANGED <<config, attempt, sdk, request, nodeVars>> /\ ws = "open" /\ rx # <<>>
      /\ rx' = Tail(rx) /\ rx \in Seq(Messages)
  BY DEF WsMessage, IInv, TypeOK
<1>2. step = "raw"
  BY <1>1 DEF IInv, StepOK
<1>3. MessageOK(m, pool, final)
  BY <1>1 DEF IInv, MessagesOK
<1>4. CASE m = RpcError
  BY <1>1, <1>2, <1>4, MessageFields DEF WsMessage, Fail
<1>5. CASE m = Reply
  BY <1>1, <1>3, <1>5, <1>2, MessageFields DEF WsMessage, MessageOK
<1>6. CASE m.kind = "status"
  <2>1. pool # "none"
    BY <1>3, <1>6, MessageFields DEF MessageOK
  <2>2. CASE Failure(m) /\ Fail("rejected") /\ UNCHANGED result
    BY <1>1, <1>2, <2>2 DEF Fail
  <2>3. CASE Awaited(m) /\ Finish(m.status, m.hash)
    <3>1. Included(m) /\ m.status \in {"inBlock", "finalized"}
      BY <2>3 DEF Awaited, Included
    <3>2. /\ m.hash \in BlockHashes /\ BlockHoldsTx(m.hash)
          /\ m.status = "finalized" => IsOn(m.hash, final)
      BY <1>3, <1>6, <3>1 DEF MessageOK
    <3>3. config.waitFor = "finalized" => m.status = "finalized"
      BY <2>3 DEF Awaited
    <3>. QED  BY <1>1, <1>2, <2>1, <2>3, <3>1, <3>2, <3>3
  <2>4. CASE UNCHANGED <<step, ending, ws, result>>
    BY <1>1, <1>2, <2>4
  <2>. QED  BY <1>1, <1>6, <2>2, <2>3, <2>4, MessageFields DEF WsMessage
<1>7. m = RpcError \/ m = Reply \/ m.kind = "status"
  BY <1>1, MessageFields DEF WsMessage
<1>. QED  BY <1>4, <1>5, <1>6, <1>7

LEMMA MessageStep ==
    ASSUME IInv, WsMessage
    PROVE  IInv'
<1>0. /\ UNCHANGED <<config, attempt, sdk, request, nodeVars>>
      /\ rx # <<>> /\ rx' = Tail(rx) /\ ws = "open" /\ step = "raw"
  BY MessageRead
<1>1. /\ UNCHANGED <<config, attempt, sdk, request, nodeVars>>
      /\ rx # <<>> /\ rx' = Tail(rx) /\ rx' \in Seq(Messages)
      /\ ws = "open" /\ step = "raw" /\ Cleared /\ ending = Running
      /\ result \in Results
  <2>1. rx \in Seq(Messages) /\ result \in Results
    BY DEF IInv, TypeOK
  <2>2. Cleared /\ ending = Running
    BY <1>0 DEF IInv, StepOK, NotLaunched
  <2>. QED  BY <1>0, <2>1, <2>2
<1>2. MessagesOK' /\ WatchedOK'
  <2>1. MessagesOK'
    BY <1>1, MessagesStay, ChainFromTypes DEF IInv, TypeOK, nodeVars
  <2>2. WatchedOK'
    BY <1>1 DEF IInv, WatchedOK, HoldsTx, nodeVars
  <2>. QED  BY <2>1, <2>2
<1>3. CASE UNCHANGED <<step, ending, ws, result>>
  <2>1. TypeOK' /\ StepOK' /\ ResultOK' /\ SuccessMeansSubmitted'
    BY <1>1, <1>3, Endings
       DEF IInv, TypeOK, StepOK, NotLaunched, Cleared, ResultOK, SuccessMeansSubmitted,
           nodeVars, BlockHoldsTx
  <2>. QED  BY <1>2, <2>1 DEF IInv
<1>4. CASE /\ \E why \in {"rpc error", "rejected"} : ending' = Failed(why)
           /\ step' = "done" /\ ws' = "closed" /\ result' = result
  <2>1. TypeOK'
    BY <1>1, <1>4 DEF IInv, TypeOK, nodeVars, Causes
  <2>2. Cleared'
    BY <1>1, <1>4, Endings DEF Cleared
  <2>3. StepOK'
    BY <1>1, <1>4, <2>2, Endings DEF StepOK
  <2>4. ResultOK' /\ SuccessMeansSubmitted'
    BY <1>1, <1>4, Endings DEF IInv, ResultOK, SuccessMeansSubmitted, nodeVars, BlockHoldsTx
  <2>. QED  BY <1>2, <2>1, <2>3, <2>4 DEF IInv
<1>5. ASSUME NEW status \in {"submitted", "inBlock", "finalized"},
             NEW hash \in BlockHashes \cup {NoHash},
             Finish(status, hash), pool # "none",
             hash # NoHash => BlockHoldsTx(hash) /\ status # "submitted",
             hash # NoHash /\ config.waitFor = "finalized" => status = "finalized",
             status = "finalized" => hash \in BlockHashes /\ IsOn(hash, final)
      PROVE  IInv'
  <2>1. /\ result' \in Results /\ result'.check = result.check /\ result'.submitted
        /\ result'.blockHash = hash /\ result'.inclusionStatus = status
    BY <1>1, <1>5 DEF Finish, Results
  <2>2. step' = "done" /\ ending' = Succeeded /\ ws' = "closed"
    BY <1>5 DEF Finish, Succeed
  <2>3. TypeOK'
    BY <1>1, <2>1, <2>2 DEF IInv, TypeOK, nodeVars
  <2>4. Cleared'
    BY <1>1, <2>1, <2>2, Endings DEF Cleared
  <2>5. StepOK'
    BY <1>1, <2>2, <2>4, Endings DEF StepOK
  <2>6. ResultOK' /\ SuccessMeansSubmitted'
    BY <1>1, <1>5, <2>1, <2>2 DEF ResultOK, SuccessMeansSubmitted, nodeVars, BlockHoldsTx
  <2>. QED  BY <1>2, <2>3, <2>5, <2>6 DEF IInv
<1>6. CASE Finish("submitted", NoHash) /\ pool # "none"
  BY <1>5, <1>6
<1>7. ASSUME NEW status \in {"inBlock", "finalized"}, NEW hash \in BlockHashes,
             Finish(status, hash), pool # "none", BlockHoldsTx(hash),
             config.waitFor = "finalized" => status = "finalized",
             status = "finalized" => IsOn(hash, final)
      PROVE  IInv'
  BY <1>5, <1>7
<1>. QED  BY <1>3, <1>4, <1>6, <1>7, MessageRead

LEMMA SocketSteps ==
    ASSUME IInv, WsOpen \/ WsFails \/ RawTimeout
    PROVE  IInv'
<1>1. UNCHANGED <<config, attempt, result, sdk, rx, nodeVars>>
  BY DEF WsOpen, WsFails, RawTimeout, helperVars
<1>2. /\ step = "raw" /\ ws \in {"connecting", "open"} /\ Cleared /\ ending = Running
      /\ ~config.dryRun
  BY DEF WsOpen, WsFails, RawTimeout, IInv, StepOK, NotLaunched
<1>3. \/ step' = step /\ ending' = ending /\ ws' = "open" /\ request' = TRUE
      \/ /\ step' = "done" /\ ws' = "closed" /\ request' = request
         /\ ending' \in {Failed("socket"), Failed("timeout")}
  BY <1>2 DEF WsOpen, WsFails, RawTimeout, Fail, helperVars
<1>4. MessagesOK' /\ WatchedOK' /\ ResultOK'
  BY <1>1, <1>2, NodeUntouched
<1>5. TypeOK'
  BY <1>1, <1>3 DEF IInv, TypeOK, nodeVars, Causes
<1>6. Cleared'
  BY <1>1, <1>2, <1>3, Endings DEF Cleared
<1>7. StepOK'
  BY <1>1, <1>2, <1>3, <1>6, Endings DEF StepOK
<1>8. SuccessMeansSubmitted'
  BY <1>2, <1>3, Endings DEF SuccessMeansSubmitted
<1>. QED  BY <1>4, <1>5, <1>7, <1>8 DEF IInv

-----------------------------------------------------------------------------
(* The steps of the node *)

\* A step of the node that puts messages in the socket, if any, once the
\* transaction is on its way to it or in its pool.
LEMMA NodeStepKeeps ==
    ASSUME IInv, ~NotLaunched,
           UNCHANGED <<helperVars, sdk, ws>>,
           request' = request \/ request' = FALSE,
           MessagesOK', WatchedOK', rx' \in Seq(Messages),
           pool' = pool \/ pool' \in {"in", "dropped"},
           watched' \in BOOLEAN,
           ChainOK',
           \A h \in Chains : IsOn(h, final) => IsOn(h, final'),
           ~NotLaunched'
    PROVE  IInv'
<1>1. UNCHANGED <<config, step, attempt, result, ending>>
  BY DEF helperVars
<1>2. TypeOK'
  BY <1>1 DEF IInv, TypeOK, ChainOK
<1>3. StepOK'
  BY <1>1 DEF IInv, StepOK, Cleared
<1>4. ResultOK'
  BY <1>1 DEF IInv, ResultOK, BlockHashes, BlockHoldsTx
<1>5. SuccessMeansSubmitted'
  BY <1>1 DEF IInv, SuccessMeansSubmitted
<1>. QED  BY <1>2, <1>3, <1>4, <1>5 DEF IInv

\* Whatever it says, a message that names no block of the transaction is as
\* good as the pool.
LEMMA OtherStatus ==
    ASSUME NEW inPool, inPool # "none", NEW finalChain, NEW s, NEW f, NEW h,
           f # "object" \/ s \notin {"inBlock", "finalized"}
    PROVE  MessageOK(StatusOf(s, f, h), inPool, finalChain)
BY MessageFields DEF MessageOK, Included

LEMMA RequestSteps ==
    ASSUME IInv, SdkReachesNode \/ NodeAccepts \/ NodeRefuses
    PROVE  IInv'
<1>1. /\ UNCHANGED <<helperVars, sdk, ws, best, final>>
      /\ request' = request \/ request' = FALSE
      /\ pool' = pool \/ pool' = "in"
      /\ watched' \in BOOLEAN
  BY DEF IInv, TypeOK, SdkReachesNode, NodeAccepts, NodeRefuses, socketVars, nodeVars
<1>2. ~NotLaunched
  BY DEF NotLaunched, SdkReachesNode, NodeAccepts, NodeRefuses
<1>3. pool # "none" => pool' # "none"
  BY <1>1
<1>4. rx' \in Seq(Messages) /\ MessagesOK'
  <2>1. CASE SdkReachesNode
    <3>1. rx' = rx
      BY <2>1 DEF SdkReachesNode, socketVars
    <3>. QED  BY <1>1, <1>3, <3>1, MessagesStay, ChainFromTypes DEF IInv, TypeOK
  <2>2. CASE NodeAccepts
    <3>1. pool' = "in"
      BY <2>2 DEF NodeAccepts
    <3>2. \A m \in {Reply, StatusOf("ready", "string", NoHash),
                    StatusOf("broadcast", "object", NoHash)} :
             m \in Messages /\ MessageOK(m, pool', final')
      <4>1. MessageOK(Reply, pool', final')
        BY <3>1, MessageFields DEF MessageOK
      <4>2. /\ MessageOK(StatusOf("ready", "string", NoHash), pool', final')
            /\ MessageOK(StatusOf("broadcast", "object", NoHash), pool', final')
        BY <3>1, OtherStatus
      <4>. QED  BY <4>1, <4>2, MessageTypes DEF PlainStatuses, ObjectStatuses
    <3>3. \/ rx' = <<Reply>>
          \/ rx' = <<Reply, StatusOf("ready", "string", NoHash),
                     StatusOf("broadcast", "object", NoHash)>>
      BY <2>2 DEF NodeAccepts
    <3>4. PICK x \in Messages, y \in Messages, z \in Messages :
             /\ rx' \in {<<x>>, <<x, y, z>>}
             /\ MessageOK(x, pool', final') /\ MessageOK(y, pool', final')
             /\ MessageOK(z, pool', final')
      BY <3>2, <3>3
    <3>5. rx' \in Seq(Messages) /\ \A i \in 1..Len(rx') : rx'[i] \in {x, y, z}
      <4>1. CASE rx' = <<x>>
        BY <4>1
      <4>2. CASE rx' = <<x, y, z>>
        <5>1. rx' \in Seq(Messages)
          BY <4>2
        <5>2. Len(rx') = 3 /\ rx'[1] = x /\ rx'[2] = y /\ rx'[3] = z
          BY <4>2
        <5>. QED  BY <5>1, <5>2
      <4>. QED  BY <3>4, <4>1, <4>2
    <3>. QED  BY <3>4, <3>5 DEF MessagesOK
  <2>3. CASE NodeRefuses
    <3>1. rx' = <<RpcError>>
      BY <2>3 DEF NodeRefuses
    <3>2. RpcError \in Messages /\ MessageOK(RpcError, pool', final')
      BY MessageFields, MessageTypes DEF MessageOK
    <3>3. PICK x \in Messages : rx' = <<x>> /\ MessageOK(x, pool', final')
      BY <3>1, <3>2
    <3>4. rx' \in Seq(Messages) /\ \A i \in 1..Len(rx') : rx'[i] = x
      BY <3>3
    <3>. QED  BY <3>3, <3>4 DEF MessagesOK
  <2>. QED  BY <2>1, <2>2, <2>3
<1>5. ~NotLaunched'
  BY DEF NotLaunched, SdkReachesNode, NodeAccepts, NodeRefuses
<1>6. ChainOK' /\ \A h \in Chains : IsOn(h, final) => IsOn(h, final')
  BY <1>1, ChainFromTypes DEF IInv, ChainOK
<1>7. WatchedOK'
  BY <1>1, <1>3 DEF IInv, WatchedOK, HoldsTx, SdkReachesNode, NodeAccepts, NodeRefuses, nodeVars
<1>. QED  BY <1>1, <1>2, <1>4, <1>5, <1>6, <1>7, NodeStepKeeps

\* The pool and the subscription, while the chain stays as it is.
LEMMA ReportSteps ==
    ASSUME IInv, NodeDrops \/ NodeStopsWatching
    PROVE  IInv'
<1>1. /\ UNCHANGED <<helperVars, sdk, ws, request, best, final>>
      /\ pool # "none" /\ pool' # "none"
      /\ pool' = pool \/ pool' \in {"in", "dropped"}
      /\ watched' \in BOOLEAN
  <2>1. watched => pool # "none"
    BY DEF IInv, WatchedOK
  <2>. QED  BY <2>1 DEF NodeDrops, NodeStopsWatching
<1>2. ~NotLaunched /\ ~NotLaunched'
  BY <1>1 DEF NotLaunched
<1>3. ChainOK /\ rx \in Seq(Messages) /\ MessagesOK
  BY ChainFromTypes DEF IInv, TypeOK
<1>4. ASSUME NEW s \in PlainStatuses \cup ObjectStatuses, NEW f, NEW h,
             StatusOf(s, f, h) \in Messages, s \notin {"inBlock", "finalized"},
             Report(<<StatusOf(s, f, h)>>)
      PROVE  MessagesOK' /\ rx' \in Seq(Messages)
  <2> DEFINE msgs == <<StatusOf(s, f, h)>>
  <2>1. msgs \in Seq(Messages) /\ \A i \in 1..Len(msgs) : msgs[i] = StatusOf(s, f, h)
    BY <1>4
  <2>2. MessageOK(StatusOf(s, f, h), pool', final')
    BY <1>1, <1>4, OtherStatus
  <2>3. Report(msgs)
    BY <1>4
  <2> HIDE DEF msgs
  <2>4. \A i \in 1..Len(msgs) : MessageOK(msgs[i], pool', final')
    BY <2>1, <2>2
  <2>5. final' = final
    BY <1>1
  <2>. QED  BY <1>1, <1>3, <2>1, <2>3, <2>4, <2>5, MessagesAppended
<1>5. NodeDrops => MessagesOK' /\ rx' \in Seq(Messages)
  <2>. SUFFICES ASSUME NodeDrops
                PROVE  MessagesOK' /\ rx' \in Seq(Messages)
    OBVIOUS
  <2>1. ASSUME NEW s \in {"invalid", "dropped"}, Report(<<StatusOf(s, "string", NoHash)>>)
        PROVE  MessagesOK' /\ rx' \in Seq(Messages)
    <3>1. StatusOf(s, "string", NoHash) \in Messages
      BY MessageTypes DEF PlainStatuses
    <3>2. s \in PlainStatuses \cup ObjectStatuses /\ s \notin {"inBlock", "finalized"}
      BY DEF PlainStatuses
    <3>. QED  BY <1>4, <2>1, <3>1, <3>2
  <2>2. ASSUME NEW s \in {"invalid", "dropped", "usurped"},
               Report(<<StatusOf(s, "object", NoHash)>>)
        PROVE  MessagesOK' /\ rx' \in Seq(Messages)
    <3>1. StatusOf(s, "object", NoHash) \in Messages
      BY MessageTypes DEF ObjectStatuses
    <3>2. s \in PlainStatuses \cup ObjectStatuses /\ s \notin {"inBlock", "finalized"}
      BY DEF ObjectStatuses
    <3>. QED  BY <1>4, <2>2, <3>1, <3>2
  <2>. QED  BY <2>1, <2>2 DEF NodeDrops
<1>6. NodeStopsWatching => MessagesOK' /\ rx' \in Seq(Messages)
  <2>. SUFFICES ASSUME NodeStopsWatching
                PROVE  MessagesOK' /\ rx' \in Seq(Messages)
    OBVIOUS
  <2> DEFINE h == InclusionBlock(best)
  <2>1. h \in BlockHashes
    BY <1>3, InclusionBlockHolds DEF ChainOK, NodeStopsWatching
  <2>2. StatusOf("finalityTimeout", "object", h) \in Messages
    BY <2>1, MessageTypes DEF ObjectStatuses
  <2>3. Report(<<StatusOf("finalityTimeout", "object", h)>>)
    BY DEF NodeStopsWatching
  <2>4. "finalityTimeout" \in PlainStatuses \cup ObjectStatuses
    BY DEF ObjectStatuses
  <2> HIDE DEF h
  <2>. QED  BY <1>4, <2>2, <2>3, <2>4
<1>7. ChainOK' /\ \A h \in Chains : IsOn(h, final) => IsOn(h, final')
  BY <1>1, <1>3 DEF ChainOK
<1>8. MessagesOK' /\ rx' \in Seq(Messages)
  BY <1>5, <1>6
<1>9. WatchedOK'
  BY <1>1 DEF WatchedOK
<1>. QED  BY <1>1, <1>2, <1>7, <1>8, <1>9, NodeStepKeeps

LEMMA ImportStep ==
    ASSUME IInv, NEW chain \in Chains, NodeImports(chain)
    PROVE  IInv'
<1> DEFINE left == HoldsTx(best) /\ ~IsOn(InclusionBlock(best), chain)
           entered == HoldsTx(chain) /\ ~IsOn(InclusionBlock(chain), best)
           retracted == StatusOf("retracted", "object", InclusionBlock(best))
           inBlock == StatusOf("inBlock", "object", InclusionBlock(chain))
           msgs == (IF left THEN <<retracted>> ELSE <<>>)
                   \o (IF entered THEN <<inBlock>> ELSE <<>>)
<1>1. /\ UNCHANGED <<helperVars, sdk, ws, request, pool, watched>>
      /\ HoldsTx(chain) => pool = "in"
      /\ Import(chain)
      /\ Report(msgs)
  BY DEF NodeImports
<1>2. ChainOK /\ ChainOK' /\ final' = final /\ best' = chain
  BY <1>1, ChainFromTypes, ImportKeepsChain DEF IInv
<1>3. left => retracted \in Messages /\ MessageOK(retracted, pool', final')
  <2>. SUFFICES ASSUME left
                PROVE  retracted \in Messages /\ MessageOK(retracted, pool', final')
    OBVIOUS
  <2>1. InclusionBlock(best) \in BlockHashes
    BY <1>2, InclusionBlockHolds DEF ChainOK
  <2>2. pool' # "none"
    BY <1>1 DEF IInv, WatchedOK
  <2>. QED  BY <2>1, <2>2, OtherStatus, MessageTypes DEF ObjectStatuses
<1>4. entered => inBlock \in Messages /\ MessageOK(inBlock, pool', final')
  <2>. SUFFICES ASSUME entered
                PROVE  inBlock \in Messages /\ MessageOK(inBlock, pool', final')
    OBVIOUS
  <2>1. InclusionBlock(chain) \in BlockHashes /\ BlockHoldsTx(InclusionBlock(chain))
    BY InclusionBlockHolds
  <2>2. pool' # "none"
    BY <1>1
  <2>3. inBlock \in Messages
    BY <2>1, MessageTypes DEF ObjectStatuses
  <2>. QED  BY <2>1, <2>2, <2>3, MessageFields DEF MessageOK
<1>5. msgs \in Seq(Messages) /\ \A i \in 1..Len(msgs) : MessageOK(msgs[i], pool', final')
  <2>1. CASE left /\ entered
    <3>1. msgs = <<retracted, inBlock>>
      BY <2>1, ShortConcatenations
    <3> HIDE DEF msgs, retracted, inBlock
    <3>. QED  BY <1>3, <1>4, <2>1, <3>1
  <2>2. CASE left /\ ~entered
    <3>1. msgs = <<retracted>>
      BY <2>2, ShortConcatenations
    <3> HIDE DEF msgs, retracted, inBlock
    <3>. QED  BY <1>3, <2>2, <3>1
  <2>3. CASE ~left /\ entered
    <3>1. msgs = <<inBlock>>
      BY <2>3, ShortConcatenations
    <3> HIDE DEF msgs, retracted, inBlock
    <3>. QED  BY <1>4, <2>3, <3>1
  <2>4. CASE ~left /\ ~entered
    <3>1. msgs = <<>>
      BY <2>4
    <3>. QED  BY <3>1
  <2>. QED  BY <2>1, <2>2, <2>3, <2>4
<1> HIDE DEF msgs, left, entered, retracted, inBlock
<1>6. MessagesOK' /\ rx' \in Seq(Messages)
  <2>1. MessagesOK /\ rx \in Seq(Messages) /\ pool' = pool
    BY <1>1 DEF IInv, TypeOK
  <2>. QED  BY <1>1, <1>2, <1>5, <2>1, MessagesAppended
<1>7. WatchedOK'
  BY <1>1, <1>2 DEF IInv, WatchedOK
<1>8. CASE NotLaunched
  <2>1. pool = "none" /\ ~HoldsTx(best) /\ ~HoldsTx(chain) /\ ~watched
    BY <1>1, <1>8 DEF NotLaunched, IInv, WatchedOK
  <2>2. rx' = rx
    BY <1>1, <2>1 DEF Report, Watching
  <2>3. UNCHANGED <<config, step, attempt, result, ending, sdk, ws, request, rx, pool,
                    watched>>
    BY <1>1, <2>2 DEF helperVars
  <2>4. TypeOK' /\ StepOK' /\ ResultOK' /\ SuccessMeansSubmitted'
    BY <1>2, <2>3 DEF IInv, TypeOK, ChainOK, StepOK, NotLaunched, Cleared, ResultOK,
                      BlockHoldsTx, SuccessMeansSubmitted
  <2>. QED  BY <1>6, <1>7, <2>4 DEF IInv
<1>9. CASE ~NotLaunched
  <2>1. ~NotLaunched'
    <3>1. rx' = <<>> => rx = <<>>
      <4>1. \A q \in Seq(Messages), r \in Seq(Messages) : q \o r = <<>> => q = <<>>
        BY ConcatProperties, EmptySeq
      <4>. QED  BY <1>1, <1>5, <4>1 DEF Report, IInv, TypeOK
    <3>. QED  BY <1>1, <1>9, <3>1 DEF NotLaunched
  <2>. QED  BY <1>1, <1>2, <1>6, <1>7, <1>9, <2>1, NodeStepKeeps
            DEF IInv, TypeOK
<1>. QED  BY <1>8, <1>9

LEMMA FinalizeStep ==
    ASSUME IInv, NEW height \in 1..MaxHeight, NodeFinalizes(height)
    PROVE  IInv'
<1> DEFINE now == HoldsTx(SubSeq(best, 1, height)) /\ ~HoldsTx(final)
           finalized == StatusOf("finalized", "object", InclusionBlock(best))
           msgs == IF now THEN <<finalized>> ELSE <<>>
<1>1. /\ UNCHANGED <<helperVars, sdk, ws, request, pool>>
      /\ watched' = (watched /\ ~now)
      /\ Finalize(height)
      /\ Report(msgs)
  BY DEF NodeFinalizes
<1>2. ChainOK /\ ChainOK' /\ final' = SubSeq(best, 1, height) /\ best' = best
  BY <1>1, ChainFromTypes, FinalizeKeepsChain DEF IInv
<1>3. now => /\ HoldsTx(best)
             /\ finalized \in Messages
             /\ MessageOK(finalized, pool', final')
  <2>. SUFFICES ASSUME now
                PROVE  /\ HoldsTx(best)
                       /\ finalized \in Messages
                       /\ MessageOK(finalized, pool', final')
    OBVIOUS
  <2>1. HoldsTx(final') /\ final' \in Chains /\ best \in Chains /\ IsOn(final', best)
    BY <1>2 DEF ChainOK
  <2>2. HoldsTx(best)
    <3>1. /\ Len(final') <= Len(best) /\ Len(final') \in Nat /\ Len(best) \in Nat
          /\ DOMAIN final' = 1..Len(final') /\ DOMAIN best = 1..Len(best)
          /\ \A i \in 1..Len(final') : final'[i] = best[i]
      BY <2>1, OnChain, ChainType
    <3>2. PICK i \in 1..Len(final') : final'[i].tx
      BY <2>1, <3>1 DEF HoldsTx
    <3>. QED  BY <3>1, <3>2 DEF HoldsTx
  <2>3. /\ InclusionBlock(best) \in BlockHashes
        /\ BlockHoldsTx(InclusionBlock(best))
        /\ IsOn(InclusionBlock(best), final')
    BY <2>1, <2>2, InclusionBlockHolds
  <2>4. pool' # "none"
    BY <1>1, <2>2 DEF IInv, WatchedOK
  <2>5. finalized \in Messages
    BY <2>3, MessageTypes DEF ObjectStatuses
  <2>. QED  BY <2>2, <2>3, <2>4, <2>5, MessageFields DEF MessageOK
<1>4. msgs \in Seq(Messages) /\ \A i \in 1..Len(msgs) : MessageOK(msgs[i], pool', final')
  <2>1. CASE now
    <3>1. msgs = <<finalized>>
      BY <2>1
    <3> HIDE DEF msgs, finalized
    <3>. QED  BY <1>3, <2>1, <3>1
  <2>2. CASE ~now
    <3>1. msgs = <<>>
      BY <2>2
    <3>. QED  BY <3>1
  <2>. QED  BY <2>1, <2>2
<1> HIDE DEF msgs, now, finalized
<1>5. MessagesOK' /\ rx' \in Seq(Messages)
  <2>1. MessagesOK /\ rx \in Seq(Messages) /\ pool' = pool
    BY <1>1 DEF IInv, TypeOK
  <2>. QED  BY <1>1, <1>2, <1>4, <2>1, MessagesAppended
<1>6. WatchedOK' /\ watched' \in BOOLEAN
  BY <1>1, <1>2 DEF IInv, WatchedOK, TypeOK
<1>7. \A h \in Chains : IsOn(h, final) => IsOn(h, final')
  BY <1>1, <1>2, FinalStays
<1>8. CASE NotLaunched
  <2>1. pool = "none" /\ ~watched
    BY <1>8 DEF NotLaunched
  <2>2. rx' = rx /\ watched' = watched
    <3>1. rx' = rx
      BY <1>1, <2>1 DEF Report, Watching
    <3>2. watched = FALSE
      BY <2>1 DEF IInv, TypeOK
    <3>. QED  BY <1>1, <3>1, <3>2
  <2>3. UNCHANGED <<config, step, attempt, result, ending, sdk, ws, request, rx, pool,
                    watched>>
    BY <1>1, <2>2 DEF helperVars
  <2>4. TypeOK'
    BY <1>2, <2>3 DEF IInv, TypeOK, ChainOK
  <2>5. StepOK' /\ SuccessMeansSubmitted'
    BY <2>3 DEF IInv, StepOK, NotLaunched, Cleared, SuccessMeansSubmitted
  <2>6. ResultOK'
    BY <1>7, <2>3 DEF IInv, ResultOK, BlockHashes, BlockHoldsTx
  <2>. QED  BY <1>5, <1>6, <2>4, <2>5, <2>6 DEF IInv
<1>9. CASE ~NotLaunched
  <2>1. ~NotLaunched'
    <3>1. rx' = <<>> => rx = <<>>
      <4>1. \A q \in Seq(Messages), r \in Seq(Messages) : q \o r = <<>> => q = <<>>
        BY ConcatProperties, EmptySeq
      <4>. QED  BY <1>1, <1>4, <4>1 DEF Report, IInv, TypeOK
    <3>2. watched /\ ~watched' => pool # "none"
      BY DEF IInv, WatchedOK
    <3>. QED  BY <1>1, <1>9, <3>1, <3>2 DEF NotLaunched
  <2>. QED  BY <1>1, <1>2, <1>5, <1>6, <1>7, <1>9, <2>1, NodeStepKeeps
<1>. QED  BY <1>8, <1>9

-----------------------------------------------------------------------------
(* The theorems *)

LEMMA InitIInv == Init => IInv
<1>. SUFFICES ASSUME Init
              PROVE  IInv
  OBVIOUS
<1>1. <<>> \in Chains /\ IsOn(<<>>, <<>>) /\ ~HoldsTx(<<>>)
  <2>1. <<>> \in Chains /\ ~HoldsTx(<<>>)
    BY ChainAssumption DEF Chains, SeqOf, HoldsTx
  <2>. QED  BY <2>1, OnItself
<1>2. TypeOK
  <2>1. result \in Results
    BY DEF Init, Results
  <2>2. rx \in Seq(Messages)
    BY DEF Init
  <2>3. 1 \in 1..ProveAttempts
    BY HelperAssumption
  <2>. QED  BY <1>1, <2>1, <2>2, <2>3 DEF Init, TypeOK
<1>3. StepOK /\ WatchedOK /\ MessagesOK
  BY <1>1, Endings DEF Init, StepOK, NotLaunched, Configs, WatchedOK, MessagesOK
<1>4. ResultOK /\ SuccessMeansSubmitted
  BY Endings DEF Init, ResultOK, SuccessMeansSubmitted
<1>. QED  BY <1>2, <1>3, <1>4 DEF IInv

LEMMA NextIInv ==
    ASSUME IInv, [Next]_vars
    PROVE  IInv'
<1>1. CASE UNCHANGED vars
  BY <1>1 DEF vars, helperVars, socketVars, nodeVars, IInv, TypeOK, StepOK, NotLaunched,
              Cleared, WatchedOK, HoldsTx, MessagesOK, ResultOK, BlockHoldsTx,
              SuccessMeansSubmitted
<1>2. CASE HelperStep
  BY <1>2, EarlySteps, FinalizedStep, SdkSteps, MessageStep, SocketSteps DEF HelperStep
<1>3. CASE WsOpen
  BY <1>3, SocketSteps
<1>4. CASE NodeStep
  BY <1>4, RequestSteps, ReportSteps, ImportStep, FinalizeStep DEF NodeStep
<1>. QED  BY <1>1, <1>2, <1>3, <1>4 DEF Next

\* The invariant that relates the await the helper is at, the messages on their
\* way to it and the node's pool and chain holds always.
THEOREM Spec_IInv == Spec => []IInv
BY InitIInv, NextIInv, PTL DEF Spec

\* Every variable of the helper, the websocket and the node keeps its type; in
\* particular the attempts of retryAsync stay within their bound.
THEOREM Spec_TypeOK == Spec => []TypeOK
<1>1. IInv => TypeOK
  BY DEF IInv
<1>. QED  BY <1>1, Spec_IInv, PTL

\* Whatever the chain does, what the helper reports of the inclusion of its
\* transaction is so: the block holds it, and one called final is final.
THEOREM Spec_ReportedInclusionIsReal == Spec => []ReportedInclusionIsReal
<1>1. IInv => ReportedInclusionIsReal
  BY DEF IInv, ResultOK, ReportedInclusionIsReal
<1>. QED  BY <1>1, Spec_IInv, PTL

\* Every successful run with --submit handed its transaction to a node.
THEOREM Spec_SuccessMeansSubmitted == Spec => []SuccessMeansSubmitted
<1>1. IInv => SuccessMeansSubmitted
  BY DEF IInv
<1>. QED  BY <1>1, Spec_IInv, PTL

\* No node sees a transaction whose proofs or optional check failed, or that
\* was not to be submitted, on any of the three paths.
THEOREM Spec_OnlyCheckedReachesNode == Spec => []OnlyCheckedReachesNode
<1>1. IInv => OnlyCheckedReachesNode
  BY DEF IInv, StepOK, NotLaunched, Cleared, OnlyCheckedReachesNode
<1>. QED  BY <1>1, Spec_IInv, PTL

-----------------------------------------------------------------------------
(* The variant of the run *)

\* What Remaining says at each await, and the room it has there.
Countdown ==
    /\ attempt \in Nat /\ attempt <= ProveAttempts
    /\ step = "start" => Remaining = ProveAttempts + 5
    /\ step = "syncing" => Remaining = ProveAttempts + 4
    /\ step = "balancing" => Remaining = ProveAttempts + 3
    /\ step = "proving" => Remaining = ProveAttempts + 3 - attempt
    /\ step = "sdk" => Remaining = 2
    /\ step = "raw" => Remaining = 1
    /\ step = "done" => Remaining = 0

LEMMA RemainingIs == TypeOK => Countdown
BY HelperAssumption DEF TypeOK, Remaining, Countdown

\* A step of the helper is taken before the end, and either leaves the await and
\* the attempt as they are or comes nearer to the end.
LEMMA HelperComesNearer ==
    ASSUME IInv, IInv', HelperStep
    PROVE  /\ ending = Running
           /\ step' # step \/ attempt' # attempt => Remaining' < Remaining
<1> USE HelperAssumption
<1>1. Countdown /\ Countdown' /\ attempt >= 1
  <2>1. TypeOK /\ TypeOK'
    BY DEF IInv
  <2>2. Countdown' \/ ~TypeOK'
    BY RemainingIs, PTL
  <2>. QED  BY <2>1, <2>2, RemainingIs DEF TypeOK
<1>2. step # "done" => ending = Running
  BY DEF IInv, StepOK
<1>3. CASE DryRun \/ WalletStarted \/ WalletSynced \/ Balanced \/ WalletFails
  <2>1. \/ step = "start" /\ step' \in {"done", "syncing"}
        \/ step = "syncing" /\ step' \in {"done", "balancing"}
        \/ step = "balancing" /\ step' \in {"done", "proving"}
    BY <1>3 DEF DryRun, WalletStarted, WalletSynced, Balanced, WalletFails, Succeed, Fail
  <2>2. attempt' = attempt
    BY <1>3 DEF DryRun, WalletStarted, WalletSynced, Balanced, WalletFails
  <2>. QED  BY <1>1, <1>2, <2>1, <2>2 DEF Countdown
<1>4. CASE ProveFails
  <2>1. /\ step = "proving"
        /\ \/ step' = "done" /\ attempt' = attempt
           \/ step' = "proving" /\ attempt' = attempt + 1
    BY <1>4 DEF ProveFails, Fail
  <2>. QED  BY <1>1, <1>2, <2>1 DEF Countdown
<1>5. ASSUME NEW a \in WellFormedAnswers, Finalized(a)
      PROVE  /\ step = "proving" /\ step' \in {"done", "raw", "sdk"}
             /\ attempt' = attempt
  BY <1>5 DEF Finalized, Fail, Succeed, StartRaw
<1>6. CASE \E a \in WellFormedAnswers : Finalized(a)
  <2>1. step = "proving" /\ step' \in {"done", "raw", "sdk"} /\ attempt' = attempt
    BY <1>5, <1>6
  <2>. QED  BY <1>1, <1>2, <2>1 DEF Countdown
<1>7. CASE SdkResolves \/ \E late \in BOOLEAN : SdkFails(late)
  <2>1. step = "sdk" /\ step' \in {"done", "raw"} /\ attempt' = attempt
    BY <1>7 DEF SdkResolves, SdkFails, Succeed, Fail, StartRaw
  <2>. QED  BY <1>1, <1>2, <2>1 DEF Countdown
<1>8. CASE WsMessage
  <2>1. step = "raw" /\ step' \in {"done", "raw"} /\ attempt' = attempt
    BY <1>8, MessageRead DEF Finish, Succeed
  <2>. QED  BY <1>1, <1>2, <2>1 DEF Countdown
<1>9. CASE WsFails \/ RawTimeout
  <2>1. step = "raw" /\ step' = "done" /\ attempt' = attempt
    BY <1>9 DEF WsFails, RawTimeout, Fail
  <2>. QED  BY <1>1, <1>2, <2>1 DEF Countdown
<1>. QED  BY <1>3, <1>4, <1>6, <1>7, <1>8, <1>9 DEF HelperStep

\* The steps of the socket and of the node are none of the helper's.
LEMMA OthersLeaveHelper ==
    ASSUME WsOpen \/ NodeStep \/ UNCHANGED vars
    PROVE  UNCHANGED helperVars
BY DEF WsOpen, NodeStep, SdkReachesNode, NodeAccepts, NodeRefuses, NodeDrops,
       NodeStopsWatching, NodeImports, NodeFinalizes, vars

\* For every number of proof attempts, every mode and every chain, no await of
\* the run comes back, a retry of the proofs and the fallback included, so that
\* it has at most ProveAttempts + 5 of them; and no late answer of the wallet
\* SDK, the socket or the node changes what the run ended with.
THEOREM Spec_NeverTurnsBack == Spec => NeverTurnsBack
<1>1. IInv /\ IInv' /\ [Next]_vars =>
        [/\ step' # step \/ attempt' # attempt => Remaining' < Remaining
         /\ ending # Running => UNCHANGED helperVars]_vars
  <2>. SUFFICES ASSUME IInv, IInv', [Next]_vars
                PROVE  /\ step' # step \/ attempt' # attempt => Remaining' < Remaining
                       /\ ending # Running => UNCHANGED helperVars
    OBVIOUS
  <2>1. CASE HelperStep
    BY <2>1, HelperComesNearer
  <2>2. CASE WsOpen \/ NodeStep \/ UNCHANGED vars
    BY <2>2, OthersLeaveHelper DEF helperVars
  <2>. QED  BY <2>1, <2>2 DEF Next
<1>. QED  BY <1>1, Spec_IInv, PTL DEF Spec, NeverTurnsBack

-----------------------------------------------------------------------------
(* The run as a submission: BalanceSubmit implements SubmissionPromise. *)

\* What the promise needs beyond IInv: only what was handed out is taken, and
\* the result record says so when the run succeeds, and not before.
PromiseInv ==
    /\ request \/ pool # "none" => HandedOut
    /\ step # "done" => ~result.submitted /\ result.inclusionStatus = "none"
    /\ ending = Succeeded => (result.submitted <=> HandedOut)
    /\ result.inclusionStatus = "finalized" => result.submitted

\* A step moves one thing on: the chain, the pool, the run towards a
\* submission, or the run to its end.
ChainMoves ==
    /\ ending' = ending /\ result' = result
    /\ pool' = pool /\ (HandedOut' <=> HandedOut)
    /\ HoldsTx(final) => HoldsTx(final')
PoolMoves ==
    /\ ending' = ending /\ result' = result
    /\ final' = final /\ (HandedOut' <=> HandedOut)
    /\ pool # "none" => pool' # "none"
RunMoves ==
    /\ ending = Running /\ ending' = Running
    /\ pool' = pool /\ final' = final
    /\ HandedOut => HandedOut'
RunEnds ==
    /\ ending = Running /\ ending' # Running
    /\ pool' = pool /\ final' = final
    /\ (HandedOut' <=> HandedOut)

\* The steps before the proofs and a dry run hand nothing out.
LEMMA EarlyMoves ==
    ASSUME IInv, PromiseInv,
           DryRun \/ WalletStarted \/ WalletSynced \/ Balanced \/ WalletFails \/ ProveFails
    PROVE  (RunMoves \/ RunEnds) /\ PromiseInv'
<1>1. UNCHANGED <<config, result, sdk, request, rx, nodeVars>>
  BY DEF DryRun, WalletStarted, WalletSynced, Balanced, WalletFails, ProveFails, socketVars
<1>2. NotLaunched /\ step \in {"start", "syncing", "balancing", "proving"} /\ ending = Running
  BY DEF IInv, StepOK, DryRun, WalletStarted, WalletSynced, Balanced, WalletFails, ProveFails
<1>3. ws' = ws
  BY <1>2 DEF NotLaunched, DryRun, WalletStarted, WalletSynced, Balanced, WalletFails,
              ProveFails, Fail, socketVars
<1>4. ~HandedOut /\ ~HandedOut' /\ pool' = pool /\ final' = final
  BY <1>1, <1>2, <1>3 DEF HandedOut, NotLaunched, nodeVars
<1>5. PromiseInv'
  BY <1>1, <1>2, <1>4 DEF PromiseInv, NotLaunched
<1>. QED  BY <1>2, <1>4, <1>5 DEF RunMoves, RunEnds

\* The choice of the path hands the transaction out or ends the run, not both.
LEMMA FinalizedMoves ==
    ASSUME IInv, PromiseInv, NEW a \in WellFormedAnswers, Finalized(a)
    PROVE  (RunMoves \/ RunEnds) /\ PromiseInv'
<1>1. /\ UNCHANGED <<config, attempt, request, rx, nodeVars>>
      /\ step = "proving" /\ NotLaunched /\ ending = Running /\ result \in Results
  BY DEF Finalized, IInv, StepOK, TypeOK
<1>2. /\ result'.submitted = result.submitted
      /\ result'.inclusionStatus = result.inclusionStatus
  BY <1>1 DEF Finalized, Results
<1>3. \/ step' = "done" /\ sdk' = "idle" /\ ws' = "none" /\ ending' # Running
      \/ step' # "done" /\ ending' = Running
  BY <1>1, Endings DEF Finalized, NotLaunched, Fail, Succeed, StartRaw
<1>4. pool' = pool /\ final' = final /\ ~HandedOut /\ (step' = "done" => ~HandedOut')
  BY <1>1, <1>3, Endings DEF HandedOut, NotLaunched, nodeVars
<1>5. PromiseInv'
  BY <1>1, <1>2, <1>3, <1>4, Endings DEF PromiseInv, NotLaunched
<1>. QED  BY <1>1, <1>3, <1>4, <1>5, Endings DEF RunMoves, RunEnds

\* The wallet SDK's submission, and the fallback after it.
LEMMA SdkMoves ==
    ASSUME IInv, PromiseInv, SdkResolves \/ \E late \in BOOLEAN : SdkFails(late)
    PROVE  (RunMoves \/ RunEnds) /\ PromiseInv'
<1>1. /\ UNCHANGED <<config, attempt, request, rx, nodeVars>>
      /\ step = "sdk" /\ sdk = "submitting" /\ ending = Running /\ result \in Results
  BY DEF SdkResolves, SdkFails, socketVars, IInv, StepOK, TypeOK
<1>2. \/ step' = "done" /\ ending' = Succeeded /\ result'.submitted
      \/ /\ step' = "done" /\ ending' \in {Failed("sdk"), Failed("config")}
         /\ result' = result
      \/ step' = "raw" /\ ending' = ending /\ result' = result
  BY <1>1 DEF SdkResolves, SdkFails, Succeed, StartRaw, Fail, Results
<1>3. sdk' \in {"submitting", "over"}
  BY <1>1 DEF SdkResolves, SdkFails
<1>4. HandedOut /\ HandedOut' /\ pool' = pool /\ final' = final
  BY <1>1, <1>3 DEF HandedOut, nodeVars
<1>5. PromiseInv'
  BY <1>1, <1>2, <1>4, Endings DEF PromiseInv
<1>. QED  BY <1>1, <1>2, <1>4, <1>5, Endings DEF RunMoves, RunEnds

\* The websocket submission is awaited with the socket connecting or open.
LEMMA RawMoves ==
    ASSUME IInv, PromiseInv, WsMessage \/ WsFails \/ RawTimeout
    PROVE  (RunMoves \/ RunEnds) /\ PromiseInv'
<1>1. /\ UNCHANGED <<sdk, request, nodeVars>>
      /\ \/ step' = step /\ ending' = ending /\ result' = result /\ ws' = ws
         \/ /\ step' = "done" /\ ws' = "closed" /\ result' = result
            /\ \E why \in Causes : ending' = Failed(why)
         \/ /\ step' = "done" /\ ws' = "closed" /\ ending' = Succeeded
            /\ \E status, hash :
                  result' = [result EXCEPT !.submitted = TRUE, !.blockHash = hash,
                                           !.inclusionStatus = status]
  <2>1. CASE WsMessage
    BY <2>1, MessageRead DEF Finish, Succeed, Causes
  <2>2. CASE WsFails \/ RawTimeout
    <3>1. step = "raw" /\ ws \in {"connecting", "open"}
      BY <2>2 DEF WsFails, RawTimeout, IInv, StepOK
    <3>. QED  BY <2>2, <3>1 DEF WsFails, RawTimeout, Fail, Causes
  <2>. QED  BY <2>1, <2>2
<1>2. /\ step = "raw" /\ ws \in {"connecting", "open"} /\ ending = Running
      /\ result \in Results
  <2>1. step = "raw"
    BY MessageRead DEF WsFails, RawTimeout
  <2>. QED  BY <2>1 DEF IInv, StepOK, TypeOK
<1>3. ending' = Succeeded => result'.submitted
  BY <1>1, <1>2, Endings DEF Results
<1>4. HandedOut /\ HandedOut' /\ pool' = pool /\ final' = final
  BY <1>1, <1>2 DEF HandedOut, nodeVars
<1>5. PromiseInv'
  <2>1. CASE result' = result
    BY <1>1, <1>2, <1>3, <1>4, <2>1, Endings DEF PromiseInv
  <2>2. CASE ending' = Succeeded /\ step' = "done" /\ result'.submitted
    BY <1>4, <2>2 DEF PromiseInv
  <2>. QED  BY <1>1, <1>3, <2>1, <2>2
<1>6. ending' = Running \/ ending' # Running
  OBVIOUS
<1>. QED  BY <1>2, <1>4, <1>5, <1>6 DEF RunMoves, RunEnds

\* The request leaves with the socket that was opened for it.
LEMMA OpenMoves ==
    ASSUME IInv, PromiseInv, WsOpen
    PROVE  RunMoves /\ PromiseInv'
<1>1. /\ UNCHANGED <<helperVars, sdk, rx, nodeVars>>
      /\ ws = "connecting" /\ ws' = "open" /\ ending = Running
  BY DEF WsOpen, IInv, StepOK
<1>. QED  BY <1>1 DEF PromiseInv, RunMoves, HandedOut, helperVars, nodeVars

\* The node moves its pool or its chain, and takes only what was handed out.
LEMMA NodeMoves ==
    ASSUME IInv, PromiseInv, NodeStep
    PROVE  (ChainMoves \/ PoolMoves) /\ PromiseInv'
<1>1. UNCHANGED <<helperVars, sdk, ws>> /\ (HandedOut' <=> HandedOut)
  BY DEF NodeStep, SdkReachesNode, NodeAccepts, NodeRefuses, NodeDrops, NodeStopsWatching,
         NodeImports, NodeFinalizes, HandedOut, socketVars
<1>2. CASE SdkReachesNode \/ NodeAccepts \/ NodeRefuses \/ NodeDrops \/ NodeStopsWatching
  <2>1. /\ final' = final
        /\ pool # "none" => pool' # "none"
        /\ pool' # "none" => pool # "none" \/ HandedOut
        /\ request' => request
    BY <1>2 DEF SdkReachesNode, NodeAccepts, NodeRefuses, NodeDrops, NodeStopsWatching,
                HandedOut, PromiseInv, socketVars, nodeVars
  <2>. QED  BY <1>1, <2>1 DEF PoolMoves, PromiseInv, helperVars
<1>3. CASE \E c \in Chains : NodeImports(c)
  <2>1. final' = final /\ pool' = pool /\ request' = request
    BY <1>3 DEF NodeImports, Import
  <2>. QED  BY <1>1, <2>1 DEF PoolMoves, PromiseInv, helperVars
<1>4. CASE \E n \in 1..MaxHeight : NodeFinalizes(n)
  <2>1. PICK n \in 1..MaxHeight : NodeFinalizes(n)
    BY <1>4
  <2>2. pool' = pool /\ request' = request /\ Finalize(n)
    BY <2>1 DEF NodeFinalizes
  <2>3. ChainOK
    BY ChainFromTypes DEF IInv
  <2>4. HoldsTx(final) => HoldsTx(final')
    BY <2>2, <2>3, FinalizeKeepsChain, OnChain DEF HoldsTx, ChainOK
  <2>. QED  BY <1>1, <2>2, <2>4 DEF ChainMoves, PromiseInv, helperVars
<1>. QED  BY <1>2, <1>3, <1>4 DEF NodeStep

\* Every step is of one of the four kinds, and keeps PromiseInv.
LEMMA PromiseStep ==
    ASSUME IInv, PromiseInv, [Next]_vars
    PROVE  /\ PromiseInv'
           /\ UNCHANGED vars \/ ChainMoves \/ PoolMoves \/ RunMoves \/ RunEnds
<1>1. CASE UNCHANGED vars
  BY <1>1 DEF vars, helperVars, socketVars, nodeVars, PromiseInv, HandedOut
<1>2. CASE HelperStep
  BY <1>2, EarlyMoves, FinalizedMoves, SdkMoves, RawMoves DEF HelperStep
<1>3. CASE WsOpen \/ NodeStep
  BY <1>3, OpenMoves, NodeMoves
<1>. QED  BY <1>1, <1>2, <1>3 DEF Next

\* The record and what was handed out agree in every state of a run.
THEOREM Spec_PromiseInv == Spec => []PromiseInv
<1>1. Init => PromiseInv
  BY Endings DEF Init, PromiseInv, HandedOut
<1>. QED  BY <1>1, PromiseStep, Spec_IInv, PTL DEF Spec

\* A chain that a block with the transaction is on holds the transaction.
LEMMA BlockInChain ==
    ASSUME NEW h \in BlockHashes, NEW c \in Chains, IsOn(h, c), BlockHoldsTx(h)
    PROVE  HoldsTx(c)
<1>1. h \in Chains /\ h # <<>>
  BY DEF BlockHashes
<1>2. h \in Seq(Header) /\ Len(h) \in Nat /\ Len(c) \in Nat /\ DOMAIN c = 1..Len(c)
  BY <1>1, ChainType
<1>3. Len(h) # 0
  BY <1>1, <1>2, EmptySeq
<1>4. Len(h) <= Len(c) /\ \A i \in 1..Len(h) : h[i] = c[i]
  BY <1>1, OnChain
<1>5. Len(h) \in 1..Len(h) /\ Len(h) \in 1..Len(c)
  BY <1>2, <1>3, <1>4, SMT
<1>. QED  BY <1>2, <1>4, <1>5 DEF BlockHoldsTx, HoldsTx

\* What is in a final block is in the pool, and what is in the pool was handed
\* out.
TakenWasHandedOut ==
    (HoldsTx(final) => pool # "none") /\ (pool # "none" => HandedOut)

LEMMA FinalIsTaken == IInv /\ PromiseInv => TakenWasHandedOut
<1>. SUFFICES ASSUME IInv, PromiseInv
              PROVE  TakenWasHandedOut
  OBVIOUS
<1>1. IsOn(final, best) /\ final \in Chains /\ best \in Chains
  BY DEF IInv, TypeOK
<1>2. HoldsTx(final) => HoldsTx(best)
  <2>1. /\ DOMAIN final = 1..Len(final) /\ DOMAIN best = 1..Len(best)
        /\ Len(final) \in Nat /\ Len(best) \in Nat
    BY <1>1, ChainType
  <2>2. Len(final) <= Len(best) /\ \A i \in 1..Len(final) : final[i] = best[i]
    BY <1>1, OnChain
  <2>. QED  BY <2>1, <2>2 DEF HoldsTx
<1>. QED  BY <1>2 DEF IInv, WatchedOK, PromiseInv, TakenWasHandedOut

\* The claim a run ends with is one that the promise allows.
Allowed ==
    Claim # "running" =>
        /\ Claim \in {"kept", "submitted", "finalized", "failed"}
        /\ Promise!Claims(Claim)

LEMMA ClaimAllowed == IInv /\ PromiseInv => Allowed
<1>. SUFFICES ASSUME IInv, PromiseInv
              PROVE  Allowed
  OBVIOUS
<1>1. CASE ending = Succeeded /\ result.inclusionStatus = "finalized"
  <2>1. /\ result.blockHash \in BlockHashes /\ IsOn(result.blockHash, final)
        /\ BlockHoldsTx(result.blockHash)
    BY <1>1 DEF IInv, ResultOK, BlockHashes, NoHash
  <2>2. HoldsTx(final)
    BY <2>1, BlockInChain DEF IInv, TypeOK
  <2>. QED  BY <1>1, <2>2, Endings DEF Allowed, Claim, Progress, Promise!Claims
<1>2. CASE ending = Succeeded /\ result.inclusionStatus # "finalized" /\ result.submitted
  <2>1. pool # "none"
    BY <1>2, Endings DEF IInv, PromiseInv, HandedOut, StepOK, NotLaunched, Cleared,
                         SuccessMeansSubmitted
  <2>. QED  BY <1>2, <2>1, Endings DEF Allowed, Claim, Progress, Promise!Claims
<1>3. CASE ending = Succeeded /\ result.inclusionStatus # "finalized" /\ ~result.submitted
  <2>1. ~HandedOut /\ pool = "none" /\ ~HoldsTx(final)
    BY <1>3, FinalIsTaken DEF PromiseInv, TakenWasHandedOut
  <2>. QED  BY <1>3, <2>1, Endings DEF Allowed, Claim, Progress, Promise!Claims
<1>4. CASE ending # Succeeded
  BY <1>4 DEF Allowed, Claim, Promise!Claims
<1>. QED  BY <1>1, <1>2, <1>3, <1>4

\* The helper keeps the promise of a submission: whatever path it takes and
\* whatever the node does, nothing leaves a run that ended without handing it
\* out, and a success claims no more than the node and the chain have done.
THEOREM Promised == Spec => ImplementsPromise
<1>1. Init => Promise!Init
  BY Endings DEF Init, Promise!Init, Progress, Claim, HandedOut, HoldsTx
<1>2. TakenWasHandedOut' \/ ~(IInv /\ PromiseInv)'
  BY FinalIsTaken, PTL
<1>3. Allowed' \/ ~(IInv /\ PromiseInv)'
  BY ClaimAllowed, PTL
<1>4. IInv /\ PromiseInv /\ IInv' /\ PromiseInv' /\ [Next]_vars => [Promise!Next]_Promise!vars
  <2>. SUFFICES ASSUME IInv, PromiseInv, IInv', PromiseInv', [Next]_vars
                PROVE  [Promise!Next]_Promise!vars
    OBVIOUS
  <2>1. TakenWasHandedOut /\ TakenWasHandedOut' /\ Allowed'
    BY <1>2, <1>3, FinalIsTaken
  <2>2. CASE UNCHANGED vars
    BY <2>2 DEF vars, helperVars, socketVars, nodeVars, Promise!vars, Progress, Claim,
                HandedOut
  <2>3. CASE ChainMoves \/ PoolMoves
    <3>1. Claim' = Claim
      BY <2>3 DEF ChainMoves, PoolMoves, Claim
    <3>2. \/ Progress' = Progress
          \/ Progress = "out" /\ Progress' = "taken"
          \/ Progress = "taken" /\ Progress' = "final"
      BY <2>1, <2>3 DEF ChainMoves, PoolMoves, Progress, TakenWasHandedOut
    <3>. QED  BY <3>1, <3>2 DEF Promise!Next, Promise!Take, Promise!BeFinal, Promise!vars
  <2>4. CASE RunMoves
    <3>1. Claim' = "running" /\ Claim = "running"
      BY <2>4, Endings DEF RunMoves, Claim
    <3>2. \/ Progress' = Progress
          \/ Progress = "private" /\ Progress' = "out"
      BY <2>1, <2>4 DEF RunMoves, Progress, TakenWasHandedOut
    <3>. QED  BY <3>1, <3>2 DEF Promise!Next, Promise!HandOut, Promise!vars
  <2>5. CASE RunEnds
    <3>1. Claim = "running" /\ Claim' # "running" /\ Progress' = Progress
      BY <2>5, Endings DEF RunEnds, Claim, Progress
    <3>2. Claim' \in {"kept", "submitted", "finalized", "failed"} /\ Promise!Claims(Claim)'
      BY <2>1, <3>1 DEF Allowed
    <3>3. Promise!Claims(Claim')
      BY <3>1, <3>2 DEF Promise!Claims
    <3>. QED  BY <3>1, <3>2, <3>3 DEF Promise!Next, Promise!End
  <2>. QED  BY <2>2, <2>3, <2>4, <2>5, PromiseStep
<1>. QED  BY <1>1, <1>4, Spec_IInv, Spec_PromiseInv, PTL
          DEF Spec, ImplementsPromise, Promise!Spec

=============================================================================
