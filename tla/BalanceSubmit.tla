--------------------------- MODULE BalanceSubmit ----------------------------
(***************************************************************************)
(* One run of tools/preview_balance_submit_split_tx.mjs: sync the wallet,  *)
(* balance the split transaction, finalize its Dust proofs with retries,   *)
(* check it, and submit it through the wallet SDK, through the node's      *)
(* websocket, or through the second after the first failed.  The wallet    *)
(* SDK and the node are external.                                          *)
(***************************************************************************)
EXTENDS NodeChain

CONSTANTS
    Modes,          \* submit modes that may be configured
    WaitFors,       \* what MIDNIGHT_PREVIEW_RAW_RPC_WAIT_FOR may hold
    ProveAttempts   \* MIDNIGHT_PREVIEW_DUST_PROVE_ATTEMPTS, 2 by default

ASSUME HelperAssumption ==
    /\ Modes \subseteq {"raw-rpc", "sdk", "sdk-then-raw-rpc", "unsupported"}
    /\ WaitFors \subseteq {"submitted", "inBlock", "finalized", "unsupported"}
    /\ ProveAttempts \in Nat \ {0}

VARIABLES
    config,         \* arguments and environment of the run
    step,           \* the await the helper is at
    attempt,        \* attempt of retryAsync
    result,         \* what it will print on success
    ending,         \* how the process ended, and why
    sdk,            \* the wallet SDK's submission of the transaction
    ws,             \* the websocket to the node
    request,        \* the submit request on its way to the node
    rx,             \* messages on their way back, in order
    pool,           \* the transaction in the node's pool
    watched         \* the node reports on the transaction over ws

helperVars == <<config, step, attempt, result, ending>>
socketVars == <<ws, request, rx>>
nodeVars   == <<pool, watched, best, final>>
vars == <<helperVars, sdk, socketVars, nodeVars>>

Configs == [dryRun : BOOLEAN, submit : BOOLEAN, validate : BOOLEAN,
            mode : Modes, waitFor : WaitFors]

NoHash == <<>>

Results == [check : {"skipped", "ok", "failed"}, submitted : BOOLEAN,
            blockHash : BlockHashes \cup {NoHash},
            inclusionStatus : {"none", "sdkSubmitted", "submitted", "inBlock", "finalized"}]

Running == [exit |-> "running", why |-> "none"]
Succeeded == [exit |-> "ok", why |-> "none"]
Failed(why) == [exit |-> "error", why |-> why]

Causes == {"wallet", "prove", "check", "config", "sdk", "rpc error", "rejected",
           "socket", "timeout"}

Reply      == [kind |-> "reply"]
RpcError   == [kind |-> "error"]
StatusOf(status, form, hash) ==
    [kind |-> "status", status |-> status, form |-> form, hash |-> hash]

PlainStatuses == {"ready", "invalid", "dropped"}
ObjectStatuses == {"broadcast", "inBlock", "finalized", "retracted", "usurped",
                   "finalityTimeout", "invalid", "dropped"}
Messages == {Reply, RpcError}
    \cup {StatusOf(s, "string", NoHash) : s \in PlainStatuses}
    \cup {StatusOf(s, "object", h) : s \in ObjectStatuses,
                                     h \in BlockHashes \cup {NoHash}}

Init ==
    /\ config \in Configs
    /\ step = "start"
    /\ attempt = 1
    /\ result = [check |-> "skipped", submitted |-> FALSE, blockHash |-> NoHash,
                 inclusionStatus |-> "none"]
    /\ ending = Running
    /\ sdk = "idle"
    /\ ws = "none" /\ request = FALSE /\ rx = <<>>
    /\ pool = "none" /\ watched = FALSE
    /\ best = <<>> /\ final = <<>>

-----------------------------------------------------------------------------
(* The helper up to the submission *)

\* The catch of main: any rejection that reaches it ends the process, and with
\* it the timers and the websocket.
Fail(why) ==
    /\ ending' = Failed(why)
    /\ step' = "done"
    /\ ws' = IF ws \in {"connecting", "open"} THEN "closed" ELSE ws

Succeed ==
    /\ ending' = Succeeded
    /\ step' = "done"

\* --dry-run returns before any wallet is opened.
DryRun ==
    /\ step = "start" /\ config.dryRun
    /\ Succeed
    /\ UNCHANGED <<config, attempt, result, sdk, socketVars, nodeVars>>

WalletStarted ==
    /\ step = "start" /\ ~config.dryRun
    /\ step' = "syncing"
    /\ UNCHANGED <<config, attempt, result, ending, sdk, socketVars, nodeVars>>

WalletSynced ==
    /\ step = "syncing"
    /\ step' = "balancing"
    /\ UNCHANGED <<config, attempt, result, ending, sdk, socketVars, nodeVars>>

\* balanceFinalizedTransaction and signRecipe.
Balanced ==
    /\ step = "balancing"
    /\ step' = "proving"
    /\ UNCHANGED <<config, attempt, result, ending, sdk, socketVars, nodeVars>>

\* A rejection of the wallet SDK before the proofs, or the sync timeout.
WalletFails ==
    /\ \/ step = "start" /\ ~config.dryRun
       \/ step \in {"syncing", "balancing"}
    /\ Fail("wallet")
    /\ UNCHANGED <<config, attempt, result, sdk, request, rx, nodeVars>>

ProveFails_OffByOne ==
    /\ step = "proving"
    /\ IF attempt > ProveAttempts
       THEN Fail("prove") /\ UNCHANGED attempt
       ELSE attempt' = attempt + 1 /\ UNCHANGED <<step, ending, ws>>
    /\ UNCHANGED <<config, result, sdk, request, rx, nodeVars>>

\* retryAsync around finalizeRecipe: the last attempt's error is thrown.
ProveFails ==
    /\ step = "proving"
    /\ IF attempt >= ProveAttempts
       THEN Fail("prove") /\ UNCHANGED attempt
       ELSE attempt' = attempt + 1 /\ UNCHANGED <<step, ending, ws>>
    /\ UNCHANGED <<config, result, sdk, request, rx, nodeVars>>

\* submitFinalizedTxToNode up to its first await; what it throws before ends
\* the run.
StartRaw ==
    IF config.waitFor = "unsupported"
    THEN Fail("config")
    ELSE step' = "raw" /\ ws' = "connecting" /\ UNCHANGED ending

\* What wellFormed says of the transaction against a blank ledger state, and
\* validateFinalizedTransaction of it: a complaint that only the state of the
\* live chain could settle is thrown like any other.
WellFormedAnswers == {"ok", "needs chain state", "ill-formed"}
Validated(answer) == answer = "ok"

Finalized_OnlyRecordsCheck(answer) ==
    /\ step = "proving"
    /\ result' = [result EXCEPT !.check = IF ~config.validate THEN "skipped"
                                          ELSE IF Validated(answer) THEN "ok" ELSE "failed"]
    /\ config.submit /\ config.mode = "raw-rpc" /\ StartRaw
    /\ UNCHANGED <<config, attempt, sdk, request, rx, nodeVars>>

Finalized_NotAwaited(answer) ==
    /\ step = "proving"
    /\ config.submit /\ config.mode # "unsupported"
    /\ sdk' = "submitting"
    /\ Succeed
    /\ UNCHANGED <<config, attempt, result, socketVars, nodeVars>>

\* From the promise of finalizeRecipe to the next await: the optional
\* wellFormed check, the result record and the choice of the submit mode.
Finalized(answer) ==
    LET check == IF ~config.validate THEN "skipped"
                 ELSE IF Validated(answer) THEN "ok" ELSE "failed"
        rejected == check = "failed" IN
    /\ step = "proving"
    /\ result' = [result EXCEPT !.check = check]
    /\ \/ rejected /\ Fail("check") /\ UNCHANGED sdk
       \/ ~rejected /\ ~config.submit /\ Succeed /\ UNCHANGED <<sdk, ws>>
       \/ /\ ~rejected /\ config.submit
          /\ \/ config.mode = "raw-rpc" /\ StartRaw /\ UNCHANGED sdk
             \/ /\ config.mode \in {"sdk", "sdk-then-raw-rpc"}
                /\ step' = "sdk" /\ sdk' = "submitting"
                /\ UNCHANGED <<ending, ws>>
             \/ config.mode = "unsupported" /\ Fail("config") /\ UNCHANGED sdk
    /\ UNCHANGED <<config, attempt, request, rx, nodeVars>>

-----------------------------------------------------------------------------
(* Submission through the wallet SDK *)

SdkResolves ==
    /\ step = "sdk" /\ pool # "none"
    /\ sdk' = "over"
    /\ result' = [result EXCEPT !.submitted = TRUE, !.inclusionStatus = "sdkSubmitted"]
    /\ Succeed
    /\ UNCHANGED <<config, attempt, socketVars, nodeVars>>

SdkFails_SwallowsError(late) ==
    /\ step = "sdk"
    /\ sdk' = IF late THEN sdk ELSE "over"
    /\ Succeed
    /\ result' = [result EXCEPT !.submitted = TRUE]
    /\ UNCHANGED <<config, attempt, socketVars, nodeVars>>

\* submitTransaction rejects, or withTimeout gives up on it while it goes on
\* (late).  The fallback mode then submits the same transaction itself.
SdkFails(late) ==
    /\ step = "sdk"
    /\ sdk' = IF late THEN sdk ELSE "over"
    /\ IF config.mode = "sdk-then-raw-rpc"
       THEN StartRaw
       ELSE Fail("sdk")
    /\ UNCHANGED <<config, attempt, result, request, rx, nodeVars>>

-----------------------------------------------------------------------------
(* Submission through the websocket *)

\* onopen
WsOpen ==
    /\ ws = "connecting"
    /\ ws' = "open"
    /\ request' = TRUE
    /\ UNCHANGED <<helperVars, sdk, rx, nodeVars>>

\* extractInclusion: an object names its status by its key; of a plain string
\* only the statuses before inclusion are known, and they lead to nothing.
TerminalKeys == {"invalid", "dropped", "usurped", "finalityTimeout", "retracted"}
Included(m) == m.form = "object" /\ m.status \in {"inBlock", "finalized"}
Failure(m)  == m.form = "object" /\ m.status \in TerminalKeys

Awaited_AnyInclusion(m) == Included(m)

\* The status that ends the wait.
Awaited(m) ==
    /\ Included(m)
    /\ \/ config.waitFor = "inBlock"
       \/ config.waitFor = "finalized" /\ m.status = "finalized"

Finish_DefaultStatus(status, hash) ==
    /\ ws' = "closed"
    /\ result' = [result EXCEPT !.submitted = TRUE, !.blockHash = hash,
                                !.inclusionStatus = "finalized"]
    /\ Succeed

\* finish, then applyRawSubmit and the printed result.
Finish(status, hash) ==
    /\ ws' = "closed"
    /\ result' = [result EXCEPT !.submitted = TRUE, !.blockHash = hash,
                                !.inclusionStatus = status]
    /\ Succeed

\* onmessage
WsMessage ==
    /\ ws = "open" /\ rx # <<>>
    /\ rx' = Tail(rx)
    /\ LET m == Head(rx) IN
       \/ m = RpcError /\ Fail("rpc error") /\ UNCHANGED result
       \/ m = Reply /\ config.waitFor = "submitted" /\ Finish("submitted", NoHash)
       \/ /\ m = Reply /\ config.waitFor # "submitted"
          /\ UNCHANGED <<step, ending, result, ws>>
       \/ /\ m.kind = "status"
          /\ \/ Failure(m) /\ Fail("rejected") /\ UNCHANGED result
             \/ Awaited(m) /\ Finish(m.status, m.hash)
             \/ ~Failure(m) /\ ~Awaited(m) /\ UNCHANGED <<step, ending, result, ws>>
    /\ UNCHANGED <<config, attempt, sdk, request, nodeVars>>

\* onerror, onclose before a result, or a message that cannot be read.
WsFails ==
    /\ step = "raw"
    /\ Fail("socket")
    /\ UNCHANGED <<config, attempt, result, sdk, request, rx, nodeVars>>

RawTimeout_Never == FALSE /\ UNCHANGED vars

\* withTimeout around the submission.
RawTimeout ==
    /\ step = "raw"
    /\ Fail("timeout")
    /\ UNCHANGED <<config, attempt, result, sdk, request, rx, nodeVars>>

-----------------------------------------------------------------------------
(* The node (external) *)

Watching == watched /\ ws = "open"
Report(msgs) == rx' = IF Watching THEN rx \o msgs ELSE rx

\* The wallet SDK's own request arrives, maybe long after the helper gave up.
SdkReachesNode ==
    /\ sdk = "submitting" /\ pool = "none"
    /\ pool' = "in"
    /\ UNCHANGED <<helperVars, sdk, socketVars, watched, best, final>>

\* author_submitExtrinsic or author_submitAndWatchExtrinsic.  A transaction the
\* node already had is refused.
NodeAccepts ==
    /\ request /\ pool = "none"
    /\ request' = FALSE
    /\ pool' = "in"
    /\ watched' = (config.waitFor # "submitted")
    /\ rx' = IF config.waitFor = "submitted" THEN <<Reply>>
             ELSE <<Reply, StatusOf("ready", "string", NoHash),
                    StatusOf("broadcast", "object", NoHash)>>
    /\ UNCHANGED <<helperVars, sdk, ws, best, final>>

NodeRefuses ==
    /\ request
    /\ request' = FALSE
    /\ rx' = <<RpcError>>
    /\ UNCHANGED <<helperVars, sdk, ws, nodeVars>>

\* The pool gives the transaction up before it is in a block.
NodeDrops ==
    /\ pool = "in" /\ ~HoldsTx(best)
    /\ pool' = "dropped"
    /\ watched' = FALSE
    /\ \/ \E s \in {"invalid", "dropped"} : Report(<<StatusOf(s, "string", NoHash)>>)
       \/ \E s \in {"invalid", "dropped", "usurped"} :
             Report(<<StatusOf(s, "object", NoHash)>>)
    /\ UNCHANGED <<helperVars, sdk, ws, request, best, final>>

NodeStopsWatching ==
    /\ watched /\ HoldsTx(best) /\ ~HoldsTx(final)
    /\ watched' = FALSE
    /\ Report(<<StatusOf("finalityTimeout", "object", InclusionBlock(best))>>)
    /\ UNCHANGED <<helperVars, sdk, ws, request, pool, best, final>>

\* A block without the transaction may come back to it after a reorganisation.
NodeImports(chain) ==
    LET left    == HoldsTx(best) /\ ~IsOn(InclusionBlock(best), chain)
        entered == HoldsTx(chain) /\ ~IsOn(InclusionBlock(chain), best) IN
    /\ HoldsTx(chain) => pool = "in"
    /\ Import(chain)
    /\ Report((IF left THEN <<StatusOf("retracted", "object", InclusionBlock(best))>>
                       ELSE <<>>)
              \o (IF entered THEN <<StatusOf("inBlock", "object", InclusionBlock(chain))>>
                             ELSE <<>>))
    /\ UNCHANGED <<helperVars, sdk, ws, request, pool, watched>>

NodeFinalizes(height) ==
    LET final2 == SubSeq(best, 1, height)
        now == HoldsTx(final2) /\ ~HoldsTx(final) IN
    /\ Finalize(height)
    /\ watched' = (watched /\ ~now)
    /\ Report(IF now THEN <<StatusOf("finalized", "object", InclusionBlock(best))>>
                     ELSE <<>>)
    /\ UNCHANGED <<helperVars, sdk, ws, request, pool>>

-----------------------------------------------------------------------------
HelperStep ==
    \/ DryRun \/ WalletStarted \/ WalletSynced \/ Balanced \/ WalletFails
    \/ ProveFails
    \/ \E a \in WellFormedAnswers : Finalized(a)
    \/ SdkResolves
    \/ \E late \in BOOLEAN : SdkFails(late)
    \/ WsMessage \/ WsFails \/ RawTimeout

NodeStep ==
    \/ SdkReachesNode \/ NodeAccepts \/ NodeRefuses \/ NodeDrops \/ NodeStopsWatching
    \/ \E c \in Chains : NodeImports(c)
    \/ \E n \in 1..MaxHeight : NodeFinalizes(n)

Next == HelperStep \/ WsOpen \/ NodeStep

Spec == Init /\ [][Next]_vars

\* The promises of the wallet SDK settle, and so do the timers; neither the
\* websocket nor the node owes an answer.
FairSpec ==
    /\ Spec
    /\ WF_vars(DryRun \/ WalletStarted \/ WalletSynced \/ Balanced \/ WalletFails)
    /\ WF_vars(ProveFails \/ \E a \in WellFormedAnswers : Finalized(a))
    /\ WF_vars(\E late \in BOOLEAN : SdkFails(late))
    /\ WF_vars(RawTimeout)

-----------------------------------------------------------------------------
(* Properties *)

TypeOK ==
    /\ config \in Configs
    /\ step \in {"start", "syncing", "balancing", "proving", "sdk", "raw", "done"}
    /\ attempt \in 1..ProveAttempts
    /\ result \in Results
    /\ ending \in {Running, Succeeded} \cup {Failed(why) : why \in Causes}
    /\ sdk \in {"idle", "submitting", "over"}
    /\ ws \in {"none", "connecting", "open", "closed"}
    /\ request \in BOOLEAN
    /\ rx \in Seq(Messages)
    /\ pool \in {"none", "in", "dropped"}
    /\ watched \in BOOLEAN
    /\ best \in Chains /\ final \in Chains
    /\ IsOn(final, best)

\* A block the helper reports holds the transaction; one it reports as final is
\* final, and with waitFor = finalized (the default) it reports no other, also
\* when the transaction was first in a block that was reorganised away.
ReportedInclusionIsReal ==
    ending = Succeeded =>
        /\ result.blockHash # NoHash => BlockHoldsTx(result.blockHash)
        /\ result.inclusionStatus = "finalized" => IsOn(result.blockHash, final)
        /\ result.blockHash # NoHash /\ config.waitFor = "finalized" =>
              result.inclusionStatus = "finalized"

\* Success after --submit means that a node took the transaction, whichever of
\* the two paths submitted it.
SuccessMeansSubmitted ==
    ending = Succeeded /\ config.submit /\ ~config.dryRun =>
        result.submitted /\ pool # "none"

\* No node ever sees a transaction that was not to be submitted, whose proofs
\* were not finalized or that failed the optional check.
OnlyCheckedReachesNode ==
    pool # "none" =>
        /\ config.submit /\ ~config.dryRun
        /\ result.check # "failed"
        /\ config.validate => result.check = "ok"
        /\ ending.why \notin {"wallet", "prove", "check"}

\* The process ends, also if the node stays silent or reports a rejection in a
\* form extractInclusion does not know.
HelperEnds == <>(ending # Running)

\* How many awaits the run has left at most.
Remaining ==
    CASE step = "start"     -> ProveAttempts + 5
      [] step = "syncing"   -> ProveAttempts + 4
      [] step = "balancing" -> ProveAttempts + 3
      [] step = "proving"   -> ProveAttempts + 3 - attempt
      [] step = "sdk"       -> 2
      [] step = "raw"       -> 1
      [] step = "done"      -> 0

\* The run never turns back: each await is left for one that is nearer to the
\* end, also when the proofs are retried or the fallback takes over; and what
\* the run ended with stands, although the wallet SDK, its timers, the
\* websocket and the node may go on.
NeverTurnsBack ==
    [][/\ step' # step \/ attempt' # attempt => Remaining' < Remaining
       /\ ending # Running => UNCHANGED helperVars]_vars

\* How far the transaction has come, and what the process says of it: its exit
\* code and the inclusionStatus of the record it prints.
HandedOut == sdk # "idle" \/ ws # "none"
Progress ==
    CASE HoldsTx(final) -> "final"
      [] pool # "none" /\ ~HoldsTx(final) -> "taken"
      [] pool = "none" /\ ~HoldsTx(final) /\ HandedOut -> "out"
      [] OTHER -> "private"
Claim ==
    CASE ending = Running -> "running"
      [] ending = Succeeded /\ result.inclusionStatus = "finalized" -> "finalized"
      [] ending = Succeeded /\ result.inclusionStatus # "finalized" /\ result.submitted ->
            "submitted"
      [] ending = Succeeded /\ result.inclusionStatus # "finalized" /\ ~result.submitted ->
            "kept"
      [] OTHER -> "failed"

Promise == INSTANCE SubmissionPromise WITH tx <- Progress, claim <- Claim

\* Whatever the mode and the order of statuses, timeouts and reorganisations,
\* the run keeps the promise of a submission: a transaction that was not handed
\* out when the process ended never reaches a node, success claims no more than
\* the node or the chain has done, and what was claimed is not taken back.
ImplementsPromise == Promise!Spec

\* What line 438 says of the transaction when a status of terminalKeys arrives,
\* "transaction rejected by node": then it does not become final.
RejectedIsNotFinalized ==
    ending = Failed("rejected") => ~HoldsTx(final)

=============================================================================
