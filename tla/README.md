# Formal models of split-prove

split-prove lets a wallet spend a shielded coin without giving its secret key
to the proof server. The wallet derives everything that needs the key and makes
a small proof of it; the proof server makes the large one; a patched ledger
admits the spend if the three proofs (a one-time wallet attestation, a
per-spend client proof, the server's spend proof) agree. Around that core the
repository has two Node.js tools that submit the resulting transaction and
verify it on chain, two that derive a seed and decode an address, and a tool
that runs and funds a local network.

This directory has TLA+ models of these parts, the TLC configurations that
check them, and TLAPS proofs about each of them. Paths below are relative to
the repository unless they name a module.

## 1. Inventory

| Component | Source | State it keeps | Operations | Module |
|---|---|---|---|---|
| Wallet attestation | `src/attestation.rs`, `circuits/wallet_attestation.compact` | the `WalletAttestation` (pk, C_sk, r, proof) | `register_wallet`, key resolver | SplitSpend |
| Wallet client | `src/client.rs`, `circuits/sk_proof.compact` | the handoff being prepared | `client_prepare*`, derivation preimage and proof, converters | SplitSpend |
| Proof server SDK | `src/server.rs` | none of its own; the Merkle tree is an argument | `build_spend_preimage`; `build_sign_preimage` (placeholder) | SplitSpend |
| Patched ledger, node, proof server | git submodules (empty here), used by the above | Merkle tree, nullifier set, pool, chain | `Input::new_split`, split prover, admission, RPCs | external parts of SplitSpend, NodeChain |
| Balance/submit helper | `tools/preview_balance_submit_split_tx.mjs` | result record, websocket, timers | start, balance, finalize with retries, check, submit (3 modes) | ToolStartup, BalanceSubmit |
| SCALE framing | the same file, lines 17-66 | - | `fromHex`, `scaleCompactEncode`, `wrapAsMidnightExtrinsic` | ExtrinsicFrame |
| On-chain verifier | `tools/preview_verify_onchain.mjs` | pending RPCs, finalized head | start, four RPCs, verdict | ToolStartup, VerifyOnChain |
| Seed and address tools | `tools/derive_midnight_zswap_seed.mjs`, `tools/decode_midnight_shielded_address.mjs` | - | read environment and arguments, derive, decode | ToolStartup |
| e2e pipeline | `docs/poc-runbook.md`, `Makefile`; the test itself is in a submodule | the reported block | submit, then verify | SubmitThenVerify |
| Local network tool | `deps/midnight-local-dev/src/{index,fund,funding,wallet,network}.ts` | docker env, master wallet, recipient wallets, funded list | start/reuse, fund from file/keys/shielded, e2e setup, exit | LocalDev |
| Demo binary | `src/main.rs` | - | a walk through with empty proofs | - |
| Key resolvers | `src/client.rs`, `src/attestation.rs` | static key files | look up by location | - |
| `config.ts`, `logger.ts`, `bench/`, `circuits/static/`, `spend_no_sk.compact`, build files | | - | - | - |

### How the components interact

    wallet --register_wallet--> attestation (kept by the caller)
    wallet --ClientHandoff (JSON)--> proof server --Input + 3 proofs--> transaction
    transaction --balance/submit helper--> node pool --> block --> finality
    reported block hash --verifier--> four RPCs to the same node
    one environment --> seed tool, address tool, helper, verifier
    local network tool --docker, transfers--> the node all of it runs against

Handoffs are plain data: they may arrive late, several times, or with a field
missing (serde defaults `attested_commitment_sk` to zero and the proofs to
`None`). The wallet's registration is persisted by a caller outside the
repository, so a later registration may replace it between any two calls. The
Merkle tree that the server builds the path from comes with each request and may be
older than the chain. The helper and the
verifier talk to a node whose best chain may be reorganised between any two
messages. The four command line tools share an environment (`MIDNIGHT_PREVIEW_*`)
and no code: each has its own parser, defaults and URL checks.

### What makes each part correct, and what is hard

* **Split spend.** `pk = H(sk)` is proved only by the attestation,
  `nullifier = H(coin, sk)` only by the client proof, the coin's commitment only
  by the spend proof. What ties them is `C_sk = H(sk, r)`, `pk` and the
  coin-binding tag, compared by the node. The properties: a spend is of the leaf
  its nullifier belongs to; the key holder asked for it; a coin is spent once,
  by either path; a wallet does not complete a handoff that the node would
  refuse; nothing that others do makes an honest handoff unspendable.
* **Helper.** What it prints must be true of a chain that moves on; nothing
  unchecked may be sent; the two submission paths must not hide a failure; the
  process must end.
* **Verifier.** Four answers from four moments must not add up to a wrong
  verdict, nor a verdict be given on less than was asked.
* **Framing.** JavaScript shifts 32-bit integers, so the length of a long
  transaction becomes negative on its way into four bytes; the two lengths of a
  frame cross the borders of the encoding at different transactions.
* **Start of the tools.** A wallet that spends with another key than the seed
  tool printed, a verifier that asks another node than the helper submitted to,
  an address decoded for another network, or a dry run that submits would all come
  from two parsers that read one input differently.
* **Local tool.** Lists and transfers when any await rejects, a submission that
  rejected may have reached a node, one that resolved says nothing of the chain, and
  a list may name a receiver twice; what is closed on the way out.

`PROJECT.json` lists the hazards one by one, at their lines, with the property
that covers each.

## 2. Modules

    CoinLedger          abstract: leaves, and the list of leaves spent
      ^ implemented by
    SplitSpend          wallet, transport, proof server, ledger
      ^ MCSplitSpend (symmetry)   ^ SplitSpendProofs

    SubmissionPromise   abstract: what a run that submits one transaction promises
      ^ implemented by
    BalanceSubmit       balance/submit helper ------ extends NodeChain
      ^ MCBalanceSubmit   ^ BalanceSubmitProofs

    NodeChain           external: best chain and finalized prefix
      ^ NodeChainProofs (lemmas)
    BlockVerdict        abstract: what may be said of a block by who can only ask
      ^ implemented by
    VerifyOnChain       on-chain verifier ---------- extends NodeChain
      ^ VerifyOnChainProofs

    SubmitThenVerify    BalanceSubmit composed with an INSTANCE of VerifyOnChain
      ^ MCSubmitThenVerify   ^ SubmitThenVerifyProofs

    ExtrinsicFrame      SCALE framing, and the node that reads the frame
      ^ MCExtrinsicFrame   ^ ExtrinsicFrameProofs
    ToolStartup         the four tools from one environment
      ^ MCToolStartup   ^ ToolStartupProofs
    LocalDev            local network tool
      ^ LocalDevProofs

### SplitSpend

| Variable | In the code |
|---|---|
| `attestation[w]` | the `WalletAttestation` the caller persisted |
| `session[w]` | the `ClientHandoff` between `client_prepare*` and its sending |
| `wire` | handoffs sent; never removed, so delivery may repeat and reorder |
| `tree` | the ledger's tree; the `MerkleTree` argument of `build_spend_preimage` is one of `EarlierTrees` |
| `inputs`, `bundles` | `Input<ProofPreimage>` built; proved inputs with their `SplitProofBundle` |
| `nullifiers`, `history` | the ledger's nullifier set; the admitted spends, in order |
| `authorized` | history variable: (key, coin) pairs the key's holder made a proof for |

Actions are one per function: `RegisterWallet`, `ClientPrepare`,
`ClientPrepareWithAttestation`, `ProveDerivation` (preimage and prover),
`BuildSpendPreimage`; the external ones are `ProveSpend`, `AdmitSplit`,
`AdmitStock`, `Mint`. `AlterHandoff` and `AlterBundle` stand for a boundary at
which one field is damaged, defaulted or taken from another message.
`OtherClientStep` is a client that is not `src/client.rs`: only the circuit
limits what it sends, and in particular `pk` is a free witness of `sk_prove`.

`build_spend_preimage` is called with a handoff and a tree. Where the repository
says how (`docs/poc-runbook.md:251-270`), the caller ships the tree with the request, so
the server has none that could catch up: `BuildSpendPreimage(h, t)` takes any tree `t`
that the ledger had or could have had earlier, its positions filled in any order. A
refused call returns an `Err` and changes nothing. Nothing in the source sends a
handoff again or builds it again later, so nothing is promised of a handoff that was
refused or lost, and SplitSpend states no fairness.

Hashes are symbolic, hence injective. A proof is a circuit name with the public
outputs it was made for, and only an action that holds satisfying witnesses makes
one. These two abstractions are collision resistance and proof soundness; both
are assumptions of everything below.

A point worth knowing. `client_prepare_with_attestation` checks that the
attestation belongs to the key and the blinding with `debug_assert_eq!` only.
In a release build a mixed-up attestation gets through, and the line that
overwrites `attested_commitment_sk` (`src/client.rs:245`) is what makes the
client prover fail on it later. `ProvedHandoffIsConsistent` is checked with
`DebugBuild = FALSE`, and its mutant drops that line.

### NodeChain, BalanceSubmit, SubmissionPromise

A block hash is modelled by the chain up to the block. `Import` makes any longer
chain that keeps the finalized prefix the best one; `Finalize` extends the
prefix. In BalanceSubmit `step` is the await `main` is suspended at, `ws`,
`request` and `rx` are the socket and what travels on it, `pool` and `watched`
are the node. Handlers are one action each (`WsOpen`, `WsMessage`, `WsFails`,
`RawTimeout`); what runs between two awaits is one action (`Finalized` is
everything from the finalized proofs to the first await of the chosen
submission path).

SubmissionPromise knows nothing of websockets, modes or blocks. A transaction is
private, out, taken or final; the run hands it out while it goes on and at no
other time; and when it ends it says "kept", "submitted", "finalized" or
"failed", which must be so at that moment and is not taken back. BalanceSubmit
maps its pool, chain and result record to it (`Progress`, `Claim`).

### VerifyOnChain, SubmitThenVerify

Each awaited call is answered by `NodeAnswers` at a time of the node's choosing,
with a result or an error, and continued by its own action; `CallTimeout` is the
timer of the pending call and `SocketFails` the two socket handlers.
BlockVerdict knows one block, whose standing is final or canonical, orphaned or
lost for good. A run learns facts of it, each of them so at the moment it is
learned, while the standing moves on; at its end it says one of four things,
for which it must have learned what that takes. VerifyOnChain maps the chain to
the standing of `target` (`Standing`), and its call and pending answer to what
it has learned (`Learned`): an answer is learned when the node gives it, not
when `main` reads it.

SubmitThenVerify runs helper and verifier one after the other over the same
chain variables, while the chain goes on.

### ExtrinsicFrame

`text` is the transaction handed in, by its length and whether it is hex;
`frame` is what `wrapAsMidnightExtrinsic` makes of it, its framing bytes one by
one and the transaction's own bytes counted. `ShiftLeft2` is `value << 2` of an int32,
which loses two bits and takes the third for a sign; `ByteOf` is `>> 8 * n`
and `& 0xff` of a possibly negative number. The node (external) reads the fields in order with a
decoder of its own, from the bytes alone.

### ToolStartup

`start` is an environment and a command line for each tool; `at`, `rest` and `args`
are how far a tool is, what its parser has not read and what it has; `path`,
`network` and `node` are what it came to. One turn of a parser's loop is one action
(`ParseHelperArgument`, `ParseVerifierArgument`). A tool that fails, prints its
help or ends a dry run is followed by the next, since they share the environment and
nothing else. URLs, numbers and texts are the classes that the code's checks tell apart, blank
and untrimmed ones included; the wallet SDK's key derivation and address
codec are external.

### LocalDev

| Variable | In the code |
|---|---|
| `phase` | where `main` of `index.ts` or `fund.ts` (`program`) is: network, wallet, dust, menu or e2e, working, closing, stopping, exited |
| `env`, `network` | `env` of `main`; the docker containers |
| `master`, `held` | the master wallet (none, open, closed); whether `masterWallet` is not null |
| `job` | the operation under way: its option, its list, the turn `at` of its loop, the await `step`, the `attempt` |
| `wallets` | recipients' wallets started and not yet given to `closeWallet` |
| `sent`, `paid` | transfers a node was given, and those of them the chain took, per payee |
| `dust`, `listed` | accounts with DUST; entries of `fundedAccounts`, per payee |
| `asked` | history variable: the transfers that the operations chosen so far may make |

A list is a sequence, as the user typed it or the file has it: nothing in
`funding.ts` refuses a receiver that is named twice, and option 5 may name the e2e's
shielded address. The same owner may be paid by wallet (options 1 and 6) and by
address (2 and 5), which `Payees` keeps apart. What is pushed to a list depends on
the turn alone, so `ListsAll` adds, when the operation returns, one entry for each
position. An operation that fails adds none (`OperationFails`).

Each step is one await or one stretch between two. `Transfer(given, resolves)` is
`transferNight` or `transferShieldedNight` up to `submitTransaction`; that it
resolves says that a node was given the transfer, and no more; when it rejects, the node may
have been given it all the same. Whether the chain takes it is the external action
`ChainTakes`, which may come at any later time or never. `SyncMaster` is the
`waitForSync(masterWallet.wallet)` in front of each shielded attempt
(`funding.ts:365`), whose rejection counts as a failed attempt, and `AttemptFails` is the
catch of `retryTransfer`. `FundsSeen` is what a recipient's wallet waits for: funds on
the chain, from whichever transfer or session (`Funded` are accounts that had
some before). `OpenMaster` and `OpenRecipient` may fail before or after the wallet
was started; a wallet that was started by a call that then rejected is held by nobody.

## 3. Runs

Every cfg has CHECK_DEADLOCK FALSE: programs end, and the split-spend model stops
at its bounds or when all coins are spent.

| Run | Question | Bounds |
|---|---|---|
| SplitSpendWallets | types; mixed-up attestations in a release build; what a wallet completes is honest | 2 wallets, 2 blindings, 1 coin, 1 contract, 1 handoff sent |
| SplitSpendOthers | right leaf, authorized; the inductive invariant | 1 wallet, 1 other client, 2 coins, 1 position, 2 handoffs |
| SplitSpendPaths | no double spend; an honest handoff is refused by nobody, and another leaf's spend does not take its nullifier; implements CoinLedger | 1 wallet, 1 other client, 1 coin, 2 positions, 1 contract, 2 handoffs, alteration up to 2 bundles |
| BalanceSubmit | reports, success, unchecked transactions; the run never turns back, the process ends; implements SubmissionPromise | 2 forks, height 2, all modes and wait-fors, 2 attempts |
| BalanceSubmitRetracted | violation, finding 1 | 2 forks, height 2 |
| VerifyOnChain | verdicts; a verdict comes once the socket is open; implements BlockVerdict | 2 forks, height 3 |
| SubmitThenVerify | helper and verifier agree | 2 forks, height 3, raw-rpc |
| LocalDev | lists, transfers, exit; operations come nearer to their end, and end | lists of up to 2 of 2 accounts (one funded before) and the e2e address, 2 attempts, 2 operations |
| LocalDevReady, LocalDevWallets | violations, findings 2 and 3 | lists of up to 2, 3 attempts (the code's), 1 operation |
| ExtrinsicFrame | the node reads what was framed; what fits is framed | all lengths to 600 digits, 41 around each border |
| ToolStartup | same key, node, network; dry runs | every part of the environment varied; command lines to 5 tokens |

Why these bounds are enough to show the interesting cases: two keys, or two coins, are
what it takes to put a field of one spend into another; two blindings make a
re-registration differ from the first; two handoffs are one original and one
altered or repeated copy; two positions give one leaf in the tree of a request and a later
one, and with another client a leaf of the wallet's coin beside one that somebody else
can spend, which is what it takes to try to bar the coin's nullifier.
Two forks of height two give inclusion, a reorganisation and re-inclusion; height three
lets a final block, a later reorganisation above it, and a new tip coexist. Two
operations of the local tool are a failed one and the one that repeats it; lists of two
name two receivers or one receiver twice; two attempts are a first and a last one, and an e2e
with two accounts has all kinds of turn. The lengths
of ExtrinsicFrame lie on both sides of 2^6, 2^14, 2^30, of 2^29 where the sign appears, and
of the transactions whose two lengths fall on different sides. A
transaction near 2^29 bytes is longer than a command line or an environment
variable can hold; the encoder does not say so, and the proof covers every
length anyway. ToolStartup varies together the parts of the environment that
are compared with each other, and its lines are long enough for an option to take
the next one for its value and for a second transaction to follow. Each
property has a mutant of the code that the same run refutes.

### Fairness

* SplitSpend: none. A handoff may be lost or refused, and the code does not send it
  again; what does not depend on that is a safety property (`HonestHandoffIsSpendable`).
* BalanceSubmit: the wallet SDK's promises settle (the code awaits
  `balanceFinalizedTransaction` and `finalizeRecipe` without a timer) and the
  timers of `withTimeout` and of the websocket submission fire; no answer of the node
  or the socket is assumed.
* VerifyOnChain: the timer of a pending call fires (each call sets one). Nothing is
  assumed of the socket, which is why `VerdictOnceOpen` begins when it is open: no timer
  runs before that.
* LocalDev: the loops go on between two awaits (`Loop`), and nothing else. No await is
  assumed to settle: the promises of the wallet SDK have no timer here, nor have the waits of
  `wallet.ts` for an observed state, one of which is in front of each shielded attempt.
  `OperationEnds` says that one single await that never settles is the only
  thing that can hold an operation.

### Findings

1. `tools/preview_balance_submit_split_tx.mjs:353` treats `retracted` and
   `finalityTimeout` as rejections; the same transaction may be re-included and
   finalized after the helper reported "transaction rejected by node"
   (BalanceSubmitRetracted).
2. `deps/midnight-local-dev/src/funding.ts:194` ignores the result of
   `registerNightForDust`; an account without DUST is listed, while the
   tool's README (line 143) calls it fully ready (LocalDevReady).
3. `funding.ts:174-200` has no `finally`: a rejection leaves the recipient wallet
   open, while the tool's README (line 76) says all wallets are shut down
   (LocalDevWallets).
Not runs, but seen on the way: `wallet.ts:235-243` may reject after `wallet.ts:230` has
started the master wallet, `index.ts:146` then assigns nothing and the finally (line 172)
closes nothing, while the tool's README (line 399) says of the exit "Close all wallet
connections" (`OpenMaster` has this outcome, and `CleanExit` speaks of a wallet that
`main` was given); `funding.ts:251-261` lists an address as soon as its transfer was
submitted, and line 264 logs that all are "funded with NIGHT", while the chain may take it later
or never (accounts from a file are waited for: `ListedWalletsHaveFunds`); `docs/poc-runbook.md:213` says that finalizeRecipe is
retried twice, the code makes two attempts in all; the verifier looks for the
transaction's bytes in a block and does not read the block's events, so that it shows
inclusion and not successful dispatch; its `finalized` flag compares heights and
may be true of a block that was orphaned after the canonical check
(`FinalizedFlagIsRight` therefore speaks of blocks that are still canonical); a blank
`MIDNIGHT_PREVIEW_ZSWAP_KEY_INDEX` is index 0 for the seed tool and an error for the
helper; with no network set the address tool assumes `preview` and the helper
`undeployed`; with `--dry-run` the helper checks a transaction and stops, unless the option
before it takes the word for its value, after which the helper fails instead
(`DryRunStaysDry`).

## 4. Proofs

Everything below is proved for all values of the constants, from the assumptions
the modules name (`KeysAssumption`, `ChainAssumption`, `HelperAssumption`,
`LocalDevAssumption`, `LengthsAssumption`, `StartsAssumption`), which only give the
constants their types and keep reserved values apart (`LocalDevAssumption` also
says that no mnemonic of the user's lists is the e2e spender's; its address may be in a list).

| Module | Theorem | Statement |
|---|---|---|
| SplitSpendProofs | TypeCorrect, InductiveInvariant | `[]TypeOK`, `[]IInv` |
| | MatchingSpends, AuthorizedSpends | `[]SpendsMatchTheirLeaf`, `[]SpendsAuthorized` |
| | SingleSpends, ConsistentHandoffs | `[]NoDoubleSpend`, `[]ProvedHandoffIsConsistent` |
| | CompletedHandoffs, HonestSpendable | `[]CompletedHandoffIsHonest`, `[]HonestHandoffIsSpendable` |
| | Refinement | `Spec => ImplementsLedger` |
| BalanceSubmitProofs | Spec_TypeOK | `[]TypeOK` |
| | Spec_ReportedInclusionIsReal | `[]ReportedInclusionIsReal` |
| | Spec_SuccessMeansSubmitted | `[]SuccessMeansSubmitted` |
| | Spec_OnlyCheckedReachesNode | `[]OnlyCheckedReachesNode` |
| | Spec_NeverTurnsBack | `Spec => NeverTurnsBack` |
| | Promised | `Spec => ImplementsPromise` |
| VerifyOnChainProofs | Spec_TypeOK, Spec_FinalizedFlagIsRight | `[]TypeOK`, `[]FinalizedFlagIsRight` |
| | Spec_OrphanNeverVerified, Spec_FinalBlockIsVerified, Spec_StandingBlockIsVerified | the three temporal properties |
| | Spec_ImplementsVerdict | `Spec => ImplementsVerdict` |
| SubmitThenVerifyProofs | Pipeline_FinalizedReportVerifies | `PipelineSpec => []FinalizedReportVerifies` |
| | Pipeline_RunsHelper, Pipeline_ImplementsPromise | the helper's `Spec`, and `ImplementsPromise`, of PipelineSpec |
| ExtrinsicFrameProofs | CompactRoundTrip | `Compact(v)` reads back as `v`, for every `v` to 2^30 - 1 |
| | Spec_NodeReadsTheTransaction, Spec_FramesWhatFits, Spec_TypeOK | for texts of every length |
| ToolStartupProofs | Spec_SameZswapKey, Spec_SameNode, Spec_SameNetwork | for every environment and line |
| | Spec_DryRunStaysDry, Spec_TypeOK | for lines of every length |
| LocalDevProofs | Spec_ListedWereSent, Spec_ListedWalletsHaveFunds, Spec_SentAsAsked | for any lists, attempts and number of operations |
| | Spec_OperationComesNearer | for any lists and attempts |
| | Spec_CleanExit, Spec_TypeOK | |

### The split spend

An admitted bundle shows its three proofs for one (pk, C_sk, tag,
nullifier). Hashes being injective, the attestation gives `pk = H(sk)` and
`C_sk = H(sk, r)` for one sk, the client proof a nullifier of the same sk because
it opens the same C_sk, and the spend proof a commitment for the same coin, because the tag
is H(coin, pk), and the same pk (lemma `AdmittedBundle`). That is not enough for an invariant of the
history: the commitment must also be a leaf of the ledger's tree, and the client
proof must have been made by the key's holder. Hence IInv adds where things come
from: what was given to the prover is a leaf, the tree of its request being an earlier one (`ProvedLeaves`), whoever carries a client
proof, its maker signed off (`ClientProofsAuthorized`), nullifiers in the history are
recorded and distinct (`NullifiersOnce`), and a session is of its own wallet's
key with the C_sk of the attestation it carries (`SessionsAreOwn`,
`AttestationsAreOwn`). Each part has a lemma for its step; the theorem puts them
together. NoDoubleSpend follows since two spends of one commitment have one
nullifier; the refinement maps `leaves` to the commitments in the tree and `spends` to
the commitments recomputed from the nullifiers, so that a second spend of a leaf would
be an impossible abstract step. TLC checks IInv in SplitSpendOthers.

Those theorems say what the system refuses. Two more say that it does not refuse
too much. `CompletedHandoffs`: what a wallet completes satisfies `HonestHandoff`
in every part, although it may have mixed up its attestations on the way,
because the client proof was made for the C_sk that the attestation carries
(`Own`). `HonestSpendable`: an honest handoff passes the server (with any tree of
`EarlierTrees` that holds a leaf at its position, which is then the same one), the split
prover and all checks of the node; and its nullifier is taken only if the coin
itself was spent, since the nullifier set is exactly that of the history
(`NullifiersOnce`, which has to be an equality for this) and a spend with its
nullifier is of its leaf. So nobody can bar the way of another's coin.

### The helper

`ReportedInclusionIsReal` speaks of the end of a run, but what makes it true
lies in the socket's queue: a message that names a block was true when it was
written and is read after any number of reorganisations. IInv therefore carries, for each
message on its way and for the result, that the block named holds the
transaction and, if the message says finalized, lies on the final chain, which
no `Import` can undo (NodeChainProofs: `FinalStays`, `InclusionBlockHolds`). `StepOK` says
which path can be under way at which await (`NotLaunched` before the proofs are
finalized, `Cleared` ever after), which gives `OnlyCheckedReachesNode`.

The refinement shows that every step is one of four: the chain moves, the pool
moves, the run goes on, or the run ends (`ChainMoves` ... `RunEnds`). Each changes at
most one of `Progress` and `Claim`. `PromiseInv` adds what the mapping needs: only
what was handed out is taken, and the result record says "submitted" exactly
when the run that succeeded had handed it out (`ClaimAllowed`).

`Spec_NeverTurnsBack` is the part of `HelperEnds` that needs no fairness: the
awaits the run has left (`Remaining`, from ProveAttempts + 5 down) become fewer
whenever it goes on to another await or another attempt, also from the SDK's
submission to the fallback; and after its end nothing that is still on its way
(`OthersLeaveHelper`) touches what it said.

### The verifier, and both together

The four answers are from four moments; what ties them together is that the
finalized head never gets lower, so IInv bounds the height of every answer by
that of the final chain. `OrphanNeverVerified` is proved by an invariant that
holds once the block is off the chain for good (`StuckStays`), `FinalBlockIsVerified` by
one that holds from the first state of a run whose block is final (`ConfirmedStays`),
`StandingBlockIsVerified` by one that a step keeps while the block is on the best
chain (`UnrefutedStays`): no answer from such a chain speaks against it.

The refinement puts both into one picture, with the pending verdicts too. A step
of the chain moves the block's standing as BlockVerdict allows or not at all
(`StandingMoves`); an answer teaches a fact that is so at that moment
(`NodeAnswersLearns`); an end says no more than was learned (`EndSays`), and
what is not said to be false holds the transaction (`Searched`). That the
flag "finalized" rests on a fact, although the code compares two heights, is
because a final chain at least as high as the block has decided about it: the
block is on it, or lost. A block that was canonical when that was asked and then
lost can therefore still be called finalized: BlockVerdict allows it, for the
code does not ask again, and `FinalizedFlagIsRight` says when the flag is right.

The pipeline's first theorem uses both components' invariants as they are: the
helper's result gives a block that holds the transaction and is final, which is
what the second needs to start (`PipelineIInv`). The verifier writes nothing the
helper reads (`VerifyingOnlyReads`), so the pipeline implements the helper's
specification, and what is proved of the helper alone carries over.

### Framing

`CompactRoundTrip` splits a number into its bytes (`LowByte`, `TwoBytes`,
`FourBytes`) and shows that the sign a shift brings in is lost again under the
mask. IInv of the frame says where the cursor is at each field.
`FramesWhatFits` needs that the outer length, four to seven bytes more than the
transaction, is what overflows first (`CompactOverflows`).

### The start of the tools

What a parser has not read is the end of its line (`IsEnd`, lemmas `EndTail`,
`EndBeyond`), and an option that stands once in a line does not come again after
it was read (`EndOfLine`). `DryOK` follows a `--dry-run` through the parser: it is
still unread, or has set `dryRun`, or has become the value of an option that
comes no more, where it is no transaction, no index and no URL. The other
parts of IInv name what each tool makes of the environment (`HelperUrl`,
`VerifierUrl`, `SeedPath`, ...); the theorems then compare the two readings.

### The local tool

A list may name a payee several times, so the transfers of the operation under way
are counted by position (`CountOK`): `Given(job, p, n)` is how often the first n
positions name p, and `Behind` how many positions have been given their
transfer. For each payee, what is listed and what the positions behind name is at
most what was sent (nothing is listed that was not sent, also once the whole
list is added); and what was sent, with the positions still to come and the retries that
are left (`RetriesLeft`, of the e2e's last position alone), is at most what
was asked. A transfer that resolves moves `Behind` by one; a rejected one that was
given to the node costs a retry or ends the operation. `FundsOK` keeps, for each position
whose wallet has been waited for, that its owner has funds, which the chain does not take back
(`paid` only grows); no transfer that resolved is used for it. `SetupOK` says that
a master wallet `main` holds is open until `CloseMaster`, and what `env` says of the network.

`Spec_OperationComesNearer` is the part of `OperationEnds` that needs no
fairness: `WorkLeft` weighs each receiver that is still to come more than all
the steps of the one in hand, so that taking up a receiver counts down as well
as a step, a retry or a failed registration does: a retry counts two awaits, the
master wallet's sync and the transfer.

### Only model-checked

`HelperEnds`, `VerdictOnceOpen` and `OperationEnds`: liveness under fairness is out
of the prover's reach. What two of them need of the code's own steps is proved:
`Spec_NeverTurnsBack` and `Spec_OperationComesNearer` above; what is left to TLC is
that fair steps are enabled and are taken. The three violations are
counterexamples of TLC.

## 5. Not modelled

* `build_sign_preimage` (a documented placeholder that authorizes nothing), the demo
  binary, `spend_no_sk.compact`.
* Key files and the two key resolvers, which compare a location and read a static file.
* `errorDetails`, `collectIdentifiers`, `normalizeIdentifier` and logging: wording.
* The hex, JSON and bech32m encodings beyond the failures they bring.
* Compiler output (`bench/*/contract/index.js`, `circuits/static/`), the benchmark programs
  and build files: no behaviour of the system.
* The submodules' own code. What is modelled of it is what the repository's code and
  docs rely on, and is marked external.
* Balances and amounts; token types. In the local tool an account has funds or has none:
  the master wallet's own funds and DUST are part of what lets a transfer resolve or reject.
* A header whose number is no hexadecimal number: the node is taken to give numbers as the
  verifier reads them (`preview_verify_onchain.mjs:179`). A null header is modelled, and
  ends the run as the code's failed read of its number does.
* The storage of attestations and handoffs: callers outside the repository keep
  them. What may go wrong with it (a registration repeated or mixed up, a handoff lost or
  sent again) is in SplitSpend as a step of the wallet; nothing in the source
  recovers from a crash.
* That importPackage looks for each package by itself, so that the ledger and the
  wallet packages may come from different installations: what two copies do to
  each other is decided by the SDK.
* Ctrl+C of the local tool (the code installs no handler), and the opening of the
  verifier's socket (`preview_verify_onchain.mjs:85-89`), which has no timer.

## 6. Plan

Done: all modules above, with their runs and proofs.

Left:

1. SplitSpend's admission as the pool's validity in BalanceSubmit, so that a
   nullifier spent by a stock spend drops a submitted transaction; the composition
   needs a transaction that carries a spend, and a chain whose blocks admit it.
2. The funding of the local tool as the minting that SplitSpend starts from, so that the
   e2e is one specification from the network's start to the verdict.
