------------------------------ MODULE LocalDev -------------------------------
(***************************************************************************)
(* The local network tool of deps/midnight-local-dev: start or reuse the   *)
(* network, open the master wallet, and fund accounts from a menu          *)
(* (src/index.ts) or once for the split-prove e2e (src/fund.ts).  Each     *)
(* operation works through a list of receivers, one await after the other, *)
(* any of which may reject; wallets, docker and the chain are external.    *)
(***************************************************************************)
EXTENDS FiniteSets, Naturals, Sequences

CONSTANTS
    Accounts,       \* owners of the mnemonics and addresses in the user's lists
    Spender,        \* the owner of the split-prove shielded address
    Funded,         \* accounts that an earlier session has funded
    MaxAccounts,    \* MAX_ACCOUNTS
    Attempts,       \* SPLIT_PROVE_SHIELDED_TRANSFER_ATTEMPTS
    MaxJobs         \* bound: operations chosen in a session

ASSUME LocalDevAssumption ==
    /\ Spender \notin Accounts /\ Funded \subseteq Accounts
    /\ MaxAccounts \in Nat /\ MaxJobs \in Nat
    /\ Attempts \in Nat \ {0}

VARIABLES
    program,        \* src/index.ts or src/fund.ts
    phase,          \* where its main is
    env,            \* what main knows of the network it uses
    network,        \* the docker containers
    master,         \* the master wallet
    held,           \* main's masterWallet is not null
    jobs,           \* operations begun
    job,            \* the operation under way
    wallets,        \* recipients' wallets started and never given to closeWallet
    asked,          \* history variable: transfers the operations chosen may make
    sent,           \* transfers the node was given, per payee
    paid,           \* those of them that the chain took
    dust,           \* accounts that have DUST
    listed          \* entries of the menu's fundedAccounts, per payee

setupVars == <<program, env, network, master, held>>
vars == <<setupVars, phase, jobs, job, wallets, asked, sent, paid, dust, listed>>

Receivers == Accounts \cup {Spender}

\* A receiver is paid by its wallet, which the tool opens, or by its address.
Payees == [receiver : Receivers, wallet : BOOLEAN]

Options == {"config file", "public keys", "shielded", "e2e"}

NoJob == [option |-> "none"]
Job(option, list) ==
    [option |-> option, list |-> list, at |-> 0, step |-> "next", attempt |-> 1]

\* The k-th receiver of a job: the e2e's shielded address follows its accounts.
OpensWallet(j, k) ==
    j.option = "config file" \/ (j.option = "e2e" /\ k < Len(j.list))
Shielded(j, k) ==
    j.option = "shielded" \/ (j.option = "e2e" /\ k = Len(j.list))
PayeeAt(j, k) == [receiver |-> j.list[k], wallet |-> OpensWallet(j, k)]
Receiver == job.list[job.at]

\* How often a job names a payee in the positions after n, and in all of them.
Named(j, p, n) == Cardinality({k \in (n + 1)..Len(j.list) : PayeeAt(j, k) = p})
Retried(j, p) ==
    IF j.option = "e2e" /\ p = [receiver |-> Spender, wallet |-> FALSE]
    THEN Attempts - 1 ELSE 0

Init ==
    /\ program \in {"index", "fund"}
    /\ network \in {"running", "stopped"}
    /\ program = "fund" => network = "running"
    /\ phase = IF program = "index" THEN "network" ELSE "wallet"
    /\ env = "none"
    /\ master = "none" /\ held = FALSE
    /\ jobs = 0 /\ job = NoJob
    /\ wallets = 0
    /\ asked = [p \in Payees |-> 0]
    /\ sent = [p \in Payees |-> 0] /\ paid = [p \in Payees |-> 0]
    /\ dust \in SUBSET Funded
    /\ listed = [p \in Payees |-> 0]

jobVars == <<jobs, job, wallets, asked, sent, paid, dust, listed>>

-----------------------------------------------------------------------------
(* main: up to the menu *)

\* isNetworkRunning, and the user's choice or startNetwork.
UseExisting ==
    /\ phase = "network" /\ network = "running"
    /\ env' = "existing"
    /\ phase' = "wallet"
    /\ UNCHANGED <<program, network, master, held, jobVars>>

\* freshStart removes what runs first; startNetwork alone starts what is absent.
\* Either may throw, with the old containers gone or some containers up.
StartNetwork ==
    /\ phase = "network"
    /\ \/ network' = "running" /\ env' = "started" /\ phase' = "wallet"
       \/ /\ network' \in {"running", "stopped"}
          /\ phase' = "closing" /\ UNCHANGED env
    /\ UNCHANGED <<program, master, held, jobVars>>

\* buildWalletFromHexSeed; when an await after the start of the wallet rejects,
\* the wallet runs and main has no hold of it.
OpenMaster ==
    /\ phase = "wallet"
    /\ \/ master' = "open" /\ held' = TRUE /\ phase' = "dust"
       \/ master' \in {"none", "open"} /\ phase' = "closing" /\ UNCHANGED held
    /\ UNCHANGED <<program, env, network, jobVars>>

\* registerNightForDust of the master wallet, whose result is not looked at, and
\* displayWalletBalances.
RegisterMaster ==
    /\ phase = "dust"
    /\ phase' = IF program = "index" THEN "menu" ELSE "e2e"
    /\ UNCHANGED <<setupVars, jobVars>>

\* Either of them throws, or fund.ts's setup does before it reads a list.
MasterFails ==
    /\ phase \in {"dust", "e2e"}
    /\ phase' = "closing"
    /\ UNCHANGED <<setupVars, jobVars>>

-----------------------------------------------------------------------------
(* The menu.  A file or a list that is refused (unreadable, too long, empty)  *)
(* changes nothing; nothing keeps a list from naming a receiver twice.        *)

Lists(receivers) == UNION {[1..n -> receivers] : n \in 0..MaxAccounts}

Begin(option, list) ==
    LET j == Job(option, list) IN
    /\ job' = j
    /\ asked' = [p \in Payees |-> asked[p] + Named(j, p, 0) + Retried(j, p)]
    /\ jobs' = jobs + 1
    /\ phase' = "working"
    /\ UNCHANGED <<setupVars, wallets, sent, paid, dust, listed>>

AtMenu == phase = "menu" /\ jobs < MaxJobs

FundFromConfigFile(list) == AtMenu /\ Begin("config file", list)
FundFromPublicKeys(list) == AtMenu /\ list # <<>> /\ Begin("public keys", list)
FundShieldedAddresses(list) == AtMenu /\ list # <<>> /\ Begin("shielded", list)
FundSplitProveE2ESetup(list) ==
    /\ AtMenu \/ phase = "e2e"
    /\ Begin("e2e", Append(list, Spender))

Exit ==
    /\ phase = "menu"
    /\ phase' = "closing"
    /\ UNCHANGED <<setupVars, jobVars>>

\* The operation is over: the menu comes back, fund.ts goes to its finally.
Leave ==
    /\ job' = NoJob
    /\ phase' = IF program = "index" THEN "menu" ELSE "closing"

ListsAll == listed' = [p \in Payees |-> listed[p] + Named(job, p, 0)]

OperationFails_StaysAtIt == job' = NoJob /\ UNCHANGED <<phase, listed>>
OperationFails_ListsAll  == Leave /\ ListsAll

\* What was funded before the failure is on the chain and in no list.
OperationFails == Leave /\ UNCHANGED listed

-----------------------------------------------------------------------------
(* Operations: src/funding.ts *)

Working == phase = "working"
GoesOn(j) == job' = j /\ UNCHANGED <<phase, listed>>
Served(j) == [j EXCEPT !.step = "next", !.attempt = 1]

\* The next turn of the loop; the e2e's shielded transfer after the last one.
NextReceiver ==
    /\ Working /\ job.step = "next" /\ job.at < Len(job.list)
    /\ LET k == job.at + 1 IN
       GoesOn([job EXCEPT !.at = k, !.step = IF OpensWallet(job, k) THEN "open"
                                             ELSE IF Shielded(job, k) THEN "sync"
                                             ELSE "transfer"])
    /\ UNCHANGED <<setupVars, jobs, wallets, asked, sent, paid, dust>>

\* The address of a turn does not parse, or is not of this network.
RefuseAddress ==
    /\ Working /\ job.step = "next" /\ job.at < Len(job.list)
    /\ ~OpensWallet(job, job.at + 1)
    /\ OperationFails
    /\ UNCHANGED <<setupVars, jobs, wallets, asked, sent, paid, dust>>

\* mnemonicToSeed, initWalletWithSeed and getAddress; a wallet that was started
\* before one of them rejects stays open.
OpenRecipient ==
    /\ Working /\ job.step = "open"
    /\ \/ GoesOn([job EXCEPT !.step = "transfer"]) /\ wallets' = wallets + 1
       \/ OperationFails /\ wallets' \in {wallets, wallets + 1}
    /\ UNCHANGED <<setupVars, jobs, asked, sent, paid, dust>>

AttemptsOf_All(j) == Attempts
\* fundShieldedAddresses asks for one attempt, and transferNight has no retry.
AttemptsOf(j) == IF j.option = "e2e" /\ j.at = Len(j.list) THEN Attempts ELSE 1

\* The catch of retryTransfer, or none.
AttemptFails ==
    \/ /\ job.attempt < AttemptsOf(job)
       /\ GoesOn([job EXCEPT !.attempt = @ + 1, !.step = "sync"])
    \/ job.attempt >= AttemptsOf(job) /\ OperationFails

\* waitForSync of the master wallet, in front of each shielded attempt.
SyncMaster ==
    /\ Working /\ job.step = "sync"
    /\ GoesOn([job EXCEPT !.step = "transfer"]) \/ AttemptFails
    /\ UNCHANGED <<setupVars, jobs, wallets, asked, sent, paid, dust>>

\* transferNight or transferShieldedNight: build, sign, prove and submit.  The
\* promise of submitTransaction says no more than that a node was given the
\* transfer, and may reject although it was.
Transfer(given, resolves) ==
    LET p == PayeeAt(job, job.at) IN
    /\ Working /\ job.step = "transfer"
    /\ resolves => given
    /\ sent' = IF given THEN [sent EXCEPT ![p] = @ + 1] ELSE sent
    /\ \/ resolves /\ GoesOn(IF p.wallet THEN [job EXCEPT !.step = "funds"]
                                         ELSE Served(job))
       \/ ~resolves /\ AttemptFails
    /\ UNCHANGED <<setupVars, jobs, wallets, asked, paid, dust>>

\* The chain (external) takes a transfer now, later or never.
ChainTakes(p) ==
    /\ network = "running"
    /\ paid[p] < sent[p]
    /\ paid' = [paid EXCEPT ![p] = @ + 1]
    /\ UNCHANGED <<setupVars, phase, jobs, job, wallets, asked, sent, dust, listed>>

HasFunds(r) == r \in Funded \/ \E p \in Payees : p.receiver = r /\ paid[p] > 0

FundsSeen_OnlySynced ==
    /\ Working /\ job.step = "funds"
    /\ GoesOn([job EXCEPT !.step = "register"])
    /\ UNCHANGED <<setupVars, jobs, wallets, asked, sent, paid, dust>>

\* waitForSync and waitForFunds of the recipient's wallet: any funds will do.
FundsSeen ==
    /\ Working /\ job.step = "funds"
    /\ HasFunds(Receiver)
    /\ GoesOn([job EXCEPT !.step = "register"])
    /\ UNCHANGED <<setupVars, jobs, wallets, asked, sent, paid, dust>>

\* registerNightForDust catches its own failure, with or without DUST there, and
\* the caller goes on to closeWallet with either result.
RegisterRecipient ==
    /\ Working /\ job.step = "register"
    /\ dust' \in {dust, dust \cup {Receiver}}
    /\ wallets' = wallets - 1
    /\ GoesOn(Served(job))
    /\ UNCHANGED <<setupVars, jobs, asked, sent, paid>>

RecipientFails_OpensAgain ==
    /\ Working /\ job.step \in {"funds", "register"}
    /\ GoesOn([job EXCEPT !.step = "open"])
    /\ dust' \in {dust, dust \cup {Receiver}}
    /\ UNCHANGED <<setupVars, jobs, wallets, asked, sent, paid>>

\* An await between opening the recipient's wallet and closing it throws, the
\* last display of the balances included.
RecipientFails ==
    /\ Working /\ job.step \in {"funds", "register"}
    /\ OperationFails
    /\ dust' \in IF job.step = "funds" THEN {dust} ELSE {dust, dust \cup {Receiver}}
    /\ UNCHANGED <<setupVars, jobs, wallets, asked, sent, paid>>

Finish_NotEmptyHanded ==
    /\ Working /\ job.step = "next" /\ job.at = Len(job.list) /\ job.at > 0
    /\ ListsAll /\ Leave
    /\ UNCHANGED <<setupVars, jobs, wallets, asked, sent, paid, dust>>

\* The list is returned, and the menu adds it to its own.
Finish ==
    /\ Working /\ job.step = "next" /\ job.at = Len(job.list)
    /\ ListsAll /\ Leave
    /\ UNCHANGED <<setupVars, jobs, wallets, asked, sent, paid, dust>>

-----------------------------------------------------------------------------
(* finally *)

\* closeWallet, which swallows the errors of stop.
CloseMaster ==
    /\ phase = "closing"
    /\ master' = IF held THEN "closed" ELSE master
    /\ phase' = "stopping"
    /\ UNCHANGED <<program, env, network, held, jobVars>>

StopNetwork_Always ==
    /\ phase = "stopping"
    /\ network' = "stopped"
    /\ phase' = "exited"
    /\ UNCHANGED <<program, env, master, held, jobVars>>

\* stopNetwork, whose failure is only logged.
StopNetwork ==
    /\ phase = "stopping"
    /\ network' \in IF env = "started" THEN {"stopped", network} ELSE {network}
    /\ phase' = "exited"
    /\ UNCHANGED <<program, env, master, held, jobVars>>

Setup == UseExisting \/ StartNetwork \/ OpenMaster \/ RegisterMaster \/ MasterFails
Choose ==
    \/ \E list \in Lists(Accounts) :
          \/ FundFromConfigFile(list) \/ FundFromPublicKeys(list)
          \/ FundSplitProveE2ESetup(list)
    \/ \E list \in Lists(Receivers) : FundShieldedAddresses(list)
Loop  == NextReceiver \/ RefuseAddress \/ Finish
Await ==
    \/ OpenRecipient \/ SyncMaster \/ FundsSeen \/ RegisterRecipient \/ RecipientFails
    \/ \E given, resolves \in BOOLEAN : Transfer(given, resolves)

Next ==
    \/ Setup \/ Choose \/ Exit \/ Loop \/ Await
    \/ \E p \in Payees : ChainTakes(p)
    \/ CloseMaster \/ StopNetwork

Spec == Init /\ [][Next]_vars

\* The loop runs on by itself.  Nothing is assumed of what it awaits: neither the
\* wallet SDK's promises nor the waits of wallet.ts for an observed state (sync,
\* funds, DUST) have a timer here.
FairSpec == Spec /\ WF_vars(Loop)

-----------------------------------------------------------------------------
(* Properties *)

TypeOK ==
    /\ program \in {"index", "fund"}
    /\ phase \in {"network", "wallet", "dust", "menu", "e2e", "working", "closing",
                  "stopping", "exited"}
    /\ env \in {"none", "existing", "started"}
    /\ network \in {"running", "stopped"}
    /\ master \in {"none", "open", "closed"} /\ held \in BOOLEAN
    /\ jobs \in Nat
    /\ phase = "working" <=> job # NoJob
    /\ job # NoJob => /\ job.option \in Options
                      /\ job.list \in Seq(Receivers)
                      /\ job.at \in 0..Len(job.list)
                      /\ job.step \in {"next", "open", "sync", "transfer", "funds",
                                       "register"}
                      /\ job.attempt \in 1..Attempts
    /\ wallets \in Nat
    /\ asked \in [Payees -> Nat] /\ sent \in [Payees -> Nat]
    /\ paid \in [Payees -> Nat] /\ listed \in [Payees -> Nat]
    /\ dust \subseteq Accounts

\* Nobody is on the menu's list more often than the node was given a transfer to
\* it, whatever failed in between and however often a list names it.
ListedWereSent == \A p \in Payees : listed[p] <= sent[p]

\* An account whose wallet the tool opened is on the list only if it has funds on
\* the chain, though a transfer that resolved was no more than submitted.
ListedWalletsHaveFunds ==
    \A p \in Payees : p.wallet /\ listed[p] > 0 => HasFunds(p.receiver)

\* The node is given as many transfers as the lists name their payees, also when
\* one that it took is reported as failed; only the e2e's shielded transfer is
\* tried again, and given once per attempt.
SentAsAsked == \A p \in Payees : sent[p] <= asked[p]

\* A master wallet that main was given is open as long as the menu or an
\* operation uses it and closed on every way out, and a network that was found
\* running and used as it was is left running.
CleanExit ==
    /\ phase \in {"menu", "e2e", "working"} => master = "open"
    /\ phase = "exited" => /\ held => master = "closed"
                           /\ env = "existing" => network = "running"

\* An operation comes to its end, whatever fails in it and however often a
\* transfer is tried, unless one single await of it never settles.
Awaits == {"open", "sync", "transfer", "funds", "register"}
OperationEnds ==
    \/ \E step \in Awaits : <>[](Working /\ job.step = step)
    \/ Working ~> ~Working

\* How many awaits an operation has left at most: those for the receiver in hand,
\* and those for each of the receivers that are still to come.
PerReceiver == 2 * Attempts + 4
InHand ==
    CASE job.step = "next"     -> 0
      [] job.step = "register" -> 1
      [] job.step = "funds"    -> 2
      [] job.step = "transfer" -> 2 * (Attempts - job.attempt) + 3
      [] job.step = "sync"     -> 2 * (Attempts - job.attempt) + 4
      [] job.step = "open"     -> 2 * Attempts + 3
WorkLeft == (Len(job.list) - job.at) * PerReceiver + InHand

\* Until an operation is over no other one begins, and each of its steps, a
\* transfer that is tried again and a registration that failed included, brings
\* it nearer to its end: no turn of the loop is taken twice and no retry goes on
\* for ever.
OperationComesNearer ==
    [][Working /\ Working' => jobs' = jobs /\ WorkLeft' < WorkLeft]_<<jobs, job>>

\* deps/midnight-local-dev/README.md:143, of an account funded from a config
\* file: "each account is fully ready to submit transactions".
ListedAreReady ==
    \A p \in Payees : p.wallet /\ listed[p] > 0 => p.receiver \in dust

\* deps/midnight-local-dev/README.md:76: on exit "the tool gracefully shuts
\* down all wallets".
RecipientWalletsClosed == phase = "exited" /\ program = "index" => wallets = 0

=============================================================================
