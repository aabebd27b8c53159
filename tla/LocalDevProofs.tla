---------------------------- MODULE LocalDevProofs ----------------------------
(***************************************************************************)
(* What the local network tool gives the node and puts on its list, for    *)
(* any number of accounts, operations and attempts and for lists that name *)
(* a receiver more than once.  The transfers of the operation under way    *)
(* are counted by the positions of its list that are behind it and by the  *)
(* attempts it has left.                                                   *)
(***************************************************************************)
EXTENDS LocalDev, FiniteSetTheorems, SequenceTheorems, TLAPS

Steps == {"next", "open", "sync", "transfer", "funds", "register"}
Jobs  == [option : Options, list : Seq(Receivers), at : Nat, step : Steps,
          attempt : 1..Attempts]

-----------------------------------------------------------------------------
(* The inductive invariant *)

\* What holds of a job as long as it lasts: its list is the user's, and the
\* spender's address ends the e2e's.
ListOK(j) ==
    /\ \A k \in 1..Len(j.list) : OpensWallet(j, k) => j.list[k] \in Accounts
    /\ j.option = "e2e" => Len(j.list) > 0 /\ j.list[Len(j.list)] = Spender

\* The operation under way; the steps after the first have a receiver in hand.
JobOK ==
    IF phase = "working"
    THEN /\ job \in Jobs
         /\ ListOK(job)
         /\ job.at <= Len(job.list)
         /\ job.step # "next" => job.at > 0
         /\ job.step \in {"open", "funds", "register"} => OpensWallet(job, job.at)
         /\ job.step = "sync" => ~OpensWallet(job, job.at)
         /\ job.step = "next" => job.attempt = 1
         /\ job.attempt <= AttemptsOf(job)
         /\ job.step \in {"funds", "register"} => wallets > 0
         /\ job.step = "transfer" /\ OpensWallet(job, job.at) => wallets > 0
    ELSE job = NoJob

\* How often the first n positions name a payee, and how many of the positions
\* have been given their transfer.
Given(j, p, n) == Cardinality({k \in 1..n : PayeeAt(j, k) = p})
Behind(j) == IF j.step \in {"next", "funds", "register"} THEN j.at ELSE j.at - 1

\* The attempts at the e2e's shielded transfer that are still allowed beyond one
\* transfer for its position.
RetriesLeft(j, p) ==
    IF Retried(j, p) = 0 THEN 0
    ELSE IF j.at < Len(j.list) THEN Attempts - 1
    ELSE IF j.step \in {"sync", "transfer"} THEN Attempts - j.attempt ELSE 0

CountOK ==
    IF phase = "working"
    THEN \A p \in Payees :
            /\ listed[p] + Given(job, p, Behind(job)) <= sent[p]
            /\ sent[p] + Given(job, p, Len(job.list)) + RetriesLeft(job, p)
                 <= asked[p] + Given(job, p, Behind(job))
    ELSE \A p \in Payees : listed[p] <= sent[p] /\ sent[p] <= asked[p]

\* Whose wallet was waited for, listed or not yet, has funds.
Seen(j, k) == k < j.at \/ (k = j.at /\ j.step \in {"next", "register"})
FundsOK ==
    /\ \A p \in Payees : p.wallet /\ listed[p] > 0 => HasFunds(p.receiver)
    /\ phase = "working" =>
          \A k \in 1..Len(job.list) :
             OpensWallet(job, k) /\ Seen(job, k) => HasFunds(job.list[k])

\* The way in and the way out.
SetupOK ==
    /\ program \in {"index", "fund"}
    /\ phase \in {"network", "wallet", "dust", "menu", "e2e", "working", "closing",
                  "stopping", "exited"}
    /\ env \in {"none", "existing", "started"}
    /\ network \in {"running", "stopped"}
    /\ master \in {"none", "open", "closed"} /\ held \in BOOLEAN
    /\ phase \in {"dust", "menu", "e2e", "working"} => master = "open"
    /\ phase \in {"stopping", "exited"} /\ held => master = "closed"
    /\ phase = "network" => env = "none"
    /\ env = "existing" => network = "running"

DataOK ==
    /\ jobs \in Nat /\ wallets \in Nat
    /\ asked \in [Payees -> Nat] /\ sent \in [Payees -> Nat]
    /\ paid \in [Payees -> Nat] /\ listed \in [Payees -> Nat]
    /\ dust \subseteq Accounts

IInv == SetupOK /\ DataOK /\ JobOK /\ CountOK /\ FundsOK

-----------------------------------------------------------------------------
(* Lemmas *)

LEMMA NoJobIsNone == NoJob \notin Jobs
<1>1. NoJob.option = "none"
  BY DEF NoJob
<1>2. \A j \in Jobs : j.option \in Options
  BY DEF Jobs
<1>. QED  BY <1>1, <1>2 DEF Options

\* Counting the positions one by one.
LEMMA GivenCounts ==
    ASSUME NEW j, NEW p, NEW n \in Nat
    PROVE  /\ Given(j, p, n) \in Nat
           /\ Given(j, p, 0) = 0
           /\ Given(j, p, n + 1) =
                Given(j, p, n) + (IF PayeeAt(j, n + 1) = p THEN 1 ELSE 0)
<1>. DEFINE In(m) == {k \in 1..m : PayeeAt(j, k) = p}
<1>1. \A m \in Nat : IsFiniteSet(In(m)) /\ Cardinality(In(m)) \in Nat
  <2>. SUFFICES ASSUME NEW m \in Nat
                PROVE  IsFiniteSet(In(m)) /\ Cardinality(In(m)) \in Nat
    OBVIOUS
  <2>1. IsFiniteSet(1..m)
    BY FS_Interval, SMT
  <2>2. IsFiniteSet(In(m))
    BY <2>1, FS_Subset
  <2>. QED  BY <2>2, FS_CardinalityType
<1>2. \A m : Given(j, p, m) = Cardinality(In(m))
  BY DEF Given
<1>3. Given(j, p, 0) = 0
  <2>1. In(0) = {}
    BY SMT
  <2>. QED  BY <1>2, <2>1, FS_EmptySet
<1>4. n + 1 \notin In(n)
  BY SMT
<1>5. CASE PayeeAt(j, n + 1) = p
  <2>1. In(n + 1) = In(n) \cup {n + 1}
    BY <1>5, SMT
  <2>2. Cardinality(In(n + 1)) = Cardinality(In(n)) + 1
    BY <1>1, <1>4, <2>1, FS_AddElement
  <2>. QED  BY <1>1, <1>2, <1>3, <1>5, <2>2
<1>6. CASE PayeeAt(j, n + 1) # p
  <2>1. In(n + 1) = In(n)
    BY <1>6, SMT
  <2>2. Given(j, p, n + 1) = Given(j, p, n) /\ Given(j, p, n) \in Nat
    BY <1>1, <1>2, <2>1
  <2>3. Given(j, p, n) + 0 = Given(j, p, n)
    BY <2>2, SMT
  <2>. QED  BY <1>3, <1>6, <2>2, <2>3
<1>. QED  BY <1>5, <1>6

LEMMA GivenGrows ==
    ASSUME NEW j, NEW p, NEW m \in Nat, NEW n \in Nat, m <= n
    PROVE  Given(j, p, m) <= Given(j, p, n)
<1>. DEFINE In(x) == {k \in 1..x : PayeeAt(j, k) = p}
<1>1. IsFiniteSet(1..n)
  BY FS_Interval, SMT
<1>2. IsFiniteSet(In(n))
  BY <1>1, FS_Subset
<1>3. In(m) \in SUBSET In(n)
  BY SMT
<1>. QED  BY <1>2, <1>3, FS_Subset DEF Given

LEMMA NamedIsGiven ==
    ASSUME NEW j, NEW p
    PROVE  /\ Named(j, p, 0) = Given(j, p, Len(j.list))
           /\ Len(j.list) \in Nat /\ Named(j, p, 0) > 0 =>
                 \E k \in 1..Len(j.list) : PayeeAt(j, k) = p
<1>1. (0 + 1)..Len(j.list) = 1..Len(j.list)
  BY SMT
<1>2. Named(j, p, 0) = Given(j, p, Len(j.list))
  BY <1>1 DEF Named, Given
<1>3. ASSUME ~ \E k \in 1..Len(j.list) : PayeeAt(j, k) = p
      PROVE  Given(j, p, Len(j.list)) = 0
  <2>1. {k \in 1..Len(j.list) : PayeeAt(j, k) = p} = {}
    BY <1>3
  <2>. QED  BY <2>1, FS_EmptySet DEF Given
<1>. QED  BY <1>2, <1>3

\* A step of a job leaves its option and its list alone.
SameJob(j1, j2) == j1.option = j2.option /\ j1.list = j2.list

LEMMA SameJobSame ==
    ASSUME NEW j1, NEW j2, SameJob(j1, j2)
    PROVE  /\ ListOK(j1) <=> ListOK(j2)
           /\ \A k : /\ OpensWallet(j1, k) <=> OpensWallet(j2, k)
                     /\ Shielded(j1, k) <=> Shielded(j2, k)
                     /\ PayeeAt(j1, k) = PayeeAt(j2, k)
           /\ \A p : Retried(j1, p) = Retried(j2, p)
           /\ \A p, n : Given(j1, p, n) = Given(j2, p, n)
<1>1. \A k : /\ OpensWallet(j1, k) <=> OpensWallet(j2, k)
             /\ Shielded(j1, k) <=> Shielded(j2, k)
  BY DEF SameJob, OpensWallet, Shielded
<1>2. \A k : OpensWallet(j1, k) = OpensWallet(j2, k)
  BY <1>1 DEF OpensWallet
<1>3. \A k : PayeeAt(j1, k) = PayeeAt(j2, k)
  BY <1>2 DEF SameJob, PayeeAt
<1>4. ListOK(j1) <=> ListOK(j2)
  BY <1>1 DEF SameJob, ListOK
<1>5. \A p, n : Given(j1, p, n) = Given(j2, p, n)
  BY <1>3 DEF Given
<1>6. \A p : Retried(j1, p) = Retried(j2, p)
  BY DEF SameJob, Retried
<1>. QED  BY <1>1, <1>3, <1>4, <1>5, <1>6

LEMMA IInvInit == Init => IInv
<1>. SUFFICES ASSUME Init
              PROVE  IInv
  OBVIOUS
<1>1. phase \in {"network", "wallet"} /\ job = NoJob
  BY DEF Init
<1>2. SetupOK /\ JobOK
  BY <1>1 DEF Init, SetupOK, JobOK
<1>3. DataOK
  BY LocalDevAssumption, SMT DEF Init, DataOK
<1>4. CountOK /\ FundsOK
  BY <1>1, SMT DEF Init, CountOK, FundsOK
<1>. QED  BY <1>2, <1>3, <1>4 DEF IInv

\* Outside of operations an action that only sets up or closes keeps the rest.
LEMMA OutsideOperations ==
    ASSUME IInv, phase # "working", phase' # "working", UNCHANGED jobVars, SetupOK'
    PROVE  IInv'
<1>1. DataOK'
  BY DEF IInv, DataOK, jobVars
<1>2. JobOK' /\ CountOK' /\ FundsOK'
  BY DEF IInv, JobOK, CountOK, FundsOK, HasFunds, jobVars
<1>. QED  BY <1>1, <1>2 DEF IInv

\* What every step of an operation starts from.
LEMMA AtWork ==
    ASSUME IInv, phase = "working"
    PROVE  /\ job \in Jobs /\ ListOK(job)
           /\ Len(job.list) \in Nat /\ job.at \in Nat /\ job.at <= Len(job.list)
           /\ job.step # "next" => job.at \in 1..Len(job.list)
           /\ Behind(job) \in Nat /\ Behind(job) <= Len(job.list)
           /\ job.attempt \in Nat /\ job.attempt >= 1 /\ Attempts \in Nat
           /\ job.attempt <= AttemptsOf(job)
           /\ \A k \in 1..Len(job.list) : job.list[k] \in Receivers
           /\ \A p \in Payees : /\ asked[p] \in Nat /\ sent[p] \in Nat
                                /\ paid[p] \in Nat /\ listed[p] \in Nat
<1>1. /\ job \in Jobs /\ ListOK(job) /\ job.at <= Len(job.list)
      /\ job.step # "next" => job.at > 0
      /\ job.attempt <= AttemptsOf(job)
  BY DEF IInv, JobOK
<1>2. /\ job.list \in Seq(Receivers) /\ job.at \in Nat /\ job.step \in Steps
      /\ job.attempt \in 1..Attempts
  BY <1>1 DEF Jobs
<1>3. Len(job.list) \in Nat /\ \A k \in 1..Len(job.list) : job.list[k] \in Receivers
  BY <1>2, LenProperties, ElementOfSeq
<1>4. job.attempt \in Nat /\ job.attempt >= 1 /\ Attempts \in Nat
  BY <1>2, LocalDevAssumption, SMT
<1>5. job.step # "next" => job.at \in 1..Len(job.list)
  BY <1>1, <1>2, <1>3, SMT
<1>6. Behind(job) \in Nat /\ Behind(job) <= Len(job.list)
  BY <1>1, <1>2, <1>3, SMT DEF Behind, Steps
<1>7. \A p \in Payees : /\ asked[p] \in Nat /\ sent[p] \in Nat
                        /\ paid[p] \in Nat /\ listed[p] \in Nat
  BY DEF IInv, DataOK
<1>. QED  BY <1>1, <1>2, <1>3, <1>4, <1>5, <1>6, <1>7

LEMMA RetriesLeftIsNat ==
    ASSUME IInv, phase = "working", NEW p
    PROVE  RetriesLeft(job, p) \in Nat
<1>1. job.attempt \in Nat /\ job.attempt <= AttemptsOf(job)
  BY AtWork
<1>2. job.attempt <= Attempts /\ Attempts - 1 \in Nat /\ Attempts \in Nat
  BY <1>1, LocalDevAssumption, SMT DEF AttemptsOf
<1>. QED  BY <1>1, <1>2, SMT DEF RetriesLeft

\* At any time of an operation the counts are those that may stand at its end.
LEMMA CountedAtAnyTime ==
    ASSUME IInv, phase = "working", NEW p \in Payees
    PROVE  /\ listed[p] <= sent[p] /\ sent[p] <= asked[p]
           /\ Given(job, p, Behind(job)) \in Nat
           /\ Given(job, p, Len(job.list)) \in Nat
           /\ Given(job, p, Behind(job)) <= Given(job, p, Len(job.list))
<1>1. /\ Given(job, p, Behind(job)) \in Nat
      /\ Given(job, p, Len(job.list)) \in Nat
      /\ Given(job, p, Behind(job)) <= Given(job, p, Len(job.list))
  BY AtWork, GivenCounts, GivenGrows
<1>2. /\ listed[p] + Given(job, p, Behind(job)) <= sent[p]
      /\ sent[p] + Given(job, p, Len(job.list)) + RetriesLeft(job, p)
           <= asked[p] + Given(job, p, Behind(job))
  BY DEF IInv, CountOK
<1>3. /\ asked[p] \in Nat /\ sent[p] \in Nat /\ listed[p] \in Nat
      /\ RetriesLeft(job, p) \in Nat
  BY AtWork, RetriesLeftIsNat
<1>. QED  BY <1>1, <1>2, <1>3, SMT

\* An operation may end, with or without success, wherever the counts stand.
LEMMA LeaveKeepsIInv ==
    ASSUME IInv, phase = "working", Leave, UNCHANGED setupVars, DataOK',
           \A p \in Payees : listed'[p] <= sent'[p] /\ sent'[p] <= asked'[p],
           \A p \in Payees : p.wallet /\ listed'[p] > 0 => HasFunds(p.receiver)'
    PROVE  IInv'
<1>1. phase' \in {"menu", "closing"} /\ job' = NoJob
  BY DEF Leave
<1>2. SetupOK'
  BY <1>1 DEF IInv, SetupOK, setupVars
<1>3. JobOK' /\ CountOK' /\ FundsOK'
  BY <1>1 DEF JobOK, CountOK, FundsOK
<1>. QED  BY <1>2, <1>3 DEF IInv

LEMMA FailKeepsIInv ==
    ASSUME IInv, phase = "working", OperationFails,
           UNCHANGED <<setupVars, jobs, asked, sent, paid>>,
           wallets' \in Nat, dust' \subseteq Accounts
    PROVE  IInv'
<1>1. Leave /\ listed' = listed
  BY DEF OperationFails
<1>2. DataOK'
  BY <1>1 DEF IInv, DataOK
<1>3. \A p \in Payees : listed'[p] <= sent'[p] /\ sent'[p] <= asked'[p]
  BY <1>1, CountedAtAnyTime
<1>4. \A p \in Payees : p.wallet /\ listed'[p] > 0 => HasFunds(p.receiver)'
  BY <1>1 DEF IInv, FundsOK, HasFunds
<1>. QED  BY <1>1, <1>2, <1>3, <1>4, LeaveKeepsIInv

\* A step within an operation that gives the node nothing.
LEMMA GoOnKeepsIInv ==
    ASSUME IInv, phase = "working", phase' = phase,
           UNCHANGED <<setupVars, jobs, asked, sent, paid, listed>>,
           wallets' \in Nat, dust' \subseteq Accounts,
           JobOK', SameJob(job', job), Behind(job') = Behind(job),
           \A p : RetriesLeft(job', p) \in Nat /\ RetriesLeft(job', p) <= RetriesLeft(job, p),
           \A k \in 1..Len(job.list) :
              OpensWallet(job, k) /\ Seen(job', k) => Seen(job, k) \/ HasFunds(job.list[k])
    PROVE  IInv'
<1>1. SetupOK' /\ DataOK'
  BY DEF IInv, SetupOK, DataOK, setupVars
<1>2. CountOK'
  <2>. SUFFICES ASSUME NEW p \in Payees
                PROVE  /\ listed'[p] + Given(job', p, Behind(job')) <= sent'[p]
                       /\ sent'[p] + Given(job', p, Len(job'.list)) + RetriesLeft(job', p)
                            <= asked'[p] + Given(job', p, Behind(job'))
    BY DEF CountOK
  <2>1. /\ Given(job', p, Behind(job')) = Given(job, p, Behind(job))
        /\ Given(job', p, Len(job'.list)) = Given(job, p, Len(job.list))
    BY SameJobSame DEF SameJob
  <2>2. /\ listed[p] + Given(job, p, Behind(job)) <= sent[p]
        /\ sent[p] + Given(job, p, Len(job.list)) + RetriesLeft(job, p)
             <= asked[p] + Given(job, p, Behind(job))
    BY DEF IInv, CountOK
  <2>3. /\ Given(job, p, Behind(job)) \in Nat /\ Given(job, p, Len(job.list)) \in Nat
        /\ asked[p] \in Nat /\ sent[p] \in Nat /\ RetriesLeft(job, p) \in Nat
    BY CountedAtAnyTime, AtWork, RetriesLeftIsNat
  <2>4. RetriesLeft(job', p) \in Nat /\ RetriesLeft(job', p) <= RetriesLeft(job, p)
    OBVIOUS
  <2>. QED  BY <2>1, <2>2, <2>3, <2>4, SMT
<1>3. FundsOK'
  <2>1. \A r : HasFunds(r)' <=> HasFunds(r)
    BY DEF HasFunds
  <2>2. \A k : OpensWallet(job', k) <=> OpensWallet(job, k)
    BY SameJobSame
  <2>3. job'.list = job.list
    BY DEF SameJob
  <2>. QED  BY <2>1, <2>2, <2>3 DEF IInv, FundsOK
<1>. QED  BY <1>1, <1>2, <1>3 DEF IInv

-----------------------------------------------------------------------------
(* Setting up, choosing and closing *)

LEMMA SetupKeepsIInv ==
    ASSUME IInv, Setup \/ Exit \/ CloseMaster \/ StopNetwork
    PROVE  IInv'
<1>1. CASE UseExisting
  BY <1>1, OutsideOperations DEF IInv, SetupOK, UseExisting
<1>2. CASE StartNetwork
  BY <1>2, OutsideOperations DEF IInv, SetupOK, StartNetwork
<1>3. CASE OpenMaster
  BY <1>3, OutsideOperations DEF IInv, SetupOK, OpenMaster
<1>4. CASE RegisterMaster
  BY <1>4, OutsideOperations DEF IInv, SetupOK, RegisterMaster, setupVars
<1>5. CASE MasterFails
  BY <1>5, OutsideOperations DEF IInv, SetupOK, MasterFails, setupVars
<1>6. CASE Exit
  BY <1>6, OutsideOperations DEF IInv, SetupOK, Exit, setupVars
<1>7. CASE CloseMaster
  BY <1>7, OutsideOperations DEF IInv, SetupOK, CloseMaster
<1>8. CASE StopNetwork
  BY <1>8, OutsideOperations DEF IInv, SetupOK, StopNetwork
<1>. QED  BY <1>1, <1>2, <1>3, <1>4, <1>5, <1>6, <1>7, <1>8 DEF Setup

\* An operation begins: all its transfers may still be made.
LEMMA BeginKeepsIInv ==
    ASSUME IInv, phase # "working", master = "open",
           NEW option \in Options, NEW list \in Seq(Receivers),
           ListOK(Job(option, list)), Begin(option, list)
    PROVE  IInv'
<1>. DEFINE j == Job(option, list)
<1>1. /\ job' = j /\ jobs' = jobs + 1 /\ phase' = "working"
      /\ asked' = [p \in Payees |-> asked[p] + Named(j, p, 0) + Retried(j, p)]
      /\ UNCHANGED <<setupVars, wallets, sent, paid, dust, listed>>
  BY DEF Begin
<1>2. /\ j.option = option /\ j.list = list /\ j.at = 0 /\ j.step = "next"
      /\ j.attempt = 1
  BY DEF Job
<1>3. Len(list) \in Nat
  BY LenProperties
<1>4. j \in Jobs
  BY LocalDevAssumption, SMT DEF Job, Jobs, Steps
<1>5. ListOK(j)
  OBVIOUS
<1>. HIDE DEF j
<1>6. \A p : /\ Named(j, p, 0) = Given(j, p, Len(list)) /\ Given(j, p, Len(list)) \in Nat
             /\ Given(j, p, 0) = 0
             /\ Retried(j, p) \in Nat
             /\ RetriesLeft(j, p) \in Nat /\ RetriesLeft(j, p) <= Retried(j, p)
  <2>. SUFFICES ASSUME NEW p
                PROVE  /\ Named(j, p, 0) = Given(j, p, Len(list))
                       /\ Given(j, p, Len(list)) \in Nat
                       /\ Given(j, p, 0) = 0
                       /\ Retried(j, p) \in Nat
                       /\ RetriesLeft(j, p) \in Nat /\ RetriesLeft(j, p) <= Retried(j, p)
    OBVIOUS
  <2>1. Named(j, p, 0) = Given(j, p, Len(list))
    BY <1>2, NamedIsGiven
  <2>2. Given(j, p, Len(list)) \in Nat /\ Given(j, p, 0) = 0
    BY <1>3, GivenCounts
  <2>3. Retried(j, p) \in Nat /\ (Retried(j, p) = 0 \/ Retried(j, p) = Attempts - 1)
    BY LocalDevAssumption, SMT DEF Retried
  <2>4. RetriesLeft(j, p) \in Nat /\ RetriesLeft(j, p) <= Retried(j, p)
    BY <1>2, <2>3, LocalDevAssumption, SMT DEF RetriesLeft
  <2>. QED  BY <2>1, <2>2, <2>3, <2>4
<1>7. SetupOK'
  BY <1>1 DEF IInv, SetupOK, setupVars
<1>8. DataOK'
  <2>1. \A p \in Payees : asked[p] + Named(j, p, 0) + Retried(j, p) \in Nat
    BY <1>6, SMT DEF IInv, DataOK
  <2>2. asked' \in [Payees -> Nat] /\ jobs' \in Nat
    BY <1>1, <2>1, SMT DEF IInv, DataOK
  <2>. QED  BY <1>1, <2>2 DEF IInv, DataOK
<1>9. JobOK'
  <2>1. 1 <= AttemptsOf(j) /\ 0 <= Len(list)
    BY <1>3, LocalDevAssumption, SMT DEF AttemptsOf
  <2>. QED  BY <1>1, <1>2, <1>4, <1>5, <2>1 DEF JobOK
<1>10. CountOK'
  <2>. SUFFICES ASSUME NEW p \in Payees
                PROVE  /\ listed[p] + Given(j, p, 0) <= sent[p]
                       /\ sent[p] + Given(j, p, Len(list)) + RetriesLeft(j, p)
                            <= asked'[p] + Given(j, p, 0)
    BY <1>1, <1>2 DEF CountOK, Behind
  <2>1. /\ asked[p] \in Nat /\ sent[p] \in Nat /\ listed[p] \in Nat
        /\ listed[p] <= sent[p] /\ sent[p] <= asked[p]
    BY DEF IInv, DataOK, CountOK
  <2>2. asked'[p] = asked[p] + Given(j, p, Len(list)) + Retried(j, p)
    BY <1>1, <1>6
  <2>. QED  BY <1>6, <2>1, <2>2, SMT
<1>11. FundsOK'
  <2>1. \A r : HasFunds(r)' <=> HasFunds(r)
    BY <1>1 DEF HasFunds
  <2>2. \A k \in 1..Len(list) : ~Seen(j, k)
    BY <1>2, <1>3, SMT DEF Seen
  <2>. QED  BY <1>1, <1>2, <2>1, <2>2 DEF IInv, FundsOK
<1>. QED  BY <1>7, <1>8, <1>9, <1>10, <1>11 DEF IInv

LEMMA ListsAreSeqs ==
    ASSUME NEW S, NEW list \in Lists(S)
    PROVE  list \in Seq(S) /\ \A k \in 1..Len(list) : list[k] \in S
<1>1. PICK n \in 0..MaxAccounts : list \in [1..n -> S]
  BY DEF Lists
<1>2. n \in Nat
  BY <1>1, LocalDevAssumption, SMT
<1>3. list \in Seq(S)
  BY <1>1, <1>2, SeqDef
<1>. QED  BY <1>3, ElementOfSeq

LEMMA ChooseKeepsIInv ==
    ASSUME IInv, Choose
    PROVE  IInv'
<1>0. Accounts \subseteq Receivers /\ Spender \in Receivers
  BY DEF Receivers
<1>1. ASSUME NEW list \in Lists(Accounts), FundFromConfigFile(list)
      PROVE  IInv'
  <2>1. list \in Seq(Accounts) /\ \A k \in 1..Len(list) : list[k] \in Accounts
    BY ListsAreSeqs
  <2>2. list \in Seq(Receivers)
    BY <1>0, <2>1, SeqMonotonic
  <2>3. ListOK(Job("config file", list))
    BY <2>1 DEF ListOK, Job
  <2>4. phase = "menu" /\ master = "open" /\ Begin("config file", list)
    BY <1>1 DEF FundFromConfigFile, AtMenu, IInv, SetupOK
  <2>. QED  BY <2>2, <2>3, <2>4, BeginKeepsIInv DEF Options
<1>2. ASSUME NEW list \in Lists(Accounts), FundFromPublicKeys(list)
      PROVE  IInv'
  <2>1. list \in Seq(Accounts)
    BY ListsAreSeqs
  <2>2. list \in Seq(Receivers)
    BY <1>0, <2>1, SeqMonotonic
  <2>3. ListOK(Job("public keys", list))
    BY DEF ListOK, Job, OpensWallet
  <2>4. phase = "menu" /\ master = "open" /\ Begin("public keys", list)
    BY <1>2 DEF FundFromPublicKeys, AtMenu, IInv, SetupOK
  <2>. QED  BY <2>2, <2>3, <2>4, BeginKeepsIInv DEF Options
<1>3. ASSUME NEW list \in Lists(Accounts), FundSplitProveE2ESetup(list)
      PROVE  IInv'
  <2>. DEFINE whole == Append(list, Spender)
  <2>1. list \in Seq(Accounts) /\ \A k \in 1..Len(list) : list[k] \in Accounts
    BY ListsAreSeqs
  <2>2. list \in Seq(Receivers) /\ Len(list) \in Nat
    BY <1>0, <2>1, SeqMonotonic, LenProperties
  <2>3. /\ whole \in Seq(Receivers) /\ Len(whole) = Len(list) + 1
        /\ whole[Len(list) + 1] = Spender
        /\ \A k \in 1..Len(list) : whole[k] = list[k]
    BY <1>0, <2>2, AppendProperties
  <2>. HIDE DEF whole
  <2>4. \A k \in 1..Len(whole) : k < Len(whole) => k \in 1..Len(list)
    BY <2>2, <2>3, SMT
  <2>5. ListOK(Job("e2e", whole))
    <3>1. \A k \in 1..Len(whole) : k < Len(whole) => whole[k] \in Accounts
      BY <2>1, <2>3, <2>4
    <3>2. Len(whole) > 0 /\ whole[Len(whole)] = Spender
      BY <2>2, <2>3
    <3>. QED  BY <3>1, <3>2 DEF ListOK, Job, OpensWallet
  <2>6. phase \in {"menu", "e2e"} /\ master = "open" /\ Begin("e2e", whole)
    BY <1>3 DEF FundSplitProveE2ESetup, AtMenu, IInv, SetupOK, whole
  <2>. QED  BY <2>3, <2>5, <2>6, BeginKeepsIInv DEF Options
<1>4. ASSUME NEW list \in Lists(Receivers), FundShieldedAddresses(list)
      PROVE  IInv'
  <2>1. list \in Seq(Receivers)
    BY ListsAreSeqs
  <2>2. ListOK(Job("shielded", list))
    BY DEF ListOK, Job, OpensWallet
  <2>3. phase = "menu" /\ master = "open" /\ Begin("shielded", list)
    BY <1>4 DEF FundShieldedAddresses, AtMenu, IInv, SetupOK
  <2>. QED  BY <2>1, <2>2, <2>3, BeginKeepsIInv DEF Options
<1>. QED  BY <1>1, <1>2, <1>3, <1>4 DEF Choose

\* The chain takes a transfer whatever the tool is doing.
LEMMA ChainTakesKeepsIInv ==
    ASSUME IInv, NEW q \in Payees, ChainTakes(q)
    PROVE  IInv'
<1>1. /\ paid' = [paid EXCEPT ![q] = @ + 1]
      /\ UNCHANGED <<setupVars, phase, jobs, job, wallets, asked, sent, dust, listed>>
  BY DEF ChainTakes
<1>2. paid' \in [Payees -> Nat] /\ \A p \in Payees : paid[p] > 0 => paid'[p] > 0
  BY <1>1, SMT DEF IInv, DataOK
<1>3. SetupOK' /\ DataOK' /\ JobOK'
  BY <1>1, <1>2 DEF IInv, SetupOK, DataOK, JobOK, setupVars
<1>4. CountOK'
  BY <1>1 DEF IInv, CountOK
<1>5. \A r : HasFunds(r) => HasFunds(r)'
  BY <1>2 DEF HasFunds
<1>6. FundsOK'
  BY <1>1, <1>5 DEF IInv, FundsOK
<1>. QED  BY <1>3, <1>4, <1>6 DEF IInv

-----------------------------------------------------------------------------
(* The steps of an operation *)

\* The retries left of a job after a step of it.
LEMMA RetriesAfter ==
    ASSUME IInv, phase = "working", NEW j, SameJob(j, job),
           \/ /\ j.at = job.at
              /\ \/ j.step \notin {"sync", "transfer"}
                 \/ OpensWallet(job, job.at)
                 \/ /\ job.step \in {"sync", "transfer"}
                    /\ j.attempt \in job.attempt..Attempts
           \/ job.at < Len(job.list) /\ j.attempt = 1 /\ j.at = job.at + 1,
           NEW p
    PROVE  RetriesLeft(j, p) \in Nat /\ RetriesLeft(j, p) <= RetriesLeft(job, p)
<1>1. Retried(j, p) = Retried(job, p) /\ j.list = job.list
  BY SameJobSame DEF SameJob
<1>2. /\ Retried(job, p) # 0 /\ OpensWallet(job, job.at) => job.at < Len(job.list)
      /\ Retried(job, p) = 0 \/ Retried(job, p) = Attempts - 1
  BY DEF Retried, OpensWallet
<1>3. /\ job.at \in Nat /\ Len(job.list) \in Nat /\ job.attempt \in Nat
      /\ Attempts \in Nat /\ Attempts > 0 /\ job.attempt >= 1
      /\ RetriesLeft(job, p) \in Nat
  BY AtWork, RetriesLeftIsNat, LocalDevAssumption, SMT
<1>4. CASE Retried(job, p) = 0
  BY <1>1, <1>4, SMT DEF RetriesLeft
<1>5. CASE Retried(job, p) # 0 /\ j.at = job.at
  <2>1. CASE job.at < Len(job.list)
    BY <1>1, <1>3, <1>5, <2>1, SMT DEF RetriesLeft
  <2>2. CASE ~(job.at < Len(job.list)) /\ j.step \notin {"sync", "transfer"}
    BY <1>1, <1>3, <1>5, <2>2, SMT DEF RetriesLeft
  <2>3. CASE /\ ~(job.at < Len(job.list)) /\ j.step \in {"sync", "transfer"}
             /\ job.step \in {"sync", "transfer"}
             /\ j.attempt \in job.attempt..Attempts
    BY <1>1, <1>3, <1>5, <2>3, SMT DEF RetriesLeft
  <2>. QED  BY <1>2, <1>3, <1>5, <2>1, <2>2, <2>3, SMT
<1>6. CASE /\ Retried(job, p) # 0 /\ j.at # job.at
           /\ job.at < Len(job.list) /\ j.attempt = 1
  BY <1>1, <1>3, <1>6, SMT DEF RetriesLeft
<1>. QED  BY <1>4, <1>5, <1>6

LEMMA NextReceiverKeepsIInv ==
    ASSUME IInv, NextReceiver
    PROVE  IInv'
<1>. DEFINE k == job.at + 1
            step == IF OpensWallet(job, k) THEN "open"
                    ELSE IF Shielded(job, k) THEN "sync" ELSE "transfer"
<1>1. /\ phase = "working" /\ phase' = phase /\ job.step = "next" /\ job.at < Len(job.list)
      /\ job' = [job EXCEPT !.at = k, !.step = step]
      /\ UNCHANGED <<setupVars, jobs, wallets, asked, sent, paid, dust, listed>>
  BY DEF NextReceiver, Working, GoesOn
<1>2. /\ job \in Jobs /\ ListOK(job) /\ job.at \in Nat /\ Len(job.list) \in Nat
      /\ job.attempt = 1
  BY <1>1, AtWork DEF IInv, JobOK
<1>3. k \in Nat /\ k > 0 /\ k <= Len(job.list) /\ k - 1 = job.at
  BY <1>1, <1>2, SMT
<1>4. step \in {"open", "sync", "transfer"}
  OBVIOUS
<1>5. step = "open" <=> OpensWallet(job, k)
  OBVIOUS
<1>. HIDE DEF step
<1>6. /\ job' \in Jobs /\ job'.at = k /\ job'.step = step /\ job'.attempt = 1
      /\ job'.option = job.option /\ job'.list = job.list
  BY <1>1, <1>2, <1>3, <1>4 DEF Jobs, Steps
<1>7. SameJob(job', job)
  BY <1>6 DEF SameJob
<1>8. ListOK(job') /\ (OpensWallet(job', k) <=> OpensWallet(job, k))
  BY <1>2, <1>7, SameJobSame
<1>9. JobOK'
  <2>1. 1 <= AttemptsOf(job')
    BY LocalDevAssumption, SMT DEF AttemptsOf
  <2>. QED  BY <1>1, <1>3, <1>4, <1>5, <1>6, <1>8, <2>1 DEF JobOK
<1>10. Behind(job') = Behind(job)
  BY <1>1, <1>3, <1>4, <1>6 DEF Behind
<1>11. \A p : RetriesLeft(job', p) \in Nat /\ RetriesLeft(job', p) <= RetriesLeft(job, p)
  BY <1>1, <1>6, <1>7, RetriesAfter
<1>12. \A n \in 1..Len(job.list) : Seen(job', n) => Seen(job, n)
  BY <1>1, <1>2, <1>4, <1>6, SMT DEF Seen
<1>. QED
  BY <1>1, <1>7, <1>9, <1>10, <1>11, <1>12, GoOnKeepsIInv DEF IInv, DataOK

LEMMA OpenRecipientKeepsIInv ==
    ASSUME IInv, OpenRecipient
    PROVE  IInv'
<1>1. /\ phase = "working" /\ job.step = "open"
      /\ UNCHANGED <<setupVars, jobs, asked, sent, paid, dust>>
  BY DEF OpenRecipient, Working
<1>2. wallets \in Nat /\ wallets + 1 \in Nat /\ wallets + 1 > 0 /\ dust \subseteq Accounts
  BY SMT DEF IInv, DataOK
<1>3. CASE OperationFails /\ wallets' \in {wallets, wallets + 1}
  BY <1>1, <1>2, <1>3, FailKeepsIInv
<1>4. CASE GoesOn([job EXCEPT !.step = "transfer"]) /\ wallets' = wallets + 1
  <2>1. /\ phase' = phase /\ listed' = listed
        /\ job' = [job EXCEPT !.step = "transfer"]
    BY <1>4 DEF GoesOn
  <2>2. /\ job \in Jobs /\ ListOK(job) /\ job.at <= Len(job.list) /\ job.at > 0
        /\ OpensWallet(job, job.at) /\ job.attempt <= AttemptsOf(job)
    BY <1>1 DEF IInv, JobOK
  <2>3. /\ job' \in Jobs /\ job'.at = job.at /\ job'.step = "transfer"
        /\ job'.attempt = job.attempt
        /\ job'.option = job.option /\ job'.list = job.list
    BY <2>1, <2>2 DEF Jobs, Steps
  <2>4. SameJob(job', job)
    BY <2>3 DEF SameJob
  <2>5. ListOK(job') /\ AttemptsOf(job') = AttemptsOf(job)
    BY <2>2, <2>3, <2>4, SameJobSame DEF AttemptsOf
  <2>6. JobOK'
    BY <1>1, <1>2, <1>4, <2>1, <2>2, <2>3, <2>5 DEF JobOK
  <2>7. Behind(job') = Behind(job)
    BY <1>1, <2>3 DEF Behind
  <2>8. \A p : RetriesLeft(job', p) \in Nat /\ RetriesLeft(job', p) <= RetriesLeft(job, p)
    BY <1>1, <2>2, <2>3, <2>4, RetriesAfter
  <2>9. \A n : Seen(job', n) => Seen(job, n)
    BY <2>3 DEF Seen
  <2>. QED
    BY <1>1, <1>2, <1>4, <2>1, <2>4, <2>6, <2>7, <2>8, <2>9, GoOnKeepsIInv
<1>. QED  BY <1>3, <1>4 DEF OpenRecipient

\* An attempt that may be repeated is one at the e2e's shielded address.
LEMMA RetryIsShielded ==
    ASSUME IInv, phase = "working", job.step \in {"sync", "transfer"},
           job.attempt < AttemptsOf(job)
    PROVE  /\ job.at = Len(job.list) /\ job.attempt + 1 \in 1..Attempts
           /\ ~OpensWallet(job, job.at)
           /\ PayeeAt(job, job.at) = [receiver |-> Spender, wallet |-> FALSE]
           /\ Retried(job, PayeeAt(job, job.at)) = Attempts - 1
<1>1. job.attempt \in Nat /\ job.attempt >= 1 /\ ListOK(job) /\ Len(job.list) \in Nat
  BY AtWork
<1>2. AttemptsOf(job) = Attempts /\ job.option = "e2e" /\ job.at = Len(job.list)
  BY <1>1, SMT DEF AttemptsOf
<1>3. job.attempt + 1 \in 1..Attempts
  BY <1>1, <1>2, LocalDevAssumption, SMT
<1>4. OpensWallet(job, job.at) = FALSE
  BY <1>1, <1>2, SMT DEF OpensWallet
<1>5. job.list[job.at] = Spender
  BY <1>1, <1>2 DEF ListOK
<1>6. PayeeAt(job, job.at) = [receiver |-> Spender, wallet |-> FALSE]
  BY <1>4, <1>5 DEF PayeeAt
<1>. QED  BY <1>2, <1>3, <1>4, <1>6 DEF Retried

\* The job after the catch of retryTransfer has decided for another attempt.
LEMMA RetryStep ==
    ASSUME IInv, phase = "working", job.step \in {"sync", "transfer"},
           job.attempt < AttemptsOf(job), phase' = phase, wallets' = wallets,
           job' = [job EXCEPT !.attempt = @ + 1, !.step = "sync"]
    PROVE  /\ job' \in Jobs /\ SameJob(job', job) /\ JobOK'
           /\ job'.at = job.at /\ job'.step = "sync" /\ job'.attempt = job.attempt + 1
           /\ Behind(job') = Behind(job)
           /\ \A n : Seen(job', n) => Seen(job, n)
<1>1. /\ job \in Jobs /\ ListOK(job) /\ job.at <= Len(job.list) /\ job.at > 0
      /\ job.attempt \in Nat
  BY AtWork DEF IInv, JobOK
<1>2. job.attempt + 1 \in 1..Attempts /\ job.attempt + 1 <= AttemptsOf(job)
      /\ ~OpensWallet(job, job.at)
  BY <1>1, RetryIsShielded, LocalDevAssumption, SMT DEF AttemptsOf
<1>3. /\ job' \in Jobs /\ job'.at = job.at /\ job'.step = "sync"
      /\ job'.attempt = job.attempt + 1
      /\ job'.option = job.option /\ job'.list = job.list
  BY <1>1, <1>2 DEF Jobs, Steps
<1>4. SameJob(job', job)
  BY <1>3 DEF SameJob
<1>5. /\ ListOK(job') /\ AttemptsOf(job') = AttemptsOf(job)
      /\ ~OpensWallet(job', job'.at)
  BY <1>1, <1>2, <1>3, <1>4, SameJobSame DEF AttemptsOf
<1>6. JobOK'
  BY <1>1, <1>2, <1>3, <1>5 DEF JobOK
<1>7. Behind(job') = Behind(job)
  BY <1>3 DEF Behind
<1>8. \A n : Seen(job', n) => Seen(job, n)
  BY <1>3 DEF Seen
<1>. QED  BY <1>3, <1>4, <1>6, <1>7, <1>8

LEMMA SyncMasterKeepsIInv ==
    ASSUME IInv, SyncMaster
    PROVE  IInv'
<1>1. /\ phase = "working" /\ job.step = "sync"
      /\ UNCHANGED <<setupVars, jobs, wallets, asked, sent, paid, dust>>
  BY DEF SyncMaster, Working
<1>2. wallets \in Nat /\ dust \subseteq Accounts
  BY DEF IInv, DataOK
<1>3. CASE OperationFails
  BY <1>1, <1>2, <1>3, FailKeepsIInv
<1>4. CASE /\ job.attempt < AttemptsOf(job)
           /\ GoesOn([job EXCEPT !.attempt = @ + 1, !.step = "sync"])
  <2>1. /\ phase' = phase /\ listed' = listed
        /\ job' = [job EXCEPT !.attempt = @ + 1, !.step = "sync"]
    BY <1>4 DEF GoesOn
  <2>2. /\ SameJob(job', job) /\ JobOK' /\ Behind(job') = Behind(job)
        /\ job'.at = job.at /\ job'.attempt = job.attempt + 1
        /\ \A n : Seen(job', n) => Seen(job, n)
    BY <1>1, <1>4, <2>1, RetryStep
  <2>3. job'.attempt \in job.attempt..Attempts
    <3>1. job.attempt + 1 \in 1..Attempts /\ job.attempt \in Nat /\ Attempts \in Nat
      BY <1>1, <1>4, RetryIsShielded, AtWork
    <3>. QED  BY <2>2, <3>1, SMT
  <2>4. \A p : RetriesLeft(job', p) \in Nat /\ RetriesLeft(job', p) <= RetriesLeft(job, p)
    BY <1>1, <2>2, <2>3, RetriesAfter
  <2>. QED  BY <1>1, <1>2, <2>1, <2>2, <2>4, GoOnKeepsIInv
<1>5. CASE GoesOn([job EXCEPT !.step = "transfer"])
  <2>1. /\ phase' = phase /\ listed' = listed
        /\ job' = [job EXCEPT !.step = "transfer"]
    BY <1>5 DEF GoesOn
  <2>2. /\ job \in Jobs /\ ListOK(job) /\ job.at <= Len(job.list) /\ job.at > 0
        /\ ~OpensWallet(job, job.at) /\ job.attempt <= AttemptsOf(job)
    BY <1>1 DEF IInv, JobOK
  <2>3. /\ job' \in Jobs /\ job'.at = job.at /\ job'.step = "transfer"
        /\ job'.attempt = job.attempt
        /\ job'.option = job.option /\ job'.list = job.list
    BY <2>1, <2>2 DEF Jobs, Steps
  <2>4. SameJob(job', job)
    BY <2>3 DEF SameJob
  <2>5. ListOK(job') /\ AttemptsOf(job') = AttemptsOf(job) /\ ~OpensWallet(job', job'.at)
    BY <2>2, <2>3, <2>4, SameJobSame DEF AttemptsOf
  <2>6. JobOK'
    BY <1>1, <2>1, <2>2, <2>3, <2>5 DEF JobOK
  <2>7. Behind(job') = Behind(job)
    BY <1>1, <2>3 DEF Behind
  <2>8. job'.attempt \in job.attempt..Attempts
    BY <2>2, <2>3, LocalDevAssumption, SMT DEF Jobs
  <2>9. \A p : RetriesLeft(job', p) \in Nat /\ RetriesLeft(job', p) <= RetriesLeft(job, p)
    BY <1>1, <2>3, <2>4, <2>8, RetriesAfter
  <2>10. \A n : Seen(job', n) => Seen(job, n)
    BY <2>3 DEF Seen
  <2>. QED
    BY <1>1, <1>2, <2>1, <2>4, <2>6, <2>7, <2>9, <2>10, GoOnKeepsIInv
<1>. QED  BY <1>3, <1>4, <1>5 DEF SyncMaster, AttemptFails

LEMMA FundsSeenKeepsIInv ==
    ASSUME IInv, FundsSeen
    PROVE  IInv'
<1>1. /\ phase = "working" /\ job.step = "funds" /\ phase' = phase
      /\ job' = [job EXCEPT !.step = "register"]
      /\ UNCHANGED <<setupVars, jobs, wallets, asked, sent, paid, dust, listed>>
      /\ HasFunds(job.list[job.at])
  BY DEF FundsSeen, Working, GoesOn, Receiver
<1>2. /\ job \in Jobs /\ ListOK(job) /\ job.at <= Len(job.list) /\ job.at > 0
      /\ OpensWallet(job, job.at) /\ job.attempt <= AttemptsOf(job) /\ wallets > 0
  BY <1>1 DEF IInv, JobOK
<1>3. /\ job' \in Jobs /\ job'.at = job.at /\ job'.step = "register"
      /\ job'.attempt = job.attempt
      /\ job'.option = job.option /\ job'.list = job.list
  BY <1>1, <1>2 DEF Jobs, Steps
<1>4. SameJob(job', job)
  BY <1>3 DEF SameJob
<1>5. ListOK(job') /\ AttemptsOf(job') = AttemptsOf(job) /\ OpensWallet(job', job'.at)
  BY <1>2, <1>3, <1>4, SameJobSame DEF AttemptsOf
<1>6. JobOK'
  BY <1>1, <1>2, <1>3, <1>5 DEF JobOK
<1>7. Behind(job') = Behind(job)
  BY <1>1, <1>3 DEF Behind
<1>8. \A p : RetriesLeft(job', p) \in Nat /\ RetriesLeft(job', p) <= RetriesLeft(job, p)
  BY <1>1, <1>2, <1>3, <1>4, RetriesAfter
<1>9. \A n : Seen(job', n) => Seen(job, n) \/ HasFunds(job.list[n])
  BY <1>1, <1>3 DEF Seen
<1>. QED
  BY <1>1, <1>4, <1>6, <1>7, <1>8, <1>9, GoOnKeepsIInv DEF IInv, DataOK

LEMMA RegisterRecipientKeepsIInv ==
    ASSUME IInv, RegisterRecipient
    PROVE  IInv'
<1>1. /\ phase = "working" /\ job.step = "register" /\ phase' = phase
      /\ job' = [job EXCEPT !.step = "next", !.attempt = 1]
      /\ wallets' = wallets - 1 /\ dust' \in {dust, dust \cup {job.list[job.at]}}
      /\ UNCHANGED <<setupVars, jobs, asked, sent, paid, listed>>
  BY DEF RegisterRecipient, Working, GoesOn, Served, Receiver
<1>2. /\ job \in Jobs /\ ListOK(job) /\ job.at <= Len(job.list) /\ job.at > 0
      /\ OpensWallet(job, job.at) /\ wallets > 0
      /\ job.at \in 1..Len(job.list)
  BY <1>1, AtWork DEF IInv, JobOK
<1>3. wallets' \in Nat
  BY <1>1, <1>2, SMT DEF IInv, DataOK
<1>4. dust' \subseteq Accounts
  BY <1>1, <1>2 DEF IInv, DataOK, ListOK
<1>5. /\ job' \in Jobs /\ job'.at = job.at /\ job'.step = "next"
      /\ job'.attempt = 1
      /\ job'.option = job.option /\ job'.list = job.list
  <2>1. 1 \in 1..Attempts
    BY LocalDevAssumption, SMT
  <2>. QED  BY <1>1, <1>2, <2>1 DEF Jobs, Steps
<1>6. SameJob(job', job)
  BY <1>5 DEF SameJob
<1>7. ListOK(job') /\ 1 <= AttemptsOf(job')
  <2>1. 1 <= AttemptsOf(job')
    BY LocalDevAssumption, SMT DEF AttemptsOf
  <2>. QED  BY <1>2, <1>6, <2>1, SameJobSame
<1>8. JobOK'
  BY <1>1, <1>2, <1>5, <1>7 DEF JobOK
<1>9. Behind(job') = Behind(job)
  BY <1>1, <1>5 DEF Behind
<1>10. \A p : RetriesLeft(job', p) \in Nat /\ RetriesLeft(job', p) <= RetriesLeft(job, p)
  BY <1>1, <1>5, <1>6, RetriesAfter
<1>11. \A n : Seen(job', n) => Seen(job, n)
  BY <1>1, <1>5 DEF Seen
<1>. QED
  BY <1>1, <1>3, <1>4, <1>6, <1>8, <1>9, <1>10, <1>11, GoOnKeepsIInv

LEMMA RefuseAndFailKeepIInv ==
    ASSUME IInv, RefuseAddress \/ RecipientFails
    PROVE  IInv'
<1>1. wallets \in Nat /\ dust \subseteq Accounts
  BY DEF IInv, DataOK
<1>2. CASE RefuseAddress
  BY <1>1, <1>2, FailKeepsIInv DEF RefuseAddress, Working
<1>3. CASE RecipientFails
  <2>1. /\ phase = "working" /\ job.step \in {"funds", "register"} /\ OperationFails
        /\ dust' \in {dust, dust \cup {job.list[job.at]}}
        /\ UNCHANGED <<setupVars, jobs, wallets, asked, sent, paid>>
    BY <1>3 DEF RecipientFails, Working, Receiver
  <2>2. /\ ListOK(job) /\ OpensWallet(job, job.at) /\ job.at \in 1..Len(job.list)
    BY <2>1, AtWork DEF IInv, JobOK
  <2>3. dust' \subseteq Accounts
    BY <1>1, <2>1, <2>2 DEF ListOK
  <2>. QED  BY <1>1, <2>1, <2>3, FailKeepsIInv
<1>. QED  BY <1>2, <1>3

LEMMA FinishKeepsIInv ==
    ASSUME IInv, Finish
    PROVE  IInv'
<1>1. /\ phase = "working" /\ job.step = "next" /\ job.at = Len(job.list) /\ Leave
      /\ listed' = [p \in Payees |-> listed[p] + Named(job, p, 0)]
      /\ UNCHANGED <<setupVars, jobs, wallets, asked, sent, paid, dust>>
  BY DEF Finish, Working, ListsAll
<1>2. Len(job.list) \in Nat /\ Behind(job) = Len(job.list)
  BY <1>1, AtWork DEF Behind
<1>3. \A p \in Payees : /\ listed'[p] = listed[p] + Given(job, p, Len(job.list))
                        /\ Given(job, p, Len(job.list)) \in Nat
  BY <1>1, <1>2, NamedIsGiven, GivenCounts
<1>4. DataOK'
  <2>1. \A p \in Payees : listed[p] + Named(job, p, 0) \in Nat
    BY <1>2, NamedIsGiven, GivenCounts, SMT DEF IInv, DataOK
  <2>2. listed' \in [Payees -> Nat]
    BY <1>1, <2>1
  <2>. QED  BY <1>1, <2>2 DEF IInv, DataOK
<1>5. \A p \in Payees : listed'[p] <= sent'[p] /\ sent'[p] <= asked'[p]
  BY <1>1, <1>2, <1>3, CountedAtAnyTime DEF IInv, CountOK
<1>6. ASSUME NEW p \in Payees, p.wallet, listed'[p] > 0
      PROVE  HasFunds(p.receiver)'
  <2>1. HasFunds(p.receiver)' <=> HasFunds(p.receiver)
    BY <1>1 DEF HasFunds
  <2>2. CASE listed[p] > 0
    BY <1>6, <2>1, <2>2 DEF IInv, FundsOK
  <2>3. CASE ~(listed[p] > 0)
    <3>1. listed[p] = 0 /\ listed'[p] = listed[p] + Named(job, p, 0)
      BY <1>1, <2>3, AtWork, SMT
    <3>2. Named(job, p, 0) > 0
      BY <1>6, <3>1, <1>2, NamedIsGiven, GivenCounts, SMT
    <3>3. PICK k \in 1..Len(job.list) : PayeeAt(job, k) = p
      BY <1>2, <3>2, NamedIsGiven
    <3>4. job.list[k] = p.receiver /\ OpensWallet(job, k) = p.wallet
      BY <3>3 DEF PayeeAt
    <3>5. Seen(job, k)
      BY <1>1, <1>2, SMT DEF Seen
    <3>. QED  BY <1>1, <1>6, <2>1, <3>4, <3>5 DEF IInv, FundsOK
  <2>. QED  BY <2>2, <2>3
<1>. QED  BY <1>1, <1>4, <1>5, <1>6, LeaveKeepsIInv

\* What the node was given in this step counts for the payee in hand alone.
LEMMA TransferKeepsIInv ==
    ASSUME IInv, NEW given \in BOOLEAN, NEW resolves \in BOOLEAN,
           Transfer(given, resolves)
    PROVE  IInv'
<1>. DEFINE p == PayeeAt(job, job.at)
            L == Len(job.list)
            n == job.at - 1
<1>1. /\ phase = "working" /\ job.step = "transfer" /\ (resolves => given)
      /\ sent' = (IF given THEN [sent EXCEPT ![p] = @ + 1] ELSE sent)
      /\ UNCHANGED <<setupVars, jobs, wallets, asked, paid, dust>>
  BY DEF Transfer, Working
<1>2. /\ job \in Jobs /\ ListOK(job) /\ job.at \in 1..L /\ L \in Nat
      /\ job.list[job.at] \in Receivers
      /\ job.attempt \in Nat /\ job.attempt >= 1 /\ Attempts \in Nat
      /\ OpensWallet(job, job.at) => wallets > 0
      /\ job.at <= L /\ job.at > 0 /\ job.attempt <= AttemptsOf(job)
  BY <1>1, AtWork DEF IInv, JobOK
<1>3. p \in Payees
  <2>1. OpensWallet(job, job.at) \in BOOLEAN
    BY DEF OpensWallet
  <2>. QED  BY <1>2, <2>1 DEF PayeeAt, Payees
<1>4. n \in Nat /\ n + 1 = job.at /\ n + 1 \in Nat /\ n + 1 <= L /\ Behind(job) = n
  BY <1>1, <1>2, SMT DEF Behind
<1>5. wallets \in Nat /\ dust \subseteq Accounts /\ sent' \in [Payees -> Nat]
  BY <1>1, <1>3, SMT DEF IInv, DataOK
<1>6. \A q \in Payees :
         /\ sent'[q] \in Nat /\ sent[q] \in Nat /\ asked[q] \in Nat /\ listed[q] \in Nat
         /\ q # p => sent'[q] = sent[q]
         /\ sent'[q] = sent[q] \/ sent'[q] = sent[q] + 1
         /\ resolves /\ q = p => sent'[q] = sent[q] + 1
  BY <1>1, <1>3, <1>5 DEF IInv, DataOK
<1>7. \A q : /\ Given(job, q, n) \in Nat /\ Given(job, q, n + 1) \in Nat
             /\ Given(job, q, L) \in Nat
             /\ Given(job, q, n + 1) <= Given(job, q, L)
             /\ q = p => Given(job, q, n + 1) = Given(job, q, n) + 1
             /\ q # p => Given(job, q, n + 1) = Given(job, q, n)
  <2>. SUFFICES ASSUME NEW q
                PROVE  /\ Given(job, q, n) \in Nat /\ Given(job, q, n + 1) \in Nat
                       /\ Given(job, q, L) \in Nat
                       /\ Given(job, q, n + 1) <= Given(job, q, L)
                       /\ q = p => Given(job, q, n + 1) = Given(job, q, n) + 1
                       /\ q # p => Given(job, q, n + 1) = Given(job, q, n)
    OBVIOUS
  <2>1. /\ Given(job, q, n) \in Nat /\ Given(job, q, n + 1) \in Nat
        /\ Given(job, q, L) \in Nat
        /\ Given(job, q, n + 1) <= Given(job, q, L)
    BY <1>2, <1>4, GivenCounts, GivenGrows
  <2>2. PayeeAt(job, n + 1) = p
    BY <1>4
  <2>. HIDE DEF p, n, L
  <2>3. Given(job, q, n + 1) = Given(job, q, n) + (IF PayeeAt(job, n + 1) = q THEN 1 ELSE 0)
    BY <1>4, GivenCounts
  <2>. QED  BY <2>1, <2>2, <2>3, SMT
<1>8. \A q \in Payees :
         /\ listed[q] + Given(job, q, n) <= sent[q]
         /\ sent[q] + Given(job, q, L) + RetriesLeft(job, q) <= asked[q] + Given(job, q, n)
         /\ RetriesLeft(job, q) \in Nat
  BY <1>1, <1>4, RetriesLeftIsNat DEF IInv, CountOK
<1>9. \A r : HasFunds(r)' <=> HasFunds(r)
  BY <1>1 DEF HasFunds
<1>. HIDE DEF p, L, n
<1>10. CASE resolves
  <2>1. /\ phase' = phase /\ listed' = listed
        /\ \/ p.wallet /\ job' = [job EXCEPT !.step = "funds"]
           \/ ~p.wallet /\ job' = [job EXCEPT !.step = "next", !.attempt = 1]
    BY <1>10 DEF Transfer, GoesOn, Served, p
  <2>2. p.wallet <=> OpensWallet(job, job.at)
    BY DEF p, PayeeAt
  <2>3. /\ job' \in Jobs /\ job'.at = job.at
        /\ job'.option = job.option /\ job'.list = job.list
        /\ \/ /\ OpensWallet(job, job.at) /\ job'.step = "funds"
              /\ job'.attempt = job.attempt
           \/ /\ ~OpensWallet(job, job.at) /\ job'.step = "next"
              /\ job'.attempt = 1
    <3>1. 1 \in 1..Attempts
      BY LocalDevAssumption, SMT
    <3>. QED  BY <1>2, <2>1, <2>2, <3>1 DEF Jobs, Steps
  <2>4. SameJob(job', job)
    BY <2>3 DEF SameJob
  <2>5. /\ ListOK(job') /\ (OpensWallet(job', job'.at) <=> OpensWallet(job, job.at))
        /\ job'.attempt <= AttemptsOf(job')
    <3>1. AttemptsOf(job') = AttemptsOf(job) /\ 1 <= AttemptsOf(job)
      BY <2>3, LocalDevAssumption, SMT DEF AttemptsOf
    <3>. QED  BY <1>2, <2>3, <2>4, <3>1, SameJobSame
  <2>6. JobOK'
    BY <1>1, <1>2, <2>1, <2>3, <2>5 DEF JobOK, L
  <2>7. Behind(job') = n + 1
    BY <1>4, <2>3 DEF Behind
  <2>8. \A q : RetriesLeft(job', q) \in Nat /\ RetriesLeft(job', q) <= RetriesLeft(job, q)
    BY <1>1, <2>3, <2>4, RetriesAfter
  <2>9. CountOK'
    <3>. SUFFICES ASSUME NEW q \in Payees
                  PROVE  /\ listed[q] + Given(job', q, n + 1) <= sent'[q]
                         /\ sent'[q] + Given(job', q, L) + RetriesLeft(job', q)
                              <= asked[q] + Given(job', q, n + 1)
      BY <1>1, <2>1, <2>3, <2>7 DEF CountOK, L
    <3>1. /\ Given(job', q, n + 1) = Given(job, q, n + 1)
          /\ Given(job', q, L) = Given(job, q, L)
      BY <2>4, SameJobSame
    <3>2. RetriesLeft(job', q) \in Nat /\ RetriesLeft(job', q) <= RetriesLeft(job, q)
      BY <2>8
    <3>3. CASE q = p
      BY <1>6, <1>7, <1>8, <1>10, <3>1, <3>2, <3>3, SMT
    <3>4. CASE q # p
      BY <1>6, <1>7, <1>8, <3>1, <3>2, <3>4, SMT
    <3>. QED  BY <3>3, <3>4
  <2>10. FundsOK'
    <3>1. \A k : OpensWallet(job', k) /\ Seen(job', k) => OpensWallet(job, k) /\ Seen(job, k)
      BY <2>3, <2>4, SameJobSame DEF Seen
    <3>. QED  BY <1>1, <1>9, <2>1, <2>3, <3>1 DEF IInv, FundsOK
  <2>. QED
    BY <1>1, <1>5, <2>1, <2>6, <2>9, <2>10 DEF IInv, SetupOK, DataOK, setupVars
<1>11. CASE /\ ~resolves /\ job.attempt < AttemptsOf(job)
            /\ GoesOn([job EXCEPT !.attempt = @ + 1, !.step = "sync"])
  <2>1. /\ phase' = phase /\ listed' = listed
        /\ job' = [job EXCEPT !.attempt = @ + 1, !.step = "sync"]
    BY <1>11 DEF GoesOn
  <2>2. /\ SameJob(job', job) /\ JobOK' /\ Behind(job') = n
        /\ job'.at = job.at /\ job'.attempt = job.attempt + 1 /\ job'.step = "sync"
        /\ job'.list = job.list
        /\ \A m : Seen(job', m) => Seen(job, m)
    BY <1>1, <1>4, <1>11, <2>1, RetryStep DEF SameJob
  <2>3. /\ job.at = L /\ job.attempt + 1 \in 1..Attempts
        /\ Retried(job, p) = Attempts - 1
    BY <1>1, <1>11, RetryIsShielded DEF p, L
  <2>4. job'.attempt \in job.attempt..Attempts
    BY <1>2, <2>2, <2>3, SMT
  <2>5. \A q : RetriesLeft(job', q) \in Nat /\ RetriesLeft(job', q) <= RetriesLeft(job, q)
    BY <1>1, <2>2, <2>4, RetriesAfter
  <2>6. RetriesLeft(job', p) = RetriesLeft(job, p) - 1
    <3>1. Retried(job', p) = Attempts - 1 /\ Attempts - 1 # 0
      BY <1>2, <2>2, <2>3, SameJobSame, SMT
    <3>2. RetriesLeft(job, p) = Attempts - job.attempt
      BY <1>1, <1>2, <2>3, <3>1, SMT DEF RetriesLeft, L
    <3>3. RetriesLeft(job', p) = Attempts - (job.attempt + 1)
      BY <1>2, <2>2, <2>3, <3>1, SMT DEF RetriesLeft, L
    <3>. QED  BY <1>2, <3>2, <3>3, SMT
  <2>7. CountOK'
    <3>. SUFFICES ASSUME NEW q \in Payees
                  PROVE  /\ listed[q] + Given(job', q, n) <= sent'[q]
                         /\ sent'[q] + Given(job', q, L) + RetriesLeft(job', q)
                              <= asked[q] + Given(job', q, n)
      BY <1>1, <2>1, <2>2 DEF CountOK, L
    <3>1. /\ Given(job', q, n) = Given(job, q, n)
          /\ Given(job', q, L) = Given(job, q, L)
      BY <2>2, SameJobSame
    <3>2. RetriesLeft(job', q) \in Nat /\ RetriesLeft(job', q) <= RetriesLeft(job, q)
      BY <2>5
    <3>3. CASE q = p
      BY <1>6, <1>7, <1>8, <2>6, <3>1, <3>2, <3>3, SMT
    <3>4. CASE q # p
      BY <1>6, <1>7, <1>8, <3>1, <3>2, <3>4, SMT
    <3>. QED  BY <3>3, <3>4
  <2>8. FundsOK'
    <3>1. \A k : OpensWallet(job', k) /\ Seen(job', k) => OpensWallet(job, k) /\ Seen(job, k)
      BY <2>2, SameJobSame
    <3>. QED  BY <1>1, <1>9, <2>1, <2>2, <3>1 DEF IInv, FundsOK
  <2>. QED
    BY <1>1, <1>5, <2>1, <2>2, <2>7, <2>8 DEF IInv, SetupOK, DataOK, setupVars
<1>12. CASE ~resolves /\ OperationFails
  <2>1. Leave /\ listed' = listed
    BY <1>12 DEF OperationFails
  <2>2. DataOK'
    BY <1>1, <1>5, <2>1 DEF IInv, DataOK
  <2>3. ASSUME NEW q \in Payees
        PROVE  listed'[q] <= sent'[q] /\ sent'[q] <= asked'[q]
    <3>1. CASE q = p
      BY <1>1, <1>6, <1>7, <1>8, <2>1, <3>1, SMT
    <3>2. CASE q # p
      BY <1>1, <1>6, <1>7, <1>8, <2>1, <3>2, SMT
    <3>. QED  BY <3>1, <3>2
  <2>4. \A q \in Payees : q.wallet /\ listed'[q] > 0 => HasFunds(q.receiver)'
    BY <1>9, <2>1 DEF IInv, FundsOK
  <2>. QED  BY <1>1, <2>1, <2>2, <2>3, <2>4, LeaveKeepsIInv
<1>. QED  BY <1>10, <1>11, <1>12 DEF Transfer, AttemptFails

-----------------------------------------------------------------------------
(* What follows *)

\* The invariant is inductive.
THEOREM Spec_IInv == Spec => []IInv
<1>1. IInv /\ [Next]_vars => IInv'
  <2>. SUFFICES ASSUME IInv, [Next]_vars
                PROVE  IInv'
    OBVIOUS
  <2>1. CASE UNCHANGED vars
    BY <2>1 DEF vars, setupVars, IInv, SetupOK, DataOK, JobOK, CountOK, FundsOK,
                HasFunds
  <2>2. CASE Next
    BY <2>2, SetupKeepsIInv, ChooseKeepsIInv, ChainTakesKeepsIInv,
       NextReceiverKeepsIInv, RefuseAndFailKeepIInv, FinishKeepsIInv,
       OpenRecipientKeepsIInv, SyncMasterKeepsIInv, FundsSeenKeepsIInv,
       RegisterRecipientKeepsIInv, TransferKeepsIInv
       DEF Next, Loop, Await
  <2>. QED  BY <2>1, <2>2
<1>. QED  BY IInvInit, <1>1, PTL DEF Spec

LEMMA IInvTypeOK == IInv => TypeOK
<1>. SUFFICES ASSUME IInv
              PROVE  TypeOK
  OBVIOUS
<1>1. phase = "working" <=> job # NoJob
  BY NoJobIsNone DEF IInv, JobOK
<1>2. job # NoJob => /\ job.option \in Options
                     /\ job.list \in Seq(Receivers)
                     /\ job.at \in 0..Len(job.list)
                     /\ job.step \in Steps
                     /\ job.attempt \in 1..Attempts
  <2>. SUFFICES ASSUME job # NoJob
                PROVE  /\ job \in Jobs /\ job.at \in 0..Len(job.list)
    BY DEF Jobs
  <2>1. job \in Jobs /\ job.at \in Nat /\ Len(job.list) \in Nat /\ job.at <= Len(job.list)
    BY <1>1, AtWork
  <2>. QED  BY <2>1, SMT
<1>. QED  BY <1>1, <1>2 DEF IInv, SetupOK, DataOK, TypeOK, Steps

LEMMA IInvCounts == IInv => ListedWereSent /\ SentAsAsked
<1>. SUFFICES ASSUME IInv, NEW p \in Payees
              PROVE  listed[p] <= sent[p] /\ sent[p] <= asked[p]
  BY DEF ListedWereSent, SentAsAsked
<1>1. CASE phase = "working"
  BY <1>1, CountedAtAnyTime
<1>2. CASE phase # "working"
  BY <1>2 DEF IInv, CountOK
<1>. QED  BY <1>1, <1>2

\* The state keeps its types for any accounts, attempts and number of operations.
THEOREM Spec_TypeOK == Spec => []TypeOK
BY Spec_IInv, IInvTypeOK, PTL

\* Whatever fails and however often a list names somebody, nobody is on the
\* menu's list more often than the node was given a transfer to it.
THEOREM Spec_ListedWereSent == Spec => []ListedWereSent
BY Spec_IInv, IInvCounts, PTL

\* A listed account whose wallet was opened has funds on the chain, though the
\* tool takes a transfer that was submitted for one that was made.
THEOREM Spec_ListedWalletsHaveFunds == Spec => []ListedWalletsHaveFunds
<1>1. IInv => ListedWalletsHaveFunds
  BY DEF IInv, FundsOK, ListedWalletsHaveFunds
<1>. QED  BY Spec_IInv, <1>1, PTL

\* The node gets no more transfers than the lists and the retries ask for, also
\* when transfers that it took are reported as failed.
THEOREM Spec_SentAsAsked == Spec => []SentAsAsked
BY Spec_IInv, IInvCounts, PTL

\* Every way out closes the master wallet that main was given and leaves a
\* network it used as it was.
THEOREM Spec_CleanExit == Spec => []CleanExit
<1>1. IInv => CleanExit
  BY DEF IInv, SetupOK, CleanExit
<1>. QED  BY Spec_IInv, <1>1, PTL

-----------------------------------------------------------------------------
(* The variant of an operation *)

\* What InHand says at each step, and the room it has there.
HandOK ==
    /\ InHand \in Nat /\ InHand < PerReceiver
    /\ job.step = "next" => InHand = 0
    /\ job.step = "register" => InHand = 1
    /\ job.step = "funds" => InHand = 2
    /\ job.step = "transfer" => InHand = 2 * (Attempts - job.attempt) + 3
    /\ job.step = "sync" => InHand = 2 * (Attempts - job.attempt) + 4
    /\ job.step = "open" => InHand = 2 * Attempts + 3

LEMMA InHandIs == JobOK /\ Working => HandOK
<1>. SUFFICES ASSUME JobOK, Working
              PROVE  HandOK
  OBVIOUS
<1>1. /\ job.step \in Steps
      /\ job.attempt \in Nat /\ job.attempt >= 1
      /\ job.attempt <= Attempts /\ Attempts \in Nat
  BY LocalDevAssumption, SMT DEF JobOK, Working, Jobs
<1>2. CASE job.step = "next"
  BY <1>1, <1>2, SMT DEF HandOK, InHand, PerReceiver
<1>3. CASE job.step = "register"
  BY <1>1, <1>3, SMT DEF HandOK, InHand, PerReceiver
<1>4. CASE job.step = "funds"
  BY <1>1, <1>4, SMT DEF HandOK, InHand, PerReceiver
<1>5. CASE job.step = "transfer"
  BY <1>1, <1>5, SMT DEF HandOK, InHand, PerReceiver
<1>6. CASE job.step = "sync"
  BY <1>1, <1>6, SMT DEF HandOK, InHand, PerReceiver
<1>7. CASE job.step = "open"
  BY <1>1, <1>7, SMT DEF HandOK, InHand, PerReceiver
<1>. QED  BY <1>1, <1>2, <1>3, <1>4, <1>5, <1>6, <1>7 DEF Steps

\* One receiver less outweighs any step of the one in hand.
LEMMA OneReceiverMore ==
    ASSUME NEW n \in Nat
    PROVE  /\ PerReceiver \in Nat /\ n * PerReceiver \in Nat
           /\ (n + 1) * PerReceiver = n * PerReceiver + PerReceiver
<1>1. PerReceiver \in Nat
  BY LocalDevAssumption, SMT DEF PerReceiver
<1>. HIDE DEF PerReceiver
<1>. QED  BY <1>1, SMT

LEMMA NextReceiverComesNearer ==
    ASSUME IInv, IInv', NextReceiver
    PROVE  WorkLeft' < WorkLeft
<1>1. /\ Working /\ Working' /\ JobOK /\ JobOK' /\ job.step = "next"
      /\ job.at < Len(job.list)
      /\ phase = "working"
  BY DEF IInv, NextReceiver, Working, GoesOn
<1>2. HandOK /\ HandOK'
  <2>1. HandOK' \/ ~(JobOK /\ Working)'
    BY InHandIs, PTL
  <2>. QED  BY <1>1, <2>1, InHandIs
<1>3. job'.at = job.at + 1 /\ job'.list = job.list
  BY <1>1, AtWork DEF NextReceiver, GoesOn, Jobs
<1>4. job.at \in Nat /\ Len(job.list) \in Nat
  BY <1>1, AtWork
<1>. DEFINE n == Len(job.list) - job'.at
<1>5. n \in Nat /\ Len(job.list) - job.at = n + 1
  BY <1>1, <1>3, <1>4, SMT
<1>6. InHand = 0 /\ InHand' \in Nat /\ InHand' < PerReceiver
  BY <1>1, <1>2 DEF HandOK, PerReceiver
<1>7. WorkLeft = (n + 1) * PerReceiver + InHand
  BY <1>5 DEF WorkLeft
<1>8. WorkLeft' = n * PerReceiver + InHand'
  BY <1>3 DEF WorkLeft, PerReceiver
<1>. HIDE DEF n, InHand, WorkLeft, PerReceiver
<1>. QED  BY <1>5, <1>6, <1>7, <1>8, OneReceiverMore, SMT

\* The other steps of an operation that goes on are steps of the receiver in
\* hand.
LEMMA InHandComesNearer ==
    ASSUME IInv, IInv', Working',
           \/ OpenRecipient \/ SyncMaster \/ FundsSeen \/ RegisterRecipient
           \/ \E given, resolves \in BOOLEAN : Transfer(given, resolves)
    PROVE  WorkLeft' < WorkLeft
<1>1. Working /\ JobOK /\ JobOK' /\ job \in Jobs /\ job' \in Jobs /\ phase = "working"
  BY DEF IInv, OpenRecipient, SyncMaster, FundsSeen, Transfer, RegisterRecipient,
         Working, JobOK
<1>2. HandOK /\ HandOK'
  <2>1. HandOK' \/ ~(JobOK /\ Working)'
    BY InHandIs, PTL
  <2>. QED  BY <1>1, <2>1, InHandIs
<1>3. ~Leave
  BY DEF Leave, Working
<1>4. /\ job'.list = job.list /\ job'.at = job.at
      /\ \/ job.step = "open" /\ job'.step = "transfer"
         \/ job.step = "funds" /\ job'.step = "register"
         \/ job.step = "register" /\ job'.step = "next"
         \/ job.step = "transfer" /\ job'.step \in {"funds", "next"}
         \/ /\ job.step = "sync" /\ job'.step = "transfer"
            /\ job'.attempt = job.attempt
         \/ /\ job.step \in {"sync", "transfer"} /\ job'.step = "sync"
            /\ job'.attempt = job.attempt + 1
  <2>1. CASE OpenRecipient
    BY <1>1, <1>3, <2>1 DEF OpenRecipient, OperationFails, GoesOn, Jobs
  <2>2. CASE SyncMaster
    BY <1>1, <1>3, <2>2 DEF SyncMaster, AttemptFails, OperationFails, GoesOn, Jobs
  <2>3. CASE FundsSeen
    BY <1>1, <2>3 DEF FundsSeen, GoesOn, Jobs
  <2>4. CASE RegisterRecipient
    BY <1>1, <2>4 DEF RegisterRecipient, GoesOn, Served, Jobs
  <2>5. ASSUME NEW given \in BOOLEAN, NEW resolves \in BOOLEAN, Transfer(given, resolves)
        PROVE  /\ job'.list = job.list /\ job'.at = job.at /\ job.step = "transfer"
               /\ \/ job'.step \in {"funds", "next"}
                  \/ job'.step = "sync" /\ job'.attempt = job.attempt + 1
    <3>1. /\ job.step = "transfer"
          /\ \/ job' = [job EXCEPT !.step = "funds"]
             \/ job' = [job EXCEPT !.step = "next", !.attempt = 1]
             \/ job' = [job EXCEPT !.attempt = @ + 1, !.step = "sync"]
      BY <1>3, <2>5 DEF Transfer, AttemptFails, OperationFails, GoesOn, Served
    <3>. QED  BY <1>1, <3>1 DEF Jobs
  <2>. QED  BY <2>1, <2>2, <2>3, <2>4, <2>5
<1>5. InHand' < InHand
  <2>1. /\ job.attempt \in Nat /\ job'.attempt \in Nat /\ Attempts \in Nat
        /\ job.attempt <= Attempts /\ job'.attempt <= Attempts
        /\ job'.attempt >= 1
    BY <1>1, LocalDevAssumption, SMT DEF Jobs
  <2>2. /\ job.step = "open" => InHand = 2 * Attempts + 3
        /\ job.step = "funds" => InHand = 2
        /\ job.step = "register" => InHand = 1
        /\ job.step = "transfer" => InHand = 2 * (Attempts - job.attempt) + 3
        /\ job.step = "sync" => InHand = 2 * (Attempts - job.attempt) + 4
    BY <1>2 DEF HandOK
  <2>3. /\ job'.step = "next" => InHand' = 0
        /\ job'.step = "register" => InHand' = 1
        /\ job'.step = "funds" => InHand' = 2
        /\ job'.step = "transfer" => InHand' = 2 * (Attempts - job'.attempt) + 3
        /\ job'.step = "sync" => InHand' = 2 * (Attempts - job'.attempt) + 4
    BY <1>2 DEF HandOK
  <2>. HIDE DEF InHand
  <2>. QED  BY <1>4, <2>1, <2>2, <2>3, SMT
<1>6. InHand \in Nat /\ InHand' \in Nat
  BY <1>2 DEF HandOK
<1>. DEFINE n == Len(job.list) - job.at
<1>7. n \in Nat
  BY <1>1, AtWork, SMT
<1>8. WorkLeft = n * PerReceiver + InHand
  BY DEF WorkLeft
<1>9. WorkLeft' = n * PerReceiver + InHand'
  BY <1>4 DEF WorkLeft, PerReceiver
<1>. HIDE DEF n, InHand, WorkLeft, PerReceiver
<1>. QED  BY <1>5, <1>6, <1>7, <1>8, <1>9, OneReceiverMore, SMT

\* For any lists and attempts an operation comes to its end, or to an await that
\* never settles, in at most PerReceiver awaits for each receiver its list
\* names, and no other operation begins in between.
THEOREM Spec_OperationComesNearer == Spec => OperationComesNearer
<1>1. IInv /\ IInv' /\ [Next]_vars =>
        [Working /\ Working' => jobs' = jobs /\ WorkLeft' < WorkLeft]_<<jobs, job>>
  <2>. SUFFICES ASSUME IInv, IInv', [Next]_vars, Working, Working',
                       ~ UNCHANGED <<jobs, job>>
                PROVE  jobs' = jobs /\ WorkLeft' < WorkLeft
    OBVIOUS
  <2>1. \/ NextReceiver
        \/ OpenRecipient \/ SyncMaster \/ FundsSeen \/ RegisterRecipient
        \/ \E given, resolves \in BOOLEAN : Transfer(given, resolves)
    BY DEF Next, vars, Working, Setup, UseExisting, StartNetwork, OpenMaster, MasterFails,
           RegisterMaster, Choose, AtMenu, FundFromConfigFile, FundFromPublicKeys,
           FundShieldedAddresses, FundSplitProveE2ESetup, Exit, Loop, Await,
           RefuseAddress, RecipientFails, OperationFails, Finish, Leave, ChainTakes,
           CloseMaster, StopNetwork
  <2>2. jobs' = jobs
    BY <2>1 DEF NextReceiver, OpenRecipient, SyncMaster, FundsSeen, Transfer,
                RegisterRecipient
  <2>. QED  BY <2>1, <2>2, NextReceiverComesNearer, InHandComesNearer
<1>. QED  BY <1>1, Spec_IInv, PTL DEF Spec, OperationComesNearer

=============================================================================
