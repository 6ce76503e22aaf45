------------------------- MODULE GenerationJobsProofs -------------------------
(* Theorems about GenerationJobs, for every set of jobs, prices and slots. *)
EXTENDS GenerationJobs, FiniteSetTheorems, SequenceTheorems, TLAPS

-------------------------------------------------------------------------------
(* The billing entry of a job (GenerationLedger), for every order and      *)
(* price.                                                                  *)

(* Multiplication by a price is monotonic: what the comparison of a        *)
(* delivered share with the whole order rests on (refundCredits).          *)
LEMMA PriceMonotonic ==
  ASSUME NEW n \in Nat, NEW m \in Nat, NEW u \in Nat, n <= m
  PROVE  /\ n * u \in Nat
         /\ m * u \in Nat
         /\ n * u <= m * u
<1>1. PICK d \in Nat : m = n + d
  BY m - n \in Nat
<1>2. m * u = n * u + d * u
  BY <1>1
<1>3. n * u \in Nat /\ d * u \in Nat /\ m * u \in Nat
  OBVIOUS
<1> QED
  BY <1>2, <1>3

(* The amount of a job is a number of credits (calculateJobCost). *)
LEMMA AmountType ==
  ASSUME NEW j \in Jobs
  PROVE  /\ Amount(j) \in Nat
         /\ Unit[j] \in Nat
         /\ Count[j] \in Nat \ {0}
         /\ Amount(j) = Count[j] * Unit[j]
  BY LedgerAssumption DEF Amount

(* An entry that is in order owes at most its amount for what it has       *)
(* delivered (recordGenerationOutput).                                     *)
LEMMA DeliveredWithinAmount ==
  ASSUME NEW j \in Jobs, NEW e \in Entries, EntryOK(j, e)
  PROVE  /\ Cardinality(e.delivered) \in Nat
         /\ Cardinality(e.delivered) * Unit[j] \in Nat
         /\ Cardinality(e.delivered) * Unit[j] <= Amount(j)
<1>1. Cardinality(e.delivered) \in Nat
  BY FS_CardinalityType DEF EntryOK
<1>2. Cardinality(e.delivered) <= Count[j]
  BY DEF EntryOK
<1> QED
  BY <1>1, <1>2, AmountType, PriceMonotonic

(* A new entry is in order, and so is the reservation of a job             *)
(* (reserveCredits).                                                       *)
LEMMA NewEntry ==
  ASSUME NEW j \in Jobs
  PROVE  /\ NoEntry \in Entries /\ EntryOK(j, NoEntry)
         /\ Reserved(j) \in Entries /\ EntryOK(j, Reserved(j))
<1>1. Recorded(j) \in BOOLEAN
  BY DEF Recorded
<1>2. NoEntry \in Entries /\ Reserved(j) \in Entries
  BY <1>1 DEF NoEntry, Reserved, Entries
<1>3. /\ NoEntry.delivered = {} /\ NoEntry.back = 0 /\ ~NoEntry.refunded
      /\ Reserved(j).delivered = {} /\ Reserved(j).back = 0 /\ ~Reserved(j).refunded
  BY DEF NoEntry, Reserved
<1> QED
  BY <1>2, <1>3, FS_EmptySet, AmountType DEF EntryOK

(* Attaching a task and settling leave the money and the outputs alone     *)
(* (attachGenerationTask, settleGenerationCharge).                         *)
LEMMA AttachSettle ==
  ASSUME NEW j \in Jobs, NEW e \in Entries, EntryOK(j, e), NEW t \in Nat
  PROVE  /\ Attached(e, t) \in Entries /\ EntryOK(j, Attached(e, t))
         /\ SettledEntry(j, e) \in Entries /\ EntryOK(j, SettledEntry(j, e))
<1>1. Attached(e, t) \in Entries /\ SettledEntry(j, e) \in Entries
  BY DEF Attached, SettledEntry, Entries
<1>2. \A f \in {Attached(e, t), SettledEntry(j, e)} :
        /\ f.delivered = e.delivered
        /\ f.back = e.back
        /\ f.refunded = e.refunded
  BY DEF Attached, SettledEntry, Entries
<1> QED
  BY <1>1, <1>2 DEF EntryOK

(* Recording an output that the entry accepts keeps it in order: the entry *)
(* is not refunded and has room (recordGenerationOutput).                  *)
LEMMA RecordOutput ==
  ASSUME NEW j \in Jobs, NEW e \in Entries, EntryOK(j, e), NEW o \in Nat,
         CanRecord(j, e, o)
  PROVE  RecordedOutput(e, o) \in Entries /\ EntryOK(j, RecordedOutput(e, o))
<1> DEFINE f == RecordedOutput(e, o)
<1>1. f \in Entries
  BY DEF RecordedOutput, Entries
<1>2. /\ f.delivered = e.delivered \cup {o}
      /\ f.back = e.back
      /\ f.refunded = e.refunded
  BY DEF RecordedOutput, Entries
<1>3. IsFiniteSet(f.delivered)
  BY <1>2, FS_AddElement DEF EntryOK
<1>4. Cardinality(f.delivered) <= Count[j] /\ ~e.refunded
  BY <1>2 DEF CanRecord, Chargeable
<1> QED
  BY <1>1, <1>2, <1>3, <1>4 DEF EntryOK

(* A refund gives back a number of credits, and together with the price of *)
(* the delivered outputs never more than the amount (refundCredits).       *)
LEMMA RefundBounds ==
  ASSUME NEW j \in Jobs, NEW e \in Entries, EntryOK(j, e)
  PROVE  /\ Refundable(j, e) \in Nat
         /\ RefundPaid(j, e) \in Nat
         /\ Source[j] = "platform" /\ Refundable(j, e) > 0
              => Refundable(j, e) + Cardinality(e.delivered) * Unit[j] = Amount(j)
<1> DEFINE kept == Cardinality(e.delivered) * Unit[j]
<1>1. kept \in Nat /\ kept <= Amount(j) /\ Amount(j) \in Nat
  BY DeliveredWithinAmount, AmountType
<1>2. Refundable(j, e) \in {0, Amount(j), Amount(j) - kept}
  BY <1>1 DEF Refundable
<1>3. Source[j] = "platform" => Refundable(j, e) \in {0, Amount(j) - kept}
  BY <1>1 DEF Refundable
<1>4. Refundable(j, e) \in Nat
  BY <1>1, <1>2
<1>5. RefundPaid(j, e) \in Nat
  BY <1>4 DEF RefundPaid
<1> QED
  BY <1>1, <1>3, <1>4, <1>5

(* A refund keeps the entry in order (refundCredits). *)
LEMMA RefundEntry ==
  ASSUME NEW j \in Jobs, NEW e \in Entries, EntryOK(j, e)
  PROVE  RefundedEntry(j, e) \in Entries /\ EntryOK(j, RefundedEntry(j, e))
<1> DEFINE f == RefundedEntry(j, e)
<1>1. RefundPaid(j, e) \in Nat
  BY RefundBounds
<1>2. CASE ~(RefundPaid(j, e) > 0)
  BY <1>2 DEF RefundedEntry
<1>3. CASE RefundPaid(j, e) > 0
  <2>1. f = [e EXCEPT !.refunded = TRUE, !.back = RefundPaid(j, e)]
    BY <1>3 DEF RefundedEntry
  <2>2. f \in Entries
    BY <2>1, <1>1 DEF Entries
  <2>3. f.delivered = e.delivered /\ f.refunded /\ f.back = RefundPaid(j, e)
    BY <2>1 DEF Entries
  <2>4. ~e.refunded /\ RefundPaid(j, e) = Refundable(j, e)
    BY <1>3 DEF RefundPaid
  <2>5. Source[j] = "platform"
          => f.back + Cardinality(f.delivered) * Unit[j] = Amount(j)
    BY <2>3, <2>4, <1>3, RefundBounds
  <2> QED
    BY <2>2, <2>3, <2>5, AmountType DEF EntryOK
<1> QED
  BY <1>2, <1>3

-------------------------------------------------------------------------------
(* The service. *)

Statuses == ActiveStatuses \cup FinalStatuses \cup {"absent"}
Waiters == Runners \cup {Handler}

-------------------------------------------------------------------------------
(* The values that the helpers return. *)

(* Every billing helper returns a billing status (refundJobCredits,        *)
(* chargeJobCredits, markJobBillingUnknown).                               *)
LEMMA BillTypes ==
  ASSUME NEW j \in Jobs, NEW b \in BillStatuses
  PROVE  /\ MarkedUnknown(j, b) \in BillStatuses
         /\ Charged(j, b) \in BillStatuses
         /\ Refunded(j, b) \in BillStatuses
<1>1. MarkedUnknown(j, b) \in BillStatuses
  BY DEF MarkedUnknown, BillStatuses
<1>2. Charged(j, b) \in BillStatuses
  BY DEF Charged, BillStatuses
<1>3. Refunded(j, b) \in BillStatuses
  BY DEF Refunded, BillStatuses
<1> QED
  BY <1>1, <1>2, <1>3

(* The jobs file holds records before and after it is read and normalised, *)
(* and after one record is updated (readJobsUnlocked, updateJob).          *)
LEMMA ReadType ==
  ASSUME TypeOK
  PROVE  Read \in [Jobs -> JobRecords]
<1> SUFFICES ASSUME NEW j \in Jobs
             PROVE  (IF Orphaned(j)
                     THEN [ jobs[j] EXCEPT !.status = "unknown",
                                           !.bill = MarkedUnknown(j, jobs[j].bill),
                                           !.stale = FALSE ]
                     ELSE jobs[j]) \in JobRecords
  BY DEF Read
<1>1. jobs[j] \in JobRecords
  BY DEF TypeOK
<1>2. MarkedUnknown(j, jobs[j].bill) \in BillStatuses
  BY <1>1, BillTypes DEF JobRecords
<1> QED
  BY <1>1, <1>2 DEF JobRecords, FinalStatuses

(* An updated record is a record (updateJob). *)
LEMMA UpdatedType ==
  ASSUME TypeOK, NEW j \in Jobs, NEW s \in Statuses, NEW b \in BillStatuses
  PROVE  Updated(j, s, b) \in [Jobs -> JobRecords]
<1>1. Read \in [Jobs -> JobRecords]
  BY ReadType
<1> QED
  BY <1>1 DEF Updated, JobRecords, Statuses

(* So is one that only moves to its next stage (updateJob). *)
LEMMA StagedType ==
  ASSUME TypeOK, NEW j \in Jobs, NEW s \in Statuses
  PROVE  Staged(j, s) \in [Jobs -> JobRecords]
<1>1. Read[j].bill \in BillStatuses
  BY ReadType DEF JobRecords
<1> QED
  BY <1>1, UpdatedType DEF Staged

(* The lock stays a queue of runners and requests (keyedLock.js). *)
LEMMA LockType ==
  ASSUME NEW q \in Seq(Waiters), NEW p \in Waiters
  PROVE  /\ Append(q, p) \in Seq(Waiters)
         /\ q # << >> => /\ Tail(q) \in Seq(Waiters)
                         /\ Append(Tail(q), p) \in Seq(Waiters)
  OBVIOUS
-------------------------------------------------------------------------------
(* The invariant, in the parts that an action disturbs one at a time. *)

RecordsOK == jobs \in [Jobs -> JobRecords]
BillingOK ==
  ledger \in [Jobs -> Entries] /\ balance \in Nat /\ LedgerOK
QueueOK == items \in Seq(Items) /\ running \in Nat /\ drainDue \in BOOLEAN
ControllerOK == controller \in [Jobs -> Runners \cup {NoRunner}]
RunsOK ==
  /\ run \in [Runners -> RunRecords]
  /\ \A r \in Runners : run[r].pc # "idle" => run[r].job \in Jobs
HandlerOK ==
  /\ handler \in HandlerRecords
  /\ handler.pc \notin {"idle", "get", "recover"} => handler.job \in Jobs
LockOK == lock \in Seq(Waiters)
WorldOK == sent \in [Jobs -> Nat] /\ task \in [Jobs -> TaskStates]
BoundsOK == crashes \in 0 .. MaxCrashes /\ faults \in 0 .. MaxFaults

(* The invariant says each of its parts, and the types of all variables. *)
LEMMA Parts ==
  ASSUME IInv
  PROVE  /\ RecordsOK /\ BillingOK /\ QueueOK /\ ControllerOK /\ RunsOK
         /\ HandlerOK /\ LockOK /\ WorldOK /\ BoundsOK /\ TypeOK
  BY DEF IInv, TypeOK, RecordsOK, BillingOK, QueueOK, ControllerOK, RunsOK,
         HandlerOK, LockOK, WorldOK, BoundsOK, Waiters

(* A step that re-establishes every part re-establishes the invariant. *)
LEMMA Whole ==
  ASSUME RecordsOK', BillingOK', QueueOK', ControllerOK', RunsOK',
         HandlerOK', LockOK', WorldOK', BoundsOK'
  PROVE  IInv'
  BY DEF IInv, TypeOK, RecordsOK, BillingOK, QueueOK, ControllerOK, RunsOK,
         HandlerOK, LockOK, WorldOK, BoundsOK, Waiters

(* A step that leaves the variables of a part alone keeps the part. *)
LEMMA Frame ==
  ASSUME IInv
  PROVE  /\ UNCHANGED jobs => RecordsOK'
         /\ UNCHANGED ledgerVars => BillingOK'
         /\ UNCHANGED queueVars => QueueOK'
         /\ UNCHANGED controller => ControllerOK'
         /\ UNCHANGED run => RunsOK'
         /\ UNCHANGED handler => HandlerOK'
         /\ UNCHANGED lock => LockOK'
         /\ UNCHANGED world => WorldOK'
         /\ UNCHANGED bounds => BoundsOK'
  BY Parts
  DEF RecordsOK, BillingOK, LedgerOK, QueueOK, ControllerOK, RunsOK, HandlerOK,
      LockOK, WorldOK, BoundsOK, ledgerVars, queueVars, world, bounds

-------------------------------------------------------------------------------
(* The steps that several actions share. *)

(* Awaiting, releasing and awaiting anew keep the lock a queue (acquire). *)
LEMMA LockStep ==
  ASSUME IInv, NEW p \in Waiters
  PROVE  /\ Await(p) => LockOK'
         /\ Holds(p) /\ Release => LockOK'
         /\ Holds(p) /\ Reacquire(p) => LockOK'
  BY Parts, LockType DEF LockOK, Holds, Await, Release, Reacquire

(* The record that a read or an update leaves in the file. *)
LEMMA RecordStep ==
  ASSUME IInv
  PROVE  /\ jobs' = Read => RecordsOK'
         /\ \A j \in Jobs, s \in Statuses, b \in BillStatuses :
              jobs' = Updated(j, s, b) => RecordsOK'
         /\ \A j \in Jobs, s \in Statuses :
              jobs' = Staged(j, s) => RecordsOK'
         /\ \A j \in Jobs : Read[j].bill \in BillStatuses
  BY Parts, ReadType, UpdatedType, StagedType DEF RecordsOK, JobRecords

(* A slot that is given back is an idle runner (drainGenerationQueue). *)
LEMMA LeaveStep ==
  ASSUME IInv, NEW r \in Runners
  PROVE  Leave(r) => RunsOK' /\ QueueOK'
<1> SUFFICES ASSUME Leave(r) PROVE RunsOK' /\ QueueOK'
  OBVIOUS
<1>1. Idle \in RunRecords /\ Idle.pc = "idle"
  BY DEF Idle, RunRecords, LockedSteps, OpenSteps, TaskStates, BillStatuses,
         Aborts, Errors
<1>2. RunsOK'
  BY <1>1, Parts DEF Leave, RunsOK
<1>3. QueueOK'
  BY Parts DEF Leave, QueueOK
<1> QED
  BY <1>2, <1>3

(* So is the slot of a runner whose job is forgotten (the finally block of *)
(* runGenerationJob).                                                      *)
LEMMA FinallyStep ==
  ASSUME IInv, NEW r \in Runners, Job(r) \in Jobs, Finally(r)
  PROVE  RunsOK' /\ QueueOK' /\ ControllerOK'
<1>1. ControllerOK'
  BY Parts DEF Finally, ControllerOK
<1> QED
  BY <1>1, LeaveStep DEF Finally

(* A runner goes on with another record of its own. *)
LEMMA RunStep ==
  ASSUME IInv, NEW r \in Runners, NEW f \in RunRecords, f.job \in Jobs,
         run' = [run EXCEPT ![r] = f]
  PROVE  RunsOK'
  BY Parts DEF RunsOK

(* An exception leaves its runner with its job (the catch of               *)
(* runGenerationJob).                                                      *)
LEMMA ThrownStep ==
  ASSUME IInv, NEW r \in Runners, NEW kind \in Errors, Job(r) \in Jobs,
         run' = Thrown(r, kind)
  PROVE  RunsOK'
<1> DEFINE e == IF run[r].signal = "none" THEN kind ELSE run[r].signal
<1>1. run[r] \in RunRecords
  BY Parts DEF RunsOK
<1>2. e \in Aborts \cup Errors
  BY <1>1 DEF RunRecords
<1>3. "catch" \in LockedSteps
  BY DEF LockedSteps
<1> QED
  BY <1>1, <1>2, <1>3, Parts DEF Thrown, RunsOK, RunRecords, Job

(* The steps of a runner change the variables of its job's billing only    *)
(* through the calls of the ledger (chargeJobCredits, refundJobCredits).   *)
LEMMA EntryStep ==
  ASSUME IInv, NEW j \in Jobs, NEW e \in Entries, EntryOK(j, e),
         ledger' = [ledger EXCEPT ![j] = e], balance' \in Nat
  PROVE  BillingOK'
<1>1. ledger \in [Jobs -> Entries] /\ \A k \in Jobs : EntryOK(k, ledger[k])
  BY Parts DEF BillingOK, LedgerOK
<1>2. ledger' \in [Jobs -> Entries]
  BY <1>1
<1>3. ASSUME NEW k \in Jobs PROVE EntryOK(k, ledger'[k])
  BY <1>1, <1>3
<1> QED
  BY <1>2, <1>3 DEF BillingOK, LedgerOK

(* A charge settles an entry or leaves the ledger alone                    *)
(* (chargeJobCredits).                                                     *)
LEMMA ChargeStep ==
  ASSUME IInv, NEW j \in Jobs, NEW b \in BillStatuses, Charge(j, b)
  PROVE  BillingOK'
<1>1. ledger[j] \in Entries /\ EntryOK(j, ledger[j]) /\ balance \in Nat
  BY Parts DEF BillingOK, LedgerOK
<1>2. CASE ~ChargeApplies(b)
  BY <1>2, Frame DEF Charge, ledgerVars
<1>3. CASE ChargeApplies(b)
  <2>1. SettledEntry(j, ledger[j]) \in Entries /\ EntryOK(j, SettledEntry(j, ledger[j]))
    BY <1>1, AttachSettle
  <2> QED
    BY <1>1, <1>3, <2>1, EntryStep DEF Charge
<1> QED
  BY <1>2, <1>3

(* A refund keeps what was delivered paid, and the balance a number        *)
(* (refundJobCredits).                                                     *)
LEMMA RefundStep ==
  ASSUME IInv, NEW j \in Jobs, NEW b \in BillStatuses, Refund(j, b)
  PROVE  BillingOK'
<1> DEFINE e == RefundedEntry(j, ledger[j])
<1>1. ledger[j] \in Entries /\ EntryOK(j, ledger[j]) /\ balance \in Nat
  BY Parts DEF BillingOK, LedgerOK
<1>2. CASE ~(RefundApplies(j, b) /\ Amount(j) > 0)
  BY <1>2, Frame DEF Refund
<1>3. CASE RefundApplies(j, b) /\ Amount(j) > 0
  <2>1. e \in Entries /\ EntryOK(j, e)
    BY <1>1, RefundEntry
  <2>2. SettledEntry(j, e) \in Entries /\ EntryOK(j, SettledEntry(j, e))
    BY <2>1, AttachSettle
  <2>3. balance' \in Nat
    BY <1>1, <1>3, RefundBounds DEF Refund
  <2>4. ledger' = [ledger EXCEPT ![j] = SettledEntry(j, e)]
    BY <1>3 DEF Refund
  <2> QED
    BY <2>2, <2>3, <2>4, EntryStep
<1> QED
  BY <1>2, <1>3

(* A recovery that goes on, or ends, is a state of the request             *)
(* (recoverPersistedVideoJobs).                                            *)
LEMMA VisitStep ==
  ASSUME NEW todo \in SUBSET Jobs, Visit(todo)
  PROVE  HandlerOK'
<1>1. handler' \in { NoRequest, [NoRequest EXCEPT !.pc = "recover", !.todo = todo] }
  BY DEF Visit, Answer
<1>2. NoRequest \in HandlerRecords /\ NoRequest.pc = "idle"
  BY DEF NoRequest, HandlerRecords, BillStatuses
<1>3. /\ [NoRequest EXCEPT !.pc = "recover", !.todo = todo] \in HandlerRecords
      /\ [NoRequest EXCEPT !.pc = "recover", !.todo = todo].pc = "recover"
  BY <1>2 DEF HandlerRecords
<1> QED
  BY <1>1, <1>2, <1>3 DEF HandlerOK

-------------------------------------------------------------------------------
(* The runners and the provider. *)

(* What the actions of a runner have in common. *)
LEMMA RunnerFacts ==
  ASSUME IInv, NEW r \in Runners
  PROVE  /\ r \in Waiters
         /\ run[r] \in RunRecords
         /\ run[r].pc # "idle" => Job(r) \in Jobs
         /\ "upstream" \in Errors
         /\ \A s \in { "dispatching", "gateway", "upstream", "image", "video",
                        "saving", "succeeded", "failed", "unknown" } :
              s \in Statuses
         /\ \A j \in Jobs :
              /\ ledger[j] \in Entries
              /\ EntryOK(j, ledger[j])
  BY Parts DEF Waiters, RunsOK, Job, Errors, Statuses, ActiveStatuses,
               FinalStatuses, BillingOK, LedgerOK

(* Every step of a runner keeps the invariant (runGenerationJob,           *)
(* runGenerationRequest, runVideoGenerationRequest).                       *)
LEMMA RunnerStepKeeps ==
  ASSUME IInv, NEW r \in Runners, RunnerStep(r)
  PROVE  IInv'
<1> USE RunnerFacts
<1>1. CASE Drop(r)
  <2>1. RecordsOK'
    BY <1>1, RecordStep DEF Drop
  <2>2. LockOK'
    BY <1>1, LockStep DEF Drop, AtLock
  <2>3. RunsOK' /\ QueueOK'
    BY <1>1, LeaveStep DEF Drop
  <2> QED
    BY <1>1, <2>1, <2>2, <2>3, Frame, Whole DEF Drop
<1>2. CASE Take(r)
  <2>1. RecordsOK'
    BY <1>2, RecordStep DEF Take
  <2>2. LockOK'
    BY <1>2, LockStep DEF Take, AtLock
  <2>3. RunsOK'
    BY <1>2, Parts DEF Take, AtLock, RunsOK, RunRecords, LockedSteps
  <2>4. ControllerOK'
    BY <1>2, Parts DEF Take, AtLock, Job, RunsOK, ControllerOK
  <2> QED
    BY <1>2, <2>1, <2>2, <2>3, <2>4, Frame, Whole DEF Take
<1>3. CASE Start(r)
  <2>1. StartBill(r) \in BillStatuses
    BY <1>3, RecordStep DEF Start, AtLock, StartBill, BillStatuses
  <2>2. RecordsOK'
    BY <1>3, <2>1, RecordStep DEF Start, AtLock
  <2>3. LockOK'
    BY <1>3, LockStep DEF Start, AtLock
  <2>4. RunsOK'
    <3>1. FirstStep(r) \in LockedSteps /\ FirstStep(r) # "idle"
      BY DEF FirstStep, LockedSteps
    <3>2. Job(r) \in Jobs
      BY <1>3 DEF Start, AtLock
    <3> DEFINE f == [ run[r] EXCEPT !.pc = FirstStep(r), !.bill = StartBill(r) ]
    <3>3. f \in RunRecords /\ f.job \in Jobs
      BY <2>1, <3>1, <3>2 DEF RunRecords, Job
    <3>4. run' = [run EXCEPT ![r] = f]
      BY <1>3, Parts DEF Start, RunsOK
    <3> QED
      BY <3>3, <3>4, RunStep
  <2> QED
    BY <1>3, <2>1, <2>2, <2>3, <2>4, Frame, Whole DEF Start
<1>4. CASE Gateway(r)
  <2>1. RecordsOK'
    BY <1>4, RecordStep DEF Gateway, AtLock
  <2>2. LockOK'
    BY <1>4, LockStep DEF Gateway, AtLock
  <2>3. RunsOK'
    BY <1>4, Parts, ThrownStep DEF Gateway, AtLock, RunsOK, RunRecords, OpenSteps
  <2>4. WorldOK'
    BY <1>4, Parts DEF Gateway, WorldOK
  <2> QED
    BY <1>4, <2>1, <2>2, <2>3, <2>4, Frame, Whole DEF Gateway
<1>5. CASE CallAborted(r)
  <2>1. LockOK'
    BY <1>5, LockStep DEF CallAborted
  <2>2. RunsOK'
    BY <1>5, ThrownStep DEF CallAborted
  <2> QED
    BY <1>5, <2>1, <2>2, Frame, Whole DEF CallAborted
<1>6. CASE Saving(r)
  <2>1. RecordsOK'
    BY <1>6, RecordStep DEF Saving, AtLock
  <2>2. LockOK'
    BY <1>6, LockStep DEF Saving, AtLock
  <2>3. RunsOK'
    BY <1>6, Parts DEF Saving, AtLock, RunsOK, RunRecords, OpenSteps
  <2> QED
    BY <1>6, <2>1, <2>2, <2>3, Frame, Whole DEF Saving
<1>7. CASE Store(r)
  <2>1. run[r].out + 1 \in Nat
    BY <1>7 DEF RunRecords
  <2>2. LockOK'
    BY <1>7, LockStep DEF Store
  <2>3. RunsOK'
    BY <1>7, <2>1, Parts, ThrownStep DEF Store, RunsOK, RunRecords, LockedSteps
  <2>4. BillingOK'
    BY <1>7, <2>1, Parts, Frame, RecordOutput, EntryStep DEF Store, BillingOK, ledgerVars
  <2> QED
    BY <1>7, <2>1, <2>2, <2>3, <2>4, Frame, Whole DEF Store
<1>8. CASE StoreFails(r)
  <2>1. LockOK'
    BY <1>8, LockStep DEF StoreFails
  <2>2. RunsOK'
    BY <1>8, ThrownStep DEF StoreFails
  <2> QED
    BY <1>8, <2>1, <2>2, Frame, Whole DEF StoreFails
<1>9. CASE Stored(r)
  <2>1. run[r].bill \in BillStatuses
    BY <1>9 DEF RunRecords
  <2>2. RecordsOK'
    BY <1>9, RecordStep DEF Stored, AtLock
  <2>3. LockOK'
    BY <1>9, LockStep DEF Stored, AtLock
  <2>4. Charged(Job(r), run[r].bill) \in BillStatuses
    BY <1>9, <2>1, BillTypes DEF Stored, AtLock
  <2>5. RunsOK'
    BY <1>9, <2>4, Parts DEF Stored, AtLock, RunsOK, RunRecords, LockedSteps, OpenSteps
  <2>6. BillingOK'
    BY <1>9, <2>1, Frame, ChargeStep DEF Stored, AtLock
  <2> QED
    BY <1>9, <2>1, <2>2, <2>3, <2>4, <2>5, <2>6, Frame, Whole DEF Stored
<1>10. CASE Tracked(r)
  <2>1. RecordsOK'
    <3> DEFINE s == IF run[r].poll = "completed" THEN "saving" ELSE "upstream"
    <3>1. Staged(Job(r), s) \in [Jobs -> JobRecords]
      BY <1>10, Parts, StagedType DEF Tracked, AtLock
    <3>2. run[r].task \in Nat
      BY DEF RunRecords
    <3>3. jobs' = [Staged(Job(r), s) EXCEPT ![Job(r)].task = run[r].task]
      BY <1>10 DEF Tracked
    <3> QED
      BY <3>1, <3>2, <3>3 DEF RecordsOK, JobRecords
  <2>2. LockOK'
    BY <1>10, LockStep DEF Tracked, AtLock
  <2>3. RunsOK'
    BY <1>10, Parts, ThrownStep DEF Tracked, AtLock, RunsOK, RunRecords, OpenSteps
  <2> QED
    BY <1>10, <2>1, <2>2, <2>3, Frame, Whole DEF Tracked
<1>11. CASE Polled(r)
  <2>1. RecordsOK'
    BY <1>11, RecordStep DEF Polled, AtLock
  <2>2. LockOK'
    BY <1>11, LockStep DEF Polled, AtLock
  <2>3. RunsOK'
    BY <1>11, Parts, ThrownStep DEF Polled, AtLock, RunsOK, RunRecords, OpenSteps
  <2> QED
    BY <1>11, <2>1, <2>2, <2>3, Frame, Whole DEF Polled
<1>12. CASE Retried(r)
  <2>1. RecordsOK'
    BY <1>12, RecordStep DEF Retried, AtLock
  <2>2. LockOK'
    BY <1>12, LockStep DEF Retried, AtLock
  <2>3. RunsOK'
    BY <1>12, Parts DEF Retried, AtLock, RunsOK, RunRecords, OpenSteps
  <2> QED
    BY <1>12, <2>1, <2>2, <2>3, Frame, Whole DEF Retried
<1>13. CASE Finish(r)
  <2>1. RecordsOK'
    BY <1>13, RecordStep DEF Finish, AtLock, RunRecords
  <2>2. LockOK'
    BY <1>13, LockStep DEF Finish, AtLock
  <2>3. RunsOK'
    BY <1>13, Parts DEF Finish, AtLock, RunsOK, RunRecords, OpenSteps
  <2> QED
    BY <1>13, <2>1, <2>2, <2>3, Frame, Whole DEF Finish
<1>14. CASE Catch(r)
  <2>1. Job(r) \in Jobs /\ Read[Job(r)].bill \in BillStatuses
    BY <1>14, RecordStep DEF Catch, AtLock
  <2>2. RecordsOK'
    BY <1>14, RecordStep DEF Catch
  <2>3. LockOK'
    BY <1>14, LockStep DEF Catch, AtLock
  <2>4. RunsOK'
    BY <1>14, <2>1, Parts, BillTypes DEF Catch, AtLock, RunsOK, RunRecords, LockedSteps
  <2>5. BillingOK'
    BY <1>14, <2>1, Frame, RefundStep DEF Catch
  <2> QED
    BY <1>14, <2>1, <2>2, <2>3, <2>4, <2>5, Frame, Whole DEF Catch
<1>15. CASE Fail(r)
  <2>1. Job(r) \in Jobs
    BY <1>15 DEF Fail, AtLock
  <2>2. RecordsOK'
    BY <1>15, <2>1, RecordStep DEF Fail, RunRecords
  <2>3. LockOK'
    BY <1>15, LockStep DEF Fail, AtLock
  <2>4. RunsOK' /\ QueueOK' /\ ControllerOK'
    BY <1>15, <2>1, FinallyStep DEF Fail
  <2> QED
    BY <1>15, <2>1, <2>2, <2>3, <2>4, Frame, Whole DEF Fail
<1> QED
  BY <1>1, <1>2, <1>3, <1>4, <1>5, <1>6, <1>7, <1>8, <1>9, <1>10, <1>11, <1>12, <1>13, <1>14, <1>15 DEF RunnerStep

(* The answers of the provider keep the invariant. *)
LEMMA ProviderStepKeeps ==
  ASSUME IInv, NEW r \in Runners, ProviderStep(r)
  PROVE  IInv'
<1> USE RunnerFacts
<1>1. CASE ImageAnswer(r)
  <2>1. LockOK'
    BY <1>1, LockStep DEF ImageAnswer
  <2>2. RunsOK'
    BY <1>1, Parts DEF ImageAnswer, RunsOK, RunRecords, LockedSteps
  <2> QED
    BY <1>1, <2>1, <2>2, Frame, Whole DEF ImageAnswer
<1>2. CASE VideoAnswer(r)
  <2>1. Job(r) \in Jobs /\ sent[Job(r)] \in Nat
    BY <1>2, Parts DEF VideoAnswer, WorldOK
  <2>2. LockOK'
    BY <1>2, LockStep DEF VideoAnswer
  <2>3. RunsOK'
    <3>1. PICK s \in TaskStates :
            \/ run' = [ run EXCEPT ![r].pc = "tracked", ![r].poll = s,
                                   ![r].task = sent[Job(r)] ]
            \/ run' = Thrown(r, "upstream")
      BY <1>2 DEF VideoAnswer
    <3>2. CASE run' = Thrown(r, "upstream")
      BY <2>1, <3>2, ThrownStep
    <3>3. CASE run' = [ run EXCEPT ![r].pc = "tracked", ![r].poll = s,
                                   ![r].task = sent[Job(r)] ]
      <4> DEFINE f == [ run[r] EXCEPT !.pc = "tracked", !.poll = s,
                                      !.task = sent[Job(r)] ]
      <4>1. f \in RunRecords /\ f.job \in Jobs
        BY <2>1 DEF RunRecords, LockedSteps, Job
      <4>2. run' = [run EXCEPT ![r] = f]
        BY <3>3, Parts DEF RunsOK
      <4> QED
        BY <4>1, <4>2, RunStep
    <3> QED
      BY <3>1, <3>2, <3>3
  <2>4. BillingOK'
    BY <1>2, <2>1, Parts, Frame, AttachSettle, EntryStep DEF VideoAnswer, BillingOK, ledgerVars
  <2>5. WorldOK'
    BY <1>2, Parts DEF VideoAnswer, WorldOK
  <2> QED
    BY <1>2, <2>1, <2>2, <2>3, <2>4, <2>5, Frame, Whole DEF VideoAnswer
<1>3. CASE CallFails(r)
  <2>1. LockOK'
    BY <1>3, LockStep DEF CallFails
  <2>2. RunsOK'
    BY <1>3, ThrownStep DEF CallFails
  <2> QED
    BY <1>3, <2>1, <2>2, Frame, Whole DEF CallFails
<1>4. CASE Poll(r)
  <2>1. LockOK'
    BY <1>4, LockStep DEF Poll
  <2>2. RunsOK'
    <3>1. PICK s \in TaskStates :
            run' = [ run EXCEPT ![r].pc = "polled", ![r].poll = s, ![r].tries = 0 ]
      BY <1>4 DEF Poll
    <3>2. Job(r) \in Jobs
      BY <1>4 DEF Poll
    <3> DEFINE f == [ run[r] EXCEPT !.pc = "polled", !.poll = s, !.tries = 0 ]
    <3>3. f \in RunRecords /\ f.job \in Jobs
      BY <3>2 DEF RunRecords, LockedSteps, Job
    <3>4. run' = [run EXCEPT ![r] = f]
      BY <3>1, Parts DEF RunsOK
    <3> QED
      BY <3>3, <3>4, RunStep
  <2>3. WorldOK'
    BY <1>4, Parts DEF Poll, WorldOK
  <2> QED
    BY <1>4, <2>1, <2>2, <2>3, Frame, Whole DEF Poll
<1>5. CASE PollRetry(r)
  <2>1. LockOK'
    BY <1>5, LockStep DEF PollRetry
  <2>2. RunsOK'
    BY <1>5, Parts DEF PollRetry, RunsOK, RunRecords, LockedSteps
  <2> QED
    BY <1>5, <2>1, <2>2, Frame, Whole DEF PollRetry
<1>6. CASE PollFails(r)
  <2>1. LockOK'
    BY <1>6, LockStep DEF PollFails
  <2>2. RunsOK'
    BY <1>6, ThrownStep DEF PollFails
  <2> QED
    BY <1>6, <2>1, <2>2, Frame, Whole DEF PollFails
<1> QED
  BY <1>1, <1>2, <1>3, <1>4, <1>5, <1>6 DEF ProviderStep

-------------------------------------------------------------------------------
(* The requests. *)

(* What the steps of a request have in common: its job, and the statuses   *)
(* and bills it writes.                                                    *)
LEMMA HandlerFacts ==
  ASSUME IInv
  PROVE  /\ Handler \in Waiters
         /\ handler \in HandlerRecords
         /\ handler.pc \notin {"idle", "get", "recover"} => handler.job \in Jobs
         /\ \A s \in {"queued", "canceled", "unknown"} : s \in Statuses
         /\ \A j \in Jobs :
              /\ ledger[j] \in Entries
              /\ EntryOK(j, ledger[j])
              /\ Amount(j) \in Nat
         /\ balance \in Nat
  BY Parts, AmountType DEF Waiters, HandlerOK, Statuses, ActiveStatuses,
                           FinalStatuses, BillingOK, LedgerOK

(* An answered request leaves none in progress (handler). *)
LEMMA AnswerStep ==
  ASSUME Answer
  PROVE  HandlerOK'
<1>1. NoRequest \in HandlerRecords /\ NoRequest.pc = "idle"
  BY DEF NoRequest, HandlerRecords, BillStatuses
<1> QED
  BY <1>1 DEF Answer, HandlerOK

(* What enters the queue names a job and the task it resumes. *)
LEMMA EnqueueStep ==
  ASSUME IInv, NEW j \in Jobs, NEW t \in Nat, NEW resume \in BOOLEAN,
         Enqueue(j, t, resume), UNCHANGED running
  PROVE  QueueOK'
<1>1. [job |-> j, task |-> t, resume |-> resume] \in Items
  BY DEF Items
<1>2. CASE InMemory(j)
  BY <1>2, Frame DEF Enqueue, queueVars
<1>3. CASE ~InMemory(j)
  BY <1>1, <1>3, Parts DEF Enqueue, QueueOK
<1> QED
  BY <1>2, <1>3

(* Removing an item leaves a queue (queue.items.filter). *)
LEMMA UnqueuedType ==
  ASSUME IInv, NEW j \in Jobs
  PROVE  Unqueued(j) \in Seq(Items)
<1>1. items \in Seq(Items)
  BY Parts DEF QueueOK
<1>2. CASE ~Queued(j)
  BY <1>1, <1>2 DEF Unqueued
<1>3. CASE Queued(j)
  <2> DEFINE i == CHOOSE i \in DOMAIN items : items[i].job = j
  <2>1. i \in DOMAIN items
    BY <1>3 DEF Queued
  <2>2. i \in 1 .. Len(items)
    BY <1>1, <2>1
  <2> HIDE DEF i
  <2>3. SubSeq(items, 1, i - 1) \in Seq(Items)
    BY <1>1, <2>2, SubSeqProperties
  <2>4. SubSeq(items, i + 1, Len(items)) \in Seq(Items)
    BY <1>1, <2>2, SubSeqProperties
  <2>5. Unqueued(j) = SubSeq(items, 1, i - 1) \o SubSeq(items, i + 1, Len(items))
    BY <1>3 DEF Unqueued, i
  <2> QED
    BY <2>3, <2>4, <2>5, ConcatProperties
<1> QED
  BY <1>2, <1>3

(* Every step of a request keeps the invariant (POST, DELETE, GET). *)
LEMMA RequestStepKeeps ==
  ASSUME IInv, RequestStep
  PROVE  IInv'
<1> USE HandlerFacts
<1>1. CASE Refuse
  <2>1. RecordsOK'
    BY <1>1, RecordStep DEF Refuse
  <2>2. LockOK'
    BY <1>1, LockStep DEF Refuse, AtRequest
  <2>3. HandlerOK'
    BY <1>1, AnswerStep DEF Refuse
  <2> QED
    BY <1>1, <2>1, <2>2, <2>3, Frame, Whole DEF Refuse
<1>2. CASE Reserve
  <2>1. RecordsOK'
    BY <1>2, RecordStep DEF Reserve
  <2>2. HandlerOK'
    <3>1. FirstBill(handler.job) \in BillStatuses
      BY DEF FirstBill, BillStatuses
    <3>2. handler' = [handler EXCEPT !.pc = "write", !.bill = FirstBill(handler.job)]
      BY <1>2 DEF Reserve
    <3>3. handler.job \in Jobs
      BY <1>2 DEF Reserve, AtRequest
    <3> QED
      BY <3>1, <3>2, <3>3 DEF HandlerOK, HandlerRecords
  <2>3. BillingOK'
    <3> DEFINE j == handler.job
               e == IF ledger[j].open THEN ledger[j] ELSE Reserved(j)
    <3>1. j \in Jobs
      BY <1>2 DEF Reserve, AtRequest
    <3>2. CASE ~Billed(j)
      BY <1>2, <3>2, Frame DEF Reserve
    <3>3. CASE Billed(j)
      <4>1. e \in Entries /\ EntryOK(j, e)
        BY <3>1, NewEntry
      <4>2. ledger' = [ledger EXCEPT ![j] = e]
        BY <1>2, <3>3 DEF Reserve
      <4>3. balance' \in Nat
        BY <1>2, <3>1, <3>3 DEF Reserve, Payable
      <4> QED
        BY <3>1, <4>1, <4>2, <4>3, EntryStep
    <3> QED
      BY <3>2, <3>3
  <2> QED
    BY <1>2, <2>1, <2>2, <2>3, Frame, Whole DEF Reserve
<1>3. CASE Accept
  <2>1. RecordsOK'
    <3> DEFINE f == [NoRecord EXCEPT !.status = "queued", !.bill = handler.bill]
    <3>1. f \in JobRecords
      BY DEF NoRecord, JobRecords, ActiveStatuses, HandlerRecords
    <3> QED
      BY <1>3, <3>1, Parts DEF Accept, RecordsOK
  <2>2. LockOK'
    BY <1>3, LockStep DEF Accept, AtRequest
  <2>3. HandlerOK'
    BY <1>3, AnswerStep DEF Accept
  <2>4. QueueOK'
    BY <1>3, EnqueueStep DEF Accept, AtRequest
  <2> QED
    BY <1>3, <2>1, <2>2, <2>3, <2>4, Frame, Whole DEF Accept
<1>4. CASE CancelNothing
  <2>1. RecordsOK'
    BY <1>4, RecordStep DEF CancelNothing
  <2>2. LockOK'
    BY <1>4, LockStep DEF CancelNothing, AtRequest
  <2>3. HandlerOK'
    BY <1>4, AnswerStep DEF CancelNothing
  <2> QED
    BY <1>4, <2>1, <2>2, <2>3, Frame, Whole DEF CancelNothing
<1>5. CASE CancelJob
  <2>1. handler.job \in Jobs /\ Read[handler.job].bill \in BillStatuses
    BY <1>5, RecordStep DEF CancelJob, AtRequest
  <2>2. RecordsOK'
    BY <1>5, RecordStep DEF CancelJob
  <2>3. LockOK'
    BY <1>5, LockStep DEF CancelJob, AtRequest
  <2>4. RunsOK'
    <3> DEFINE c == controller[handler.job]
    <3>1. CASE c # NoRunner /\ run[c].signal = "none"
      <4>1. c \in Runners
        BY <2>1, <3>1, Parts DEF ControllerOK
      <4>2. run' = [run EXCEPT ![c].signal = "canceled"]
        BY <1>5, <3>1 DEF CancelJob
      <4> QED
        BY <4>1, <4>2, Parts DEF RunsOK, RunRecords, Aborts
    <3>2. CASE ~(c # NoRunner /\ run[c].signal = "none")
      BY <1>5, <3>2, Frame DEF CancelJob
    <3> QED
      BY <3>1, <3>2
  <2>5. QueueOK'
    <3>1. Unqueued(handler.job) \in Seq(Items)
      BY <2>1, UnqueuedType
    <3> QED
      BY <1>5, <3>1, Parts DEF CancelJob, QueueOK
  <2>6. HandlerOK'
    BY <1>5, <2>1, Parts, BillTypes DEF CancelJob, HandlerOK, HandlerRecords
  <2>7. BillingOK'
    BY <1>5, <2>1, Frame, RefundStep DEF CancelJob
  <2> QED
    BY <1>5, <2>1, <2>2, <2>3, <2>4, <2>5, <2>6, <2>7, Frame, Whole DEF CancelJob
<1>6. CASE CancelWrite
  <2>1. RecordsOK'
    BY <1>6, RecordStep DEF CancelWrite, AtRequest, HandlerRecords
  <2>2. LockOK'
    BY <1>6, LockStep DEF CancelWrite, AtRequest
  <2>3. HandlerOK'
    BY <1>6, AnswerStep DEF CancelWrite
  <2> QED
    BY <1>6, <2>1, <2>2, <2>3, Frame, Whole DEF CancelWrite
<1>7. CASE GetRead
  <2>1. RecordsOK'
    BY <1>7, RecordStep DEF GetRead
  <2>2. LockOK'
    BY <1>7, LockStep DEF GetRead, AtRequest
  <2>3. HandlerOK'
    BY <1>7, VisitStep DEF GetRead, HandlerRecords
  <2> QED
    BY <1>7, <2>1, <2>2, <2>3, Frame, Whole DEF GetRead
<1>8. CASE BlockWrite
  <2>1. RecordsOK'
    <3>1. MarkedUnknown(handler.job, "reserved") \in BillStatuses
      BY BillTypes DEF BillStatuses, MarkedUnknown
    <3> QED
      BY <1>8, <3>1, RecordStep DEF BlockWrite, AtRequest
  <2>2. LockOK'
    BY <1>8, LockStep DEF BlockWrite, AtRequest
  <2>3. HandlerOK'
    BY <1>8, VisitStep DEF BlockWrite, HandlerRecords
  <2> QED
    BY <1>8, <2>1, <2>2, <2>3, Frame, Whole DEF BlockWrite
<1>9. ASSUME NEW j \in Jobs, Resume(j)
      PROVE  IInv'
  <2>1. jobs[j].task \in Nat
    BY Parts DEF RecordsOK, JobRecords
  <2>2. QueueOK'
    BY <1>9, <2>1, EnqueueStep DEF Resume
  <2>3. HandlerOK'
    BY <1>9, VisitStep DEF Resume, HandlerRecords
  <2> QED
    BY <1>9, <2>2, <2>3, Frame, Whole DEF Resume
<1>10. ASSUME NEW j \in Jobs, Skip(j)
       PROVE  IInv'
  <2>1. HandlerOK'
    BY <1>10, VisitStep DEF Skip, HandlerRecords
  <2> QED
    BY <1>10, <2>1, Frame, Whole DEF Skip
<1>11. ASSUME NEW j \in Jobs, Block(j)
       PROVE  IInv'
  <2>1. HandlerOK'
    BY <1>11, Parts DEF Block, HandlerOK, HandlerRecords
  <2>2. LockOK'
    BY <1>11, LockStep DEF Block
  <2> QED
    BY <1>11, <2>1, <2>2, Frame, Whole DEF Block
<1> QED
  BY <1>1, <1>2, <1>3, <1>4, <1>5, <1>6, <1>7, <1>8, <1>9, <1>10, <1>11 DEF RequestStep

(* A request that arrives only awaits the lock (handler). *)
LEMMA RequestKeeps ==
  ASSUME IInv, Request
  PROVE  IInv'
<1> USE HandlerFacts
<1>1. ASSUME NEW q \in HandlerRecords, Arrive(q), q.pc # "get" => q.job \in Jobs
      PROVE  IInv'
  <2>1. HandlerOK'
    BY <1>1 DEF Arrive, HandlerOK
  <2>2. LockOK'
    BY <1>1, LockStep DEF Arrive
  <2> QED
    BY <1>1, <2>1, <2>2, Frame, Whole DEF Arrive
<1>2. NoRequest \in HandlerRecords
  BY DEF NoRequest, HandlerRecords, BillStatuses
<1>3. ASSUME NEW j \in Jobs, Submit(j)
      PROVE  IInv'
  <2> DEFINE q == [NoRequest EXCEPT !.pc = "post", !.job = j]
  <2>1. q \in HandlerRecords /\ q.job \in Jobs
    BY <1>2 DEF HandlerRecords
  <2> QED
    BY <1>1, <1>3, <2>1 DEF Submit
<1>4. ASSUME NEW j \in Jobs, Cancel(j)
      PROVE  IInv'
  <2> DEFINE q == [NoRequest EXCEPT !.pc = "delete", !.job = j]
  <2>1. q \in HandlerRecords /\ q.job \in Jobs
    BY <1>2 DEF HandlerRecords
  <2> QED
    BY <1>1, <1>4, <2>1 DEF Cancel
<1>5. ASSUME NEW look \in SUBSET Jobs, Get(look)
      PROVE  IInv'
  <2> DEFINE q == [NoRequest EXCEPT !.pc = "get", !.todo = look]
  <2>1. q \in HandlerRecords /\ q.pc = "get"
    BY <1>2 DEF HandlerRecords
  <2> QED
    BY <1>1, <1>5, <2>1 DEF Get
<1> QED
  BY <1>3, <1>4, <1>5, JobsAssumption DEF Request

-------------------------------------------------------------------------------
(* The queue, the timers, the failed writes and the crash keep it too. *)

(* Draining fills free slots with the first items of the queue             *)
(* (drainGenerationQueue).                                                 *)
LEMMA DrainKeeps ==
  ASSUME IInv, Drain
  PROVE  IInv'
<1> DEFINE free == Runners \ Busy
           room == IF running < Cardinality(Runners)
                   THEN Cardinality(Runners) - running ELSE 0
           n == IF Len(items) < room THEN Len(items) ELSE room
<1>1. PICK slot \in Injection(1 .. n, free) :
        /\ run' = [ r \in Runners |->
                      IF \E i \in 1 .. n : slot[i] = r
                      THEN LET item == items[CHOOSE i \in 1 .. n : slot[i] = r]
                           IN  [ Idle EXCEPT !.pc = "read",
                                             !.job = item.job,
                                             !.task = item.task,
                                             !.resume = item.resume ]
                      ELSE run[r] ]
        /\ lock' = lock \o slot
        /\ items' = SubSeq(items, n + 1, Len(items))
        /\ running' = running + n
  BY DEF Drain
<1>2. /\ items \in Seq(Items) /\ Len(items) \in Nat /\ running \in Nat
      /\ lock \in Seq(Waiters)
  BY Parts DEF QueueOK, LockOK
<1>3. n \in Nat /\ n <= Len(items)
  <2>1. Cardinality(Runners) \in Nat
    BY JobsAssumption, FS_CardinalityType
  <2> QED
    BY <1>2, <2>1
<1> HIDE DEF n
<1>4. slot \in [1 .. n -> free]
  BY DEF Injection
<1>5. LockOK'
  <2>1. slot \in Seq(Waiters)
    BY <1>3, <1>4 DEF Waiters
  <2> QED
    BY <1>1, <1>2, <2>1, ConcatProperties DEF LockOK
<1>6. QueueOK'
  <2>1. \A i \in n + 1 .. Len(items) : items[i] \in Items
    BY <1>2, <1>3
  <2>2. SubSeq(items, n + 1, Len(items)) \in Seq(Items)
    BY <1>2, <1>3, <2>1, SubSeqProperties
  <2>3. drainDue' \in BOOLEAN
    BY DEF Drain
  <2>4. running' \in Nat
    <3>1. running' = running + n
      BY <1>1
    <3> QED
      BY <1>2, <1>3, <3>1
  <2>5. items' = SubSeq(items, n + 1, Len(items))
    BY <1>1
  <2> QED
    BY <2>2, <2>3, <2>4, <2>5 DEF QueueOK
<1>7. RunsOK'
  <2>1. ASSUME NEW r \in Runners, \E i \in 1 .. n : slot[i] = r
        PROVE  run'[r] \in RunRecords /\ run'[r].job \in Jobs
    <3> DEFINE i == CHOOSE i \in 1 .. n : slot[i] = r
    <3>1. i \in 1 .. Len(items)
      BY <1>2, <1>3, <2>1
    <3>2. items[i] \in Items
      BY <1>2, <3>1
    <3>3. Idle \in RunRecords
      BY DEF Idle, RunRecords, LockedSteps, OpenSteps, TaskStates,
             BillStatuses, Aborts, Errors
    <3>4. run'[r] = [ Idle EXCEPT !.pc = "read", !.job = items[i].job,
                                  !.task = items[i].task,
                                  !.resume = items[i].resume ]
      BY <1>1, <2>1
    <3> HIDE DEF i
    <3> QED
      BY <3>2, <3>3, <3>4 DEF RunRecords, Items, LockedSteps
  <2>2. ASSUME NEW r \in Runners, ~\E i \in 1 .. n : slot[i] = r
        PROVE  run'[r] = run[r]
    BY <1>1, <2>2
  <2>3. DOMAIN run' = Runners /\ run' = [r \in Runners |-> run'[r]]
    BY <1>1
  <2> QED
    BY <2>1, <2>2, <2>3, Parts DEF RunsOK
<1> QED
  BY <1>5, <1>6, <1>7, Frame, Whole DEF Drain

(* The write of the history and the timer of a job keep the invariant      *)
(* (writeHistoryRecordForJob, setTimeout).                                 *)
LEMMA TimersKeep ==
  ASSUME IInv, NEW r \in Runners, History(r) \/ Timeout(r)
  PROVE  IInv'
<1> USE RunnerFacts
<1>1. CASE History(r)
  <2>1. Job(r) \in Jobs
    BY <1>1 DEF History
  <2>2. RunsOK' /\ QueueOK' /\ ControllerOK'
    BY <1>1, <2>1, FinallyStep DEF History
  <2> QED
    BY <1>1, <2>2, Frame, Whole DEF History
<1>2. CASE Timeout(r)
  <2>1. RunsOK'
    BY <1>2, Parts DEF Timeout, RunsOK, RunRecords, Aborts
  <2> QED
    BY <1>2, <2>1, Frame, Whole DEF Timeout
<1> QED
  BY <1>1, <1>2

(* A failed write leaves the files as they were. *)
LEMMA FaultsKeep ==
  ASSUME IInv, (\E r \in Runners : RunnerFault(r)) \/ AcceptFails \/ RequestFault
  PROVE  IInv'
<1> USE RunnerFacts, HandlerFacts
<1>1. ASSUME faults < MaxFaults, faults' = faults + 1, UNCHANGED crashes
      PROVE  BoundsOK'
  BY <1>1, Parts, JobsAssumption DEF BoundsOK
<1>2. ASSUME NEW r \in Runners, RunnerFault(r)
      PROVE  IInv'
  <2>1. BoundsOK'
    BY <1>1, <1>2 DEF RunnerFault
  <2>2. run[r].pc # "idle" /\ Job(r) \in Jobs
    BY <1>2 DEF RunnerFault, LockedSteps
  <2>3. run[r].pc \in LockedSteps => Holds(r)
    BY <1>2 DEF RunnerFault
  <2>4. CASE /\ run' = Thrown(r, "upstream")
             /\ UNCHANGED << queueVars, controller >>
             /\ (run[r].pc \in LockedSteps /\ Reacquire(r)) \/ Await(r)
    <3>1. RunsOK'
      BY <2>2, <2>4, ThrownStep
    <3>2. LockOK'
      BY <2>3, <2>4, LockStep
    <3> QED
      BY <1>2, <2>1, <2>4, <3>1, <3>2, Frame, Whole DEF RunnerFault
  <2>5. CASE run[r].pc \in {"catch", "fail"} /\ Finally(r) /\ Release
    <3>1. RunsOK' /\ QueueOK' /\ ControllerOK'
      BY <2>2, <2>5, FinallyStep
    <3>2. LockOK'
      BY <2>3, <2>5, LockStep DEF LockedSteps
    <3> QED
      BY <1>2, <2>1, <3>1, <3>2, Frame, Whole DEF RunnerFault
  <2>6. CASE run[r].pc = "read" /\ Leave(r) /\ Release /\ UNCHANGED controller
    <3>1. RunsOK' /\ QueueOK'
      BY <2>6, LeaveStep
    <3>2. LockOK'
      BY <2>3, <2>6, LockStep DEF LockedSteps
    <3> QED
      BY <1>2, <2>1, <2>6, <3>1, <3>2, Frame, Whole DEF RunnerFault
  <2> QED
    BY <1>2, <2>4, <2>5, <2>6 DEF RunnerFault
<1>3. CASE AcceptFails
  <2>1. BoundsOK'
    BY <1>1, <1>3 DEF AcceptFails
  <2>2. BillingOK'
    BY <1>3, RefundStep DEF AcceptFails, AtRequest, HandlerRecords
  <2>3. LockOK'
    BY <1>3, LockStep DEF AcceptFails, AtRequest
  <2>4. HandlerOK'
    BY <1>3, AnswerStep DEF AcceptFails
  <2> QED
    BY <1>3, <2>1, <2>2, <2>3, <2>4, Frame, Whole DEF AcceptFails
<1>4. CASE RequestFault
  <2>1. BoundsOK'
    BY <1>1, <1>4 DEF RequestFault
  <2>2. LockOK'
    BY <1>4, LockStep DEF RequestFault
  <2>3. HandlerOK'
    BY <1>4, AnswerStep DEF RequestFault
  <2> QED
    BY <1>4, <2>1, <2>2, <2>3, Frame, Whole DEF RequestFault
<1> QED
  BY <1>2, <1>3, <1>4

(* What a service process starts with. *)
LEMMA FreshMemory ==
  /\ << >> \in Seq(Items) /\ << >> \in Seq(Waiters)
  /\ [j \in Jobs |-> NoRunner] \in [Jobs -> Runners \cup {NoRunner}]
  /\ Idle \in RunRecords /\ Idle.pc = "idle"
  /\ NoRequest \in HandlerRecords /\ NoRequest.pc = "idle"
  BY DEF Idle, RunRecords, LockedSteps, OpenSteps, TaskStates, BillStatuses,
         Aborts, Errors, NoRequest, HandlerRecords

(* A crash keeps the files and forgets the rest. *)
LEMMA CrashKeeps ==
  ASSUME IInv, Crash
  PROVE  IInv'
<1>1. RecordsOK'
  <2>1. PICK fresh : jobs' = [ j \in Jobs |->
           [ jobs[j] EXCEPT !.stale = /\ jobs[j].status \in ActiveStatuses
                                      /\ j \notin fresh ] ]
    BY DEF Crash
  <2>2. ASSUME NEW j \in Jobs, NEW b \in BOOLEAN
        PROVE  [jobs[j] EXCEPT !.stale = b] \in JobRecords
    BY Parts DEF RecordsOK, JobRecords
  <2>3. \A j \in Jobs : (jobs[j].status \in ActiveStatuses /\ j \notin fresh) \in BOOLEAN
    OBVIOUS
  <2> QED
    BY <2>1, <2>2, <2>3 DEF RecordsOK
<1>2. QueueOK' /\ ControllerOK' /\ RunsOK' /\ HandlerOK' /\ LockOK'
  BY FreshMemory DEF Crash, QueueOK, ControllerOK, RunsOK, HandlerOK, LockOK
<1>3. BoundsOK'
  BY Parts, JobsAssumption DEF Crash, BoundsOK
<1> QED
  BY <1>1, <1>2, <1>3, Frame, Whole DEF Crash

-------------------------------------------------------------------------------
(* The theorems. *)

(* In every behaviour of the service the files, the memory and the ledger  *)
(* hold what their types say, and every billing entry is in order: it      *)
(* never holds more outputs than ordered, and a refund leaves the price of *)
(* what was delivered.  Crashes, resumed videos, cancels and failed writes *)
(* included, for any number of jobs, prices and slots.                     *)
THEOREM Invariant == Spec => []IInv
<1>1. Init => IInv
  <2> SUFFICES ASSUME Init PROVE IInv
    OBVIOUS
  <2>1. jobs \in [Jobs -> JobRecords]
    BY DEF Init, NoRecord, JobRecords, BillStatuses
  <2>2. ledger \in [Jobs -> Entries] /\ LedgerOK
    BY NewEntry DEF Init, LedgerOK
  <2>3. /\ sent \in [Jobs -> Nat]
        /\ task \in [Jobs -> TaskStates]
        /\ crashes \in 0 .. MaxCrashes /\ faults \in 0 .. MaxFaults
        /\ balance \in Nat /\ running \in Nat
    BY JobsAssumption DEF Init, TaskStates
  <2>4. /\ items \in Seq(Items) /\ lock \in Seq(Runners \cup {Handler})
        /\ controller \in [Jobs -> Runners \cup {NoRunner}]
        /\ run \in [Runners -> RunRecords]
        /\ \A r \in Runners : run[r].pc # "idle" => run[r].job \in Jobs
        /\ handler \in HandlerRecords /\ handler.pc = "idle"
        /\ drainDue \in BOOLEAN
    BY FreshMemory DEF Init, Waiters
  <2> QED
    BY <2>1, <2>2, <2>3, <2>4 DEF IInv, TypeOK
<1>2. IInv /\ [Next]_vars => IInv'
  <2> SUFFICES ASSUME IInv, [Next]_vars PROVE IInv'
    OBVIOUS
  <2>1. CASE UNCHANGED vars
    BY <2>1, Frame, Whole DEF vars, ledgerVars, queueVars, world, bounds
  <2>2. CASE Next
    BY <2>2, RunnerStepKeeps, ProviderStepKeeps, RequestStepKeeps, RequestKeeps,
       DrainKeeps, TimersKeep, FaultsKeep, CrashKeeps DEF Next
  <2> QED
    BY <2>1, <2>2
<1> QED
  BY <1>1, <1>2, PTL DEF Spec

(* The type invariant of the model. *)
THEOREM TypeCorrect == Spec => []TypeOK
<1>1. IInv => TypeOK
  BY DEF IInv
<1> QED
  BY <1>1, Invariant, PTL

(* No sequence of deliveries, failures, cancels, resumptions and crashes   *)
(* ever leaves a platform job charged less than the price of the outputs   *)
(* it delivered (reserveCredits, recordGenerationOutput, refundCredits).   *)
THEOREM DeliveredIsPaid == Spec => []KeptCoversDelivered
<1>1. IInv => KeptCoversDelivered
  <2> SUFFICES ASSUME IInv, NEW j \in Jobs, ledger[j].open, Source[j] = "platform"
               PROVE  Amount(j) - ledger[j].back
                        >= Cardinality(ledger[j].delivered) * Unit[j]
    BY DEF KeptCoversDelivered
  <2> DEFINE e == ledger[j]
             kept == Cardinality(e.delivered) * Unit[j]
  <2>1. e \in Entries /\ EntryOK(j, e)
    BY Parts DEF BillingOK, LedgerOK
  <2>2. kept \in Nat /\ kept <= Amount(j) /\ Amount(j) \in Nat
    BY <2>1, DeliveredWithinAmount, AmountType
  <2>3. e.back \in Nat
    BY <2>1 DEF Entries
  <2>4. CASE ~e.refunded
    BY <2>1, <2>2, <2>4 DEF EntryOK
  <2>5. CASE e.refunded
    BY <2>1, <2>2, <2>3, <2>5 DEF EntryOK
  <2> QED
    BY <2>4, <2>5
<1> QED
  BY <1>1, Invariant, PTL

-------------------------------------------------------------------------------
(* The other safety properties: the inductive invariant that they need, in *)
(* parts, and the proof that every step keeps it.                          *)

(* The price of what the entry of a job says was delivered. *)
Kept(j, e) == Cardinality(e.delivered) * Unit[j]

(* What every call of the service leaves in an entry: only billed jobs     *)
(* have one, a refund settles it, and a settled one accounts for the whole *)
(* amount.                                                                 *)
EntryFull(j, e) ==
  /\ EntryOK(j, e)
  /\ e.open => Billed(j) /\ Recorded(j)
  /\ e.settled => e.open /\ Source[j] = "platform" /\ e.back + Kept(j, e) = Amount(j)
  /\ Source[j] = "platform" /\ e.refunded => e.settled
  /\ Source[j] # "platform" /\ e.refunded => e.back = Amount(j)

(* What a billing status claims of the entry of a billed job. *)
Claim(j, bill, e) ==
  Billed(j) =>
    /\ bill # "none"
    /\ bill = "refunded" => e.back = Amount(j)
    /\ Source[j] = "platform" =>
         /\ bill = "partially_refunded" => e.back \in 1 .. Amount(j) - 1
         /\ bill = "charged" => e.settled /\ e.back = 0

(* Nothing is left to give back. *)
Closed(j, e) ==
  IF Source[j] = "platform" THEN Amount(j) = 0 \/ e.settled ELSE e.back = Amount(j)

(* A job, its record, its entry and its requests. *)
JobOK(j, rec, e, n) ==
  /\ n <= Requests(j)
  /\ rec.status = "absent" => n = 0
  /\ rec.status # "absent" => Claim(j, rec.bill, e)
  /\ rec.status # "absent" /\ Billed(j) /\ Recorded(j) => e.open
  /\ rec.status = "succeeded" /\ Source[j] = "platform" /\ Amount(j) > 0
       => 1 .. Count[j] \subseteq e.delivered /\ (e.settled \/ rec.bill = "unknown")

(* A busy runner: where it may be, what it has sent, what it has paid. *)
Placed(f) ==
  /\ f.job \in Jobs
  /\ f.resume => f.job \in Video /\ f.pc \notin {"gateway", "calling"}
  /\ f.pc \in {"tracked", "polling", "polled", "retry"} => f.job \in Video
  /\ f.pc \in {"read", "start"} => f.out = 0
  /\ f.pc = "stored" => f.out >= 1
  /\ f.pc = "finish" => f.out >= Count[f.job]
OneRequest == Video \cup Batch
Ordered(f, n) ==
  ~f.resume =>
    /\ f.pc \in {"read", "start"} => n = 0
    /\ f.pc = "gateway" => IF f.job \in OneRequest THEN n = 0
                           ELSE n <= f.out /\ f.out < Count[f.job]
    /\ f.job \notin OneRequest /\ f.pc \in {"calling", "saving", "storing"}
         => n <= f.out + 1 /\ f.out < Count[f.job]
    /\ f.job \notin OneRequest /\ f.pc = "stored" => n <= f.out
Paid(f, e) ==
  /\ Source[f.job] = "platform" => 1 .. f.out \subseteq e.delivered
  /\ f.pc \notin {"read", "start", "catch"} => Claim(f.job, f.bill, e)
  /\ f.pc = "finish" /\ Source[f.job] = "platform" /\ Amount(f.job) > 0
       => e.settled \/ f.bill = "unknown"
  /\ f.pc = "fail" /\ f.final = "failed" /\ Billed(f.job) => Closed(f.job, e)
Current(f, rec) ==
  /\ rec.status # "absent"
  /\ ~f.resume => ~rec.stale
RunnerOK(f, rec, e, n) ==
  f.pc # "idle" => Placed(f) /\ Ordered(f, n) /\ Paid(f, e) /\ Current(f, rec)

(* A job that was never dispatched. *)
Pristine(j) ==
  /\ jobs[j].status = "queued"
  /\ ~jobs[j].stale
  /\ jobs[j].bill = FirstBill(j)
  /\ Billed(j) => ledger[j] = Reserved(j)
  /\ sent[j] = 0

(* A job that nothing in memory stands for, refunded and never sent. *)
Dead(j) ==
  /\ \A r \in Busy : Job(r) # j
  /\ ~Queued(j)
  /\ sent[j] = 0
  /\ Billed(j) /\ Recorded(j) => ledger[j].back = Amount(j)

EntriesFull == \A j \in Jobs : EntryFull(j, ledger[j])
JobsOK == \A j \in Jobs : JobOK(j, jobs[j], ledger[j], sent[j])
RunnersOK ==
  \A r \in Runners :
    RunnerOK(run[r], jobs[Job(r)], ledger[Job(r)], sent[Job(r)])

(* A first run of a job is the only one. *)
FirstRunAlone ==
  \A r, s \in Busy :
    Job(r) = Job(s) /\ ~run[r].resume /\ ~run[s].resume => r = s
ControllersOK ==
  \A j \in Jobs :
    controller[j] # NoRunner
      => /\ controller[j] \in Busy
         /\ Job(controller[j]) = j
         /\ run[controller[j]].pc # "read"

(* An item of the queue. *)
ItemsOK ==
  \A i \in DOMAIN items :
    LET j == items[i].job
    IN  /\ jobs[j].status # "absent"
        /\ items[i].resume => j \in Video
        /\ ~items[i].resume =>
             /\ Pristine(j)
             /\ \A k \in DOMAIN items : items[k].job = j => k = i
             /\ \A r \in Busy : Job(r) # j

(* The request in progress. *)
Unstarted(j) == \E i \in DOMAIN items : items[i].job = j /\ ~items[i].resume
Followed(j) == j \in Video /\ jobs[j].status # "absent" /\ ~Unstarted(j)
WriteOK ==
  handler.pc = "write" =>
    LET j == handler.job
    IN  /\ Holds(Handler)
        /\ jobs[j].status = "absent"
        /\ handler.bill = FirstBill(j)
        /\ Billed(j) => ledger[j] = Reserved(j)
        /\ \A k \in Jobs : k # j /\ Fingerprint[k] = Fingerprint[j]
                             => jobs[k].status \notin ActiveStatuses
CancelOK ==
  handler.pc = "cancel" =>
    LET j == handler.job
    IN  /\ jobs[j].status # "absent"
        /\ ~Unstarted(j)
        /\ Claim(j, handler.bill, ledger[j])
        /\ handler.final = "canceled" /\ j \notin Video => Dead(j)
RecoverOK ==
  /\ handler.pc \in {"recover", "block"} => \A j \in handler.todo : Followed(j)
  /\ handler.pc = "block" => Followed(handler.job)
RequestOK == WriteOK /\ CancelOK /\ RecoverOK

CanceledOK == \A j \in Jobs \ Video : jobs[j].status = "canceled" => Dead(j)

(* While no process has crashed, and no write has failed. *)
Unrefunded(j) ==
  jobs[j].status = "failed" /\ Billed(j) /\ ~Closed(j, ledger[j])
FailedOK ==
  crashes = 0 /\ faults = 0 =>
    \A j \in Jobs : Unrefunded(j) => \E r \in At(j) : run[r].pc \in {"catch", "fail"}
ChargedOK == crashes = 0 => ChargeHasJob

SInv ==
  /\ EntriesFull /\ JobsOK /\ RunnersOK /\ FirstRunAlone /\ ControllersOK
  /\ ItemsOK /\ RequestOK /\ CanceledOK /\ FailedOK /\ ChargedOK

-------------------------------------------------------------------------------
(* The billing entry: what each call of the service makes of it. *)

(* What no call takes back from an entry. *)
Grows(e, d) ==
  /\ e.open => d.open
  /\ e.delivered \subseteq d.delivered
  /\ e.settled => d.settled
  /\ e.settled \/ e.back > 0 => d.back = e.back

(* An entry in order keeps between nothing and the amount, and has given   *)
(* nothing back when it has delivered the whole order (refundCredits).     *)
LEMMA EntryBounds ==
  ASSUME NEW j \in Jobs, NEW e \in Entries, EntryFull(j, e)
  PROVE  /\ e.back \in Nat /\ e.back <= Amount(j)
         /\ Kept(j, e) \in Nat /\ Kept(j, e) <= Amount(j)
         /\ e.back > 0 => e.refunded
         /\ 1 .. Count[j] \subseteq e.delivered
              => /\ e.delivered = 1 .. Count[j]
                 /\ Kept(j, e) = Amount(j)
                 /\ Source[j] = "platform" => e.back = 0
<1>1. EntryOK(j, e) /\ e.back \in Nat /\ Amount(j) \in Nat
  BY AmountType DEF EntryFull, Entries
<1>2. Kept(j, e) \in Nat /\ Kept(j, e) <= Amount(j)
  BY <1>1, DeliveredWithinAmount DEF Kept
<1>3. e.back > 0 => e.refunded
  BY <1>1 DEF EntryOK
<1>4. Source[j] = "platform" => e.back + Kept(j, e) <= Amount(j)
  BY <1>1, <1>2 DEF EntryOK, Kept
<1>5. e.back <= Amount(j)
  BY <1>1, <1>2, <1>3, <1>4 DEF EntryFull
<1>6. ASSUME 1 .. Count[j] \subseteq e.delivered
      PROVE  e.delivered = 1 .. Count[j] /\ Kept(j, e) = Amount(j)
  <2>1. Count[j] \in Nat \ {0} /\ Amount(j) = Count[j] * Unit[j]
    BY AmountType
  <2>2. Cardinality(1 .. Count[j]) = Count[j]
    BY <2>1, FS_Interval
  <2>3. IsFiniteSet(e.delivered) /\ Cardinality(e.delivered) <= Count[j]
    BY <1>1 DEF EntryOK
  <2>4. /\ Cardinality(1 .. Count[j]) <= Cardinality(e.delivered)
        /\ Cardinality(e.delivered) = Cardinality(1 .. Count[j])
             => e.delivered = 1 .. Count[j]
    BY <1>6, <2>3, FS_Subset
  <2>5. Cardinality(e.delivered) \in Nat
    BY <2>3, FS_CardinalityType
  <2>6. Cardinality(e.delivered) = Count[j]
    BY <2>1, <2>2, <2>3, <2>4, <2>5
  <2> QED
    BY <2>1, <2>2, <2>4, <2>6 DEF Kept
<1> QED
  BY <1>1, <1>2, <1>3, <1>4, <1>5, <1>6

(* A claim about an entry that is in order stays true of what any call     *)
(* leaves of it, and so does a closed account.                             *)
LEMMA ClaimKept ==
  ASSUME NEW j \in Jobs, NEW e \in Entries, NEW d \in Entries,
         EntryFull(j, e), EntryFull(j, d), Grows(e, d), NEW b
  PROVE  /\ Claim(j, b, e) => Claim(j, b, d)
         /\ Closed(j, e) => Closed(j, d)
         /\ e.back = Amount(j) => d.back = Amount(j)
<1>1. /\ e.back \in Nat /\ d.back \in Nat /\ Amount(j) \in Nat
      /\ d.back <= Amount(j)
  BY EntryBounds, AmountType
<1>2. e.back = Amount(j) => d.back = Amount(j)
  BY <1>1 DEF Grows
<1>3. e.back > 0 => d.back = e.back
  BY DEF Grows
<1>4. e.settled => d.settled /\ d.back = e.back
  BY DEF Grows
<1> QED
  BY <1>1, <1>2, <1>3, <1>4 DEF Claim, Closed

(* Nothing happens to an entry that no call touches, and little to one     *)
(* whose task is attached (attachGenerationTask).                          *)
LEMMA SameEntry ==
  ASSUME NEW j \in Jobs, NEW e \in Entries, EntryFull(j, e), NEW t \in Nat
  PROVE  /\ Grows(e, e)
         /\ Attached(e, t) \in Entries
         /\ EntryFull(j, Attached(e, t))
         /\ Grows(e, Attached(e, t))
<1>1. Attached(e, t) \in Entries /\ EntryOK(j, Attached(e, t))
  BY AttachSettle DEF EntryFull
<1>2. /\ Attached(e, t).open = e.open
      /\ Attached(e, t).delivered = e.delivered
      /\ Attached(e, t).settled = e.settled
      /\ Attached(e, t).refunded = e.refunded
      /\ Attached(e, t).back = e.back
  BY DEF Attached, Entries
<1> QED
  BY <1>1, <1>2 DEF EntryFull, Grows, Kept

(* An entry that accepts an output is open to it (recordGenerationOutput). *)
LEMMA OutputEntry ==
  ASSUME NEW j \in Jobs, NEW e \in Entries, EntryFull(j, e), NEW o \in Nat,
         CanRecord(j, e, o)
  PROVE  /\ RecordedOutput(e, o) \in Entries
         /\ EntryFull(j, RecordedOutput(e, o))
         /\ Grows(e, RecordedOutput(e, o))
         /\ RecordedOutput(e, o).delivered = e.delivered \cup {o}
<1> DEFINE d == RecordedOutput(e, o)
<1>1. d \in Entries /\ EntryOK(j, d)
  BY RecordOutput DEF EntryFull
<1>2. /\ d.open = e.open
      /\ d.delivered = e.delivered \cup {o}
      /\ d.settled = e.settled
      /\ d.refunded = e.refunded
      /\ d.back = e.back
  BY DEF RecordedOutput, Entries
<1>3. ~e.settled
  BY DEF CanRecord, Chargeable
<1> QED
  BY <1>1, <1>2, <1>3 DEF EntryFull, Grows

(* A charge may settle an entry that accounts for its whole amount         *)
(* (settleGenerationCharge).                                               *)
LEMMA SettleFull ==
  ASSUME NEW j \in Jobs, NEW e \in Entries, EntryOK(j, e),
         e.open => Billed(j) /\ Recorded(j),
         e.settled => e.open /\ Source[j] = "platform",
         e.open /\ Source[j] = "platform" => e.back + Kept(j, e) = Amount(j),
         Source[j] = "platform" /\ e.refunded => e.open,
         Source[j] # "platform" /\ e.refunded => e.back = Amount(j)
  PROVE  /\ SettledEntry(j, e) \in Entries
         /\ EntryFull(j, SettledEntry(j, e))
         /\ Grows(e, SettledEntry(j, e))
         /\ e.open /\ Source[j] = "platform" => SettledEntry(j, e).settled
         /\ SettledEntry(j, e).back = e.back
         /\ SettledEntry(j, e).open = e.open
<1> DEFINE d == SettledEntry(j, e)
<1>1. d \in Entries /\ EntryOK(j, d)
  BY AttachSettle
<1>2. /\ d.open = e.open
      /\ d.delivered = e.delivered
      /\ d.settled = (e.settled \/ (e.open /\ Source[j] = "platform"))
      /\ d.refunded = e.refunded
      /\ d.back = e.back
  BY DEF SettledEntry, Entries
<1> QED
  BY <1>1, <1>2 DEF EntryFull, Grows, Kept

(* A refund of an entry that is not settled gives back what was not        *)
(* delivered and closes it (refundCredits, settleGenerationCharge).        *)
LEMMA RefundFull ==
  ASSUME NEW j \in Jobs, NEW e \in Entries, EntryFull(j, e),
         ~(Source[j] = "platform" /\ e.settled)
  PROVE  LET d == SettledEntry(j, RefundedEntry(j, e))
         IN  /\ d \in Entries /\ EntryFull(j, d) /\ Grows(e, d)
             /\ d.back = RefundedEntry(j, e).back
             /\ d.back = e.back + RefundPaid(j, e)
             /\ e.open /\ Amount(j) > 0 => Closed(j, d)
             /\ e.open /\ Source[j] = "platform" => d.settled
<1> DEFINE f == RefundedEntry(j, e)
           d == SettledEntry(j, f)
           kept == Cardinality(e.delivered) * Unit[j]
<1>1. /\ EntryOK(j, e) /\ e.back \in Nat /\ Amount(j) \in Nat
      /\ kept \in Nat /\ kept <= Amount(j) /\ kept = Kept(j, e)
  BY EntryBounds, AmountType DEF EntryFull, Entries, Kept
<1>2. f \in Entries /\ EntryOK(j, f)
  BY <1>1, RefundEntry
<1>3. /\ f.open = e.open
      /\ f.delivered = e.delivered
      /\ f.settled = e.settled
      /\ f.refunded = (e.refunded \/ RefundPaid(j, e) > 0)
      /\ f.back = IF RefundPaid(j, e) > 0 THEN RefundPaid(j, e) ELSE e.back
  BY DEF RefundedEntry, Entries
<1>4. ~e.refunded => e.back = 0
  BY <1>1 DEF EntryOK
<1>5. RefundPaid(j, e) \in Nat
  BY <1>1, RefundBounds
<1>6. f.back = e.back + RefundPaid(j, e)
  BY <1>1, <1>3, <1>4, <1>5 DEF RefundPaid
<1>7. Source[j] = "platform" => ~e.settled /\ ~e.refunded
  BY DEF EntryFull
<1>8. e.open /\ Source[j] = "platform" => f.back + Kept(j, f) = Amount(j)
  <2> SUFFICES ASSUME e.open, Source[j] = "platform"
               PROVE  f.back + kept = Amount(j)
    BY <1>3 DEF Kept
  <2>1. RefundPaid(j, e) = IF kept < Amount(j) THEN Amount(j) - kept ELSE 0
    BY <1>7 DEF RefundPaid, Refundable
  <2> QED
    BY <1>1, <1>4, <1>6, <1>7, <2>1
<1>9. e.open /\ Source[j] # "platform" => f.back = Amount(j)
  <2> SUFFICES ASSUME e.open, Source[j] # "platform"
               PROVE  f.back = Amount(j)
    OBVIOUS
  <2>1. e.refunded => e.back = Amount(j)
    BY DEF EntryFull
  <2>2. RefundPaid(j, e) = IF e.refunded THEN 0 ELSE Amount(j)
    BY DEF RefundPaid, Refundable
  <2> QED
    BY <1>1, <1>4, <1>6, <2>1, <2>2
<1>10. ~e.open => RefundPaid(j, e) = 0
  BY DEF RefundPaid, Refundable
<1>11. /\ f.open => Billed(j) /\ Recorded(j)
       /\ f.settled => f.open /\ Source[j] = "platform"
       /\ Source[j] = "platform" /\ f.refunded => f.open
       /\ Source[j] # "platform" /\ f.refunded => f.back = Amount(j)
  <2>1. e.refunded => RefundPaid(j, e) = 0
    BY DEF RefundPaid
  <2>2. RefundPaid(j, e) > 0 => e.open
    BY <1>5, <1>10
  <2>3. Source[j] # "platform" /\ f.refunded => f.back = Amount(j)
    <3>1. CASE e.refunded
      BY <1>3, <1>5, <2>1, <3>1 DEF EntryFull
    <3>2. CASE ~e.refunded
      BY <1>3, <1>9, <2>2, <3>2
    <3> QED
      BY <3>1, <3>2
  <2>4. Source[j] = "platform" /\ f.refunded => f.open
    BY <1>3, <1>7, <2>2
  <2> QED
    BY <1>3, <1>7, <2>3, <2>4 DEF EntryFull
<1>12. /\ d \in Entries /\ EntryFull(j, d) /\ Grows(f, d)
       /\ d.back = f.back /\ d.open = f.open
       /\ f.open /\ Source[j] = "platform" => d.settled
  BY <1>2, <1>3, <1>8, <1>11, SettleFull
<1>13. Grows(e, d)
  <2>1. e.back > 0 => RefundPaid(j, e) = 0
    BY <1>1, <1>4 DEF RefundPaid
  <2>2. e.settled => RefundPaid(j, e) = 0
    BY <1>7 DEF EntryFull
  <2> QED
    BY <1>1, <1>3, <1>5, <1>6, <1>12, <2>1, <2>2 DEF Grows
<1>14. e.open /\ Amount(j) > 0 => Closed(j, d)
  BY <1>3, <1>9, <1>12 DEF Closed
<1> QED
  BY <1>3, <1>6, <1>12, <1>13, <1>14

-------------------------------------------------------------------------------
(* The records, and what a read or an update leaves in them. *)

(* A read changes a record only by giving up an orphan: a job of an        *)
(* earlier process that is not in the queue (normalizeJobs).               *)
LEMMA ReadFacts ==
  ASSUME IInv, NEW j \in Jobs
  PROVE  /\ jobs[j] \in JobRecords /\ Read[j] \in JobRecords
         /\ \/ Read[j] = jobs[j]
            \/ /\ jobs[j].status \in ActiveStatuses /\ jobs[j].stale /\ ~Queued(j)
               /\ Read[j].status = "unknown" /\ ~Read[j].stale
               /\ Read[j].bill = MarkedUnknown(j, jobs[j].bill)
<1>1. jobs[j] \in JobRecords /\ Read[j] \in JobRecords
  BY Parts, ReadType DEF RecordsOK
<1>2. CASE Orphaned(j)
  <2>1. Read[j] = [ jobs[j] EXCEPT !.status = "unknown",
                                   !.bill = MarkedUnknown(j, jobs[j].bill),
                                   !.stale = FALSE ]
    BY <1>2 DEF Read
  <2> QED
    BY <1>1, <1>2, <2>1 DEF Orphaned, InMemory, JobRecords
<1>3. CASE ~Orphaned(j)
  BY <1>1, <1>3 DEF Read
<1> QED
  BY <1>2, <1>3

(* A claim of `unknown' or `disabled' claims nothing of the entry.         *)
LEMMA UnknownClaims ==
  ASSUME NEW j \in Jobs, NEW b, NEW e, NEW d, Claim(j, b, e)
  PROVE  Claim(j, MarkedUnknown(j, b), d)
  BY DEF Claim, MarkedUnknown

(* A job stays in order when its record is read, when its entry grows,     *)
(* and when its record moves to another stage with a bill that is true.    *)
LEMMA JobKept ==
  ASSUME NEW j \in Jobs, NEW rec, NEW e \in Entries, NEW d \in Entries,
         NEW n \in Nat, NEW m \in Nat, JobOK(j, rec, e, n),
         EntryFull(j, e), EntryFull(j, d), Grows(e, d),
         m <= Requests(j), rec.status = "absent" => m = n
  PROVE  JobOK(j, rec, d, m)
<1>1. Claim(j, rec.bill, e) => Claim(j, rec.bill, d)
  BY ClaimKept
<1> QED
  BY <1>1 DEF JobOK, Grows

LEMMA JobRead ==
  ASSUME IInv, NEW j \in Jobs, NEW e, NEW n, JobOK(j, jobs[j], e, n)
  PROVE  /\ JobOK(j, Read[j], e, n)
         /\ Read[j].status = "absent" <=> jobs[j].status = "absent"
         /\ Read[j].stale => jobs[j].stale
         /\ Read[j].status \in ActiveStatuses => Read[j] = jobs[j]
         /\ ~jobs[j].stale \/ Queued(j) => Read[j] = jobs[j]
         /\ \A s \in {"failed", "canceled", "succeeded"} :
              Read[j].status = s => Read[j] = jobs[j]
         /\ jobs[j].status \notin ActiveStatuses => Read[j] = jobs[j]
<1>1. CASE Read[j] = jobs[j]
  BY <1>1
<1>2. CASE /\ jobs[j].status \in ActiveStatuses /\ jobs[j].stale /\ ~Queued(j)
           /\ Read[j].status = "unknown" /\ ~Read[j].stale
           /\ Read[j].bill = MarkedUnknown(j, jobs[j].bill)
  <2>1. Claim(j, jobs[j].bill, e) => Claim(j, Read[j].bill, e)
    BY <1>2, UnknownClaims
  <2> QED
    BY <1>2, <2>1 DEF JobOK, ActiveStatuses
<1> QED
  BY <1>1, <1>2, ReadFacts

(* The record that a runner or a request writes. *)
LEMMA WrittenRecord ==
  ASSUME IInv, NEW j \in Jobs, NEW s \in Statuses, NEW b \in BillStatuses
  PROVE  /\ Updated(j, s, b)[j].status = s
         /\ Updated(j, s, b)[j].bill = b
         /\ Updated(j, s, b)[j].task = Read[j].task
         /\ ~Updated(j, s, b)[j].stale
         /\ \A k \in Jobs \ {j} : Updated(j, s, b)[k] = Read[k]
         /\ Staged(j, s) = Updated(j, s, Read[j].bill)
         /\ Read[j].bill \in BillStatuses
<1>1. Read \in [Jobs -> JobRecords]
  BY Parts, ReadType
<1>2. Read[j].bill \in BillStatuses
  BY <1>1 DEF JobRecords
<1>3. Updated(j, s, b)[j] = [ Read[j] EXCEPT !.status = s, !.bill = b, !.stale = FALSE ]
  BY <1>1 DEF Updated
<1>4. \A k \in Jobs \ {j} : Updated(j, s, b)[k] = Read[k]
  BY <1>1 DEF Updated
<1> QED
  BY <1>1, <1>2, <1>3, <1>4 DEF JobRecords, Staged

LEMMA JobWritten ==
  ASSUME NEW j \in Jobs, NEW rec, NEW old, NEW e, NEW n, JobOK(j, old, e, n),
         old.status # "absent", rec.status \notin {"absent", "succeeded"},
         Claim(j, rec.bill, e)
  PROVE  JobOK(j, rec, e, n)
  BY DEF JobOK

-------------------------------------------------------------------------------
(* What a step of a runner may do, and that it then keeps the invariant.   *)

MoveFrame(r) ==
  /\ run[r].pc # "idle"
  /\ \A s \in Runners \ {r} : run'[s] = run[s]
  /\ run'[r].pc # "idle" => run'[r].job = Job(r) /\ run'[r].resume = run[r].resume
  /\ \A k \in Jobs \ {Job(r)} :
       /\ jobs'[k] = jobs[k] \/ jobs'[k] = Read[k]
       /\ ledger'[k] = ledger[k] /\ sent'[k] = sent[k]
  /\ UNCHANGED << items, handler, crashes >>
  /\ faults' = 0 => faults = 0
MoveEntry(r) ==
  LET j == Job(r)
  IN  /\ EntryFull(j, ledger'[j]) /\ Grows(ledger[j], ledger'[j])
      /\ run[r].resume => sent'[j] = sent[j]
MoveRecord(r) ==
  LET j == Job(r)
  IN  /\ JobOK(j, jobs'[j], ledger'[j], sent'[j])
      /\ jobs'[j].status # "absent"
      /\ jobs'[j].stale => jobs[j].stale
      /\ jobs'[j].status = "canceled" => jobs[j].status = "canceled"
      /\ jobs'[j].status = "failed" /\ Billed(j) /\ faults' = 0
           => \/ Closed(j, ledger'[j])
              \/ run'[r].pc \in {"catch", "fail"}
              \/ jobs[j].status = "failed" /\ run[r].pc \notin {"catch", "fail"}
MoveRun(r) ==
  RunnerOK(run'[r], jobs'[Job(r)], ledger'[Job(r)], sent'[Job(r)])
MoveController(r) ==
  \A k \in Jobs :
    \/ /\ controller'[k] = controller[k]
       /\ controller[k] = r => run'[r].pc \notin {"idle", "read"}
    \/ controller'[k] = NoRunner
    \/ k = Job(r) /\ controller'[k] = r /\ run'[r].pc \notin {"idle", "read"}
MoveLock == handler.pc = "write" => Holds(Handler)' /\ UNCHANGED jobs

(* What a runner's step starts from. *)
LEMMA SafetyFacts ==
  ASSUME IInv, SInv
  PROVE  /\ \A j \in Jobs : /\ ledger[j] \in Entries /\ EntryFull(j, ledger[j])
                            /\ sent[j] \in Nat
                            /\ JobOK(j, jobs[j], ledger[j], sent[j])
         /\ \A r \in Busy :
              /\ r \in Runners /\ Job(r) \in Jobs
              /\ Placed(run[r]) /\ Ordered(run[r], sent[Job(r)])
              /\ Paid(run[r], ledger[Job(r)]) /\ Current(run[r], jobs[Job(r)])
         /\ \A i \in DOMAIN items : items[i].job \in Jobs
<1>1. /\ ledger \in [Jobs -> Entries] /\ sent \in [Jobs -> Nat]
      /\ \A r \in Runners : run[r].pc # "idle" => run[r].job \in Jobs
      /\ items \in Seq(Items)
  BY Parts DEF BillingOK, WorldOK, RunsOK, QueueOK
<1>2. ASSUME NEW i \in DOMAIN items PROVE items[i].job \in Jobs
  <2>1. items[i] \in Items
    BY <1>1
  <2> QED
    BY <2>1 DEF Items
<1> QED
  BY <1>1, <1>2 DEF SInv, EntriesFull, JobsOK, RunnersOK, RunnerOK, Busy, Job

(* A dead job stays dead: no runner has it. *)
LEMMA DeadKept ==
  ASSUME IInv, SInv, NEW r \in Runners, MoveFrame(r), NEW k \in Jobs, Dead(k)
  PROVE  k # Job(r) /\ Dead(k)'
<1>1. r \in Busy
  BY DEF MoveFrame, Busy
<1>2. k # Job(r)
  BY <1>1 DEF Dead
<1>3. \A s \in Runners : s \in Busy' => s \in Busy /\ run'[s].job = run[s].job
  BY <1>1 DEF MoveFrame, Busy, Job
<1>4. Queued(k)' <=> Queued(k)
  BY DEF MoveFrame, Queued
<1>5. \A s \in Busy' : s \in Runners
  BY DEF Busy
<1> QED
  BY <1>2, <1>3, <1>4, <1>5 DEF Dead, MoveFrame, Job

(* The other records: a read may only give a job up. *)
LEMMA OtherRecords ==
  ASSUME IInv, SInv, NEW r \in Runners, MoveFrame(r), MoveRecord(r),
         NEW k \in Jobs
  PROVE  /\ jobs'[k].status = "absent" <=> jobs[k].status = "absent"
         /\ jobs'[k].stale => jobs[k].stale
         /\ k # Job(r) =>
              /\ JobOK(k, jobs'[k], ledger[k], sent[k])
              /\ ~jobs[k].stale \/ Queued(k) => jobs'[k] = jobs[k]
              /\ \A s \in {"failed", "canceled"} :
                   jobs'[k].status = s => jobs'[k] = jobs[k]
<1>1. r \in Busy
  BY DEF MoveFrame, Busy
<1>2. jobs[Job(r)].status # "absent"
  BY <1>1, SafetyFacts DEF Current
<1>3. CASE k = Job(r)
  BY <1>2, <1>3 DEF MoveRecord
<1>4. CASE k # Job(r)
  <2>1. jobs'[k] = jobs[k] \/ jobs'[k] = Read[k]
    BY <1>4 DEF MoveFrame
  <2>2. JobOK(k, jobs[k], ledger[k], sent[k])
    BY SafetyFacts
  <2> QED
    BY <1>4, <2>1, <2>2, JobRead
<1> QED
  BY <1>3, <1>4

(* A move of a runner keeps the books, the jobs and the runners in order. *)
LEMMA MoveKeepsRuns ==
  ASSUME IInv, IInv', SInv, NEW r \in Runners, MoveFrame(r), MoveEntry(r),
         MoveRecord(r), MoveRun(r), MoveController(r)
  PROVE  EntriesFull' /\ JobsOK' /\ RunnersOK' /\ FirstRunAlone' /\ ControllersOK'
<1> DEFINE j == Job(r)
<1>1. r \in Busy /\ j \in Jobs
  BY SafetyFacts DEF MoveFrame, Busy
<1>2. EntriesFull'
  <2> SUFFICES ASSUME NEW k \in Jobs PROVE EntryFull(k, ledger'[k])
    BY DEF EntriesFull
  <2> QED
    BY SafetyFacts DEF MoveEntry, MoveFrame
<1>3. JobsOK'
  <2> SUFFICES ASSUME NEW k \in Jobs
               PROVE  JobOK(k, jobs'[k], ledger'[k], sent'[k])
    BY DEF JobsOK
  <2> QED
    BY OtherRecords DEF MoveRecord, MoveFrame
<1>4. \A s \in Runners : s \in Busy' => /\ s \in Busy /\ run'[s].job = run[s].job
                                        /\ run'[s].resume = run[s].resume
  BY <1>1 DEF MoveFrame, Busy, Job
<1>5. RunnersOK'
  <2> SUFFICES ASSUME NEW s \in Runners, run'[s].pc # "idle"
               PROVE  LET k == run'[s].job
                      IN  RunnerOK(run'[s], jobs'[k], ledger'[k], sent'[k])
    BY DEF RunnersOK, RunnerOK, Job
  <2> DEFINE k == run[s].job
  <2>1. CASE s = r
    BY <2>1 DEF MoveRun, MoveFrame
  <2>2. CASE s # r
    <3>1. run'[s] = run[s] /\ s \in Busy /\ k \in Jobs
      BY <2>2, SafetyFacts DEF MoveFrame, Busy, Job
    <3>2. Placed(run[s]) /\ Ordered(run[s], sent[k]) /\ Paid(run[s], ledger[k])
      BY <3>1, SafetyFacts DEF Job
    <3>3. Current(run[s], jobs[k])
      BY <3>1, SafetyFacts DEF Job
    <3>4. Current(run[s], jobs'[k])
      BY <3>1, <3>3, OtherRecords DEF Current
    <3>5. Ordered(run[s], sent'[k])
      <4>1. CASE k # j
        BY <3>1, <3>2, <4>1 DEF MoveFrame
      <4>2. CASE k = j /\ run[s].resume
        BY <4>2 DEF Ordered
      <4>3. CASE k = j /\ ~run[s].resume
        <5>1. run[r].resume
          BY <1>1, <2>2, <3>1, <4>3 DEF SInv, FirstRunAlone, Job
        <5> QED
          BY <3>2, <4>3, <5>1 DEF MoveEntry
      <4> QED
        BY <4>1, <4>2, <4>3
    <3>6. Paid(run[s], ledger'[k])
      <4>1. CASE k # j
        BY <3>1, <3>2, <4>1 DEF MoveFrame
      <4>2. CASE k = j
        <5>1. /\ ledger[j] \in Entries /\ EntryFull(j, ledger[j])
              /\ EntryFull(j, ledger'[j]) /\ Grows(ledger[j], ledger'[j])
          BY <1>1, SafetyFacts DEF MoveEntry
        <5>2. ledger'[j] \in Entries
          BY <1>1, Parts DEF BillingOK, IInv, TypeOK
        <5>3. /\ Claim(j, run[s].bill, ledger[j]) => Claim(j, run[s].bill, ledger'[j])
              /\ Closed(j, ledger[j]) => Closed(j, ledger'[j])
          BY <1>1, <5>1, <5>2, ClaimKept
        <5> QED
          BY <3>2, <4>2, <5>1, <5>3 DEF Paid, Grows
      <4> QED
        BY <4>1, <4>2
    <3> QED
      BY <3>1, <3>2, <3>4, <3>5, <3>6 DEF RunnerOK
  <2> QED
    BY <2>1, <2>2
<1>6. FirstRunAlone'
  BY <1>4 DEF SInv, FirstRunAlone, Busy, Job
<1>7. ControllersOK'
  <2> SUFFICES ASSUME NEW k \in Jobs, controller'[k] # NoRunner
               PROVE  /\ controller'[k] \in Busy'
                      /\ run'[controller'[k]].job = k
                      /\ run'[controller'[k]].pc # "read"
    BY DEF ControllersOK, Job
  <2>1. CASE k = j /\ controller'[k] = r /\ run'[r].pc \notin {"idle", "read"}
    BY <2>1 DEF MoveFrame, Busy
  <2>2. CASE /\ controller'[k] = controller[k]
             /\ controller[k] = r => run'[r].pc \notin {"idle", "read"}
    <3>1. /\ controller[k] \in Busy /\ Job(controller[k]) = k
          /\ run[controller[k]].pc # "read"
      BY <2>2 DEF SInv, ControllersOK
    <3>2. CASE controller[k] = r
      BY <2>2, <3>1, <3>2 DEF MoveFrame, Busy
    <3>3. CASE controller[k] # r
      BY <2>2, <3>1, <3>3 DEF MoveFrame, Busy, Job
    <3> QED
      BY <3>2, <3>3
  <2> QED
    BY <2>1, <2>2 DEF MoveController
<1> QED
  BY <1>2, <1>3, <1>5, <1>6, <1>7

(* It keeps the queue, the request and the final states in order too. *)
LEMMA MoveKeepsRest ==
  ASSUME IInv, IInv', SInv, NEW r \in Runners, MoveFrame(r), MoveEntry(r),
         MoveRecord(r), MoveLock
  PROVE  ItemsOK' /\ RequestOK' /\ CanceledOK' /\ FailedOK' /\ ChargedOK'
<1> DEFINE j == Job(r)
<1>1. r \in Busy /\ j \in Jobs /\ jobs[j].status # "absent"
  BY SafetyFacts DEF MoveFrame, Busy, Current
<1>2. \A s \in Runners : s \in Busy' => s \in Busy /\ run'[s].job = run[s].job
  BY <1>1 DEF MoveFrame, Busy, Job
<1>3. \A k \in Jobs : k # j => ledger'[k] = ledger[k] /\ sent'[k] = sent[k]
  BY DEF MoveFrame
<1>4. items' = items /\ handler' = handler /\ crashes' = crashes
  BY DEF MoveFrame
<1>5. ItemsOK'
  <2> SUFFICES ASSUME NEW i \in DOMAIN items
               PROVE  LET k == items[i].job
                      IN  /\ jobs'[k].status # "absent"
                          /\ items[i].resume => k \in Video
                          /\ ~items[i].resume =>
                               /\ Pristine(k)'
                               /\ \A m \in DOMAIN items : items[m].job = k => m = i
                               /\ \A s \in Busy' : run'[s].job # k
    BY <1>4 DEF ItemsOK, Job
  <2> DEFINE k == items[i].job
  <2>1. k \in Jobs /\ jobs'[k].status # "absent"
    BY SafetyFacts, OtherRecords DEF SInv, ItemsOK
  <2>2. items[i].resume => k \in Video
    BY DEF SInv, ItemsOK
  <2>3. ASSUME ~items[i].resume
        PROVE  /\ Pristine(k)'
               /\ \A m \in DOMAIN items : items[m].job = k => m = i
               /\ \A s \in Busy' : run'[s].job # k
    <3>1. /\ Pristine(k)
          /\ \A m \in DOMAIN items : items[m].job = k => m = i
          /\ \A s \in Busy : run[s].job # k
      BY <2>3 DEF SInv, ItemsOK, Job
    <3>2. k # j /\ Queued(k)
      BY <1>1, <3>1 DEF Job, Queued
    <3>3. jobs'[k] = jobs[k]
      BY <2>1, <3>2, OtherRecords
    <3>4. Pristine(k)'
      BY <1>3, <1>4, <2>1, <3>1, <3>2, <3>3 DEF Pristine
    <3> QED
      BY <1>2, <3>1, <3>4 DEF Busy
  <2> QED
    BY <2>1, <2>2, <2>3
<1>6. \A k : Unstarted(k)' <=> Unstarted(k)
  BY <1>4 DEF Unstarted
<1>7. ASSUME NEW k \in Jobs, Followed(k) PROVE Followed(k)'
  BY <1>6, <1>7, OtherRecords DEF Followed
<1>8. WriteOK'
  <2> SUFFICES ASSUME handler.pc = "write"
               PROVE  LET k == handler.job
                      IN  /\ Holds(Handler)'
                          /\ jobs'[k].status = "absent"
                          /\ handler.bill = FirstBill(k)
                          /\ Billed(k) => ledger'[k] = Reserved(k)
                          /\ \A m \in Jobs :
                               m # k /\ Fingerprint[m] = Fingerprint[k]
                                 => jobs'[m].status \notin ActiveStatuses
    BY <1>4 DEF WriteOK
  <2>1. handler.job \in Jobs
    BY HandlerFacts
  <2>2. jobs' = jobs /\ Holds(Handler)'
    BY DEF MoveLock
  <2> QED
    BY <1>1, <1>3, <2>1, <2>2 DEF SInv, RequestOK, WriteOK
<1>9. CancelOK'
  <2> SUFFICES ASSUME handler.pc = "cancel"
               PROVE  LET k == handler.job
                      IN  /\ jobs'[k].status # "absent"
                          /\ ~Unstarted(k)'
                          /\ Claim(k, handler.bill, ledger'[k])
                          /\ handler.final = "canceled" /\ k \notin Video => Dead(k)'
    BY <1>4 DEF CancelOK
  <2> DEFINE k == handler.job
  <2>1. k \in Jobs
    BY HandlerFacts
  <2>2. /\ jobs[k].status # "absent" /\ ~Unstarted(k)
        /\ Claim(k, handler.bill, ledger[k])
        /\ handler.final = "canceled" /\ k \notin Video => Dead(k)
    BY DEF SInv, RequestOK, CancelOK
  <2>3. Claim(k, handler.bill, ledger'[k])
    <3>1. CASE k # j
      BY <1>3, <2>1, <2>2, <3>1
    <3>2. CASE k = j
      <4>1. /\ ledger[j] \in Entries /\ EntryFull(j, ledger[j])
            /\ EntryFull(j, ledger'[j]) /\ Grows(ledger[j], ledger'[j])
        BY <1>1, SafetyFacts DEF MoveEntry
      <4>2. ledger'[j] \in Entries
        BY <1>1 DEF IInv, TypeOK
      <4> QED
        BY <1>1, <2>2, <3>2, <4>1, <4>2, ClaimKept
    <3> QED
      BY <3>1, <3>2
  <2> QED
    BY <1>4, <1>6, <2>1, <2>2, <2>3, OtherRecords, DeadKept
<1>10. RecoverOK'
  <2>1. handler.todo \subseteq Jobs /\ (handler.pc = "block" => handler.job \in Jobs)
    BY HandlerFacts DEF HandlerRecords
  <2> QED
    BY <1>4, <1>7, <2>1 DEF SInv, RequestOK, RecoverOK
<1>11. CanceledOK'
  <2> SUFFICES ASSUME NEW k \in Jobs \ Video, jobs'[k].status = "canceled"
               PROVE  Dead(k)'
    BY DEF CanceledOK
  <2>1. jobs[k].status = "canceled"
    BY OtherRecords DEF MoveRecord
  <2> QED
    BY <2>1, DeadKept DEF SInv, CanceledOK
<1>12. FailedOK'
  <2> SUFFICES ASSUME crashes = 0, faults' = 0, NEW k \in Jobs,
                      jobs'[k].status = "failed", Billed(k), ~Closed(k, ledger'[k])
               PROVE  \E s \in Busy' : run'[s].job = k /\ run'[s].pc \in {"catch", "fail"}
    BY <1>4 DEF FailedOK, Unrefunded, At, Job
  <2>1. faults = 0
    BY DEF MoveFrame
  <2>2. ASSUME jobs[k].status = "failed", ~Closed(k, ledger[k])
        PROVE  \E s \in Runners : /\ s \in Busy /\ run[s].job = k
                                  /\ run[s].pc \in {"catch", "fail"}
    <3>1. \E s \in At(k) : run[s].pc \in {"catch", "fail"}
      BY <2>1, <2>2 DEF SInv, FailedOK, Unrefunded
    <3> QED
      BY <3>1 DEF At, Job, Busy
  <2>3. CASE k # j
    <3>1. jobs'[k] = jobs[k] /\ ledger'[k] = ledger[k]
      BY <1>3, <2>3, OtherRecords
    <3>2. PICK s \in Runners : /\ s \in Busy /\ run[s].job = k
                              /\ run[s].pc \in {"catch", "fail"}
      BY <2>2, <3>1
    <3>3. s # r
      BY <2>3, <3>2 DEF Job
    <3>4. run'[s] = run[s]
      BY <3>3 DEF MoveFrame
    <3> QED
      BY <3>2, <3>4 DEF Busy
  <2>4. CASE k = j
    <3>1. CASE run'[r].pc \in {"catch", "fail"}
      BY <2>4, <3>1 DEF Busy, MoveFrame
    <3>2. CASE jobs[j].status = "failed" /\ run[r].pc \notin {"catch", "fail"}
      <4>1. /\ ledger[j] \in Entries /\ EntryFull(j, ledger[j])
            /\ EntryFull(j, ledger'[j]) /\ Grows(ledger[j], ledger'[j])
        BY <1>1, SafetyFacts DEF MoveEntry
      <4>2. ledger'[j] \in Entries
        BY <1>1 DEF IInv, TypeOK
      <4>3. ~Closed(j, ledger[j])
        BY <1>1, <2>4, <4>1, <4>2, ClaimKept
      <4>4. PICK s \in Runners : /\ s \in Busy /\ run[s].job = k
                                /\ run[s].pc \in {"catch", "fail"}
        BY <2>2, <2>4, <3>2, <4>3
      <4>5. s # r
        BY <3>2, <4>4
      <4>6. run'[s] = run[s]
        BY <4>5 DEF MoveFrame
      <4> QED
        BY <4>4, <4>6 DEF Busy
    <3> QED
      BY <2>4, <3>1, <3>2 DEF MoveRecord
  <2> QED
    BY <2>3, <2>4
<1>13. ChargedOK'
  <2> SUFFICES ASSUME crashes = 0, NEW k \in Jobs, ledger'[k].open,
                      jobs'[k].status = "absent"
               PROVE  \/ handler.pc = "write" /\ handler.job = k
                      \/ ledger'[k].back = Amount(k)
    BY <1>4 DEF ChargedOK, ChargeHasJob
  <2>1. jobs[k].status = "absent"
    BY OtherRecords
  <2> QED
    BY <1>1, <1>3, <2>1 DEF SInv, ChargedOK, ChargeHasJob
<1> QED
  BY <1>5, <1>8, <1>9, <1>10, <1>11, <1>12, <1>13 DEF RequestOK

(* Together: a move of a runner keeps the invariant. *)
LEMMA MoveKeeps ==
  ASSUME IInv, IInv', SInv, NEW r \in Runners, MoveFrame(r), MoveEntry(r),
         MoveRecord(r), MoveRun(r), MoveController(r), MoveLock
  PROVE  SInv'
<1>1. EntriesFull' /\ JobsOK' /\ RunnersOK' /\ FirstRunAlone' /\ ControllersOK'
  BY MoveKeepsRuns
<1>2. ItemsOK' /\ RequestOK' /\ CanceledOK' /\ FailedOK' /\ ChargedOK'
  BY MoveKeepsRest
<1> QED
  BY <1>1, <1>2 DEF SInv

-------------------------------------------------------------------------------
(* What the actions of the runners have in common. *)

(* A busy runner, its job, and what is known of them. *)
LEMMA StepFacts ==
  ASSUME IInv, SInv, NEW r \in Runners, run[r].pc # "idle"
  PROVE  LET j == Job(r)
         IN  /\ r \in Busy /\ j \in Jobs /\ run[r] \in RunRecords /\ run[r].job = j
             /\ run \in [Runners -> RunRecords]
             /\ Placed(run[r]) /\ Ordered(run[r], sent[j])
             /\ Paid(run[r], ledger[j]) /\ Current(run[r], jobs[j])
             /\ ledger[j] \in Entries /\ EntryFull(j, ledger[j])
             /\ sent[j] \in Nat /\ sent[j] <= Requests(j) /\ Count[j] \in Nat \ {0}
             /\ JobOK(j, jobs[j], ledger[j], sent[j])
             /\ j \in OneRequest => Requests(j) = 1
             /\ j \notin OneRequest => Requests(j) = Count[j]
             /\ j \in Video => Count[j] = 1 /\ j \in OneRequest
<1>1. r \in Busy
  BY DEF Busy
<1>2. run \in [Runners -> RunRecords]
  BY Parts DEF RunsOK
<1>3. Job(r) \in Jobs
  BY <1>1, SafetyFacts
<1> QED
  BY <1>1, <1>2, <1>3, SafetyFacts, AmountType, JobsAssumption
  DEF Job, JobOK, Requests, OneRequest

(* The lock stays with the request that is writing: a runner that writes   *)
(* holds it, any other only joins the queue.                               *)
LEMMA LockMove ==
  ASSUME IInv, SInv, NEW r \in Runners,
         \/ Holds(r)
         \/ Await(r) /\ UNCHANGED jobs
         \/ UNCHANGED << lock, jobs >>
  PROVE  MoveLock
<1> SUFFICES ASSUME handler.pc = "write"
             PROVE  Holds(Handler)' /\ UNCHANGED jobs
  BY DEF MoveLock
<1>1. Holds(Handler) /\ lock \in Seq(Waiters)
  BY Parts DEF SInv, RequestOK, WriteOK, LockOK
<1>2. ~Holds(r)
  BY <1>1, JobsAssumption DEF Holds
<1>3. CASE Await(r) /\ UNCHANGED jobs
  <2>1. r \in Waiters
    BY DEF Waiters
  <2>2. lock' # << >> /\ Head(lock') = Head(lock)
    BY <1>1, <1>3, <2>1, AppendProperties DEF Await, Holds
  <2> QED
    BY <1>1, <1>3, <2>2 DEF Holds
<1>4. CASE UNCHANGED << lock, jobs >>
  BY <1>1, <1>4 DEF Holds
<1> QED
  BY <1>2, <1>3, <1>4

(* A step that leaves the ledger alone and sends nothing. *)
LEMMA QuietEntry ==
  ASSUME IInv, SInv, NEW r \in Runners, run[r].pc # "idle",
         UNCHANGED ledger, UNCHANGED sent
  PROVE  MoveEntry(r) /\ sent'[Job(r)] <= Requests(Job(r))
<1>1. Grows(ledger[Job(r)], ledger[Job(r)])
  BY StepFacts, SameEntry
<1> QED
  BY <1>1, StepFacts DEF MoveEntry

(* The record of its job that a runner writes, and the other records. *)
RecordedAs(j, s, b) ==
  /\ jobs'[j].status = s /\ jobs'[j].bill = b /\ ~jobs'[j].stale
  /\ \A k \in Jobs \ {j} : jobs'[k] = Read[k]

LEMMA RecordWritten ==
  ASSUME IInv, NEW j \in Jobs, NEW s \in Statuses
  PROVE  /\ \A b \in BillStatuses : jobs' = Updated(j, s, b) => RecordedAs(j, s, b)
         /\ jobs' = Staged(j, s) => RecordedAs(j, s, Read[j].bill)
         /\ Read[j].bill \in BillStatuses
<1>1. Read[j].bill \in BillStatuses
  BY ReadFacts DEF JobRecords
<1>2. \A b \in BillStatuses : jobs' = Updated(j, s, b) => RecordedAs(j, s, b)
  BY WrittenRecord DEF RecordedAs
<1>3. Staged(j, s) = Updated(j, s, Read[j].bill)
  BY <1>1, WrittenRecord
<1> QED
  BY <1>1, <1>2, <1>3

(* The record that an update leaves is in order when its bill is true; one *)
(* that is read only is as it was, or given up.                            *)
LEMMA WriteMove ==
  ASSUME IInv, IInv', SInv, NEW r \in Runners, run[r].pc # "idle", MoveEntry(r),
         sent'[Job(r)] <= Requests(Job(r)),
         NEW s \in Statuses \ {"absent", "canceled", "succeeded"},
         NEW b, RecordedAs(Job(r), s, b), Claim(Job(r), b, ledger[Job(r)]),
         s = "failed" => \/ run'[r].pc \in {"catch", "fail"}
                         \/ Billed(Job(r)) => Closed(Job(r), ledger'[Job(r)])
  PROVE  MoveRecord(r)
<1> DEFINE j == Job(r)
<1>1. /\ j \in Jobs /\ ledger[j] \in Entries /\ EntryFull(j, ledger[j])
      /\ sent[j] \in Nat /\ JobOK(j, jobs[j], ledger[j], sent[j])
      /\ jobs[j].status # "absent"
  BY StepFacts DEF Current
<1>2. ledger'[j] \in Entries /\ sent'[j] \in Nat
  BY <1>1 DEF IInv, TypeOK
<1>3. jobs'[j].status = s /\ jobs'[j].bill = b /\ ~jobs'[j].stale
  BY DEF RecordedAs
<1>4. JobOK(j, jobs'[j], ledger[j], sent[j])
  BY <1>1, <1>3, JobWritten
<1>5. JobOK(j, jobs'[j], ledger'[j], sent'[j])
  BY <1>1, <1>2, <1>3, <1>4, JobKept DEF MoveEntry
<1> QED
  BY <1>3, <1>5 DEF MoveRecord

LEMMA QuietMove ==
  ASSUME IInv, IInv', SInv, NEW r \in Runners, run[r].pc # "idle", MoveEntry(r),
         sent'[Job(r)] <= Requests(Job(r)),
         jobs' = jobs \/ jobs' = Read,
         \/ run[r].pc \notin {"catch", "fail"}
         \/ run'[r].pc \in {"catch", "fail"}
         \/ faults' # 0
  PROVE  MoveRecord(r)
<1> DEFINE j == Job(r)
<1>1. /\ j \in Jobs /\ ledger[j] \in Entries /\ EntryFull(j, ledger[j])
      /\ sent[j] \in Nat /\ JobOK(j, jobs[j], ledger[j], sent[j])
      /\ jobs[j].status # "absent"
  BY StepFacts DEF Current
<1>2. ledger'[j] \in Entries /\ sent'[j] \in Nat
  BY <1>1 DEF IInv, TypeOK
<1>3. /\ JobOK(j, jobs'[j], ledger[j], sent[j])
      /\ jobs'[j].status # "absent"
      /\ jobs'[j].stale => jobs[j].stale
      /\ \A s \in {"failed", "canceled"} :
           jobs'[j].status = s => jobs[j].status = s
  BY <1>1, JobRead
<1>4. JobOK(j, jobs'[j], ledger'[j], sent'[j])
  BY <1>1, <1>2, <1>3, JobKept DEF MoveEntry
<1> QED
  BY <1>3, <1>4 DEF MoveRecord

(* A runner that keeps its outputs and its bill is in order in its new     *)
(* place, if it may be there.                                              *)
LEMMA RunMove ==
  ASSUME IInv, IInv', SInv, NEW r \in Runners, run[r].pc # "idle",
         MoveEntry(r), MoveRecord(r),
         run'[r].job = Job(r), run'[r].resume = run[r].resume,
         run'[r].out = run[r].out, run'[r].bill = run[r].bill,
         run'[r].pc \in {"finish", "fail"}
           => run'[r].pc = run[r].pc /\ run'[r].final = run[r].final,
         run[r].pc \in {"read", "start", "catch"}
           => run'[r].pc \in {"read", "start", "catch"},
         Placed(run'[r]), Ordered(run'[r], sent'[Job(r)])
  PROVE  MoveRun(r)
<1> DEFINE j == Job(r)
<1>1. /\ j \in Jobs /\ ledger[j] \in Entries /\ EntryFull(j, ledger[j])
      /\ run[r].job = j /\ Paid(run[r], ledger[j]) /\ Current(run[r], jobs[j])
  BY StepFacts
<1>2. ledger'[j] \in Entries
  BY <1>1 DEF IInv, TypeOK
<1>3. /\ EntryFull(j, ledger'[j]) /\ Grows(ledger[j], ledger'[j])
  BY DEF MoveEntry
<1>4. /\ Claim(j, run[r].bill, ledger[j]) => Claim(j, run[r].bill, ledger'[j])
      /\ Closed(j, ledger[j]) => Closed(j, ledger'[j])
  BY <1>1, <1>2, <1>3, ClaimKept
<1>5. Paid(run'[r], ledger'[j])
  BY <1>1, <1>3, <1>4 DEF Paid, Grows
<1>6. Current(run'[r], jobs'[j])
  BY <1>1 DEF Current, MoveRecord
<1> QED
  BY <1>5, <1>6 DEF MoveRun, RunnerOK

(* An exception takes a runner out of every place that has a condition. *)
LEMMA ThrownMove ==
  ASSUME IInv, IInv', SInv, NEW r \in Runners, run[r].pc # "idle", NEW kind,
         run' = Thrown(r, kind), MoveEntry(r), MoveRecord(r)
  PROVE  MoveRun(r)
<1>1. /\ run'[r].pc = "catch" /\ run'[r].job = Job(r)
      /\ run'[r].resume = run[r].resume
      /\ run'[r].out = run[r].out /\ run'[r].bill = run[r].bill
  BY StepFacts DEF Thrown, RunRecords
<1>2. Placed(run'[r]) /\ Ordered(run'[r], sent'[Job(r)])
  BY <1>1, StepFacts DEF Placed, Ordered
<1> QED
  BY <1>1, <1>2, RunMove

(* Runners that leave the map of controllers alone are not in it by        *)
(* mistake: only a first read is not.                                      *)
LEMMA SameController ==
  ASSUME IInv, SInv, NEW r \in Runners, UNCHANGED controller,
         \/ run[r].pc = "read"
         \/ run'[r].pc \notin {"idle", "read"}
  PROVE  MoveController(r)
  BY DEF MoveController, SInv, ControllersOK

-------------------------------------------------------------------------------
(* The steps of a runner, one by one. *)

(* A bill that the file holds is true of the entry (jobs file). *)
LEMMA ReadClaim ==
  ASSUME IInv, SInv, NEW j \in Jobs, jobs[j].status # "absent"
  PROVE  Claim(j, Read[j].bill, ledger[j])
<1>1. JobOK(j, Read[j], ledger[j], sent[j]) /\ Read[j].status # "absent"
  BY SafetyFacts, JobRead
<1> QED
  BY <1>1 DEF JobOK

(* A stage of the job is written with the bill that was read. *)
LEMMA StageMove ==
  ASSUME IInv, IInv', SInv, NEW r \in Runners, run[r].pc # "idle", MoveEntry(r),
         sent'[Job(r)] <= Requests(Job(r)),
         NEW s \in {"dispatching", "gateway", "upstream", "image", "video", "saving"},
         RecordedAs(Job(r), s, Read[Job(r)].bill)
  PROVE  MoveRecord(r)
<1>1. s \in Statuses \ {"absent", "canceled", "succeeded"} /\ s # "failed"
  BY DEF Statuses, ActiveStatuses
<1>2. Claim(Job(r), Read[Job(r)].bill, ledger[Job(r)])
  BY StepFacts, ReadClaim DEF Current
<1> QED
  BY <1>1, <1>2, WriteMove

(* The slot is given back (drainGenerationQueue). *)
LEMMA LeaveMove ==
  ASSUME IInv, SInv, NEW r \in Runners, run[r].pc # "idle", Leave(r)
  PROVE  run'[r].pc = "idle" /\ MoveRun(r)
         /\ \A s \in Runners \ {r} : run'[s] = run[s]
  BY StepFacts DEF Leave, Idle, MoveRun, RunnerOK

LEMMA DropKeeps ==
  ASSUME IInv, IInv', SInv, NEW r \in Runners, Drop(r)
  PROVE  SInv'
<1>1. /\ run[r].pc = "read" /\ Holds(r) /\ jobs' = Read /\ Leave(r)
      /\ UNCHANGED << ledger, controller, handler, sent, crashes, faults, items >>
  BY DEF Drop, AtLock, ledgerVars, world, bounds, Leave
<1>2. MoveEntry(r) /\ sent'[Job(r)] <= Requests(Job(r))
  BY <1>1, QuietEntry
<1>3. MoveRecord(r)
  BY <1>1, <1>2, QuietMove
<1>4. MoveFrame(r) /\ MoveRun(r)
  BY <1>1, LeaveMove DEF MoveFrame
<1>5. MoveController(r) /\ MoveLock
  BY <1>1, SameController, LockMove
<1> QED
  BY <1>2, <1>3, <1>4, <1>5, MoveKeeps

LEMMA TakeKeeps ==
  ASSUME IInv, IInv', SInv, NEW r \in Runners, Take(r)
  PROVE  SInv'
<1>1. /\ run[r].pc = "read" /\ Holds(r) /\ jobs' = Read
      /\ run' = [run EXCEPT ![r].pc = "start"]
      /\ controller' = [controller EXCEPT ![Job(r)] = r]
      /\ UNCHANGED << ledger, handler, sent, crashes, faults, items >>
  BY DEF Take, AtLock, ledgerVars, world, bounds, queueVars
<1>2. MoveEntry(r) /\ sent'[Job(r)] <= Requests(Job(r))
  BY <1>1, QuietEntry
<1>3. MoveRecord(r)
  BY <1>1, <1>2, QuietMove
<1>4. /\ run'[r] = [run[r] EXCEPT !.pc = "start"]
      /\ \A s \in Runners \ {r} : run'[s] = run[s]
  BY <1>1, StepFacts
<1>5. MoveFrame(r)
  BY <1>1, <1>4, StepFacts DEF MoveFrame, RunRecords
<1>6. MoveRun(r)
  <2>1. Placed(run'[r]) /\ Ordered(run'[r], sent'[Job(r)])
    BY <1>1, <1>4, StepFacts DEF Placed, Ordered, RunRecords
  <2> QED
    BY <1>1, <1>2, <1>3, <1>4, <2>1, StepFacts, RunMove DEF RunRecords
<1>7. MoveController(r)
  <2>1. \A k \in Jobs : controller[k] # r
    BY <1>1, JobsAssumption DEF SInv, ControllersOK
  <2>2. controller \in [Jobs -> Runners \cup {NoRunner}]
    BY Parts DEF ControllerOK
  <2> QED
    BY <1>1, <1>4, <2>1, <2>2, StepFacts DEF MoveController, RunRecords
<1>8. MoveLock
  BY <1>1, LockMove
<1> QED
  BY <1>2, <1>3, <1>5, <1>6, <1>7, <1>8, MoveKeeps

(* What a step of a runner leaves alone around it. *)
Around(r) ==
  /\ \A k \in Jobs \ {Job(r)} :
       /\ jobs'[k] = jobs[k] \/ jobs'[k] = Read[k]
       /\ ledger'[k] = ledger[k] /\ sent'[k] = sent[k]
  /\ UNCHANGED << items, handler, crashes >>
  /\ faults' = 0 => faults = 0

(* A runner goes on with its job, from a place to another. *)
LEMMA GoesOn ==
  ASSUME IInv, IInv', SInv, NEW r \in Runners, run[r].pc # "idle",
         NEW f \in RunRecords, run' = [run EXCEPT ![r] = f],
         f.job = Job(r), f.resume = run[r].resume, f.pc \notin {"idle", "read"},
         Around(r), UNCHANGED controller, MoveEntry(r), MoveRecord(r), MoveLock,
         MoveRun(r)
  PROVE  SInv'
<1>1. run'[r] = f /\ \A s \in Runners \ {r} : run'[s] = run[s]
  BY StepFacts
<1>2. MoveFrame(r)
  BY <1>1 DEF MoveFrame, Around
<1>3. MoveController(r)
  BY <1>1, SameController
<1> QED
  BY <1>2, <1>3, MoveKeeps

LEMMA ThrownKeeps ==
  ASSUME IInv, IInv', SInv, NEW r \in Runners, run[r].pc # "idle",
         NEW kind \in Aborts \cup Errors, run' = Thrown(r, kind),
         Around(r), UNCHANGED controller, MoveEntry(r), MoveRecord(r), MoveLock
  PROVE  SInv'
<1> DEFINE e == IF run[r].signal = "none" THEN kind ELSE run[r].signal
           f == [run[r] EXCEPT !.pc = "catch", !.error = e]
<1>1. /\ f \in RunRecords /\ run' = [run EXCEPT ![r] = f] /\ f.job = Job(r)
      /\ f.resume = run[r].resume /\ f.pc = "catch"
  <2>1. run[r] \in RunRecords /\ run \in [Runners -> RunRecords] /\ run[r].job = Job(r)
    BY StepFacts
  <2>2. e \in Aborts \cup Errors
    BY <2>1 DEF RunRecords
  <2>3. run' = [run EXCEPT ![r] = f]
    BY <2>1 DEF Thrown
  <2> HIDE DEF e
  <2>4. f \in RunRecords /\ f.job = run[r].job /\ f.resume = run[r].resume
        /\ f.pc = "catch"
    BY <2>1, <2>2 DEF RunRecords, LockedSteps
  <2> QED
    BY <2>1, <2>3, <2>4
<1>2. MoveRun(r)
  BY ThrownMove
<1> QED
  BY <1>1, <1>2, GoesOn

(* A runner that awaited something else than the lock, and only joins it. *)
LEMMA WaitFacts ==
  ASSUME IInv, IInv', SInv, NEW r \in Runners,
         run[r].pc \notin {"idle", "catch", "fail"},
         \/ Await(r)
         \/ UNCHANGED lock,
         UNCHANGED << jobs, ledger, sent, items, handler, crashes, faults >>
  PROVE  Around(r) /\ MoveEntry(r) /\ MoveRecord(r) /\ MoveLock
<1>1. MoveEntry(r) /\ sent'[Job(r)] <= Requests(Job(r))
  BY QuietEntry
<1> QED
  BY <1>1, QuietMove, LockMove DEF Around

(* A call, a poll or a file that fails (runGenerationRequest). *)
LEMMA WaitFailsKeeps ==
  ASSUME IInv, IInv', SInv, NEW r \in Runners,
         CallFails(r) \/ CallAborted(r) \/ StoreFails(r) \/ PollFails(r)
  PROVE  SInv'
<1>1. /\ run[r].pc \in {"calling", "polling", "storing"} /\ Await(r)
      /\ \E kind \in Aborts \cup Errors : run' = Thrown(r, kind)
      /\ UNCHANGED << jobs, ledger, sent, items, handler, crashes, faults, controller >>
  BY DEF CallFails, CallAborted, StoreFails, PollFails, Errors, ledgerVars, queueVars,
         world, bounds
<1>2. Around(r) /\ MoveEntry(r) /\ MoveRecord(r) /\ MoveLock
  BY <1>1, WaitFacts
<1> QED
  BY <1>1, <1>2, ThrownKeeps

(* An answer that changes nothing but the place of the runner. *)
LEMMA ImageAnswerKeeps ==
  ASSUME IInv, IInv', SInv, NEW r \in Runners, ImageAnswer(r)
  PROVE  SInv'
<1> DEFINE f == [run[r] EXCEPT !.pc = "saving"]
<1>1. /\ run[r].pc = "calling" /\ Job(r) \notin Video /\ Await(r)
      /\ run' = [run EXCEPT ![r] = f]
      /\ UNCHANGED << jobs, ledger, sent, items, handler, crashes, faults, controller >>
  BY DEF ImageAnswer, ledgerVars, queueVars, world, bounds
<1>2. Around(r) /\ MoveEntry(r) /\ MoveRecord(r) /\ MoveLock
  BY <1>1, WaitFacts
<1>3. /\ f \in RunRecords /\ f.job = Job(r) /\ f.resume = run[r].resume
      /\ f.pc = "saving" /\ f.out = run[r].out /\ f.bill = run[r].bill /\ run'[r] = f
  BY <1>1, StepFacts DEF RunRecords, LockedSteps
<1>4. Placed(f) /\ Ordered(f, sent'[Job(r)])
  BY <1>1, <1>3, StepFacts DEF Placed, Ordered
<1>5. MoveRun(r)
  BY <1>1, <1>2, <1>3, <1>4, RunMove
<1> QED
  BY <1>1, <1>2, <1>3, <1>5, GoesOn

LEMMA PollKeeps ==
  ASSUME IInv, IInv', SInv, NEW r \in Runners, Poll(r) \/ PollRetry(r)
  PROVE  SInv'
<1>1. /\ run[r].pc = "polling" /\ Await(r)
      /\ UNCHANGED << jobs, ledger, sent, items, handler, crashes, faults, controller >>
  BY DEF Poll, PollRetry, ledgerVars, queueVars, world, bounds
<1>2. PICK f \in RunRecords :
        /\ run' = [run EXCEPT ![r] = f] /\ f.job = Job(r)
        /\ f.resume = run[r].resume /\ f.pc \in {"polled", "retry"}
        /\ f.out = run[r].out /\ f.bill = run[r].bill
  <2>1. CASE PollRetry(r)
    <3> DEFINE n == run[r].tries + 1
               f == [run[r] EXCEPT !.pc = "retry", !.tries = n]
    <3>1. run' = [run EXCEPT ![r] = f]
      BY <2>1 DEF PollRetry
    <3>2. run[r] \in RunRecords /\ run[r].job = Job(r) /\ n \in Nat
      BY <1>1, StepFacts DEF RunRecords
    <3> HIDE DEF n
    <3>3. f \in RunRecords /\ f.job = run[r].job /\ f.resume = run[r].resume
          /\ f.pc = "retry" /\ f.out = run[r].out /\ f.bill = run[r].bill
      BY <3>2 DEF RunRecords, LockedSteps
    <3> QED
      BY <3>1, <3>2, <3>3
  <2>2. CASE Poll(r)
    <3>1. PICK s \in TaskStates :
            run' = [ run EXCEPT ![r].pc = "polled", ![r].poll = s, ![r].tries = 0 ]
      BY <2>2 DEF Poll
    <3> DEFINE f == [run[r] EXCEPT !.pc = "polled", !.poll = s, !.tries = 0]
    <3>2. run' = [run EXCEPT ![r] = f]
      BY <3>1, StepFacts, <1>1
    <3>3. run[r] \in RunRecords /\ run[r].job = Job(r)
      BY <1>1, StepFacts
    <3>4. f \in RunRecords /\ f.job = run[r].job /\ f.resume = run[r].resume
          /\ f.pc = "polled" /\ f.out = run[r].out /\ f.bill = run[r].bill
      BY <3>3 DEF RunRecords, LockedSteps
    <3> QED
      BY <3>2, <3>3, <3>4
  <2> QED
    BY <2>1, <2>2
<1>3. Around(r) /\ MoveEntry(r) /\ MoveRecord(r) /\ MoveLock
  BY <1>1, WaitFacts
<1>4. run'[r] = f
  BY <1>1, <1>2, StepFacts
<1>5. Placed(f) /\ Ordered(f, sent'[Job(r)])
  BY <1>1, <1>2, StepFacts DEF Placed, Ordered
<1>6. MoveRun(r)
  BY <1>1, <1>2, <1>3, <1>4, <1>5, RunMove
<1> QED
  BY <1>1, <1>2, <1>3, <1>6, GoesOn

(* The timer of the job (JOB_TIMEOUT). *)
LEMMA TimeoutKeeps ==
  ASSUME IInv, IInv', SInv, NEW r \in Runners, Timeout(r)
  PROVE  SInv'
<1> DEFINE f == [run[r] EXCEPT !.signal = "timeout"]
<1>1. /\ run[r].pc \notin {"idle", "read", "catch", "fail"} /\ UNCHANGED lock
      /\ run' = [run EXCEPT ![r] = f]
      /\ UNCHANGED << jobs, ledger, sent, items, handler, crashes, faults, controller >>
  BY DEF Timeout, ledgerVars, queueVars, world, bounds
<1>2. Around(r) /\ MoveEntry(r) /\ MoveRecord(r) /\ MoveLock
  BY <1>1, WaitFacts
<1>3. run[r] \in RunRecords /\ run[r].job = Job(r)
  BY <1>1, StepFacts
<1>4. /\ f \in RunRecords /\ f.job = run[r].job /\ f.resume = run[r].resume
      /\ f.pc = run[r].pc /\ f.out = run[r].out /\ f.bill = run[r].bill
      /\ f.final = run[r].final
  BY <1>3 DEF RunRecords, Aborts
<1>5. Placed(f) /\ Ordered(f, sent'[Job(r)])
  BY <1>1, <1>3, <1>4, StepFacts DEF Placed, Ordered
<1>6. run'[r] = f
  BY <1>1, StepFacts
<1>7. MoveRun(r)
  BY <1>1, <1>2, <1>3, <1>4, <1>5, <1>6, RunMove
<1> QED
  BY <1>1, <1>2, <1>3, <1>4, <1>7, GoesOn

(* A stage is written: the job is in order, and so is all around it. *)
Stages == { "dispatching", "gateway", "upstream", "image", "video", "saving" }
LEMMA StageFacts ==
  ASSUME IInv, IInv', SInv, NEW r \in Runners, run[r].pc # "idle", Holds(r),
         NEW s \in Stages, RecordedAs(Job(r), s, Read[Job(r)].bill),
         UNCHANGED << ledger, sent, items, handler, crashes, faults >>
  PROVE  Around(r) /\ MoveEntry(r) /\ MoveRecord(r) /\ MoveLock
<1>1. MoveEntry(r) /\ sent'[Job(r)] <= Requests(Job(r))
  BY QuietEntry
<1>2. MoveRecord(r)
  BY <1>1, StageMove DEF Stages
<1>3. MoveLock
  BY LockMove
<1> QED
  BY <1>1, <1>2, <1>3 DEF Around, RecordedAs

LEMMA StageRecorded ==
  ASSUME IInv, NEW j \in Jobs, NEW s \in Stages, jobs' = Staged(j, s)
  PROVE  RecordedAs(j, s, Read[j].bill)
  BY RecordWritten DEF Stages, Statuses, ActiveStatuses

(* A runner that keeps its job, its outputs and its bill. *)
LEMMA PlaceKeeps ==
  ASSUME IInv, IInv', SInv, NEW r \in Runners, run[r].pc # "idle", NEW pc,
         run' = [run EXCEPT ![r].pc = pc],
         pc \in {"calling", "saving", "storing", "polling", "gateway"},
         run[r].pc \notin {"read", "start", "catch"},
         Around(r), UNCHANGED controller, MoveEntry(r), MoveRecord(r), MoveLock,
         run[r].resume => pc \notin {"gateway", "calling"},
         pc = "polling" => Job(r) \in Video,
         ~run[r].resume /\ Job(r) \in OneRequest /\ pc = "gateway"
           => sent'[Job(r)] = 0,
         ~run[r].resume /\ Job(r) \notin OneRequest
           => /\ sent'[Job(r)] <= run[r].out + 1 /\ run[r].out < Count[Job(r)]
              /\ pc = "gateway" => sent'[Job(r)] <= run[r].out
  PROVE  SInv'
<1> DEFINE f == [run[r] EXCEPT !.pc = pc]
<1>1. run[r] \in RunRecords /\ run[r].job = Job(r) /\ Placed(run[r])
      /\ run \in [Runners -> RunRecords] /\ run[r].out \in Nat
  BY StepFacts DEF RunRecords
<1>2. /\ f \in RunRecords /\ f.job = run[r].job /\ f.resume = run[r].resume
      /\ f.pc = pc /\ f.out = run[r].out /\ f.bill = run[r].bill
  BY <1>1 DEF RunRecords, LockedSteps, OpenSteps
<1>3. run' = [run EXCEPT ![r] = f] /\ run'[r] = f
  BY <1>1
<1>4. Placed(f)
  BY <1>1, <1>2 DEF Placed
<1>5. Ordered(f, sent'[Job(r)])
  BY <1>1, <1>2 DEF Ordered
<1>6. MoveRun(r)
  BY <1>1, <1>2, <1>3, <1>4, <1>5, RunMove
<1> QED
  BY <1>1, <1>2, <1>3, <1>6, GoesOn

LEMMA SavingKeeps ==
  ASSUME IInv, IInv', SInv, NEW r \in Runners, Saving(r) \/ Retried(r)
  PROVE  SInv'
<1> DEFINE s == IF run[r].pc = "saving" THEN "saving" ELSE "upstream"
           pc == IF run[r].pc = "saving" THEN "storing" ELSE "polling"
<1>1. /\ run[r].pc \in {"saving", "retry"} /\ Holds(r)
      /\ jobs' = Staged(Job(r), s)
      /\ run' = [run EXCEPT ![r].pc = pc]
      /\ UNCHANGED << ledger, sent, items, handler, crashes, faults, controller >>
  BY DEF Saving, Retried, AtLock, ledgerVars, queueVars, world, bounds
<1>2. s \in Stages /\ Job(r) \in Jobs
  BY <1>1, StepFacts DEF Stages
<1>3. RecordedAs(Job(r), s, Read[Job(r)].bill)
  BY <1>1, <1>2, StageRecorded
<1>4. Around(r) /\ MoveEntry(r) /\ MoveRecord(r) /\ MoveLock
  BY <1>1, <1>2, <1>3, StageFacts
<1>5. /\ pc \in {"storing", "polling"}
      /\ pc = "polling" => Job(r) \in Video
      /\ ~run[r].resume /\ Job(r) \notin OneRequest
           => sent'[Job(r)] <= run[r].out + 1 /\ run[r].out < Count[Job(r)]
  BY <1>1, StepFacts DEF Placed, Ordered
<1> HIDE DEF pc
<1> QED
  BY <1>1, <1>4, <1>5, PlaceKeeps

(* A poll, or the first answer, is recorded (updateJob of a video). *)
LEMMA TrackedKeeps ==
  ASSUME IInv, IInv', SInv, NEW r \in Runners, Tracked(r)
  PROVE  SInv'
<1> DEFINE j == Job(r)
           s == IF run[r].poll = "completed" THEN "saving" ELSE "upstream"
<1>1. /\ run[r].pc = "tracked" /\ Holds(r)
      /\ jobs' = [Staged(j, s) EXCEPT ![j].task = run[r].task]
      /\ \/ run' = Thrown(r, "upstream")
         \/ run' = [run EXCEPT ![r].pc = "storing"]
         \/ run' = [run EXCEPT ![r].pc = "polling"]
      /\ UNCHANGED << ledger, sent, items, handler, crashes, faults, controller >>
  BY DEF Tracked, AtLock, ledgerVars, queueVars, world, bounds
<1>2. s \in Stages /\ j \in Jobs /\ j \in Video
  BY <1>1, StepFacts DEF Stages, Placed
<1>3. RecordedAs(j, s, Read[j].bill)
  <2>1. s \in Statuses /\ Read[j].bill \in BillStatuses
    BY <1>2, RecordWritten DEF Statuses, ActiveStatuses
  <2>2. Staged(j, s) \in [Jobs -> JobRecords]
    BY <1>2, <2>1, Parts, UpdatedType DEF Staged
  <2>3. /\ Staged(j, s)[j].status = s /\ Staged(j, s)[j].bill = Read[j].bill
        /\ ~Staged(j, s)[j].stale
        /\ \A k \in Jobs \ {j} : Staged(j, s)[k] = Read[k]
    BY <1>2, <2>1, WrittenRecord
  <2>4. jobs'[j] = [Staged(j, s)[j] EXCEPT !.task = run[r].task]
    BY <1>1, <1>2, <2>2
  <2>5. /\ jobs'[j].status = s /\ jobs'[j].bill = Read[j].bill /\ ~jobs'[j].stale
    BY <1>2, <2>2, <2>3, <2>4 DEF JobRecords
  <2>6. \A k \in Jobs \ {j} : jobs'[k] = Read[k]
    BY <1>1, <2>2, <2>3
  <2> QED
    BY <2>5, <2>6 DEF RecordedAs
<1>4. Around(r) /\ MoveEntry(r) /\ MoveRecord(r) /\ MoveLock
  BY <1>1, <1>2, <1>3, StageFacts
<1>5. CASE run' = Thrown(r, "upstream")
  BY <1>1, <1>4, <1>5, ThrownKeeps DEF Errors
<1>6. CASE run' = [run EXCEPT ![r].pc = "storing"]
  BY <1>1, <1>2, <1>4, <1>6, PlaceKeeps DEF OneRequest
<1>7. CASE run' = [run EXCEPT ![r].pc = "polling"]
  BY <1>1, <1>2, <1>4, <1>7, PlaceKeeps DEF OneRequest
<1> QED
  BY <1>1, <1>5, <1>6, <1>7

LEMMA PolledKeeps ==
  ASSUME IInv, IInv', SInv, NEW r \in Runners, Polled(r)
  PROVE  SInv'
<1> DEFINE j == Job(r)
           s == CASE run[r].poll = "completed" -> "saving"
                  [] run[r].poll = "failed"    -> "failed"
                  [] OTHER                     -> "upstream"
<1>1. /\ run[r].pc = "polled" /\ Holds(r) /\ jobs' = Staged(j, s)
      /\ IF run[r].poll = "failed" THEN run' = Thrown(r, "upstream")
         ELSE \/ run' = [run EXCEPT ![r].pc = "storing"]
              \/ run' = [run EXCEPT ![r].pc = "polling"]
      /\ UNCHANGED << ledger, sent, items, handler, crashes, faults, controller >>
  BY DEF Polled, AtLock, ledgerVars, queueVars, world, bounds
<1>2. j \in Jobs /\ j \in Video /\ run[r] \in RunRecords /\ run \in [Runners -> RunRecords]
  BY <1>1, StepFacts DEF Placed
<1>3. CASE run[r].poll = "failed"
  <2>1. s = "failed" /\ s \in Statuses \ {"absent", "canceled", "succeeded"}
    BY <1>3 DEF Statuses, FinalStatuses
  <2>2. RecordedAs(j, s, Read[j].bill)
    BY <1>1, <1>2, <2>1, RecordWritten
  <2>3. MoveEntry(r) /\ sent'[j] <= Requests(j)
    BY <1>1, QuietEntry
  <2>4. run'[r].pc = "catch"
    BY <1>1, <1>2, <1>3 DEF Thrown, RunRecords
  <2>5. Claim(j, Read[j].bill, ledger[j])
    BY <1>1, StepFacts, ReadClaim DEF Current
  <2>6. MoveRecord(r)
    BY <1>1, <2>1, <2>2, <2>3, <2>4, <2>5, WriteMove
  <2>7. MoveLock /\ Around(r)
    BY <1>1, <2>2, LockMove DEF Around, RecordedAs
  <2> QED
    BY <1>1, <1>3, <2>3, <2>6, <2>7, ThrownKeeps DEF Errors
<1>4. CASE run[r].poll # "failed"
  <2>1. s \in Stages
    BY <1>4 DEF Stages
  <2>2. RecordedAs(j, s, Read[j].bill)
    BY <1>1, <1>2, <2>1, StageRecorded
  <2>3. Around(r) /\ MoveEntry(r) /\ MoveRecord(r) /\ MoveLock
    BY <1>1, <2>1, <2>2, StageFacts
  <2>4. CASE run' = [run EXCEPT ![r].pc = "storing"]
    BY <1>1, <1>2, <2>3, <2>4, PlaceKeeps DEF OneRequest
  <2>5. CASE run' = [run EXCEPT ![r].pc = "polling"]
    BY <1>1, <1>2, <2>3, <2>5, PlaceKeeps DEF OneRequest
  <2> QED
    BY <1>1, <1>4, <2>4, <2>5
<1> QED
  BY <1>3, <1>4

(* The request goes out (runGenerationRequest). *)
LEMMA GatewayKeeps ==
  ASSUME IInv, IInv', SInv, NEW r \in Runners, Gateway(r)
  PROVE  SInv'
<1> DEFINE j == Job(r)
<1>1. /\ run[r].pc = "gateway" /\ Holds(r) /\ jobs' = Staged(j, "gateway")
      /\ \/ /\ run' = [run EXCEPT ![r].pc = "calling"]
            /\ sent' = [sent EXCEPT ![j] = @ + 1]
         \/ run' = Thrown(r, "upstream") /\ UNCHANGED sent
      /\ UNCHANGED << ledger, items, handler, crashes, faults, controller >>
  BY DEF Gateway, AtLock, ledgerVars, queueVars, bounds
<1>2. /\ j \in Jobs /\ ~run[r].resume /\ run[r].job = j
      /\ j \in OneRequest => sent[j] = 0 /\ Requests(j) = 1
      /\ j \notin OneRequest => sent[j] <= run[r].out /\ run[r].out < Count[j]
                                /\ Requests(j) = Count[j]
      /\ sent[j] \in Nat /\ Count[j] \in Nat /\ run[r].out \in Nat
      /\ EntryFull(j, ledger[j]) /\ Grows(ledger[j], ledger[j])
  BY <1>1, StepFacts, SameEntry DEF Placed, Ordered, RunRecords
<1>3. RecordedAs(j, "gateway", Read[j].bill)
  BY <1>1, <1>2, StageRecorded DEF Stages
<1>4. MoveLock
  BY <1>1, LockMove
<1>5. CASE /\ run' = [run EXCEPT ![r].pc = "calling"]
           /\ sent' = [sent EXCEPT ![j] = @ + 1]
  <2>1. sent \in [Jobs -> Nat]
    BY Parts DEF WorldOK
  <2>2. sent'[j] = sent[j] + 1 /\ \A k \in Jobs \ {j} : sent'[k] = sent[k]
    BY <1>2, <1>5, <2>1
  <2>3. sent'[j] <= Requests(j)
    BY <1>2, <2>2
  <2>4. MoveEntry(r)
    BY <1>1, <1>2 DEF MoveEntry
  <2>5. MoveRecord(r)
    BY <1>1, <1>3, <2>3, <2>4, StageMove
  <2>6. Around(r)
    BY <1>1, <1>3, <2>2 DEF Around, RecordedAs
  <2>7. j \notin OneRequest => sent'[j] <= run[r].out + 1
    BY <1>2, <2>2
  <2> DEFINE pc == "calling"
  <2>8. /\ run' = [run EXCEPT ![r].pc = pc] /\ UNCHANGED controller
        /\ pc \in {"calling", "saving", "storing", "polling", "gateway"}
        /\ pc # "gateway" /\ pc # "polling"
        /\ run[r].pc = "gateway" /\ ~run[r].resume
        /\ j \notin OneRequest => run[r].out < Count[j]
    BY <1>1, <1>2, <1>5
  <2> HIDE DEF pc
  <2> QED
    BY <1>4, <2>4, <2>5, <2>6, <2>7, <2>8, PlaceKeeps
<1>6. CASE run' = Thrown(r, "upstream") /\ UNCHANGED sent
  <2>1. Around(r) /\ MoveEntry(r) /\ MoveRecord(r)
    BY <1>1, <1>3, <1>6, StageFacts DEF Stages
  <2> QED
    BY <1>1, <1>4, <1>6, <2>1, ThrownKeeps DEF Errors
<1> QED
  BY <1>1, <1>5, <1>6

(* A runner starts with the bill of the record, or rebuilds it from the    *)
(* entry of a resumed job; neither claims a charge or a refund that is not.*)
LEMMA StartKeeps ==
  ASSUME IInv, IInv', SInv, NEW r \in Runners, Start(r)
  PROVE  SInv'
<1> DEFINE j == Job(r)
           b == StartBill(r)
           pc == FirstStep(r)
           s == IF run[r].resume THEN "upstream" ELSE "dispatching"
           f == [run[r] EXCEPT !.pc = pc, !.bill = b]
<1>1. /\ run[r].pc = "start" /\ Holds(r) /\ jobs' = Updated(j, s, b)
      /\ run' = [run EXCEPT ![r].pc = pc, ![r].bill = b]
      /\ UNCHANGED << ledger, sent, items, handler, crashes, faults, controller >>
  BY DEF Start, AtLock, ledgerVars, queueVars, world, bounds
<1>2. /\ j \in Jobs /\ run[r] \in RunRecords /\ run[r].job = j
      /\ run \in [Runners -> RunRecords]
      /\ Placed(run[r]) /\ Ordered(run[r], sent[j]) /\ Paid(run[r], ledger[j])
      /\ jobs[j].status # "absent" /\ Count[j] \in Nat \ {0}
  BY <1>1, StepFacts DEF Current
<1>3. b \in BillStatuses /\ Claim(j, b, ledger[j])
  <2>1. Claim(j, Read[j].bill, ledger[j]) /\ Read[j].bill \in BillStatuses
    BY <1>2, ReadClaim, ReadFacts DEF JobRecords
  <2>2. b \in {"reserved", "disabled"} \/ b = Read[j].bill
    BY <1>2, AmountType DEF StartBill
  <2> QED
    BY <2>1, <2>2 DEF Claim, BillStatuses
<1>4. s \in Statuses \ {"absent", "canceled", "succeeded"} /\ s # "failed"
  BY DEF Statuses, ActiveStatuses
<1>5. RecordedAs(j, s, b)
  BY <1>1, <1>2, <1>3, <1>4, RecordWritten
<1>6. MoveEntry(r) /\ sent'[j] <= Requests(j)
  BY <1>1, QuietEntry
<1>7. MoveRecord(r)
  BY <1>1, <1>3, <1>4, <1>5, <1>6, WriteMove
<1>8. Around(r) /\ MoveLock
  BY <1>1, <1>5, LockMove DEF Around, RecordedAs
<1>9. pc = IF run[r].resume THEN "tracked" ELSE "gateway"
  BY DEF FirstStep
<1> HIDE DEF b, pc
<1>10. /\ f \in RunRecords /\ f.job = j /\ f.resume = run[r].resume /\ f.pc = pc
       /\ f.out = run[r].out /\ f.bill = b
       /\ run' = [run EXCEPT ![r] = f] /\ run'[r] = f
  <2>1. f \in RunRecords /\ f.job = run[r].job /\ f.resume = run[r].resume /\ f.pc = pc
        /\ f.out = run[r].out /\ f.bill = b
    BY <1>2, <1>3, <1>9 DEF RunRecords, LockedSteps
  <2>2. run' = [run EXCEPT ![r] = f]
    BY <1>1, <1>2
  <2> QED
    BY <1>2, <2>1, <2>2
<1>11. Placed(f)
  BY <1>1, <1>2, <1>9, <1>10 DEF Placed
<1>12. Ordered(f, sent'[j])
  <2>1. run[r].out = 0 /\ (~run[r].resume => sent'[j] = 0)
    BY <1>1, <1>2 DEF Placed, Ordered
  <2> QED
    BY <1>2, <1>9, <1>10, <2>1 DEF Ordered
<1>13. Paid(f, ledger'[j]) /\ Current(f, jobs'[j])
  BY <1>1, <1>2, <1>3, <1>5, <1>7, <1>9, <1>10 DEF Paid, Current, RecordedAs, MoveRecord
<1>14. MoveRun(r)
  BY <1>10, <1>11, <1>12, <1>13 DEF MoveRun, RunnerOK
<1>15. f.pc \notin {"idle", "read"} /\ run[r].pc # "idle" /\ UNCHANGED controller
  BY <1>1, <1>9, <1>10
<1> HIDE DEF f
<1> QED
  BY <1>6, <1>7, <1>8, <1>10, <1>14, <1>15, GoesOn

(* The provider accepts a video (attachGenerationTask). *)
LEMMA VideoAnswerKeeps ==
  ASSUME IInv, IInv', SInv, NEW r \in Runners, VideoAnswer(r)
  PROVE  SInv'
<1> DEFINE j == Job(r)
<1>1. /\ run[r].pc = "calling" /\ j \in Video /\ Await(r)
      /\ ledger' = ledger \/ ledger' = [ledger EXCEPT ![j] = Attached(@, sent[j])]
      /\ UNCHANGED << jobs, sent, items, handler, crashes, faults, controller >>
  BY DEF VideoAnswer, ledgerVars, queueVars, bounds
<1>2. /\ j \in Jobs /\ run[r] \in RunRecords /\ run[r].job = j
      /\ run \in [Runners -> RunRecords] /\ ~run[r].resume
      /\ ledger[j] \in Entries /\ EntryFull(j, ledger[j]) /\ sent[j] \in Nat
      /\ sent[j] <= Requests(j)
  BY <1>1, StepFacts DEF Placed
<1>3. MoveEntry(r) /\ \A k \in Jobs \ {j} : ledger'[k] = ledger[k]
  <2>1. ledger \in [Jobs -> Entries]
    BY Parts DEF BillingOK
  <2>2. ledger'[j] = ledger[j] \/ ledger'[j] = Attached(ledger[j], sent[j])
    BY <1>1, <1>2, <2>1
  <2>3. \A k \in Jobs \ {j} : ledger'[k] = ledger[k]
    BY <1>1, <2>1
  <2>4. EntryFull(j, ledger'[j]) /\ Grows(ledger[j], ledger'[j])
    BY <1>2, <2>2, SameEntry
  <2> QED
    BY <1>1, <2>3, <2>4 DEF MoveEntry
<1>4. MoveRecord(r) /\ Around(r) /\ MoveLock
  BY <1>1, <1>2, <1>3, QuietMove, LockMove DEF Around
<1>5. CASE run' = Thrown(r, "upstream")
  BY <1>1, <1>3, <1>4, <1>5, ThrownKeeps DEF Errors
<1>6. ASSUME NEW s \in TaskStates,
             run' = [ run EXCEPT ![r].pc = "tracked", ![r].poll = s, ![r].task = sent[j] ]
      PROVE  SInv'
  <2> DEFINE f == [run[r] EXCEPT !.pc = "tracked", !.poll = s, !.task = sent[j]]
  <2>1. f \in RunRecords /\ f.job = run[r].job /\ f.resume = run[r].resume
        /\ f.pc = "tracked" /\ f.out = run[r].out /\ f.bill = run[r].bill
    BY <1>2 DEF RunRecords, LockedSteps
  <2>2. run' = [run EXCEPT ![r] = f] /\ run'[r] = f
    BY <1>2, <1>6
  <2>3. Placed(f) /\ Ordered(f, sent'[j])
    BY <1>1, <1>2, <2>1 DEF Placed, Ordered, OneRequest
  <2>4. MoveRun(r)
    BY <1>1, <1>2, <1>3, <1>4, <2>1, <2>2, <2>3, RunMove
  <2> QED
    BY <1>1, <1>2, <1>3, <1>4, <2>1, <2>2, <2>4, GoesOn
<1> QED
  BY <1>5, <1>6 DEF VideoAnswer

(* An output is stored, and counted in the entry (recordGenerationOutput). *)
LEMMA StoreKeeps ==
  ASSUME IInv, IInv', SInv, NEW r \in Runners, Store(r)
  PROVE  SInv'
<1> DEFINE j == Job(r)
           o == run[r].out + 1
           platform == Source[j] = "platform"
           f == [run[r] EXCEPT !.pc = "stored", !.out = o]
<1>1. /\ run[r].pc = "storing" /\ Await(r)
      /\ \/ run' = Thrown(r, "upstream") /\ UNCHANGED ledger
         \/ /\ run' = [run EXCEPT ![r].pc = "stored", ![r].out = o]
            /\ ledger' = IF platform
                         THEN [ledger EXCEPT ![j] = RecordedOutput(@, o)] ELSE ledger
            /\ platform => CanRecord(j, ledger[j], o)
      /\ UNCHANGED << jobs, sent, items, handler, crashes, faults, controller >>
  BY DEF Store, ledgerVars, queueVars, world, bounds
<1>2. /\ j \in Jobs /\ run[r] \in RunRecords /\ run[r].job = j
      /\ run \in [Runners -> RunRecords] /\ run[r].out \in Nat /\ o \in Nat
      /\ Placed(run[r]) /\ Ordered(run[r], sent[j]) /\ Paid(run[r], ledger[j])
      /\ Current(run[r], jobs[j])
      /\ ledger[j] \in Entries /\ EntryFull(j, ledger[j]) /\ sent[j] <= Requests(j)
  BY <1>1, StepFacts DEF RunRecords
<1>3. CASE run' = Thrown(r, "upstream") /\ UNCHANGED ledger
  <2>1. Around(r) /\ MoveEntry(r) /\ MoveRecord(r) /\ MoveLock
    BY <1>1, <1>3, WaitFacts
  <2> QED
    BY <1>1, <1>3, <2>1, ThrownKeeps DEF Errors
<1>4. CASE /\ run' = [run EXCEPT ![r].pc = "stored", ![r].out = o]
           /\ ledger' = IF platform
                        THEN [ledger EXCEPT ![j] = RecordedOutput(@, o)] ELSE ledger
           /\ platform => CanRecord(j, ledger[j], o)
  <2>1. /\ \A k \in Jobs \ {j} : ledger'[k] = ledger[k]
        /\ ledger'[j] = IF platform THEN RecordedOutput(ledger[j], o) ELSE ledger[j]
    BY <1>2, <1>4, Parts DEF BillingOK
  <2>2. /\ ledger'[j] \in Entries /\ EntryFull(j, ledger'[j])
        /\ Grows(ledger[j], ledger'[j])
        /\ platform => ledger'[j].delivered = ledger[j].delivered \cup {o}
    BY <1>2, <1>4, <2>1, OutputEntry, SameEntry
  <2>3. MoveEntry(r)
    BY <1>1, <2>2 DEF MoveEntry
  <2>4. MoveRecord(r) /\ Around(r) /\ MoveLock
    BY <1>1, <1>2, <2>1, <2>3, QuietMove, LockMove DEF Around
  <2> HIDE DEF o
  <2>5. /\ f \in RunRecords /\ f.job = run[r].job /\ f.resume = run[r].resume
        /\ f.pc = "stored" /\ f.out = o /\ f.bill = run[r].bill
    BY <1>2 DEF RunRecords, LockedSteps
  <2>6. run' = [run EXCEPT ![r] = f] /\ run'[r] = f
    BY <1>2, <1>4
  <2>7. Placed(f) /\ Ordered(f, sent'[j])
    BY <1>1, <1>2, <2>5 DEF Placed, Ordered, o
  <2>8. Paid(f, ledger'[j])
    <3>1. platform => 1 .. f.out \subseteq ledger'[j].delivered
      <4>1. \A i \in 1 .. o : i \in 1 .. run[r].out \/ i = o
        BY <1>2 DEF o
      <4> QED
        BY <1>2, <2>2, <2>5, <4>1 DEF Paid
    <3>2. Claim(j, f.bill, ledger'[j])
      BY <1>1, <1>2, <2>2, <2>5, ClaimKept DEF Paid
    <3> QED
      BY <1>2, <2>5, <3>1, <3>2 DEF Paid
  <2>9. MoveRun(r)
    BY <1>1, <1>2, <2>5, <2>6, <2>7, <2>8 DEF MoveRun, RunnerOK, Current
  <2> HIDE DEF f
  <2> QED
    BY <1>1, <1>2, <2>3, <2>4, <2>5, <2>6, <2>9, GoesOn
<1> QED
  BY <1>1, <1>3, <1>4

(* After the last output the job is charged for all of them, and its entry *)
(* is settled unless the record leaves it to reconciliation.               *)
LEMMA ChargeFacts ==
  ASSUME NEW j \in Jobs, NEW e \in Entries, NEW d \in Entries, NEW bill,
         EntryFull(j, e), Billed(j) /\ Recorded(j) => e.open, Claim(j, bill, e),
         Source[j] = "platform" => 1 .. Count[j] \subseteq e.delivered,
         d = IF ChargeApplies(bill) THEN SettledEntry(j, e) ELSE e
  PROVE  /\ EntryFull(j, d) /\ Grows(e, d) /\ Claim(j, Charged(j, bill), d)
         /\ Source[j] = "platform" /\ Amount(j) > 0
              => d.settled \/ Charged(j, bill) = "unknown"
<1>1. Source[j] = "platform" => Kept(j, e) = Amount(j) /\ e.back = 0 /\ e.open /\ Billed(j)
  BY EntryBounds DEF Billed, Recorded
<1>2. Amount(j) \in Nat /\ e.back \in Nat
  BY AmountType DEF Entries
<1>3. CASE ChargeApplies(bill)
  <2>1. d = SettledEntry(j, e)
    BY <1>3
  <2>2. EntryFull(j, d) /\ Grows(e, d) /\ d.back = e.back
        /\ (e.open /\ Source[j] = "platform" => d.settled)
    BY <1>1, <1>2, <2>1, SettleFull DEF EntryFull
  <2>3. Charged(j, bill) = IF Amount(j) = 0 THEN "disabled" ELSE "charged"
    BY <1>3 DEF Charged
  <2>4. Claim(j, Charged(j, bill), d)
    BY <1>1, <2>2, <2>3 DEF Claim
  <2> QED
    BY <1>1, <2>2, <2>4
<1>4. CASE ~ChargeApplies(bill)
  <2>1. d = e /\ Charged(j, bill) = bill
    BY <1>4 DEF Charged
  <2>2. bill \in {"none", "charged", "refunded", "unknown"}
    BY <1>4 DEF ChargeApplies
  <2>3. Source[j] = "platform" /\ Amount(j) > 0 => e.settled \/ bill = "unknown"
    BY <1>1, <1>2, <2>2 DEF Claim
  <2> QED
    BY <2>1, <2>3, SameEntry
<1> QED
  BY <1>3, <1>4

LEMMA StoredKeeps ==
  ASSUME IInv, IInv', SInv, NEW r \in Runners, Stored(r)
  PROVE  SInv'
<1> DEFINE j == Job(r)
           s == IF j \in Video THEN "video" ELSE "image"
<1>1. /\ run[r].pc = "stored" /\ Holds(r) /\ jobs' = Staged(j, s)
      /\ UNCHANGED << sent, items, handler, crashes, faults, controller >>
  BY DEF Stored, AtLock, queueVars, world, bounds
<1>2. /\ j \in Jobs /\ run[r] \in RunRecords /\ run[r].job = j
      /\ run \in [Runners -> RunRecords]
      /\ run[r].out \in Nat /\ run[r].out >= 1 /\ Count[j] \in Nat
      /\ Placed(run[r]) /\ Ordered(run[r], sent[j]) /\ Paid(run[r], ledger[j])
      /\ Claim(j, run[r].bill, ledger[j])
      /\ Current(run[r], jobs[j])
      /\ Billed(j) /\ Recorded(j) => ledger[j].open
      /\ ledger[j] \in Entries /\ EntryFull(j, ledger[j])
      /\ sent[j] \in Nat /\ sent[j] <= Requests(j)
      /\ j \in Video => Count[j] = 1
  BY <1>1, StepFacts DEF RunRecords, Placed, Paid, JobOK, Current
<1>3. s \in Stages
  BY DEF Stages
<1>4. RecordedAs(j, s, Read[j].bill)
  BY <1>1, <1>2, <1>3, StageRecorded
<1>5. CASE /\ LastOutput(r)
           /\ Charge(j, run[r].bill)
           /\ run' = [ run EXCEPT ![r].pc = "finish",
                                  ![r].bill = Charged(j, run[r].bill) ]
  <2> DEFINE b == Charged(j, run[r].bill)
             f == [run[r] EXCEPT !.pc = "finish", !.bill = b]
  <2>1. run[r].out >= Count[j]
    BY <1>5 DEF LastOutput
  <2>2. /\ \A k \in Jobs \ {j} : ledger'[k] = ledger[k]
        /\ ledger'[j] = IF ChargeApplies(run[r].bill)
                        THEN SettledEntry(j, ledger[j]) ELSE ledger[j]
    BY <1>2, <1>5, Parts DEF BillingOK, Charge
  <2>3. Source[j] = "platform" => 1 .. Count[j] \subseteq ledger[j].delivered
    <3>1. 1 .. Count[j] \subseteq 1 .. run[r].out
      BY <1>2, <2>1
    <3> QED
      BY <1>2, <3>1 DEF Paid
  <2>4. ledger'[j] \in Entries
    BY <1>2 DEF IInv, TypeOK
  <2>5. /\ EntryFull(j, ledger'[j]) /\ Grows(ledger[j], ledger'[j])
        /\ Claim(j, b, ledger'[j])
        /\ Source[j] = "platform" /\ Amount(j) > 0
             => ledger'[j].settled \/ b = "unknown"
    BY <1>2, <2>2, <2>3, <2>4, ChargeFacts
  <2>6. MoveEntry(r)
    BY <1>1, <2>5 DEF MoveEntry
  <2>7. MoveRecord(r)
    BY <1>1, <1>2, <1>3, <1>4, <2>6, StageMove DEF Stages
  <2>8. Around(r) /\ MoveLock
    BY <1>1, <1>4, <2>2, LockMove DEF Around, RecordedAs
  <2>9. b \in BillStatuses
    BY <1>2 DEF Charged, BillStatuses, RunRecords
  <2> HIDE DEF b
  <2>10. /\ f \in RunRecords /\ f.job = run[r].job /\ f.resume = run[r].resume
         /\ f.pc = "finish" /\ f.out = run[r].out /\ f.bill = b
    BY <1>2, <2>9 DEF RunRecords, LockedSteps
  <2>11. run' = [run EXCEPT ![r] = f] /\ run'[r] = f
    BY <1>2, <1>5 DEF b
  <2>12. Placed(f) /\ Ordered(f, sent'[j])
    BY <1>1, <1>2, <2>1, <2>10 DEF Placed, Ordered
  <2>13. Paid(f, ledger'[j])
    BY <1>1, <1>2, <2>5, <2>10 DEF Paid, Grows
  <2>14. Current(f, jobs'[j])
    BY <1>4, <2>7 DEF Current, MoveRecord, RecordedAs
  <2>15. MoveRun(r)
    BY <2>11, <2>12, <2>13, <2>14 DEF MoveRun, RunnerOK
  <2> HIDE DEF f
  <2> QED
    BY <1>1, <1>2, <2>6, <2>7, <2>8, <2>10, <2>11, <2>15, GoesOn
<1>6. CASE ~LastOutput(r) /\ UNCHANGED ledger
  <2>1. run[r].out < Count[j] /\ j \notin Video /\ ~run[r].resume
    BY <1>2, <1>6 DEF LastOutput, Placed
  <2>2. Around(r) /\ MoveEntry(r) /\ MoveRecord(r) /\ MoveLock
    BY <1>1, <1>3, <1>4, <1>6, StageFacts
  <2>3. CASE j \in Batch /\ run' = [run EXCEPT ![r].pc = "storing"]
    <3> DEFINE pc == "storing"
    <3>1. /\ run' = [run EXCEPT ![r].pc = pc] /\ UNCHANGED controller
          /\ pc \in {"calling", "saving", "storing", "polling", "gateway"}
          /\ pc # "polling" /\ pc # "gateway" /\ run[r].pc = "stored"
          /\ j \in OneRequest
      BY <1>1, <2>3 DEF OneRequest
    <3> HIDE DEF pc
    <3> QED
      BY <2>1, <2>2, <3>1, PlaceKeeps
  <2>4. CASE j \notin Batch /\ run' = [run EXCEPT ![r].pc = "gateway"]
    <3>1. j \notin OneRequest /\ sent'[j] <= run[r].out /\ sent'[j] <= run[r].out + 1
      BY <1>1, <1>2, <2>1, <2>4 DEF OneRequest, Ordered
    <3> DEFINE pc == "gateway"
    <3>2. /\ run' = [run EXCEPT ![r].pc = pc] /\ UNCHANGED controller
          /\ pc \in {"calling", "saving", "storing", "polling", "gateway"}
          /\ pc # "polling" /\ run[r].pc = "stored"
      BY <1>1, <2>4
    <3> HIDE DEF pc
    <3> QED
      BY <2>1, <2>2, <3>1, <3>2, PlaceKeeps
  <2> QED
    BY <1>6, <2>3, <2>4 DEF Stored, ledgerVars
<1> QED
  BY <1>5, <1>6 DEF Stored, ledgerVars

(* A runner ends: its slot is given back and, unless it never got that     *)
(* far, the controller of its job forgotten (finally).                     *)
LEMMA EndsKeeps ==
  ASSUME IInv, IInv', SInv, NEW r \in Runners, run[r].pc # "idle",
         \/ Finally(r)
         \/ Leave(r) /\ run[r].pc = "read" /\ UNCHANGED controller,
         Around(r), MoveEntry(r), MoveRecord(r), MoveLock
  PROVE  SInv'
<1>1. Leave(r)
  BY DEF Finally
<1>2. MoveFrame(r) /\ MoveRun(r)
  BY <1>1, LeaveMove DEF MoveFrame, Around
<1>3. MoveController(r)
  <2>1. CASE Finally(r)
    <3>1. controller \in [Jobs -> Runners \cup {NoRunner}]
      BY Parts DEF ControllerOK
    <3>2. \A k \in Jobs : controller[k] = r => k = Job(r)
      BY JobsAssumption DEF SInv, ControllersOK
    <3> QED
      BY <2>1, <3>1, <3>2 DEF Finally, MoveController
  <2>2. CASE run[r].pc = "read" /\ UNCHANGED controller
    BY <2>2, SameController
  <2> QED
    BY <2>1, <2>2
<1> QED
  BY <1>2, <1>3, MoveKeeps

LEMMA HistoryKeeps ==
  ASSUME IInv, IInv', SInv, NEW r \in Runners, History(r)
  PROVE  SInv'
<1>1. /\ run[r].pc = "history" /\ Finally(r)
      /\ UNCHANGED << jobs, ledger, sent, items, handler, crashes, faults, lock >>
  BY DEF History, ledgerVars, world, bounds, Finally, Leave
<1>2. Around(r) /\ MoveEntry(r) /\ MoveRecord(r) /\ MoveLock
  BY <1>1, WaitFacts
<1> QED
  BY <1>1, <1>2, EndsKeeps

(* The job is reported: all of its outputs are delivered and paid.         *)
LEMMA FinishKeeps ==
  ASSUME IInv, IInv', SInv, NEW r \in Runners, Finish(r)
  PROVE  SInv'
<1> DEFINE j == Job(r)
           b == run[r].bill
           f == [run[r] EXCEPT !.pc = "history"]
<1>1. /\ run[r].pc = "finish" /\ Holds(r) /\ jobs' = Updated(j, "succeeded", b)
      /\ run' = [run EXCEPT ![r] = f]
      /\ UNCHANGED << ledger, sent, items, handler, crashes, faults, controller >>
  BY DEF Finish, AtLock, ledgerVars, queueVars, world, bounds
<1>2. /\ j \in Jobs /\ run[r] \in RunRecords /\ run[r].job = j
      /\ run \in [Runners -> RunRecords] /\ b \in BillStatuses
      /\ run[r].out \in Nat /\ run[r].out >= Count[j] /\ Count[j] \in Nat
      /\ Placed(run[r]) /\ Paid(run[r], ledger[j])
      /\ JobOK(j, jobs[j], ledger[j], sent[j]) /\ jobs[j].status # "absent"
  BY <1>1, StepFacts DEF RunRecords, Placed, Current
<1>3. RecordedAs(j, "succeeded", b)
  BY <1>1, <1>2, RecordWritten DEF Statuses, FinalStatuses
<1>4. MoveEntry(r)
  BY <1>1, QuietEntry
<1>5. Source[j] = "platform" => 1 .. Count[j] \subseteq ledger[j].delivered
  <2>1. 1 .. Count[j] \subseteq 1 .. run[r].out
    BY <1>2
  <2> QED
    BY <1>2, <2>1 DEF Paid
<1>6. JobOK(j, jobs'[j], ledger'[j], sent'[j])
  BY <1>1, <1>2, <1>3, <1>5 DEF JobOK, Paid, RecordedAs
<1>7. MoveRecord(r)
  BY <1>3, <1>6 DEF MoveRecord, RecordedAs
<1>8. Around(r) /\ MoveLock
  BY <1>1, <1>3, LockMove DEF Around, RecordedAs
<1>9. /\ f \in RunRecords /\ f.job = run[r].job /\ f.resume = run[r].resume
      /\ f.pc = "history" /\ f.out = run[r].out /\ f.bill = run[r].bill
  BY <1>2 DEF RunRecords, OpenSteps
<1>10. Placed(f) /\ Ordered(f, sent'[j]) /\ run'[r] = f
  BY <1>1, <1>2, <1>9 DEF Placed, Ordered
<1>11. MoveRun(r)
  BY <1>1, <1>2, <1>4, <1>7, <1>9, <1>10, RunMove
<1> HIDE DEF f
<1> QED
  BY <1>1, <1>2, <1>4, <1>7, <1>8, <1>9, <1>11, GoesOn

(* A refund, as a failure or a cancel makes it: afterwards nothing is left *)
(* to give back, and the new bill says so (refundJobCredits).              *)
LEMMA RefundFacts ==
  ASSUME IInv, IInv', NEW j \in Jobs, NEW bill \in BillStatuses,
         EntryFull(j, ledger[j]), Billed(j) /\ Recorded(j) => ledger[j].open,
         Claim(j, bill, ledger[j]), Refund(j, bill)
  PROVE  /\ EntryFull(j, ledger'[j]) /\ Grows(ledger[j], ledger'[j])
         /\ Claim(j, Refunded(j, bill), ledger'[j])
         /\ Refunded(j, bill) \in BillStatuses
         /\ Billed(j) => Closed(j, ledger'[j])
         /\ \A k \in Jobs \ {j} : ledger'[k] = ledger[k]
<1> DEFINE e == ledger[j]
           d == ledger'[j]
           back == RefundedEntry(j, e).back
<1>1. /\ e \in Entries /\ d \in Entries /\ ledger \in [Jobs -> Entries]
      /\ e.back \in Nat /\ e.back <= Amount(j) /\ (e.back > 0 => e.refunded)
      /\ Amount(j) \in Nat
  <2>1. ledger \in [Jobs -> Entries] /\ ledger' \in [Jobs -> Entries]
    BY DEF IInv, TypeOK
  <2> QED
    BY <2>1, EntryBounds, AmountType
<1>2. \A k \in Jobs \ {j} : ledger'[k] = ledger[k]
  BY <1>1 DEF Refund, ledgerVars
<1>3. Refunded(j, bill) \in BillStatuses
  BY DEF Refunded, BillStatuses
<1>4. CASE RefundApplies(j, bill) /\ Amount(j) > 0
  <2>1. d = SettledEntry(j, RefundedEntry(j, e)) /\ ~(Source[j] = "platform" /\ e.settled)
    BY <1>1, <1>4 DEF Refund, RefundApplies
  <2>2. /\ EntryFull(j, d) /\ Grows(e, d) /\ d.back = back
        /\ e.open => Closed(j, d)
        /\ e.open /\ Source[j] = "platform" => d.settled
    BY <1>1, <1>4, <2>1, RefundFull
  <2>3. Billed(j) => e.open
    BY <1>4 DEF Recorded
  <2>4. d.back \in Nat /\ d.back <= Amount(j)
    BY <1>1, <2>2, EntryBounds
  <2>5. Claim(j, Refunded(j, bill), d)
    <3>1. Refunded(j, bill) =
            IF Source[j] # "platform" \/ d.back = Amount(j) THEN "refunded"
            ELSE IF d.back = 0 THEN "charged" ELSE "partially_refunded"
      BY <1>1, <1>4, <2>2 DEF Refunded
    <3>2. Source[j] # "platform" /\ Billed(j) => d.back = Amount(j)
      BY <2>2, <2>3 DEF Closed
    <3>3. Billed(j) /\ Source[j] = "platform" => d.settled
      BY <2>2, <2>3
    <3> QED
      BY <1>1, <2>4, <3>1, <3>2, <3>3 DEF Claim
  <2> QED
    BY <1>2, <1>3, <2>2, <2>3, <2>5
<1>5. CASE ~(RefundApplies(j, bill) /\ Amount(j) > 0)
  <2>1. d = e
    BY <1>5 DEF Refund, ledgerVars
  <2>2. Grows(e, d) /\ EntryFull(j, d)
    BY <1>1, <2>1, SameEntry
  <2>3. Refunded(j, bill) = IF RefundApplies(j, bill) THEN "disabled" ELSE bill
    BY <1>1, <1>5 DEF Refunded
  <2>4. Claim(j, Refunded(j, bill), d)
    BY <2>1, <2>3 DEF Claim
  <2>5. ASSUME Billed(j) PROVE Closed(j, d)
    <3>1. CASE Amount(j) = 0
      BY <1>1, <2>1, <3>1 DEF Closed
    <3>2. CASE Amount(j) > 0
      <4>1. bill = "refunded" \/ (Source[j] = "platform" /\ e.settled)
        BY <1>5, <2>5, <3>2 DEF RefundApplies, Claim
      <4>2. bill = "refunded" => e.back = Amount(j)
        BY <2>5 DEF Claim
      <4>3. e.back = Amount(j) /\ Source[j] = "platform" => e.settled
        BY <1>1, <3>2 DEF EntryFull
      <4> QED
        BY <2>1, <4>1, <4>2, <4>3 DEF Closed
    <3> QED
      BY <1>1, <3>1, <3>2
  <2> QED
    BY <1>2, <1>3, <2>2, <2>4, <2>5
<1> QED
  BY <1>4, <1>5

(* The exception is classified: what a failure owes is given back before   *)
(* the failure is recorded (the catch of runGenerationJob).                *)
LEMMA CatchKeeps ==
  ASSUME IInv, IInv', SInv, NEW r \in Runners, Catch(r)
  PROVE  SInv'
<1> DEFINE j == Job(r)
           bill == Read[j].bill
<1>1. /\ run[r].pc = "catch" /\ Holds(r) /\ jobs' = Read
      /\ UNCHANGED << sent, items, handler, crashes, faults, controller >>
  BY DEF Catch, AtLock, queueVars, world, bounds
<1>2. /\ j \in Jobs /\ run[r] \in RunRecords /\ run[r].job = j
      /\ run \in [Runners -> RunRecords] /\ Placed(run[r]) /\ Paid(run[r], ledger[j])
      /\ Current(run[r], jobs[j]) /\ jobs[j].status # "absent"
      /\ ledger[j] \in Entries /\ EntryFull(j, ledger[j])
      /\ sent[j] <= Requests(j)
      /\ Billed(j) /\ Recorded(j) => ledger[j].open
  BY <1>1, StepFacts DEF Current, JobOK
<1>3. Claim(j, bill, ledger[j]) /\ bill \in BillStatuses
  BY <1>2, ReadClaim, ReadFacts DEF JobRecords
<1>4. ASSUME NEW final \in {"failed", "unknown"}, NEW b \in BillStatuses,
             run' = [ run EXCEPT ![r].pc = "fail", ![r].final = final, ![r].bill = b ],
             EntryFull(j, ledger'[j]), Grows(ledger[j], ledger'[j]),
             \A k \in Jobs \ {j} : ledger'[k] = ledger[k],
             Claim(j, b, ledger'[j]),
             final = "failed" /\ Billed(j) => Closed(j, ledger'[j])
      PROVE  SInv'
  <2> DEFINE f == [run[r] EXCEPT !.pc = "fail", !.final = final, !.bill = b]
  <2>1. /\ f \in RunRecords /\ f.job = run[r].job /\ f.resume = run[r].resume
        /\ f.pc = "fail" /\ f.out = run[r].out /\ f.bill = b /\ f.final = final
    BY <1>2 DEF RunRecords, LockedSteps
  <2>2. run' = [run EXCEPT ![r] = f] /\ run'[r] = f
    BY <1>2, <1>4
  <2>3. MoveEntry(r)
    BY <1>1, <1>4 DEF MoveEntry
  <2>4. MoveRecord(r)
    BY <1>1, <1>2, <2>1, <2>2, <2>3, QuietMove
  <2>5. Around(r) /\ MoveLock
    BY <1>1, <1>4, LockMove DEF Around
  <2>6. Placed(f) /\ Ordered(f, sent'[j])
    BY <1>1, <1>2, <2>1 DEF Placed, Ordered
  <2>7. Paid(f, ledger'[j])
    BY <1>1, <1>2, <1>4, <2>1 DEF Paid, Grows
  <2>8. Current(f, jobs'[j])
    BY <1>2, <2>1, <2>4 DEF Current, MoveRecord
  <2>9. MoveRun(r)
    BY <2>2, <2>6, <2>7, <2>8 DEF MoveRun, RunnerOK
  <2> HIDE DEF f
  <2> QED
    BY <1>1, <1>2, <2>1, <2>2, <2>3, <2>4, <2>5, <2>9, GoesOn
<1>5. CASE /\ run' = [ run EXCEPT ![r].pc = "fail", ![r].final = "unknown",
                                  ![r].bill = MarkedUnknown(j, bill) ]
           /\ UNCHANGED ledger
  <2>1. MarkedUnknown(j, bill) \in BillStatuses
    BY <1>3 DEF MarkedUnknown, BillStatuses
  <2>2. Claim(j, MarkedUnknown(j, bill), ledger'[j])
    BY <1>2, <1>3, UnknownClaims
  <2>3. Grows(ledger[j], ledger'[j]) /\ EntryFull(j, ledger'[j])
    BY <1>2, <1>5, SameEntry
  <2> QED
    BY <1>4, <1>5, <2>1, <2>2, <2>3
<1>6. CASE /\ run' = [ run EXCEPT ![r].pc = "fail", ![r].final = "failed",
                                  ![r].bill = Refunded(j, bill) ]
           /\ Refund(j, bill)
  <2>1. /\ EntryFull(j, ledger'[j]) /\ Grows(ledger[j], ledger'[j])
        /\ Claim(j, Refunded(j, bill), ledger'[j])
        /\ Refunded(j, bill) \in BillStatuses
        /\ Billed(j) => Closed(j, ledger'[j])
        /\ \A k \in Jobs \ {j} : ledger'[k] = ledger[k]
    BY <1>2, <1>3, <1>6, RefundFacts
  <2> QED
    BY <1>4, <1>6, <2>1
<1> QED
  BY <1>5, <1>6 DEF Catch, ledgerVars

LEMMA FailKeeps ==
  ASSUME IInv, IInv', SInv, NEW r \in Runners, Fail(r)
  PROVE  SInv'
<1> DEFINE j == Job(r)
           s == run[r].final
           b == run[r].bill
<1>1. /\ run[r].pc = "fail" /\ Holds(r) /\ jobs' = Updated(j, s, b) /\ Finally(r)
      /\ UNCHANGED << ledger, sent, items, handler, crashes, faults >>
  BY DEF Fail, AtLock, ledgerVars, world, bounds, Finally, Leave
<1>2. /\ j \in Jobs /\ run[r] \in RunRecords /\ run[r].job = j
      /\ b \in BillStatuses /\ s \in {"failed", "unknown"} /\ Paid(run[r], ledger[j])
  BY <1>1, StepFacts DEF RunRecords
<1>3. s \in Statuses \ {"absent", "canceled", "succeeded"}
  BY <1>2 DEF Statuses, FinalStatuses
<1>4. RecordedAs(j, s, b)
  BY <1>1, <1>2, <1>3, RecordWritten
<1>5. MoveEntry(r) /\ sent'[j] <= Requests(j)
  BY <1>1, QuietEntry
<1>6. Claim(j, b, ledger[j]) /\ (s = "failed" /\ Billed(j) => Closed(j, ledger'[j]))
  BY <1>1, <1>2 DEF Paid
<1>7. MoveRecord(r)
  BY <1>1, <1>3, <1>4, <1>5, <1>6, WriteMove
<1>8. Around(r) /\ MoveLock
  BY <1>1, <1>4, LockMove DEF Around, RecordedAs
<1> QED
  BY <1>1, <1>5, <1>7, <1>8, EndsKeeps

(* A write that fails leaves the records as they are (fs errors). *)
LEMMA RunnerFaultKeeps ==
  ASSUME IInv, IInv', SInv, NEW r \in Runners, RunnerFault(r)
  PROVE  SInv'
<1>1. /\ run[r].pc # "idle" /\ faults' # 0
      /\ UNCHANGED << jobs, ledger, sent, items, handler, crashes >>
      /\ Holds(r) \/ Await(r)
  <2>1. run[r].pc # "idle" /\ (Holds(r) \/ Await(r))
    BY DEF RunnerFault, LockedSteps
  <2>2. faults' = faults + 1 /\ faults \in Nat
    BY Parts DEF RunnerFault, BoundsOK
  <2>3. UNCHANGED << jobs, ledger, sent, items, handler, crashes >>
    BY DEF RunnerFault, ledgerVars, queueVars, world, Finally, Leave
  <2> QED
    BY <2>1, <2>2, <2>3
<1>2. MoveEntry(r) /\ sent'[Job(r)] <= Requests(Job(r))
  BY <1>1, QuietEntry
<1>3. MoveRecord(r)
  BY <1>1, <1>2, QuietMove
<1>4. MoveLock /\ Around(r)
  BY <1>1, LockMove DEF Around
<1>5. CASE run' = Thrown(r, "upstream") /\ UNCHANGED controller
  BY <1>1, <1>2, <1>3, <1>4, <1>5, ThrownKeeps DEF Errors
<1>6. CASE Finally(r)
  BY <1>1, <1>2, <1>3, <1>4, <1>6, EndsKeeps
<1>7. CASE Leave(r) /\ run[r].pc = "read" /\ UNCHANGED controller
  BY <1>1, <1>2, <1>3, <1>4, <1>7, EndsKeeps
<1> QED
  BY <1>5, <1>6, <1>7 DEF RunnerFault

(* Every step of a runner keeps the invariant. *)
LEMMA RunnersKeep ==
  ASSUME IInv, IInv', SInv, NEW r \in Runners,
         \/ RunnerStep(r) \/ ProviderStep(r) \/ History(r) \/ Timeout(r)
         \/ RunnerFault(r)
  PROVE  SInv'
  BY DropKeeps, TakeKeeps, StartKeeps, GatewayKeeps, WaitFailsKeeps, SavingKeeps,
     StoreKeeps, StoredKeeps, TrackedKeeps, PolledKeeps, FinishKeeps, CatchKeeps,
     FailKeeps, ImageAnswerKeeps, VideoAnswerKeeps, PollKeeps, HistoryKeeps,
     TimeoutKeeps, RunnerFaultKeeps
  DEF RunnerStep, ProviderStep

-------------------------------------------------------------------------------
(* What a step of a request may do, and that it then keeps the books, the  *)
(* jobs and the runners in order.                                          *)

Alike(f, g) ==
  /\ f.pc = g.pc /\ f.job = g.job /\ f.resume = g.resume
  /\ f.out = g.out /\ f.bill = g.bill /\ f.final = g.final
RequestFrame ==
  /\ \A r \in Runners : Alike(run'[r], run[r])
  /\ UNCHANGED << controller, sent, crashes >>
  /\ faults' = 0 => faults = 0
  /\ \A k \in Jobs :
       /\ EntryFull(k, ledger'[k])
       /\ JobOK(k, jobs'[k], ledger'[k], sent[k])
       /\ jobs[k].status # "absent"
            => Grows(ledger[k], ledger'[k]) /\ jobs'[k].status # "absent"
       /\ jobs'[k].stale => jobs[k].stale
       /\ jobs'[k].status = "failed" => jobs[k].status = "failed"

LEMMA RequestMove ==
  ASSUME IInv, IInv', SInv, RequestFrame
  PROVE  /\ EntriesFull' /\ JobsOK' /\ RunnersOK' /\ FirstRunAlone'
         /\ ControllersOK' /\ FailedOK'
<1>1. EntriesFull' /\ JobsOK'
  BY DEF RequestFrame, EntriesFull, JobsOK
<1>2. \A r \in Runners : /\ Alike(run'[r], run[r]) /\ (r \in Busy' <=> r \in Busy)
                         /\ run'[r].job = run[r].job /\ run'[r].pc = run[r].pc
                         /\ run'[r].resume = run[r].resume
  BY DEF RequestFrame, Alike, Busy
<1>3. RunnersOK'
  <2> SUFFICES ASSUME NEW r \in Runners, run'[r].pc # "idle"
               PROVE  LET k == run'[r].job
                      IN  RunnerOK(run'[r], jobs'[k], ledger'[k], sent'[k])
    BY DEF RunnersOK, RunnerOK, Job
  <2> DEFINE k == run[r].job
  <2>1. r \in Busy /\ run'[r].job = k /\ sent' = sent
    BY <1>2 DEF RequestFrame, Busy
  <2>2. /\ k \in Jobs /\ Placed(run[r]) /\ Ordered(run[r], sent[k])
        /\ Paid(run[r], ledger[k]) /\ Current(run[r], jobs[k])
        /\ ledger[k] \in Entries /\ EntryFull(k, ledger[k])
    BY <2>1, SafetyFacts DEF Job
  <2>3. ledger'[k] \in Entries /\ EntryFull(k, ledger'[k]) /\ Grows(ledger[k], ledger'[k])
    BY <2>2 DEF RequestFrame, Current, IInv, TypeOK
  <2>4. /\ Claim(k, run[r].bill, ledger[k]) => Claim(k, run[r].bill, ledger'[k])
        /\ Closed(k, ledger[k]) => Closed(k, ledger'[k])
    BY <2>2, <2>3, ClaimKept
  <2>5. Placed(run'[r]) /\ Ordered(run'[r], sent[k])
    BY <1>2, <2>2 DEF Alike, Placed, Ordered
  <2>6. Paid(run[r], ledger'[k])
    BY <2>2, <2>3, <2>4 DEF Paid, Grows
  <2>7. Paid(run'[r], ledger'[k])
    BY <1>2, <2>6 DEF Alike, Paid
  <2>8. Current(run'[r], jobs'[k])
    BY <1>2, <2>2 DEF Alike, Current, RequestFrame
  <2> QED
    BY <2>1, <2>5, <2>7, <2>8 DEF RunnerOK
<1>4. FirstRunAlone'
  <2>1. \A r \in Busy' : r \in Runners
    BY DEF Busy
  <2> QED
    BY <1>2, <2>1 DEF SInv, FirstRunAlone, Job
<1>5. ControllersOK'
  BY <1>2 DEF SInv, ControllersOK, Busy, Job, RequestFrame
<1>6. FailedOK'
  <2> SUFFICES ASSUME crashes = 0, faults' = 0, NEW k \in Jobs,
                      jobs'[k].status = "failed", Billed(k), ~Closed(k, ledger'[k])
               PROVE  \E r \in Busy' : run'[r].job = k /\ run'[r].pc \in {"catch", "fail"}
    BY DEF FailedOK, Unrefunded, At, Job, RequestFrame
  <2>1. faults = 0 /\ jobs[k].status = "failed"
    BY DEF RequestFrame
  <2>2. /\ ledger[k] \in Entries /\ EntryFull(k, ledger[k]) /\ ledger'[k] \in Entries
        /\ EntryFull(k, ledger'[k]) /\ Grows(ledger[k], ledger'[k])
    BY <2>1, SafetyFacts DEF RequestFrame, IInv, TypeOK
  <2>3. ~Closed(k, ledger[k])
    BY <2>2, ClaimKept
  <2>4. PICK r \in At(k) : run[r].pc \in {"catch", "fail"}
    BY <2>1, <2>3 DEF SInv, FailedOK, Unrefunded
  <2> QED
    BY <1>2, <2>4 DEF At, Busy, Job
<1> QED
  BY <1>1, <1>3, <1>4, <1>5, <1>6

(* A job is as dead after such a step as before, when it is not queued.    *)
LEMMA DeadStays ==
  ASSUME IInv, IInv', SInv, RequestFrame, NEW k \in Jobs, Dead(k),
         jobs[k].status # "absent", Queued(k)' => Queued(k)
  PROVE  Dead(k)'
<1>1. \A r \in Runners : r \in Busy' => r \in Busy /\ run'[r].job = run[r].job
  BY DEF RequestFrame, Alike, Busy
<1>2. \A r \in Busy' : r \in Runners
  BY DEF Busy
<1>3. /\ ledger[k] \in Entries /\ EntryFull(k, ledger[k]) /\ ledger'[k] \in Entries
      /\ EntryFull(k, ledger'[k]) /\ Grows(ledger[k], ledger'[k])
  BY SafetyFacts DEF RequestFrame, IInv, TypeOK
<1>4. ledger[k].back = Amount(k) => ledger'[k].back = Amount(k)
  BY <1>3, ClaimKept
<1> QED
  BY <1>1, <1>2, <1>4 DEF Dead, RequestFrame, Job

(* The record that a request leaves: as it was, as a read leaves it, or    *)
(* given up by a cancel or by a recovery that found its provider gone.     *)
GivenUp(k) ==
  /\ jobs[k].status # "absent" /\ ~Unstarted(k)
  /\ jobs'[k].status \in {"unknown", "canceled"} /\ ~jobs'[k].stale
  /\ Claim(k, jobs'[k].bill, ledger[k])
  /\ jobs'[k].status = "canceled" /\ k \notin Video => Dead(k)

LEMMA RecordFacts ==
  ASSUME IInv, SInv, NEW k \in Jobs,
         jobs'[k] = jobs[k] \/ jobs'[k] = Read[k] \/ GivenUp(k)
  PROVE  /\ JobOK(k, jobs'[k], ledger[k], sent[k])
         /\ jobs'[k].status = "absent" <=> jobs[k].status = "absent"
         /\ jobs'[k].stale => jobs[k].stale
         /\ jobs'[k].status = "failed" => jobs[k].status = "failed"
         /\ jobs'[k].status = "canceled" /\ k \notin Video => Dead(k)
         /\ Unstarted(k) => jobs'[k] = jobs[k]
         /\ jobs'[k].status \in ActiveStatuses => jobs[k] = jobs'[k]
<1>1. JobOK(k, jobs[k], ledger[k], sent[k])
  BY SafetyFacts
<1>2. Unstarted(k) => Queued(k)
  BY DEF Unstarted, Queued
<1>3. jobs[k].status = "canceled" /\ k \notin Video => Dead(k)
  BY DEF SInv, CanceledOK
<1>4. CASE jobs'[k] = jobs[k] \/ jobs'[k] = Read[k]
  BY <1>1, <1>2, <1>3, <1>4, JobRead
<1>5. CASE GivenUp(k)
  <2>1. JobOK(k, jobs'[k], ledger[k], sent[k])
    BY <1>1, <1>5, JobWritten DEF GivenUp
  <2> QED
    BY <1>5, <2>1 DEF GivenUp, ActiveStatuses
<1> QED
  BY <1>4, <1>5

(* The queue stays in order when it is left alone and no record or entry   *)
(* of a job that waits in it for its first run is touched.                 *)
LEMMA QueueKept ==
  ASSUME IInv, IInv', SInv, RequestFrame, UNCHANGED items,
         \A k \in Jobs : Unstarted(k) => jobs'[k] = jobs[k] /\ ledger'[k] = ledger[k]
  PROVE  /\ ItemsOK'
         /\ \A k : (Unstarted(k)' <=> Unstarted(k)) /\ (Queued(k)' <=> Queued(k))
         /\ \A k \in Jobs : Followed(k) => Followed(k)'
<1>1. \A k : (Unstarted(k)' <=> Unstarted(k)) /\ (Queued(k)' <=> Queued(k))
  BY DEF Unstarted, Queued
<1>2. \A r \in Runners : r \in Busy' => r \in Busy /\ run'[r].job = run[r].job
  BY DEF RequestFrame, Alike, Busy
<1>3. ItemsOK'
  <2> SUFFICES ASSUME NEW i \in DOMAIN items
               PROVE  LET k == items[i].job
                      IN  /\ jobs'[k].status # "absent"
                          /\ items[i].resume => k \in Video
                          /\ ~items[i].resume =>
                               /\ Pristine(k)'
                               /\ \A m \in DOMAIN items : items[m].job = k => m = i
                               /\ \A r \in Busy' : run'[r].job # k
    BY DEF ItemsOK, Job
  <2> DEFINE k == items[i].job
  <2>1. k \in Jobs /\ jobs[k].status # "absent" /\ (items[i].resume => k \in Video)
    BY SafetyFacts DEF SInv, ItemsOK
  <2>2. jobs'[k].status # "absent"
    BY <2>1 DEF RequestFrame
  <2>3. ASSUME ~items[i].resume
        PROVE  /\ Pristine(k)'
               /\ \A m \in DOMAIN items : items[m].job = k => m = i
               /\ \A r \in Busy' : run'[r].job # k
    <3>1. /\ Pristine(k)
          /\ \A m \in DOMAIN items : items[m].job = k => m = i
          /\ \A r \in Busy : run[r].job # k
      BY <2>3 DEF SInv, ItemsOK, Job
    <3>2. Unstarted(k)
      BY <2>3 DEF Unstarted
    <3>3. Pristine(k)'
      BY <2>1, <3>1, <3>2 DEF Pristine, RequestFrame
    <3> QED
      BY <1>2, <3>1, <3>3 DEF Busy
  <2> QED
    BY <2>1, <2>2, <2>3
<1>4. \A k \in Jobs : Followed(k) => Followed(k)'
  BY <1>1 DEF Followed, RequestFrame
<1> QED
  BY <1>1, <1>3, <1>4

(* What a request that only touches the records keeps. *)
LEMMA RecordsKeep ==
  ASSUME IInv, IInv', SInv, handler.pc # "write",
         UNCHANGED << ledger, sent, run, controller, items, crashes >>,
         faults' = 0 => faults = 0,
         \A k \in Jobs : jobs'[k] = jobs[k] \/ jobs'[k] = Read[k] \/ GivenUp(k)
  PROVE  /\ RequestFrame
         /\ RequestOK' => SInv'
         /\ \A k : Unstarted(k)' <=> Unstarted(k)
         /\ \A k \in Jobs : Followed(k) => Followed(k)'
<1>1. RequestFrame
  <2>1. ASSUME NEW k \in Jobs
        PROVE  /\ EntryFull(k, ledger'[k])
               /\ JobOK(k, jobs'[k], ledger'[k], sent[k])
               /\ jobs[k].status # "absent"
                    => Grows(ledger[k], ledger'[k]) /\ jobs'[k].status # "absent"
               /\ jobs'[k].stale => jobs[k].stale
               /\ jobs'[k].status = "failed" => jobs[k].status = "failed"
    <3>1. ledger[k] \in Entries /\ EntryFull(k, ledger[k]) /\ ledger' = ledger
      BY SafetyFacts
    <3>2. Grows(ledger[k], ledger'[k])
      BY <3>1, SameEntry
    <3> QED
      BY <3>1, <3>2, RecordFacts
  <2>2. \A r \in Runners : Alike(run'[r], run[r])
    BY DEF Alike
  <2> QED
    BY <2>1, <2>2 DEF RequestFrame
<1>2. \A k \in Jobs : Unstarted(k) => jobs'[k] = jobs[k] /\ ledger'[k] = ledger[k]
  BY RecordFacts
<1>3. /\ ItemsOK'
      /\ \A k : (Unstarted(k)' <=> Unstarted(k)) /\ (Queued(k)' <=> Queued(k))
      /\ \A k \in Jobs : Followed(k) => Followed(k)'
  BY <1>1, <1>2, QueueKept
<1>4. CanceledOK'
  <2> SUFFICES ASSUME NEW k \in Jobs \ Video, jobs'[k].status = "canceled"
               PROVE  Dead(k)'
    BY DEF CanceledOK
  <2>1. Dead(k) /\ jobs[k].status # "absent"
    BY RecordFacts
  <2> QED
    BY <1>1, <1>3, <2>1, DeadStays
<1>5. ChargedOK'
  <2> SUFFICES ASSUME crashes = 0, NEW k \in Jobs, ledger[k].open,
                      jobs'[k].status = "absent"
               PROVE  ledger[k].back = Amount(k)
    BY DEF ChargedOK, ChargeHasJob
  <2>1. jobs[k].status = "absent"
    BY RecordFacts
  <2> QED
    BY <2>1 DEF SInv, ChargedOK, ChargeHasJob
<1>6. /\ EntriesFull' /\ JobsOK' /\ RunnersOK' /\ FirstRunAlone'
      /\ ControllersOK' /\ FailedOK'
  BY <1>1, RequestMove
<1> QED
  BY <1>1, <1>3, <1>4, <1>5, <1>6 DEF SInv

(* A request that arrives, is refused or fails; nothing to cancel.         *)
LEMMA PlainRequestsKeep ==
  ASSUME IInv, IInv', SInv,
         \/ Refuse \/ CancelNothing \/ RequestFault
         \/ \E j \in Jobs : Submit(j) \/ Cancel(j)
         \/ \E look : Get(look)
  PROVE  SInv'
<1>1. /\ handler.pc # "write"
      /\ UNCHANGED << ledger, sent, run, controller, items, crashes >>
      /\ jobs' = jobs \/ jobs' = Read
      /\ handler'.pc \notin {"write", "cancel", "recover", "block"}
  <2>1. NoRequest.pc = "idle"
    BY DEF NoRequest
  <2>2. CASE Refuse \/ CancelNothing
    BY <2>1, <2>2 DEF Refuse, CancelNothing, AtRequest, Answer, ledgerVars, queueVars, world,
                 bounds
  <2>3. CASE RequestFault
    BY <2>1, <2>3 DEF RequestFault, Answer, ledgerVars, queueVars, world
  <2>4. ASSUME NEW request, Arrive(request), request.pc \in {"post", "delete", "get"}
        PROVE  <1>1!1 /\ <1>1!2 /\ <1>1!3 /\ <1>1!4
    BY <2>4 DEF Arrive, ledgerVars, queueVars, world, bounds
  <2>5. \A j \in Jobs : /\ [NoRequest EXCEPT !.pc = "post", !.job = j].pc = "post"
                        /\ [NoRequest EXCEPT !.pc = "delete", !.job = j].pc = "delete"
    BY DEF NoRequest
  <2>6. \A look : [NoRequest EXCEPT !.pc = "get", !.todo = look].pc = "get"
    BY DEF NoRequest
  <2> QED
    BY <2>2, <2>3, <2>4, <2>5, <2>6 DEF Submit, Cancel, Get
<1>2. faults' = 0 => faults = 0
  <2>1. faults \in Nat
    BY Parts DEF BoundsOK
  <2>2. UNCHANGED faults \/ faults' = faults + 1
    BY DEF Refuse, CancelNothing, RequestFault, Submit, Cancel, Get, Arrive, bounds
  <2> QED
    BY <2>1, <2>2
<1>3. RequestOK'
  BY <1>1 DEF RequestOK, WriteOK, CancelOK, RecoverOK
<1> QED
  BY <1>1, <1>2, <1>3, RecordsKeep

(* A recovery visits jobs that have a task and wait for nothing else.      *)
LEMMA VisitOK ==
  ASSUME NEW todo, Visit(todo), \A j \in todo : Followed(j)'
  PROVE  RequestOK' /\ handler'.pc \in {"idle", "recover"}
<1>1. /\ NoRequest.pc = "idle"
      /\ [NoRequest EXCEPT !.pc = "recover", !.todo = todo].pc = "recover"
      /\ [NoRequest EXCEPT !.pc = "recover", !.todo = todo].todo = todo
  BY DEF NoRequest
<1>2. handler'.pc = "idle" \/ (handler'.pc = "recover" /\ handler'.todo = todo)
  BY <1>1 DEF Visit, Answer
<1> QED
  BY <1>2 DEF RequestOK, WriteOK, CancelOK, RecoverOK

(* A list of the jobs, and the jobs that it skips (GET generation-jobs).   *)
LEMMA GetKeeps ==
  ASSUME IInv, IInv', SInv, GetRead
  PROVE  SInv'
<1> DEFINE todo == { j \in handler.todo \cap Video :
                       Read[j].status = "upstream" /\ Read[j].task # 0 }
<1>1. /\ handler.pc = "get" /\ jobs' = Read /\ Visit(todo)
      /\ UNCHANGED << ledger, sent, run, controller, items, crashes, faults >>
  BY DEF GetRead, AtRequest, ledgerVars, queueVars, world, bounds
<1>2. handler.todo \subseteq Jobs
  BY HandlerFacts DEF HandlerRecords
<1>3. /\ RequestOK' => SInv'
      /\ \A k : Unstarted(k)' <=> Unstarted(k)
  BY <1>1, RecordsKeep
<1>4. ASSUME NEW j \in todo PROVE Followed(j)'
  <2>1. j \in Jobs /\ j \in Video /\ jobs'[j].status = "upstream"
    BY <1>1, <1>2
  <2>2. ASSUME Unstarted(j) PROVE FALSE
    <3>1. PICK i \in DOMAIN items : items[i].job = j /\ ~items[i].resume
      BY <2>2 DEF Unstarted
    <3>2. jobs[j].status = "queued" /\ Queued(j)
      BY <3>1 DEF SInv, ItemsOK, Pristine, Queued
    <3>3. JobOK(j, jobs[j], ledger[j], sent[j])
      BY <2>1, SafetyFacts
    <3>4. Read[j] = jobs[j]
      BY <2>1, <3>2, <3>3, JobRead
    <3> QED
      BY <1>1, <2>1, <3>2, <3>4
  <2> QED
    BY <1>3, <2>1, <2>2 DEF Followed
<1> HIDE DEF todo
<1>5. RequestOK'
  BY <1>1, <1>4, VisitOK
<1> QED
  BY <1>3, <1>5

LEMMA SkipKeeps ==
  ASSUME IInv, IInv', SInv, NEW j \in Jobs, Skip(j) \/ Block(j)
  PROVE  SInv'
<1>1. /\ handler.pc = "recover" /\ j \in handler.todo
      /\ UNCHANGED << jobs, ledger, sent, run, controller, items, crashes, faults >>
  BY DEF Skip, Block, ledgerVars, queueVars, world, bounds
<1>2. /\ handler.todo \subseteq Jobs /\ handler \in HandlerRecords
      /\ \A k \in handler.todo : Followed(k)
  BY <1>1, HandlerFacts DEF HandlerRecords, SInv, RequestOK, RecoverOK
<1>3. /\ RequestOK' => SInv'
      /\ \A k \in Jobs : Followed(k) => Followed(k)'
  BY <1>1, RecordsKeep
<1>4. CASE Skip(j)
  <2>1. Visit(handler.todo \ {j}) /\ \A k \in handler.todo \ {j} : Followed(k)'
    BY <1>2, <1>3, <1>4 DEF Skip
  <2> QED
    BY <1>3, <2>1, VisitOK
<1>5. CASE Block(j)
  <2>1. handler'.pc = "block" /\ handler'.job = j /\ handler'.todo = handler.todo \ {j}
    BY <1>2, <1>5 DEF Block, HandlerRecords
  <2>2. RequestOK'
    BY <1>1, <1>2, <1>3, <2>1 DEF RequestOK, WriteOK, CancelOK, RecoverOK
  <2> QED
    BY <1>3, <2>2
<1> QED
  BY <1>4, <1>5

(* The record of a job that a request gives up. *)
LEMMA GiveUp ==
  ASSUME IInv, SInv, NEW j \in Jobs, NEW s \in {"unknown", "canceled"},
         NEW b \in BillStatuses, jobs' = Updated(j, s, b),
         jobs[j].status # "absent", ~Unstarted(j), Claim(j, b, ledger[j]),
         s = "canceled" /\ j \notin Video => Dead(j)
  PROVE  \A k \in Jobs : jobs'[k] = jobs[k] \/ jobs'[k] = Read[k] \/ GivenUp(k)
<1>1. s \in Statuses
  BY DEF Statuses, FinalStatuses
<1>2. RecordedAs(j, s, b)
  BY <1>1, RecordWritten
<1> QED
  BY <1>2 DEF RecordedAs, GivenUp

LEMMA GiveUpsKeep ==
  ASSUME IInv, IInv', SInv, CancelWrite \/ BlockWrite
  PROVE  SInv'
<1>1. /\ handler.pc \in {"cancel", "block"} /\ handler.job \in Jobs
      /\ handler \in HandlerRecords
      /\ UNCHANGED << ledger, sent, run, controller, items, crashes, faults >>
  BY HandlerFacts
  DEF CancelWrite, BlockWrite, AtRequest, ledgerVars, queueVars, world, bounds
<1>2. CASE CancelWrite
  <2>1. /\ handler.pc = "cancel" /\ jobs' = Updated(handler.job, handler.final, handler.bill)
        /\ handler'.pc = "idle"
    BY <1>2 DEF CancelWrite, AtRequest, Answer, NoRequest
  <2>2. /\ handler.final \in {"unknown", "canceled"} /\ handler.bill \in BillStatuses
        /\ jobs[handler.job].status # "absent" /\ ~Unstarted(handler.job)
        /\ Claim(handler.job, handler.bill, ledger[handler.job])
        /\ handler.final = "canceled" /\ handler.job \notin Video => Dead(handler.job)
    BY <1>1, <2>1 DEF HandlerRecords, SInv, RequestOK, CancelOK
  <2>3. \A k \in Jobs : jobs'[k] = jobs[k] \/ jobs'[k] = Read[k] \/ GivenUp(k)
    BY <1>1, <2>1, <2>2, GiveUp
  <2>4. RequestOK'
    BY <2>1 DEF RequestOK, WriteOK, CancelOK, RecoverOK
  <2> QED
    BY <1>1, <2>3, <2>4, RecordsKeep
<1>3. CASE BlockWrite
  <2> DEFINE j == handler.job
             b == MarkedUnknown(j, "reserved")
  <2>1. handler.pc = "block" /\ jobs' = Updated(j, "unknown", b) /\ Visit(handler.todo)
    BY <1>3 DEF BlockWrite, AtRequest
  <2>2. /\ Followed(j) /\ handler.todo \subseteq Jobs
        /\ \A k \in handler.todo : Followed(k)
    BY <1>1, <2>1 DEF SInv, RequestOK, RecoverOK, HandlerRecords
  <2>3. b \in BillStatuses /\ Claim(j, b, ledger[j])
    BY DEF MarkedUnknown, BillStatuses, Claim
  <2>4. \A k \in Jobs : jobs'[k] = jobs[k] \/ jobs'[k] = Read[k] \/ GivenUp(k)
    BY <1>1, <2>1, <2>2, <2>3, GiveUp DEF Followed
  <2>5. /\ RequestOK' => SInv'
        /\ \A k \in Jobs : Followed(k) => Followed(k)'
    BY <1>1, <2>1, <2>4, RecordsKeep
  <2>6. RequestOK'
    BY <2>1, <2>2, <2>5, VisitOK
  <2> QED
    BY <2>5, <2>6
<1> QED
  BY <1>2, <1>3

(* What the end of the queue adds to it. *)
LEMMA AppendedItem ==
  ASSUME IInv, NEW x, items' = Append(items, x)
  PROVE  LET n == Len(items) + 1
         IN  /\ DOMAIN items' = DOMAIN items \cup {n} /\ n \notin DOMAIN items
             /\ items'[n] = x
             /\ \A i \in DOMAIN items : items'[i] = items[i]
<1>1. items \in Seq(Items)
  BY Parts DEF QueueOK
<1> QED
  BY <1>1

(* A video is queued to be resumed (recoverPersistedVideoJobs). *)
LEMMA ResumeKeeps ==
  ASSUME IInv, IInv', SInv, NEW j \in Jobs, Resume(j)
  PROVE  SInv'
<1> DEFINE x == [job |-> j, task |-> jobs[j].task, resume |-> TRUE]
           n == Len(items) + 1
<1>1. /\ handler.pc = "recover" /\ j \in handler.todo /\ items' = Append(items, x)
      /\ Visit(handler.todo \ {j})
      /\ UNCHANGED << jobs, ledger, sent, run, controller, crashes, faults >>
  BY DEF Resume, Resumable, Enqueue, ledgerVars, world, bounds
<1>2. /\ handler.todo \subseteq Jobs /\ \A k \in handler.todo : Followed(k)
  BY <1>1, HandlerFacts DEF HandlerRecords, SInv, RequestOK, RecoverOK
<1>3. j \in Video /\ jobs[j].status # "absent" /\ ~Unstarted(j)
  BY <1>1, <1>2 DEF Followed
<1>4. /\ DOMAIN items' = DOMAIN items \cup {n} /\ n \notin DOMAIN items
      /\ items'[n].job = j /\ items'[n].resume = TRUE
      /\ \A i \in DOMAIN items : items'[i] = items[i]
  BY <1>1, AppendedItem
<1> HIDE DEF n
<1>5. \A k : Unstarted(k)' <=> Unstarted(k)
  BY <1>4 DEF Unstarted
<1>6. \A k \in Jobs \ Video : Queued(k)' <=> Queued(k)
  BY <1>3, <1>4 DEF Queued
<1>7. RequestFrame
  <2>1. \A k \in Jobs : /\ EntryFull(k, ledger[k]) /\ Grows(ledger[k], ledger[k])
                        /\ JobOK(k, jobs[k], ledger[k], sent[k])
    BY SafetyFacts, SameEntry
  <2> QED
    BY <1>1, <2>1 DEF RequestFrame, Alike
<1>8. ItemsOK'
  <2> SUFFICES ASSUME NEW i \in DOMAIN items', NEW k, k = items'[i].job
               PROVE  /\ jobs'[k].status # "absent"
                      /\ items'[i].resume => k \in Video
                      /\ ~items'[i].resume =>
                           /\ Pristine(k)'
                           /\ \A m \in DOMAIN items' : items'[m].job = k => m = i
                           /\ \A r \in Busy' : run'[r].job # k
    BY DEF ItemsOK, Job, Pristine
  <2>0. jobs' = jobs /\ ledger' = ledger /\ sent' = sent /\ run' = run
    BY <1>1
  <2>1. CASE i = n
    BY <1>3, <1>4, <2>0, <2>1
  <2>2. CASE i \in DOMAIN items
    <3>1. /\ jobs[k].status # "absent" /\ (items[i].resume => k \in Video)
          /\ ~items[i].resume => /\ Pristine(k)
                                 /\ \A m \in DOMAIN items : items[m].job = k => m = i
                                 /\ \A r \in Busy : run[r].job # k
      BY <1>4, <2>2 DEF SInv, ItemsOK, Job
    <3>2. Pristine(k) => Pristine(k)'
      BY <2>0 DEF Pristine
    <3>3. ~items[i].resume => k # j
      BY <1>3, <1>4, <2>2 DEF Unstarted
    <3>4. \A r \in Busy' : r \in Busy /\ run'[r] = run[r]
      BY <2>0 DEF Busy
    <3>5. \A m \in DOMAIN items' : m \in DOMAIN items \/ items'[m].job = j
      BY <1>4
    <3>6. items'[i] = items[i]
      BY <1>4, <2>2
    <3> QED
      BY <1>4, <2>0, <3>1, <3>2, <3>3, <3>4, <3>5, <3>6
  <2> QED
    BY <1>4, <2>1, <2>2
<1>9. CanceledOK'
  <2> SUFFICES ASSUME NEW k \in Jobs \ Video, jobs[k].status = "canceled"
               PROVE  Dead(k)'
    BY <1>1 DEF CanceledOK
  <2>1. Dead(k)
    BY DEF SInv, CanceledOK
  <2> QED
    BY <1>6, <1>7, <2>1, DeadStays
<1>10. ChargedOK'
  BY <1>1 DEF SInv, ChargedOK, ChargeHasJob
<1>11. RequestOK'
  <2>1. \A k \in handler.todo \ {j} : Followed(k)'
    BY <1>1, <1>2, <1>5 DEF Followed
  <2> QED
    BY <1>1, <2>1, VisitOK
<1>12. /\ EntriesFull' /\ JobsOK' /\ RunnersOK' /\ FirstRunAlone'
       /\ ControllersOK' /\ FailedOK'
  BY <1>7, RequestMove
<1> QED
  BY <1>8, <1>9, <1>10, <1>11, <1>12 DEF SInv

(* The charge is made while the request holds the jobs file, for a job     *)
(* that the file does not know (reserveJobCredits).                        *)
LEMMA ReserveKeeps ==
  ASSUME IInv, IInv', SInv, Reserve
  PROVE  SInv'
<1> DEFINE j == handler.job
<1>1. /\ handler.pc = "post" /\ Holds(Handler) /\ jobs' = Read
      /\ Read[j].status = "absent" /\ ~ActiveTwin(j) /\ Payable(j)
      /\ Billed(j) => ledger' = [ledger EXCEPT ![j] = IF @.open THEN @ ELSE Reserved(j)]
      /\ ~Billed(j) => ledger' = ledger
      /\ handler' = [handler EXCEPT !.pc = "write", !.bill = FirstBill(j)]
      /\ UNCHANGED << items, controller, run, lock, sent, crashes, faults >>
  BY DEF Reserve, AtRequest, ledgerVars, queueVars, world, bounds
<1>2. j \in Jobs /\ handler \in HandlerRecords /\ ledger \in [Jobs -> Entries]
  BY <1>1, HandlerFacts, Parts DEF BillingOK
<1>3. jobs[j].status = "absent"
  BY <1>1, <1>2, SafetyFacts, JobRead
<1>4. /\ \A k \in Jobs \ {j} : ledger'[k] = ledger[k]
      /\ Billed(j) => ledger'[j] = Reserved(j)
      /\ ~Billed(j) => ledger'[j] = ledger[j]
  <2>1. Billed(j) => ~ledger[j].open
    BY <1>1, <1>2, SafetyFacts DEF Payable, EntryFull
  <2> QED
    BY <1>1, <1>2, <2>1
<1>5. EntryFull(j, ledger'[j])
  <2>1. /\ EntryOK(j, Reserved(j)) /\ ~Reserved(j).settled /\ ~Reserved(j).refunded
        /\ Reserved(j).open = Recorded(j)
    BY <1>2, NewEntry DEF Reserved, NoEntry
  <2> QED
    BY <1>2, <1>4, <2>1, SafetyFacts DEF EntryFull
<1>6. ASSUME NEW k \in Jobs
      PROVE  /\ JobOK(k, jobs'[k], ledger'[k], sent[k])
             /\ jobs'[k].status = "absent" <=> jobs[k].status = "absent"
             /\ jobs'[k].stale => jobs[k].stale
             /\ \A s \in {"failed", "canceled"} :
                  jobs'[k].status = s => jobs[k].status = s
             /\ Unstarted(k) => jobs'[k] = jobs[k]
             /\ jobs[k].status # "absent" => ledger'[k] = ledger[k]
  <2>1. JobOK(k, jobs[k], ledger[k], sent[k])
    BY SafetyFacts
  <2>2. /\ JobOK(k, jobs'[k], ledger[k], sent[k])
        /\ jobs'[k].status = "absent" <=> jobs[k].status = "absent"
        /\ jobs'[k].stale => jobs[k].stale
        /\ \A s \in {"failed", "canceled"} :
             jobs'[k].status = s => jobs[k].status = s
        /\ Unstarted(k) => jobs'[k] = jobs[k]
    <3>1. Unstarted(k) => Queued(k)
      BY DEF Unstarted, Queued
    <3> QED
      BY <1>1, <2>1, <3>1, JobRead
  <2>3. jobs[k].status # "absent" => ledger'[k] = ledger[k]
    BY <1>3, <1>4
  <2>4. JobOK(k, jobs'[k], ledger'[k], sent[k])
    BY <2>2, <2>3 DEF JobOK
  <2> QED
    BY <2>2, <2>3, <2>4
<1>7. RequestFrame
  <2>1. \A k \in Jobs : EntryFull(k, ledger'[k])
    BY <1>4, <1>5, SafetyFacts
  <2>2. \A k \in Jobs : jobs[k].status # "absent" => Grows(ledger[k], ledger'[k])
    BY <1>6, SafetyFacts, SameEntry
  <2> QED
    BY <1>1, <1>6, <2>1, <2>2 DEF RequestFrame, Alike
<1>8. /\ ItemsOK'
      /\ \A k : (Unstarted(k)' <=> Unstarted(k)) /\ (Queued(k)' <=> Queued(k))
  <2>1. ASSUME NEW k \in Jobs, Unstarted(k)
        PROVE  jobs'[k] = jobs[k] /\ ledger'[k] = ledger[k]
    <3>1. jobs[k].status # "absent"
      BY <2>1 DEF Unstarted, SInv, ItemsOK
    <3> QED
      BY <1>6, <2>1, <3>1
  <2> QED
    BY <1>1, <1>7, <2>1, QueueKept
<1>9. CanceledOK'
  <2> SUFFICES ASSUME NEW k \in Jobs \ Video, jobs'[k].status = "canceled"
               PROVE  Dead(k)'
    BY DEF CanceledOK
  <2>1. jobs[k].status = "canceled" /\ Dead(k)
    BY <1>6 DEF SInv, CanceledOK
  <2> QED
    BY <1>7, <1>8, <2>1, DeadStays
<1>10. handler'.pc = "write" /\ handler'.job = j /\ handler'.bill = FirstBill(j)
  BY <1>1, <1>2 DEF HandlerRecords
<1>11. ChargedOK'
  <2> SUFFICES ASSUME crashes = 0, NEW k \in Jobs, ledger'[k].open,
                      jobs'[k].status = "absent", k # j
               PROVE  ledger'[k].back = Amount(k)
    BY <1>1, <1>10 DEF ChargedOK, ChargeHasJob
  <2> QED
    BY <1>1, <1>4, <1>6 DEF SInv, ChargedOK, ChargeHasJob
<1>12. RequestOK'
  <2>1. \A k \in Jobs : k # j /\ Fingerprint[k] = Fingerprint[j]
                          => jobs'[k].status \notin ActiveStatuses
    BY <1>1 DEF ActiveTwin
  <2>2. Holds(Handler)'
    BY <1>1 DEF Holds
  <2>3. jobs'[j].status = "absent"
    BY <1>1
  <2>4. WriteOK'
    BY <1>4, <1>10, <2>1, <2>2, <2>3 DEF WriteOK
  <2> QED
    BY <1>10, <2>4 DEF RequestOK, CancelOK, RecoverOK
<1>13. /\ EntriesFull' /\ JobsOK' /\ RunnersOK' /\ FirstRunAlone'
       /\ ControllersOK' /\ FailedOK'
  BY <1>7, RequestMove
<1> QED
  BY <1>8, <1>9, <1>11, <1>12, <1>13 DEF SInv

(* A job whose request is being written is in memory nowhere.              *)
LEMMA UnknownJob ==
  ASSUME IInv, SInv, NEW j \in Jobs, jobs[j].status = "absent"
  PROVE  ~InMemory(j) /\ (\A r \in Busy : Job(r) # j) /\ sent[j] = 0
<1>1. \A r \in Busy : Job(r) # j
  BY SafetyFacts DEF Current
<1>2. ~Queued(j)
  BY DEF SInv, ItemsOK, Queued
<1>3. controller[j] = NoRunner
  BY <1>1 DEF SInv, ControllersOK
<1>4. sent[j] = 0
  BY SafetyFacts DEF JobOK
<1> QED
  BY <1>1, <1>2, <1>3, <1>4 DEF InMemory

(* The record is written and the job queued: it is pristine (POST).        *)
LEMMA AcceptKeeps ==
  ASSUME IInv, IInv', SInv, Accept
  PROVE  SInv'
<1> DEFINE j == handler.job
           x == [job |-> j, task |-> 0, resume |-> FALSE]
           n == Len(items) + 1
<1>1. /\ handler.pc = "write" /\ Answer /\ Enqueue(j, 0, FALSE)
      /\ jobs' = [ jobs EXCEPT ![j] = [ NoRecord EXCEPT !.status = "queued",
                                                        !.bill = handler.bill ] ]
      /\ UNCHANGED << ledger, controller, run, sent, crashes, faults >>
  BY DEF Accept, AtRequest, ledgerVars, world, bounds
<1>2. /\ j \in Jobs /\ handler.bill = FirstBill(j) /\ jobs[j].status = "absent"
      /\ Billed(j) => ledger[j] = Reserved(j)
  BY <1>1, HandlerFacts DEF SInv, RequestOK, WriteOK
<1>3. ~InMemory(j) /\ (\A r \in Busy : Job(r) # j) /\ sent[j] = 0
  BY <1>2, UnknownJob
<1>4. items' = Append(items, x)
  BY <1>1, <1>3 DEF Enqueue
<1>5. /\ DOMAIN items' = DOMAIN items \cup {n} /\ n \notin DOMAIN items
      /\ items'[n].job = j /\ items'[n].resume = FALSE
      /\ \A i \in DOMAIN items : items'[i] = items[i] /\ items[i].job # j
  BY <1>3, <1>4, AppendedItem DEF InMemory, Queued
<1> HIDE DEF n
<1>6. /\ jobs'[j].status = "queued" /\ jobs'[j].bill = FirstBill(j) /\ ~jobs'[j].stale
      /\ \A k \in Jobs \ {j} : jobs'[k] = jobs[k]
  <2>1. jobs \in [Jobs -> JobRecords]
    BY Parts DEF RecordsOK
  <2> QED
    BY <1>1, <1>2, <2>1 DEF NoRecord
<1>7. /\ ledger' = ledger /\ sent' = sent /\ run' = run /\ crashes' = crashes
      /\ handler'.pc = "idle"
  BY <1>1 DEF Answer, NoRequest
<1>8. JobOK(j, jobs'[j], ledger[j], sent[j])
  <2>1. Claim(j, FirstBill(j), ledger[j])
    BY DEF Claim, FirstBill
  <2>2. Billed(j) => ledger[j].open = Recorded(j)
    BY <1>2 DEF Reserved, NoEntry
  <2>3. sent[j] <= Requests(j)
    BY <1>2, SafetyFacts DEF JobOK
  <2> QED
    BY <1>6, <2>1, <2>2, <2>3 DEF JobOK
<1>9. RequestFrame
  <2>1. ASSUME NEW k \in Jobs
        PROVE  /\ EntryFull(k, ledger'[k])
               /\ JobOK(k, jobs'[k], ledger'[k], sent[k])
               /\ jobs[k].status # "absent"
                    => Grows(ledger[k], ledger'[k]) /\ jobs'[k].status # "absent"
               /\ jobs'[k].stale => jobs[k].stale
               /\ jobs'[k].status = "failed" => jobs[k].status = "failed"
    BY <1>2, <1>6, <1>7, <1>8, SafetyFacts, SameEntry
  <2> QED
    BY <1>1, <2>1 DEF RequestFrame, Alike
<1>10. ItemsOK'
  <2> SUFFICES ASSUME NEW i \in DOMAIN items', NEW k, k = items'[i].job
               PROVE  /\ jobs'[k].status # "absent"
                      /\ items'[i].resume => k \in Video
                      /\ ~items'[i].resume =>
                           /\ Pristine(k)'
                           /\ \A m \in DOMAIN items' : items'[m].job = k => m = i
                           /\ \A r \in Busy' : run'[r].job # k
    BY DEF ItemsOK, Job, Pristine
  <2>1. \A r \in Busy' : r \in Busy /\ run'[r] = run[r]
    BY <1>7 DEF Busy
  <2>2. CASE i = n
    <3>1. k = j /\ Pristine(k)'
      BY <1>2, <1>3, <1>5, <1>6, <1>7, <2>2 DEF Pristine
    <3> QED
      BY <1>3, <1>5, <1>6, <2>1, <2>2, <3>1 DEF Job
  <2>3. CASE i \in DOMAIN items
    <3>1. /\ jobs[k].status # "absent" /\ (items[i].resume => k \in Video)
          /\ ~items[i].resume => /\ Pristine(k)
                                 /\ \A m \in DOMAIN items : items[m].job = k => m = i
                                 /\ \A r \in Busy : run[r].job # k
      BY <1>5, <2>3 DEF SInv, ItemsOK, Job
    <3>2. k \in Jobs /\ k # j /\ jobs'[k] = jobs[k]
      BY <1>5, <1>6, <2>3, SafetyFacts
    <3>3. Pristine(k) => Pristine(k)'
      BY <1>7, <3>2 DEF Pristine
    <3>4. \A m \in DOMAIN items' : m \in DOMAIN items \/ items'[m].job = j
      BY <1>5
    <3> QED
      BY <1>5, <2>1, <2>3, <3>1, <3>2, <3>3, <3>4
  <2> QED
    BY <1>5, <2>2, <2>3
<1>11. CanceledOK'
  <2> SUFFICES ASSUME NEW k \in Jobs \ Video, jobs'[k].status = "canceled"
               PROVE  Dead(k)'
    BY DEF CanceledOK
  <2>1. k # j /\ jobs[k].status = "canceled" /\ Dead(k)
    BY <1>6 DEF SInv, CanceledOK
  <2>2. Queued(k)' => Queued(k)
    BY <1>5, <2>1 DEF Queued
  <2> QED
    BY <1>9, <2>1, <2>2, DeadStays
<1>12. ChargedOK'
  <2> SUFFICES ASSUME crashes = 0, NEW k \in Jobs, ledger[k].open,
                      jobs'[k].status = "absent"
               PROVE  ledger[k].back = Amount(k)
    BY <1>7 DEF ChargedOK, ChargeHasJob
  <2>1. k # j /\ jobs[k].status = "absent"
    BY <1>6
  <2> QED
    BY <2>1 DEF SInv, ChargedOK, ChargeHasJob
<1>13. RequestOK'
  BY <1>7 DEF RequestOK, WriteOK, CancelOK, RecoverOK
<1>14. /\ EntriesFull' /\ JobsOK' /\ RunnersOK' /\ FirstRunAlone'
       /\ ControllersOK' /\ FailedOK'
  BY <1>9, RequestMove
<1> QED
  BY <1>10, <1>11, <1>12, <1>13, <1>14 DEF SInv

(* What a refund gives back of a charge that bought nothing yet.           *)
LEMMA RefundReserved ==
  ASSUME IInv, NEW j \in Jobs, Billed(j) => ledger[j] = Reserved(j),
         Refund(j, FirstBill(j)), Billed(j), Recorded(j)
  PROVE  ledger'[j].back = Amount(j)
<1>1. /\ Amount(j) \in Nat /\ Unit[j] \in Nat /\ ledger \in [Jobs -> Entries]
  BY AmountType, LedgerAssumption, Parts DEF BillingOK
<1>2. /\ ledger[j] = Reserved(j) /\ Reserved(j).open /\ ~Reserved(j).settled
      /\ ~Reserved(j).refunded /\ Reserved(j).delivered = {} /\ Reserved(j).back = 0
  BY DEF Reserved, NoEntry
<1>3. CASE Amount(j) = 0
  BY <1>1, <1>2, <1>3 DEF Refund, ledgerVars
<1>4. CASE Amount(j) > 0
  <2> DEFINE e == Reserved(j)
             f == RefundedEntry(j, e)
  <2>1. RefundPaid(j, e) = Amount(j)
    <3>1. Cardinality(e.delivered) * Unit[j] = 0
      BY <1>1, <1>2, FS_EmptySet
    <3> QED
      BY <1>1, <1>2, <1>4, <3>1 DEF RefundPaid, Refundable
  <2>2. f = [e EXCEPT !.refunded = TRUE, !.back = Amount(j)]
    BY <1>4, <2>1 DEF RefundedEntry
  <2>3. e \in Entries
    BY <1>1, <1>2
  <2>4. f.back = Amount(j) /\ f \in Entries
    BY <1>1, <2>2, <2>3 DEF Entries
  <2>5. SettledEntry(j, f).back = f.back
    BY <2>4 DEF SettledEntry, Entries
  <2>6. RefundApplies(j, FirstBill(j))
    BY <1>2, <1>4 DEF RefundApplies, FirstBill
  <2>7. ledger' = [ledger EXCEPT ![j] = SettledEntry(j, RefundedEntry(j, @))]
    BY <1>4, <2>6 DEF Refund
  <2>8. ledger'[j] = SettledEntry(j, f)
    BY <1>1, <1>2, <2>7
  <2> QED
    BY <2>4, <2>5, <2>8
<1> QED
  BY <1>1, <1>3, <1>4

(* A write that fails gives the whole charge back (reserveJobCredits).     *)
LEMMA AcceptFailsKeeps ==
  ASSUME IInv, IInv', SInv, AcceptFails
  PROVE  SInv'
<1> DEFINE j == handler.job
<1>1. /\ handler.pc = "write" /\ Refund(j, handler.bill) /\ handler'.pc = "idle"
      /\ faults' = faults + 1
      /\ UNCHANGED << jobs, items, controller, run, sent, crashes >>
  BY DEF AcceptFails, AtRequest, Answer, NoRequest, queueVars, world
<1>2. /\ j \in Jobs /\ handler.bill = FirstBill(j) /\ jobs[j].status = "absent"
      /\ Billed(j) => ledger[j] = Reserved(j)
      /\ EntryFull(j, ledger[j]) /\ faults \in Nat
  BY <1>1, HandlerFacts, SafetyFacts, Parts DEF SInv, RequestOK, WriteOK, BoundsOK
<1>3. FirstBill(j) \in BillStatuses /\ Claim(j, FirstBill(j), ledger[j])
  BY DEF FirstBill, BillStatuses, Claim
<1>4. Billed(j) => ledger[j].open = Recorded(j)
  BY <1>2 DEF Reserved, NoEntry
<1>5. /\ EntryFull(j, ledger'[j])
      /\ \A k \in Jobs \ {j} : ledger'[k] = ledger[k]
  BY <1>1, <1>2, <1>3, <1>4, RefundFacts
<1>6. RequestFrame
  <2>1. ASSUME NEW k \in Jobs
        PROVE  /\ EntryFull(k, ledger'[k])
               /\ JobOK(k, jobs[k], ledger'[k], sent[k])
               /\ jobs[k].status # "absent" => Grows(ledger[k], ledger'[k])
    <3>1. CASE k = j
      BY <1>2, <1>5, <3>1, SafetyFacts DEF JobOK
    <3>2. CASE k # j
      BY <1>5, <3>2, SafetyFacts, SameEntry
    <3> QED
      BY <3>1, <3>2
  <2>2. faults' # 0
    BY <1>1, <1>2
  <2> QED
    BY <1>1, <2>1, <2>2 DEF RequestFrame, Alike
<1>7. ASSUME NEW k \in Jobs, Unstarted(k)
      PROVE  jobs'[k] = jobs[k] /\ ledger'[k] = ledger[k]
  <2>1. jobs[k].status # "absent"
    BY <1>7 DEF Unstarted, SInv, ItemsOK
  <2> QED
    BY <1>1, <1>2, <1>5, <2>1
<1>8. ItemsOK' /\ \A k : Queued(k)' <=> Queued(k)
  BY <1>1, <1>6, <1>7, QueueKept
<1>9. CanceledOK'
  <2> SUFFICES ASSUME NEW k \in Jobs \ Video, jobs[k].status = "canceled"
               PROVE  Dead(k)'
    BY <1>1 DEF CanceledOK
  <2>1. Dead(k)
    BY DEF SInv, CanceledOK
  <2> QED
    BY <1>6, <1>8, <2>1, DeadStays
<1>10. ChargedOK'
  <2> SUFFICES ASSUME crashes = 0, NEW k \in Jobs, ledger'[k].open,
                      jobs[k].status = "absent"
               PROVE  ledger'[k].back = Amount(k)
    BY <1>1 DEF ChargedOK, ChargeHasJob
  <2>1. CASE k = j
    <3>1. Billed(j) /\ Recorded(j)
      BY <1>5, <2>1 DEF EntryFull
    <3> QED
      BY <1>1, <1>2, <2>1, <3>1, RefundReserved
  <2>2. CASE k # j
    BY <1>1, <1>5, <2>2 DEF SInv, ChargedOK, ChargeHasJob
  <2> QED
    BY <2>1, <2>2
<1>11. RequestOK'
  BY <1>1 DEF RequestOK, WriteOK, CancelOK, RecoverOK
<1>12. /\ EntriesFull' /\ JobsOK' /\ RunnersOK' /\ FirstRunAlone'
       /\ ControllersOK' /\ FailedOK'
  BY <1>6, RequestMove
<1> QED
  BY <1>8, <1>9, <1>10, <1>11, <1>12 DEF SInv

(* The filter of the queue removes one item and keeps the others in order. *)
LEMMA Filtered ==
  ASSUME IInv, NEW j \in Jobs, Queued(j), items' = Unqueued(j)
  PROVE  \E i \in DOMAIN items :
           /\ items[i].job = j
           /\ DOMAIN items' = 1 .. Len(items) - 1
           /\ \A m \in DOMAIN items' :
                LET k == IF m < i THEN m ELSE m + 1
                IN  k \in DOMAIN items /\ k # i /\ items'[m] = items[k]
<1> DEFINE i == CHOOSE i \in DOMAIN items : items[i].job = j
           a == SubSeq(items, 1, i - 1)
           b == SubSeq(items, i + 1, Len(items))
<1>1. items \in Seq(Items) /\ i \in DOMAIN items /\ items[i].job = j
  BY Parts DEF Queued, QueueOK
<1>2. items' = a \o b
  BY DEF Unqueued
<1> HIDE DEF i
<1>3. i \in 1 .. Len(items) /\ Len(items) \in Nat
  BY <1>1
<1>4. /\ a \in Seq(Items) /\ Len(a) = i - 1
      /\ \A m \in 1 .. i - 1 : a[m] = items[m]
  BY <1>1, <1>3, SubSeqProperties
<1>5. /\ b \in Seq(Items) /\ Len(b) = Len(items) - i
      /\ \A m \in 1 .. Len(items) - i : b[m] = items[i + m]
  BY <1>1, <1>3, SubSeqProperties
<1> HIDE DEF a, b
<1>6. /\ Len(items') = Len(items) - 1
      /\ items' \in Seq(Items)
      /\ \A m \in 1 .. Len(items) - 1 :
           items'[m] = IF m <= i - 1 THEN a[m] ELSE b[m - (i - 1)]
  <2>1. /\ items' \in Seq(Items) /\ Len(items') = Len(a) + Len(b)
        /\ \A m \in 1 .. Len(a) + Len(b) :
             items'[m] = IF m <= Len(a) THEN a[m] ELSE b[m - Len(a)]
    BY <1>2, <1>4, <1>5, ConcatProperties
  <2>2. Len(a) + Len(b) = Len(items) - 1
    BY <1>3, <1>4, <1>5
  <2> QED
    BY <1>4, <2>1, <2>2
<1>7. DOMAIN items' = 1 .. Len(items) - 1 /\ DOMAIN items = 1 .. Len(items)
  BY <1>1, <1>6
<1>8. ASSUME NEW m \in 1 .. Len(items) - 1
      PROVE  LET k == IF m < i THEN m ELSE m + 1
             IN  k \in 1 .. Len(items) /\ k # i /\ items'[m] = items[k]
  <2>1. CASE m < i
    BY <1>3, <1>4, <1>6, <2>1
  <2>2. CASE ~(m < i)
    <3>1. m - (i - 1) \in 1 .. Len(items) - i /\ i + (m - (i - 1)) = m + 1
      BY <1>3, <2>2
    <3>2. items'[m] = b[m - (i - 1)]
      BY <1>3, <1>6, <2>2
    <3> QED
      BY <1>3, <1>5, <2>2, <3>1, <3>2
  <2> QED
    BY <2>1, <2>2
<1> QED
  BY <1>1, <1>7, <1>8

(* So the queue is in order, and the job of the item has left it.          *)
LEMMA UnqueuedKept ==
  ASSUME IInv, IInv', SInv, RequestFrame, NEW j \in Jobs, items' = Unqueued(j),
         \A k \in Jobs \ {j} :
           Unstarted(k) => jobs'[k] = jobs[k] /\ ledger'[k] = ledger[k]
  PROVE  /\ ItemsOK'
         /\ \A k : Queued(k)' => Queued(k)
         /\ ~Unstarted(j)'
         /\ j \notin Video => ~Queued(j)'
<1>1. CASE ~Queued(j)
  <2>1. items' = items
    BY <1>1 DEF Unqueued
  <2>2. ~Unstarted(j)
    BY <1>1 DEF Unstarted, Queued
  <2>3. /\ ItemsOK'
        /\ \A k : (Unstarted(k)' <=> Unstarted(k)) /\ (Queued(k)' <=> Queued(k))
    BY <2>1, <2>2, QueueKept
  <2> QED
    BY <1>1, <2>2, <2>3
<1>2. CASE Queued(j)
  <2> DEFINE old(m, i) == IF m < i THEN m ELSE m + 1
  <2>1. PICK i \in DOMAIN items :
          /\ items[i].job = j
          /\ DOMAIN items' = 1 .. Len(items) - 1
          /\ \A m \in DOMAIN items' :
               /\ old(m, i) \in DOMAIN items /\ old(m, i) # i
               /\ items'[m] = items[old(m, i)]
    BY <1>2, Filtered
  <2>2. items \in Seq(Items) /\ DOMAIN items = 1 .. Len(items) /\ Len(items) \in Nat
    BY Parts DEF QueueOK
  <2>3. \A m, n \in DOMAIN items' : old(m, i) = old(n, i) => m = n
    BY <2>1, <2>2
  <2> HIDE DEF old
  <2>4. ASSUME NEW n \in DOMAIN items, ~items[n].resume
        PROVE  \A m \in DOMAIN items : items[m].job = items[n].job => m = n
    BY <2>4 DEF SInv, ItemsOK
  <2>5. ASSUME NEW m \in DOMAIN items', items'[m].job = j
        PROVE  items'[m].resume /\ j \in Video
    <3> DEFINE n == old(m, i)
    <3>1. n \in DOMAIN items /\ n # i /\ items'[m] = items[n] /\ items[n].job = j
      BY <2>1, <2>5
    <3>2. items[n].resume
      BY <2>1, <2>4, <3>1
    <3> QED
      BY <3>1, <3>2 DEF SInv, ItemsOK
  <2>6. \A k : Queued(k)' => Queued(k)
    BY <2>1 DEF Queued
  <2>7. ItemsOK'
    <3> SUFFICES ASSUME NEW m \in DOMAIN items', NEW k, k = items'[m].job
                 PROVE  /\ jobs'[k].status # "absent"
                        /\ items'[m].resume => k \in Video
                        /\ ~items'[m].resume =>
                             /\ Pristine(k)'
                             /\ \A n \in DOMAIN items' : items'[n].job = k => n = m
                             /\ \A r \in Busy' : run'[r].job # k
      BY DEF ItemsOK, Job, Pristine
    <3> DEFINE n == old(m, i)
    <3>1. n \in DOMAIN items /\ items'[m] = items[n] /\ items[n].job = k
      BY <2>1
    <3> HIDE DEF n
    <3>2. /\ k \in Jobs /\ jobs[k].status # "absent" /\ (items[n].resume => k \in Video)
          /\ ~items[n].resume => /\ Pristine(k)
                                 /\ \A r \in Busy : run[r].job # k
      BY <3>1, SafetyFacts DEF SInv, ItemsOK, Job
    <3>3. jobs'[k].status # "absent"
      BY <3>2 DEF RequestFrame
    <3>4. ASSUME ~items'[m].resume
          PROVE  /\ Pristine(k)'
                 /\ \A p \in DOMAIN items' : items'[p].job = k => p = m
                 /\ \A r \in Busy' : run'[r].job # k
      <4>1. k # j /\ Unstarted(k)
        BY <2>5, <3>1, <3>4 DEF Unstarted
      <4>2. Pristine(k)'
        BY <3>1, <3>2, <3>4, <4>1 DEF Pristine, RequestFrame
      <4>3. ASSUME NEW p \in DOMAIN items', items'[p].job = k PROVE p = m
        <5>1. old(p, i) \in DOMAIN items /\ items[old(p, i)].job = k
          BY <2>1, <4>3
        <5>2. old(p, i) = n
          BY <2>4, <3>1, <3>4, <5>1
        <5> QED
          BY <2>3, <5>2 DEF n
      <4>4. \A r \in Runners : r \in Busy' => r \in Busy /\ run'[r].job = run[r].job
        BY DEF RequestFrame, Alike, Busy
      <4> QED
        BY <3>1, <3>2, <3>4, <4>2, <4>3, <4>4 DEF Busy
    <3> QED
      BY <3>1, <3>2, <3>3, <3>4
  <2> QED
    BY <2>5, <2>6, <2>7 DEF Unstarted, Queued
<1> QED
  BY <1>1, <1>2

(* A cancel takes the job from the queue, aborts its runner, and refunds   *)
(* it when it was never dispatched (DELETE).                               *)
LEMMA CancelJobKeeps ==
  ASSUME IInv, IInv', SInv, CancelJob
  PROVE  SInv'
<1>0. handler.job \in Jobs
  BY HandlerFacts DEF CancelJob, AtRequest
<1> SUFFICES ASSUME NEW j \in Jobs, j = handler.job PROVE SInv'
  BY <1>0
<1> DEFINE c == controller[j]
           bill == Read[j].bill
           cancel(final, b) ==
             handler' = [handler EXCEPT !.pc = "cancel", !.final = final, !.bill = b]
<1>1. /\ handler.pc = "delete" /\ Read[j].status \in ActiveStatuses /\ jobs' = Read
      /\ items' = Unqueued(j)
      /\ run' = IF c # NoRunner /\ run[c].signal = "none"
                THEN [run EXCEPT ![c].signal = "canceled"] ELSE run
      /\ \/ cancel("unknown", MarkedUnknown(j, bill)) /\ UNCHANGED ledger
         \/ /\ c = NoRunner /\ Queued(j)
            /\ cancel("canceled", Refunded(j, bill)) /\ Refund(j, bill)
      /\ UNCHANGED << controller, sent, crashes, faults >>
  BY DEF CancelJob, AtRequest, ledgerVars, world, bounds, UpstreamMayHaveAccepted
<1>2. /\ j \in Jobs /\ handler \in HandlerRecords
      /\ ledger[j] \in Entries /\ EntryFull(j, ledger[j])
      /\ JobOK(j, jobs[j], ledger[j], sent[j])
  BY <1>1, HandlerFacts, SafetyFacts
<1>3. Read[j] = jobs[j] /\ jobs[j].status \in ActiveStatuses /\ jobs[j].status # "absent"
  <2>1. Read[j] = jobs[j]
    BY <1>1, <1>2, JobRead
  <2> QED
    BY <1>1, <2>1 DEF ActiveStatuses
<1>4. /\ Claim(j, bill, ledger[j]) /\ bill \in BillStatuses
      /\ Billed(j) /\ Recorded(j) => ledger[j].open
  BY <1>2, <1>3, ReadFacts DEF JobOK, JobRecords
<1>5. /\ EntryFull(j, ledger'[j]) /\ Grows(ledger[j], ledger'[j])
      /\ \A k \in Jobs \ {j} : ledger'[k] = ledger[k]
  BY <1>1, <1>2, <1>4, RefundFacts, SameEntry
<1>6. \A r \in Runners : Alike(run'[r], run[r])
  <2>1. run \in [Runners -> RunRecords]
    BY Parts DEF RunsOK
  <2>2. ASSUME c # NoRunner, run' = [run EXCEPT ![c].signal = "canceled"],
               NEW r \in Runners
        PROVE  Alike(run'[r], run[r])
    <3>1. run[r] \in RunRecords
      BY <2>1
    <3>2. run'[r] = IF r = c THEN [run[r] EXCEPT !.signal = "canceled"] ELSE run[r]
      BY <2>1, <2>2
    <3> QED
      BY <3>1, <3>2 DEF Alike, RunRecords
  <2> QED
    BY <1>1, <2>2 DEF Alike
<1>7. ASSUME NEW k \in Jobs
      PROVE  /\ JobOK(k, jobs'[k], ledger'[k], sent[k])
             /\ jobs'[k].status = "absent" <=> jobs[k].status = "absent"
             /\ jobs'[k].stale => jobs[k].stale
             /\ \A s \in {"failed", "canceled"} :
                  jobs'[k].status = s => jobs[k].status = s
             /\ Unstarted(k) => jobs'[k] = jobs[k]
  <2>1. JobOK(k, jobs[k], ledger[k], sent[k])
    BY SafetyFacts
  <2>2. /\ JobOK(k, jobs'[k], ledger[k], sent[k])
        /\ jobs'[k].status = "absent" <=> jobs[k].status = "absent"
        /\ jobs'[k].stale => jobs[k].stale
        /\ \A s \in {"failed", "canceled"} :
             jobs'[k].status = s => jobs[k].status = s
        /\ Unstarted(k) => jobs'[k] = jobs[k]
    <3>1. Unstarted(k) => Queued(k)
      BY DEF Unstarted, Queued
    <3> QED
      BY <1>1, <2>1, <3>1, JobRead
  <2>3. /\ ledger[k] \in Entries /\ ledger'[k] \in Entries /\ sent[k] \in Nat
        /\ EntryFull(k, ledger[k]) /\ EntryFull(k, ledger'[k])
        /\ Grows(ledger[k], ledger'[k]) /\ sent[k] <= Requests(k)
    BY <1>2, <1>5, <2>1, SafetyFacts, SameEntry DEF IInv, TypeOK, JobOK
  <2>4. JobOK(k, jobs'[k], ledger'[k], sent[k])
    BY <2>2, <2>3, JobKept
  <2> QED
    BY <2>2, <2>4
<1>8. RequestFrame
  <2>1. \A k \in Jobs : EntryFull(k, ledger'[k]) /\ Grows(ledger[k], ledger'[k])
    BY <1>5, SafetyFacts, SameEntry
  <2>2. UNCHANGED << controller, sent, crashes >> /\ (faults' = 0 => faults = 0)
    BY <1>1
  <2> QED
    BY <1>6, <1>7, <2>1, <2>2 DEF RequestFrame
<1>9. /\ ItemsOK'
      /\ \A k : Queued(k)' => Queued(k)
      /\ ~Unstarted(j)'
      /\ j \notin Video => ~Queued(j)'
  BY <1>1, <1>2, <1>5, <1>7, <1>8, UnqueuedKept
<1>10. CanceledOK'
  <2> SUFFICES ASSUME NEW k \in Jobs \ Video, jobs'[k].status = "canceled"
               PROVE  Dead(k)'
    BY DEF CanceledOK
  <2>1. jobs[k].status = "canceled" /\ Dead(k)
    BY <1>7 DEF SInv, CanceledOK
  <2> QED
    BY <1>8, <1>9, <2>1, DeadStays
<1>11. ChargedOK'
  <2> SUFFICES ASSUME crashes = 0, NEW k \in Jobs, ledger'[k].open,
                      jobs'[k].status = "absent"
               PROVE  ledger'[k].back = Amount(k)
    BY <1>1 DEF ChargedOK, ChargeHasJob
  <2>1. jobs[k].status = "absent" /\ ledger'[k] = ledger[k]
    BY <1>3, <1>5, <1>7
  <2> QED
    BY <1>1, <2>1 DEF SInv, ChargedOK, ChargeHasJob
<1>12. RequestOK'
  <2>1. ASSUME NEW final, NEW b, cancel(final, b), Claim(j, b, ledger'[j]),
               final = "canceled" /\ j \notin Video => Dead(j)'
        PROVE  RequestOK'
    <3>1. /\ handler'.pc = "cancel" /\ handler'.job = j /\ handler'.final = final
          /\ handler'.bill = b
      BY <1>2, <2>1 DEF HandlerRecords
    <3>2. jobs'[j].status # "absent"
      BY <1>2, <1>3, <1>7
    <3>3. CancelOK'
      BY <1>9, <2>1, <3>1, <3>2 DEF CancelOK, Unstarted, Dead, Queued
    <3> QED
      BY <3>1, <3>3 DEF RequestOK, WriteOK, RecoverOK
  <2>2. CASE cancel("unknown", MarkedUnknown(j, bill)) /\ UNCHANGED ledger
    <3> DEFINE b == MarkedUnknown(j, bill)
               final == "unknown"
    <3>1. Claim(j, b, ledger'[j]) /\ cancel(final, b) /\ final # "canceled"
      BY <1>2, <1>4, <2>2, UnknownClaims
    <3> HIDE DEF b, final
    <3> QED
      BY <2>1, <3>1
  <2>3. CASE /\ c = NoRunner /\ Queued(j)
             /\ cancel("canceled", Refunded(j, bill)) /\ Refund(j, bill)
    <3>1. Claim(j, Refunded(j, bill), ledger'[j])
      BY <1>2, <1>4, <2>3, RefundFacts
    <3>2. ASSUME j \notin Video PROVE Dead(j)'
      <4>1. PICK i \in DOMAIN items : items[i].job = j
        BY <2>3 DEF Queued
      <4>2. Pristine(j) /\ \A r \in Busy : Job(r) # j
        BY <3>2, <4>1 DEF SInv, ItemsOK
      <4>3. Billed(j) /\ Recorded(j) => ledger'[j].back = Amount(j)
        BY <1>2, <1>3, <2>3, <4>2, RefundReserved DEF Pristine
      <4>4. \A r \in Runners : r \in Busy' => r \in Busy /\ run'[r].job = run[r].job
        BY <1>6 DEF Alike, Busy
      <4>5. \A r \in Busy' : run'[r].job # j
        BY <4>2, <4>4 DEF Busy, Job
      <4>6. ~Queued(j)' /\ sent'[j] = 0
        BY <1>1, <1>9, <3>2, <4>2 DEF Pristine
      <4> QED
        BY <4>3, <4>5, <4>6 DEF Dead, Job
    <3> QED
      BY <2>1, <2>3, <3>1, <3>2
  <2> QED
    BY <1>1, <2>2, <2>3
<1>13. /\ EntriesFull' /\ JobsOK' /\ RunnersOK' /\ FirstRunAlone'
       /\ ControllersOK' /\ FailedOK'
  BY <1>8, RequestMove
<1> QED
  BY <1>9, <1>10, <1>11, <1>12, <1>13 DEF SInv

(* The queue is drained: each item taken from its head becomes the runner  *)
(* of its job (drainGenerationQueue).                                      *)
DrainedBy(n, slot) ==
  /\ n <= Len(items)
  /\ \A i \in 1 .. n :
       /\ run'[slot[i]].pc = "read" /\ run'[slot[i]].out = 0
       /\ run'[slot[i]].job = items[i].job
       /\ run'[slot[i]].resume = items[i].resume
  /\ \A r \in Runners : run'[r] = run[r] \/ \E i \in 1 .. n : slot[i] = r
  /\ \A r \in Busy : run'[r] = run[r]
  /\ DOMAIN items' = 1 .. Len(items) - n
  /\ \A m \in DOMAIN items' : m + n \in DOMAIN items /\ items'[m] = items[m + n]
  /\ lock' = lock \o slot /\ slot \in Seq(Waiters)
  /\ running' = running + n
  /\ n = IF running < Cardinality(Runners)
         THEN IF Len(items) < Cardinality(Runners) - running THEN Len(items)
              ELSE Cardinality(Runners) - running
         ELSE 0

LEMMA Drained ==
  ASSUME IInv, Drain
  PROVE  \E n \in Nat : \E slot \in Injection(1 .. n, Runners \ Busy) : DrainedBy(n, slot)
<1> DEFINE free == Runners \ Busy
           room == IF running < Cardinality(Runners)
                   THEN Cardinality(Runners) - running ELSE 0
           n == IF Len(items) < room THEN Len(items) ELSE room
<1>1. PICK slot \in Injection(1 .. n, free) :
        /\ run' = [ r \in Runners |->
                      IF \E i \in 1 .. n : slot[i] = r
                      THEN LET item == items[CHOOSE i \in 1 .. n : slot[i] = r]
                           IN  [ Idle EXCEPT !.pc = "read",
                                             !.job = item.job,
                                             !.task = item.task,
                                             !.resume = item.resume ]
                      ELSE run[r] ]
        /\ lock' = lock \o slot
        /\ items' = SubSeq(items, n + 1, Len(items))
        /\ running' = running + n
  BY DEF Drain
<1>2. items \in Seq(Items) /\ Len(items) \in Nat /\ running \in Nat
  BY Parts DEF QueueOK
<1>3. /\ n \in Nat /\ n <= Len(items)
      /\ n = IF running < Cardinality(Runners)
             THEN IF Len(items) < Cardinality(Runners) - running THEN Len(items)
                  ELSE Cardinality(Runners) - running
             ELSE 0
  <2>1. Cardinality(Runners) \in Nat
    BY JobsAssumption, FS_CardinalityType
  <2> QED
    BY <1>2, <2>1
<1> HIDE DEF n
<1>4. /\ slot \in [1 .. n -> free]
      /\ \A i, k \in 1 .. n : slot[i] = slot[k] => i = k
  BY DEF Injection, IsInjective
<1>5. ASSUME NEW i \in 1 .. n
      PROVE  /\ run'[slot[i]].pc = "read" /\ run'[slot[i]].out = 0
             /\ run'[slot[i]].job = items[i].job
             /\ run'[slot[i]].resume = items[i].resume
  <2> DEFINE r == slot[i]
             k == CHOOSE k \in 1 .. n : slot[k] = r
  <2>1. k \in 1 .. n /\ slot[k] = r /\ r \in Runners
    BY <1>4
  <2>2. k = i
    BY <1>4, <2>1
  <2>3. run'[r] = [ Idle EXCEPT !.pc = "read", !.job = items[k].job,
                                !.task = items[k].task, !.resume = items[k].resume ]
    BY <1>1, <2>1
  <2> HIDE DEF k
  <2> QED
    BY <2>2, <2>3 DEF Idle
<1>6. \A r \in Runners : run'[r] = run[r] \/ \E i \in 1 .. n : slot[i] = r
  BY <1>1
<1>7. \A r \in Busy : run'[r] = run[r]
  BY <1>4, <1>6 DEF Busy
<1>8. /\ DOMAIN items' = 1 .. Len(items) - n
      /\ \A m \in DOMAIN items' : m + n \in DOMAIN items /\ items'[m] = items[m + n]
  <2>1. /\ items' \in Seq(Items)
        /\ Len(items') = IF n + 1 <= Len(items) THEN Len(items) - (n + 1) + 1 ELSE 0
        /\ \A m \in 1 .. Len(items) - (n + 1) + 1 : items'[m] = items[n + 1 + m - 1]
    <3>1. n + 1 \in Int /\ Len(items) \in Int
      BY <1>2, <1>3
    <3>2. \A i \in n + 1 .. Len(items) : items[i] \in Items
      BY <1>2, <1>3
    <3>3. items' = SubSeq(items, n + 1, Len(items))
      BY <1>1
    <3> QED
      BY <3>1, <3>2, <3>3, SubSeqProperties
  <2>2. Len(items') = Len(items) - n /\ Len(items) - (n + 1) + 1 = Len(items) - n
    BY <1>2, <1>3, <2>1
  <2>3. DOMAIN items' = 1 .. Len(items) - n
    BY <2>1, <2>2
  <2>4. ASSUME NEW m \in 1 .. Len(items) - n
        PROVE  m + n \in DOMAIN items /\ n + 1 + m - 1 = m + n
    BY <1>2, <1>3, <2>4
  <2> QED
    BY <2>1, <2>2, <2>3, <2>4
<1>9. slot \in Seq(Waiters)
  BY <1>3, <1>4 DEF Waiters
<1> n \in Nat
  BY <1>3
<1> WITNESS n \in Nat
<1> WITNESS slot \in Injection(1 .. n, Runners \ Busy)
<1> QED
  BY <1>1, <1>3, <1>5, <1>6, <1>7, <1>8, <1>9 DEF DrainedBy

LEMMA DrainInOrder ==
  ASSUME IInv, IInv', SInv, Drain
  PROVE  SInv'
<1>1. UNCHANGED << jobs, ledger, sent, controller, handler, crashes, faults >>
  BY DEF Drain, ledgerVars, world, bounds
<1>2. PICK n \in Nat : \E slot \in Injection(1 .. n, Runners \ Busy) : DrainedBy(n, slot)
  BY Drained
<1>3. PICK slot \in Injection(1 .. n, Runners \ Busy) : DrainedBy(n, slot)
  BY <1>2
<1>4. /\ \A i \in 1 .. n : /\ run'[slot[i]].pc = "read" /\ run'[slot[i]].out = 0
                           /\ run'[slot[i]].job = items[i].job
                           /\ run'[slot[i]].resume = items[i].resume
      /\ \A r \in Runners : run'[r] = run[r] \/ \E i \in 1 .. n : slot[i] = r
      /\ \A m \in DOMAIN items' : m + n \in DOMAIN items /\ items'[m] = items[m + n]
  BY <1>3 DEF DrainedBy
<1>5. /\ items \in Seq(Items) /\ Len(items) \in Nat /\ DOMAIN items = 1 .. Len(items)
      /\ 1 .. n \subseteq DOMAIN items /\ lock \in Seq(Waiters)
      /\ DOMAIN items' \subseteq Nat \ {0}
  <2>1. items \in Seq(Items) /\ Len(items) \in Nat /\ lock \in Seq(Waiters)
    BY Parts DEF QueueOK, LockOK
  <2>2. n <= Len(items) /\ DOMAIN items' = 1 .. Len(items) - n
    BY <1>3 DEF DrainedBy
  <2> QED
    BY <2>1, <2>2
(* A busy runner afterwards is an old one, or the runner of an item. *)
<1>6. ASSUME NEW r \in Busy'
      PROVE  /\ r \in Runners
             /\ \/ r \in Busy /\ run'[r] = run[r]
                \/ \E i \in 1 .. n :
                     /\ slot[i] = r /\ run'[r].pc = "read" /\ run'[r].out = 0
                     /\ run'[r].job = items[i].job
                     /\ run'[r].resume = items[i].resume
  <2>1. r \in Runners /\ run'[r].pc # "idle"
    BY DEF Busy
  <2>2. CASE run'[r] = run[r]
    BY <2>1, <2>2 DEF Busy
  <2>3. ASSUME NEW i \in 1 .. n, slot[i] = r
        PROVE  /\ run'[r].pc = "read" /\ run'[r].out = 0
               /\ run'[r].job = items[i].job /\ run'[r].resume = items[i].resume
    BY <1>4, <2>3
  <2> QED
    BY <1>4, <2>1, <2>2, <2>3
<1>7. ASSUME NEW i \in DOMAIN items
      PROVE  LET j == items[i].job
             IN  /\ j \in Jobs /\ jobs[j].status # "absent"
                 /\ items[i].resume => j \in Video
                 /\ ~items[i].resume =>
                      /\ sent[j] = 0 /\ ~jobs[j].stale /\ Pristine(j)
                      /\ \A k \in DOMAIN items : items[k].job = j => k = i
                      /\ \A r \in Busy : run[r].job # j
  BY SafetyFacts DEF SInv, ItemsOK, Pristine, Job
<1>8. RunnersOK'
  <2> SUFFICES ASSUME NEW r \in Runners, run'[r].pc # "idle"
               PROVE  LET k == run'[r].job
                      IN  RunnerOK(run'[r], jobs[k], ledger[k], sent[k])
    BY <1>1 DEF RunnersOK, RunnerOK, Job
  <2>1. CASE run'[r] = run[r]
    BY <2>1 DEF SInv, RunnersOK, Job
  <2>2. ASSUME NEW i \in 1 .. n, run'[r].pc = "read", run'[r].out = 0,
               run'[r].job = items[i].job, run'[r].resume = items[i].resume
        PROVE  RunnerOK(run'[r], jobs[items[i].job], ledger[items[i].job],
                        sent[items[i].job])
    BY <1>5, <1>7, <2>2 DEF RunnerOK, Placed, Ordered, Paid, Current
  <2>3. ASSUME NEW i \in 1 .. n, slot[i] = r
        PROVE  /\ run'[r].pc = "read" /\ run'[r].out = 0
               /\ run'[r].job = items[i].job /\ run'[r].resume = items[i].resume
    BY <1>4, <2>3
  <2>4. CASE \E i \in 1 .. n : slot[i] = r
    BY <2>2, <2>3, <2>4
  <2> QED
    BY <1>4, <2>1, <2>4
<1>9. FirstRunAlone'
  <2> SUFFICES ASSUME NEW r \in Busy', NEW s \in Busy', run'[r].job = run'[s].job,
                      ~run'[r].resume, ~run'[s].resume
               PROVE  r = s
    BY DEF FirstRunAlone, Job
  <2> DEFINE old(q) == q \in Busy /\ run'[q] = run[q]
             new(q, i) == /\ slot[i] = q /\ run'[q].job = items[i].job
                          /\ run'[q].resume = items[i].resume
  <2>1. /\ old(r) \/ \E i \in 1 .. n : new(r, i)
        /\ old(s) \/ \E i \in 1 .. n : new(s, i)
    BY <1>6
  <2>2. CASE old(r) /\ old(s)
    BY <2>2 DEF SInv, FirstRunAlone, Job
  <2>3. ASSUME NEW i \in 1 .. n, NEW k \in 1 .. n, new(r, i), new(s, k)
        PROVE  r = s
    <3>1. i = k
      BY <1>5, <1>7, <2>3
    <3> QED
      BY <2>3, <3>1
  <2>4. ASSUME NEW i \in 1 .. n, new(r, i), old(s) PROVE FALSE
    <3>1. s \in Busy /\ run[s].job = items[i].job /\ ~items[i].resume
      BY <2>4
    <3> QED
      BY <1>5, <1>7, <3>1
  <2>5. ASSUME NEW i \in 1 .. n, new(s, i), old(r) PROVE FALSE
    BY <1>5, <1>7, <2>5
  <2> QED
    BY <2>1, <2>2, <2>3, <2>4, <2>5
<1>10. ControllersOK'
  <2> SUFFICES ASSUME NEW k \in Jobs, controller[k] # NoRunner
               PROVE  /\ controller[k] \in Busy'
                      /\ run'[controller[k]].job = k
                      /\ run'[controller[k]].pc # "read"
    BY <1>1 DEF ControllersOK, Job
  <2>1. /\ controller[k] \in Busy /\ run[controller[k]].job = k
        /\ run[controller[k]].pc # "read"
    BY DEF SInv, ControllersOK, Job
  <2>2. run'[controller[k]] = run[controller[k]]
    BY <1>3, <2>1 DEF DrainedBy
  <2> QED
    BY <2>1, <2>2 DEF Busy
<1>11. \A k : /\ Unstarted(k)' => Unstarted(k)
              /\ Queued(k)' => Queued(k)
  BY <1>3 DEF Unstarted, Queued, DrainedBy
<1>12. ItemsOK'
  <2> SUFFICES ASSUME NEW i \in DOMAIN items', NEW k, k = items'[i].job
               PROVE  /\ jobs'[k].status # "absent"
                      /\ items'[i].resume => k \in Video
                      /\ ~items'[i].resume =>
                           /\ Pristine(k)'
                           /\ \A m \in DOMAIN items' : items'[m].job = k => m = i
                           /\ \A r \in Busy' : run'[r].job # k
    BY DEF ItemsOK, Job, Pristine
  <2>1. i + n \in DOMAIN items /\ items'[i] = items[i + n] /\ i \in Nat /\ i >= 1
    BY <1>4, <1>5
  <2>2. Pristine(k) => Pristine(k)'
    BY <1>1 DEF Pristine
  <2>3. ASSUME ~items'[i].resume, NEW m \in DOMAIN items', items'[m].job = k
        PROVE  m = i
    <3>1. m + n \in DOMAIN items /\ items'[m] = items[m + n] /\ m \in Nat
      BY <1>4, <1>5
    <3>2. m + n = i + n
      BY <1>7, <2>1, <2>3, <3>1
    <3> QED
      BY <2>1, <3>1, <3>2
  <2>4. ASSUME ~items'[i].resume, NEW r \in Busy' PROVE run'[r].job # k
    <3>1. ASSUME r \in Busy, run'[r] = run[r] PROVE run'[r].job # k
      BY <1>7, <2>1, <2>4, <3>1
    <3>2. ASSUME NEW m \in 1 .. n, run'[r].job = items[m].job PROVE run'[r].job # k
      <4>1. m # i + n /\ m \in DOMAIN items
        BY <1>5, <2>1
      <4> QED
        BY <1>7, <2>1, <2>4, <3>2, <4>1
    <3> QED
      BY <1>6, <3>1, <3>2
  <2> QED
    BY <1>1, <1>7, <2>1, <2>2, <2>3, <2>4
<1>13. ASSUME NEW k \in Jobs, Dead(k) PROVE Dead(k)'
  <2>1. ASSUME NEW r \in Busy' PROVE run'[r].job # k
    <3>1. ASSUME r \in Busy, run'[r] = run[r] PROVE run'[r].job # k
      BY <1>13, <3>1 DEF Dead, Job
    <3>2. ASSUME NEW i \in 1 .. n, run'[r].job = items[i].job PROVE run'[r].job # k
      BY <1>5, <1>13, <3>2 DEF Dead, Queued
    <3> QED
      BY <1>6, <3>1, <3>2
  <2> QED
    BY <1>1, <1>11, <1>13, <2>1 DEF Dead, Job
<1>14. ASSUME NEW k \in Jobs, Followed(k) PROVE Followed(k)'
  BY <1>1, <1>11, <1>14 DEF Followed
<1>15. RequestOK'
  <2>1. WriteOK'
    <3> SUFFICES ASSUME handler.pc = "write" PROVE Holds(Handler)'
      BY <1>1 DEF WriteOK, SInv, RequestOK
    <3>1. lock # << >> /\ Head(lock) = Handler
      BY DEF SInv, RequestOK, WriteOK, Holds
    <3>2. /\ Len(lock) \in Nat /\ Len(lock) >= 1 /\ Len(slot) \in Nat
          /\ Len(lock') = Len(lock) + Len(slot) /\ lock' \in Seq(Waiters)
          /\ lock'[1] = lock[1]
      BY <1>3, <1>5, <3>1, ConcatProperties DEF DrainedBy
    <3> QED
      BY <3>1, <3>2 DEF Holds
  <2>2. handler.pc = "cancel" => handler.job \in Jobs
    BY HandlerFacts
  <2>3. CancelOK'
    <3> SUFFICES ASSUME handler.pc = "cancel", NEW j \in Jobs, j = handler.job
                 PROVE  /\ jobs'[j].status # "absent"
                        /\ ~Unstarted(j)'
                        /\ Claim(j, handler.bill, ledger'[j])
                        /\ handler.final = "canceled" /\ j \notin Video => Dead(j)'
      BY <1>1, <2>2 DEF CancelOK, Unstarted, Dead, Queued
    <3> QED
      BY <1>1, <1>11, <1>13 DEF SInv, RequestOK, CancelOK
  <2>4. RecoverOK'
    <3>1. handler.todo \subseteq Jobs /\ (handler.pc = "block" => handler.job \in Jobs)
      BY HandlerFacts DEF HandlerRecords
    <3> QED
      BY <1>1, <1>14, <3>1 DEF SInv, RequestOK, RecoverOK, Followed, Unstarted
  <2> QED
    BY <2>1, <2>3, <2>4 DEF RequestOK
<1>16. CanceledOK'
  BY <1>1, <1>13 DEF SInv, CanceledOK
<1>17. FailedOK'
  <2> SUFFICES ASSUME crashes = 0, faults = 0, NEW k \in Jobs, Unrefunded(k)
               PROVE  \E r \in Busy' : run'[r].job = k /\ run'[r].pc \in {"catch", "fail"}
    BY <1>1 DEF FailedOK, Unrefunded, At, Job
  <2>1. PICK r \in At(k) : run[r].pc \in {"catch", "fail"}
    BY DEF SInv, FailedOK
  <2>2. run'[r] = run[r] /\ r \in Busy
    BY <1>3, <2>1 DEF At, DrainedBy
  <2> QED
    BY <2>1, <2>2 DEF At, Job, Busy
<1>18. EntriesFull' /\ JobsOK' /\ ChargedOK'
  BY <1>1 DEF SInv, EntriesFull, JobsOK, ChargedOK, ChargeHasJob
<1> QED
  BY <1>8, <1>9, <1>10, <1>12, <1>15, <1>16, <1>17, <1>18 DEF SInv


-------------------------------------------------------------------------------
(* The bounds of the world: a crash, the start, and no step at all. *)

(* A process that has nothing in memory is in order as soon as its files   *)
(* are.                                                                    *)
Forgotten ==
  /\ EntriesFull /\ JobsOK /\ CanceledOK /\ FailedOK /\ ChargedOK
  /\ items = << >> /\ handler = NoRequest
  /\ run = [r \in Runners |-> Idle]
  /\ controller = [j \in Jobs |-> NoRunner]

LEMMA EmptyMemory == Forgotten => SInv
<1> SUFFICES ASSUME Forgotten PROVE SInv
  OBVIOUS
<1> USE DEF Forgotten
<1>1. Busy = {}
  BY DEF Busy, Idle
<1>2. RunnersOK /\ FirstRunAlone /\ ControllersOK
  BY <1>1 DEF RunnersOK, RunnerOK, FirstRunAlone, ControllersOK, Idle
<1>3. ItemsOK
  BY DEF ItemsOK
<1>4. RequestOK
  BY DEF RequestOK, WriteOK, CancelOK, RecoverOK, NoRequest
<1> QED
  BY <1>2, <1>3, <1>4 DEF SInv

(* A crash loses the memory of the process and ages the records.           *)
LEMMA CrashInOrder ==
  ASSUME IInv, IInv', SInv, Crash
  PROVE  SInv'
<1>1. /\ items' = << >> /\ handler' = NoRequest
      /\ run' = [r \in Runners |-> Idle]
      /\ controller' = [j \in Jobs |-> NoRunner]
      /\ UNCHANGED << ledger, sent >>
      /\ crashes' # 0
  BY Parts DEF Crash, ledgerVars, world, BoundsOK
<1>2. \A k \in Jobs : jobs'[k].status = jobs[k].status /\ jobs'[k].bill = jobs[k].bill
  BY Parts DEF Crash, RecordsOK, JobRecords
<1>3. EntriesFull' /\ JobsOK'
  BY <1>1, <1>2 DEF SInv, EntriesFull, JobsOK, JobOK
<1>4. Busy' = {} /\ \A k : ~Queued(k)'
  BY <1>1 DEF Busy, Idle, Queued
<1>5. CanceledOK'
  BY <1>1, <1>2, <1>4 DEF SInv, CanceledOK, Dead
<1>6. FailedOK' /\ ChargedOK'
  BY <1>1 DEF FailedOK, ChargedOK
<1>7. Forgotten' => SInv'
  BY EmptyMemory, PTL
<1> QED
  BY <1>1, <1>3, <1>5, <1>6, <1>7 DEF Forgotten

LEMMA StartInOrder ==
  ASSUME IInv, Init
  PROVE  SInv
<1>1. EntriesFull
  BY NewEntry DEF Init, EntriesFull, EntryFull, NoEntry
<1>2. JobsOK
  <2>1. \A j \in Jobs : Requests(j) \in Nat
    BY LedgerAssumption DEF Requests
  <2> QED
    BY <2>1 DEF Init, JobsOK, JobOK, NoRecord
<1>3. CanceledOK /\ FailedOK /\ ChargedOK
  BY DEF Init, CanceledOK, FailedOK, Unrefunded, ChargedOK, ChargeHasJob, NoRecord,
         NoEntry
<1> QED
  BY <1>1, <1>2, <1>3, EmptyMemory DEF Init, Forgotten

LEMMA NothingInOrder ==
  ASSUME SInv, UNCHANGED vars
  PROVE  SInv'
<1>1. /\ UNCHANGED << jobs, ledger, items, controller, run, handler, lock, sent >>
      /\ UNCHANGED << crashes, faults >>
  BY DEF vars
<1>2. Busy' = Busy /\ \A k : At(k)' = At(k)
  BY <1>1 DEF Busy, At, Job
<1> QED
  BY <1>1 DEF SInv, EntriesFull, JobsOK, RunnersOK, FirstRunAlone, ControllersOK,
     ItemsOK, RequestOK, CanceledOK, FailedOK, ChargedOK, ChargeHasJob, WriteOK,
     CancelOK, RecoverOK, Unrefunded, Dead, Unstarted, Followed, Queued, Busy, At,
     Job, Pristine, Holds


-------------------------------------------------------------------------------
(* The theorems. *)

LEMMA StepInOrder ==
  ASSUME IInv, IInv', SInv, [Next]_vars
  PROVE  SInv'
<1>1. CASE UNCHANGED vars
  BY <1>1, NothingInOrder
<1>2. ASSUME NEW r \in Runners,
             \/ RunnerStep(r) \/ ProviderStep(r) \/ History(r) \/ Timeout(r)
             \/ RunnerFault(r)
      PROVE  SInv'
  BY <1>2, RunnersKeep
<1>3. CASE Request
  BY <1>3, PlainRequestsKeep, JobsAssumption DEF Request
<1>4. CASE RequestStep
  BY <1>4, PlainRequestsKeep, ReserveKeeps, AcceptKeeps, CancelJobKeeps, GiveUpsKeep,
     GetKeeps, ResumeKeeps, SkipKeeps DEF RequestStep
<1>5. CASE Drain \/ AcceptFails \/ RequestFault \/ Crash
  BY <1>5, DrainInOrder, AcceptFailsKeeps, PlainRequestsKeep, CrashInOrder
<1> QED
  BY <1>1, <1>2, <1>3, <1>4, <1>5 DEF Next

(* In every behaviour of the service the files, the memory, the billing    *)
(* entries and the request in progress agree as SInv says, whatever the    *)
(* runners, the cancels, the resumed videos, the failed writes and the     *)
(* crashes do, for any number of jobs, prices and slots.                   *)
THEOREM SafetyInvariant == Spec => []SInv
<1>1. Init /\ IInv => SInv
  BY StartInOrder
<1>2. IInv /\ IInv' /\ SInv /\ [Next]_vars => SInv'
  BY StepInOrder
<1> QED
  BY <1>1, <1>2, Invariant, PTL DEF Spec


-------------------------------------------------------------------------------
(* The queue never sleeps on a waiting job: an invariant of its own. *)

BusyAsBefore ==
  \A r \in Runners : run'[r].pc = "idle" <=> run[r].pc = "idle"

LEMMA SlotsAsBefore ==
  ASSUME NoLostWakeup, BusyAsBefore, running' = running,
         items' # << >> /\ running < Cardinality(Runners) /\ ~drainDue'
           => items # << >> /\ ~drainDue
  PROVE  NoLostWakeup'
<1>1. Busy' = Busy
  BY DEF Busy, BusyAsBefore
<1> QED
  BY <1>1 DEF NoLostWakeup

(* A runner that goes on keeps its slot. *)
LEMMA StayingWakes ==
  ASSUME IInv, NoLostWakeup, NEW r \in Runners,
         \/ Take(r) \/ Start(r) \/ Gateway(r) \/ CallAborted(r)
         \/ Saving(r) \/ Store(r) \/ StoreFails(r) \/ Stored(r) \/ Tracked(r)
         \/ Polled(r) \/ Retried(r) \/ Finish(r) \/ Catch(r)
         \/ ProviderStep(r) \/ Timeout(r)
  PROVE  NoLostWakeup'
<1>1. run \in [Runners -> RunRecords]
  BY Parts DEF RunsOK
<1>2. UNCHANGED queueVars
  BY DEF Take, Start, Gateway, CallAborted, Saving, Store, StoreFails, Stored,
     Tracked, Polled, Retried, Finish, Catch, ProviderStep, ImageAnswer,
     VideoAnswer, CallFails, Poll, PollRetry, PollFails, Timeout
<1>3. BusyAsBefore
  <2>1. CASE Take(r) \/ Start(r) \/ Gateway(r) \/ CallAborted(r) \/ Saving(r)
    BY <1>1, <2>1 DEF Take, Start, Gateway, CallAborted, Saving, BusyAsBefore, AtLock,
       Thrown, FirstStep, RunRecords
  <2>2. CASE Store(r) \/ StoreFails(r) \/ Retried(r) \/ Finish(r) \/ Timeout(r)
    BY <1>1, <2>2 DEF Store, StoreFails, Retried, Finish, Timeout, BusyAsBefore, AtLock,
       Thrown, RunRecords
  <2>3. CASE Stored(r) \/ Tracked(r) \/ Polled(r) \/ Catch(r)
    BY <1>1, <2>3 DEF Stored, Tracked, Polled, Catch, BusyAsBefore, AtLock,
       Thrown, RunRecords
  <2>4. CASE ImageAnswer(r) \/ CallFails(r) \/ PollFails(r)
    BY <1>1, <2>4 DEF ImageAnswer, CallFails, PollFails, BusyAsBefore, Thrown,
       RunRecords
  <2>5. CASE VideoAnswer(r)
    BY <1>1, <2>5 DEF VideoAnswer, BusyAsBefore, Thrown, RunRecords
  <2>6. CASE Poll(r)
    BY <1>1, <2>6 DEF Poll, BusyAsBefore, RunRecords
  <2>7. CASE PollRetry(r)
    BY <1>1, <2>7 DEF PollRetry, BusyAsBefore, RunRecords
  <2> QED
    BY <2>1, <2>2, <2>3, <2>4, <2>5, <2>6, <2>7 DEF ProviderStep
<1> QED
  BY <1>2, <1>3, SlotsAsBefore DEF queueVars

(* A runner that leaves gives its slot back and wakes the queue. *)
LEMMA LeavingWakes ==
  ASSUME IInv, NoLostWakeup, NEW r \in Runners, run[r].pc # "idle", Leave(r)
  PROVE  NoLostWakeup'
<1>1. run \in [Runners -> RunRecords] /\ running \in Nat
  BY Parts DEF RunsOK, QueueOK
<1>2. IsFiniteSet(Busy) /\ r \in Busy
  BY JobsAssumption, FS_Subset DEF Busy
<1>3. Busy' = Busy \ {r}
  BY <1>1 DEF Leave, Busy, Idle
<1>4. Cardinality(Busy \ {r}) = Cardinality(Busy) - 1
  BY <1>2, FS_RemoveElement
<1>5. Cardinality(Busy) \in Nat /\ Cardinality(Busy) # 0
  BY <1>2, FS_CardinalityType, FS_EmptySet
<1> QED
  BY <1>1, <1>3, <1>4, <1>5 DEF NoLostWakeup, Leave


(* A drain fills slots until none is free or no item is left. *)
LEMMA DrainingWakes ==
  ASSUME IInv, IInv', NoLostWakeup, Drain
  PROVE  NoLostWakeup'
<1>1. PICK n \in Nat : \E slot \in Injection(1 .. n, Runners \ Busy) : DrainedBy(n, slot)
  BY Drained
<1>2. PICK slot \in Injection(1 .. n, Runners \ Busy) : DrainedBy(n, slot)
  BY <1>1
<1>3. /\ slot \in [1 .. n -> Runners \ Busy]
      /\ \A i, k \in 1 .. n : slot[i] = slot[k] => i = k
  BY <1>2 DEF Injection, IsInjective
<1>4. /\ running' = running + n
      /\ n = IF running < Cardinality(Runners)
             THEN IF Len(items) < Cardinality(Runners) - running THEN Len(items)
                  ELSE Cardinality(Runners) - running
             ELSE 0
      /\ DOMAIN items' = 1 .. Len(items) - n
      /\ \A i \in 1 .. n : run'[slot[i]].pc = "read"
      /\ \A r \in Runners : run'[r] = run[r] \/ \E i \in 1 .. n : slot[i] = r
  BY <1>2 DEF DrainedBy
<1>5. /\ items \in Seq(Items) /\ Len(items) \in Nat /\ running \in Nat
      /\ items' \in Seq(Items) /\ Cardinality(Runners) \in Nat
  <2>1. QueueOK /\ QueueOK'
    BY Parts DEF IInv, TypeOK, QueueOK
  <2> QED
    BY <2>1, JobsAssumption, FS_CardinalityType DEF QueueOK
<1> DEFINE filled == { slot[i] : i \in 1 .. n }
<1>6. Busy' = Busy \cup filled /\ Busy \cap filled = {}
  <2>1. ASSUME NEW r \in filled PROVE r \in Busy' /\ r \notin Busy
    BY <1>3, <1>4 DEF Busy
  <2>2. ASSUME NEW r \in Busy PROVE r \in Busy'
    <3>1. ~(\E i \in 1 .. n : slot[i] = r)
      BY <1>3
    <3> QED
      BY <1>4, <3>1 DEF Busy
  <2>3. ASSUME NEW r \in Busy', r \notin filled PROVE r \in Busy
    BY <1>4, <2>3 DEF Busy
  <2> QED
    BY <2>1, <2>2, <2>3
<1>7. IsFiniteSet(filled) /\ Cardinality(filled) = n
  <2>1. IsFiniteSet(1 .. n) /\ Cardinality(1 .. n) = n
    BY FS_Interval
  <2>2. slot \in [1 .. n -> filled]
    BY <1>3
  <2>3. slot \in Surjection(1 .. n, filled)
    BY <2>2 DEF Surjection
  <2>4. slot \in Bijection(1 .. n, filled)
    BY <1>3, <2>2, <2>3 DEF Bijection, Injection, IsInjective
  <2> QED
    BY <2>1, <2>4, FS_Bijection DEF ExistsBijection
<1> HIDE DEF filled
<1>8. IsFiniteSet(Busy) /\ Cardinality(Busy) \in Nat
  BY JobsAssumption, FS_Subset, FS_CardinalityType DEF Busy
<1>9. Cardinality(Busy') = Cardinality(Busy) + n
  <2>1. Cardinality(Busy \cup filled)
          = Cardinality(Busy) + Cardinality(filled) - Cardinality(Busy \cap filled)
    BY <1>7, <1>8, FS_Union
  <2>2. Cardinality(Busy \cap filled) = 0
    BY <1>6, FS_EmptySet
  <2>3. Cardinality(Busy') = Cardinality(Busy \cup filled)
    BY <1>6
  <2> QED
    BY <1>7, <1>8, <2>1, <2>2, <2>3
<1>10. items' # << >> => n < Len(items)
  <2>1. items' # << >> => Len(items') >= 1
    BY <1>5
  <2>2. DOMAIN items' = 1 .. Len(items') /\ Len(items') \in Nat
    BY <1>5
  <2>3. 1 \in 1 .. Len(items') => 1 \in 1 .. Len(items) - n
    BY <1>4, <2>2
  <2> QED
    BY <1>5, <2>1, <2>2, <2>3
<1> QED
  BY <1>4, <1>5, <1>9, <1>10 DEF NoLostWakeup


(* A request leaves the slots alone, and wakes the queue when it adds an   *)
(* item to it.                                                             *)
LEMMA RequestsWake ==
  ASSUME IInv, NoLostWakeup, Request \/ RequestStep \/ AcceptFails \/ RequestFault
  PROVE  NoLostWakeup'
<1>1. CASE UNCHANGED << queueVars, run >>
  BY <1>1, SlotsAsBefore DEF BusyAsBefore, queueVars
<1>2. ASSUME NEW j, NEW t, NEW f, Enqueue(j, t, f), UNCHANGED << running, run >>
      PROVE  NoLostWakeup'
  BY <1>2, SlotsAsBefore DEF BusyAsBefore, Enqueue
<1>3. CASE CancelJob
  <2>1. items = << >> => items' = << >>
    BY <1>3 DEF CancelJob, Unqueued, Queued
  <2>2. BusyAsBefore
    BY <1>3, Parts DEF CancelJob, BusyAsBefore, RunsOK, ControllerOK, RunRecords
  <2>3. running' = running /\ drainDue' = drainDue
    BY <1>3 DEF CancelJob
  <2> QED
    BY <2>1, <2>2, <2>3, SlotsAsBefore
<1>4. CASE Request
  BY <1>1, <1>4 DEF Request, Submit, Cancel, Get, Arrive
<1>5. CASE AcceptFails \/ RequestFault
  BY <1>1, <1>5 DEF AcceptFails, RequestFault
<1>6. CASE Accept
  BY <1>2, <1>6 DEF Accept
<1>7. CASE \E j \in Jobs : Resume(j)
  BY <1>2, <1>7 DEF Resume
<1>8. CASE \/ Refuse \/ Reserve \/ CancelNothing \/ CancelWrite \/ GetRead \/ BlockWrite
           \/ \E j \in Jobs : Skip(j) \/ Block(j)
  BY <1>1, <1>8 DEF Refuse, Reserve, CancelNothing, CancelWrite, GetRead, BlockWrite,
     Skip, Block
<1> QED
  BY <1>3, <1>4, <1>5, <1>6, <1>7, <1>8 DEF RequestStep

LEMMA StepWakes ==
  ASSUME IInv, IInv', NoLostWakeup, [Next]_vars
  PROVE  NoLostWakeup'
<1>1. CASE UNCHANGED vars
  BY <1>1, SlotsAsBefore DEF vars, BusyAsBefore
<1>2. ASSUME NEW r \in Runners, RunnerStep(r) PROVE NoLostWakeup'
  <2>1. CASE Drop(r)
    BY <2>1, LeavingWakes DEF Drop, AtLock
  <2>2. CASE Fail(r)
    BY <2>2, LeavingWakes DEF Fail, AtLock, Finally
  <2> QED
    BY <1>2, <2>1, <2>2, StayingWakes DEF RunnerStep
<1>3. ASSUME NEW r \in Runners, ProviderStep(r) \/ Timeout(r) PROVE NoLostWakeup'
  BY <1>3, StayingWakes
<1>4. ASSUME NEW r \in Runners, History(r) PROVE NoLostWakeup'
  BY <1>4, LeavingWakes DEF History, Finally
<1>5. ASSUME NEW r \in Runners, RunnerFault(r) PROVE NoLostWakeup'
  <2>1. CASE run' = Thrown(r, "upstream") /\ UNCHANGED queueVars /\ run[r].pc # "idle"
    <3>1. BusyAsBefore
      BY <2>1, Parts DEF RunsOK, BusyAsBefore, Thrown, RunRecords
    <3> QED
      BY <2>1, <3>1, SlotsAsBefore DEF queueVars
  <2>2. CASE Leave(r) /\ run[r].pc # "idle"
    BY <2>2, LeavingWakes
  <2> QED
    BY <1>5, <2>1, <2>2 DEF RunnerFault, Finally, LockedSteps
<1>6. CASE Crash
  <2>1. Busy' = {} /\ running' = 0 /\ items' = << >>
    BY <1>6 DEF Crash, Busy, Idle
  <2> QED
    BY <2>1, FS_EmptySet DEF NoLostWakeup
<1> QED
  BY <1>1, <1>2, <1>3, <1>4, <1>5, <1>6, DrainingWakes, RequestsWake DEF Next

(* The counter of running jobs is the number of busy slots, whatever       *)
(* drops, ends, faults and crashes give them back, and a waiting job with  *)
(* a free slot always has a drain timer (drainGenerationQueue).            *)
THEOREM QueueAwake == Spec => []NoLostWakeup
<1>1. Init => NoLostWakeup
  <2>1. Init => Busy = {}
    BY DEF Init, Busy, Idle
  <2> QED
    BY <2>1, FS_EmptySet DEF Init, NoLostWakeup
<1>2. IInv /\ IInv' /\ NoLostWakeup /\ [Next]_vars => NoLostWakeup'
  BY StepWakes
<1> QED
  BY <1>1, <1>2, Invariant, PTL DEF Spec


-------------------------------------------------------------------------------
(* The properties that the invariant implies, state by state. *)

LEMMA AtMostOne ==
  ASSUME NEW S, \A x, y \in S : x = y
  PROVE  Cardinality(S) <= 1
<1>1. CASE S = {}
  BY <1>1, FS_EmptySet
<1>2. CASE S # {}
  <2>1. PICK x \in S : S = {x}
    BY <1>2
  <2> QED
    BY <2>1, FS_Singleton
<1> QED
  BY <1>1, <1>2

(* The provider never gets more requests for a job than its reservation    *)
(* pays for, whatever is resubmitted, resumed or restarted                 *)
(* (runGenerationRequest, recoverPersistedVideoJobs).                      *)
THEOREM SentWithinOrder == Spec => []RequestsWithinOrder
<1>1. SInv => RequestsWithinOrder
  BY DEF SInv, JobsOK, JobOK, RequestsWithinOrder
<1> QED
  BY <1>1, SafetyInvariant, PTL

(* An image job that was canceled as still queued is never sent to the     *)
(* provider and is refunded in full, although the drain timer may fall     *)
(* between the cancel's two critical sections (DELETE generation-jobs).    *)
THEOREM CanceledStaysUnsent == Spec => []CanceledNeverSent
<1>1. SInv => CanceledNeverSent
  BY DEF SInv, CanceledOK, Dead, CanceledNeverSent
<1> QED
  BY <1>1, SafetyInvariant, PTL

(* An image job has at most one runner and one place in the queue, never   *)
(* both, and the controller the cancel would abort is its runner's         *)
(* (enqueueGenerationJob, activeJobControllers).                           *)
THEOREM RunnersAreAlone == Spec => []OneRunner
<1>1. IInv /\ SInv => OneRunner
  <2> SUFFICES ASSUME IInv, SInv, NEW j \in Jobs \ Video
               PROVE  /\ Cardinality(At(j)) <= 1
                      /\ Cardinality({ i \in DOMAIN items : items[i].job = j }) <= 1
                      /\ At(j) # {} => ~Queued(j)
                      /\ controller[j] # NoRunner => controller[j] \in At(j)
    BY DEF OneRunner
  <2>1. \A r \in At(j) : r \in Busy /\ Job(r) = j /\ ~run[r].resume
    BY DEF SInv, RunnersOK, RunnerOK, Placed, At, Busy, Job
  <2>2. \A i \in DOMAIN items : items[i].job = j =>
          /\ \A k \in DOMAIN items : items[k].job = j => k = i
          /\ \A r \in Busy : Job(r) # j
    BY DEF SInv, ItemsOK
  <2>3. Cardinality(At(j)) <= 1
    <3>1. \A r, s \in At(j) : r = s
      BY <2>1 DEF SInv, FirstRunAlone
    <3> QED
      BY <3>1, AtMostOne
  <2>4. Cardinality({ i \in DOMAIN items : items[i].job = j }) <= 1
    <3>1. \A i, k \in { i \in DOMAIN items : items[i].job = j } : i = k
      BY <2>2
    <3> QED
      BY <3>1, AtMostOne
  <2>5. At(j) # {} => ~Queued(j)
    BY <2>1, <2>2 DEF Queued
  <2>6. controller[j] # NoRunner => controller[j] \in At(j)
    BY DEF SInv, ControllersOK, At
  <2> QED
    BY <2>3, <2>4, <2>5, <2>6
<1> QED
  BY <1>1, Invariant, SafetyInvariant, PTL

(* A job reported `succeeded' has delivered its whole order, kept its      *)
(* whole charge and is settled, unless its billing waits for               *)
(* reconciliation (chargeJobCredits before the final updateJob).           *)
THEOREM SuccessIsPaid == Spec => []SuccessPaid
<1>1. IInv /\ SInv => SuccessPaid
  <2> SUFFICES ASSUME IInv, SInv, NEW j \in Jobs, jobs[j].status = "succeeded",
                      Source[j] = "platform", Amount(j) > 0
               PROVE  /\ ledger[j].delivered = 1 .. Count[j]
                      /\ ledger[j].back = 0
                      /\ ledger[j].settled \/ jobs[j].bill = "unknown"
    BY DEF SuccessPaid
  <2>1. /\ 1 .. Count[j] \subseteq ledger[j].delivered
        /\ ledger[j].settled \/ jobs[j].bill = "unknown"
    BY DEF SInv, JobsOK, JobOK
  <2>2. ledger[j] \in Entries /\ EntryFull(j, ledger[j])
    BY Parts DEF BillingOK, SInv, EntriesFull
  <2> QED
    BY <2>1, <2>2, EntryBounds
<1> QED
  BY <1>1, Invariant, SafetyInvariant, PTL

(* While the process has not crashed, a charge without a record exists     *)
(* only while its request writes the record: a failed write gives it back  *)
(* (POST generation-jobs).  A crash between the two breaks it.             *)
THEOREM ChargesHaveJobs == Spec => [](crashes = 0 => ChargeHasJob)
<1>1. SInv => (crashes = 0 => ChargeHasJob)
  BY DEF SInv, ChargedOK
<1> QED
  BY <1>1, SafetyInvariant, PTL

(* While the process has not crashed and no write has failed, a job left   *)
(* `failed' by its runners was refunded exactly for what it did not        *)
(* deliver (the catch of runGenerationJob).  Either may come between the   *)
(* status `failed' that a poll writes and the refund.                      *)
THEOREM FailuresAreRefunded ==
  Spec => [](crashes = 0 /\ faults = 0 => FailureRefunded)
<1>1. IInv /\ SInv => (crashes = 0 /\ faults = 0 => FailureRefunded)
  <2> SUFFICES ASSUME IInv, SInv, crashes = 0, faults = 0, NEW j \in Jobs,
                      jobs[j].status = "failed", At(j) = {}, Billed(j)
               PROVE  ledger[j].back
                        = IF Source[j] = "platform"
                          THEN Amount(j) - Cardinality(ledger[j].delivered) * Unit[j]
                          ELSE Amount(j)
    BY DEF FailureRefunded
  <2>1. Closed(j, ledger[j])
    BY DEF SInv, FailedOK, Unrefunded
  <2>2. ledger[j] \in Entries /\ EntryFull(j, ledger[j])
    BY Parts DEF BillingOK, SInv, EntriesFull
  <2>3. /\ ledger[j].back \in Nat /\ ledger[j].back <= Amount(j)
        /\ Kept(j, ledger[j]) \in Nat /\ Kept(j, ledger[j]) <= Amount(j)
        /\ Amount(j) \in Nat
    BY <2>2, EntryBounds, AmountType
  <2>4. ledger[j].settled => ledger[j].back + Kept(j, ledger[j]) = Amount(j)
    BY <2>2 DEF EntryFull
  <2> QED
    BY <2>1, <2>3, <2>4 DEF Closed, Kept
<1> QED
  BY <1>1, Invariant, SafetyInvariant, PTL


-------------------------------------------------------------------------------
(* Which steps make a record: only the acceptance of a submission does.    *)

AbsenceKept ==
  \A k \in Jobs :
    /\ jobs'[k].status = "absent" <=> jobs[k].status = "absent"
    /\ jobs[k].status = "absent" => jobs'[k].bill = jobs[k].bill

LEMMA ReadMakesNone ==
  ASSUME IInv, NEW k \in Jobs
  PROVE  /\ Read[k].status = "absent" <=> jobs[k].status = "absent"
         /\ jobs[k].status = "absent" => Read[k] = jobs[k]
<1>1. Read[k] = IF Orphaned(k)
                THEN [ jobs[k] EXCEPT !.status = "unknown",
                                      !.bill = MarkedUnknown(k, jobs[k].bill),
                                      !.stale = FALSE ]
                ELSE jobs[k]
  BY DEF Read
<1>2. jobs[k] \in JobRecords
  BY Parts DEF RecordsOK
<1>3. Orphaned(k) => jobs[k].status # "absent"
  BY DEF Orphaned, ActiveStatuses
<1> QED
  BY <1>1, <1>2, <1>3 DEF JobRecords

LEMMA UpdateMakesNone ==
  ASSUME IInv, NEW j \in Jobs, jobs[j].status # "absent", NEW k \in Jobs, NEW b,
         NEW s, s # "absent"
  PROVE  /\ Updated(j, s, b)[k].status = "absent" <=> jobs[k].status = "absent"
         /\ jobs[k].status = "absent" => Updated(j, s, b)[k] = jobs[k]
<1>1. Read \in [Jobs -> JobRecords]
  BY Parts, ReadType
<1>2. k # j => Updated(j, s, b)[k] = Read[k]
  BY <1>1 DEF Updated
<1>3. Updated(j, s, b)[j].status = s
  BY <1>1 DEF Updated, JobRecords
<1> QED
  BY <1>2, <1>3, ReadMakesNone

(* A runner works on a job that has a record. *)
LEMMA RunnersMakeNone ==
  ASSUME IInv, SInv, NEW r \in Runners,
         \/ RunnerStep(r) \/ ProviderStep(r) \/ History(r) \/ Timeout(r)
         \/ RunnerFault(r)
  PROVE  AbsenceKept
<1>1. run[r].pc # "idle" => Job(r) \in Jobs /\ jobs[Job(r)].status # "absent"
  BY RunnerFacts DEF SInv, RunnersOK, RunnerOK, Current
<1>2. CASE jobs' = jobs
  BY <1>2 DEF AbsenceKept
<1>3. CASE jobs' = Read
  BY <1>3, ReadMakesNone DEF AbsenceKept
<1>4. ASSUME NEW s, NEW b, s # "absent", jobs' = Updated(Job(r), s, b),
             run[r].pc # "idle"
      PROVE  AbsenceKept
  BY <1>1, <1>4, UpdateMakesNone DEF AbsenceKept
<1>5. CASE Drop(r) \/ Take(r) \/ Catch(r)
  BY <1>3, <1>5 DEF Drop, Take, Catch
<1>6. CASE Start(r) \/ Gateway(r) \/ Saving(r) \/ Stored(r) \/ Polled(r) \/ Retried(r)
  BY <1>4, <1>6 DEF Start, Gateway, Saving, Stored, Polled, Retried, AtLock, Staged
<1>7. CASE Finish(r) \/ Fail(r)
  <2>1. run[r].final # "absent"
    BY RunnerFacts DEF RunRecords
  <2> QED
    BY <1>4, <1>7, <2>1 DEF Finish, Fail, AtLock
<1>8. CASE Tracked(r)
  <2> DEFINE j == Job(r)
             s == IF run[r].poll = "completed" THEN "saving" ELSE "upstream"
             rec == Staged(j, s)
  <2>1. j \in Jobs /\ jobs[j].status # "absent" /\ jobs' = [rec EXCEPT ![j].task = run[r].task]
    BY <1>1, <1>8 DEF Tracked, AtLock
  <2>2. rec \in [Jobs -> JobRecords]
    BY <2>1, Parts, StagedType DEF Statuses, ActiveStatuses
  <2>3. \A k \in Jobs : jobs'[k].status = rec[k].status /\ jobs'[k].bill = rec[k].bill
    BY <2>1, <2>2 DEF JobRecords
  <2>4. \A k \in Jobs : /\ rec[k].status = "absent" <=> jobs[k].status = "absent"
                        /\ jobs[k].status = "absent" => rec[k] = jobs[k]
    BY <2>1, UpdateMakesNone DEF Staged
  <2> QED
    BY <2>3, <2>4 DEF AbsenceKept
<1>9. CASE \/ CallAborted(r) \/ Store(r) \/ StoreFails(r) \/ ProviderStep(r)
           \/ History(r) \/ Timeout(r) \/ RunnerFault(r)
  BY <1>2, <1>9 DEF CallAborted, Store, StoreFails, ProviderStep, ImageAnswer,
     VideoAnswer, CallFails, Poll, PollRetry, PollFails, History, Timeout, RunnerFault
<1> QED
  BY <1>5, <1>6, <1>7, <1>8, <1>9 DEF RunnerStep

(* So does every request but one. *)
LEMMA RequestsMakeNone ==
  ASSUME IInv, SInv, Request \/ RequestStep \/ AcceptFails \/ RequestFault, ~Accept
  PROVE  AbsenceKept
<1>1. CASE jobs' = jobs
  BY <1>1 DEF AbsenceKept
<1>2. CASE jobs' = Read
  BY <1>2, ReadMakesNone DEF AbsenceKept
<1>3. CASE CancelWrite \/ BlockWrite
  <2>1. /\ handler.pc \in {"cancel", "block"} /\ handler.job \in Jobs
        /\ handler.final # "absent"
    BY <1>3, HandlerFacts DEF CancelWrite, BlockWrite, AtRequest, HandlerRecords
  <2>2. jobs[handler.job].status # "absent"
    BY <2>1 DEF SInv, RequestOK, CancelOK, RecoverOK, Followed
  <2>3. \E s, b : s # "absent" /\ jobs' = Updated(handler.job, s, b)
    BY <1>3, <2>1 DEF CancelWrite, BlockWrite
  <2> QED
    BY <2>1, <2>2, <2>3, UpdateMakesNone DEF AbsenceKept
<1>4. CASE Request \/ AcceptFails \/ RequestFault \/ \E j \in Jobs : Resume(j) \/ Skip(j) \/ Block(j)
  BY <1>1, <1>4 DEF Request, Submit, Cancel, Get, Arrive, AcceptFails, RequestFault,
     Resume, Skip, Block
<1>5. CASE Refuse \/ Reserve \/ CancelNothing \/ CancelJob \/ GetRead
  BY <1>2, <1>5 DEF Refuse, Reserve, CancelNothing, CancelJob, GetRead
<1> QED
  BY <1>3, <1>4, <1>5 DEF RequestStep

LEMMA OnlyAcceptMakes ==
  ASSUME IInv, SInv, [Next]_vars, ~Accept
  PROVE  AbsenceKept
<1>1. CASE UNCHANGED vars \/ Drain
  BY <1>1 DEF vars, Drain, AbsenceKept
<1>2. CASE Crash
  <2>1. \A k \in Jobs : jobs'[k].status = jobs[k].status /\ jobs'[k].bill = jobs[k].bill
    BY <1>2, Parts DEF Crash, RecordsOK, JobRecords
  <2> QED
    BY <2>1 DEF AbsenceKept
<1> QED
  BY <1>1, <1>2, RunnersMakeNone, RequestsMakeNone DEF Next


(* No record, no billing status. *)
NoneYet == \A j \in Jobs : jobs[j].status = "absent" => jobs[j].bill = "none"

LEMMA NothingBilled == Spec => []NoneYet
<1>1. Init => NoneYet
  BY DEF Init, NoneYet, NoRecord
<1>2. IInv /\ SInv /\ NoneYet /\ [Next]_vars => NoneYet'
  <2> SUFFICES ASSUME IInv, SInv, NoneYet, [Next]_vars PROVE NoneYet'
    OBVIOUS
  <2>1. CASE Accept
    <3>1. \A k \in Jobs : k # handler.job => jobs'[k] = jobs[k]
      BY <2>1, Parts DEF Accept, RecordsOK
    <3>2. handler.job \in Jobs => jobs'[handler.job].status = "queued"
      BY <2>1, Parts DEF Accept, RecordsOK, NoRecord
    <3> QED
      BY <3>1, <3>2 DEF NoneYet
  <2> QED
    BY <2>1, OnlyAcceptMakes DEF AbsenceKept, NoneYet
<1> QED
  BY <1>1, <1>2, Invariant, SafetyInvariant, PTL DEF Spec

(* The record of a platform job never claims a refund or a charge that the *)
(* billing database does not hold, whatever cancel, catch or resumption    *)
(* wrote it last (refundJobCredits, chargeJobCredits, updateJob).          *)
THEOREM BillsAreTrue == Spec => []BillTruthful
<1>1. SInv /\ NoneYet => BillTruthful
  BY DEF SInv, JobsOK, JobOK, Claim, NoneYet, BillTruthful, Billed
<1> QED
  BY <1>1, SafetyInvariant, NothingBilled, PTL

(* No step accepts a submission beside an active job with its fingerprint: *)
(* between the test of the fingerprint and the write of the record nothing *)
(* makes another job active (POST generation-jobs).                        *)
THEOREM TwinsAreRefused == Spec => ActiveJobsDiffer
<1> DEFINE Differs ==
      \A j, k \in Jobs :
        ( /\ j # k /\ Fingerprint[j] = Fingerprint[k]
          /\ jobs[k].status = "absent" /\ jobs'[k].status # "absent" )
          => jobs[j].status \notin ActiveStatuses
<1>1. IInv /\ SInv /\ [Next]_vars => Differs
  <2> SUFFICES ASSUME IInv, SInv, [Next]_vars,
                      NEW j \in Jobs, NEW k \in Jobs,
                      j # k, Fingerprint[j] = Fingerprint[k],
                      jobs[k].status = "absent", jobs'[k].status # "absent"
               PROVE  jobs[j].status \notin ActiveStatuses
    OBVIOUS
  <2>1. Accept
    BY OnlyAcceptMakes DEF AbsenceKept
  <2>2. handler.pc = "write" /\ handler.job = k
    BY <2>1, Parts DEF Accept, AtRequest, RecordsOK
  <2> QED
    BY <2>2 DEF SInv, RequestOK, WriteOK
<1>2. IInv /\ SInv /\ [Next]_vars => [Differs]_vars
  BY <1>1
<1> QED
  BY <1>2, Invariant, SafetyInvariant, PTL DEF Spec, ActiveJobsDiffer


-------------------------------------------------------------------------------
(* The sum over a finite set, as the fold computes it. Induction is by the *)
(* smallest subset for which a claim would fail, so that no theorem with a *)
(* predicate as its parameter is needed.                                   *)

(* A function that sums f over the subsets of T, as the fold defines it.   *)
Any(s) == CHOOSE x \in s : TRUE
Sums(f, T, g) ==
  g = [s \in SUBSET T |-> IF s = {} THEN 0 ELSE f[Any(s)] + g[s \ {Any(s)}]]
SumOf(f, S) == FoldFunctionOnSet(+, 0, f, S)

(* Induction over a finite set: among some of its subsets, one has no      *)
(* other within.                                                           *)
LEMMA SmallestSubset ==
  ASSUME NEW S, IsFiniteSet(S), NEW T, T \subseteq SUBSET S, T # {}
  PROVE  \E x \in T : \A y \in T : y \subseteq x => y = x
<1>1. IsWellFoundedOn(StrictSubsetOrdering(S), SUBSET S)
  BY FS_StrictSubsetOrderingWellFounded, FS_FiniteSubsetsOfFinite
<1>2. PICK x \in T : \A y \in T : << y, x >> \notin StrictSubsetOrdering(S)
  BY <1>1, WFMin
<1> QED  BY <1>2 DEF StrictSubsetOrdering

LEMMA AnyIsOne ==
  ASSUME NEW s, s # {}
  PROVE  Any(s) \in s
BY DEF Any

LEMMA SumsAt ==
  ASSUME NEW f, NEW T, NEW g, Sums(f, T, g), NEW s \in SUBSET T
  PROVE  g[s] = IF s = {} THEN 0 ELSE f[Any(s)] + g[s \ {Any(s)}]
BY DEF Sums

(* There is at most one such function,                                     *)
LEMMA SumsUnique ==
  ASSUME NEW f, NEW S, IsFiniteSet(S), NEW g, NEW h, Sums(f, S, g), Sums(f, S, h)
  PROVE  g = h
<1> DEFINE Bad == { s \in SUBSET S : g[s] # h[s] }
<1>1. Bad = {}
  <2> SUFFICES ASSUME Bad # {} PROVE FALSE
    OBVIOUS
  <2>1. PICK s \in Bad : \A y \in Bad : y \subseteq s => y = s
    <3>1. Bad \subseteq SUBSET S
      OBVIOUS
    <3> HIDE DEF Bad
    <3> QED  BY <3>1, SmallestSubset
  <2>2. s \in SUBSET S /\ g[s] # h[s]
    BY <2>1
  <2>3. s # {}
    BY <2>2, SumsAt
  <2>4. s \ {Any(s)} \in SUBSET S /\ s \ {Any(s)} # s
    BY <2>2, <2>3, AnyIsOne
  <2>5. g[s \ {Any(s)}] = h[s \ {Any(s)}]
    BY <2>1, <2>4
  <2> QED  BY <2>2, <2>3, <2>5, SumsAt
<1>2. \A s \in SUBSET S : g[s] = h[s]
  BY <1>1
<1>3. g = [s \in SUBSET S |-> g[s]] /\ h = [s \in SUBSET S |-> h[s]]
  BY DEF Sums
<1> QED  BY <1>2, <1>3

(* which sums over fewer sets just as well,                                *)
LEMMA SumsRestrict ==
  ASSUME NEW f, NEW S, NEW g, Sums(f, S, g), NEW T \in SUBSET S
  PROVE  Sums(f, T, [s \in SUBSET T |-> g[s]])
<1> DEFINE h == [s \in SUBSET T |-> g[s]]
<1>1. \A s \in SUBSET T : h[s] = IF s = {} THEN 0 ELSE f[Any(s)] + h[s \ {Any(s)}]
  <2> TAKE s \in SUBSET T
  <2>1. h[s] = g[s] /\ h[s \ {Any(s)}] = g[s \ {Any(s)}]
    OBVIOUS
  <2> HIDE DEF h
  <2> QED  BY <2>1, SumsAt
<1>2. h = [s \in SUBSET T |-> h[s]]
  OBVIOUS
<1> HIDE DEF h
<1>3. h = [s \in SUBSET T |-> IF s = {} THEN 0 ELSE f[Any(s)] + h[s \ {Any(s)}]]
  BY <1>1, <1>2
<1>4. Sums(f, T, h)
  BY <1>3 DEF Sums
<1> QED  BY <1>4 DEF h

(* and there is one: the smallest set without it would be built from the   *)
(* functions of its subsets.                                               *)
LEMMA SumsExist ==
  ASSUME NEW f, NEW S, IsFiniteSet(S)
  PROVE  \E g : Sums(f, S, g)
<1> DEFINE Bad == { T \in SUBSET S : ~ \E g : Sums(f, T, g) }
           Part(s) == CHOOSE g : Sums(f, s, g)
<1> SUFFICES ASSUME Bad # {} PROVE FALSE
  OBVIOUS
<1>1. PICK T \in Bad : \A y \in Bad : y \subseteq T => y = T
  <2>1. Bad \subseteq SUBSET S
    OBVIOUS
  <2> HIDE DEF Bad
  <2> QED  BY <2>1, SmallestSubset
<1>2. T \in SUBSET S /\ IsFiniteSet(T) /\ ~ \E g : Sums(f, T, g)
  BY <1>1, FS_Subset
<1>3. \A s \in SUBSET T : s # T => Sums(f, s, Part(s))
  BY <1>1, <1>2
<1>4. ASSUME NEW r \in SUBSET T, r # T, NEW q \in SUBSET r
      PROVE  Part(r)[q] = Part(q)[q]
  <2>1. Sums(f, q, [s \in SUBSET q |-> Part(r)[s]])
    BY <1>3, <1>4, SumsRestrict
  <2>2. Sums(f, q, Part(q)) /\ IsFiniteSet(q)
    BY <1>2, <1>3, <1>4, FS_Subset
  <2>3. [s \in SUBSET q |-> Part(r)[s]] = Part(q)
    <3> HIDE DEF Part
    <3> QED  BY <2>1, <2>2, SumsUnique
  <2>4. [s \in SUBSET q |-> Part(r)[s]][q] = Part(r)[q]
    OBVIOUS
  <2> QED  BY <2>3, <2>4
<1> DEFINE g == [s \in SUBSET T |->
                  IF s = {} THEN 0 ELSE f[Any(s)] + Part(s \ {Any(s)})[s \ {Any(s)}]]
<1>5. ASSUME NEW s \in SUBSET T, s # {}
      PROVE  g[s \ {Any(s)}] = Part(s \ {Any(s)})[s \ {Any(s)}]
  <2> DEFINE r == s \ {Any(s)}
             q == r \ {Any(r)}
  <2>1. r \in SUBSET T /\ r # T /\ q \in SUBSET r
    BY <1>5, AnyIsOne
  <2>2. Part(r)[r] = IF r = {} THEN 0 ELSE f[Any(r)] + Part(r)[q]
    <3> HIDE DEF r, Part
    <3> QED  BY <1>3, <2>1, SumsAt
  <2>3. Part(r)[q] = Part(q)[q]
    BY <1>4, <2>1
  <2>4. g[r] = IF r = {} THEN 0 ELSE f[Any(r)] + Part(q)[q]
    BY <2>1
  <2> HIDE DEF g, Part, q
  <2> QED  BY <2>2, <2>3, <2>4
<1>6. \A s \in SUBSET T : g[s] = IF s = {} THEN 0 ELSE f[Any(s)] + g[s \ {Any(s)}]
  <2> TAKE s \in SUBSET T
  <2>1. g[s] = IF s = {} THEN 0 ELSE f[Any(s)] + Part(s \ {Any(s)})[s \ {Any(s)}]
    OBVIOUS
  <2> HIDE DEF g, Part
  <2> QED  BY <1>5, <2>1
<1>7. g = [s \in SUBSET T |-> g[s]]
  OBVIOUS
<1> HIDE DEF g
<1>8. g = [s \in SUBSET T |-> IF s = {} THEN 0 ELSE f[Any(s)] + g[s \ {Any(s)}]]
  BY <1>6, <1>7
<1> QED  BY <1>2, <1>8 DEF Sums

(* So the sum over a finite set is that function's.                        *)
LEMMA SumIs ==
  ASSUME NEW f, NEW S, IsFiniteSet(S), NEW g, Sums(f, S, g), NEW T \in SUBSET S
  PROVE  SumOf(f, T) = g[T]
<1> DEFINE h == [s \in SUBSET T |-> g[s]]
<1>1. Sums(f, T, h)
  BY SumsRestrict
<1>2. IsFiniteSet(T) /\ h[T] = g[T]
  BY FS_Subset
<1> HIDE DEF h
<1>3. \A k : Sums(f, T, k) => k = h
  BY <1>2, <1>1, SumsUnique
<1>4. SumOf(f, T) = (CHOOSE k : Sums(f, T, k))[T]
  BY DEF SumOf, FoldFunctionOnSet, MapThenFoldSet, Sums, Any
<1> QED  BY <1>1, <1>2, <1>3, <1>4

LEMMA SumStep ==
  ASSUME NEW f, NEW S, IsFiniteSet(S)
  PROVE  SumOf(f, S) = IF S = {} THEN 0 ELSE f[Any(S)] + SumOf(f, S \ {Any(S)})
<1>1. PICK g : Sums(f, S, g)
  BY SumsExist
<1> QED  BY <1>1, SumIs, SumsAt

LEMMA SumIsInt ==
  ASSUME NEW f, NEW S, IsFiniteSet(S), \A x \in S : f[x] \in Int
  PROVE  SumOf(f, S) \in Int
<1> DEFINE Bad == { T \in SUBSET S : SumOf(f, T) \notin Int }
<1> SUFFICES ASSUME Bad # {} PROVE FALSE
  OBVIOUS
<1>1. PICK T \in Bad : \A y \in Bad : y \subseteq T => y = T
  <2>1. Bad \subseteq SUBSET S
    OBVIOUS
  <2> HIDE DEF Bad
  <2> QED  BY <2>1, SmallestSubset
<1>2. T \in SUBSET S /\ IsFiniteSet(T) /\ SumOf(f, T) \notin Int
  BY <1>1, FS_Subset
<1>3. SumOf(f, T) = IF T = {} THEN 0 ELSE f[Any(T)] + SumOf(f, T \ {Any(T)})
  BY <1>2, SumStep
<1>4. T # {} /\ Any(T) \in T
  BY <1>2, <1>3, AnyIsOne
<1>5. SumOf(f, T \ {Any(T)}) \in Int
  BY <1>1, <1>2, <1>4
<1> QED  BY <1>2, <1>3, <1>4, <1>5

(* Any element may be counted first.                                       *)
LEMMA SumSplit ==
  ASSUME NEW f, NEW S, IsFiniteSet(S), \A x \in S : f[x] \in Int, NEW z \in S
  PROVE  SumOf(f, S) = f[z] + SumOf(f, S \ {z})
<1> DEFINE Bad == { T \in SUBSET S : \E x \in T : SumOf(f, T) # f[x] + SumOf(f, T \ {x}) }
<1> SUFFICES ASSUME Bad # {} PROVE FALSE
  OBVIOUS
<1>1. PICK T \in Bad : \A y \in Bad : y \subseteq T => y = T
  <2>1. Bad \subseteq SUBSET S
    OBVIOUS
  <2> HIDE DEF Bad
  <2> QED  BY <2>1, SmallestSubset
<1>2. PICK x \in T : SumOf(f, T) # f[x] + SumOf(f, T \ {x})
  BY <1>1
<1> DEFINE c == Any(T)
<1>3. T \in SUBSET S /\ IsFiniteSet(T) /\ c \in T /\ IsFiniteSet(T \ {c}) /\ IsFiniteSet(T \ {x})
  BY <1>1, <1>2, AnyIsOne, FS_Subset
<1>4. SumOf(f, T) = f[c] + SumOf(f, T \ {c})
  BY <1>2, <1>3, SumStep
<1> HIDE DEF c
<1>5. x # c
  BY <1>2, <1>4
<1>6. T \ {c} \notin Bad /\ T \ {x} \notin Bad
  BY <1>1, <1>3
<1>7. SumOf(f, T \ {c}) = f[x] + SumOf(f, (T \ {c}) \ {x})
  BY <1>3, <1>5, <1>6
<1>8. SumOf(f, T \ {x}) = f[c] + SumOf(f, (T \ {x}) \ {c})
  BY <1>3, <1>5, <1>6
<1>9. (T \ {c}) \ {x} = (T \ {x}) \ {c} /\ IsFiniteSet((T \ {c}) \ {x})
  BY <1>3, FS_Subset
<1>10. f[x] \in Int /\ f[c] \in Int /\ SumOf(f, (T \ {c}) \ {x}) \in Int
  BY <1>2, <1>3, <1>9, SumIsInt
<1> QED  BY <1>2, <1>4, <1>7, <1>8, <1>9, <1>10

(* The sum depends on no more than what is summed.                         *)
LEMMA SumAlike ==
  ASSUME NEW f, NEW g, NEW S, IsFiniteSet(S), \A x \in S : f[x] = g[x]
  PROVE  SumOf(f, S) = SumOf(g, S)
<1> DEFINE Bad == { T \in SUBSET S : SumOf(f, T) # SumOf(g, T) }
<1> SUFFICES ASSUME Bad # {} PROVE FALSE
  OBVIOUS
<1>1. PICK T \in Bad : \A y \in Bad : y \subseteq T => y = T
  <2>1. Bad \subseteq SUBSET S
    OBVIOUS
  <2> HIDE DEF Bad
  <2> QED  BY <2>1, SmallestSubset
<1>2. T \in SUBSET S /\ IsFiniteSet(T) /\ SumOf(f, T) # SumOf(g, T)
  BY <1>1, FS_Subset
<1>3. /\ SumOf(f, T) = IF T = {} THEN 0 ELSE f[Any(T)] + SumOf(f, T \ {Any(T)})
      /\ SumOf(g, T) = IF T = {} THEN 0 ELSE g[Any(T)] + SumOf(g, T \ {Any(T)})
  BY <1>2, SumStep
<1>4. T # {} /\ Any(T) \in T
  BY <1>2, <1>3, AnyIsOne
<1>5. SumOf(f, T \ {Any(T)}) = SumOf(g, T \ {Any(T)})
  BY <1>1, <1>2, <1>4
<1> QED  BY <1>2, <1>3, <1>4, <1>5

LEMMA SumOfNothing ==
  ASSUME NEW f, NEW S, IsFiniteSet(S), \A x \in S : f[x] = 0
  PROVE  SumOf(f, S) = 0
<1> DEFINE Bad == { T \in SUBSET S : SumOf(f, T) # 0 }
<1> SUFFICES ASSUME Bad # {} PROVE FALSE
  OBVIOUS
<1>1. PICK T \in Bad : \A y \in Bad : y \subseteq T => y = T
  <2>1. Bad \subseteq SUBSET S
    OBVIOUS
  <2> HIDE DEF Bad
  <2> QED  BY <2>1, SmallestSubset
<1>2. T \in SUBSET S /\ IsFiniteSet(T) /\ SumOf(f, T) # 0
  BY <1>1, FS_Subset
<1>3. SumOf(f, T) = IF T = {} THEN 0 ELSE f[Any(T)] + SumOf(f, T \ {Any(T)})
  BY <1>2, SumStep
<1>4. T # {} /\ Any(T) \in T
  BY <1>2, <1>3, AnyIsOne
<1>5. SumOf(f, T \ {Any(T)}) = 0
  BY <1>1, <1>2, <1>4
<1> QED  BY <1>2, <1>3, <1>4, <1>5

(* One summand changes, and the sum changes by as much.                    *)
LEMMA SumChange ==
  ASSUME NEW f, NEW g, NEW S, IsFiniteSet(S), NEW z \in S,
         \A x \in S : f[x] \in Int /\ g[x] \in Int,
         \A x \in S \ {z} : f[x] = g[x]
  PROVE  SumOf(g, S) = SumOf(f, S) - f[z] + g[z]
<1>1. SumOf(f, S) = f[z] + SumOf(f, S \ {z}) /\ SumOf(g, S) = g[z] + SumOf(g, S \ {z})
  BY SumSplit
<1>2. SumOf(f, S \ {z}) = SumOf(g, S \ {z}) /\ SumOf(f, S \ {z}) \in Int
  BY SumAlike, SumIsInt, FS_Subset
<1> QED  BY <1>1, <1>2

-------------------------------------------------------------------------------
(* The balance. *)

(* What the entry of a job keeps of the user's credits.                    *)
Owed(j, e) == IF e.open THEN Amount(j) - e.back ELSE 0
Debts == [ j \in Jobs |-> Owed(j, ledger[j]) ]

(* A step moves credits between the balance and one entry.                 *)
Exchange ==
  \/ UNCHANGED ledgerVars
  \/ \E j \in Jobs, e \in Entries :
       /\ ledger' = [ledger EXCEPT ![j] = e]
       /\ balance' = balance + Owed(j, ledger[j]) - Owed(j, e)

LEMMA OwedIsInt ==
  ASSUME NEW j \in Jobs, NEW e \in Entries
  PROVE  Owed(j, e) \in Int
BY AmountType DEF Owed, Entries

(* The calls that touch neither the charge nor the refund of an entry.     *)
LEMMA EntryExchange ==
  ASSUME IInv, NEW j \in Jobs, NEW e \in Entries, UNCHANGED balance,
         ledger' = [ledger EXCEPT ![j] = e],
         e.open = ledger[j].open, e.back = ledger[j].back
  PROVE  Exchange
<1>1. Owed(j, e) = Owed(j, ledger[j]) /\ Owed(j, e) \in Int /\ balance \in Int
  BY Parts, OwedIsInt DEF Owed, BillingOK
<1>2. balance' = balance + Owed(j, ledger[j]) - Owed(j, e)
  BY <1>1
<1> QED  BY <1>2 DEF Exchange

LEMMA ChargeExchange ==
  ASSUME IInv, NEW j \in Jobs, NEW b, Charge(j, b)
  PROVE  Exchange
<1>1. ledger[j] \in Entries
  BY Parts DEF BillingOK
<1>2. CASE ~ChargeApplies(b)
  BY <1>2 DEF Charge, Exchange, ledgerVars
<1>3. CASE ChargeApplies(b)
  <2> DEFINE e == SettledEntry(j, ledger[j])
  <2>1. e \in Entries /\ e.open = ledger[j].open /\ e.back = ledger[j].back
    BY <1>1 DEF SettledEntry, Entries
  <2>2. ledger' = [ledger EXCEPT ![j] = e] /\ UNCHANGED balance
    BY <1>3 DEF Charge
  <2> HIDE DEF e
  <2> QED  BY <2>1, <2>2, EntryExchange
<1> QED  BY <1>2, <1>3

(* What a refund gives to the balance is what its row says.                *)
LEMMA RefundExchange ==
  ASSUME IInv, NEW j \in Jobs, NEW b, Refund(j, b)
  PROVE  Exchange
<1> DEFINE d == RefundedEntry(j, ledger[j])
           e == SettledEntry(j, d)
           paid == RefundPaid(j, ledger[j])
<1>1. ledger[j] \in Entries /\ EntryOK(j, ledger[j]) /\ balance \in Nat
  BY Parts DEF BillingOK, LedgerOK
<1>2. CASE ~(RefundApplies(j, b) /\ Amount(j) > 0)
  BY <1>2 DEF Refund, Exchange
<1>3. CASE RefundApplies(j, b) /\ Amount(j) > 0
  <2>1. ledger' = [ledger EXCEPT ![j] = e] /\ balance' = balance + paid
    BY <1>3 DEF Refund
  <2>2. d \in Entries /\ e \in Entries /\ e.open = d.open /\ e.back = d.back
    BY <1>1, RefundEntry DEF SettledEntry, Entries
  <2>3. paid \in Nat /\ Amount(j) \in Nat /\ ledger[j].back \in Nat
    BY <1>1, RefundBounds, AmountType DEF Entries
  <2>4. d.open = ledger[j].open
    BY <1>1 DEF RefundedEntry, Entries
  <2>5. CASE paid > 0
    <3>1. ~ledger[j].refunded /\ ledger[j].open /\ ledger[j].back = 0
      BY <1>1, <2>5 DEF RefundPaid, Refundable, EntryOK
    <3>2. d.back = paid
      BY <1>1, <2>5 DEF RefundedEntry, Entries
    <3>3. Owed(j, ledger[j]) = Amount(j) /\ Owed(j, e) = Amount(j) - paid
      BY <2>2, <2>3, <2>4, <3>1, <3>2 DEF Owed
    <3>4. balance' = balance + Owed(j, ledger[j]) - Owed(j, e)
      BY <1>1, <2>1, <2>3, <3>3
    <3> QED  BY <2>1, <2>2, <3>4 DEF Exchange
  <2>6. CASE paid = 0
    <3>1. d = ledger[j]
      BY <2>6 DEF RefundedEntry
    <3>2. balance' = balance
      BY <1>1, <2>1, <2>6
    <3> HIDE DEF d, e, paid
    <3> QED  BY <2>1, <2>2, <3>1, <3>2, EntryExchange
  <2> QED  BY <2>3, <2>5, <2>6
<1> QED  BY <1>2, <1>3

LEMMA ReserveExchange ==
  ASSUME IInv, Reserve
  PROVE  Exchange
<1> DEFINE j == handler.job
           e == IF ledger[j].open THEN ledger[j] ELSE Reserved(j)
<1>1. j \in Jobs /\ Payable(j)
  BY HandlerFacts DEF Reserve, AtRequest
<1>2. ledger[j] \in Entries /\ balance \in Nat /\ Amount(j) \in Nat
  BY <1>1, Parts, AmountType DEF BillingOK
<1>3. CASE ~Billed(j)
  BY <1>3 DEF Reserve, Exchange
<1>4. CASE Billed(j)
  <2>1. ledger' = [ledger EXCEPT ![j] = e] /\ balance' = balance - Amount(j)
    BY <1>4 DEF Reserve
  <2>2. /\ Reserved(j) \in Entries /\ Reserved(j).open = Recorded(j)
        /\ Reserved(j).back = 0
    <3>1. NoEntry \in Entries
      BY FS_EmptySet DEF NoEntry, Entries
    <3> QED  BY <3>1 DEF Reserved, NoEntry, Entries, Recorded
  <2>3. e \in Entries
    BY <1>2, <2>2
  <2>4. Owed(j, ledger[j]) - Owed(j, e) = -Amount(j)
    <3>1. CASE Recorded(j)
      <4>1. ~ledger[j].open
        BY <1>1, <1>4, <3>1 DEF Payable
      <4>2. e.open /\ e.back = 0
        BY <2>2, <3>1, <4>1
      <4> HIDE DEF e
      <4> QED  BY <1>2, <4>1, <4>2 DEF Owed
    <3>2. CASE ~Recorded(j)
      <4>1. Amount(j) = 0
        BY <1>2, <3>2 DEF Recorded
      <4>2. ledger[j].back \in Nat
        BY <1>2 DEF Entries
      <4> QED  BY <2>2, <3>2, <4>1, <4>2 DEF Owed
    <3> QED  BY <3>1, <3>2
  <2>5. Owed(j, ledger[j]) \in Int /\ Owed(j, e) \in Int
    BY <1>1, <1>2, <2>3, OwedIsInt
  <2>6. balance' = balance + Owed(j, ledger[j]) - Owed(j, e)
    BY <1>2, <2>1, <2>4, <2>5
  <2> QED  BY <1>1, <2>1, <2>3, <2>6 DEF Exchange
<1> QED  BY <1>3, <1>4

LEMMA StepExchanges ==
  ASSUME IInv, [Next]_vars
  PROVE  Exchange
<1>1. CASE UNCHANGED ledgerVars
  BY <1>1 DEF Exchange
<1>2. ASSUME NEW r \in Runners,
             RunnerStep(r) \/ ProviderStep(r) \/ History(r) \/ Timeout(r) \/ RunnerFault(r)
      PROVE  Exchange
  <2>1. run[r].pc # "idle" => Job(r) \in Jobs /\ ledger[Job(r)] \in Entries
    BY RunnerFacts, Parts DEF BillingOK
  <2>2. CASE VideoAnswer(r)
    <3> DEFINE e == Attached(ledger[Job(r)], sent[Job(r)])
    <3>1. Job(r) \in Jobs /\ ledger[Job(r)] \in Entries /\ sent[Job(r)] \in Nat
      BY <2>1, <2>2, Parts DEF VideoAnswer, WorldOK
    <3>2. /\ e \in Entries /\ e.open = ledger[Job(r)].open /\ e.back = ledger[Job(r)].back
      BY <3>1 DEF Attached, Entries
    <3>3. UNCHANGED balance /\ (ledger' = [ledger EXCEPT ![Job(r)] = e] \/ ledger' = ledger)
      BY <2>2 DEF VideoAnswer
    <3> HIDE DEF e
    <3> QED  BY <1>1, <3>1, <3>2, <3>3, EntryExchange DEF ledgerVars
  <2>3. CASE Store(r)
    <3> DEFINE e == RecordedOutput(ledger[Job(r)], run[r].out + 1)
    <3>1. Job(r) \in Jobs /\ ledger[Job(r)] \in Entries /\ run[r].out + 1 \in Nat
      BY <2>1, <2>3, RunnerFacts DEF Store, RunRecords
    <3>2. /\ e \in Entries /\ e.open = ledger[Job(r)].open /\ e.back = ledger[Job(r)].back
      BY <3>1 DEF RecordedOutput, Entries
    <3>3. UNCHANGED balance /\ (ledger' = [ledger EXCEPT ![Job(r)] = e] \/ ledger' = ledger)
      BY <2>3 DEF Store
    <3> HIDE DEF e
    <3> QED  BY <1>1, <3>1, <3>2, <3>3, EntryExchange DEF ledgerVars
  <2>4. CASE Stored(r) \/ Catch(r)
    <3>1. Job(r) \in Jobs
      BY <2>1, <2>4 DEF Stored, Catch, AtLock
    <3>2. \/ UNCHANGED ledgerVars
          \/ \E b : Charge(Job(r), b)
          \/ \E b : Refund(Job(r), b)
      BY <2>4 DEF Stored, Catch
    <3> QED  BY <1>1, <3>1, <3>2, ChargeExchange, RefundExchange
  <2>5. CASE \/ Drop(r) \/ Take(r) \/ Start(r) \/ Gateway(r) \/ CallAborted(r)
             \/ Saving(r) \/ StoreFails(r) \/ Tracked(r) \/ Polled(r) \/ Retried(r)
             \/ Finish(r) \/ Fail(r) \/ History(r) \/ Timeout(r) \/ RunnerFault(r)
    BY <1>1, <2>5 DEF Drop, Take, Start, Gateway, CallAborted, Saving, StoreFails, Tracked,
       Polled, Retried, Finish, Fail, History, Timeout, RunnerFault
  <2>6. CASE ImageAnswer(r) \/ CallFails(r) \/ Poll(r) \/ PollRetry(r) \/ PollFails(r)
    BY <1>1, <2>6 DEF ImageAnswer, CallFails, Poll, PollRetry, PollFails
  <2> QED  BY <1>2, <2>2, <2>3, <2>4, <2>5, <2>6 DEF RunnerStep, ProviderStep
<1>3. CASE Reserve
  BY <1>3, ReserveExchange
<1>4. CASE AcceptFails \/ CancelJob
  <2>1. handler.job \in Jobs
    BY <1>4, HandlerFacts DEF AcceptFails, CancelJob, AtRequest
  <2>2. UNCHANGED ledgerVars \/ \E b : Refund(handler.job, b)
    BY <1>4 DEF AcceptFails, CancelJob
  <2> QED  BY <1>1, <2>1, <2>2, RefundExchange
<1>5. CASE \/ Refuse \/ Accept \/ CancelNothing \/ CancelWrite \/ GetRead \/ BlockWrite
           \/ \E j \in Jobs : Resume(j) \/ Skip(j) \/ Block(j)
  BY <1>1, <1>5 DEF Refuse, Accept, CancelNothing, CancelWrite, GetRead, BlockWrite,
     Resume, Skip, Block
<1>6. CASE Request \/ RequestFault \/ Crash \/ Drain \/ UNCHANGED vars
  BY <1>1, <1>6 DEF Request, Submit, Get, Cancel, Arrive, RequestFault, Crash, Drain, vars,
     ledgerVars
<1> QED  BY <1>2, <1>3, <1>4, <1>5, <1>6 DEF Next, RequestStep

(* The balance follows the sum of the entries.                             *)
LEMMA ExchangeBalances ==
  ASSUME IInv, IInv', IsFiniteSet(Jobs), Exchange, balance = Credits - SumOf(Debts, Jobs)
  PROVE  balance' = Credits - SumOf(Debts', Jobs)
<1>1. /\ Credits \in Nat /\ balance \in Nat
      /\ \A j \in Jobs : Debts[j] \in Int /\ Debts'[j] \in Int
  <2>1. Credits \in Nat /\ balance \in Nat
    BY Parts, JobsAssumption DEF BillingOK
  <2>2. \A j \in Jobs : ledger[j] \in Entries /\ ledger'[j] \in Entries
    BY DEF IInv, TypeOK
  <2>3. \A j \in Jobs : Owed(j, ledger[j]) \in Int /\ Owed(j, ledger'[j]) \in Int
    BY <2>2, OwedIsInt
  <2> QED  BY <2>1, <2>3 DEF Debts
<1>2. CASE UNCHANGED ledgerVars
  <2>1. Debts' = Debts /\ balance' = balance
    BY <1>2 DEF Debts, ledgerVars
  <2> QED  BY <2>1
<1>3. ASSUME NEW j \in Jobs, NEW e \in Entries, ledger' = [ledger EXCEPT ![j] = e],
             balance' = balance + Owed(j, ledger[j]) - Owed(j, e)
      PROVE  balance' = Credits - SumOf(Debts', Jobs)
  <2>1. /\ Debts[j] = Owed(j, ledger[j]) /\ Debts'[j] = Owed(j, e)
        /\ \A k \in Jobs \ {j} : Debts[k] = Debts'[k]
    BY <1>3, Parts DEF Debts, BillingOK
  <2>2. SumOf(Debts', Jobs) = SumOf(Debts, Jobs) - Debts[j] + Debts'[j]
    BY <1>1, <2>1, SumChange
  <2>3. SumOf(Debts, Jobs) \in Int
    BY <1>1, SumIsInt
  <2> QED  BY <1>1, <1>3, <2>1, <2>2, <2>3
<1> QED  BY <1>2, <1>3 DEF Exchange

(* The balance is what the user started with less what the entries keep,   *)
(* for any number of jobs: no order of charges, refunds, cancels, crashes  *)
(* and failed writes makes or loses a credit.                              *)
THEOREM CreditsAreKept == IsFiniteSet(Jobs) => (Spec => []BalanceAccounted)
<1> SUFFICES ASSUME IsFiniteSet(Jobs) PROVE Spec => []BalanceAccounted
  OBVIOUS
<1> DEFINE Even == balance = Credits - SumOf(Debts, Jobs)
<1>1. Init => Even
  <2> SUFFICES ASSUME Init PROVE Even
    OBVIOUS
  <2>1. balance = Credits /\ ledger = [j \in Jobs |-> NoEntry] /\ Credits \in Nat
    BY JobsAssumption DEF Init
  <2>2. \A j \in Jobs : Debts[j] = 0
    BY <2>1 DEF Debts, Owed, NoEntry
  <2>3. SumOf(Debts, Jobs) = 0
    BY <2>2, SumOfNothing
  <2> QED  BY <2>1, <2>3
<1>2. IInv /\ IInv' /\ [Next]_vars /\ Even => Even'
  BY StepExchanges, ExchangeBalances
<1>3. Even <=> BalanceAccounted
  BY DEF BalanceAccounted, SumOf, Debts, Owed
<1> HIDE DEF Even
<1> QED  BY <1>1, <1>2, <1>3, Invariant, PTL DEF Spec
===============================================================================
