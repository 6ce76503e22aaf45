---------------------------- MODULE GenerationJobs ----------------------------
(***************************************************************************)
(* The generation jobs of one user of the Node Studio service              *)
(* (scripts/image-agent-studio-history-service.mjs): the requests that     *)
(* submit, read and cancel jobs, the in-memory queue, the runners that     *)
(* call the provider, the jobs file, the billing entries, and the service  *)
(* process that may crash between any two of their steps.                  *)
(*                                                                         *)
(* Every access to the jobs file is a critical section of a FIFO lock      *)
(* (studio-service/keyedLock.js).  A process that awaits one is in the     *)
(* sequence `lock', and one action is the critical section together with   *)
(* the continuation that runs up to the process's next await.              *)
(*                                                                         *)
(* A definition X_Wrong is X with a plausible mistake.  No behaviour uses  *)
(* it: it shows that the properties would notice.                          *)
(***************************************************************************)
EXTENDS GenerationLedger, Sequences, Functions

CONSTANTS
  Video,          \* the jobs of mode `video'; the others are images
  Batch,          \* the image jobs whose one request returns every output
  Fingerprint,    \* Fingerprint[j]: the digest of session, prompt and plan
  Runners,        \* the slots of STUDIO_JOB_CONCURRENCY
  Handler,        \* the request that holds the user's data lock
  NoJob,
  NoRunner,
  Credits,        \* the user's credits at the start
  MaxTransient,   \* VIDEO_POLL_MAX_TRANSIENT_FAILURES
  Cancelable,     \* bound: the jobs a client may cancel
  MaxCrashes,     \* bound: crashes of the service process
  MaxFaults       \* bound: failed writes of the jobs file or the history

ASSUME JobsAssumption ==
  /\ Video \subseteq Jobs
  /\ Batch \subseteq Jobs \ Video
  /\ \A j \in Video : Count[j] = 1
  /\ DOMAIN Fingerprint = Jobs
  /\ IsFiniteSet(Runners)
  /\ Handler \notin Runners
  /\ NoJob \notin Jobs
  /\ NoRunner \notin Runners
  /\ Credits \in Nat
  /\ MaxTransient \in Nat
  /\ Cancelable \subseteq Jobs
  /\ MaxCrashes \in Nat
  /\ MaxFaults \in Nat

ActiveStatuses ==
  { "queued", "dispatching", "gateway", "upstream", "image", "video", "saving" }
FinalStatuses == { "succeeded", "failed", "unknown", "canceled" }

BillStatuses ==
  { "none", "disabled", "reserved", "charged", "refunded",
    "partially_refunded", "unknown" }

VARIABLES
  jobs,          \* the jobs file: the record of each job
  ledger,        \* the billing database: the entry of each job
  balance,       \* the user's credit balance
  items,         \* queue.items
  running,       \* queue.running
  drainDue,      \* whether a timer will call drainGenerationQueue
  controller,    \* activeJobControllers
  run,           \* the runners, one per slot
  handler,       \* the request in progress
  lock,          \* who holds (head) and awaits the lock of the jobs file
  sent,          \* external: the requests for a job that the provider got
  task,          \* external: what became of the video task of a job
  crashes,
  faults

ledgerVars == << ledger, balance >>
queueVars == << items, running, drainDue >>
memory == << items, running, drainDue, controller, run, handler, lock >>
world == << sent, task >>
bounds == << crashes, faults >>
vars == << jobs, ledger, balance, items, running, drainDue, controller, run,
           handler, lock, sent, task, crashes, faults >>

JobRecords ==
  [ status : ActiveStatuses \cup FinalStatuses \cup {"absent"},
    bill   : BillStatuses,
    task   : Nat,       \* upstreamTaskId, 0 when there is none
    stale  : BOOLEAN ]  \* last updated before this process started

NoRecord ==
  [ status |-> "absent", bill |-> "none", task |-> 0, stale |-> FALSE ]

(* What a runner does when the lock is granted to it, and what it awaits   *)
(* when it is not in the lock.                                             *)
LockedSteps ==
  { "read", "start", "gateway", "saving", "stored", "tracked", "polled",
    "retry", "finish", "catch", "fail" }
OpenSteps == { "calling", "storing", "polling", "history" }

Aborts == { "timeout", "canceled" }
Errors == { "upstream", "network" }
TaskStates == { "in_progress", "completed", "failed" }

RunRecords ==
  [ pc     : LockedSteps \cup OpenSteps \cup {"idle"},
    job    : Jobs \cup {NoJob},
    task   : Nat,                         \* task.id
    resume : BOOLEAN,                     \* whether resumeTaskId was given
    poll   : TaskStates,                  \* task.status
    tries  : Nat,                         \* transientPollFailures
    out    : Nat,                         \* resultUrls.length
    bill   : BillStatuses,                \* the billing it will write
    final  : {"failed", "unknown"},       \* failedStatus
    error  : Aborts \cup Errors,
    signal : Aborts \cup {"none"} ]       \* the reason its controller aborted

Idle ==
  [ pc |-> "idle", job |-> NoJob, task |-> 0, resume |-> FALSE,
    poll |-> "in_progress", tries |-> 0, out |-> 0, bill |-> "none",
    final |-> "failed", error |-> "upstream", signal |-> "none" ]

Items == [ job : Jobs, task : Nat, resume : BOOLEAN ]

HandlerRecords ==
  [ pc   : { "idle", "post", "write", "delete", "cancel", "get", "recover",
             "block" },
    job  : Jobs \cup {NoJob},
    todo : SUBSET Jobs,                   \* jobs of the snapshot left to visit
    final : { "canceled", "unknown" },    \* the status a cancel will write
    bill : BillStatuses ]

NoRequest ==
  [ pc |-> "idle", job |-> NoJob, todo |-> {}, final |-> "unknown",
    bill |-> "none" ]

TypeOK ==
  /\ jobs \in [Jobs -> JobRecords]
  /\ ledger \in [Jobs -> Entries]
  /\ balance \in Nat
  /\ items \in Seq(Items)
  /\ running \in Nat
  /\ drainDue \in BOOLEAN
  /\ controller \in [Jobs -> Runners \cup {NoRunner}]
  /\ run \in [Runners -> RunRecords]
  /\ \A r \in Runners : run[r].pc # "idle" => run[r].job \in Jobs
  /\ handler \in HandlerRecords
  /\ handler.pc \notin {"idle", "get", "recover"} => handler.job \in Jobs
  /\ lock \in Seq(Runners \cup {Handler})
  /\ sent \in [Jobs -> Nat]
  /\ task \in [Jobs -> TaskStates]
  /\ crashes \in 0 .. MaxCrashes
  /\ faults \in 0 .. MaxFaults

Init ==
  /\ jobs = [j \in Jobs |-> NoRecord]
  /\ ledger = [j \in Jobs |-> NoEntry]
  /\ balance = Credits
  /\ items = << >>
  /\ running = 0
  /\ drainDue = FALSE
  /\ controller = [j \in Jobs |-> NoRunner]
  /\ run = [r \in Runners |-> Idle]
  /\ handler = NoRequest
  /\ lock = << >>
  /\ sent = [j \in Jobs |-> 0]
  /\ task = [j \in Jobs |-> "in_progress"]
  /\ crashes = 0
  /\ faults = 0

-------------------------------------------------------------------------------
(* The lock of the jobs file. *)

Holds(p) == lock # << >> /\ Head(lock) = p
Await(p) == lock' = Append(lock, p)
Release == lock' = Tail(lock)
Reacquire(p) == lock' = Append(Tail(lock), p)

(* Billing, as the service sees it through the record of a job. *)

MarkedUnknown(j, bill) ==
  CASE bill = "none"                   -> "none"
    [] bill # "none" /\ Amount(j) = 0  -> "disabled"
    [] OTHER                           -> "unknown"

(* chargeJobCredits: the entry is settled unless the record says that the  *)
(* matter is closed or open to reconciliation.                             *)
ChargeApplies(bill) == bill \notin {"none", "charged", "refunded", "unknown"}
Charged(j, bill) ==
  CASE ~ChargeApplies(bill)                    -> bill
    [] ChargeApplies(bill) /\ Amount(j) = 0    -> "disabled"
    [] OTHER                                   -> "charged"
Charge_Wrong(j, bill) == UNCHANGED ledgerVars
Charge(j, bill) ==
  /\ ledger' = IF ChargeApplies(bill)
               THEN [ledger EXCEPT ![j] = SettledEntry(j, @)] ELSE ledger
  /\ UNCHANGED balance

(* refundJobCredits: refund what was not delivered, then settle. *)
RefundApplies_Wrong(j, bill) ==
  /\ bill \notin {"none", "refunded", "unknown"}
  /\ ~(Source[j] = "platform" /\ ledger[j].settled)
RefundApplies(j, bill) ==
  /\ bill \notin {"none", "refunded"}
  /\ ~(Source[j] = "platform" /\ ledger[j].settled)
Refund_Wrong(j, bill) ==
  IF RefundApplies(j, bill) /\ Amount(j) > 0
  THEN /\ ledger' = [ledger EXCEPT ![j] = SettledEntry(j, RefundedEntry(j, @))]
       /\ balance' = balance + Amount(j)
  ELSE UNCHANGED ledgerVars
Refund(j, bill) ==
  IF RefundApplies(j, bill) /\ Amount(j) > 0
  THEN /\ ledger' = [ledger EXCEPT ![j] = SettledEntry(j, RefundedEntry(j, @))]
       /\ balance' = balance + RefundPaid(j, ledger[j])
  ELSE UNCHANGED ledgerVars
Refunded_Wrong(j, bill) == IF RefundApplies(j, bill) THEN "refunded" ELSE bill
Refunded(j, bill) ==
  LET back == RefundedEntry(j, ledger[j]).back
  IN  CASE ~RefundApplies(j, bill)       -> bill
        [] RefundApplies(j, bill) /\ Amount(j) = 0 -> "disabled"
        [] OTHER -> CASE Source[j] # "platform" -> "refunded"
                      [] Source[j] = "platform" /\ back = Amount(j) -> "refunded"
                      [] Source[j] = "platform" /\ back = 0 -> "charged"
                      [] OTHER -> "partially_refunded"

(* Reading the jobs file normalises it: an active record that predates     *)
(* this process and that nothing in memory stands for becomes `unknown',   *)
(* unless it is a video with a task that could be resumed.                 *)

Queued(j) == \E i \in DOMAIN items : items[i].job = j
InMemory(j) == controller[j] # NoRunner \/ Queued(j)

Orphaned(j) ==
  /\ jobs[j].status \in ActiveStatuses
  /\ ~InMemory(j)
  /\ jobs[j].stale
  /\ ~(j \in Video /\ jobs[j].task # 0)

Read ==
  [ j \in Jobs |->
      IF Orphaned(j)
      THEN [ jobs[j] EXCEPT !.status = "unknown",
                            !.bill = MarkedUnknown(j, jobs[j].bill),
                            !.stale = FALSE ]
      ELSE jobs[j] ]

(* updateJob(auth, j, patch) *)
Updated(j, status, bill) ==
  [ Read EXCEPT ![j] = [ @ EXCEPT !.status = status, !.bill = bill,
                                  !.stale = FALSE ] ]
Staged(j, status) == Updated(j, status, Read[j].bill)

-------------------------------------------------------------------------------
(* The queue of the user. *)

Busy == { r \in Runners : run[r].pc # "idle" }

(* enqueueGenerationJob: what is queued or running is not queued again. *)
Enqueue(j, t, resume) ==
  IF InMemory(j)
  THEN UNCHANGED << items, drainDue >>
  ELSE /\ items' = Append(items, [job |-> j, task |-> t, resume |-> resume])
       /\ drainDue' = TRUE

(* drainGenerationQueue: fill the free slots; each runner starts by        *)
(* awaiting its first read of the jobs file.                               *)
Drain ==
  /\ drainDue
  /\ drainDue' = FALSE
  /\ LET free == Runners \ Busy
         room == IF running < Cardinality(Runners)
                 THEN Cardinality(Runners) - running ELSE 0
         n == IF Len(items) < room THEN Len(items) ELSE room
     IN  \E slot \in Injection(1 .. n, free) :
           /\ run' = [ r \in Runners |->
                         IF \E i \in 1 .. n : slot[i] = r
                         THEN LET item == items[CHOOSE i \in 1 .. n : slot[i] = r]
                              IN  [ Idle EXCEPT !.pc = "read",
                                                !.job = item.job,
                                                !.task = item.task,
                                                !.resume = item.resume ]
                         ELSE run[r] ]
           /\ lock' = lock \o slot
           /\ items' = SubSeq(items, n + 1, Len(items))
           /\ running' = running + n
  /\ UNCHANGED << jobs, ledgerVars, controller, handler, world, bounds >>

-------------------------------------------------------------------------------
(* The runner of a job: runGenerationJob. *)

AtLock(r, pc) == run[r].pc = pc /\ Holds(r)
Job(r) == run[r].job

Leave_Wrong(r) ==
  /\ run' = [run EXCEPT ![r] = Idle]
  /\ running' = IF running > 0 THEN running - 1 ELSE 0
  /\ UNCHANGED << items, drainDue >>

(* What a runner's promise does when it settles: the slot is given back    *)
(* and a drain is scheduled.                                               *)
Leave(r) ==
  /\ run' = [run EXCEPT ![r] = Idle]
  /\ running' = IF running > 0 THEN running - 1 ELSE 0
  /\ drainDue' = TRUE
  /\ UNCHANGED items

Finally_Wrong(r) == Leave(r) /\ UNCHANGED controller

(* finally: the map entry of the job is deleted, whoever put it there. *)
Finally(r) ==
  /\ Leave(r)
  /\ controller' = [controller EXCEPT ![Job(r)] = NoRunner]

(* An exception inside the try block: an aborted controller explains it    *)
(* first, and the handler of the exception awaits a read of the jobs file. *)
Thrown(r, kind) ==
  [ run EXCEPT ![r].pc = "catch",
               ![r].error = IF run[r].signal = "none" THEN kind
                            ELSE run[r].signal ]

Ready(r) ==
  LET record == Read[Job(r)]
  IN  IF run[r].resume
      THEN record.status = "upstream" /\ record.task = run[r].task
      ELSE record.status = "queued"

(* A job that is no longer what the queue item was made for is dropped. *)
Drop(r) ==
  /\ AtLock(r, "read")
  /\ ~Ready(r)
  /\ jobs' = Read
  /\ Release
  /\ Leave(r)
  /\ UNCHANGED << ledgerVars, controller, handler, world, bounds >>

Take(r) ==
  /\ AtLock(r, "read")
  /\ Ready(r)
  /\ jobs' = Read
  /\ Reacquire(r)
  /\ run' = [run EXCEPT ![r].pc = "start"]
  /\ controller' = [controller EXCEPT ![Job(r)] = r]
  /\ UNCHANGED << ledgerVars, queueVars, handler, world, bounds >>

(* The billing of a resumed platform job is rebuilt from its entry. *)
StartBill(r) ==
  LET j == Job(r)
  IN  CASE run[r].resume /\ Source[j] = "platform" /\ Amount(j) > 0 -> "reserved"
        [] run[r].resume /\ Source[j] = "platform" /\ Amount(j) = 0 -> "disabled"
        [] OTHER -> Read[j].bill

FirstStep_Wrong(r) == "gateway"
FirstStep(r) == IF run[r].resume THEN "tracked" ELSE "gateway"

Start(r) ==
  /\ AtLock(r, "start")
  /\ jobs' = Updated(Job(r), IF run[r].resume THEN "upstream" ELSE "dispatching",
                     StartBill(r))
  /\ run' = [ run EXCEPT ![r].pc = FirstStep(r), ![r].bill = StartBill(r) ]
  /\ Reacquire(r)
  /\ UNCHANGED << ledgerVars, queueVars, controller, handler, world, bounds >>

(* The stage is saved, then the request goes out unless the job was        *)
(* aborted in the meantime.                                                *)
Gateway(r) ==
  /\ AtLock(r, "gateway")
  /\ jobs' = Staged(Job(r), "gateway")
  /\ \/ /\ run[r].signal = "none"
        /\ run' = [run EXCEPT ![r].pc = "calling"]
        /\ sent' = [sent EXCEPT ![Job(r)] = @ + 1]
        /\ Release
     \/ /\ run[r].signal # "none"
        /\ run' = Thrown(r, "upstream")
        /\ UNCHANGED sent
        /\ Reacquire(r)
  /\ UNCHANGED << ledgerVars, queueVars, controller, handler, task, bounds >>

(* The provider answers an image request. *)
ImageAnswer(r) ==
  /\ run[r].pc = "calling"
  /\ Job(r) \notin Video
  /\ run[r].signal = "none"
  /\ run' = [run EXCEPT ![r].pc = "saving"]
  /\ Await(r)
  /\ UNCHANGED << jobs, ledgerVars, queueVars, controller, handler, world, bounds >>

(* The provider accepts a video: a platform job attaches the task to its   *)
(* entry before the jobs file learns of it.                                *)
VideoAnswer(r) ==
  LET j == Job(r)
  IN  /\ run[r].pc = "calling"
      /\ j \in Video
      /\ run[r].signal = "none"
      /\ \E s \in TaskStates :
           /\ task' = [task EXCEPT ![j] = s]
           /\ IF Source[j] # "platform" \/ CanAttach(j, ledger[j], sent[j])
              THEN run' = [ run EXCEPT ![r].pc = "tracked", ![r].poll = s,
                                       ![r].task = sent[j] ]
              ELSE run' = Thrown(r, "upstream")
      /\ ledger' = IF Source[j] = "platform" /\ CanAttach(j, ledger[j], sent[j])
                   THEN [ledger EXCEPT ![j] = Attached(@, sent[j])] ELSE ledger
      /\ Await(r)
      /\ UNCHANGED << jobs, balance, queueVars, controller, handler, sent, bounds >>

(* The request is refused, answered with the wrong number of outputs, or   *)
(* lost on the network.                                                    *)
CallFails(r) ==
  /\ run[r].pc = "calling"
  /\ run[r].signal = "none"
  /\ \E kind \in Errors : run' = Thrown(r, kind)
  /\ Await(r)
  /\ UNCHANGED << jobs, ledgerVars, queueVars, controller, handler, world, bounds >>

(* A fetch or a wait that carries the signal rejects once it is aborted. *)
CallAborted(r) ==
  /\ run[r].pc \in {"calling", "polling"}
  /\ run[r].signal # "none"
  /\ run' = Thrown(r, "upstream")
  /\ Await(r)
  /\ UNCHANGED << jobs, ledgerVars, queueVars, controller, handler, world, bounds >>

Saving(r) ==
  /\ AtLock(r, "saving")
  /\ jobs' = Staged(Job(r), "saving")
  /\ run' = [run EXCEPT ![r].pc = "storing"]
  /\ Release
  /\ UNCHANGED << ledgerVars, queueVars, controller, handler, world, bounds >>

(* The next output is written to disk; a platform job then records it in   *)
(* its entry, which refuses it when the entry is closed.                   *)
Store(r) ==
  LET j == Job(r)
      o == run[r].out + 1
      accepted == Source[j] # "platform" \/ CanRecord(j, ledger[j], o)
  IN  /\ run[r].pc = "storing"
      /\ run' = IF accepted
                THEN [run EXCEPT ![r].pc = "stored", ![r].out = o]
                ELSE Thrown(r, "upstream")
      /\ ledger' = IF accepted /\ Source[j] = "platform"
                   THEN [ledger EXCEPT ![j] = RecordedOutput(@, o)] ELSE ledger
      /\ Await(r)
      /\ UNCHANGED << jobs, balance, queueVars, controller, handler, world, bounds >>

StoreFails(r) ==
  /\ run[r].pc = "storing"
  /\ \E kind \in Errors : run' = Thrown(r, kind)
  /\ Await(r)
  /\ UNCHANGED << jobs, ledgerVars, queueVars, controller, handler, world, bounds >>

LastOutput(r) == run[r].out >= Count[Job(r)]

(* The stored output is reported.  The runner goes on with the next output *)
(* or, after the last, charges the job by the billing it started with.     *)
Stored(r) ==
  LET j == Job(r)
  IN  /\ AtLock(r, "stored")
      /\ jobs' = Staged(j, IF j \in Video THEN "video" ELSE "image")
      /\ \/ /\ LastOutput(r)
            /\ Charge(j, run[r].bill)
            /\ run' = [ run EXCEPT ![r].pc = "finish",
                                   ![r].bill = Charged(j, run[r].bill) ]
            /\ Reacquire(r)
         \/ /\ ~LastOutput(r)
            /\ j \in Batch
            /\ run' = [run EXCEPT ![r].pc = "storing"]
            /\ Release
            /\ UNCHANGED ledgerVars
         \/ /\ ~LastOutput(r)
            /\ j \notin Batch
            /\ run' = [run EXCEPT ![r].pc = "gateway"]
            /\ Reacquire(r)
            /\ UNCHANGED ledgerVars
      /\ UNCHANGED << queueVars, controller, handler, world, bounds >>

(* The jobs file learns the task of a video. *)
Tracked(r) ==
  LET j == Job(r)
      status == IF run[r].poll = "completed" THEN "saving" ELSE "upstream"
  IN  /\ AtLock(r, "tracked")
      /\ jobs' = [ Staged(j, status) EXCEPT ![j].task = run[r].task ]
      /\ CASE run[r].poll = "failed" ->
                run' = Thrown(r, "upstream") /\ Reacquire(r)
           [] run[r].poll = "completed" ->
                run' = [run EXCEPT ![r].pc = "storing"] /\ Release
           [] OTHER ->
                run' = [run EXCEPT ![r].pc = "polling"] /\ Release
      /\ UNCHANGED << ledgerVars, queueVars, controller, handler, world, bounds >>

(* A poll is answered: a task that ended stays as it ended. *)
Poll(r) ==
  LET j == Job(r)
  IN  /\ run[r].pc = "polling"
      /\ run[r].signal = "none"
      /\ \E s \in TaskStates :
           /\ task[j] # "in_progress" => s = task[j]
           /\ task' = [task EXCEPT ![j] = s]
           /\ run' = [ run EXCEPT ![r].pc = "polled", ![r].poll = s,
                                  ![r].tries = 0 ]
      /\ Await(r)
      /\ UNCHANGED << jobs, ledgerVars, queueVars, controller, handler, sent, bounds >>

(* A poll fails: a transient error is retried MaxTransient times in a row, *)
(* any other is thrown.                                                    *)
PollRetry(r) ==
  /\ run[r].pc = "polling"
  /\ run[r].signal = "none"
  /\ run[r].tries < MaxTransient
  /\ run' = [run EXCEPT ![r].pc = "retry", ![r].tries = @ + 1]
  /\ Await(r)
  /\ UNCHANGED << jobs, ledgerVars, queueVars, controller, handler, world, bounds >>

PollFails(r) ==
  /\ run[r].pc = "polling"
  /\ run[r].signal = "none"
  /\ \E kind \in Errors : run' = Thrown(r, kind)
  /\ Await(r)
  /\ UNCHANGED << jobs, ledgerVars, queueVars, controller, handler, world, bounds >>

Polled(r) ==
  LET poll == run[r].poll
      status == CASE poll = "completed" -> "saving"
                  [] poll = "failed"    -> "failed"
                  [] OTHER              -> "upstream"
  IN  /\ AtLock(r, "polled")
      /\ jobs' = Staged(Job(r), status)
      /\ CASE poll = "failed" ->
                run' = Thrown(r, "upstream") /\ Reacquire(r)
           [] poll = "completed" ->
                run' = [run EXCEPT ![r].pc = "storing"] /\ Release
           [] OTHER ->
                run' = [run EXCEPT ![r].pc = "polling"] /\ Release
      /\ UNCHANGED << ledgerVars, queueVars, controller, handler, world, bounds >>

Retried(r) ==
  /\ AtLock(r, "retry")
  /\ jobs' = Staged(Job(r), "upstream")
  /\ run' = [run EXCEPT ![r].pc = "polling"]
  /\ Release
  /\ UNCHANGED << ledgerVars, queueVars, controller, handler, world, bounds >>

Finish(r) ==
  /\ AtLock(r, "finish")
  /\ jobs' = Updated(Job(r), "succeeded", run[r].bill)
  /\ run' = [run EXCEPT ![r].pc = "history"]
  /\ Release
  /\ UNCHANGED << ledgerVars, queueVars, controller, handler, world, bounds >>

(* writeHistoryRecordForJob waits for the request in progress, which holds *)
(* the lock of the user's data.                                            *)
History(r) ==
  /\ run[r].pc = "history"
  /\ handler.pc = "idle"
  /\ Finally(r)
  /\ UNCHANGED << jobs, ledgerVars, handler, lock, world, bounds >>

(* The exception is classified: an abort or a lost request leaves the      *)
(* outcome unknown, any other error is a failure and refunds the job.      *)
Catch(r) ==
  LET j == Job(r)
      unknown == run[r].error \in Aborts \cup {"network"}
      bill == Read[j].bill
  IN  /\ AtLock(r, "catch")
      /\ jobs' = Read
      /\ \/ /\ unknown
            /\ run' = [ run EXCEPT ![r].pc = "fail", ![r].final = "unknown",
                                   ![r].bill = MarkedUnknown(j, bill) ]
            /\ UNCHANGED ledgerVars
         \/ /\ ~unknown
            /\ run' = [ run EXCEPT ![r].pc = "fail", ![r].final = "failed",
                                   ![r].bill = Refunded(j, bill) ]
            /\ Refund(j, bill)
      /\ Reacquire(r)
      /\ UNCHANGED << queueVars, controller, handler, world, bounds >>

Fail(r) ==
  /\ AtLock(r, "fail")
  /\ jobs' = Updated(Job(r), run[r].final, run[r].bill)
  /\ Release
  /\ Finally(r)
  /\ UNCHANGED << ledgerVars, handler, world, bounds >>

Timeout_Wrong(r) ==
  /\ run[r].pc = "calling"
  /\ run[r].signal = "none"
  /\ run' = [run EXCEPT ![r].signal = "timeout"]
  /\ UNCHANGED << jobs, ledgerVars, queueVars, controller, handler, lock, world, bounds >>

(* The timer of the job aborts its controller (JOB_TIMEOUT). *)
Timeout(r) ==
  /\ run[r].pc \notin {"idle", "read", "catch", "fail"}
  /\ run[r].signal = "none"
  /\ run' = [run EXCEPT ![r].signal = "timeout"]
  /\ UNCHANGED << jobs, ledgerVars, queueVars, controller, handler, lock, world, bounds >>

(* A write of the jobs file or of the history fails: inside the try block  *)
(* the runner catches it, elsewhere its promise is rejected and swallowed. *)
RunnerFault(r) ==
  /\ faults < MaxFaults
  /\ faults' = faults + 1
  /\ run[r].pc \in LockedSteps => Holds(r)
  /\ \/ /\ run[r].pc \in LockedSteps \ {"read", "catch", "fail"}
        /\ run' = Thrown(r, "upstream")
        /\ Reacquire(r)
        /\ UNCHANGED << queueVars, controller >>
     \/ /\ run[r].pc = "history"
        /\ handler.pc = "idle"
        /\ run' = Thrown(r, "upstream")
        /\ Await(r)
        /\ UNCHANGED << queueVars, controller >>
     \/ /\ run[r].pc \in {"catch", "fail"}
        /\ Finally(r)
        /\ Release
     \/ /\ run[r].pc = "read"
        /\ Leave(r)
        /\ Release
        /\ UNCHANGED controller
  /\ UNCHANGED << jobs, ledgerVars, handler, world, crashes >>

-------------------------------------------------------------------------------
(* The requests.  Each holds the lock of the user's data from its arrival  *)
(* to its answer, so that at most one is in progress.                      *)

Answer == handler' = NoRequest
Arrive(request) ==
  /\ handler.pc = "idle"
  /\ handler' = request
  /\ Await(Handler)
  /\ UNCHANGED << jobs, ledgerVars, queueVars, controller, run, world, bounds >>
AtRequest(pc) == handler.pc = pc /\ Holds(Handler)

(* POST generation-jobs *)
Submit(j) == Arrive([NoRequest EXCEPT !.pc = "post", !.job = j])

(* A request that is malformed, cannot be paid, or repeats a job. *)
Refuse ==
  /\ AtRequest("post")
  /\ jobs' = Read
  /\ Release
  /\ Answer
  /\ UNCHANGED << ledgerVars, queueVars, controller, run, world, bounds >>

ActiveTwin_Wrong(j) ==
  \E k \in Jobs : /\ Fingerprint[k] = Fingerprint[j]
                  /\ Read[k].status = "queued"
ActiveTwin(j) ==
  \E k \in Jobs : /\ Fingerprint[k] = Fingerprint[j]
                  /\ Read[k].status \in ActiveStatuses

(* reserveJobCredits: the entry is written first, the jobs file next. *)
Payable(j) ==
  Billed(j) => /\ ~(Recorded(j) /\ ledger[j].open)
               /\ balance >= Amount(j)

FirstBill(j) ==
  CASE ~Billed(j)                   -> "none"
    [] Billed(j) /\ Amount(j) > 0   -> "reserved"
    [] OTHER                        -> "disabled"

Reserve ==
  LET j == handler.job
  IN  /\ AtRequest("post")
      /\ Read[j].status = "absent"
      /\ ~ActiveTwin(j)
      /\ Payable(j)
      /\ IF Billed(j)
         THEN /\ ledger' = [ledger EXCEPT ![j] = IF @.open THEN @ ELSE Reserved(j)]
              /\ balance' = balance - Amount(j)
         ELSE UNCHANGED ledgerVars
      /\ jobs' = Read
      /\ handler' = [handler EXCEPT !.pc = "write", !.bill = FirstBill(j)]
      /\ UNCHANGED << queueVars, controller, run, lock, world, bounds >>

Accept ==
  LET j == handler.job
  IN  /\ AtRequest("write")
      /\ jobs' = [ jobs EXCEPT ![j] = [ NoRecord EXCEPT !.status = "queued",
                                                        !.bill = handler.bill ] ]
      /\ Enqueue(j, 0, FALSE)
      /\ Release
      /\ Answer
      /\ UNCHANGED << ledgerVars, running, controller, run, world, bounds >>

AcceptFails_Wrong ==
  /\ AtRequest("write")
  /\ faults < MaxFaults
  /\ faults' = faults + 1
  /\ Release
  /\ Answer
  /\ UNCHANGED << jobs, ledgerVars, queueVars, controller, run, world, crashes >>

(* The jobs file cannot be written: the reservation is given back. *)
AcceptFails ==
  /\ AtRequest("write")
  /\ faults < MaxFaults
  /\ faults' = faults + 1
  /\ Refund(handler.job, handler.bill)
  /\ Release
  /\ Answer
  /\ UNCHANGED << jobs, queueVars, controller, run, world, crashes >>

(* DELETE generation-jobs/j *)
Cancel(j) == Arrive([NoRequest EXCEPT !.pc = "delete", !.job = j])

CancelNothing ==
  /\ AtRequest("delete")
  /\ Read[handler.job].status \notin ActiveStatuses
  /\ jobs' = Read
  /\ Release
  /\ Answer
  /\ UNCHANGED << ledgerVars, queueVars, controller, run, world, bounds >>

(* The filter removes the one item of the job: Enqueue never adds another. *)
Unqueued(j) ==
  IF Queued(j)
  THEN LET i == CHOOSE i \in DOMAIN items : items[i].job = j
       IN  SubSeq(items, 1, i - 1) \o SubSeq(items, i + 1, Len(items))
  ELSE items

UpstreamMayHaveAccepted_Wrong(j) == controller[j] = NoRunner /\ ~Queued(j)
(* A job without a controller that is still in the queue was never         *)
(* dispatched.                                                             *)
UpstreamMayHaveAccepted(j) == controller[j] # NoRunner \/ ~Queued(j)

(* Such a job is refunded; any other is aborted and its outcome stays      *)
(* open.  The new status is written in a second critical section.          *)
CancelJob ==
  LET j == handler.job
      c == controller[j]
      bill == Read[j].bill
  IN  /\ AtRequest("delete")
      /\ Read[j].status \in ActiveStatuses
      /\ jobs' = Read
      /\ items' = Unqueued(j)
      /\ run' = IF c # NoRunner /\ run[c].signal = "none"
                THEN [run EXCEPT ![c].signal = "canceled"] ELSE run
      /\ \/ /\ UpstreamMayHaveAccepted(j)
            /\ handler' = [ handler EXCEPT !.pc = "cancel", !.final = "unknown",
                                           !.bill = MarkedUnknown(j, bill) ]
            /\ UNCHANGED ledgerVars
         \/ /\ ~UpstreamMayHaveAccepted(j)
            /\ handler' = [ handler EXCEPT !.pc = "cancel", !.final = "canceled",
                                           !.bill = Refunded(j, bill) ]
            /\ Refund(j, bill)
      /\ Reacquire(Handler)
      /\ UNCHANGED << running, drainDue, controller, world, bounds >>

CancelWrite ==
  /\ AtRequest("cancel")
  /\ jobs' = Updated(handler.job, handler.final, handler.bill)
  /\ Release
  /\ Answer
  /\ UNCHANGED << ledgerVars, queueVars, controller, run, world, bounds >>

(* GET generation-jobs and GET generation-jobs/j: a read that resumes the  *)
(* videos whose task nothing in memory follows.                            *)
Get(look) == Arrive([NoRequest EXCEPT !.pc = "get", !.todo = look])

Visit(todo) ==
  IF todo = {} THEN Answer
  ELSE handler' = [NoRequest EXCEPT !.pc = "recover", !.todo = todo]

GetRead ==
  /\ AtRequest("get")
  /\ jobs' = Read
  /\ Visit({ j \in handler.todo \cap Video :
               Read[j].status = "upstream" /\ Read[j].task # 0 })
  /\ Release
  /\ UNCHANGED << ledgerVars, queueVars, controller, run, world, bounds >>

(* recoverPersistedVideoJobs: a platform job must still have an open entry *)
(* for the very task its record names.                                     *)
Resumable(j) ==
  /\ ~InMemory(j)
  /\ Source[j] = "platform" => /\ Chargeable(j, ledger[j])
                               /\ ledger[j].task = jobs[j].task

Resume(j) ==
  /\ handler.pc = "recover"
  /\ j \in handler.todo
  /\ Resumable(j)
  /\ Enqueue(j, jobs[j].task, TRUE)
  /\ Visit(handler.todo \ {j})
  /\ UNCHANGED << jobs, ledgerVars, running, controller, run, lock, world, bounds >>

(* Not resumable, or the provider settings of a job that the service did   *)
(* not bill cannot be rebuilt: the job is left as it is.                   *)
Skip(j) ==
  /\ handler.pc = "recover"
  /\ j \in handler.todo
  /\ ~Resumable(j) \/ Source[j] # "platform"
  /\ Visit(handler.todo \ {j})
  /\ UNCHANGED << jobs, ledgerVars, queueVars, controller, run, lock, world, bounds >>

(* The platform connection of the job is gone or has changed. *)
Block(j) ==
  /\ handler.pc = "recover"
  /\ j \in handler.todo
  /\ Resumable(j)
  /\ Source[j] = "platform"
  /\ handler' = [ handler EXCEPT !.pc = "block", !.job = j,
                                 !.todo = @ \ {j} ]
  /\ Await(Handler)
  /\ UNCHANGED << jobs, ledgerVars, queueVars, controller, run, world, bounds >>

BlockWrite ==
  /\ AtRequest("block")
  /\ jobs' = Updated(handler.job, "unknown", MarkedUnknown(handler.job, "reserved"))
  /\ Visit(handler.todo)
  /\ Release
  /\ UNCHANGED << ledgerVars, queueVars, controller, run, world, bounds >>

(* A request whose access to the jobs file fails is answered with a 500. *)
RequestFault ==
  /\ handler.pc \in {"post", "delete", "cancel", "get", "block"}
  /\ Holds(Handler)
  /\ faults < MaxFaults
  /\ faults' = faults + 1
  /\ Release
  /\ Answer
  /\ UNCHANGED << jobs, ledgerVars, queueVars, controller, run, world, crashes >>

-------------------------------------------------------------------------------
(* The process dies and is started again: the files stay, the memory is    *)
(* lost.  SERVICE_STARTED_AT moves, so that older records become stale,    *)
(* all but those updated within the last second.                           *)
Crash ==
  /\ crashes < MaxCrashes
  /\ crashes' = crashes + 1
  /\ \E fresh \in SUBSET { j \in Jobs : ~jobs[j].stale } :
       jobs' = [ j \in Jobs |->
                   [ jobs[j] EXCEPT !.stale = /\ jobs[j].status \in ActiveStatuses
                                              /\ j \notin fresh ] ]
  /\ items' = << >>
  /\ running' = 0
  /\ drainDue' = FALSE
  /\ controller' = [j \in Jobs |-> NoRunner]
  /\ run' = [r \in Runners |-> Idle]
  /\ handler' = NoRequest
  /\ lock' = << >>
  /\ UNCHANGED << ledgerVars, world, faults >>

-------------------------------------------------------------------------------
(* What the process does by itself, and what the provider decides. *)
RunnerStep(r) ==
  \/ Drop(r) \/ Take(r) \/ Start(r) \/ Gateway(r) \/ CallAborted(r)
  \/ Saving(r) \/ Store(r) \/ StoreFails(r) \/ Stored(r) \/ Tracked(r)
  \/ Polled(r) \/ Retried(r) \/ Finish(r) \/ Catch(r) \/ Fail(r)

ProviderStep(r) ==
  \/ ImageAnswer(r) \/ VideoAnswer(r) \/ CallFails(r)
  \/ Poll(r) \/ PollRetry(r) \/ PollFails(r)

RequestStep ==
  \/ Refuse \/ Reserve \/ Accept \/ CancelNothing \/ CancelJob \/ CancelWrite
  \/ GetRead \/ BlockWrite
  \/ \E j \in Jobs : Resume(j) \/ Skip(j) \/ Block(j)

Request ==
  \/ \E j \in Jobs : Submit(j) \/ Get({j})
  \/ \E j \in Cancelable : Cancel(j)
  \/ Get(Jobs)

Next ==
  \/ \E r \in Runners : RunnerStep(r) \/ ProviderStep(r) \/ History(r) \/ Timeout(r)
  \/ Drain
  \/ Request
  \/ RequestStep
  \/ \E r \in Runners : RunnerFault(r)
  \/ AcceptFails
  \/ RequestFault
  \/ Crash

Spec == Init /\ [][Next]_vars

(* The event loop runs every ready continuation; the locks are FIFO, so    *)
(* that a runner that awaits the user's data lock gets it although         *)
(* requests keep coming; the timer of a job fires.  The provider owes      *)
(* nothing.                                                                *)
Fairness ==
  /\ \A r \in Runners : /\ WF_vars(RunnerStep(r))
                        /\ WF_vars(Timeout(r))
                        /\ SF_vars(History(r))
  /\ WF_vars(Drain)
  /\ WF_vars(RequestStep)

FairSpec == Spec /\ Fairness

-------------------------------------------------------------------------------
(* Properties. *)

At(j) == { r \in Busy : Job(r) = j }

(* What a platform job has been charged, net of its refund, never falls    *)
(* below the price of the outputs it delivered: neither a failure after a  *)
(* partial batch, nor a cancel, nor a crash gives delivered work away      *)
(* (refundCredits, recordGenerationOutput).                                *)
KeptCoversDelivered ==
  \A j \in Jobs :
    ledger[j].open /\ Source[j] = "platform"
      => Amount(j) - ledger[j].back >= Cardinality(ledger[j].delivered) * Unit[j]

(* The strengthening of KeptCoversDelivered that every step preserves. *)
LedgerOK == \A j \in Jobs : EntryOK(j, ledger[j])
IInv == TypeOK /\ LedgerOK

(* The provider never gets more requests for a job than its reservation    *)
(* pays for, whatever is resubmitted, resumed or restarted                 *)
(* (runGenerationRequest, recoverPersistedVideoJobs).                      *)
Requests(j) == IF j \in Video \cup Batch THEN 1 ELSE Count[j]
RequestsWithinOrder == \A j \in Jobs : sent[j] <= Requests(j)

(* An image job that ends `canceled' never reached the provider and was    *)
(* refunded in full, although the cancel decides in one critical section   *)
(* and writes in another while the drain timer may take the job (DELETE).  *)
CanceledNeverSent ==
  \A j \in Jobs \ Video :
    jobs[j].status = "canceled"
      => /\ sent[j] = 0
         /\ Billed(j) /\ Recorded(j) => ledger[j].back = Amount(j)

(* A job left `failed' by its runners was refunded exactly for what it did *)
(* not deliver, whichever path failed it (the catch of runGenerationJob).  *)
FailureRefunded ==
  \A j \in Jobs :
    (jobs[j].status = "failed" /\ At(j) = {} /\ Billed(j))
      => ledger[j].back = IF Source[j] = "platform"
                          THEN Amount(j) - Cardinality(ledger[j].delivered) * Unit[j]
                          ELSE Amount(j)

(* A job reported `succeeded' has delivered its whole order, kept its      *)
(* whole charge, and is settled unless its billing is flagged for          *)
(* reconciliation (chargeJobCredits before the final updateJob).           *)
SuccessPaid ==
  \A j \in Jobs :
    (jobs[j].status = "succeeded" /\ Source[j] = "platform" /\ Amount(j) > 0)
      => /\ ledger[j].delivered = 1 .. Count[j]
         /\ ledger[j].back = 0
         /\ ledger[j].settled \/ jobs[j].bill = "unknown"

(* The billing shown in the record of a platform job never claims a refund *)
(* or a charge that the billing database does not hold: the database is    *)
(* written first, and no later update brings an older claim back.          *)
BillTruthful ==
  \A j \in Jobs :
    Source[j] = "platform"
      => LET e == ledger[j]
             bill == jobs[j].bill
         IN  /\ bill = "refunded" => e.back = Amount(j)
             /\ bill = "partially_refunded" => e.back \in 1 .. Amount(j) - 1
             /\ bill = "charged" => e.settled /\ e.back = 0

(* A charge without a record exists only while its request is writing the  *)
(* record: a failed write refunds it (POST generation-jobs).               *)
ChargeHasJob ==
  \A j \in Jobs :
    (ledger[j].open /\ jobs[j].status = "absent")
      => \/ handler.pc = "write" /\ handler.job = j
         \/ ledger[j].back = Amount(j)

(* The counter queue.running is the number of busy slots, and a waiting    *)
(* job with a free slot always has a drain timer to wake it                *)
(* (drainGenerationQueue).                                                 *)
NoLostWakeup ==
  /\ running = Cardinality(Busy)
  /\ items # << >> /\ running < Cardinality(Runners) => drainDue

(* An image job never has two runners, is never queued twice nor queued    *)
(* and running, so that its controller is its runner's                     *)
(* (enqueueGenerationJob, activeJobControllers).  A video may: a read of   *)
(* the jobs queues it again between its drain and its controller.          *)
OneRunner ==
  \A j \in Jobs \ Video :
    /\ Cardinality(At(j)) <= 1
    /\ Cardinality({ i \in DOMAIN items : items[i].job = j }) <= 1
    /\ At(j) # {} => ~Queued(j)
    /\ controller[j] # NoRunner => controller[j] \in At(j)

(* A submission is not accepted beside an active job with its fingerprint, *)
(* whatever the runners, the cancels and the crashes do to that job, so    *)
(* that a repeated submission pays once: the jobs are read, the charge     *)
(* made and the record written in one critical section (the fingerprint    *)
(* test of POST).                                                          *)
ActiveJobsDiffer ==
  [][\A j, k \in Jobs :
       ( /\ j # k /\ Fingerprint[j] = Fingerprint[k]
         /\ jobs[k].status = "absent" /\ jobs'[k].status # "absent" )
         => jobs[j].status \notin ActiveStatuses]_vars

(* The balance is what the user started with less what the entries keep.   *)
BalanceAccounted ==
  balance = Credits - FoldFunctionOnSet(+, 0,
                        [ j \in Jobs |-> IF ledger[j].open
                                        THEN Amount(j) - ledger[j].back ELSE 0 ],
                        Jobs)

(* Every accepted job comes to an end, even when the provider never        *)
(* answers: the timer aborts whatever the runner awaits.                   *)
EveryJobEnds ==
  \A j \in Jobs :
    jobs[j].status \in ActiveStatuses ~> jobs[j].status \in FinalStatuses

===============================================================================
