-------------------------------- MODULE GoJobs --------------------------------
(* Generation jobs of the Go server for one user: the job file behind the     *)
(* store's mutex (internal/store), the HTTP handlers that create, execute,    *)
(* cancel and retry jobs (internal/httpapi/server.go), the table of cancel    *)
(* functions of running executions, the provider, and the restart.            *)
(*                                                                            *)
(* A call is one HTTP request with the goroutine it may leave behind. A step  *)
(* of a call is one critical section (of the store, of the event stream, of   *)
(* executionMu) or one exchange with the provider: between two steps any      *)
(* other call may run. A request that ends in an error before it changed      *)
(* anything (not found, duplicate, not retryable) is a stutter.               *)
EXTENDS JobEvents, FiniteSets

CONSTANTS
  Jobs, NoJob,       \* job identifiers, unique; NoJob is the zero GenerationJob
  Calls, NoCall,     \* requests that may be under way at a time
  Modes,             \* what the submitted jobs generate: "image", "video"
  Fingerprints,      \* fingerprints of submissions in the session, "" for none
  JobLimit,          \* records kept (120)
  MaxRequests,       \* bound: requests served
  MaxRestarts,       \* bound: restarts of the process
  MaxWriteFailures,  \* bound: writes of the job file that fail
  MaxProgress        \* bound: events of a job after which a video reports no more

ASSUME GoJobsAssumption ==
  /\ NoJob \notin Jobs
  /\ NoCall \notin Calls
  /\ Modes \subseteq {"image", "video"}
  /\ JobLimit \in Nat \ {0}
  /\ MaxRequests \in Nat
  /\ MaxRestarts \in Nat
  /\ MaxWriteFailures \in Nat
  /\ MaxProgress \in Nat

VARIABLES
  record,            \* the records of jobs.json
  order,             \* their order in the file, newest first
  calls,             \* the requests in progress; a free call is none
  executionCancels,  \* whose context a cancel of a job cancels
  streams,           \* the event stream of each job
  sent,              \* history: generation requests the provider got for a job
  requests, restarts, failures \* counters for the bounds

vars == <<record, order, calls, executionCancels, streams, sent, requests, restarts, failures>>

InFlight == {"dispatching", "upstream", "saving"}
Active   == {"queued"} \cup InFlight
Terminal == {"completed", "failed", "canceled"}
Stored   == Active \cup Terminal
Statuses == Stored \cup {"unborn", "evicted"}

Keys == Jobs \cup {NoJob}

(* Between requests the handler's job is a copy: only its identifier is used. *)
Idle == [pc |-> "free", plan |-> NoJob, job |-> NoJob, key |-> NoJob,
         canceled |-> FALSE, type |-> "", status |-> "", next |-> "free"]

Unborn == [status |-> "unborn", mode |-> "image", fingerprint |-> "",
           retryOf |-> NoJob, hasResult |-> FALSE]

Found(j) == j \in Jobs /\ record[j].status \in Stored

Init ==
  /\ record = [j \in Jobs |-> Unborn]
  /\ order = <<>>
  /\ calls = [c \in Calls |-> Idle]
  /\ executionCancels = [k \in Keys |-> NoCall]
  /\ streams = [k \in Keys |-> EmptyStream]
  /\ sent = [j \in Jobs |-> 0]
  /\ requests = 0
  /\ restarts = 0
  /\ failures = 0

-------------------------------------------------------------------------------
(* Steps of a call that every handler uses.                                   *)

At(c, pc) == calls[c].pc = pc
Goto(c, pc) == calls' = [calls EXCEPT ![c].pc = pc]
Return(c) == calls' = [calls EXCEPT ![c] = Idle]

(* A request arrives.                                                         *)
Arrive(c) ==
  /\ At(c, "free")
  /\ requests < MaxRequests
  /\ requests' = requests + 1

(* The call goes on with the job it has and will publish an event on it,      *)
(* which is a critical section of its own.                                    *)
PublishNext(c, job, type, status, next) ==
  calls' = [calls EXCEPT ![c] = [@ EXCEPT !.pc = "publish", !.job = job,
              !.type = type, !.status = status, !.next = next]]

Publish(c) ==
  /\ At(c, "publish")
  /\ LET call == calls[c]
     IN  /\ streams' = [streams EXCEPT ![call.job] =
                          Published(@, call.type, call.status)]
         /\ IF call.next = "free" THEN Return(c) ELSE Goto(c, call.next)
  /\ UNCHANGED <<record, order, executionCancels, sent, requests, restarts, failures>>

-------------------------------------------------------------------------------
(* The store. Each operation reads the file, changes it and renames a new one *)
(* over it; a write that fails leaves the file as it was.                     *)

(* Wrong: a failure may overwrite a cancellation.                             *)
CanTransition_Wrong(current, next) ==
  \/ current = next
  \/ next = "canceled" /\ current \in Active
  \/ next = "failed" /\ current \in InFlight \cup {"canceled"}
  \/ current = "queued" /\ next = "dispatching"
  \/ current = "dispatching" /\ next = "upstream"
  \/ current = "upstream" /\ next \in {"saving", "completed"}
  \/ current = "saving" /\ next = "completed"

(* Wrong: a job that is being saved cannot fail.                              *)
CanTransition_Stuck(current, next) ==
  \/ current = next
  \/ next = "canceled" /\ current \in Active
  \/ next = "failed" /\ current \in {"dispatching", "upstream"}
  \/ current = "queued" /\ next = "dispatching"
  \/ current = "dispatching" /\ next = "upstream"
  \/ current = "upstream" /\ next \in {"saving", "completed"}
  \/ current = "saving" /\ next = "completed"

CanTransition(current, next) ==
  \/ current = next
  \/ next = "canceled" /\ current \in Active
  \/ next = "failed" /\ current \in InFlight
  \/ current = "queued" /\ next = "dispatching"
  \/ current = "dispatching" /\ next = "upstream"
  \/ current = "upstream" /\ next \in {"saving", "completed"}
  \/ current = "saving" /\ next = "completed"

WriteFails ==
  /\ failures < MaxWriteFailures
  /\ failures' = failures + 1
  /\ UNCHANGED record

WriteStatus(j, status, hasResult) ==
  /\ record' = [record EXCEPT ![j] =
                  [@ EXCEPT !.status = status, !.hasResult = hasResult]]
  /\ UNCHANGED failures

(* TransitionJob with its four outcomes.                                      *)
TransitionJob(j, next, hasResult, outcome) ==
  \/ /\ outcome = "missing"
     /\ ~Found(j)
     /\ UNCHANGED <<record, failures>>
  \/ /\ outcome = "refused"
     /\ Found(j) /\ ~CanTransition(record[j].status, next)
     /\ UNCHANGED <<record, failures>>
  \/ /\ outcome = "unwritten"
     /\ Found(j) /\ CanTransition(record[j].status, next)
     /\ WriteFails
  \/ /\ outcome = "ok"
     /\ Found(j) /\ CanTransition(record[j].status, next)
     /\ WriteStatus(j, next, hasResult)

(* append([]GenerationJob{job}, jobs...)[:jobLimit]                           *)
Prepended(j) ==
  LET all == <<j>> \o order
  IN  IF Len(all) <= JobLimit THEN all ELSE SubSeq(all, 1, JobLimit)

Prepend(j, new) ==
  LET kept == Prepended(j)
      isKept(k) == \E i \in DOMAIN kept : kept[i] = k
  IN  /\ order' = kept
      /\ record' = [k \in Jobs |->
           IF k = j THEN new
           ELSE IF Found(k) /\ ~isKept(k) THEN [record[k] EXCEPT !.status = "evicted"]
           ELSE record[k]]

(* Wrong: a twin or a retry that was already claimed does not count.          *)
ActiveTwin_Wrong(fingerprint) ==
  \E k \in Jobs : /\ record[k].status = "queued"
                  /\ fingerprint # "" /\ record[k].fingerprint = fingerprint

ActiveRetry_Wrong(j) ==
  \E k \in Jobs : record[k].status = "queued" /\ record[k].retryOf = j

ActiveTwin(fingerprint) ==
  \E k \in Jobs : /\ record[k].status \in Active
                  /\ fingerprint # "" /\ record[k].fingerprint = fingerprint

ActiveRetry(j) ==
  \E k \in Jobs : record[k].status \in Active /\ record[k].retryOf = j

-------------------------------------------------------------------------------
(* POST /generation-jobs                                                      *)
CreateJob(c, j) ==
  /\ Arrive(c)
  /\ record[j].status = "unborn"
  /\ \E mode \in Modes, fingerprint \in Fingerprints :
       /\ ~ActiveTwin(fingerprint)
       /\ Prepend(j, [Unborn EXCEPT !.status = "queued", !.mode = mode,
                                    !.fingerprint = fingerprint])
  /\ PublishNext(c, j, "queued", "queued", "free")
  /\ UNCHANGED <<executionCancels, streams, sent, restarts, failures>>

(* POST /generation-jobs/{j}/retry: k is a new record, j is left alone.       *)
RetryJob(c, j, k) ==
  /\ Arrive(c)
  /\ record[k].status = "unborn"
  /\ record[j].status \in {"failed", "canceled"}
  /\ ~ActiveRetry(j)
  /\ Prepend(k, [Unborn EXCEPT !.status = "queued", !.mode = record[j].mode,
                               !.fingerprint = record[j].fingerprint,
                               !.retryOf = j])
  /\ PublishNext(c, k, "queued", "queued", "free")
  /\ UNCHANGED <<executionCancels, streams, sent, restarts, failures>>

(* DELETE /generation-jobs/{j}: first the running execution, if it has        *)
(* registered by now, then the record.                                        *)
CancelExecution(c, j) ==
  /\ Arrive(c)
  /\ record[j].status # "unborn"
  /\ LET running == executionCancels[j]
     IN  calls' = [d \in Calls |->
           IF d = c THEN [calls[d] EXCEPT !.pc = "cancelJob", !.job = j]
           ELSE IF d = running THEN [calls[d] EXCEPT !.canceled = TRUE]
           ELSE calls[d]]
  /\ UNCHANGED <<record, order, executionCancels, streams, sent, restarts, failures>>

CancelJob(c) ==
  /\ At(c, "cancelJob")
  /\ LET j == calls[c].job
         status == IF record[j].status \in Active THEN "canceled" ELSE record[j].status
     IN  \/ /\ ~Found(j)
            /\ Return(c)
            /\ UNCHANGED <<record, failures>>
         \/ /\ Found(j)
            /\ WriteStatus(j, status, record[j].hasResult)
            /\ PublishNext(c, j, "canceled", status, "free")
         \/ /\ Found(j)
            /\ WriteFails
            /\ Return(c)
  /\ UNCHANGED <<order, executionCancels, streams, sent, requests, restarts>>

-------------------------------------------------------------------------------
(* POST /generation-jobs/{j}/execute                                          *)

(* GetJob, the provider and the plan; nothing is changed.                     *)
Execute(c, j) ==
  /\ Arrive(c)
  /\ Found(j)
  /\ calls' = [calls EXCEPT ![c] = [@ EXCEPT !.pc = "claim", !.plan = j, !.job = j]]
  /\ UNCHANGED <<record, order, executionCancels, streams, sent, restarts, failures>>

(* Wrong: any active job, or any job at all, can be claimed.                  *)
Claimable_Wrong(j) == Found(j) /\ record[j].status \in Active
Claimable_Stale(j) == Found(j)

Claimable(j) == Found(j) /\ record[j].status = "queued"

ClaimJob(c) ==
  /\ At(c, "claim")
  /\ LET j == calls[c].job
     IN  \/ /\ Claimable(j)
            /\ WriteStatus(j, "dispatching", record[j].hasResult)
            /\ PublishNext(c, j, "dispatching", "dispatching", "toUpstream")
         \/ /\ Claimable(j)
            /\ WriteFails
            /\ Return(c)
         \/ /\ ~Claimable(j)
            /\ Return(c)
            /\ UNCHANGED <<record, failures>>
  /\ UNCHANGED <<order, executionCancels, streams, sent, requests, restarts>>

(* A record that was dropped from the file is no error: the handler goes on   *)
(* with the zero job.                                                         *)
ToUpstream(c) ==
  /\ At(c, "toUpstream")
  /\ \E outcome \in {"ok", "missing", "refused", "unwritten"} :
       /\ TransitionJob(calls[c].job, "upstream", FALSE, outcome)
       /\ CASE outcome = "ok" ->
                 PublishNext(c, calls[c].job, "upstream", "upstream", "begin")
            [] outcome = "missing" ->
                 PublishNext(c, NoJob, "upstream", "", "begin")
            [] OTHER -> Return(c)
  /\ UNCHANGED <<order, executionCancels, streams, sent, requests, restarts>>

(* beginExecution: from here on a cancel can reach the execution.             *)
Begin(c) ==
  /\ At(c, "begin")
  /\ LET key == calls[c].job
     IN  /\ executionCancels' = [executionCancels EXCEPT ![key] = c]
         /\ calls' = [calls EXCEPT ![c] = [@ EXCEPT !.pc = "request", !.key = key]]
  /\ UNCHANGED <<record, order, streams, sent, requests, restarts, failures>>

(* job.Mode == "video" is asked of the handler's copy; the zero job takes the *)
(* image path, whose executor refuses the plan of a video.                    *)
IsVideo(c) == calls[c].job # NoJob /\ record[calls[c].plan].mode = "video"
PlanFits(c) == IsVideo(c) \/ record[calls[c].plan].mode = "image"

Request(c) ==
  /\ At(c, "request")
  /\ IF PlanFits(c) /\ ~calls[c].canceled
     THEN /\ sent' = [sent EXCEPT ![calls[c].plan] = @ + 1]
          /\ Goto(c, "waiting")
     ELSE /\ Goto(c, "failing")
          /\ UNCHANGED sent
  /\ UNCHANGED <<record, order, executionCancels, streams, requests, restarts, failures>>

(* The provider answers, fails, or is given up because the context is done.   *)
(* Images that are URLs need no saving.                                       *)
Answer(c) ==
  /\ At(c, "waiting")
  /\ \/ ~IsVideo(c) /\ Goto(c, "persist")
     \/ Goto(c, "toSaving")
     \/ Goto(c, "failing")
     \/ /\ IsVideo(c) /\ streams[calls[c].job].sequence < MaxProgress
        /\ Goto(c, "progress")
  /\ UNCHANGED <<record, order, executionCancels, streams, sent, requests, restarts, failures>>

(* OnProgress of a video that is still polled.                                *)
Progress(c) ==
  /\ At(c, "progress")
  /\ LET j == calls[c].job
     IN  IF Found(j) /\ record[j].status # "canceled"
         THEN PublishNext(c, j, "upstream", record[j].status, "waiting")
         ELSE Goto(c, "waiting")
  /\ UNCHANGED <<record, order, executionCancels, streams, sent, requests, restarts, failures>>

Failing(c) ==
  /\ At(c, "failing")
  /\ LET j == calls[c].job
         canceled == Found(j) /\ record[j].status = "canceled"
     IN  Goto(c, IF canceled THEN "finish" ELSE "toFailed")
  /\ UNCHANGED <<record, order, executionCancels, streams, sent, requests, restarts, failures>>

ToFailed(c) ==
  /\ At(c, "toFailed")
  /\ \E outcome \in {"ok", "missing", "refused", "unwritten"} :
       /\ TransitionJob(calls[c].job, "failed", FALSE, outcome)
       /\ CASE outcome = "ok" ->
                 PublishNext(c, calls[c].job, "failed", "failed", "finish")
            [] outcome = "missing" ->
                 PublishNext(c, calls[c].job, "failed", "", "finish")
            [] OTHER -> Goto(c, "finish")
  /\ UNCHANGED <<order, executionCancels, streams, sent, requests, restarts>>

(* An image whose record was dropped goes on with the zero job, a video ends. *)
ToSaving(c) ==
  /\ At(c, "toSaving")
  /\ \E outcome \in {"ok", "missing", "refused", "unwritten"} :
       /\ TransitionJob(calls[c].job, "saving", FALSE, outcome)
       /\ CASE outcome = "ok" ->
                 PublishNext(c, calls[c].job, "saving", "saving", "persist")
            [] outcome = "missing" /\ ~IsVideo(c) ->
                 PublishNext(c, NoJob, "saving", "", "persist")
            [] OTHER -> Goto(c, "finish")
  /\ UNCHANGED <<order, executionCancels, streams, sent, requests, restarts>>

(* persistGeneratedImages, persistGeneratedVideo                              *)
Persist(c) ==
  /\ At(c, "persist")
  /\ Goto(c, "toCompleted") \/ Goto(c, "toSaveFailed")
  /\ UNCHANGED <<record, order, executionCancels, streams, sent, requests, restarts, failures>>

(* The outcome of this transition is ignored and an event goes out anyway.    *)
ToSaveFailed(c) ==
  /\ At(c, "toSaveFailed")
  /\ \E outcome \in {"ok", "missing", "refused", "unwritten"} :
       /\ TransitionJob(calls[c].job, "failed", FALSE, outcome)
       /\ PublishNext(c, calls[c].job, "failed",
                      IF outcome \in {"ok", "unwritten"} THEN "failed" ELSE "",
                      "finish")
  /\ UNCHANGED <<order, executionCancels, streams, sent, requests, restarts>>

ToCompleted(c) ==
  /\ At(c, "toCompleted")
  /\ \E outcome \in {"ok", "missing", "refused", "unwritten"} :
       /\ TransitionJob(calls[c].job, "completed", TRUE, outcome)
       /\ CASE outcome = "ok" ->
                 PublishNext(c, calls[c].job, "completed", "completed", "finish")
            [] outcome = "missing" ->
                 PublishNext(c, calls[c].job, "completed", "", "finish")
            [] OTHER -> Goto(c, "finish")
  /\ UNCHANGED <<order, executionCancels, streams, sent, requests, restarts>>

(* The deferred function that beginExecution returned.                        *)
Finish(c) ==
  /\ At(c, "finish")
  /\ executionCancels' = [executionCancels EXCEPT ![calls[c].key] = NoCall]
  /\ Return(c)
  /\ UNCHANGED <<record, order, streams, sent, requests, restarts, failures>>

-------------------------------------------------------------------------------
(* Wrong: a job that was being saved is forgotten.                            *)
Recovered_Wrong(status) ==
  IF status \in {"dispatching", "upstream"} THEN "failed" ELSE status

(* Wrong: recovery takes failed jobs up again.                                *)
Recovered_Requeued(status) ==
  IF status \in InFlight \cup {"failed"} THEN "queued" ELSE status

Recovered(status) == IF status \in InFlight THEN "failed" ELSE status

(* The process dies and a new one starts: NewServer closes what was in flight *)
(* before it serves; memory is lost, and with it every request.               *)
Restart ==
  /\ restarts < MaxRestarts
  /\ restarts' = restarts + 1
  /\ record' = [j \in Jobs |-> [record[j] EXCEPT !.status = Recovered(@)]]
  /\ calls' = [c \in Calls |-> Idle]
  /\ executionCancels' = [k \in Keys |-> NoCall]
  /\ streams' = [k \in Keys |-> EmptyStream]
  /\ UNCHANGED <<order, sent, requests, failures>>

(* What a call that is under way does next.                                   *)
Step(c) ==
  \/ Publish(c)
  \/ CancelJob(c)
  \/ ClaimJob(c)
  \/ ToUpstream(c)
  \/ Begin(c)
  \/ Request(c)
  \/ Answer(c)
  \/ Progress(c)
  \/ Failing(c)
  \/ ToFailed(c)
  \/ ToSaving(c)
  \/ Persist(c)
  \/ ToSaveFailed(c)
  \/ ToCompleted(c)
  \/ Finish(c)

Serve ==
  \/ \E c \in Calls : Step(c)
  \/ \E c \in Calls, j \in Jobs :
       CreateJob(c, j) \/ CancelExecution(c, j) \/ Execute(c, j)
  \/ \E c \in Calls, j, k \in Jobs : RetryJob(c, j, k)

Next == Serve \/ Restart

Spec == Init /\ [][Next]_vars

(* Goroutines are scheduled, and the context's deadline ends a provider that  *)
(* does not answer.                                                           *)
FairSpec == Spec /\ \A c \in Calls : WF_vars(Step(c))

-------------------------------------------------------------------------------
(* Properties.                                                                *)

Pcs == {"free", "publish", "cancelJob", "claim", "toUpstream", "begin",
        "request", "waiting", "progress", "failing", "toFailed", "toSaving",
        "persist", "toSaveFailed", "toCompleted", "finish"}

CallType ==
  [pc : Pcs, plan : Keys, job : Keys, key : Keys, canceled : BOOLEAN,
   type : Stored \cup {""}, status : Stored \cup {""}, next : Pcs]

RecordType ==
  [status : Statuses, mode : {"image", "video"}, fingerprint : Fingerprints \cup {""},
   retryOf : Keys, hasResult : BOOLEAN]

(* The values of the variables, and: the file holds each stored job once and  *)
(* no more jobs than the limit.                                               *)
TypeOK ==
  /\ record \in [Jobs -> RecordType]
  /\ order \in Seq(Jobs) /\ Len(order) <= JobLimit
  /\ \A j \in Jobs : Found(j) <=> \E i \in DOMAIN order : order[i] = j
  /\ \A i, k \in DOMAIN order : order[i] = order[k] => i = k
  /\ calls \in [Calls -> CallType]
  /\ executionCancels \in [Keys -> Calls \cup {NoCall}]
  /\ sent \in [Jobs -> Nat]
  /\ requests \in 0 .. MaxRequests
  /\ restarts \in 0 .. MaxRestarts
  /\ failures \in 0 .. MaxWriteFailures

(* A job is sent to the provider at most once, however many requests execute  *)
(* it and however often the server restarts ("A second caller can observe the *)
(* current job but cannot dispatch it again").                                *)
DispatchedOnce == \A j \in Jobs : sent[j] <= 1

(* A record in flight has a goroutine that will settle it, unless a write of  *)
(* the job file failed. Nothing but a restart would ever settle it otherwise. *)
Runs(c, j) == calls[c].plan = j /\ calls[c].pc \notin {"free", "claim"}
InFlightHasRunner ==
  failures = 0 =>
    \A j \in Jobs : record[j].status \in InFlight => \E c \in Calls : Runs(c, j)

(* While an execution talks to the provider or saves what it got, a cancel of *)
(* its job finds its cancel function, not a stale one and not another's.      *)
Executing == {"request", "waiting", "progress", "failing", "toFailed", "toSaving",
              "persist", "toSaveFailed", "toCompleted", "finish"}
RunningIsCancelable ==
  \A c \in Calls : calls[c].pc \in Executing /\ calls[c].key # NoJob
                     => executionCancels[calls[c].key] = c

(* A settled record is never rewound or changed, whatever answer, cancel or   *)
(* restart comes late; it can only drop off the end of the file.              *)
TerminalFinal ==
  [][\A j \in Jobs : record[j].status \in Terminal =>
       record'[j] = record[j] \/ record'[j].status = "evicted"]_vars

(* What is under way in the session is told apart: a settled job has at most  *)
(* one attempt that retries it, and two active jobs with one fingerprint are  *)
(* never both submissions (submitting again is answered with the active one;  *)
(* only a retry may add an attempt), whatever was claimed, canceled, dropped  *)
(* or recovered in between.                                                   *)
AttemptsDiffer ==
  \A j, k \in Jobs :
    /\ record[j].status \in Active /\ record[k].status \in Active
    /\ \/ record[j].retryOf = record[k].retryOf /\ record[j].retryOf # NoJob
       \/ /\ record[j].fingerprint = record[k].fingerprint /\ record[j].fingerprint # ""
          /\ record[j].retryOf = NoJob /\ record[k].retryOf = NoJob
    => j = k

(* A job that was claimed leaves the in-flight statuses, if the file can be   *)
(* written: by its runner, by a cancel, by recovery, or by being dropped.     *)
ClaimedJobsSettle ==
  \A j \in Jobs :
    (record[j].status \in InFlight) ~> (record[j].status \notin InFlight)
===============================================================================
