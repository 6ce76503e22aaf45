----------------------------- MODULE GoJobsProofs -----------------------------
(* Theorems about GoJobs, for any jobs, requests, fingerprints and bounds: a  *)
(* job is dispatched at most once, a settled record is final, a record in     *)
(* flight has a request that will settle it, a cancel finds the execution it  *)
(* is meant for, and what is under way is told apart.  And about JobFollower, *)
(* meanwhile: what a browser shows as settled is what was stored, and a       *)
(* browser that has caught up knows of the end.                               *)
EXTENDS JobFollower, WellFoundedInduction, SequenceTheorems, TLAPS

(* The job of a request that has claimed it, and whether that request has yet *)
(* to send it to the provider.                                                *)
Owns(k, j) == k.plan = j /\ k.pc \notin {"free", "claim"}

BeforeSend == {"toUpstream", "begin", "request"}
Early(k) == k.pc \in BeforeSend \/ (k.pc = "publish" /\ k.next \in BeforeSend)

(* A record that was claimed, canceled or dropped: it is never queued again.  *)
Begun(r) == r.status \notin {"unborn", "queued"}

(* Only completed work has a result, so that writing a settled status once    *)
(* more changes nothing.                                                      *)
ResultOK(r) ==
  /\ r.status = "completed" => r.hasResult
  /\ r.hasResult => r.status \in {"completed", "evicted"}

(* Where a request can be with and without a job of its own.                  *)
Nexts == {"free", "toUpstream", "begin", "waiting", "persist", "finish"}
CallOK(k) ==
  /\ k.pc = "publish" => k.next \in Nexts
  /\ k.pc \in {"free", "cancelJob"} => k.plan = NoJob
  /\ k.pc = "claim" => k.plan \in Jobs /\ k.job = k.plan
  /\ k.plan = NoJob => k.pc \in {"free", "cancelJob", "publish"}
  /\ k.plan = NoJob /\ k.pc = "publish" => k.next = "free"

(* The inductive invariant. DispatchedOnce alone is not: a second request on  *)
(* the way to the provider would break it. A request that has claimed a job   *)
(* is the only one, and has not sent it before it is past Request.            *)
IInv ==
  /\ record \in [Jobs -> RecordType]
  /\ calls \in [Calls -> CallType]
  /\ sent \in [Jobs -> Nat]
  /\ \A c \in Calls : CallOK(calls[c])
  /\ \A j \in Jobs : ResultOK(record[j])
  /\ \A j \in Jobs : sent[j] <= 1 /\ (sent[j] = 1 => Begun(record[j]))
  /\ \A c \in Calls, j \in Jobs :
       Owns(calls[c], j) => Begun(record[j]) /\ (Early(calls[c]) => sent[j] = 0)
  /\ \A c, d \in Calls, j \in Jobs :
       Owns(calls[c], j) /\ Owns(calls[d], j) => c = d

(* What almost every step does to the records: none is queued again, and a    *)
(* settled one stays.                                                         *)
Kept(j) ==
  record[j].status \in Terminal => record'[j] = record[j] \/ record'[j].status = "evicted"

RecordsAdvance ==
  /\ record' \in [Jobs -> RecordType]
  /\ \A j \in Jobs : /\ ResultOK(record'[j])
                     /\ Begun(record[j]) => Begun(record'[j])
                     /\ Kept(j)

(* What almost every step does to the requests: none claims a job or gets     *)
(* ready to send one.                                                         *)
CallsAdvance ==
  /\ calls' \in [Calls -> CallType]
  /\ \A d \in Calls :
       /\ CallOK(calls'[d])
       /\ \A j \in Jobs : Owns(calls'[d], j) => Owns(calls[d], j)
       /\ Early(calls'[d]) => Early(calls[d])

-------------------------------------------------------------------------------
(* A step that advances records and requests and sends nothing keeps IInv.    *)
LEMMA AdvanceKeepsInv ==
  ASSUME IInv, RecordsAdvance, CallsAdvance, sent' = sent
  PROVE  IInv'
<1>1. record' \in [Jobs -> RecordType] /\ (\A j \in Jobs : ResultOK(record'[j]))
  BY DEF RecordsAdvance
<1>2. calls' \in [Calls -> CallType] /\ (\A c \in Calls : CallOK(calls'[c]))
  BY DEF CallsAdvance
<1>3. \A j \in Jobs : sent'[j] <= 1 /\ (sent'[j] = 1 => Begun(record'[j]))
  BY DEF IInv, RecordsAdvance
<1>4. ASSUME NEW c \in Calls, NEW j \in Jobs, Owns(calls'[c], j)
      PROVE  Begun(record'[j]) /\ (Early(calls'[c]) => sent'[j] = 0)
  BY <1>4 DEF IInv, RecordsAdvance, CallsAdvance
<1>5. ASSUME NEW c \in Calls, NEW d \in Calls, NEW j \in Jobs,
             Owns(calls'[c], j), Owns(calls'[d], j)
      PROVE  c = d
  BY <1>5 DEF IInv, CallsAdvance
<1>6. sent' \in [Jobs -> Nat]
  BY DEF IInv
<1> QED  BY <1>1, <1>2, <1>3, <1>4, <1>5, <1>6 DEF IInv

(* A request that returns, goes on, or goes on to publish.                    *)
LEMMA ReturnAdvances ==
  ASSUME IInv, NEW c \in Calls, Return(c)
  PROVE  CallsAdvance
<1> USE GoJobsAssumption
<1>1. Idle \in CallType
  BY DEF Idle, CallType, Keys, Pcs
<1>2. CallOK(Idle) /\ ~Early(Idle) /\ (\A j \in Jobs : ~Owns(Idle, j))
  BY DEF Idle, CallOK, Early, BeforeSend, Owns
<1>3. \A d \in Calls : calls'[d] = Idle \/ calls'[d] = calls[d]
  BY DEF Return, IInv
<1>4. calls' \in [Calls -> CallType]
  BY <1>1 DEF Return, IInv
<1> QED  BY <1>2, <1>3, <1>4 DEF CallsAdvance, IInv

LEMMA GotoAdvances ==
  ASSUME IInv, NEW c \in Calls, NEW pc \in Pcs \ {"free", "claim", "cancelJob", "publish"},
         calls[c].pc \notin {"free", "claim"}, calls[c].plan # NoJob,
         pc \in BeforeSend => Early(calls[c]),
         Goto(c, pc)
  PROVE  CallsAdvance
<1> DEFINE k == [calls[c] EXCEPT !.pc = pc]
<1>1. calls[c] \in CallType
  BY DEF IInv
<1>2. k \in CallType /\ k.pc = pc /\ k.plan = calls[c].plan
  BY <1>1 DEF CallType
<1>3. CallOK(k) /\ (Early(k) => Early(calls[c])) /\ (\A j \in Jobs : Owns(k, j) => Owns(calls[c], j))
  BY <1>2 DEF CallOK, Early, Owns
<1>4. calls' = [calls EXCEPT ![c] = k]
  BY DEF Goto
<1> HIDE DEF k
<1>5. calls' \in [Calls -> CallType] /\ (\A d \in Calls : calls'[d] = IF d = c THEN k ELSE calls[d])
  BY <1>2, <1>4 DEF IInv
<1> QED  BY <1>3, <1>5 DEF CallsAdvance, IInv

LEMMA PublishAdvances ==
  ASSUME IInv, NEW c \in Calls,
         NEW job \in Keys, NEW type \in Stored \cup {""}, NEW status \in Stored \cup {""},
         NEW next \in Nexts,
         calls[c].pc = "claim" => FALSE,
         calls[c].plan = NoJob => next = "free",
         next \in BeforeSend => Early(calls[c]),
         PublishNext(c, job, type, status, next)
  PROVE  CallsAdvance
<1> DEFINE k == [calls[c] EXCEPT !.pc = "publish", !.job = job,
                   !.type = type, !.status = status, !.next = next]
<1>1. calls[c] \in CallType /\ CallOK(calls[c])
  BY DEF IInv
<1>2. /\ k \in CallType
      /\ k.pc = "publish" /\ k.plan = calls[c].plan /\ k.next = next
  BY <1>1 DEF CallType, Pcs, Nexts
<1>3. \A j \in Jobs : Owns(k, j) => Owns(calls[c], j)
  BY <1>1, <1>2, GoJobsAssumption DEF CallOK, Owns
<1>4. CallOK(k) /\ (Early(k) => Early(calls[c]))
  BY <1>2 DEF CallOK, Early, BeforeSend
<1>5. calls' = [calls EXCEPT ![c] = k]
  BY DEF PublishNext
<1> HIDE DEF k
<1>6. calls' \in [Calls -> CallType] /\ (\A d \in Calls : calls'[d] = IF d = c THEN k ELSE calls[d])
  BY <1>2, <1>5 DEF IInv
<1> QED  BY <1>3, <1>4, <1>6 DEF CallsAdvance, IInv

-------------------------------------------------------------------------------
(* What the operations of the store do to the records.                        *)
LEMMA SameRecordsAdvance ==
  ASSUME IInv, UNCHANGED record
  PROVE  RecordsAdvance
BY DEF IInv, RecordsAdvance, Kept

LEMMA WriteAdvances ==
  ASSUME IInv, NEW j \in Jobs, NEW status \in Stored \ {"queued"}, NEW hasResult \in BOOLEAN,
         hasResult <=> status = "completed",
         record[j].status \in Terminal => status = record[j].status,
         WriteStatus(j, status, hasResult)
  PROVE  RecordsAdvance
<1> DEFINE r == [record[j] EXCEPT !.status = status, !.hasResult = hasResult]
<1>1. record[j] \in RecordType /\ ResultOK(record[j])
  BY DEF IInv
<1>2. r \in RecordType /\ ResultOK(r) /\ Begun(r)
  BY <1>1 DEF RecordType, Statuses, Stored, Active, InFlight, Terminal, ResultOK, Begun
<1>3. ASSUME record[j].status \in Terminal  PROVE  r = record[j]
  <2>1. status = record[j].status /\ hasResult = record[j].hasResult
    BY <1>1, <1>3 DEF ResultOK, Terminal, RecordType
  <2> QED  BY <1>1, <2>1 DEF RecordType
<1>4. record' = [record EXCEPT ![j] = r]
  BY DEF WriteStatus
<1> HIDE DEF r
<1>5. record' \in [Jobs -> RecordType]
      /\ (\A i \in Jobs : record'[i] = IF i = j THEN r ELSE record[i])
  BY <1>2, <1>4 DEF IInv
<1> QED  BY <1>2, <1>3, <1>5 DEF RecordsAdvance, Kept, IInv

LEMMA TransitionAdvances ==
  ASSUME IInv, NEW j \in Keys, NEW next \in {"upstream", "saving", "failed", "completed"},
         NEW hasResult \in BOOLEAN, hasResult <=> next = "completed",
         NEW outcome \in {"ok", "missing", "refused", "unwritten"},
         TransitionJob(j, next, hasResult, outcome)
  PROVE  RecordsAdvance
<1>1. CASE outcome # "ok"
  BY <1>1, SameRecordsAdvance DEF TransitionJob, WriteFails
<1>2. CASE outcome = "ok"
  <2>1. Found(j) /\ CanTransition(record[j].status, next) /\ WriteStatus(j, next, hasResult)
    BY <1>2 DEF TransitionJob
  <2>2. j \in Jobs
    BY <2>1 DEF Found
  <2>3. next \in Stored \ {"queued"}
    BY DEF Stored, Active, InFlight, Terminal
  <2>4. record[j].status \in Terminal => next = record[j].status
    BY <2>1 DEF CanTransition, Terminal, InFlight, Active
  <2> QED  BY <2>1, <2>2, <2>3, <2>4, WriteAdvances
<1> QED  BY <1>1, <1>2

LEMMA PrependAdvances ==
  ASSUME IInv, NEW j \in Jobs, NEW new \in RecordType, record[j].status = "unborn",
         new.status = "queued", ~new.hasResult, Prepend(j, new)
  PROVE  RecordsAdvance
<1> DEFINE isKept(k) == \E i \in DOMAIN Prepended(j) : Prepended(j)[i] = k
           r(k) == IF k = j THEN new
                   ELSE IF Found(k) /\ ~isKept(k) THEN [record[k] EXCEPT !.status = "evicted"]
                   ELSE record[k]
<1>1. record' = [k \in Jobs |-> r(k)]
  BY DEF Prepend
<1> HIDE DEF isKept
<1>2. ASSUME NEW k \in Jobs
      PROVE  /\ r(k) \in RecordType
             /\ ResultOK(r(k))
             /\ Begun(record[k]) => Begun(r(k))
             /\ record[k].status \in Terminal => r(k) = record[k] \/ r(k).status = "evicted"
  <2>1. record[k] \in RecordType /\ ResultOK(record[k])
    BY DEF IInv
  <2>2. CASE k = j
    BY <2>2 DEF ResultOK, Begun, Terminal
  <2>3. CASE k # j /\ Found(k) /\ ~isKept(k)
    BY <2>1, <2>3 DEF RecordType, Statuses, ResultOK, Begun
  <2>4. CASE k # j /\ ~(Found(k) /\ ~isKept(k))
    BY <2>1, <2>4
  <2> QED  BY <2>2, <2>3, <2>4
<1> HIDE DEF r
<1> QED  BY <1>1, <1>2 DEF RecordsAdvance, Kept

-------------------------------------------------------------------------------
(* A step of the server or a restart keeps the invariant and settled records. *)
Good == IInv' /\ \A j \in Jobs : Kept(j)

LEMMA AdvanceIsGood ==
  ASSUME IInv, RecordsAdvance, CallsAdvance, sent' = sent
  PROVE  Good
BY AdvanceKeepsInv DEF Good, RecordsAdvance

(* The requests that submit, retry and cancel never own a job.                *)
LEMMA CreateGood ==
  ASSUME IInv, NEW c \in Calls, NEW j \in Jobs, CreateJob(c, j)
  PROVE  Good
<1>1. PICK mode \in Modes, fingerprint \in Fingerprints :
        Prepend(j, [Unborn EXCEPT !.status = "queued", !.mode = mode,
                                  !.fingerprint = fingerprint])
  BY DEF CreateJob
<1> DEFINE new == [Unborn EXCEPT !.status = "queued", !.mode = mode,
                                 !.fingerprint = fingerprint]
<1>2. new \in RecordType /\ new.status = "queued" /\ ~new.hasResult
  BY GoJobsAssumption DEF Unborn, RecordType, Statuses, Stored, Active, Keys
<1>3. RecordsAdvance
  <2>1. Prepend(j, new) /\ record[j].status = "unborn"
    BY <1>1 DEF CreateJob
  <2> HIDE DEF new
  <2> QED  BY <1>2, <2>1, PrependAdvances
<1>4. CallsAdvance
  <2>1. calls[c].pc = "free" /\ PublishNext(c, j, "queued", "queued", "free")
    BY DEF CreateJob, Arrive, At
  <2> QED  BY <2>1, PublishAdvances DEF Keys, Stored, Active, Nexts, BeforeSend
<1> QED  BY <1>3, <1>4, AdvanceIsGood DEF CreateJob

LEMMA RetryGood ==
  ASSUME IInv, NEW c \in Calls, NEW j \in Jobs, NEW k \in Jobs, RetryJob(c, j, k)
  PROVE  Good
<1> DEFINE new == [Unborn EXCEPT !.status = "queued", !.mode = record[j].mode,
                                 !.fingerprint = record[j].fingerprint, !.retryOf = j]
<1>1. record[j] \in RecordType
  BY DEF IInv
<1>2. new \in RecordType /\ new.status = "queued" /\ ~new.hasResult
  BY <1>1 DEF Unborn, RecordType, Statuses, Stored, Active, Keys
<1>3. RecordsAdvance
  <2>1. Prepend(k, new) /\ record[k].status = "unborn"
    BY DEF RetryJob
  <2> HIDE DEF new
  <2> QED  BY <1>2, <2>1, PrependAdvances
<1>4. CallsAdvance
  <2>1. calls[c].pc = "free" /\ PublishNext(c, k, "queued", "queued", "free")
    BY DEF RetryJob, Arrive, At
  <2> QED  BY <2>1, PublishAdvances DEF Keys, Stored, Active, Nexts, BeforeSend
<1> QED  BY <1>3, <1>4, AdvanceIsGood DEF RetryJob

LEMMA CancelExecutionGood ==
  ASSUME IInv, NEW c \in Calls, NEW j \in Jobs, CancelExecution(c, j)
  PROVE  Good
<1> DEFINE k(d) == IF d = c THEN [calls[d] EXCEPT !.pc = "cancelJob", !.job = j]
                   ELSE IF d = executionCancels[j] THEN [calls[d] EXCEPT !.canceled = TRUE]
                   ELSE calls[d]
<1>1. calls' = [d \in Calls |-> k(d)] /\ calls[c].pc = "free"
  BY DEF CancelExecution, Arrive, At
<1>2. ASSUME NEW d \in Calls
      PROVE  /\ k(d) \in CallType /\ CallOK(k(d))
             /\ \A i \in Jobs : Owns(k(d), i) => Owns(calls[d], i)
             /\ Early(k(d)) => Early(calls[d])
  <2>1. calls[d] \in CallType /\ CallOK(calls[d])
    BY DEF IInv
  <2>2. CASE d = c
    <3>1. calls[d].pc = "free" /\ calls[d].plan = NoJob
      BY <1>1, <2>1, <2>2 DEF CallOK
    <3>2. k(d) = [calls[d] EXCEPT !.pc = "cancelJob", !.job = j]
      BY <2>2
    <3> HIDE DEF k
    <3>3. k(d) \in CallType /\ k(d).pc = "cancelJob" /\ k(d).plan = NoJob
      BY <2>1, <3>1, <3>2 DEF CallType, Pcs, Keys
    <3> QED  BY <3>1, <3>3, GoJobsAssumption DEF CallOK, Owns, Early, BeforeSend
  <2>3. CASE d # c
    <3>1. /\ k(d) \in CallType /\ k(d).pc = calls[d].pc /\ k(d).plan = calls[d].plan
          /\ k(d).next = calls[d].next /\ k(d).job = calls[d].job
      BY <2>1, <2>3 DEF CallType
    <3> QED  BY <2>1, <3>1 DEF CallOK, Owns, Early
  <2> QED  BY <2>2, <2>3
<1> HIDE DEF k
<1>3. CallsAdvance
  BY <1>1, <1>2 DEF CallsAdvance
<1> QED  BY <1>3, SameRecordsAdvance, AdvanceIsGood DEF CancelExecution

LEMMA CancelJobGood ==
  ASSUME IInv, NEW c \in Calls, CancelJob(c)
  PROVE  Good
<1> DEFINE j == calls[c].job
           status == IF record[j].status \in Active THEN "canceled" ELSE record[j].status
<1>1. calls[c].pc = "cancelJob" /\ calls[c] \in CallType /\ CallOK(calls[c]) /\ sent' = sent
  BY DEF CancelJob, At, IInv
<1>2. CASE Return(c) /\ UNCHANGED record
  BY <1>1, <1>2, ReturnAdvances, SameRecordsAdvance, AdvanceIsGood
<1>3. CASE /\ Found(j)
           /\ WriteStatus(j, status, record[j].hasResult)
           /\ PublishNext(c, j, "canceled", status, "free")
  <2>1. j \in Jobs /\ record[j] \in RecordType /\ ResultOK(record[j]) /\ record[j].status \in Stored
    BY <1>3 DEF Found, IInv
  <2>2. /\ status \in Stored \ {"queued"}
        /\ record[j].hasResult \in BOOLEAN
        /\ record[j].hasResult <=> status = "completed"
        /\ record[j].status \in Terminal => status = record[j].status
    BY <2>1 DEF Stored, Active, InFlight, Terminal, ResultOK, RecordType
  <2> HIDE DEF status
  <2>3. RecordsAdvance
    BY <1>3, <2>1, <2>2, WriteAdvances
  <2>4. CallsAdvance
    BY <1>1, <1>3, <2>1, <2>2, PublishAdvances DEF Keys, Stored, Active, Terminal, Nexts, BeforeSend
  <2> QED  BY <1>1, <2>3, <2>4, AdvanceIsGood
<1> QED  BY <1>2, <1>3 DEF CancelJob, WriteFails

(* An execution. It owns its job from ClaimJob on.                            *)
LEMMA HasPlan ==
  ASSUME IInv, NEW c \in Calls, calls[c].pc \notin {"free", "cancelJob", "publish"}
  PROVE  calls[c] \in CallType /\ calls[c].plan \in Jobs /\ calls[c].job \in Keys
BY GoJobsAssumption DEF IInv, CallOK, CallType, Keys

LEMMA ExecuteGood ==
  ASSUME IInv, NEW c \in Calls, NEW j \in Jobs, Execute(c, j)
  PROVE  Good
<1> DEFINE k == [calls[c] EXCEPT !.pc = "claim", !.plan = j, !.job = j]
<1>1. calls[c] \in CallType /\ calls[c].pc = "free" /\ calls' = [calls EXCEPT ![c] = k]
  BY DEF IInv, Execute, Arrive, At
<1>2. k \in CallType /\ k.pc = "claim" /\ k.plan = j /\ k.job = j
  BY <1>1 DEF CallType, Pcs, Keys
<1> HIDE DEF k
<1>3. CallOK(k) /\ ~Early(k) /\ (\A i \in Jobs : ~Owns(k, i))
  BY <1>2, GoJobsAssumption DEF CallOK, Early, BeforeSend, Owns
<1>4. calls' \in [Calls -> CallType] /\ (\A d \in Calls : calls'[d] = IF d = c THEN k ELSE calls[d])
  BY <1>1, <1>2 DEF IInv
<1>5. CallsAdvance
  BY <1>3, <1>4 DEF CallsAdvance, IInv
<1> QED  BY <1>5, SameRecordsAdvance, AdvanceIsGood DEF Execute

(* The claim finds the job queued, so that nobody owns it and nothing was     *)
(* sent, and leaves it claimed.                                               *)
LEMMA ClaimGood ==
  ASSUME IInv, NEW c \in Calls, ClaimJob(c)
  PROVE  Good
<1> DEFINE j == calls[c].job
<1>1. calls[c].pc = "claim" /\ calls[c] \in CallType /\ CallOK(calls[c]) /\ sent' = sent
  BY DEF ClaimJob, At, IInv
<1>2. j \in Jobs /\ calls[c].plan = j
  BY <1>1 DEF CallOK
<1>3. CASE Return(c) /\ UNCHANGED record
  BY <1>1, <1>3, ReturnAdvances, SameRecordsAdvance, AdvanceIsGood
<1>4. CASE /\ Claimable(j)
           /\ WriteStatus(j, "dispatching", record[j].hasResult)
           /\ PublishNext(c, j, "dispatching", "dispatching", "toUpstream")
  <2>1. record[j] \in RecordType /\ record[j].status = "queued" /\ ~record[j].hasResult
    BY <1>2, <1>4 DEF Claimable, IInv, ResultOK
  <2>2. RecordsAdvance
    <3>1. "dispatching" \in Stored \ {"queued"} /\ record[j].hasResult \in BOOLEAN
      BY <2>1 DEF Stored, Active, InFlight, RecordType
    <3>2. record[j].status \notin Terminal
      BY <2>1 DEF Terminal
    <3> QED  BY <1>2, <1>4, <2>1, <3>1, <3>2, WriteAdvances
  <2>3. sent[j] = 0 /\ (\A d \in Calls : ~Owns(calls[d], j))
    BY <1>2, <2>1 DEF IInv, Begun
  <2>4. Begun(record'[j])
    BY <1>2, <1>4, <2>1 DEF WriteStatus, Begun, IInv, RecordType
  <2> DEFINE k == [calls[c] EXCEPT !.pc = "publish", !.job = j, !.type = "dispatching",
                     !.status = "dispatching", !.next = "toUpstream"]
  <2>5. calls' = [calls EXCEPT ![c] = k]
    BY <1>4 DEF PublishNext
  <2>6. /\ k \in CallType
        /\ k.pc = "publish" /\ k.next = "toUpstream" /\ k.plan = j
    BY <1>1, <1>2 DEF CallType, Pcs, Keys, Stored, Active, InFlight
  <2> HIDE DEF k
  <2>7. calls' \in [Calls -> CallType] /\ (\A d \in Calls : calls'[d] = IF d = c THEN k ELSE calls[d])
    BY <2>5, <2>6 DEF IInv
  <2>8. \A d \in Calls : CallOK(calls'[d])
    BY <1>2, <2>6, <2>7, GoJobsAssumption DEF IInv, CallOK, Nexts
  <2>9. \A i \in Jobs : Owns(k, i) => i = j
    BY <2>6 DEF Owns
  <2>10. ASSUME NEW d \in Calls, NEW i \in Jobs, Owns(calls'[d], i)
         PROVE  Begun(record'[i]) /\ (Early(calls'[d]) => sent'[i] = 0)
    <3>1. CASE d = c
      BY <1>1, <2>3, <2>4, <2>7, <2>9, <2>10, <3>1
    <3>2. CASE d # c
      BY <1>1, <2>2, <2>7, <2>10, <3>2 DEF IInv, RecordsAdvance
    <3> QED  BY <3>1, <3>2
  <2>11. ASSUME NEW d \in Calls, NEW e \in Calls, NEW i \in Jobs,
                Owns(calls'[d], i), Owns(calls'[e], i)
         PROVE  d = e
    <3>1. CASE i = j
      BY <2>3, <2>7, <2>11, <3>1
    <3>2. CASE i # j
      BY <2>7, <2>9, <2>11, <3>2 DEF IInv
    <3> QED  BY <3>1, <3>2
  <2>12. \A i \in Jobs : sent'[i] <= 1 /\ (sent'[i] = 1 => Begun(record'[i]))
    BY <1>1, <2>2 DEF IInv, RecordsAdvance
  <2>13. /\ record' \in [Jobs -> RecordType] /\ sent' \in [Jobs -> Nat]
         /\ \A i \in Jobs : ResultOK(record'[i]) /\ Kept(i)
    BY <1>1, <2>2 DEF IInv, RecordsAdvance
  <2> QED  BY <2>7, <2>8, <2>10, <2>11, <2>12, <2>13 DEF Good, IInv
<1> QED  BY <1>3, <1>4 DEF ClaimJob, WriteFails

(* The one step that sends: nobody else owns the job.                         *)
LEMMA RequestGood ==
  ASSUME IInv, NEW c \in Calls, Request(c)
  PROVE  Good
<1> DEFINE j == calls[c].plan
<1>1. calls[c].pc = "request" /\ calls[c] \in CallType /\ j \in Jobs /\ UNCHANGED record
  BY HasPlan DEF Request, At
<1>2. RecordsAdvance
  BY <1>1, SameRecordsAdvance
<1>3. ASSUME NEW pc \in {"waiting", "failing"}, Goto(c, pc)
      PROVE  CallsAdvance
  BY <1>1, <1>3, GotoAdvances, GoJobsAssumption DEF Pcs, BeforeSend
<1>4. CASE Goto(c, "failing") /\ UNCHANGED sent
  BY <1>2, <1>3, <1>4, AdvanceIsGood
<1>5. CASE sent' = [sent EXCEPT ![j] = @ + 1] /\ Goto(c, "waiting")
  <2>1. CallsAdvance
    BY <1>3, <1>5
  <2>2. Owns(calls[c], j) /\ Early(calls[c]) /\ Owns(calls[c], j)
    BY <1>1 DEF Owns, Early, BeforeSend
  <2>3. sent[j] = 0 /\ Begun(record[j])
    BY <1>1, <2>2 DEF IInv
  <2>4. /\ sent' \in [Jobs -> Nat]
        /\ \A i \in Jobs : sent'[i] = IF i = j THEN 1 ELSE sent[i]
    BY <1>1, <1>5, <2>3 DEF IInv
  <2>5. ~Early(calls'[c])
    BY <1>1, <1>5 DEF Goto, IInv, CallType, Early, BeforeSend
  <2>6. ASSUME NEW d \in Calls, NEW i \in Jobs, Owns(calls'[d], i)
        PROVE  Begun(record'[i]) /\ (Early(calls'[d]) => sent'[i] = 0)
    <3>1. Owns(calls[d], i) /\ (Early(calls'[d]) => Early(calls[d]))
      BY <2>1, <2>6 DEF CallsAdvance
    <3>2. CASE i = j
      <4>1. d = c
        BY <1>1, <2>2, <3>1, <3>2 DEF IInv
      <4> QED  BY <1>1, <2>3, <2>5, <3>2, <4>1
    <3>3. CASE i # j
      BY <1>1, <2>4, <3>1, <3>3 DEF IInv
    <3> QED  BY <3>2, <3>3
  <2>7. \A d, e \in Calls, i \in Jobs : Owns(calls'[d], i) /\ Owns(calls'[e], i) => d = e
    BY <2>1 DEF CallsAdvance, IInv
  <2>8. \A i \in Jobs : sent'[i] <= 1 /\ (sent'[i] = 1 => Begun(record'[i]))
    BY <1>1, <2>3, <2>4 DEF IInv
  <2>9. calls' \in [Calls -> CallType] /\ (\A d \in Calls : CallOK(calls'[d]))
    BY <2>1 DEF CallsAdvance
  <2>10. /\ record' \in [Jobs -> RecordType]
         /\ \A i \in Jobs : ResultOK(record'[i]) /\ Kept(i)
    BY <1>2 DEF RecordsAdvance
  <2> QED  BY <2>4, <2>6, <2>7, <2>8, <2>9, <2>10 DEF Good, IInv
<1> QED  BY <1>4, <1>5 DEF Request

(* A request that owns its job and goes on, without a change of the records   *)
(* or with a transition.                                                      *)
Running == {"toUpstream", "begin", "waiting", "progress", "failing", "toFailed",
            "toSaving", "persist", "toSaveFailed", "toCompleted", "finish"}

LEMMA GotoGood ==
  ASSUME IInv, NEW c \in Calls, calls[c].pc \in Running,
         RecordsAdvance, sent' = sent,
         NEW pc \in Running, pc \in BeforeSend => calls[c].pc \in BeforeSend,
         Goto(c, pc)
  PROVE  Good
<1>1. calls[c].plan \in Jobs
  BY HasPlan DEF Running
<1>2. CallsAdvance
  BY <1>1, GotoAdvances, GoJobsAssumption DEF Running, Pcs, Early
<1> QED  BY <1>2, AdvanceIsGood

LEMMA ReturnGood ==
  ASSUME IInv, NEW c \in Calls, RecordsAdvance, sent' = sent, Return(c)
  PROVE  Good
BY ReturnAdvances, AdvanceIsGood

LEMMA PublishNextGood ==
  ASSUME IInv, NEW c \in Calls, calls[c].pc \in Running,
         RecordsAdvance, sent' = sent,
         NEW job \in Keys, NEW type \in Stored, NEW status \in Stored \cup {""},
         NEW next \in Nexts, next \in BeforeSend => calls[c].pc \in BeforeSend,
         PublishNext(c, job, type, status, next)
  PROVE  Good
<1>1. calls[c].plan \in Jobs
  BY HasPlan DEF Running
<1>2. CallsAdvance
  BY <1>1, PublishAdvances, GoJobsAssumption DEF Running, Early
<1> QED  BY <1>2, AdvanceIsGood

LEMMA PublishGood ==
  ASSUME IInv, NEW c \in Calls, Publish(c)
  PROVE  Good
<1>1. /\ calls[c].pc = "publish" /\ CallOK(calls[c]) /\ calls[c].next \in Nexts
      /\ UNCHANGED record /\ sent' = sent
  BY DEF Publish, At, IInv, CallOK
<1>2. RecordsAdvance
  BY <1>1, SameRecordsAdvance
<1>3. CASE Return(c)
  BY <1>1, <1>2, <1>3, ReturnGood
<1>4. CASE calls[c].next # "free" /\ Goto(c, calls[c].next)
  <2>1. calls[c].plan # NoJob
    BY <1>1, <1>4 DEF CallOK
  <2>2. calls[c].next \in Pcs \ {"free", "claim", "cancelJob", "publish"}
    BY <1>1, <1>4 DEF Nexts, Pcs
  <2>3. CallsAdvance
    BY <1>1, <1>4, <2>1, <2>2, GotoAdvances DEF Early
  <2> QED  BY <1>1, <1>2, <2>3, AdvanceIsGood
<1> QED  BY <1>1, <1>3, <1>4 DEF Publish

LEMMA LookGood ==
  ASSUME IInv, NEW c \in Calls, Answer(c) \/ Failing(c) \/ Persist(c)
  PROVE  Good
<1>1. /\ calls[c].pc \in Running /\ UNCHANGED record /\ sent' = sent
      /\ \E pc \in Running \ BeforeSend : Goto(c, pc)
  BY DEF Answer, Failing, Persist, At, Running, BeforeSend
<1>2. RecordsAdvance
  BY <1>1, SameRecordsAdvance
<1> QED  BY <1>1, <1>2, GotoGood

LEMMA BeginGood ==
  ASSUME IInv, NEW c \in Calls, Begin(c)
  PROVE  Good
<1> DEFINE key == calls[c].job
           k == [calls[c] EXCEPT !.pc = "request", !.key = key]
<1>1. /\ calls[c].pc = "begin" /\ calls[c] \in CallType /\ calls[c].plan \in Jobs
      /\ CallOK(calls[c]) /\ key \in Keys
      /\ UNCHANGED record /\ sent' = sent /\ calls' = [calls EXCEPT ![c] = k]
  BY HasPlan DEF Begin, At, IInv
<1>2. /\ k \in CallType
      /\ k.pc = "request" /\ k.plan = calls[c].plan
  BY <1>1 DEF CallType, Pcs
<1> HIDE DEF k
<1>3. CallOK(k) /\ Early(calls[c]) /\ (\A i \in Jobs : Owns(k, i) => Owns(calls[c], i))
  BY <1>1, <1>2, GoJobsAssumption DEF CallOK, Early, BeforeSend, Owns
<1>4. calls' \in [Calls -> CallType] /\ (\A d \in Calls : calls'[d] = IF d = c THEN k ELSE calls[d])
  BY <1>1, <1>2 DEF IInv
<1>5. CallsAdvance
  BY <1>3, <1>4 DEF CallsAdvance, IInv
<1> QED  BY <1>1, <1>5, SameRecordsAdvance, AdvanceIsGood

LEMMA ProgressGood ==
  ASSUME IInv, NEW c \in Calls, Progress(c)
  PROVE  Good
<1> DEFINE j == calls[c].job
<1>1. calls[c].pc = "progress" /\ UNCHANGED record /\ sent' = sent
  BY DEF Progress, At
<1>2. RecordsAdvance
  BY <1>1, SameRecordsAdvance
<1>3. CASE Goto(c, "waiting")
  BY <1>1, <1>2, <1>3, GotoGood DEF Running, BeforeSend
<1>4. CASE Found(j) /\ PublishNext(c, j, "upstream", record[j].status, "waiting")
  <2>1. j \in Keys /\ record[j].status \in Stored \cup {""} /\ "upstream" \in Stored
    BY <1>4 DEF Found, Keys, Stored, Active, InFlight
  <2>2. "waiting" \in Nexts /\ "waiting" \notin BeforeSend /\ calls[c].pc \in Running
    BY <1>1 DEF Nexts, BeforeSend, Running
  <2> QED  BY <1>1, <1>2, <1>4, <2>1, <2>2, PublishNextGood
<1> QED  BY <1>3, <1>4 DEF Progress

LEMMA FinishGood ==
  ASSUME IInv, NEW c \in Calls, Finish(c)
  PROVE  Good
<1>1. RecordsAdvance
  BY SameRecordsAdvance DEF Finish
<1> QED  BY <1>1, ReturnGood DEF Finish

(* The transitions of an execution.                                           *)
LEMMA TransitionGood ==
  ASSUME IInv, NEW c \in Calls,
         ToUpstream(c) \/ ToFailed(c) \/ ToSaving(c) \/ ToSaveFailed(c) \/ ToCompleted(c)
  PROVE  Good
<1> DEFINE j == calls[c].job
           Outcomes == {"ok", "missing", "refused", "unwritten"}
<1>1. calls[c].pc \in Running /\ j \in Keys /\ NoJob \in Keys /\ sent' = sent
  BY HasPlan DEF ToUpstream, ToFailed, ToSaving, ToSaveFailed, ToCompleted, At, Running, Keys
<1>2. RecordsAdvance
  <2>1. \E next \in {"upstream", "saving", "failed", "completed"}, outcome \in Outcomes :
          \E hasResult \in BOOLEAN :
            /\ hasResult <=> next = "completed"
            /\ TransitionJob(j, next, hasResult, outcome)
    <3>1. CASE ToUpstream(c)
      <4>1. PICK outcome \in Outcomes : TransitionJob(j, "upstream", FALSE, outcome)
        BY <3>1 DEF ToUpstream
      <4> QED  BY <4>1
    <3>2. CASE ToFailed(c) \/ ToSaveFailed(c)
      <4>1. PICK outcome \in Outcomes : TransitionJob(j, "failed", FALSE, outcome)
        BY <3>2 DEF ToFailed, ToSaveFailed
      <4> QED  BY <4>1
    <3>3. CASE ToSaving(c)
      <4>1. PICK outcome \in Outcomes : TransitionJob(j, "saving", FALSE, outcome)
        BY <3>3 DEF ToSaving
      <4> QED  BY <4>1
    <3>4. CASE ToCompleted(c)
      <4>1. PICK outcome \in Outcomes : TransitionJob(j, "completed", TRUE, outcome)
        BY <3>4 DEF ToCompleted
      <4> QED  BY <4>1
    <3> QED  BY <3>1, <3>2, <3>3, <3>4
  <2> QED  BY <1>1, <2>1, TransitionAdvances
<1>3. \/ Return(c)
      \/ Goto(c, "finish")
      \/ \E job \in {j, NoJob}, status \in Stored \cup {""} :
           \/ calls[c].pc = "toUpstream" /\ PublishNext(c, job, "upstream", status, "begin")
           \/ \E type \in Stored, next \in {"persist", "finish"} :
                PublishNext(c, job, type, status, next)
  <2>1. {"upstream", "saving", "failed", "completed", ""} \subseteq Stored \cup {""}
    BY DEF Stored, Active, InFlight, Terminal
  <2>2. CASE ToUpstream(c)
    BY <2>1, <2>2 DEF ToUpstream, At
  <2>3. CASE ToFailed(c)
    BY <2>1, <2>3 DEF ToFailed
  <2>4. CASE ToSaving(c)
    BY <2>1, <2>4 DEF ToSaving
  <2>5. CASE ToSaveFailed(c)
    BY <2>1, <2>5 DEF ToSaveFailed
  <2>6. CASE ToCompleted(c)
    BY <2>1, <2>6 DEF ToCompleted
  <2> QED  BY <2>2, <2>3, <2>4, <2>5, <2>6
<1>4. CASE Return(c)
  BY <1>1, <1>2, <1>4, ReturnGood
<1>5. CASE Goto(c, "finish")
  BY <1>1, <1>2, <1>5, GotoGood DEF Running, BeforeSend
<1>6. CASE \E job \in {j, NoJob}, status \in Stored \cup {""} :
             calls[c].pc = "toUpstream" /\ PublishNext(c, job, "upstream", status, "begin")
  <2>1. "upstream" \in Stored /\ "begin" \in Nexts /\ "toUpstream" \in BeforeSend
    BY DEF Stored, Active, InFlight, Nexts, BeforeSend
  <2> QED  BY <1>1, <1>2, <1>6, <2>1, PublishNextGood
<1>7. CASE \E job \in {j, NoJob}, status \in Stored \cup {""} :
             \E type \in Stored, next \in {"persist", "finish"} :
               PublishNext(c, job, type, status, next)
  <2>1. {"persist", "finish"} \subseteq Nexts \ BeforeSend
    BY DEF Nexts, BeforeSend
  <2> QED  BY <1>1, <1>2, <1>7, <2>1, PublishNextGood
<1> QED  BY <1>3, <1>4, <1>5, <1>6, <1>7

(* Recovery only fails what was in flight.                                    *)
LEMMA RestartGood ==
  ASSUME IInv, Restart
  PROVE  Good
<1> DEFINE r(j) == [record[j] EXCEPT !.status = Recovered(@)]
<1>1. record' = [j \in Jobs |-> r(j)] /\ calls' = [c \in Calls |-> Idle] /\ sent' = sent
  BY DEF Restart
<1>2. ASSUME NEW j \in Jobs
      PROVE  /\ r(j) \in RecordType /\ ResultOK(r(j))
             /\ Begun(record[j]) => Begun(r(j))
             /\ record[j].status \in Terminal => r(j) = record[j]
  <2>1. record[j] \in RecordType /\ ResultOK(record[j])
    BY DEF IInv
  <2>2. CASE record[j].status \in InFlight
    BY <2>1, <2>2 DEF Recovered, RecordType, Statuses, Stored, Active, InFlight, Terminal,
                      ResultOK, Begun
  <2>3. CASE record[j].status \notin InFlight
    <3>1. r(j) = record[j]
      BY <2>1, <2>3 DEF Recovered, RecordType
    <3> QED  BY <2>1, <3>1
  <2> QED  BY <2>2, <2>3
<1> HIDE DEF r
<1>3. RecordsAdvance
  BY <1>1, <1>2 DEF RecordsAdvance, Kept
<1>4. Idle \in CallType /\ CallOK(Idle) /\ ~Early(Idle) /\ (\A j \in Jobs : ~Owns(Idle, j))
  BY GoJobsAssumption DEF Idle, CallType, Keys, Pcs, CallOK, Early, BeforeSend, Owns
<1>5. CallsAdvance
  BY <1>1, <1>4 DEF CallsAdvance
<1> QED  BY <1>1, <1>3, <1>5, AdvanceIsGood

LEMMA InitGood == Init => IInv
<1> SUFFICES ASSUME Init  PROVE  IInv
  OBVIOUS
<1>1. Unborn \in RecordType /\ ResultOK(Unborn)
  BY DEF Unborn, RecordType, Statuses, Keys, ResultOK
<1>2. Idle \in CallType /\ CallOK(Idle) /\ (\A j \in Jobs : ~Owns(Idle, j))
  BY GoJobsAssumption DEF Idle, CallType, Keys, Pcs, CallOK, Owns
<1>3. /\ record \in [Jobs -> RecordType] /\ (\A j \in Jobs : ResultOK(record[j]))
      /\ calls \in [Calls -> CallType]
      /\ \A c \in Calls : CallOK(calls[c]) /\ (\A j \in Jobs : ~Owns(calls[c], j))
  BY <1>1, <1>2 DEF Init
<1>4. sent \in [Jobs -> Nat] /\ (\A j \in Jobs : sent[j] = 0)
  BY DEF Init
<1> QED  BY <1>3, <1>4 DEF IInv

LEMMA NextGood ==
  ASSUME IInv, [Next]_vars
  PROVE  Good
<1>1. CASE UNCHANGED vars
  BY <1>1 DEF vars, Good, IInv, Kept
<1>2. ASSUME NEW c \in Calls, Step(c)
      PROVE  Good
  BY <1>2, PublishGood, CancelJobGood, ClaimGood, BeginGood, RequestGood, LookGood,
     ProgressGood, TransitionGood, FinishGood DEF Step
<1>3. ASSUME NEW c \in Calls, NEW j \in Jobs,
             CreateJob(c, j) \/ CancelExecution(c, j) \/ Execute(c, j)
      PROVE  Good
  BY <1>3, CreateGood, CancelExecutionGood, ExecuteGood
<1>4. ASSUME NEW c \in Calls, NEW j \in Jobs, NEW k \in Jobs, RetryJob(c, j, k)
      PROVE  Good
  BY <1>4, RetryGood
<1>5. CASE Restart
  BY <1>5, RestartGood
<1> QED  BY <1>1, <1>2, <1>3, <1>4, <1>5 DEF Next, Serve

-------------------------------------------------------------------------------
(* The inductive invariant holds in every state of the Go server.             *)
THEOREM Invariant == Spec => []IInv
<1>1. IInv /\ [Next]_vars => IInv'
  BY NextGood DEF Good
<1> QED  BY InitGood, <1>1, PTL DEF Spec

(* A job reaches the provider at most once, for any number of requests that   *)
(* execute it, retries, cancels, restarts, failed writes and dropped records. *)
THEOREM SentOnce == Spec => []DispatchedOnce
<1>1. IInv => DispatchedOnce
  BY DEF IInv, DispatchedOnce
<1> QED  BY Invariant, <1>1, PTL

(* A settled record is never changed again, by any answer, cancel, transition *)
(* or recovery that comes late; it can only drop off the end of the file.     *)
THEOREM SettledStays == Spec => TerminalFinal
<1>1. IInv /\ [Next]_vars =>
        [\A j \in Jobs : record[j].status \in Terminal =>
           record'[j] = record[j] \/ record'[j].status = "evicted"]_vars
  BY NextGood DEF Good, Kept
<1> QED  BY Invariant, <1>1, PTL DEF Spec, TerminalFinal


-------------------------------------------------------------------------------
(* Where a request that has claimed a job is, and what the record of that job *)
(* may be meanwhile: nobody but its request moves a record on, but it may     *)
(* settle at any time. Headed is the place itself or the one after an event.  *)
Settled == Terminal \cup {"evicted"}
Working == {"begin", "request", "waiting", "progress", "failing", "toFailed",
            "toSaving", "persist", "toSaveFailed", "toCompleted"}
Headed(k, pcs) == k.pc \in pcs \/ (k.pc = "publish" /\ k.next \in pcs)

StageOK(k, status, failed) ==
  /\ k.pc = "publish" => k.next # "free"
  /\ Headed(k, {"toUpstream"}) => k.job = k.plan /\ status \in {"dispatching"} \cup Settled
  /\ Headed(k, Working) => /\ k.job \in {k.plan, NoJob}
                           /\ status \in {"upstream", "saving"} \cup Settled
                           /\ k.job = NoJob => status \in Settled
  /\ Headed(k, {"finish"}) /\ failed = 0 => status \in Settled

StagesOK ==
  \A c \in Calls, j \in Jobs : Owns(calls[c], j) => StageOK(calls[c], record[j].status, failures)

(* The cancel function of an execution is in the table under its job.         *)
KeysOK ==
  /\ executionCancels \in [Keys -> Calls \cup {NoCall}]
  /\ \A c \in Calls :
       Headed(calls[c], Executing) /\ calls[c].key # NoJob
         => calls[c].key = calls[c].plan /\ executionCancels[calls[c].key] = c

JInv == failures \in Nat /\ StagesOK /\ InFlightHasRunner

(* What a step of one request does: the other requests stay where they are,   *)
(* the records settle or stay but for the one of the request, which does not  *)
(* leave it in flight.                                                        *)
Alike(k, l) ==
  /\ k.pc = l.pc /\ k.plan = l.plan /\ k.job = l.job /\ k.key = l.key /\ k.next = l.next
OthersAlike(c) == \A d \in Calls \ {c} : Alike(calls'[d], calls[d])

Move(c) ==
  /\ OthersAlike(c)
  /\ failures' \in Nat /\ (failures' = 0 => failures = 0)
  /\ \A j \in Jobs :
       /\ \/ record'[j].status \in {record[j].status, "queued"} \cup Settled
          \/ Owns(calls'[c], j)
       /\ Owns(calls'[c], j) => StageOK(calls'[c], record'[j].status, failures')
       /\ Owns(calls[c], j) /\ ~Owns(calls'[c], j) /\ failures' = 0
            => record'[j].status \notin InFlight

LEMMA MoveKeeps ==
  ASSUME IInv, IInv', JInv, NEW c \in Calls, Move(c)
  PROVE  JInv'
<1>1. ASSUME NEW d \in Calls \ {c}
      PROVE  /\ \A j : Owns(calls'[d], j) <=> Owns(calls[d], j)
             /\ \A pcs : Headed(calls'[d], pcs) <=> Headed(calls[d], pcs)
             /\ calls'[d].job = calls[d].job /\ calls'[d].plan = calls[d].plan
             /\ calls'[d].pc = calls[d].pc /\ calls'[d].next = calls[d].next
  BY DEF Move, OthersAlike, Alike, Owns, Headed
<1>2. StagesOK'
  <2> SUFFICES ASSUME NEW d \in Calls, NEW j \in Jobs, Owns(calls'[d], j)
               PROVE  StageOK(calls'[d], record'[j].status, failures')
    BY DEF StagesOK
  <2>1. CASE d = c
    BY <2>1 DEF Move
  <2>2. CASE d # c
    <3>1. Owns(calls[d], j) /\ StageOK(calls[d], record[j].status, failures)
      BY <1>1, <2>2 DEF JInv, StagesOK
    <3>2. ~Owns(calls'[c], j) /\ Begun(record'[j])
      BY <2>2 DEF IInv
    <3>3. record'[j].status \in {record[j].status} \cup Settled
      BY <3>2 DEF Move, Begun
    <3>4. failures' = 0 => failures = 0
      BY DEF Move
    <3> QED  BY <1>1, <2>2, <3>1, <3>3, <3>4 DEF StageOK
  <2> QED  BY <2>1, <2>2
<1>3. InFlightHasRunner'
  <2> SUFFICES ASSUME failures' = 0, NEW j \in Jobs, record'[j].status \in InFlight
               PROVE  \E d \in Calls : Owns(calls'[d], j)
    BY DEF InFlightHasRunner, Runs, Owns
  <2>1. CASE Owns(calls'[c], j)
    BY <2>1
  <2>2. CASE ~Owns(calls'[c], j)
    <3>1. record[j].status \in InFlight
      BY <2>2 DEF Move, Settled, Terminal, InFlight
    <3>2. PICK d \in Calls : Owns(calls[d], j)
      BY <3>1 DEF JInv, InFlightHasRunner, Runs, Owns, Move
    <3>3. d # c
      BY <2>2, <3>2 DEF Move
    <3> QED  BY <1>1, <3>2, <3>3
  <2> QED  BY <2>1, <2>2
<1> QED  BY <1>2, <1>3 DEF JInv, Move

(* The three ways a request goes on.                                          *)
LEMMA Goes ==
  ASSUME IInv, NEW c \in Calls, NEW pc, Goto(c, pc)
  PROVE  /\ OthersAlike(c)
         /\ calls'[c].pc = pc /\ calls'[c].plan = calls[c].plan
         /\ calls'[c].job = calls[c].job /\ calls'[c].key = calls[c].key
         /\ calls'[c].next = calls[c].next
BY DEF Goto, IInv, CallType, OthersAlike, Alike

LEMMA Publishes ==
  ASSUME IInv, NEW c \in Calls, NEW job, NEW type, NEW status, NEW next,
         PublishNext(c, job, type, status, next)
  PROVE  /\ OthersAlike(c)
         /\ calls'[c].pc = "publish" /\ calls'[c].plan = calls[c].plan
         /\ calls'[c].job = job /\ calls'[c].key = calls[c].key
         /\ calls'[c].next = next
BY DEF PublishNext, IInv, CallType, OthersAlike, Alike

LEMMA Returns ==
  ASSUME IInv, NEW c \in Calls, Return(c)
  PROVE  /\ OthersAlike(c)
         /\ calls'[c].pc = "free" /\ \A j : ~Owns(calls'[c], j)
BY DEF Return, IInv, OthersAlike, Alike, Idle, Owns

(* A request that owns no job, before and after, disturbs nothing.            *)
LEMMA BystanderMove ==
  ASSUME IInv, IInv', JInv, NEW c \in Calls, OthersAlike(c),
         \A j \in Jobs : ~Owns(calls[c], j) /\ ~Owns(calls'[c], j),
         failures' \in Nat /\ (failures' = 0 => failures = 0),
         \A j \in Jobs : record'[j].status \in {record[j].status, "queued"} \cup Settled
  PROVE  JInv'
BY MoveKeeps DEF Move

(* A write of a status, and the outcomes of a transition.                     *)
LEMMA StatusWritten ==
  ASSUME IInv, NEW j \in Jobs, NEW status, NEW hasResult, WriteStatus(j, status, hasResult)
  PROVE  /\ record'[j].status = status
         /\ \A i \in Jobs : i # j => record'[i] = record[i]
         /\ failures' = failures
BY DEF WriteStatus, IInv, RecordType

LEMMA Transitions ==
  ASSUME IInv, failures \in Nat, NEW j \in Keys, NEW next, NEW hasResult, NEW outcome,
         TransitionJob(j, next, hasResult, outcome)
  PROVE  /\ failures' \in Nat /\ (failures' = 0 => failures = 0)
         /\ outcome = "ok" =>
              /\ j \in Jobs /\ CanTransition(record[j].status, next)
              /\ record'[j].status = next
              /\ \A i \in Jobs : i # j => record'[i] = record[i]
         /\ outcome # "ok" => record' = record
         /\ outcome = "missing" /\ j \in Jobs => record[j].status \notin Stored
         /\ outcome = "refused" =>
              j \in Jobs /\ record[j].status \in Stored /\ ~CanTransition(record[j].status, next)
         /\ outcome = "unwritten" => failures' # 0
         /\ outcome \in {"ok", "missing", "refused", "unwritten"}
<1>1. CASE outcome = "ok"
  <2>1. Found(j) /\ CanTransition(record[j].status, next) /\ WriteStatus(j, next, hasResult)
    BY <1>1 DEF TransitionJob
  <2>2. j \in Jobs
    BY <2>1 DEF Found
  <2> QED  BY <1>1, <2>1, <2>2, StatusWritten
<1>2. CASE outcome # "ok"
  BY <1>2 DEF TransitionJob, WriteFails, Found
<1> QED  BY <1>1, <1>2


(* The requests that submit, retry and cancel, and one that looks up a job.   *)
LEMMA BystandersKeepJ ==
  ASSUME IInv, IInv', JInv, NEW c \in Calls,
         \/ \E j \in Jobs : CreateJob(c, j) \/ CancelExecution(c, j) \/ Execute(c, j)
         \/ \E j \in Jobs, k \in Jobs : RetryJob(c, j, k)
         \/ CancelJob(c)
  PROVE  JInv'
<1>1. /\ calls[c] \in CallType /\ calls[c].pc \in {"free", "cancelJob"}
      /\ calls[c].plan = NoJob /\ NoJob \notin Jobs /\ failures \in Nat
  BY GoJobsAssumption DEF CreateJob, CancelExecution, Execute, RetryJob, CancelJob, Arrive,
     At, IInv, CallOK, JInv
<1>2. ASSUME NEW k \in Jobs, NEW new, new.status = "queued", Prepend(k, new)
      PROVE  \A j \in Jobs : record'[j].status \in {record[j].status, "queued"} \cup Settled
  <2> DEFINE isKept(i) == \E n \in DOMAIN Prepended(k) : Prepended(k)[n] = i
  <2>1. record' = [ i \in Jobs |->
             IF i = k THEN new
             ELSE IF Found(i) /\ ~isKept(i) THEN [record[i] EXCEPT !.status = "evicted"]
             ELSE record[i] ]
    BY <1>2 DEF Prepend
  <2> HIDE DEF isKept
  <2>2. \A i \in Jobs : [record[i] EXCEPT !.status = "evicted"].status = "evicted"
    BY DEF IInv, RecordType
  <2> QED  BY <1>2, <2>1, <2>2 DEF Settled
<1>3. ASSUME NEW j, NEW type, NEW status, PublishNext(c, j, type, status, "free")
      PROVE  OthersAlike(c) /\ \A i \in Jobs : ~Owns(calls[c], i) /\ ~Owns(calls'[c], i)
  BY <1>1, <1>3, Publishes DEF Owns
<1>4. ASSUME NEW j \in Jobs, CreateJob(c, j) PROVE JInv'
  <2>1. PICK mode, fingerprint :
          Prepend(j, [Unborn EXCEPT !.status = "queued", !.mode = mode,
                                    !.fingerprint = fingerprint])
    BY <1>4 DEF CreateJob
  <2>2. [Unborn EXCEPT !.status = "queued", !.mode = mode,
                       !.fingerprint = fingerprint].status = "queued"
    BY DEF Unborn
  <2>3. PublishNext(c, j, "queued", "queued", "free") /\ UNCHANGED failures
    BY <1>4 DEF CreateJob
  <2> QED  BY <1>1, <1>2, <1>3, <2>1, <2>2, <2>3, BystanderMove
<1>5. ASSUME NEW j \in Jobs, NEW k \in Jobs, RetryJob(c, j, k) PROVE JInv'
  <2>1. Prepend(k, [Unborn EXCEPT !.status = "queued", !.mode = record[j].mode,
                                  !.fingerprint = record[j].fingerprint,
                                  !.retryOf = j])
    BY <1>5 DEF RetryJob
  <2>2. [Unborn EXCEPT !.status = "queued", !.mode = record[j].mode,
                       !.fingerprint = record[j].fingerprint,
                       !.retryOf = j].status = "queued"
    BY DEF Unborn
  <2>3. PublishNext(c, k, "queued", "queued", "free") /\ UNCHANGED failures
    BY <1>5 DEF RetryJob
  <2> QED  BY <1>1, <1>2, <1>3, <2>1, <2>2, <2>3, BystanderMove
<1>6. ASSUME NEW j \in Jobs, CancelExecution(c, j) PROVE JInv'
  <2>1. /\ calls' = [d \in Calls |->
              IF d = c THEN [calls[d] EXCEPT !.pc = "cancelJob", !.job = j]
              ELSE IF d = executionCancels[j] THEN [calls[d] EXCEPT !.canceled = TRUE]
              ELSE calls[d]]
        /\ UNCHANGED <<record, failures>>
    BY <1>6 DEF CancelExecution
  <2>2. ASSUME NEW d \in Calls \ {c} PROVE Alike(calls'[d], calls[d])
    <3>1. /\ calls[d] \in CallType
          /\ calls'[d] = IF d = executionCancels[j] THEN [calls[d] EXCEPT !.canceled = TRUE]
                         ELSE calls[d]
      BY <2>1 DEF IInv
    <3> QED  BY <3>1 DEF Alike, CallType
  <2>3. calls'[c].plan = NoJob
    BY <1>1, <2>1 DEF CallType
  <2>4. OthersAlike(c)
    BY <2>2 DEF OthersAlike
  <2> QED  BY <1>1, <2>1, <2>3, <2>4, BystanderMove DEF Owns
<1>7. ASSUME NEW j \in Jobs, Execute(c, j) PROVE JInv'
  <2>1. /\ calls' = [calls EXCEPT ![c] = [@ EXCEPT !.pc = "claim", !.plan = j, !.job = j]]
        /\ UNCHANGED <<record, failures>>
    BY <1>7 DEF Execute
  <2> DEFINE k == [calls[c] EXCEPT !.pc = "claim", !.plan = j, !.job = j]
  <2>2. k.pc = "claim" /\ calls' = [calls EXCEPT ![c] = k]
    BY <1>1, <2>1 DEF CallType
  <2> HIDE DEF k
  <2>3. OthersAlike(c) /\ calls'[c].pc = "claim"
    BY <2>2 DEF OthersAlike, Alike, IInv
  <2> QED  BY <1>1, <2>1, <2>3, BystanderMove DEF Owns
<1>8. CASE CancelJob(c)
  <2> DEFINE j == calls[c].job
             status == IF record[j].status \in Active THEN "canceled" ELSE record[j].status
  <2>1. CASE Return(c) /\ UNCHANGED record /\ failures' \in {failures, failures + 1}
    BY <1>1, <2>1, Returns, BystanderMove DEF Owns
  <2>2. CASE /\ j \in Jobs /\ WriteStatus(j, status, record[j].hasResult)
             /\ PublishNext(c, j, "canceled", status, "free")
    <3>1. \A i \in Jobs : record'[i].status \in {record[i].status, "queued"} \cup Settled
      <4>1. status \in {record[j].status} \cup Settled
        BY DEF Settled, Terminal
      <4> HIDE DEF status
      <4> QED  BY <2>2, <4>1, StatusWritten
    <3>2. failures' = failures
      BY <2>2 DEF WriteStatus
    <3> QED  BY <1>1, <1>3, <2>2, <3>1, <3>2, BystanderMove
  <2> QED  BY <1>8, <2>1, <2>2 DEF CancelJob, WriteFails, Found
<1> QED  BY <1>4, <1>5, <1>6, <1>7, <1>8

(* The claim takes a job that was queued.                                     *)
LEMMA ClaimKeepsJ ==
  ASSUME IInv, IInv', JInv, NEW c \in Calls, ClaimJob(c)
  PROVE  JInv'
<1> DEFINE j == calls[c].job
<1>1. /\ calls[c].pc = "claim" /\ j \in Jobs /\ calls[c].plan = j /\ failures \in Nat
      /\ \A i \in Jobs : ~Owns(calls[c], i)
  BY DEF ClaimJob, At, IInv, CallOK, JInv, Owns
<1>2. CASE Return(c) /\ UNCHANGED record /\ failures' \in {failures, failures + 1}
  BY <1>1, <1>2, Returns, BystanderMove
<1>3. CASE /\ WriteStatus(j, "dispatching", record[j].hasResult)
           /\ PublishNext(c, j, "dispatching", "dispatching", "toUpstream")
  <2>1. /\ OthersAlike(c) /\ calls'[c].pc = "publish" /\ calls'[c].plan = j
        /\ calls'[c].job = j /\ calls'[c].next = "toUpstream"
    BY <1>1, <1>3, Publishes
  <2>2. /\ record'[j].status = "dispatching" /\ failures' = failures
        /\ \A i \in Jobs : i # j => record'[i] = record[i]
    BY <1>1, <1>3, StatusWritten
  <2>3. StageOK(calls'[c], "dispatching", failures')
    BY <2>1 DEF StageOK, Headed, Working
  <2>4. \A i \in Jobs : Owns(calls'[c], i) <=> i = j
    BY <1>1, <2>1 DEF Owns
  <2> QED  BY <1>1, <2>1, <2>2, <2>3, <2>4, MoveKeeps DEF Move
<1> QED  BY <1>2, <1>3 DEF ClaimJob, WriteFails

(* An event, or a step that changes no record: the request goes on as its     *)
(* stage allows.                                                              *)
LEMMA StayingKeepsJ ==
  ASSUME IInv, IInv', JInv, NEW c \in Calls, OthersAlike(c),
         UNCHANGED <<record, failures>>,
         calls'[c].plan = calls[c].plan,
         NEW j \in Jobs, Owns(calls[c], j), Owns(calls'[c], j),
         StageOK(calls[c], record[j].status, failures)
           => StageOK(calls'[c], record[j].status, failures)
  PROVE  JInv'
<1>1. StageOK(calls[c], record[j].status, failures)
  BY DEF JInv, StagesOK
<1>2. \A i \in Jobs : (Owns(calls[c], i) <=> i = j) /\ (Owns(calls'[c], i) <=> i = j)
  BY DEF Owns
<1> QED  BY <1>1, <1>2, MoveKeeps DEF Move, JInv


(* The facts that the steps of an execution start from.                       *)
LEMMA StageFacts ==
  ASSUME IInv, JInv, NEW c \in Calls, calls[c].pc \in Working \cup {"toUpstream", "finish"}
  PROVE  /\ calls[c].plan \in Jobs /\ Owns(calls[c], calls[c].plan)
         /\ calls[c].job \in Keys /\ calls[c] \in CallType /\ failures \in Nat
         /\ StageOK(calls[c], record[calls[c].plan].status, failures)
<1>1. calls[c].pc \notin {"free", "cancelJob", "publish", "claim"}
  BY DEF Working
<1>2. calls[c].plan \in Jobs /\ calls[c].job \in Keys /\ calls[c] \in CallType
  BY <1>1, HasPlan
<1> QED  BY <1>1, <1>2 DEF Owns, JInv, StagesOK

LEMMA PublishKeepsJ ==
  ASSUME IInv, IInv', JInv, NEW c \in Calls, Publish(c)
  PROVE  JInv'
<1>1. /\ calls[c].pc = "publish" /\ CallOK(calls[c]) /\ calls[c] \in CallType
      /\ UNCHANGED <<record, failures>> /\ failures \in Nat
  BY DEF Publish, At, IInv, JInv
<1>2. CASE calls[c].plan = NoJob
  <2>1. OthersAlike(c) /\ \A j \in Jobs : ~Owns(calls[c], j) /\ ~Owns(calls'[c], j)
    BY <1>1, <1>2, Returns, GoJobsAssumption DEF Publish, CallOK, Owns
  <2> QED  BY <1>1, <2>1, BystanderMove
<1>3. CASE calls[c].plan # NoJob
  <2>1. calls[c].plan \in Jobs /\ Owns(calls[c], calls[c].plan)
    BY <1>1, <1>3 DEF CallType, Keys, Owns
  <2>2. calls[c].next # "free" /\ calls[c].next \in Nexts
    BY <1>1, <2>1 DEF JInv, StagesOK, StageOK, CallOK
  <2>3. Goto(c, calls[c].next)
    BY <2>2 DEF Publish
  <2>4. /\ OthersAlike(c) /\ calls'[c].pc = calls[c].next
        /\ calls'[c].plan = calls[c].plan /\ calls'[c].job = calls[c].job
    BY <2>3, Goes
  <2>5. Owns(calls'[c], calls[c].plan)
    BY <1>1, <2>2, <2>4 DEF Owns, Nexts
  <2>6. StageOK(calls[c], record[calls[c].plan].status, failures)
          => StageOK(calls'[c], record[calls[c].plan].status, failures)
    BY <1>1, <2>2, <2>4 DEF StageOK, Headed, Nexts
  <2> QED  BY <1>1, <2>1, <2>4, <2>5, <2>6, StayingKeepsJ
<1> QED  BY <1>2, <1>3

LEMMA LooksKeepJ ==
  ASSUME IInv, IInv', JInv, NEW c \in Calls,
         Request(c) \/ Answer(c) \/ Failing(c) \/ Persist(c) \/ Begin(c) \/ Progress(c)
  PROVE  JInv'
<1> DEFINE j == calls[c].plan
<1>1. calls[c].pc \in Working /\ UNCHANGED <<record, failures>>
  BY DEF Request, Answer, Failing, Persist, Begin, Progress, At, Working
<1>2. /\ j \in Jobs /\ Owns(calls[c], j) /\ calls[c] \in CallType
      /\ StageOK(calls[c], record[j].status, failures)
  BY <1>1, StageFacts
<1>3. /\ calls[c].job \in {j, NoJob}
      /\ record[j].status \in {"upstream", "saving"} \cup Settled
      /\ calls[c].job = NoJob => record[j].status \in Settled
  BY <1>1, <1>2 DEF StageOK, Headed
<1>4. ASSUME OthersAlike(c), calls'[c].plan = j, calls'[c].job = calls[c].job,
             calls'[c].pc \in Working \/ (calls'[c].pc = "publish" /\ calls'[c].next \in Working)
               \/ (calls'[c].pc = "finish" /\ record[j].status \in Settled)
      PROVE  JInv'
  <2>1. Owns(calls'[c], j)
    BY <1>2, <1>4 DEF Owns, Working
  <2>2. StageOK(calls'[c], record[j].status, failures)
    BY <1>3, <1>4 DEF StageOK, Headed, Working
  <2> QED  BY <1>1, <1>2, <1>4, <2>1, <2>2, StayingKeepsJ
<1>5. ASSUME NEW pc \in Working, Goto(c, pc) PROVE JInv'
  BY <1>4, <1>5, Goes
<1>6. CASE Request(c) \/ Answer(c) \/ Persist(c)
  BY <1>5, <1>6 DEF Request, Answer, Persist, Working
<1>7. CASE Failing(c)
  <2>1. CASE Found(calls[c].job) /\ record[calls[c].job].status = "canceled"
             /\ Goto(c, "finish")
    <3>1. record[j].status \in Settled
      BY <1>3, <2>1, GoJobsAssumption DEF Found, Settled, Terminal
    <3> QED  BY <1>4, <2>1, <3>1, Goes
  <2>2. CASE Goto(c, "toFailed")
    BY <1>5, <2>2 DEF Working
  <2> QED  BY <1>7, <2>1, <2>2 DEF Failing
<1>8. CASE Begin(c)
  <2> DEFINE k == [calls[c] EXCEPT !.pc = "request", !.key = calls[c].job]
  <2>1. calls' = [calls EXCEPT ![c] = k]
    BY <1>8 DEF Begin
  <2>2. k.pc = "request" /\ k.plan = j /\ k.job = calls[c].job
    BY <1>2 DEF CallType
  <2> HIDE DEF k
  <2>3. OthersAlike(c) /\ calls'[c] = k
    BY <2>1 DEF IInv, OthersAlike, Alike
  <2> QED  BY <1>4, <2>2, <2>3 DEF Working
<1>9. CASE Progress(c)
  <2>1. CASE Goto(c, "waiting")
    BY <1>5, <2>1 DEF Working
  <2>2. ASSUME NEW status, PublishNext(c, calls[c].job, "upstream", status, "waiting")
        PROVE  JInv'
    BY <1>4, <2>2, Publishes DEF Working
  <2> QED  BY <1>9, <2>1, <2>2 DEF Progress
<1> QED  BY <1>6, <1>7, <1>8, <1>9

(* A request changes at most the record it owns, and stays where its stage    *)
(* allows or gives its job up settled.                                        *)
LEMMA OwnerKeepsJ ==
  ASSUME IInv, IInv', JInv, NEW c \in Calls, OthersAlike(c),
         NEW j \in Jobs, Owns(calls[c], j), calls[c].plan = j,
         failures' \in Nat /\ (failures' = 0 => failures = 0),
         \A i \in Jobs : i # j => record'[i] = record[i],
         \/ /\ Owns(calls'[c], j)
            /\ StageOK(calls'[c], record'[j].status, failures')
         \/ /\ \A i \in Jobs : ~Owns(calls'[c], i)
            /\ record' = record /\ (failures' = 0 => record[j].status \in Settled)
  PROVE  JInv'
<1>1. \A i \in Jobs : (Owns(calls[c], i) => i = j)
  BY DEF Owns
<1>2. CASE Owns(calls'[c], j) /\ StageOK(calls'[c], record'[j].status, failures')
  <2>1. \A i \in Jobs : Owns(calls'[c], i) => i = j
    BY <1>2 DEF Owns
  <2> QED  BY <1>1, <1>2, <2>1, MoveKeeps DEF Move
<1>3. CASE /\ \A i \in Jobs : ~Owns(calls'[c], i)
           /\ record' = record /\ (failures' = 0 => record[j].status \in Settled)
  <2>1. \A s \in Settled : s \notin InFlight
    BY DEF Settled, Terminal, InFlight
  <2> QED  BY <1>1, <1>3, <2>1, MoveKeeps DEF Move
<1> QED  BY <1>2, <1>3

(* What a transition of a job at work comes to: it is done, or the record has *)
(* settled already, or a write failed.                                        *)
LEMMA WorkTransitions ==
  ASSUME IInv, JInv, NEW c \in Calls, calls[c].pc \in Working,
         NEW next \in {"failed", "completed", "saving"}, NEW hasResult, NEW outcome,
         next = "saving" => calls[c].pc # "toFailed",
         TransitionJob(calls[c].job, next, hasResult, outcome)
  PROVE  /\ failures' \in Nat /\ (failures' = 0 => failures = 0)
         /\ \A i \in Jobs : i # calls[c].plan => record'[i] = record[i]
         /\ outcome = "ok" => calls[c].job = calls[c].plan
                              /\ record'[calls[c].plan].status = next
         /\ outcome # "ok" => record' = record
         /\ outcome = "missing" => record[calls[c].plan].status \in Settled
         /\ outcome # "ok" /\ failures' = 0 => record[calls[c].plan].status \in Settled
<1> DEFINE j == calls[c].plan
<1>1. /\ j \in Jobs /\ calls[c].job \in Keys /\ failures \in Nat
      /\ StageOK(calls[c], record[j].status, failures)
  BY StageFacts
<1>2. /\ calls[c].job \in {j, NoJob}
      /\ record[j].status \in {"upstream", "saving"} \cup Settled
      /\ calls[c].job = NoJob => record[j].status \in Settled
  BY <1>1 DEF StageOK, Headed
<1>3. /\ failures' \in Nat /\ (failures' = 0 => failures = 0)
      /\ outcome = "ok" =>
           /\ calls[c].job \in Jobs
           /\ record'[calls[c].job].status = next
           /\ \A i \in Jobs : i # calls[c].job => record'[i] = record[i]
      /\ outcome # "ok" => record' = record
      /\ outcome = "missing" /\ calls[c].job \in Jobs => record[calls[c].job].status \notin Stored
      /\ outcome = "refused" =>
           calls[c].job \in Jobs /\ ~CanTransition(record[calls[c].job].status, next)
      /\ outcome = "unwritten" => failures' # 0
      /\ outcome \in {"ok", "missing", "refused", "unwritten"}
  BY <1>1, Transitions
<1>4. outcome = "missing" => record[j].status \in Settled
  BY <1>1, <1>2, <1>3 DEF Keys, Stored, Active, InFlight, Settled
<1>5. outcome = "refused" => record[j].status \in Settled
  <2>1. \A s \in {"upstream", "saving"} : CanTransition(s, next)
    BY DEF CanTransition, InFlight, Active
  <2> QED  BY <1>2, <1>3, <2>1, GoJobsAssumption
<1> QED  BY <1>2, <1>3, <1>4, <1>5, GoJobsAssumption

LEMMA WorkEndsKeepsJ ==
  ASSUME IInv, IInv', JInv, NEW c \in Calls,
         ToFailed(c) \/ ToSaveFailed(c) \/ ToCompleted(c) \/ ToSaving(c)
  PROVE  JInv'
<1> DEFINE j == calls[c].plan
           job == calls[c].job
<1>1. calls[c].pc \in Working
  BY DEF ToFailed, ToSaveFailed, ToCompleted, ToSaving, At, Working
<1>2. j \in Jobs /\ Owns(calls[c], j) /\ job \in Keys
  BY <1>1, StageFacts
<1>3. PICK next \in {"failed", "completed", "saving"},
           outcome \in {"ok", "missing", "refused", "unwritten"}, hasResult \in BOOLEAN :
        /\ TransitionJob(job, next, hasResult, outcome)
        /\ \/ Goto(c, "finish") /\ outcome # "ok"
           \/ \E to, type, status : PublishNext(c, to, type, status, "finish") /\ next # "saving"
           \/ \E type, status : PublishNext(c, job, type, status, "persist") /\ outcome = "ok" /\ next = "saving"
           \/ \E type, status : PublishNext(c, NoJob, type, status, "persist") /\ outcome = "missing"
        /\ next = "saving" => calls[c].pc = "toSaving"
  <2> DEFINE Outcomes == {"ok", "missing", "refused", "unwritten"}
  <2>1. CASE ToFailed(c)
    <3>1. PICK outcome \in Outcomes :
            /\ TransitionJob(job, "failed", FALSE, outcome)
            /\ CASE outcome = "ok" -> PublishNext(c, job, "failed", "failed", "finish")
                 [] outcome = "missing" -> PublishNext(c, job, "failed", "", "finish")
                 [] OTHER -> Goto(c, "finish")
      BY <2>1 DEF ToFailed
    <3> QED  BY <3>1
  <2>2. CASE ToSaveFailed(c)
    <3>1. PICK outcome \in Outcomes :
            /\ TransitionJob(job, "failed", FALSE, outcome)
            /\ PublishNext(c, job, "failed",
                      IF outcome \in {"ok", "unwritten"} THEN "failed" ELSE "",
                      "finish")
      BY <2>2 DEF ToSaveFailed
    <3> QED  BY <3>1
  <2>3. CASE ToCompleted(c)
    <3>1. PICK outcome \in Outcomes :
            /\ TransitionJob(job, "completed", TRUE, outcome)
            /\ CASE outcome = "ok" -> PublishNext(c, job, "completed", "completed", "finish")
                 [] outcome = "missing" -> PublishNext(c, job, "completed", "", "finish")
                 [] OTHER -> Goto(c, "finish")
      BY <2>3 DEF ToCompleted
    <3> QED  BY <3>1
  <2>4. CASE ToSaving(c)
    <3>1. PICK outcome \in Outcomes :
            /\ TransitionJob(job, "saving", FALSE, outcome)
            /\ CASE outcome = "ok" -> PublishNext(c, job, "saving", "saving", "persist")
                 [] outcome = "missing" /\ ~IsVideo(c) ->
                      PublishNext(c, NoJob, "saving", "", "persist")
                 [] OTHER -> Goto(c, "finish")
      BY <2>4 DEF ToSaving
    <3>2. calls[c].pc = "toSaving"
      BY <2>4 DEF ToSaving, At
    <3> QED  BY <3>1, <3>2
  <2> QED  BY <2>1, <2>2, <2>3, <2>4
<1>4. /\ failures' \in Nat /\ (failures' = 0 => failures = 0)
      /\ \A i \in Jobs : i # j => record'[i] = record[i]
      /\ outcome = "ok" => job = j /\ record'[j].status = next
      /\ outcome # "ok" => record' = record
      /\ outcome = "missing" => record[j].status \in Settled
      /\ outcome # "ok" /\ failures' = 0 => record[j].status \in Settled
  <2>1. next = "saving" => calls[c].pc # "toFailed"
    BY <1>3
  <2> QED  BY <1>1, <1>3, <2>1, WorkTransitions
<1>5. ASSUME OthersAlike(c), calls'[c].plan = j, calls'[c].pc \notin {"free", "claim"},
             StageOK(calls'[c], record'[j].status, failures')
      PROVE  JInv'
  BY <1>2, <1>4, <1>5, OwnerKeepsJ DEF Owns
<1>6. next # "saving" => (failures' = 0 => record'[j].status \in Settled)
  BY <1>3, <1>4 DEF Settled, Terminal
<1>7. CASE Goto(c, "finish") /\ outcome # "ok"
  <2>1. OthersAlike(c) /\ calls'[c].pc = "finish" /\ calls'[c].plan = j
    BY <1>7, Goes
  <2>2. StageOK(calls'[c], record'[j].status, failures')
    BY <1>4, <1>7, <2>1 DEF StageOK, Headed, Working
  <2> QED  BY <1>5, <2>1, <2>2
<1>8. ASSUME NEW to, NEW type, NEW status, PublishNext(c, to, type, status, "finish"),
             next # "saving"
      PROVE  JInv'
  <2>1. /\ OthersAlike(c) /\ calls'[c].pc = "publish" /\ calls'[c].next = "finish"
        /\ calls'[c].plan = j
    BY <1>8, Publishes
  <2>2. StageOK(calls'[c], record'[j].status, failures')
    BY <1>6, <1>8, <2>1 DEF StageOK, Headed, Working
  <2> QED  BY <1>5, <2>1, <2>2
<1>9. ASSUME NEW to \in {j, NoJob}, NEW type, NEW status, PublishNext(c, to, type, status, "persist"),
             record'[j].status \in {"upstream", "saving"} \cup Settled,
             to = NoJob => record'[j].status \in Settled
      PROVE  JInv'
  <2>1. /\ OthersAlike(c) /\ calls'[c].pc = "publish" /\ calls'[c].next = "persist"
        /\ calls'[c].plan = j /\ calls'[c].job = to
    BY <1>9, Publishes
  <2>2. StageOK(calls'[c], record'[j].status, failures')
    BY <1>9, <2>1 DEF StageOK, Headed, Working
  <2> QED  BY <1>5, <2>1, <2>2
<1>10. CASE \E type, status : PublishNext(c, job, type, status, "persist")
                              /\ outcome = "ok" /\ next = "saving"
  BY <1>2, <1>4, <1>9, <1>10, GoJobsAssumption
<1>11. CASE \E type, status : PublishNext(c, NoJob, type, status, "persist") /\ outcome = "missing"
  BY <1>4, <1>9, <1>11
<1> QED  BY <1>3, <1>7, <1>8, <1>10, <1>11

LEMMA UpstreamKeepsJ ==
  ASSUME IInv, IInv', JInv, NEW c \in Calls, ToUpstream(c)
  PROVE  JInv'
<1> DEFINE j == calls[c].plan
<1>1. calls[c].pc = "toUpstream"
  BY DEF ToUpstream, At
<1>2. /\ j \in Jobs /\ Owns(calls[c], j) /\ failures \in Nat
      /\ StageOK(calls[c], record[j].status, failures)
  BY <1>1, StageFacts
<1>3. calls[c].job = j /\ record[j].status \in {"dispatching"} \cup Settled
  BY <1>1, <1>2 DEF StageOK, Headed
<1>4. PICK outcome \in {"ok", "missing", "refused", "unwritten"} :
        /\ TransitionJob(j, "upstream", FALSE, outcome)
        /\ CASE outcome = "ok" -> PublishNext(c, j, "upstream", "upstream", "begin")
             [] outcome = "missing" -> PublishNext(c, NoJob, "upstream", "", "begin")
             [] OTHER -> Return(c)
  BY <1>3 DEF ToUpstream
<1>5. /\ failures' \in Nat /\ (failures' = 0 => failures = 0)
      /\ outcome = "ok" =>
           /\ record'[j].status = "upstream"
           /\ \A i \in Jobs : i # j => record'[i] = record[i]
      /\ outcome # "ok" => record' = record
      /\ outcome = "missing" => record[j].status \notin Stored
      /\ outcome = "refused" => ~CanTransition(record[j].status, "upstream")
      /\ outcome = "unwritten" => failures' # 0
  <2>1. j \in Keys
    BY <1>2 DEF Keys
  <2> QED  BY <1>2, <1>4, <2>1, Transitions
<1>6. ASSUME NEW to \in {j, NoJob}, NEW type, NEW status, PublishNext(c, to, type, status, "begin"),
             record'[j].status \in {"upstream"} \cup Settled,
             to = NoJob => record'[j].status \in Settled
      PROVE  JInv'
  <2>1. /\ OthersAlike(c) /\ calls'[c].pc = "publish" /\ calls'[c].next = "begin"
        /\ calls'[c].plan = j /\ calls'[c].job = to
    BY <1>6, Publishes
  <2>2. StageOK(calls'[c], record'[j].status, failures')
    BY <1>6, <2>1 DEF StageOK, Headed, Working
  <2>3. Owns(calls'[c], j)
    BY <2>1 DEF Owns
  <2> QED  BY <1>2, <1>5, <2>1, <2>2, <2>3, OwnerKeepsJ
<1>7. CASE outcome = "ok"
  BY <1>2, <1>4, <1>5, <1>6, <1>7, GoJobsAssumption
<1>8. CASE outcome = "missing"
  <2>1. record[j].status \in Settled
    BY <1>3, <1>5, <1>8 DEF Stored, Active, InFlight, Settled
  <2> QED  BY <1>4, <1>5, <1>6, <1>8, <2>1
<1>9. CASE outcome \in {"refused", "unwritten"}
  <2>1. Return(c)
    BY <1>4, <1>9
  <2>2. failures' = 0 => record[j].status \in Settled
    <3>1. CanTransition("dispatching", "upstream")
      BY DEF CanTransition
    <3> QED  BY <1>3, <1>5, <1>9, <3>1
  <2> QED  BY <1>2, <1>5, <1>9, <2>1, <2>2, Returns, OwnerKeepsJ
<1> QED  BY <1>4, <1>7, <1>8, <1>9

LEMMA FinishKeepsJ ==
  ASSUME IInv, IInv', JInv, NEW c \in Calls, Finish(c)
  PROVE  JInv'
<1>1. calls[c].pc = "finish" /\ Return(c) /\ UNCHANGED <<record, failures>>
  BY DEF Finish, At
<1>2. /\ calls[c].plan \in Jobs /\ Owns(calls[c], calls[c].plan) /\ failures \in Nat
      /\ failures = 0 => record[calls[c].plan].status \in Settled
  BY <1>1, StageFacts DEF StageOK, Headed
<1> QED  BY <1>1, <1>2, Returns, OwnerKeepsJ

(* A restart leaves no request and no record in flight.                       *)
LEMMA RestartKeepsJ ==
  ASSUME IInv, JInv, Restart
  PROVE  JInv'
<1>1. \A c \in Calls, j \in Jobs : ~Owns(calls'[c], j)
  BY DEF Restart, Idle, Owns
<1>2. ASSUME NEW j \in Jobs PROVE record'[j].status \notin InFlight
  <2>1. record'[j] = [record[j] EXCEPT !.status = Recovered(@)] /\ record[j] \in RecordType
    BY DEF Restart, IInv
  <2>2. record'[j].status = Recovered(record[j].status)
    BY <2>1 DEF RecordType
  <2> QED  BY <2>2 DEF Recovered, InFlight
<1>3. failures' = failures
  BY DEF Restart
<1> QED  BY <1>1, <1>2, <1>3 DEF JInv, StagesOK, InFlightHasRunner

LEMMA NextKeepsJ ==
  ASSUME IInv, JInv, [Next]_vars
  PROVE  JInv'
<1>1. IInv'
  BY NextGood DEF Good
<1>2. CASE UNCHANGED vars
  BY <1>2 DEF vars, JInv, StagesOK, InFlightHasRunner, Runs
<1>3. ASSUME NEW c \in Calls, Step(c) PROVE JInv'
  BY <1>1, <1>3, PublishKeepsJ, BystandersKeepJ, ClaimKeepsJ, UpstreamKeepsJ, LooksKeepJ,
     WorkEndsKeepsJ, FinishKeepsJ DEF Step
<1>4. ASSUME NEW c \in Calls, NEW j \in Jobs, NEW k \in Jobs,
             CreateJob(c, j) \/ CancelExecution(c, j) \/ Execute(c, j) \/ RetryJob(c, j, k)
      PROVE  JInv'
  BY <1>1, <1>4, BystandersKeepJ
<1>5. CASE Restart
  BY <1>5, RestartKeepsJ
<1> QED  BY <1>2, <1>3, <1>4, <1>5 DEF Next, Serve

LEMMA InitJ == Init => JInv
<1> SUFFICES ASSUME Init PROVE JInv
  OBVIOUS
<1>1. \A c \in Calls, j \in Jobs : ~Owns(calls[c], j)
  BY DEF Init, Idle, Owns
<1>2. \A j \in Jobs : record[j].status \notin InFlight
  BY DEF Init, Unborn, InFlight
<1> QED  BY <1>1, <1>2 DEF Init, JInv, StagesOK, InFlightHasRunner

(* As long as no write of the job file failed, every record in flight has a   *)
(* request that will settle it: whatever cancels, retries, restarts and       *)
(* dropped records come in between, none is left to hang.                     *)
THEOREM NoneIsLeft == Spec => []InFlightHasRunner
<1>1. Spec => []JInv
  BY Invariant, InitJ, NextKeepsJ, PTL DEF Spec
<1>2. JInv => InFlightHasRunner
  BY DEF JInv
<1> QED  BY <1>1, <1>2, PTL

-------------------------------------------------------------------------------
(* The cancel function of an execution stays under its job. Only Begin and    *)
(* Finish touch the table, and no other execution has the same job.           *)
LEMMA KeysStay ==
  ASSUME IInv, KeysOK, NEW c \in Calls, OthersAlike(c),
         executionCancels' = executionCancels,
         Headed(calls'[c], Executing) =>
           /\ Headed(calls[c], Executing)
           /\ calls'[c].key = calls[c].key /\ calls'[c].plan = calls[c].plan
  PROVE  KeysOK'
<1>1. ASSUME NEW d \in Calls \ {c}
      PROVE  /\ Headed(calls'[d], Executing) <=> Headed(calls[d], Executing)
             /\ calls'[d].key = calls[d].key /\ calls'[d].plan = calls[d].plan
  BY DEF OthersAlike, Alike, Headed
<1> QED  BY <1>1 DEF KeysOK

(* Two executions with a cancel function have different jobs.                 *)
LEMMA KeysDiffer ==
  ASSUME IInv, NEW c \in Calls, NEW d \in Calls,
         Headed(calls[c], Executing) \/ calls[c].pc = "begin", Headed(calls[d], Executing),
         calls[c].plan = calls[d].plan
  PROVE  c = d
<1>1. /\ calls[c].pc \notin {"free", "cancelJob", "claim"}
      /\ calls[d].pc \notin {"free", "cancelJob", "claim"}
  BY DEF Headed, Executing
<1>2. calls[c] \in CallType /\ CallOK(calls[c])
  BY DEF IInv
<1>3. calls[c].plan \in Jobs
  BY <1>1, <1>2 DEF CallOK, CallType, Keys, Headed, Executing
<1> QED  BY <1>1, <1>3 DEF IInv, Owns

LEMMA BeginKeepsKeys ==
  ASSUME IInv, JInv, KeysOK, NEW c \in Calls, Begin(c)
  PROVE  KeysOK'
<1> DEFINE key == calls[c].job
           k == [calls[c] EXCEPT !.pc = "request", !.key = key]
<1>1. /\ calls[c].pc = "begin" /\ calls' = [calls EXCEPT ![c] = k]
      /\ executionCancels' = [executionCancels EXCEPT ![key] = c]
  BY DEF Begin, At
<1>2. /\ calls[c] \in CallType /\ key \in Keys
      /\ StageOK(calls[c], record[calls[c].plan].status, failures)
  BY <1>1, StageFacts DEF Working
<1>3. key \in {calls[c].plan, NoJob}
  BY <1>1, <1>2 DEF StageOK, Headed, Working
<1>4. k.plan = calls[c].plan /\ k.key = key
  BY <1>2 DEF CallType
<1> HIDE DEF k
<1>5. calls'[c] = k /\ \A d \in Calls \ {c} : calls'[d] = calls[d]
  BY <1>1 DEF IInv
<1>6. executionCancels' \in [Keys -> Calls \cup {NoCall}] /\ executionCancels'[key] = c
  BY <1>1, <1>2 DEF KeysOK
<1>7. ASSUME NEW d \in Calls, Headed(calls'[d], Executing), calls'[d].key # NoJob
      PROVE  calls'[d].key = calls'[d].plan /\ executionCancels'[calls'[d].key] = d
  <2>1. CASE d = c
    BY <1>3, <1>4, <1>5, <1>6, <1>7, <2>1
  <2>2. CASE d # c
    <3>1. Headed(calls[d], Executing) /\ calls[d].key # NoJob /\ calls'[d] = calls[d]
      BY <1>5, <1>7, <2>2
    <3>2. calls[d].key = calls[d].plan /\ executionCancels[calls[d].key] = d
      BY <3>1 DEF KeysOK
    <3>3. calls[d].key # key
      BY <1>1, <1>3, <2>2, <3>1, <3>2, KeysDiffer
    <3>4. calls[d].key \in Keys
      BY DEF IInv, CallType
    <3> QED  BY <1>1, <3>1, <3>2, <3>3, <3>4 DEF KeysOK
  <2> QED  BY <2>1, <2>2
<1> QED  BY <1>6, <1>7 DEF KeysOK

LEMMA FinishKeepsKeys ==
  ASSUME IInv, KeysOK, NEW c \in Calls, Finish(c)
  PROVE  KeysOK'
<1> DEFINE key == calls[c].key
<1>1. /\ calls[c].pc = "finish" /\ calls' = [calls EXCEPT ![c] = Idle]
      /\ executionCancels' = [executionCancels EXCEPT ![key] = NoCall]
  BY DEF Finish, At, Return
<1>2. calls'[c] = Idle /\ \A d \in Calls \ {c} : calls'[d] = calls[d]
  BY <1>1 DEF IInv
<1>3. executionCancels' \in [Keys -> Calls \cup {NoCall}]
  BY <1>1 DEF KeysOK
<1>4. Headed(calls[c], Executing) /\ ~Headed(Idle, Executing)
  BY <1>1 DEF Headed, Executing, Idle
<1>5. ASSUME NEW d \in Calls, Headed(calls'[d], Executing), calls'[d].key # NoJob
      PROVE  calls'[d].key = calls'[d].plan /\ executionCancels'[calls'[d].key] = d
  <2>1. /\ d # c /\ calls'[d] = calls[d]
        /\ Headed(calls[d], Executing) /\ calls[d].key # NoJob
    BY <1>2, <1>4, <1>5
  <2>2. calls[d].key = calls[d].plan /\ executionCancels[calls[d].key] = d
    BY <2>1 DEF KeysOK
  <2>3. calls[d].key # key
    <3>1. key # NoJob => key = calls[c].plan
      BY <1>4 DEF KeysOK
    <3> QED  BY <1>4, <2>1, <2>2, <3>1, KeysDiffer
  <2>4. calls[d].key \in Keys
    BY DEF IInv, CallType
  <2> QED  BY <1>1, <2>1, <2>2, <2>3, <2>4 DEF KeysOK
<1> QED  BY <1>3, <1>5 DEF KeysOK

LEMMA NextKeepsKeys ==
  ASSUME IInv, JInv, KeysOK, [Next]_vars
  PROVE  KeysOK'
<1>1. CASE UNCHANGED vars
  BY <1>1 DEF vars, KeysOK, Headed
<1>2. ASSUME NEW c \in Calls, executionCancels' = executionCancels,
             NEW pc, Goto(c, pc), calls[c].pc \in Executing
      PROVE  KeysOK'
  BY <1>2, Goes, KeysStay DEF Headed
<1>3. ASSUME NEW c \in Calls, executionCancels' = executionCancels,
             NEW job, NEW type, NEW status, NEW next, PublishNext(c, job, type, status, next),
             next \in Executing => calls[c].pc \in Executing
      PROVE  KeysOK'
  <2>1. "publish" \notin Executing
    BY DEF Executing
  <2> QED  BY <1>3, <2>1, Publishes, KeysStay DEF Headed
<1>4. ASSUME NEW c \in Calls, executionCancels' = executionCancels, Return(c)
      PROVE  KeysOK'
  <2>1. ~Headed(calls'[c], Executing)
    BY <1>4, Returns DEF Headed, Executing
  <2> QED  BY <1>4, <2>1, Returns, KeysStay
<1>5. ASSUME NEW c \in Calls, Publish(c) PROVE KeysOK'
  <2>1. calls[c].pc = "publish" /\ executionCancels' = executionCancels
    BY <1>5 DEF Publish, At
  <2>2. CASE Return(c)
    BY <1>4, <2>1, <2>2
  <2>3. CASE Goto(c, calls[c].next)
    <3>1. calls[c].next \in Nexts
      BY <2>1 DEF IInv, CallOK
    <3>2. Headed(calls'[c], Executing) => Headed(calls[c], Executing)
      BY <2>1, <2>3, <3>1, Goes DEF Headed, Nexts
    <3> QED  BY <2>1, <2>3, <3>2, Goes, KeysStay
  <2> QED  BY <1>5, <2>2, <2>3 DEF Publish
<1>6. ASSUME NEW c \in Calls, ClaimJob(c) \/ CancelJob(c) \/ ToUpstream(c) PROVE KeysOK'
  <2>1. /\ executionCancels' = executionCancels
        /\ \/ Return(c)
           \/ \E job, type, status : \E next \in {"free", "toUpstream", "begin"} :
                PublishNext(c, job, type, status, next)
    <3>1. CASE ClaimJob(c)
      BY <3>1 DEF ClaimJob
    <3>2. CASE CancelJob(c)
      BY <3>2 DEF CancelJob
    <3>3. CASE ToUpstream(c)
      BY <3>3 DEF ToUpstream
    <3> QED  BY <1>6, <3>1, <3>2, <3>3
  <2>2. {"free", "toUpstream", "begin"} \cap Executing = {}
    BY DEF Executing
  <2> QED  BY <1>3, <1>4, <2>1, <2>2
<1>7. ASSUME NEW c \in Calls,
             \/ Request(c) \/ Answer(c) \/ Progress(c) \/ Failing(c) \/ Persist(c)
             \/ ToFailed(c) \/ ToSaving(c) \/ ToSaveFailed(c) \/ ToCompleted(c)
      PROVE  KeysOK'
  <2>1. /\ calls[c].pc \in Executing /\ executionCancels' = executionCancels
        /\ \/ \E pc : Goto(c, pc)
           \/ \E job, type, status, next : PublishNext(c, job, type, status, next)
    <3>1. CASE Request(c) \/ Answer(c) \/ Failing(c) \/ Persist(c)
      BY <3>1 DEF Request, Answer, Failing, Persist, At, Executing
    <3>2. CASE Progress(c)
      BY <3>2 DEF Progress, At, Executing
    <3>3. CASE ToFailed(c)
      BY <3>3 DEF ToFailed, At, Executing
    <3>4. CASE ToSaving(c)
      BY <3>4 DEF ToSaving, At, Executing
    <3>5. CASE ToSaveFailed(c)
      BY <3>5 DEF ToSaveFailed, At, Executing
    <3>6. CASE ToCompleted(c)
      BY <3>6 DEF ToCompleted, At, Executing
    <3> QED  BY <1>7, <3>1, <3>2, <3>3, <3>4, <3>5, <3>6
  <2> QED  BY <1>2, <1>3, <2>1
<1>8. ASSUME NEW c \in Calls, NEW j \in Jobs, NEW k \in Jobs, CreateJob(c, j) \/ RetryJob(c, j, k)
      PROVE  KeysOK'
  <2>1. executionCancels' = executionCancels /\ \E job : PublishNext(c, job, "queued", "queued", "free")
    BY <1>8 DEF CreateJob, RetryJob
  <2> QED  BY <1>3, <2>1 DEF Executing
<1>9. ASSUME NEW c \in Calls, NEW j \in Jobs, CancelExecution(c, j) PROVE KeysOK'
  <2>1. /\ executionCancels' = executionCancels
        /\ calls' = [d \in Calls |->
              IF d = c THEN [calls[d] EXCEPT !.pc = "cancelJob", !.job = j]
              ELSE IF d = executionCancels[j] THEN [calls[d] EXCEPT !.canceled = TRUE]
              ELSE calls[d]]
    BY <1>9 DEF CancelExecution
  <2>2. ASSUME NEW d \in Calls \ {c} PROVE Alike(calls'[d], calls[d])
    <3>1. /\ calls[d] \in CallType
          /\ calls'[d] = IF d = executionCancels[j] THEN [calls[d] EXCEPT !.canceled = TRUE]
                         ELSE calls[d]
      BY <2>1 DEF IInv
    <3> QED  BY <3>1 DEF Alike, CallType
  <2>3. calls'[c].pc = "cancelJob"
    BY <2>1 DEF IInv, CallType
  <2> QED  BY <2>1, <2>2, <2>3, KeysStay DEF OthersAlike, Headed, Executing
<1>10. ASSUME NEW c \in Calls, NEW j \in Jobs, Execute(c, j) PROVE KeysOK'
  <2> DEFINE k == [calls[c] EXCEPT !.pc = "claim", !.plan = j, !.job = j]
  <2>1. calls[c] \in CallType /\ executionCancels' = executionCancels
        /\ calls' = [calls EXCEPT ![c] = k]
    BY <1>10 DEF Execute, IInv
  <2>2. k.pc = "claim"
    BY <2>1 DEF CallType
  <2> HIDE DEF k
  <2>3. OthersAlike(c) /\ calls'[c].pc = "claim"
    BY <2>1, <2>2 DEF OthersAlike, Alike, IInv
  <2> QED  BY <2>1, <2>3, KeysStay DEF Headed, Executing
<1>11. CASE Restart
  <2>1. \A c \in Calls : ~Headed(calls'[c], Executing)
    BY <1>11 DEF Restart, Idle, Headed, Executing
  <2>2. executionCancels' \in [Keys -> Calls \cup {NoCall}]
    BY <1>11 DEF Restart
  <2> QED  BY <2>1, <2>2 DEF KeysOK
<1>12. ASSUME NEW c \in Calls, Step(c) PROVE KeysOK'
  BY <1>12, <1>5, <1>6, <1>7, BeginKeepsKeys, FinishKeepsKeys DEF Step
<1> QED  BY <1>1, <1>8, <1>9, <1>10, <1>11, <1>12 DEF Next, Serve

LEMMA InitKeys == Init => KeysOK
<1> SUFFICES ASSUME Init PROVE KeysOK
  OBVIOUS
<1>1. executionCancels \in [Keys -> Calls \cup {NoCall}]
  BY DEF Init
<1>2. \A c \in Calls : ~Headed(calls[c], Executing)
  BY DEF Init, Idle, Headed, Executing
<1> QED  BY <1>1, <1>2 DEF KeysOK

(* A cancel always finds the cancel function of the execution that is under   *)
(* way: no end, cancel or restart takes the entry of another away.            *)
THEOREM CancelFindsIt == Spec => []RunningIsCancelable
<1>1. Spec => []JInv
  BY Invariant, InitJ, NextKeepsJ, PTL DEF Spec
<1>2. Spec => []KeysOK
  BY <1>1, Invariant, InitKeys, NextKeepsKeys, PTL DEF Spec
<1>3. KeysOK => RunningIsCancelable
  BY DEF KeysOK, RunningIsCancelable, Headed
<1> QED  BY <1>2, <1>3, PTL

-------------------------------------------------------------------------------
(* Nothing but a submission or a retry makes a job active, and what a job     *)
(* retries and its fingerprint never change while it is.                      *)
NoneAwakes(j) ==
  record'[j].status \in Active =>
    /\ record[j].status \in Active
    /\ record'[j].retryOf = record[j].retryOf
    /\ record'[j].fingerprint = record[j].fingerprint

LEMMA AsleepKeepsAttempts ==
  ASSUME AttemptsDiffer, \A j \in Jobs : NoneAwakes(j)
  PROVE  AttemptsDiffer'
BY DEF AttemptsDiffer, NoneAwakes

LEMMA WriteAwakesNone ==
  ASSUME IInv, NEW i \in Jobs, NEW status, NEW hasResult, WriteStatus(i, status, hasResult),
         status \in Active => record[i].status \in Active
  PROVE  \A j \in Jobs : NoneAwakes(j)
BY DEF WriteStatus, IInv, RecordType, NoneAwakes

LEMMA TransitionAwakesNone ==
  ASSUME IInv, NEW i, NEW next \in {"upstream", "saving", "failed", "completed"},
         NEW hasResult, NEW outcome, TransitionJob(i, next, hasResult, outcome)
  PROVE  \A j \in Jobs : NoneAwakes(j)
<1>1. CASE outcome # "ok"
  BY <1>1 DEF TransitionJob, WriteFails, NoneAwakes
<1>2. CASE outcome = "ok"
  <2>1. i \in Jobs /\ CanTransition(record[i].status, next) /\ WriteStatus(i, next, hasResult)
    BY <1>2 DEF TransitionJob, Found
  <2>2. next \in Active => record[i].status \in Active
    BY <2>1 DEF CanTransition, Active, InFlight
  <2> QED  BY <2>1, <2>2, WriteAwakesNone
<1> QED  BY <1>1, <1>2

(* A new record wakes nobody else.                                            *)
LEMMA PrependAwakesOne ==
  ASSUME IInv, NEW k \in Jobs, NEW new, Prepend(k, new)
  PROVE  record'[k] = new /\ \A j \in Jobs : j # k => NoneAwakes(j)
<1> DEFINE isKept(i) == \E n \in DOMAIN Prepended(k) : Prepended(k)[n] = i
<1>1. record' = [ i \in Jobs |->
           IF i = k THEN new
           ELSE IF Found(i) /\ ~isKept(i) THEN [record[i] EXCEPT !.status = "evicted"]
           ELSE record[i] ]
  BY DEF Prepend
<1> HIDE DEF isKept
<1>2. ASSUME NEW j \in Jobs, j # k PROVE NoneAwakes(j)
  <2>1. record[j] \in RecordType
    BY DEF IInv
  <2>2. CASE record'[j] = [record[j] EXCEPT !.status = "evicted"]
    BY <2>1, <2>2 DEF RecordType, NoneAwakes, Active, InFlight
  <2>3. CASE record'[j] = record[j]
    BY <2>3 DEF NoneAwakes
  <2> QED  BY <1>1, <1>2, <2>2, <2>3
<1> QED  BY <1>1, <1>2

LEMMA CreateKeepsAttempts ==
  ASSUME IInv, AttemptsDiffer, NEW c \in Calls, NEW k \in Jobs, CreateJob(c, k)
  PROVE  AttemptsDiffer'
<1>1. PICK mode, fingerprint :
        /\ ~ActiveTwin(fingerprint)
        /\ Prepend(k, [Unborn EXCEPT !.status = "queued", !.mode = mode,
                                     !.fingerprint = fingerprint])
  BY DEF CreateJob
<1> DEFINE new == [Unborn EXCEPT !.status = "queued", !.mode = mode,
                                 !.fingerprint = fingerprint]
<1>2. new.retryOf = NoJob /\ new.fingerprint = fingerprint
  BY DEF Unborn
<1>3. Prepend(k, new)
  BY <1>1
<1> HIDE DEF new
<1>4. record'[k] = new /\ \A j \in Jobs : j # k => NoneAwakes(j)
  BY <1>3, PrependAwakesOne
<1>5. ASSUME NEW j \in Jobs, j # k, record'[j].status \in Active
      PROVE  record'[j].fingerprint = fingerprint => fingerprint = ""
  BY <1>1, <1>4, <1>5 DEF ActiveTwin, NoneAwakes
<1> QED  BY <1>2, <1>4, <1>5 DEF AttemptsDiffer, NoneAwakes

LEMMA RetryKeepsAttempts ==
  ASSUME IInv, AttemptsDiffer, NEW c \in Calls, NEW i \in Jobs, NEW k \in Jobs, RetryJob(c, i, k)
  PROVE  AttemptsDiffer'
<1> DEFINE new == [Unborn EXCEPT !.status = "queued", !.mode = record[i].mode,
                                 !.fingerprint = record[i].fingerprint, !.retryOf = i]
<1>1. ~ActiveRetry(i) /\ Prepend(k, new)
  BY DEF RetryJob
<1>2. new.retryOf = i /\ i # NoJob
  BY GoJobsAssumption DEF Unborn
<1> HIDE DEF new
<1>3. record'[k] = new /\ \A j \in Jobs : j # k => NoneAwakes(j)
  BY <1>1, PrependAwakesOne
<1>4. ASSUME NEW j \in Jobs, j # k, record'[j].status \in Active
      PROVE  record'[j].retryOf # i
  BY <1>1, <1>3, <1>4 DEF ActiveRetry, NoneAwakes
<1> QED  BY <1>2, <1>3, <1>4 DEF AttemptsDiffer, NoneAwakes

LEMMA NextKeepsAttempts ==
  ASSUME IInv, AttemptsDiffer, [Next]_vars
  PROVE  AttemptsDiffer'
<1>1. CASE UNCHANGED record
  BY <1>1 DEF AttemptsDiffer
<1>2. ASSUME NEW c \in Calls, CancelJob(c) \/ ClaimJob(c) PROVE AttemptsDiffer'
  <2> DEFINE j == calls[c].job
             status == IF record[j].status \in Active THEN "canceled" ELSE record[j].status
  <2>1. CASE Found(j) /\ WriteStatus(j, status, record[j].hasResult)
    <3>1. status \notin Active /\ j \in Jobs
      BY <2>1 DEF Active, InFlight, Found
    <3> HIDE DEF status
    <3> QED  BY <2>1, <3>1, WriteAwakesNone, AsleepKeepsAttempts
  <2>2. CASE Claimable(j) /\ WriteStatus(j, "dispatching", record[j].hasResult)
    <3>1. j \in Jobs /\ record[j].status \in Active
      BY <2>2 DEF Claimable, Found, Active
    <3> QED  BY <2>2, <3>1, WriteAwakesNone, AsleepKeepsAttempts
  <2> QED  BY <1>1, <1>2, <2>1, <2>2 DEF CancelJob, ClaimJob, WriteFails
<1>3. ASSUME NEW c \in Calls,
             ToUpstream(c) \/ ToFailed(c) \/ ToSaving(c) \/ ToSaveFailed(c) \/ ToCompleted(c)
      PROVE  AttemptsDiffer'
  <2>1. \E next \in {"upstream", "saving", "failed", "completed"}, hasResult \in BOOLEAN,
           outcome \in {"ok", "missing", "refused", "unwritten"} :
          TransitionJob(calls[c].job, next, hasResult, outcome)
    <3>1. CASE ToUpstream(c)
      BY <3>1 DEF ToUpstream
    <3>2. CASE ToFailed(c)
      BY <3>2 DEF ToFailed
    <3>3. CASE ToSaving(c)
      BY <3>3 DEF ToSaving
    <3>4. CASE ToSaveFailed(c)
      BY <3>4 DEF ToSaveFailed
    <3>5. CASE ToCompleted(c)
      BY <3>5 DEF ToCompleted
    <3> QED  BY <1>3, <3>1, <3>2, <3>3, <3>4, <3>5
  <2> QED  BY <2>1, TransitionAwakesNone, AsleepKeepsAttempts
<1>4. CASE Restart
  <2>1. ASSUME NEW j \in Jobs PROVE NoneAwakes(j)
    <3>1. record'[j] = [record[j] EXCEPT !.status = Recovered(@)] /\ record[j] \in RecordType
      BY <1>4 DEF Restart, IInv
    <3>2. /\ record'[j].status = Recovered(record[j].status)
          /\ record'[j].retryOf = record[j].retryOf
          /\ record'[j].fingerprint = record[j].fingerprint
      BY <3>1 DEF RecordType
    <3> QED  BY <3>2 DEF NoneAwakes, Recovered, Active, InFlight
  <2> QED  BY <2>1, AsleepKeepsAttempts
<1>5. ASSUME NEW c \in Calls, Step(c) PROVE AttemptsDiffer'
  <2>1. CASE Publish(c) \/ Begin(c) \/ Request(c) \/ Answer(c) \/ Progress(c)
             \/ Failing(c) \/ Persist(c) \/ Finish(c)
    BY <1>1, <2>1 DEF Publish, Begin, Request, Answer, Progress, Failing, Persist, Finish
  <2> QED  BY <1>2, <1>3, <1>5, <2>1 DEF Step
<1>6. ASSUME NEW c \in Calls, NEW j \in Jobs, CancelExecution(c, j) \/ Execute(c, j)
      PROVE  AttemptsDiffer'
  BY <1>1, <1>6 DEF CancelExecution, Execute
<1>7. CASE UNCHANGED vars
  BY <1>1, <1>7 DEF vars
<1> QED  BY <1>4, <1>5, <1>6, <1>7, CreateKeepsAttempts, RetryKeepsAttempts DEF Next, Serve

(* A settled job has at most one active attempt that retries it and two       *)
(* active submissions have different fingerprints, whatever is claimed,       *)
(* canceled, dropped or recovered between two requests.                       *)
THEOREM AttemptsAreApart == Spec => []AttemptsDiffer
<1>1. Init => AttemptsDiffer
  <2> SUFFICES ASSUME Init PROVE AttemptsDiffer
    OBVIOUS
  <2>1. \A j \in Jobs : record[j].status \notin Active
    BY DEF Init, Unborn, Active, InFlight
  <2> QED  BY <2>1 DEF AttemptsDiffer
<1> QED  BY <1>1, Invariant, NextKeepsAttempts, PTL DEF Spec



-------------------------------------------------------------------------------
(* A browser that follows a job (JobFollower).                                *)

(* The types and statuses of events; "" where a job was missing.              *)
Words == Stored \cup {""}

Event == [sequence : Nat, type : Words, status : Words]
Frame == [sequence : Nat, status : Words]
ChannelType ==
  [open : BOOLEAN, capacity : Nat, events : Seq(Event), missed : BOOLEAN]
StreamType ==
  [sequence : Nat, replay : Seq(Event), channel : [Subscribers -> ChannelType]]

(* Events are numbered up to the sequence of their stream.                    *)
StreamOK(s) ==
  /\ s \in StreamType
  /\ Len(s.replay) <= ReplayCapacity
  /\ \A i \in DOMAIN s.replay : s.replay[i].sequence <= s.sequence
  /\ \A t \in Subscribers : \A i \in DOMAIN s.channel[t].events :
       s.channel[t].events[i].sequence <= s.sequence

StreamsOK == streams \in [Keys -> StreamType] /\ \A k \in Keys : StreamOK(streams[k])

(* The tab and its connection: a cursor of this process, like the frames on   *)
(* the wire, is not ahead of the stream.                                      *)
WebType ==
  [pc : {"idle", "connect", "read", "lost", "done", "interrupted"},
   job : Keys, shown : Words, lastEvent : Nat, issued : Nat,
   foreign : BOOLEAN, attempt : Nat]

WebOK ==
  /\ web \in WebType /\ wire \in Seq(Frame) /\ restarts \in Nat
  /\ web.pc # "idle" => web.job \in Jobs
  /\ sse \in {"none", "snapshot", "stream"}
  /\ sse # "none" <=> web.pc = "read"
  /\ sse = "none" => wire = <<>>
  /\ sse = "snapshot" => \A i \in DOMAIN wire : wire[i].sequence = 0
  /\ sse = "stream" => streams[web.job].channel[Tab].open
  /\ \A i \in DOMAIN wire : wire[i].sequence <= streams[web.job].sequence
  /\ web.issued <= restarts
  /\ web.issued = restarts => web.lastEvent <= streams[web.job].sequence

(* While no write failed, whatever says that a job has settled is true.       *)
Truth(j, status) ==
  status \in Terminal => j \in Jobs /\ record[j].status \in {status, "evicted"}

TruthOK ==
  failures = 0 =>
    /\ \A c \in Calls : calls[c].pc = "publish" => Truth(calls[c].job, calls[c].status)
    /\ \A k \in Keys : \A i \in DOMAIN streams[k].replay :
         Truth(k, streams[k].replay[i].status)
    /\ \A k \in Keys, t \in Subscribers : \A i \in DOMAIN streams[k].channel[t].events :
         Truth(k, streams[k].channel[t].events[i].status)
    /\ \A i \in DOMAIN wire : Truth(web.job, wire[i].status)
    /\ Truth(web.job, web.shown)

(* Requests that will tell of a settled job, and those that come late with    *)
(* what was so before: the one that made the job, once, and the one that runs *)
(* it, at most twice (what it is about to say, and that saving failed).       *)
Tells(k, j) == k.pc = "publish" /\ k.job = j /\ k.status \in Terminal
Late(k, j) == k.pc = "publish" /\ k.job = j /\ k.status \notin Terminal
Creating(k, j) == Late(k, j) /\ k.plan = NoJob
Going == {"begin", "request", "waiting", "progress", "toSaving", "persist", "toSaveFailed"}

One(b) == IF b THEN 1 ELSE 0
Load(k, j) == One(Late(k, j)) + One(Headed(k, Going))
Budget(j) ==
  One(\E c \in Calls : Creating(calls[c], j))
    + One(\E c \in Calls : Owns(calls[c], j) /\ Late(calls[c], j))
    + One(\E c \in Calls : Owns(calls[c], j) /\ Headed(calls[c], Going))

(* A request that runs a job publishes on it or on the zero job, and one that *)
(* makes a job is alone with it.                                              *)
SpeaksOwn(k) == k.pc = "publish" /\ k.plan \in Jobs => k.job \in {k.plan, NoJob}

SpeakersOK ==
  /\ \A c \in Calls : SpeaksOwn(calls[c])
  /\ \A c \in Calls, j \in Jobs : Creating(calls[c], j) => record[j].status # "unborn"
  /\ \A c, d \in Calls, j \in Jobs :
       Creating(calls[c], j) /\ Creating(calls[d], j) => c = d

(* Where a tab will learn that its job has settled. An event in the replay    *)
(* buffer stays there until the tab subscribes, because few can follow it.    *)
WireTells == \E i \in DOMAIN wire : wire[i].status \in Terminal
Pending(j) == \E c \in Calls : Tells(calls[c], j)
Stale == web.lastEvent # 0 /\ web.issued # restarts
Heard(j) ==
  \E i \in DOMAIN streams[j].replay :
    /\ streams[j].replay[i].status \in Terminal
    /\ streams[j].replay[i].sequence > web.lastEvent
    /\ Len(streams[j].replay) - i + Budget(j) <= 3
ChannelTells == \E i \in DOMAIN Channel.events : Channel.events[i].status \in Terminal

LearnsOK ==
  sse # "none" /\ record[web.job].status \in Terminal =>
    /\ sse = "snapshot" => WireTells \/ Pending(web.job) \/ Stale \/ Heard(web.job)
    /\ sse = "stream" =>
         WireTells \/ Pending(web.job) \/ web.foreign \/ Channel.missed \/ ChannelTells


-------------------------------------------------------------------------------
(* Induction: among some natural numbers, one is the least; and a bounded set *)
(* of them has a maximum.                                                     *)
LEMMA LeastNatural ==
  ASSUME NEW T, T \subseteq Nat, T # {}
  PROVE  \E n \in T : \A m \in T : n <= m
<1> DEFINE less == {s \in Nat \X Nat : s[1] < s[2]}
<1>1. IsWellFoundedOn(less, Nat)
  BY NatLessThanWellFounded DEF OpToRel
<1>2. \A m, n \in T : <<m, n>> \notin less => n <= m
  OBVIOUS
<1> HIDE DEF less
<1>3. PICK n \in T : \A m \in T : <<m, n>> \notin less
  BY <1>1, WFMin
<1> QED  BY <1>2, <1>3

LEMMA MaxIs ==
  ASSUME NEW S, S \subseteq Nat, S # {}, NEW b \in Nat, \A x \in S : x <= b
  PROVE  Max(S) \in S /\ \A x \in S : x <= Max(S)
<1> DEFINE T == {u \in Nat : \A x \in S : x <= u}
<1>1. T \subseteq Nat /\ b \in T
  OBVIOUS
<1>2. PICK u \in T : \A v \in T : u <= v
  <2> HIDE DEF T
  <2> QED  BY <1>1, LeastNatural
<1>3. u \in S
  <2> SUFFICES ASSUME u \notin S PROVE FALSE
    OBVIOUS
  <2>1. PICK x \in S : TRUE
    OBVIOUS
  <2>2. \A y \in S : y \in Nat /\ y <= u /\ y # u
    BY <1>2
  <2>3. u \in Nat /\ u # 0
    BY <1>2, <2>1, <2>2
  <2>4. \A y \in S : y <= u - 1
    BY <2>2, <2>3
  <2>5. u - 1 \in T
    BY <2>3, <2>4
  <2> HIDE DEF T
  <2> QED  BY <1>2, <2>3, <2>5
<1>4. \A x \in S : u >= x
  BY <1>2
<1>5. \E x \in S : \A y \in S : x >= y
  BY <1>3, <1>4
<1>6. Max(S) \in S /\ \A y \in S : Max(S) >= y
  BY <1>5 DEF Max
<1> QED  BY <1>6

(* What the loop over the replay buffer returns: every event after the        *)
(* cursor, and nothing else.                                                  *)
Newer(replay, after, N, f) ==
  f = [n \in 0 .. N |->
        IF n = 0 THEN <<>>
        ELSE IF replay[n].sequence > after THEN Append(f[n - 1], replay[n])
        ELSE f[n - 1]]

LEMMA NewerExists ==
  ASSUME NEW replay, NEW after, NEW N \in Nat
  PROVE  \E f : Newer(replay, after, N, f)
<1> DEFINE Bad == {n \in Nat : ~ \E f : Newer(replay, after, n, f)}
<1> SUFFICES ASSUME Bad # {} PROVE FALSE
  OBVIOUS
<1>1. PICK m \in Bad : \A n \in Bad : m <= n
  <2>1. Bad \subseteq Nat
    OBVIOUS
  <2> HIDE DEF Bad
  <2> QED  BY <2>1, LeastNatural
<1>2. CASE m = 0
  <2>1. Newer(replay, after, 0, [n \in 0 .. 0 |-> <<>>])
    BY DEF Newer
  <2> QED  BY <1>2, <2>1
<1>3. CASE m # 0
  <2>1. m - 1 \in Nat /\ m - 1 \notin Bad
    BY <1>1, <1>3
  <2>2. PICK f : Newer(replay, after, m - 1, f)
    BY <2>1
  <2> DEFINE last == IF replay[m].sequence > after THEN Append(f[m - 1], replay[m]) ELSE f[m - 1]
             g == [n \in 0 .. m |-> IF n = m THEN last ELSE f[n]]
  <2>3. ASSUME NEW n \in 0 .. m
        PROVE  g[n] = IF n = 0 THEN <<>>
                      ELSE IF replay[n].sequence > after THEN Append(g[n - 1], replay[n])
                      ELSE g[n - 1]
    <3>1. CASE n = m
      <4>1. g[n] = last /\ g[n - 1] = f[n - 1]
        <5> HIDE DEF last
        <5> QED  BY <1>3, <3>1, <2>1
      <4> QED  BY <1>3, <3>1, <4>1
    <3>2. CASE n # m
      <4>1. n \in 0 .. m - 1 /\ g[n] = f[n] /\ (n # 0 => g[n - 1] = f[n - 1])
        <5> HIDE DEF last
        <5> QED  BY <3>2, <2>1
      <4>2. f[n] = IF n = 0 THEN <<>>
                   ELSE IF replay[n].sequence > after THEN Append(f[n - 1], replay[n])
                   ELSE f[n - 1]
        BY <2>2, <4>1 DEF Newer
      <4> HIDE DEF g
      <4> QED  BY <4>1, <4>2
    <3> QED  BY <3>1, <3>2
  <2>4. g = [n \in 0 .. m |-> g[n]]
    <3> HIDE DEF last
    <3> QED  OBVIOUS
  <2> HIDE DEF g
  <2>5. Newer(replay, after, m, g)
    BY <2>3, <2>4 DEF Newer
  <2> QED  BY <2>5
<1> QED  BY <1>2, <1>3

LEMMA EventsAfterIs ==
  ASSUME NEW replay \in Seq(Event), NEW after
  PROVE  \E f : /\ Newer(replay, after, Len(replay), f)
                /\ EventsAfter(replay, after) = f[Len(replay)]
<1>1. Len(replay) \in Nat
  BY LenProperties
<1>2. \E f : Newer(replay, after, Len(replay), f)
  BY <1>1, NewerExists
<1>3. EventsAfter(replay, after) = (CHOOSE f : Newer(replay, after, Len(replay), f))[Len(replay)]
  BY DEF EventsAfter, Newer
<1> QED  BY <1>2, <1>3

LEMMA EventsAfterReturns ==
  ASSUME NEW replay \in Seq(Event), NEW after \in Nat
  PROVE  /\ EventsAfter(replay, after) \in Seq(Event)
         /\ \A m \in DOMAIN EventsAfter(replay, after) : \E i \in DOMAIN replay :
              EventsAfter(replay, after)[m] = replay[i]
         /\ \A i \in DOMAIN replay : replay[i].sequence > after =>
              \E m \in DOMAIN EventsAfter(replay, after) :
                EventsAfter(replay, after)[m] = replay[i]
<1>1. PICK f : /\ Newer(replay, after, Len(replay), f)
               /\ EventsAfter(replay, after) = f[Len(replay)]
  BY EventsAfterIs
<1>2. Len(replay) \in Nat /\ DOMAIN replay = 1 .. Len(replay)
  BY LenProperties
<1> DEFINE Right(n) ==
      /\ f[n] \in Seq(Event)
      /\ \A m \in DOMAIN f[n] : \E i \in 1 .. n : f[n][m] = replay[i]
      /\ \A i \in 1 .. n : replay[i].sequence > after => \E m \in DOMAIN f[n] : f[n][m] = replay[i]
           Bad == {n \in 0 .. Len(replay) : ~Right(n)}
<1>3. Bad = {}
  <2> SUFFICES ASSUME Bad # {} PROVE FALSE
    OBVIOUS
  <2>1. PICK n \in Bad : \A m \in Bad : n <= m
    <3>1. Bad \subseteq Nat
      OBVIOUS
    <3> HIDE DEF Bad
    <3> QED  BY <3>1, LeastNatural
  <2>2. n \in 0 .. Len(replay) /\ ~Right(n)
    OBVIOUS
  <2>3. f[n] = IF n = 0 THEN <<>>
               ELSE IF replay[n].sequence > after THEN Append(f[n - 1], replay[n])
               ELSE f[n - 1]
    BY <1>1, <2>2 DEF Newer
  <2>4. CASE n = 0
    <3>1. f[0] = <<>>
      BY <2>3, <2>4
    <3>2. Right(0)
      BY <3>1
    <3> QED  BY <2>2, <2>4, <3>2
  <2>5. CASE n # 0
    <3>1. n - 1 \in 0 .. Len(replay) /\ n - 1 \notin Bad
      <4>1. n - 1 \in 0 .. Len(replay) /\ ~(n <= n - 1)
        BY <2>2, <2>5, <1>2
      <4> HIDE DEF Bad
      <4> QED  BY <2>1, <4>1
    <3>2. Right(n - 1)
      BY <3>1
    <3>3. replay[n] \in Event /\ n \in 1 .. Len(replay)
      BY <2>2, <2>5, <1>2, ElementOfSeq
    <3> DEFINE s == f[n - 1]
    <3>4. /\ s \in Seq(Event)
          /\ \A m \in DOMAIN s : \E i \in 1 .. n - 1 : s[m] = replay[i]
          /\ \A i \in 1 .. n - 1 : replay[i].sequence > after => \E m \in DOMAIN s : s[m] = replay[i]
      BY <3>2
    <3> HIDE DEF s
    <3>5. CASE replay[n].sequence > after
      <4>1. f[n] = Append(s, replay[n])
        BY <2>3, <2>5, <3>5 DEF s
      <4> DEFINE t == Append(s, replay[n])
      <4>2. /\ t \in Seq(Event) /\ DOMAIN t = 1 .. Len(s) + 1 /\ t[Len(s) + 1] = replay[n]
            /\ Len(s) \in Nat /\ DOMAIN s = 1 .. Len(s)
            /\ \A m \in 1 .. Len(s) : t[m] = s[m]
        <5>1. Len(t) = Len(s) + 1
          BY <3>3, <3>4, AppendProperties
        <5> QED  BY <3>3, <3>4, <5>1, AppendProperties, LenProperties
      <4> HIDE DEF t
      <4>3. ASSUME NEW m \in DOMAIN t PROVE \E i \in 1 .. n : t[m] = replay[i]
        <5>1. CASE m = Len(s) + 1
          BY <4>2, <5>1, <3>3
        <5>2. CASE m # Len(s) + 1
          <6>1. m \in DOMAIN s /\ t[m] = s[m]
            BY <4>2, <5>2
          <6>2. PICK i \in 1 .. n - 1 : s[m] = replay[i]
            BY <3>4, <6>1
          <6> QED  BY <6>1, <6>2, <3>3, <1>2
        <5> QED  BY <5>1, <5>2
      <4>4. ASSUME NEW i \in 1 .. n, replay[i].sequence > after
            PROVE  \E m \in DOMAIN t : t[m] = replay[i]
        <5>1. CASE i = n
          BY <4>2, <5>1
        <5>2. CASE i # n
          <6>1. i \in 1 .. n - 1
            BY <5>2, <3>3, <1>2
          <6>2. PICK m \in DOMAIN s : s[m] = replay[i]
            BY <3>4, <4>4, <6>1
          <6> QED  BY <4>2, <6>2
        <5> QED  BY <5>1, <5>2
      <4>5. f[n] = t
        BY <4>1 DEF t
      <4> QED  BY <2>2, <4>2, <4>3, <4>4, <4>5
    <3>6. CASE ~(replay[n].sequence > after)
      <4>1. f[n] = s
        BY <2>3, <2>5, <3>6 DEF s
      <4>2. \A i \in 1 .. n : i \in 1 .. n - 1 \/ i = n
        BY <3>3, <1>2
      <4>3. \A i \in 1 .. n - 1 : i \in 1 .. n
        BY <3>3, <1>2
      <4>4. Right(n)
        BY <3>4, <3>6, <4>1, <4>2, <4>3
      <4> QED  BY <2>2, <4>4
    <3> QED  BY <3>5, <3>6
  <2> QED  BY <2>4, <2>5
<1>4. Right(Len(replay))
  <2>1. Len(replay) \in 0 .. Len(replay)
    BY <1>2
  <2> QED  BY <1>3, <2>1
<1> QED  BY <1>1, <1>2, <1>4


(* What publishing does to a replay buffer and to a channel: nothing but the  *)
(* event is new; the last event of a buffer, and a channel that is not full,  *)
(* have it.                                                                   *)
Adds(old, e, new) ==
  \A i \in DOMAIN new : new[i] = e \/ \E k \in DOMAIN old : new[i] = old[k]

Shifts(old, new) ==
  \A i \in DOMAIN old : i > 1 \/ Len(old) < ReplayCapacity =>
    \E k \in DOMAIN new : new[k] = old[i] /\ Len(new) - k = Len(old) - i + 1

LEMMA ReplayAppends ==
  ASSUME NEW old \in Seq(Event), Len(old) <= ReplayCapacity, NEW e \in Event,
         NEW new, new = AppendReplay(old, e)
  PROVE  /\ new \in Seq(Event) /\ Len(new) <= ReplayCapacity /\ Adds(old, e, new)
         /\ ReplayCapacity # 0 => Len(new) \in DOMAIN new /\ new[Len(new)] = e
         /\ Shifts(old, new)
<1> DEFINE all == Append(old, e)
           from == Len(all) - ReplayCapacity + 1
<1>1. /\ all \in Seq(Event) /\ Len(old) \in Nat /\ DOMAIN old = 1 .. Len(old)
      /\ Len(all) = Len(old) + 1 /\ DOMAIN all = 1 .. Len(old) + 1
      /\ all[Len(old) + 1] = e /\ \A i \in 1 .. Len(old) : all[i] = old[i]
  <2>1. all \in Seq(Event) /\ Len(all) = Len(old) + 1
    BY AppendProperties
  <2> QED  BY <2>1, AppendProperties, LenProperties
<1>2. ReplayCapacity \in Nat
  BY EventsAssumption
<1>3. new = IF Len(all) <= ReplayCapacity THEN all ELSE SubSeq(all, from, Len(all))
  BY DEF AppendReplay
<1> HIDE DEF all
<1>6. Len(old) \in Nat /\ Len(all) = Len(old) + 1
  BY <1>1
<1>4. CASE Len(all) <= ReplayCapacity
  <2>1. new = all
    BY <1>3, <1>4
  <2>2. Adds(old, e, all)
    BY <1>1 DEF Adds
  <2>3. Shifts(old, all)
    BY <1>1, <1>2, <1>4 DEF Shifts
  <2> QED  BY <1>1, <1>2, <1>4, <2>1, <2>2, <2>3
<1>5. CASE ~(Len(all) <= ReplayCapacity)
  <2>1. Len(old) = ReplayCapacity /\ from = 2
    BY <1>2, <1>5, <1>6
  <2>2. new = SubSeq(all, 2, Len(all))
    BY <1>3, <1>5, <2>1
  <2>3. \A i \in 2 .. Len(all) : all[i] \in Event
    BY <1>1, ElementOfSeq
  <2>4. /\ new \in Seq(Event)
        /\ Len(new) = IF 2 <= Len(all) THEN Len(all) - 2 + 1 ELSE 0
        /\ \A i \in 1 .. Len(all) - 2 + 1 : new[i] = all[2 + i - 1]
    <3>1. Len(all) \in Int /\ 2 \in Int
      BY <1>1
    <3> QED  BY <2>2, <2>3, <3>1, SubSeqProperties, Z3
  <2>5. /\ Len(new) = Len(old) /\ DOMAIN new = 1 .. Len(old)
        /\ \A i \in 1 .. Len(old) : new[i] = all[i + 1]
    <3>1. Len(new) = Len(old)
      BY <1>1, <2>4
    <3>2. DOMAIN new = 1 .. Len(old)
      BY <2>4, <3>1, LenProperties
    <3>3. \A i \in 1 .. Len(old) : i \in 1 .. Len(all) - 2 + 1 /\ 2 + i - 1 = i + 1
      BY <1>1
    <3> QED  BY <2>4, <3>1, <3>2, <3>3
  <2>6. Adds(old, e, new)
    <3> SUFFICES ASSUME NEW i \in 1 .. Len(old)
                 PROVE  new[i] = e \/ \E k \in DOMAIN old : new[i] = old[k]
      BY <2>5 DEF Adds
    <3>1. CASE i = Len(old)
      BY <1>1, <2>5, <3>1
    <3>2. CASE i # Len(old)
      <4>1. i + 1 \in 1 .. Len(old)
        BY <1>6, <3>2
      <4>2. new[i] = old[i + 1] /\ i + 1 \in DOMAIN old
        BY <1>1, <2>5, <4>1
      <4> QED  BY <4>2
    <3> QED  BY <3>1, <3>2
  <2>7. ReplayCapacity # 0 => Len(new) \in DOMAIN new /\ new[Len(new)] = e
    BY <1>1, <2>1, <2>5
  <2>8. ASSUME NEW i \in DOMAIN old, i > 1 \/ Len(old) < ReplayCapacity
        PROVE  \E k \in DOMAIN new : new[k] = old[i] /\ Len(new) - k = Len(old) - i + 1
    <3>1. i - 1 \in 1 .. Len(old) /\ new[i - 1] = old[i] /\ Len(new) - (i - 1) = Len(old) - i + 1
      BY <1>1, <1>2, <2>1, <2>5, <2>8
    <3> QED  BY <2>5, <3>1
  <2>9. Shifts(old, new)
    BY <2>8 DEF Shifts
  <2> QED  BY <1>2, <2>1, <2>4, <2>5, <2>6, <2>7, <2>9
<1> QED  BY <1>4, <1>5

LEMMA ChannelOffered ==
  ASSUME NEW old \in ChannelType, NEW e \in Event, NEW new, new = Offer(old, e)
  PROVE  /\ new \in ChannelType /\ new.open = old.open /\ (old.missed => new.missed)
         /\ Adds(old.events, e, new.events)
         /\ \A i \in DOMAIN old.events : \E k \in DOMAIN new.events :
              new.events[k] = old.events[i]
         /\ old.open => new.missed \/ \E k \in DOMAIN new.events : new.events[k] = e
<1>1. old.events \in Seq(Event)
  BY DEF ChannelType
<1>2. CASE ~old.open
  BY <1>2 DEF Offer, Adds
<1>3. CASE old.open /\ ~(Len(old.events) < old.capacity)
  <2>1. new = [old EXCEPT !.missed = TRUE]
    BY <1>3 DEF Offer
  <2>2. new \in ChannelType /\ new.missed /\ new.events = old.events /\ new.open = old.open
    BY <2>1 DEF ChannelType
  <2> QED  BY <2>2 DEF Adds
<1>4. CASE old.open /\ Len(old.events) < old.capacity
  <2> DEFINE all == Append(old.events, e)
  <2>1. new = [old EXCEPT !.events = all]
    BY <1>4 DEF Offer
  <2>2. /\ all \in Seq(Event) /\ DOMAIN old.events = 1 .. Len(old.events)
        /\ Len(old.events) \in Nat /\ DOMAIN all = 1 .. Len(old.events) + 1
        /\ all[Len(old.events) + 1] = e
        /\ \A i \in 1 .. Len(old.events) : all[i] = old.events[i]
    <3>1. all \in Seq(Event) /\ Len(all) = Len(old.events) + 1
      BY <1>1, AppendProperties
    <3> QED  BY <1>1, <3>1, AppendProperties, LenProperties
  <2> HIDE DEF all
  <2>3. new \in ChannelType /\ new.events = all /\ new.open = old.open /\ new.missed = old.missed
    BY <2>1, <2>2 DEF ChannelType
  <2>4. Adds(old.events, e, all)
    BY <2>2 DEF Adds
  <2> QED  BY <2>2, <2>3, <2>4
<1> QED  BY <1>2, <1>3, <1>4

NewEvent(s, type, status) == [sequence |-> s.sequence + 1, type |-> type, status |-> status]

LEMMA PublishedIs ==
  ASSUME NEW s, StreamOK(s), NEW type \in Words, NEW status \in Words,
         NEW p, p = Published(s, type, status),
         NEW e, e = NewEvent(s, type, status)
  PROVE  /\ StreamOK(p) /\ e \in Event /\ e.status = status
         /\ p.sequence = s.sequence + 1 /\ e.sequence = s.sequence + 1
         /\ p.replay = AppendReplay(s.replay, e)
         /\ \A t \in Subscribers : p.channel[t] = Offer(s.channel[t], e)
<1>0. s.sequence \in Nat
  BY DEF StreamOK, StreamType
<1>1. /\ s.replay \in Seq(Event) /\ Len(s.replay) <= ReplayCapacity
      /\ \A t \in Subscribers : s.channel[t] \in ChannelType
  BY DEF StreamOK, StreamType
<1>2. e \in Event /\ e.sequence = s.sequence + 1 /\ e.status = status
  <2>1. s.sequence + 1 \in Nat
    BY <1>0
  <2> QED  BY <2>1 DEF NewEvent, Event
<1>3. /\ p.sequence = s.sequence + 1 /\ p.replay = AppendReplay(s.replay, e)
      /\ p.channel = [t \in Subscribers |-> Offer(s.channel[t], e)]
      /\ p = [sequence |-> p.sequence, replay |-> p.replay, channel |-> p.channel]
  BY DEF Published, NewEvent
<1>4. /\ p.replay \in Seq(Event) /\ Len(p.replay) <= ReplayCapacity
      /\ Adds(s.replay, e, p.replay)
  BY <1>1, <1>2, <1>3, ReplayAppends
<1>5. ASSUME NEW t \in Subscribers
      PROVE  p.channel[t] \in ChannelType /\ Adds(s.channel[t].events, e, p.channel[t].events)
  <2>1. s.channel[t] \in ChannelType /\ p.channel[t] = Offer(s.channel[t], e)
    BY <1>1, <1>3
  <2> QED  BY <1>2, <2>1, ChannelOffered
<1>9. p.sequence = s.sequence + 1 /\ e.sequence = s.sequence + 1
  BY <1>2, <1>3
<1>6. p \in StreamType
  <2>1. p.sequence \in Nat
    BY <1>0, <1>9
  <2>2. p.channel \in [Subscribers -> ChannelType]
    BY <1>3, <1>5
  <2> QED  BY <1>3, <1>4, <2>1, <2>2 DEF StreamType
<1>7. \A i \in DOMAIN p.replay : p.replay[i].sequence <= p.sequence
  <2> SUFFICES ASSUME NEW i \in DOMAIN p.replay PROVE p.replay[i].sequence <= p.sequence
    OBVIOUS
  <2>1. CASE p.replay[i] = e
    BY <1>0, <1>9, <2>1
  <2>2. CASE \E k \in DOMAIN s.replay : p.replay[i] = s.replay[k]
    <3>1. PICK k \in DOMAIN s.replay : p.replay[i] = s.replay[k]
      BY <2>2
    <3>2. s.replay[k] \in Event
      BY <1>1, ElementOfSeq, LenProperties
    <3>3. s.replay[k].sequence <= s.sequence /\ s.replay[k].sequence \in Nat
      BY <3>2 DEF StreamOK, Event
    <3> QED  BY <1>0, <1>9, <3>1, <3>3
  <2> QED  BY <1>4, <2>1, <2>2 DEF Adds
<1>8. ASSUME NEW t \in Subscribers, NEW i \in DOMAIN p.channel[t].events
      PROVE  p.channel[t].events[i].sequence <= p.sequence
  <2>1. CASE p.channel[t].events[i] = e
    BY <1>0, <1>9, <2>1
  <2>2. CASE \E k \in DOMAIN s.channel[t].events : p.channel[t].events[i] = s.channel[t].events[k]
    <3>1. PICK k \in DOMAIN s.channel[t].events :
            p.channel[t].events[i] = s.channel[t].events[k]
      BY <2>2
    <3>2. s.channel[t].events \in Seq(Event)
      BY <1>1 DEF ChannelType
    <3>3. s.channel[t].events[k] \in Event
      BY <3>2, ElementOfSeq, LenProperties
    <3>4. /\ s.channel[t].events[k].sequence <= s.sequence
          /\ s.channel[t].events[k].sequence \in Nat
      BY <3>3 DEF StreamOK, Event
    <3> QED  BY <1>0, <1>9, <3>1, <3>4
  <2> QED  BY <1>5, <2>1, <2>2 DEF Adds
<1> QED  BY <1>2, <1>3, <1>4, <1>6, <1>7, <1>8 DEF StreamOK


-------------------------------------------------------------------------------
(* What a step of one request does as far as the tab is concerned: a record   *)
(* that settles is about to be told, what is told as settled is so, nobody    *)
(* who makes or runs the job gets more to say, and only publishing says it.   *)
SamePlace(k, l) ==
  /\ k.pc = l.pc /\ k.plan = l.plan /\ k.job = l.job /\ k.next = l.next
  /\ k.status = l.status

Aging ==
  \A j \in Jobs : /\ record[j].status = "evicted" => record'[j].status = "evicted"
                  /\ record[j].status # "unborn" => record'[j].status # "unborn"
Settling(j) == record[j].status \notin Terminal /\ record'[j].status \in Terminal

Says(c) ==
  \/ calls[c].pc # "publish" /\ streams' = streams
  \/ /\ calls[c].pc = "publish" /\ calls'[c].pc # "publish"
     /\ streams' = [streams EXCEPT ![calls[c].job] =
                      Published(@, calls[c].type, calls[c].status)]

Effects(c) ==
  /\ \A d \in Calls \ {c} : SamePlace(calls'[d], calls[d])
  /\ failures' = 0 => failures = 0
  /\ restarts' = restarts
  /\ Aging
  /\ SpeaksOwn(calls'[c])
  /\ \A j \in Jobs :
       /\ Settling(j) => Tells(calls'[c], j)
       /\ Creating(calls'[c], j) => record[j].status = "unborn" /\ record'[j].status # "unborn"
       /\ record[j].status \in Terminal /\ Owns(calls'[c], j) =>
            /\ Owns(calls[c], j)
            /\ Load(calls'[c], j) + One(Late(calls[c], j)) <= Load(calls[c], j)
  /\ calls'[c].pc = "publish" /\ calls'[c].status \in Terminal /\ failures' = 0 =>
       calls'[c].job \in Jobs /\ record'[calls'[c].job].status = calls'[c].status
  /\ Says(c)

LEMMA SameAges ==
  ASSUME UNCHANGED record
  PROVE  Aging /\ \A j \in Jobs : ~Settling(j)
BY DEF Aging, Settling

LEMMA WriteAges ==
  ASSUME IInv, NEW j \in Jobs, Found(j), NEW status \in Stored, NEW hasResult,
         WriteStatus(j, status, hasResult)
  PROVE  /\ Aging /\ record'[j].status = status /\ failures' = failures
         /\ \A i \in Jobs : Settling(i) => i = j /\ status \in Terminal
<1>1. /\ record'[j].status = status /\ failures' = failures
      /\ \A i \in Jobs : i # j => record'[i] = record[i]
  BY StatusWritten
<1>2. record[j].status \in Stored
  BY DEF Found
<1>3. \A s \in Stored : s \notin {"unborn", "evicted"}
  BY DEF Stored, Active, InFlight, Terminal
<1> QED  BY <1>1, <1>2, <1>3 DEF Aging, Settling

LEMMA PrependAges ==
  ASSUME IInv, NEW j \in Jobs, record[j].status = "unborn", NEW new, new.status = "queued",
         Prepend(j, new)
  PROVE  /\ Aging /\ (\A i \in Jobs : ~Settling(i))
         /\ record'[j].status = "queued"
<1> DEFINE isKept(i) == \E n \in DOMAIN Prepended(j) : Prepended(j)[n] = i
<1>1. record' = [ i \in Jobs |->
           IF i = j THEN new
           ELSE IF Found(i) /\ ~isKept(i) THEN [record[i] EXCEPT !.status = "evicted"]
           ELSE record[i]]
  BY DEF Prepend
<1> HIDE DEF isKept
<1>2. \A i \in Jobs : [record[i] EXCEPT !.status = "evicted"].status = "evicted"
  BY DEF IInv, RecordType
<1>3. ASSUME NEW i \in Jobs, i # j
      PROVE  record'[i] = record[i] \/ record'[i].status = "evicted"
  BY <1>1, <1>2, <1>3
<1>4. record'[j].status = "queued"
  BY <1>1
<1> QED  BY <1>3, <1>4 DEF Aging, Settling, Terminal

LEMMA TransitionAges ==
  ASSUME IInv, failures \in Nat, NEW j \in Keys,
         NEW next \in {"upstream", "saving", "failed", "completed"},
         NEW hasResult, NEW outcome, TransitionJob(j, next, hasResult, outcome)
  PROVE  /\ Aging /\ (failures' = 0 => failures = 0)
         /\ \A i \in Jobs : Settling(i) => outcome = "ok" /\ i = j /\ next \in Terminal
         /\ outcome = "ok" =>
              /\ j \in Jobs /\ record'[j].status = next
              /\ record[j].status \in Terminal => next \in Terminal
         /\ outcome = "missing" /\ j \in Jobs => record[j].status \notin Terminal
         /\ outcome = "unwritten" => failures' # 0
<1>1. /\ outcome = "unwritten" => failures' # 0
      /\ failures' = 0 => failures = 0
  BY Transitions
<1>2. CASE outcome # "ok"
  <2>1. UNCHANGED record
    BY <1>2 DEF TransitionJob, WriteFails
  <2>2. outcome = "missing" /\ j \in Jobs => record[j].status \notin Terminal
    BY DEF TransitionJob, Found, Stored
  <2> QED  BY <1>1, <1>2, <2>1, <2>2, SameAges
<1>3. CASE outcome = "ok"
  <2>1. Found(j) /\ CanTransition(record[j].status, next) /\ WriteStatus(j, next, hasResult)
    BY <1>3 DEF TransitionJob
  <2>2. j \in Jobs /\ next \in Stored
    BY <2>1 DEF Found, Stored, Active, InFlight, Terminal
  <2>3. record[j].status \in Terminal => next \in Terminal
    BY <2>1 DEF CanTransition, Terminal, Active, InFlight
  <2> QED  BY <1>1, <1>3, <2>1, <2>2, <2>3, WriteAges
<1> QED  BY <1>2, <1>3

(* The ways a request goes on, with what they leave of the others.            *)
LEMMA GoesTo ==
  ASSUME IInv, NEW c \in Calls, NEW pc, Goto(c, pc)
  PROVE  /\ \A d \in Calls \ {c} : SamePlace(calls'[d], calls[d])
         /\ calls'[c].pc = pc /\ calls'[c].plan = calls[c].plan /\ calls'[c].job = calls[c].job
BY DEF Goto, IInv, CallType, SamePlace

LEMMA PublishesOn ==
  ASSUME IInv, NEW c \in Calls, NEW job, NEW type, NEW status, NEW next,
         PublishNext(c, job, type, status, next)
  PROVE  /\ \A d \in Calls \ {c} : SamePlace(calls'[d], calls[d])
         /\ calls'[c].pc = "publish" /\ calls'[c].plan = calls[c].plan
         /\ calls'[c].job = job /\ calls'[c].status = status /\ calls'[c].next = next
BY DEF PublishNext, IInv, CallType, SamePlace

LEMMA GoingHasEffects ==
  ASSUME IInv, NEW c \in Calls, calls[c].pc \notin {"free", "claim", "publish"},
         \A d \in Calls \ {c} : SamePlace(calls'[d], calls[d]),
         calls'[c].plan = calls[c].plan, calls'[c].pc # "publish",
         calls'[c].pc \in Going => calls[c].pc \in Going,
         Aging, \A j \in Jobs : ~Settling(j),
         failures' = 0 => failures = 0, UNCHANGED <<restarts, streams>>
  PROVE  Effects(c)
<1>1. ASSUME NEW j \in Jobs
      PROVE  /\ Owns(calls'[c], j) => Owns(calls[c], j)
             /\ ~Late(calls[c], j) /\ ~Late(calls'[c], j) /\ ~Creating(calls'[c], j)
             /\ Headed(calls'[c], Going) => Headed(calls[c], Going)
  BY DEF Owns, Late, Creating, Headed
<1>2. \A j \in Jobs : Load(calls'[c], j) + One(Late(calls[c], j)) <= Load(calls[c], j)
  BY <1>1 DEF Load, One
<1> QED  BY <1>1, <1>2 DEF Effects, Says, SpeaksOwn

LEMMA EndingHasEffects ==
  ASSUME IInv, NEW c \in Calls, calls[c].pc # "publish",
         \A d \in Calls \ {c} : SamePlace(calls'[d], calls[d]),
         \A j \in Jobs : ~Owns(calls'[c], j), calls'[c].pc # "publish",
         Aging, \A j \in Jobs : ~Settling(j),
         failures' = 0 => failures = 0, UNCHANGED <<restarts, streams>>
  PROVE  Effects(c)
<1>1. \A j \in Jobs : ~Late(calls'[c], j) /\ ~Creating(calls'[c], j)
  BY DEF Late, Creating
<1> QED  BY <1>1 DEF Effects, Says, SpeaksOwn

LEMMA TellingHasEffects ==
  ASSUME IInv, NEW c \in Calls, calls[c].pc # "publish",
         NEW job \in Keys, NEW type, NEW status, NEW next,
         PublishNext(c, job, type, status, next),
         Aging, \A j \in Jobs : Settling(j) => j = job /\ status \in Terminal,
         failures' = 0 => failures = 0, UNCHANGED <<restarts, streams>>,
         status \in Terminal /\ failures' = 0 => job \in Jobs /\ record'[job].status = status,
         calls[c].plan = NoJob /\ status \notin Terminal /\ job \in Jobs =>
           record[job].status = "unborn" /\ record'[job].status # "unborn",
         calls[c].plan \in Jobs => job \in {calls[c].plan, NoJob},
         calls[c].plan \in Jobs /\ record[calls[c].plan].status \in Terminal =>
           /\ calls[c].pc \notin {"free", "claim"}
           /\ \/ status \in Terminal
              \/ job # calls[c].plan
              \/ calls[c].pc \in Going /\ next \notin Going
           /\ next \in Going => calls[c].pc \in Going
  PROVE  Effects(c)
<1>1. /\ \A d \in Calls \ {c} : SamePlace(calls'[d], calls[d])
      /\ calls'[c].pc = "publish" /\ calls'[c].plan = calls[c].plan
      /\ calls'[c].job = job /\ calls'[c].status = status /\ calls'[c].next = next
  BY PublishesOn
<1>2. ASSUME NEW j \in Jobs, record[j].status \in Terminal, Owns(calls'[c], j)
      PROVE  /\ Owns(calls[c], j)
             /\ Load(calls'[c], j) + One(Late(calls[c], j)) <= Load(calls[c], j)
  <2>1. calls[c].plan = j /\ Owns(calls[c], j) /\ ~Late(calls[c], j)
    BY <1>1, <1>2 DEF Owns, Late
  <2>2. Headed(calls'[c], Going) <=> next \in Going
    BY <1>1 DEF Headed, Going
  <2>3. Headed(calls[c], Going) <=> calls[c].pc \in Going
    BY DEF Headed
  <2>4. Late(calls'[c], j) => status \notin Terminal /\ job = j
    BY <1>1 DEF Late
  <2> QED  BY <1>2, <2>1, <2>2, <2>3, <2>4 DEF Load, One
<1>3. ASSUME NEW j \in Jobs
      PROVE  /\ Settling(j) => Tells(calls'[c], j)
             /\ Creating(calls'[c], j) =>
                  record[j].status = "unborn" /\ record'[j].status # "unborn"
  BY <1>1 DEF Tells, Creating, Late
<1>4. calls'[c].pc = "publish" /\ calls'[c].status \in Terminal /\ failures' = 0 =>
        calls'[c].job \in Jobs /\ record'[calls'[c].job].status = calls'[c].status
  BY <1>1
<1> QED  BY <1>1, <1>2, <1>3, <1>4 DEF Effects, Says, SpeaksOwn


(* The same, action by action.                                                *)
LEMMA PublishHasEffects ==
  ASSUME IInv, JInv, NEW c \in Calls, Publish(c)
  PROVE  Effects(c)
<1> DEFINE k == calls[c]
<1>1. /\ k.pc = "publish" /\ CallOK(k) /\ k \in CallType /\ k.next \in Nexts
      /\ UNCHANGED <<record, restarts, failures>>
      /\ streams' = [streams EXCEPT ![k.job] = Published(@, k.type, k.status)]
  BY DEF Publish, At, IInv, CallOK
<1>2. Aging /\ \A j \in Jobs : ~Settling(j)
  BY <1>1, SameAges
<1>3. CASE Return(c)
  <2>1. /\ \A d \in Calls \ {c} : SamePlace(calls'[d], calls[d])
        /\ calls'[c].pc = "free"
    BY <1>3 DEF Return, IInv, SamePlace, Idle
  <2>2. \A j \in Jobs : ~Owns(calls'[c], j) /\ ~Creating(calls'[c], j)
    BY <2>1 DEF Owns, Creating, Late
  <2> QED  BY <1>1, <1>2, <2>1, <2>2 DEF Effects, Says, SpeaksOwn
<1>4. CASE k.next # "free" /\ Goto(c, k.next)
  <2>1. /\ \A d \in Calls \ {c} : SamePlace(calls'[d], calls[d])
        /\ calls'[c].pc = k.next /\ calls'[c].plan = k.plan
    BY <1>4, GoesTo
  <2>2. k.next \notin {"publish", "free", "claim"}
    BY <1>1, <1>4 DEF Nexts
  <2>3. ASSUME NEW j \in Jobs
        PROVE  /\ ~Creating(calls'[c], j)
               /\ Owns(calls'[c], j) =>
                    /\ Owns(k, j)
                    /\ Load(calls'[c], j) + One(Late(k, j)) <= Load(k, j)
    <3>1. ~Late(calls'[c], j) /\ ~Creating(calls'[c], j)
      BY <2>1, <2>2 DEF Late, Creating
    <3>2. Headed(calls'[c], Going) <=> Headed(k, Going)
      BY <1>1, <2>1, <2>2 DEF Headed, Going
    <3>3. Owns(calls'[c], j) => Owns(k, j)
      BY <1>1, <2>1 DEF Owns
    <3> QED  BY <3>1, <3>2, <3>3 DEF Load, One
  <2> QED  BY <1>1, <1>2, <2>1, <2>2, <2>3 DEF Effects, Says, SpeaksOwn
<1> QED  BY <1>3, <1>4 DEF Publish

LEMMA SubmitHasEffects ==
  ASSUME IInv, JInv, NEW c \in Calls, NEW j \in Jobs,
         \/ CreateJob(c, j)
         \/ \E i \in Jobs : RetryJob(c, i, j)
  PROVE  Effects(c)
<1>1. /\ calls[c].pc = "free" /\ calls[c].plan = NoJob /\ NoJob \notin Jobs
      /\ record[j].status = "unborn" /\ UNCHANGED <<restarts, streams, failures>>
      /\ PublishNext(c, j, "queued", "queued", "free")
  BY GoJobsAssumption DEF CreateJob, RetryJob, Arrive, At, IInv, CallOK
<1>2. \E new : new.status = "queued" /\ Prepend(j, new)
  <2>1. CASE CreateJob(c, j)
    <3>1. PICK mode, fingerprint :
            Prepend(j, [Unborn EXCEPT !.status = "queued", !.mode = mode,
                                      !.fingerprint = fingerprint])
      BY <2>1 DEF CreateJob
    <3>2. [Unborn EXCEPT !.status = "queued", !.mode = mode,
                         !.fingerprint = fingerprint].status = "queued"
      BY DEF Unborn
    <3> QED  BY <3>1, <3>2
  <2>2. ASSUME NEW i \in Jobs, RetryJob(c, i, j)
        PROVE  \E new : new.status = "queued" /\ Prepend(j, new)
    <3>1. Prepend(j, [Unborn EXCEPT !.status = "queued", !.mode = record[i].mode,
                                    !.fingerprint = record[i].fingerprint, !.retryOf = i])
      BY <2>2 DEF RetryJob
    <3>2. [Unborn EXCEPT !.status = "queued", !.mode = record[i].mode,
                         !.fingerprint = record[i].fingerprint,
                         !.retryOf = i].status = "queued"
      BY DEF Unborn
    <3> QED  BY <3>1, <3>2
  <2> QED  BY <2>1, <2>2
<1>3. Aging /\ (\A i \in Jobs : ~Settling(i)) /\ record'[j].status = "queued"
  BY <1>1, <1>2, PrependAges
<1>4. "queued" \notin Terminal /\ j \in Keys
  BY DEF Terminal, Keys
<1> QED  BY <1>1, <1>3, <1>4, TellingHasEffects

LEMMA CancelHasEffects ==
  ASSUME IInv, JInv, NEW c \in Calls,
         CancelJob(c) \/ \E j \in Jobs : CancelExecution(c, j) \/ Execute(c, j)
  PROVE  Effects(c)
<1>1. /\ calls[c] \in CallType /\ calls[c].pc \in {"free", "cancelJob"}
      /\ calls[c].plan = NoJob /\ NoJob \notin Jobs /\ failures \in Nat
  BY GoJobsAssumption DEF CancelExecution, Execute, CancelJob, Arrive, At, IInv, CallOK, JInv
<1>2. ASSUME NEW j \in Jobs, CancelExecution(c, j) PROVE Effects(c)
  <2>1. /\ calls' = [d \in Calls |->
              IF d = c THEN [calls[d] EXCEPT !.pc = "cancelJob", !.job = j]
              ELSE IF d = executionCancels[j] THEN [calls[d] EXCEPT !.canceled = TRUE]
              ELSE calls[d]]
        /\ UNCHANGED <<record, failures, restarts, streams>>
    BY <1>2 DEF CancelExecution
  <2>2. ASSUME NEW d \in Calls \ {c} PROVE SamePlace(calls'[d], calls[d])
    <3>1. /\ calls[d] \in CallType
          /\ calls'[d] = IF d = executionCancels[j] THEN [calls[d] EXCEPT !.canceled = TRUE]
                         ELSE calls[d]
      BY <2>1 DEF IInv
    <3> QED  BY <3>1 DEF SamePlace, CallType
  <2>3. calls'[c].plan = NoJob /\ calls'[c].pc = "cancelJob"
    BY <1>1, <2>1 DEF CallType
  <2>4. \A i \in Jobs : ~Owns(calls'[c], i)
    BY <1>1, <2>3 DEF Owns
  <2> QED  BY <1>1, <2>1, <2>2, <2>3, <2>4, SameAges, EndingHasEffects
<1>3. ASSUME NEW j \in Jobs, Execute(c, j) PROVE Effects(c)
  <2> DEFINE k == [calls[c] EXCEPT !.pc = "claim", !.plan = j, !.job = j]
  <2>1. calls' = [calls EXCEPT ![c] = k] /\ UNCHANGED <<record, failures, restarts, streams>>
    BY <1>3 DEF Execute
  <2>2. k.pc = "claim"
    BY <1>1 DEF CallType
  <2> HIDE DEF k
  <2>3. /\ \A d \in Calls \ {c} : SamePlace(calls'[d], calls[d])
        /\ calls'[c].pc = "claim"
    BY <2>1, <2>2 DEF SamePlace, IInv
  <2>4. \A i \in Jobs : ~Owns(calls'[c], i)
    BY <2>3 DEF Owns
  <2> QED  BY <1>1, <2>1, <2>3, <2>4, SameAges, EndingHasEffects
<1>4. CASE CancelJob(c)
  <2> DEFINE j == calls[c].job
             status == IF record[j].status \in Active THEN "canceled" ELSE record[j].status
  <2>1. CASE Return(c) /\ UNCHANGED <<record, restarts, streams>>
             /\ failures' \in {failures, failures + 1}
    <3>1. /\ \A d \in Calls \ {c} : SamePlace(calls'[d], calls[d])
          /\ calls'[c].pc = "free" /\ \A i \in Jobs : ~Owns(calls'[c], i)
      BY <2>1 DEF Return, IInv, SamePlace, Idle, Owns
    <3>2. failures' = 0 => failures = 0
      BY <1>1, <2>1
    <3> QED  BY <1>1, <2>1, <3>1, <3>2, SameAges, EndingHasEffects
  <2>2. CASE /\ Found(j) /\ WriteStatus(j, status, record[j].hasResult)
             /\ PublishNext(c, j, "canceled", status, "free")
             /\ UNCHANGED <<restarts, streams>>
    <3>1. j \in Jobs /\ j \in Keys /\ status \in Terminal /\ status \in Stored
      BY <2>2 DEF Found, Keys, Stored, Active, Terminal
    <3> HIDE DEF status, j
    <3>2. /\ Aging /\ record'[j].status = status /\ failures' = failures
          /\ \A i \in Jobs : Settling(i) => i = j /\ status \in Terminal
      BY <2>2, <3>1, WriteAges
    <3> QED  BY <1>1, <2>2, <3>1, <3>2, TellingHasEffects
  <2> QED  BY <1>4, <2>1, <2>2 DEF CancelJob, WriteFails
<1> QED  BY <1>2, <1>3, <1>4

LEMMA ClaimHasEffects ==
  ASSUME IInv, JInv, NEW c \in Calls, ClaimJob(c)
  PROVE  Effects(c)
<1> DEFINE j == calls[c].job
<1>1. /\ calls[c].pc = "claim" /\ j \in Jobs /\ j \in Keys /\ calls[c].plan = j
      /\ failures \in Nat /\ UNCHANGED <<restarts, streams>>
  BY DEF ClaimJob, At, IInv, CallOK, JInv, Keys
<1>2. CASE Return(c) /\ UNCHANGED record /\ failures' \in {failures, failures + 1}
  <2>1. /\ \A d \in Calls \ {c} : SamePlace(calls'[d], calls[d])
        /\ calls'[c].pc = "free" /\ \A i \in Jobs : ~Owns(calls'[c], i)
    BY <1>2 DEF Return, IInv, SamePlace, Idle, Owns
  <2>2. failures' = 0 => failures = 0
    BY <1>1, <1>2
  <2> QED  BY <1>1, <1>2, <2>1, <2>2, SameAges, EndingHasEffects
<1>3. CASE /\ Claimable(j) /\ WriteStatus(j, "dispatching", record[j].hasResult)
           /\ PublishNext(c, j, "dispatching", "dispatching", "toUpstream")
  <2>1. /\ "dispatching" \in Stored /\ "dispatching" \notin Terminal
        /\ record[j].status = "queued" /\ record[j].status \notin Terminal
        /\ Found(j) /\ j # NoJob
    BY <1>1, <1>3, GoJobsAssumption DEF Claimable, Stored, Active, InFlight, Terminal
  <2>2. /\ Aging /\ failures' = failures
        /\ \A i \in Jobs : Settling(i) => i = j /\ "dispatching" \in Terminal
    BY <1>1, <1>3, <2>1, WriteAges
  <2> QED  BY <1>1, <1>3, <2>1, <2>2, TellingHasEffects
<1> QED  BY <1>2, <1>3 DEF ClaimJob, WriteFails


LEMMA LookHasEffects ==
  ASSUME IInv, JInv, NEW c \in Calls,
         Request(c) \/ Answer(c) \/ Failing(c) \/ Persist(c) \/ Begin(c) \/ Progress(c)
  PROVE  Effects(c)
<1> DEFINE j == calls[c].plan
<1>1. /\ calls[c].pc \in Working /\ UNCHANGED <<record, failures, restarts, streams>>
      /\ calls[c].pc \notin {"free", "claim", "publish"}
  BY DEF Request, Answer, Failing, Persist, Begin, Progress, At, Working
<1>2. /\ j \in Jobs /\ calls[c] \in CallType /\ calls[c].job \in Keys
      /\ calls[c].job \in {j, NoJob}
  BY <1>1, StageFacts DEF StageOK, Headed
<1>3. Aging /\ \A i \in Jobs : ~Settling(i)
  BY <1>1, SameAges
<1>4. ASSUME NEW pc, Goto(c, pc), pc # "publish", pc \in Going => calls[c].pc \in Going
      PROVE  Effects(c)
  BY <1>1, <1>3, <1>4, GoesTo, GoingHasEffects
<1>5. CASE Request(c)
  BY <1>4, <1>5 DEF Request, At, Going
<1>6. CASE Answer(c)
  BY <1>4, <1>6 DEF Answer, At, Going
<1>7. CASE Failing(c)
  BY <1>4, <1>7 DEF Failing, Going
<1>8. CASE Persist(c)
  BY <1>4, <1>8 DEF Persist, At, Going
<1>9. CASE Begin(c)
  <2> DEFINE k == [calls[c] EXCEPT !.pc = "request", !.key = calls[c].job]
  <2>1. calls' = [calls EXCEPT ![c] = k]
    BY <1>9 DEF Begin
  <2>2. k.pc = "request" /\ k.plan = j
    BY <1>2 DEF CallType
  <2> HIDE DEF k
  <2>3. /\ \A d \in Calls \ {c} : SamePlace(calls'[d], calls[d])
        /\ calls'[c] = k /\ calls[c].pc = "begin"
    BY <1>9, <2>1 DEF IInv, SamePlace, Begin, At
  <2> QED  BY <1>1, <1>3, <2>2, <2>3, GoingHasEffects DEF Going
<1>10. CASE Progress(c)
  <2>1. calls[c].pc = "progress" /\ calls[c].pc \in Going
    BY <1>10 DEF Progress, At, Going
  <2>2. CASE Goto(c, "waiting")
    BY <1>4, <2>1, <2>2
  <2>3. CASE /\ Found(calls[c].job)
             /\ PublishNext(c, calls[c].job, "upstream", record[calls[c].job].status, "waiting")
    <3>1. calls[c].job = j
      BY <1>2, <2>3, GoJobsAssumption DEF Found
    <3>2. record'[j].status = record[j].status
      BY <1>1
    <3> QED  BY <1>1, <1>2, <1>3, <2>1, <2>3, <3>1, <3>2, GoJobsAssumption, TellingHasEffects
  <2> QED  BY <1>10, <2>2, <2>3 DEF Progress
<1> QED  BY <1>5, <1>6, <1>7, <1>8, <1>9, <1>10

LEMMA FinishHasEffects ==
  ASSUME IInv, NEW c \in Calls, Finish(c)
  PROVE  Effects(c)
<1>1. /\ calls[c].pc = "finish" /\ UNCHANGED <<record, failures, restarts, streams>>
      /\ Return(c)
  BY DEF Finish, At
<1>2. /\ \A d \in Calls \ {c} : SamePlace(calls'[d], calls[d])
      /\ calls'[c].pc = "free" /\ \A i \in Jobs : ~Owns(calls'[c], i)
  BY <1>1 DEF Return, IInv, SamePlace, Idle, Owns
<1> QED  BY <1>1, <1>2, SameAges, EndingHasEffects

(* A transition of the job of a request that runs it, and what it then does.  *)
LEMMA RunHasEffects ==
  ASSUME IInv, JInv, NEW c \in Calls,
         ToUpstream(c) \/ ToFailed(c) \/ ToSaving(c) \/ ToSaveFailed(c) \/ ToCompleted(c)
  PROVE  Effects(c)
<1> DEFINE j == calls[c].plan
           job == calls[c].job
           Outcomes == {"ok", "missing", "refused", "unwritten"}
<1>1. /\ calls[c].pc \in {"toUpstream", "toFailed", "toSaving", "toSaveFailed", "toCompleted"}
      /\ calls[c].pc \notin {"free", "claim", "publish"} /\ UNCHANGED <<restarts, streams>>
      /\ calls[c].pc \in Working \cup {"toUpstream", "finish"}
  BY DEF ToUpstream, ToFailed, ToSaving, ToSaveFailed, ToCompleted, At, Working
<1>2. /\ j \in Jobs /\ calls[c] \in CallType /\ job \in Keys /\ failures \in Nat
      /\ job \in {j, NoJob} /\ NoJob \notin Jobs /\ NoJob \in Keys
  BY <1>1, StageFacts, GoJobsAssumption DEF StageOK, Headed, Keys, Working
<1>3. ASSUME NEW next \in {"upstream", "saving", "failed", "completed"}, NEW hasResult,
             NEW outcome, TransitionJob(job, next, hasResult, outcome)
      PROVE  /\ Aging /\ (failures' = 0 => failures = 0)
             /\ \A i \in Jobs : Settling(i) => outcome = "ok" /\ i = job /\ next \in Terminal
             /\ outcome = "ok" =>
                  /\ job = j /\ record'[j].status = next
                  /\ record[j].status \in Terminal => next \in Terminal
             /\ outcome = "missing" /\ job = j => record[j].status \notin Terminal
             /\ outcome = "unwritten" => failures' # 0
  BY <1>2, <1>3, TransitionAges
<1>4. ASSUME NEW next \in {"upstream", "saving", "failed", "completed"}, NEW hasResult,
             NEW outcome, TransitionJob(job, next, hasResult, outcome), outcome # "ok",
             Goto(c, "finish")
      PROVE  Effects(c)
  <2>1. \A i \in Jobs : ~Settling(i)
    BY <1>3, <1>4
  <2>2. "finish" \notin Going /\ "finish" # "publish"
    BY DEF Going
  <2> QED  BY <1>1, <1>3, <1>4, <2>1, <2>2, GoesTo, GoingHasEffects
<1>5. ASSUME NEW next \in {"upstream", "saving", "failed", "completed"}, NEW hasResult,
             NEW outcome, TransitionJob(job, next, hasResult, outcome),
             NEW to \in {job, NoJob}, NEW type, NEW status, NEW goal,
             PublishNext(c, to, type, status, goal),
             outcome = "ok" => to = job /\ status = next,
             status \in Terminal => to = job /\ status = next /\ outcome \in {"ok", "unwritten"},
             to = j /\ outcome # "ok" /\ status \notin Terminal =>
               outcome = "missing" \/ (calls[c].pc \in Going /\ goal \notin Going),
             goal \in Going => calls[c].pc \in Going \/ record[j].status \notin Terminal
      PROVE  Effects(c)
  <2>1. /\ Aging /\ (failures' = 0 => failures = 0)
        /\ \A i \in Jobs : Settling(i) => outcome = "ok" /\ i = job /\ next \in Terminal
        /\ outcome = "ok" =>
             /\ job = j /\ record'[j].status = next
             /\ record[j].status \in Terminal => next \in Terminal
        /\ outcome = "missing" /\ job = j => record[j].status \notin Terminal
        /\ outcome = "unwritten" => failures' # 0
    BY <1>3, <1>5
  <2>2. to \in Keys /\ to \in {j, NoJob}
    BY <1>2, <1>5
  <2>3. \A i \in Jobs : Settling(i) => i = to /\ status \in Terminal
    BY <1>5, <2>1
  <2>4. status \in Terminal /\ failures' = 0 => to \in Jobs /\ record'[to].status = status
    BY <1>2, <1>5, <2>1
  <2>5. j \in Jobs /\ record[j].status \in Terminal =>
          /\ calls[c].pc \notin {"free", "claim"}
          /\ \/ status \in Terminal
             \/ to # j
             \/ calls[c].pc \in Going /\ goal \notin Going
          /\ goal \in Going => calls[c].pc \in Going
    BY <1>1, <1>2, <1>5, <2>1
  <2>6. calls[c].plan # NoJob
    BY <1>2
  <2> HIDE DEF j, job
  <2> QED  BY <1>1, <1>5, <2>1, <2>2, <2>3, <2>4, <2>5, <2>6, TellingHasEffects DEF j
<1>6. CASE ToUpstream(c)
  <2>1. PICK outcome \in Outcomes :
          /\ TransitionJob(job, "upstream", FALSE, outcome)
          /\ CASE outcome = "ok" -> PublishNext(c, job, "upstream", "upstream", "begin")
               [] outcome = "missing" -> PublishNext(c, NoJob, "upstream", "", "begin")
               [] OTHER -> Return(c)
    BY <1>6 DEF ToUpstream
  <2>2. job = j /\ calls[c].pc = "toUpstream"
    BY <1>1, <1>6, StageFacts DEF ToUpstream, At, StageOK, Headed
  <2>3. {"upstream", ""} \cap Terminal = {}
    BY DEF Terminal
  <2>4. CASE outcome \in {"ok", "missing"}
    BY <1>2, <1>3, <1>5, <2>1, <2>2, <2>3, <2>4
  <2>5. CASE outcome \in {"refused", "unwritten"}
    <3>1. Return(c) /\ outcome # "ok"
      BY <2>1, <2>5
    <3>2. /\ \A d \in Calls \ {c} : SamePlace(calls'[d], calls[d])
          /\ calls'[c].pc = "free" /\ \A i \in Jobs : ~Owns(calls'[c], i)
      BY <3>1 DEF Return, IInv, SamePlace, Idle, Owns
    <3>3. Aging /\ (failures' = 0 => failures = 0) /\ \A i \in Jobs : ~Settling(i)
      BY <1>3, <2>1, <3>1
    <3> QED  BY <1>1, <3>2, <3>3, EndingHasEffects
  <2> QED  BY <2>4, <2>5
<1>7. CASE ToFailed(c)
  <2>1. PICK outcome \in Outcomes :
          /\ TransitionJob(job, "failed", FALSE, outcome)
          /\ CASE outcome = "ok" -> PublishNext(c, job, "failed", "failed", "finish")
               [] outcome = "missing" -> PublishNext(c, job, "failed", "", "finish")
               [] OTHER -> Goto(c, "finish")
    BY <1>7 DEF ToFailed
  <2>2. "" \notin Terminal /\ "finish" \notin Going
    BY DEF Terminal, Going
  <2> QED  BY <1>2, <1>4, <1>5, <2>1, <2>2
<1>8. CASE ToSaving(c)
  <2>1. PICK outcome \in Outcomes :
          /\ TransitionJob(job, "saving", FALSE, outcome)
          /\ CASE outcome = "ok" -> PublishNext(c, job, "saving", "saving", "persist")
               [] outcome = "missing" /\ ~IsVideo(c) ->
                    PublishNext(c, NoJob, "saving", "", "persist")
               [] OTHER -> Goto(c, "finish")
    BY <1>8 DEF ToSaving
  <2>2. {"saving", ""} \cap Terminal = {} /\ calls[c].pc \in Going
    BY <1>8 DEF Terminal, Going, ToSaving, At
  <2> QED  BY <1>2, <1>4, <1>5, <2>1, <2>2
<1>9. CASE ToSaveFailed(c)
  <2>1. PICK outcome \in Outcomes :
          /\ TransitionJob(job, "failed", FALSE, outcome)
          /\ PublishNext(c, job, "failed",
                IF outcome \in {"ok", "unwritten"} THEN "failed" ELSE "", "finish")
    BY <1>9 DEF ToSaveFailed
  <2>2. "" \notin Terminal /\ "failed" \in Terminal /\ "finish" \notin Going
        /\ calls[c].pc \in Going
    BY <1>9 DEF Terminal, Going, ToSaveFailed, At
  <2>3. CASE outcome \in {"ok", "unwritten"}
    BY <1>5, <2>1, <2>2, <2>3
  <2>4. CASE outcome \in {"missing", "refused"}
    BY <1>5, <2>1, <2>2, <2>4
  <2> QED  BY <2>3, <2>4
<1>10. CASE ToCompleted(c)
  <2>1. PICK outcome \in Outcomes :
          /\ TransitionJob(job, "completed", TRUE, outcome)
          /\ CASE outcome = "ok" -> PublishNext(c, job, "completed", "completed", "finish")
               [] outcome = "missing" -> PublishNext(c, job, "completed", "", "finish")
               [] OTHER -> Goto(c, "finish")
    BY <1>10 DEF ToCompleted
  <2>2. "" \notin Terminal /\ "finish" \notin Going
    BY DEF Terminal, Going
  <2> QED  BY <1>2, <1>4, <1>5, <2>1, <2>2
<1> QED  BY <1>6, <1>7, <1>8, <1>9, <1>10

LEMMA ServeHasEffects ==
  ASSUME IInv, JInv, Serve
  PROVE  \E c \in Calls : Effects(c)
BY PublishHasEffects, SubmitHasEffects, CancelHasEffects, ClaimHasEffects, LookHasEffects,
   FinishHasEffects, RunHasEffects DEF Serve, Step


-------------------------------------------------------------------------------
(* Once a job has settled, what its requests have left to say only shrinks,   *)
(* by one for every event that comes late.                                    *)
Creator(j) == \E c \in Calls : Creating(calls[c], j)
Speaker(j) == \E c \in Calls : Owns(calls[c], j) /\ Late(calls[c], j)
Goer(j) == \E c \in Calls : Owns(calls[c], j) /\ Headed(calls[c], Going)

LEMMA BudgetFalls ==
  ASSUME IInv, IInv', SpeakersOK, NEW c \in Calls, Effects(c),
         NEW j \in Jobs, record[j].status \in Terminal
  PROVE  /\ Budget(j) \in 0 .. 3 /\ Budget(j)' \in 0 .. 3
         /\ Budget(j)' + One(Late(calls[c], j)) <= Budget(j)
<1>1. \A d \in Calls \ {c} :
        /\ Creating(calls'[d], j) <=> Creating(calls[d], j)
        /\ Owns(calls'[d], j) <=> Owns(calls[d], j)
        /\ Late(calls'[d], j) <=> Late(calls[d], j)
        /\ Headed(calls'[d], Going) <=> Headed(calls[d], Going)
  BY DEF Effects, SamePlace, Creating, Owns, Late, Headed
<1>2. Creator(j)' => Creator(j) /\ ~Creating(calls[c], j)
  <2>1. ~Creating(calls'[c], j)
    BY DEF Effects, Terminal
  <2>2. ASSUME NEW d \in Calls, Creating(calls'[d], j)
        PROVE  Creator(j) /\ ~Creating(calls[c], j)
    BY <1>1, <2>1, <2>2 DEF Creator, SpeakersOK
  <2> QED  BY <2>2 DEF Creator
<1>3. Owns(calls[c], j) =>
        One(Speaker(j)') + One(Goer(j)') + One(Late(calls[c], j)) <= One(Speaker(j)) + One(Goer(j))
  <2> SUFFICES ASSUME Owns(calls[c], j)
               PROVE  One(Speaker(j)') + One(Goer(j)') + One(Late(calls[c], j))
                        <= One(Speaker(j)) + One(Goer(j))
    OBVIOUS
  <2>1. \A d \in Calls : Owns(calls'[d], j) => d = c
    BY <1>1 DEF IInv
  <2>2. /\ Speaker(j)' <=> Owns(calls'[c], j) /\ Late(calls'[c], j)
        /\ Goer(j)' <=> Owns(calls'[c], j) /\ Headed(calls'[c], Going)
    BY <2>1 DEF Speaker, Goer
  <2>3. /\ Late(calls[c], j) => Speaker(j)
        /\ Headed(calls[c], Going) => Goer(j)
    BY DEF Speaker, Goer
  <2>4. /\ Speaker(j) => Late(calls[c], j)
        /\ Goer(j) => Headed(calls[c], Going)
    BY DEF IInv, Speaker, Goer
  <2>5. CASE Owns(calls'[c], j)
    <3>1. Load(calls'[c], j) + One(Late(calls[c], j)) <= Load(calls[c], j)
      BY <2>5 DEF Effects
    <3> QED  BY <2>2, <2>3, <2>4, <2>5, <3>1 DEF Load, One
  <2>6. CASE ~Owns(calls'[c], j)
    BY <2>2, <2>3, <2>6 DEF One
  <2> QED  BY <2>5, <2>6
<1>4. ~Owns(calls[c], j) =>
        /\ Speaker(j)' => Speaker(j)
        /\ Goer(j)' => Goer(j)
        /\ Late(calls[c], j) => Creating(calls[c], j)
  <2> SUFFICES ASSUME ~Owns(calls[c], j)
               PROVE  /\ Speaker(j)' => Speaker(j)
                      /\ Goer(j)' => Goer(j)
                      /\ Late(calls[c], j) => Creating(calls[c], j)
    OBVIOUS
  <2>1. ~Owns(calls'[c], j)
    BY DEF Effects
  <2>2. (Speaker(j)' => Speaker(j)) /\ (Goer(j)' => Goer(j))
    BY <1>1, <2>1 DEF Speaker, Goer
  <2>3. Late(calls[c], j) => Creating(calls[c], j)
    BY GoJobsAssumption DEF IInv, CallType, Keys, Late, Creating, Owns, SpeakersOK, SpeaksOwn
  <2> QED  BY <2>2, <2>3
<1>5. Creating(calls[c], j) => Creator(j)
  BY DEF Creator
<1>6. One(Creator(j)') + One(Speaker(j)') + One(Goer(j)') + One(Late(calls[c], j))
        <= One(Creator(j)) + One(Speaker(j)) + One(Goer(j))
  BY <1>2, <1>3, <1>4, <1>5 DEF One
<1>7. /\ One(Creator(j)) + One(Speaker(j)) + One(Goer(j)) \in 0 .. 3
      /\ One(Creator(j)') + One(Speaker(j)') + One(Goer(j)') \in 0 .. 3
  BY DEF One
<1>8. /\ Budget(j) = One(Creator(j)) + One(Speaker(j)) + One(Goer(j))
      /\ Budget(j)' = One(Creator(j)') + One(Speaker(j)') + One(Goer(j)')
  BY DEF Budget, Creator, Speaker, Goer, One
<1> QED
  <2> DEFINE a == One(Creator(j)) b == One(Speaker(j)) g == One(Goer(j)) l == One(Late(calls[c], j))
             ap == One(Creator(j)') bp == One(Speaker(j)') gp == One(Goer(j)')
  <2>1. a \in {0, 1} /\ b \in {0, 1} /\ g \in {0, 1} /\ l \in {0, 1}
        /\ ap \in {0, 1} /\ bp \in {0, 1} /\ gp \in {0, 1}
    BY DEF One
  <2> QED  BY <1>6, <1>7, <1>8, <2>1


(* A step of the server, as the tab and its event request see it.             *)
Served(c) == Effects(c) /\ Good /\ UNCHANGED fvars

LEMMA ServeKeepsSpeakers ==
  ASSUME IInv, SpeakersOK, NEW c \in Calls, Effects(c)
  PROVE  SpeakersOK'
<1>1. \A d \in Calls \ {c}, j \in Jobs :
        /\ Creating(calls'[d], j) <=> Creating(calls[d], j)
        /\ SpeaksOwn(calls'[d]) <=> SpeaksOwn(calls[d])
  BY DEF Effects, SamePlace, Creating, Late, SpeaksOwn
<1>2. \A d \in Calls : SpeaksOwn(calls'[d])
  BY <1>1 DEF Effects, SpeakersOK, SpeaksOwn, SamePlace
<1>3. ASSUME NEW d \in Calls, NEW j \in Jobs, Creating(calls'[d], j)
      PROVE  /\ record'[j].status # "unborn"
             /\ d # c => record[j].status # "unborn"
             /\ d = c => record[j].status = "unborn"
  BY <1>1, <1>3 DEF Effects, Aging, SpeakersOK
<1>4. ASSUME NEW d \in Calls, NEW e \in Calls, NEW j \in Jobs,
             Creating(calls'[d], j), Creating(calls'[e], j)
      PROVE  d = e
  <2>1. CASE d = c \/ e = c
    BY <1>3, <1>4, <2>1
  <2>2. CASE d # c /\ e # c
    BY <1>1, <1>4, <2>2 DEF SpeakersOK
  <2> QED  BY <2>1, <2>2
<1> QED  BY <1>2, <1>3, <1>4 DEF SpeakersOK

(* What publishing does to the streams.                                       *)
Spoken(c) == NewEvent(streams[calls[c].job], calls[c].type, calls[c].status)

LEMMA SaysThis ==
  ASSUME IInv, StreamsOK, NEW c \in Calls, Says(c), calls[c].pc = "publish"
  PROVE  LET j == calls[c].job
         IN  /\ j \in Keys /\ Spoken(c) \in Event /\ Spoken(c).status = calls[c].status
             /\ Spoken(c).sequence = streams[j].sequence + 1
             /\ \A k \in Keys \ {j} : streams'[k] = streams[k]
             /\ streams' \in [Keys -> StreamType]
             /\ StreamOK(streams'[j]) /\ streams'[j].sequence = streams[j].sequence + 1
             /\ streams'[j].replay = AppendReplay(streams[j].replay, Spoken(c))
             /\ \A t \in Subscribers :
                  streams'[j].channel[t] = Offer(streams[j].channel[t], Spoken(c))
<1> DEFINE j == calls[c].job
           p == Published(streams[j], calls[c].type, calls[c].status)
<1>1. j \in Keys /\ calls[c].type \in Words /\ calls[c].status \in Words
  BY DEF IInv, CallType, Words
<1>2. streams' = [streams EXCEPT ![j] = p]
  BY DEF Says
<1>3. StreamOK(streams[j]) /\ streams \in [Keys -> StreamType]
  BY <1>1 DEF StreamsOK
<1>4. /\ StreamOK(p) /\ Spoken(c) \in Event /\ Spoken(c).status = calls[c].status
      /\ p.sequence = streams[j].sequence + 1 /\ Spoken(c).sequence = streams[j].sequence + 1
      /\ p.replay = AppendReplay(streams[j].replay, Spoken(c))
      /\ \A t \in Subscribers : p.channel[t] = Offer(streams[j].channel[t], Spoken(c))
  <2> DEFINE s == streams[j]
             type == calls[c].type
             status == calls[c].status
             e == Spoken(c)
  <2>1. StreamOK(s) /\ type \in Words /\ status \in Words
    BY <1>1, <1>3
  <2>2. p = Published(s, type, status) /\ e = NewEvent(s, type, status)
    BY DEF Spoken
  <2> HIDE DEF s, type, status, e, p
  <2>3. /\ StreamOK(p) /\ e \in Event /\ e.status = status
        /\ p.sequence = s.sequence + 1 /\ e.sequence = s.sequence + 1
        /\ p.replay = AppendReplay(s.replay, e)
        /\ \A t \in Subscribers : p.channel[t] = Offer(s.channel[t], e)
    BY <2>1, <2>2, PublishedIs, Z3
  <2> QED  BY <2>3 DEF s, status, e
<1>5. p \in StreamType
  BY <1>4 DEF StreamOK
<1> HIDE DEF p, j
<1>6. streams'[j] = p /\ (\A k \in Keys \ {j} : streams'[k] = streams[k])
      /\ streams' \in [Keys -> StreamType]
  BY <1>1, <1>2, <1>3, <1>5
<1> QED  BY <1>1, <1>4, <1>6 DEF j

LEMMA ServeKeepsStreams ==
  ASSUME IInv, StreamsOK, NEW c \in Calls, Says(c)
  PROVE  /\ StreamsOK'
         /\ \A k \in Keys : streams[k].sequence <= streams'[k].sequence
         /\ \A k \in Keys, t \in Subscribers :
              streams'[k].channel[t].open = streams[k].channel[t].open
<1>1. CASE calls[c].pc # "publish"
  <2>1. streams' = streams
    BY <1>1 DEF Says
  <2>2. \A k \in Keys : streams[k].sequence \in Nat
    BY DEF StreamsOK, StreamType
  <2> QED  BY <2>1, <2>2 DEF StreamsOK
<1>2. CASE calls[c].pc = "publish"
  <2> DEFINE j == calls[c].job
  <2>1. /\ j \in Keys /\ Spoken(c) \in Event
        /\ \A k \in Keys \ {j} : streams'[k] = streams[k]
        /\ streams' \in [Keys -> StreamType]
        /\ StreamOK(streams'[j]) /\ streams'[j].sequence = streams[j].sequence + 1
        /\ \A t \in Subscribers :
             streams'[j].channel[t] = Offer(streams[j].channel[t], Spoken(c))
    BY <1>2, SaysThis
  <2> HIDE DEF j
  <2>2. \A k \in Keys : streams[k].sequence \in Nat
                        /\ \A t \in Subscribers : streams[k].channel[t] \in ChannelType
    BY DEF StreamsOK, StreamType
  <2>3. \A t \in Subscribers : streams'[j].channel[t].open = streams[j].channel[t].open
    BY <2>1, <2>2, ChannelOffered
  <2>4. \A k \in Keys : streams[k].sequence <= streams'[k].sequence
    BY <2>1, <2>2
  <2>5. \A k \in Keys : StreamOK(streams'[k])
    BY <2>1 DEF StreamsOK
  <2>6. StreamsOK'
    BY <2>1, <2>5 DEF StreamsOK
  <2>7. \A k \in Keys, t \in Subscribers :
          streams'[k].channel[t].open = streams[k].channel[t].open
    BY <2>1, <2>3
  <2> QED  BY <2>4, <2>6, <2>7
<1> QED  BY <1>1, <1>2

LEMMA ServeKeepsWeb ==
  ASSUME IInv, StreamsOK, WebOK, NEW c \in Calls, Served(c)
  PROVE  WebOK'
<1>1. web' = web /\ sse' = sse /\ wire' = wire /\ restarts' = restarts
  BY DEF Served, fvars, Effects
<1>2. /\ StreamsOK'
      /\ \A k \in Keys : streams[k].sequence <= streams'[k].sequence
      /\ \A k \in Keys, t \in Subscribers :
           streams'[k].channel[t].open = streams[k].channel[t].open
  BY ServeKeepsStreams DEF Served, Effects
<1>3. web.job \in Keys /\ web.lastEvent \in Nat /\ Tab \in Subscribers
  BY FollowerAssumption DEF WebOK, WebType
<1>4. \A k \in Keys : streams[k].sequence \in Nat /\ streams'[k].sequence \in Nat
  BY <1>2 DEF StreamsOK, StreamType
<1>5. \A i \in DOMAIN wire : wire[i].sequence \in Nat
  <2>1. wire \in Seq(Frame)
    BY DEF WebOK
  <2>2. \A i \in DOMAIN wire : wire[i] \in Frame
    BY <2>1, ElementOfSeq, LenProperties
  <2> QED  BY <2>2 DEF Frame
<1>6. \A i \in DOMAIN wire : wire[i].sequence <= streams'[web.job].sequence
  BY <1>2, <1>3, <1>4, <1>5 DEF WebOK
<1>7. web.issued = restarts => web.lastEvent <= streams'[web.job].sequence
  BY <1>2, <1>3, <1>4 DEF WebOK
<1>8. sse = "stream" => streams'[web.job].channel[Tab].open
  BY <1>2, <1>3 DEF WebOK
<1> QED  BY <1>1, <1>6, <1>7, <1>8 DEF WebOK


(* What is true of a settled record stays true of it.                         *)
TruthLater(j, status) ==
  status \in Terminal => j \in Jobs /\ record'[j].status \in {status, "evicted"}

LEMMA TruthStays ==
  ASSUME NEW j, \A i \in Jobs : Kept(i), Aging, NEW status, Truth(j, status)
  PROVE  TruthLater(j, status)
BY DEF Truth, TruthLater, Kept, Aging

LEMMA ServeKeepsTruth ==
  ASSUME IInv, StreamsOK, WebOK, TruthOK, NEW c \in Calls, Served(c)
  PROVE  TruthOK'
<1> SUFFICES ASSUME failures' = 0
             PROVE  /\ \A d \in Calls : calls'[d].pc = "publish" =>
                         TruthLater(calls'[d].job, calls'[d].status)
                    /\ \A k \in Keys : \A i \in DOMAIN streams'[k].replay :
                         TruthLater(k, streams'[k].replay[i].status)
                    /\ \A k \in Keys, t \in Subscribers :
                         \A i \in DOMAIN streams'[k].channel[t].events :
                           TruthLater(k, streams'[k].channel[t].events[i].status)
                    /\ \A i \in DOMAIN wire' : TruthLater(web'.job, wire'[i].status)
                    /\ TruthLater(web'.job, web'.shown)
  BY DEF TruthOK, Truth, TruthLater
<1>1. /\ failures = 0 /\ Effects(c) /\ Says(c) /\ Aging /\ \A i \in Jobs : Kept(i)
      /\ web' = web /\ wire' = wire
  BY DEF Served, Effects, Good, fvars
<1>2. \A j, status : Truth(j, status) => TruthLater(j, status)
  BY <1>1, TruthStays
<1>3. ASSUME NEW d \in Calls, calls'[d].pc = "publish"
      PROVE  TruthLater(calls'[d].job, calls'[d].status)
  <2>1. CASE d = c
    BY <1>1, <1>3, <2>1 DEF Effects, TruthLater
  <2>2. CASE d # c
    <3>1. SamePlace(calls'[d], calls[d])
      BY <1>1, <2>2 DEF Effects
    <3>2. Truth(calls[d].job, calls[d].status)
      BY <1>1, <1>3, <3>1 DEF SamePlace, TruthOK
    <3> QED  BY <1>2, <1>3, <3>1, <3>2 DEF SamePlace
  <2> QED  BY <2>1, <2>2
<1>4. ASSUME NEW k \in Keys
      PROVE  /\ \A i \in DOMAIN streams'[k].replay : Truth(k, streams'[k].replay[i].status)
             /\ \A t \in Subscribers : \A i \in DOMAIN streams'[k].channel[t].events :
                  Truth(k, streams'[k].channel[t].events[i].status)
  <2>1. /\ \A i \in DOMAIN streams[k].replay : Truth(k, streams[k].replay[i].status)
        /\ \A t \in Subscribers : \A i \in DOMAIN streams[k].channel[t].events :
             Truth(k, streams[k].channel[t].events[i].status)
    BY <1>1 DEF TruthOK
  <2>2. CASE calls[c].pc # "publish"
    BY <1>1, <2>1, <2>2 DEF Says
  <2>3. CASE calls[c].pc = "publish"
    <3> DEFINE j == calls[c].job
               e == Spoken(c)
    <3>1. /\ j \in Keys /\ e \in Event /\ e.status = calls[c].status
          /\ \A i \in Keys \ {j} : streams'[i] = streams[i]
          /\ streams'[j].replay = AppendReplay(streams[j].replay, e)
          /\ \A t \in Subscribers : streams'[j].channel[t] = Offer(streams[j].channel[t], e)
      BY <1>1, <2>3, SaysThis
    <3>2. Truth(j, e.status)
      BY <1>1, <2>3, <3>1 DEF TruthOK
    <3>3. /\ streams[j].replay \in Seq(Event) /\ Len(streams[j].replay) <= ReplayCapacity
          /\ \A t \in Subscribers : streams[j].channel[t] \in ChannelType
      BY <3>1 DEF StreamsOK, StreamOK, StreamType
    <3> HIDE DEF j, e
    <3>4. Adds(streams[j].replay, e, streams'[j].replay)
      BY <3>1, <3>3, ReplayAppends
    <3>5. \A t \in Subscribers : Adds(streams[j].channel[t].events, e, streams'[j].channel[t].events)
      BY <3>1, <3>3, ChannelOffered
    <3>6. CASE k # j
      BY <2>1, <3>1, <3>6
    <3>7. CASE k = j
      BY <2>1, <3>2, <3>4, <3>5, <3>7 DEF Adds
    <3> QED  BY <3>6, <3>7
  <2> QED  BY <2>2, <2>3
<1>5. \A i \in DOMAIN wire : Truth(web.job, wire[i].status)
  BY <1>1 DEF TruthOK
<1>6. Truth(web.job, web.shown)
  BY <1>1 DEF TruthOK
<1>7. ASSUME NEW k \in Keys
      PROVE  /\ \A i \in DOMAIN streams'[k].replay : TruthLater(k, streams'[k].replay[i].status)
             /\ \A t \in Subscribers : \A i \in DOMAIN streams'[k].channel[t].events :
                  TruthLater(k, streams'[k].channel[t].events[i].status)
  BY <1>2, <1>4
<1>8. /\ \A i \in DOMAIN wire' : TruthLater(web'.job, wire'[i].status)
      /\ TruthLater(web'.job, web'.shown)
  BY <1>1, <1>2, <1>5, <1>6
<1> QED  BY <1>3, <1>7, <1>8


(* What is published on the job of the tab reaches it, and an event that the  *)
(* tab has yet to read is not pushed out of a replay buffer of four.          *)
LEMMA SaidIsHeard ==
  ASSUME IInv, StreamsOK, WebOK, NEW c \in Calls, Served(c),
         ReplayCapacity # 0, sse # "none", Tells(calls[c], web.job), Budget(web.job)' \in 0 .. 3
  PROVE  /\ sse = "snapshot" => Stale \/ Heard(web.job)'
         /\ sse = "stream" => ChannelTells' \/ Channel.missed'
<1> DEFINE j == web.job
           e == Spoken(c)
<1>1. /\ web' = web /\ Says(c) /\ calls[c].pc = "publish" /\ calls[c].job = j
      /\ calls[c].status \in Terminal
  BY DEF Served, Effects, fvars, Tells
<1>2. /\ j \in Keys /\ e \in Event /\ e.status \in Terminal
      /\ e.sequence = streams[j].sequence + 1
      /\ streams'[j].replay = AppendReplay(streams[j].replay, e)
      /\ streams'[j].channel[Tab] = Offer(streams[j].channel[Tab], e)
  BY <1>1, SaysThis, FollowerAssumption
<1>3. /\ streams[j].replay \in Seq(Event) /\ Len(streams[j].replay) <= ReplayCapacity
      /\ streams[j].channel[Tab] \in ChannelType /\ streams[j].sequence \in Nat
  BY <1>2, FollowerAssumption DEF StreamsOK, StreamOK, StreamType
<1>4. /\ web.lastEvent \in Nat /\ web.issued <= restarts /\ restarts \in Nat
      /\ web.issued = restarts => web.lastEvent <= streams[j].sequence
  BY DEF WebOK, WebType
<1>5. ASSUME ~Stale PROVE e.sequence > web.lastEvent
  <2>1. web.lastEvent = 0 \/ web.issued = restarts
    BY <1>5 DEF Stale
  <2> HIDE DEF j, e
  <2> QED  BY <1>2, <1>3, <1>4, <2>1
<1>6. ASSUME ~Stale PROVE Heard(web.job)'
  <2> DEFINE new == streams'[j].replay
  <2>1. Len(new) \in DOMAIN new /\ new[Len(new)] = e /\ Len(new) \in Nat
    <3>1. new \in Seq(Event) /\ Len(new) \in DOMAIN new /\ new[Len(new)] = e
      BY <1>2, <1>3, ReplayAppends
    <3> QED  BY <3>1, LenProperties
  <2>2. Len(new) - Len(new) + Budget(web.job)' <= 3
    BY <2>1
  <2>3. new[Len(new)].sequence > web.lastEvent /\ new[Len(new)].status \in Terminal
    BY <1>2, <1>5, <1>6, <2>1
  <2>4. \E i \in DOMAIN streams'[web'.job].replay :
          /\ streams'[web'.job].replay[i].status \in Terminal
          /\ streams'[web'.job].replay[i].sequence > web'.lastEvent
          /\ Len(streams'[web'.job].replay) - i + Budget(web.job)' <= 3
    BY <1>1, <2>1, <2>2, <2>3
  <2> QED  BY <2>4 DEF Heard
<1>7. ASSUME sse = "stream" PROVE ChannelTells' \/ Channel.missed'
  <2>1. streams[j].channel[Tab].open
    BY <1>7 DEF WebOK
  <2>2. LET new == streams'[j].channel[Tab]
        IN  new.missed \/ \E k \in DOMAIN new.events : new.events[k] = e
    BY <1>2, <1>3, <2>1, ChannelOffered
  <2> QED  BY <1>1, <1>2, <2>2 DEF ChannelTells, Channel
<1> QED  BY <1>6, <1>7

LEMMA HeardStays ==
  ASSUME IInv, IInv', StreamsOK, SpeakersOK, WebOK, NEW c \in Calls, Served(c),
         ReplayCapacity >= 4, sse = "snapshot", web.job \in Jobs, record[web.job].status \in Terminal,
         Heard(web.job)
  PROVE  Stale \/ Heard(web.job)'
<1> DEFINE j == web.job
           old == streams[j].replay
           new == streams'[j].replay
<1>1. web' = web /\ Says(c) /\ j \in Keys /\ Effects(c)
  BY DEF Served, Effects, fvars, Keys
<1>2. /\ Budget(j) \in 0 .. 3 /\ Budget(j)' \in 0 .. 3
      /\ Budget(j)' + One(Late(calls[c], j)) <= Budget(j)
  <2>1. PICK i \in Jobs : i = j
    OBVIOUS
  <2>2. /\ Budget(i) \in 0 .. 3 /\ Budget(i)' \in 0 .. 3
        /\ Budget(i)' + One(Late(calls[c], i)) <= Budget(i)
    BY <1>1, <2>1, BudgetFalls
  <2>3. i = web'.job
    BY <1>1, <2>1
  <2> QED  BY <2>1, <2>2, <2>3
<1>3. CASE calls[c].pc # "publish" \/ calls[c].job # j
  <2>1. streams'[j] = streams[j]
    BY <1>1, <1>3, SaysThis DEF Says
  <2>2. PICK i \in DOMAIN old : /\ old[i].status \in Terminal
                               /\ old[i].sequence > web.lastEvent
                               /\ Len(old) - i + Budget(j) <= 3
    BY DEF Heard
  <2>3. Len(old) \in Nat /\ i \in Nat
    BY <1>1, LenProperties DEF StreamsOK, StreamOK, StreamType
  <2>4. One(Late(calls[c], j)) \in {0, 1}
    BY DEF One
  <2> DEFINE b == Budget(j)
             bp == Budget(j)'
             n == Len(old)
  <2>5. n - i + bp <= 3
    <3> HIDE DEF b, bp, n
    <3>1. b \in 0 .. 3 /\ bp \in 0 .. 3 /\ bp <= b /\ n \in Nat /\ i \in Nat /\ n - i + b <= 3
      <4>1. bp <= b
        BY <1>2, <2>4 DEF b, bp
      <4> QED  BY <1>2, <2>2, <2>3, <4>1 DEF b, bp, n
    <3> QED  BY <3>1
  <2>6. Heard(web.job)'
    BY <1>1, <2>1, <2>2, <2>5 DEF Heard
  <2> QED  BY <2>6
<1>4. CASE Tells(calls[c], j)
  BY <1>2, <1>4, SaidIsHeard
<1>5. CASE Late(calls[c], j)
  <2> DEFINE e == Spoken(c)
  <2>1. /\ calls[c].pc = "publish" /\ calls[c].job = j
        /\ e \in Event /\ new = AppendReplay(old, e)
    BY <1>1, <1>5, SaysThis DEF Late
  <2>2. old \in Seq(Event) /\ Len(old) <= ReplayCapacity /\ Len(old) \in Nat
    BY <1>1, LenProperties DEF StreamsOK, StreamOK, StreamType
  <2>3. PICK i \in DOMAIN old : /\ old[i].status \in Terminal
                               /\ old[i].sequence > web.lastEvent
                               /\ Len(old) - i + Budget(j) <= 3
    BY DEF Heard
  <2>4. i \in 1 .. Len(old)
    BY <2>2, LenProperties
  <2> DEFINE b == Budget(j)
             bp == Budget(j)'
             n == Len(old)
  <2>5. bp \in 0 .. 3 /\ b \in 0 .. 3 /\ bp + 1 <= b
    BY <1>2, <1>5 DEF One
  <2>6. n - i + b <= 3 /\ i \in 1 .. n /\ n \in Nat
    BY <2>2, <2>3, <2>4
  <2>7. i > 1 \/ Len(old) < ReplayCapacity
    <3> HIDE DEF b, bp, n
    <3>1. n < 4 \/ i > 1
      BY <2>5, <2>6
    <3>2. ReplayCapacity \in Nat
      BY EventsAssumption
    <3> QED  BY <2>6, <3>1, <3>2 DEF n
  <2>8. PICK k \in DOMAIN new : new[k] = old[i] /\ Len(new) - k = Len(old) - i + 1
    <3>1. Shifts(old, new)
      BY <2>1, <2>2, ReplayAppends
    <3> HIDE DEF old, new
    <3> QED  BY <2>3, <2>7, <3>1 DEF Shifts
  <2>9. Len(new) - k + bp <= 3
    <3> HIDE DEF b, bp, n, new
    <3>1. n - i + 1 + bp <= 3
      BY <2>5, <2>6
    <3> QED  BY <2>8, <3>1 DEF n
  <2>10. new[k].status \in Terminal /\ new[k].sequence > web.lastEvent
    BY <2>3, <2>8
  <2> QED  BY <1>1, <2>8, <2>9, <2>10 DEF Heard
<1> QED  BY <1>3, <1>4, <1>5 DEF Tells, Late


LEMMA ServeKeepsLearns ==
  ASSUME IInv, IInv', StreamsOK, SpeakersOK, WebOK, LearnsOK, NEW c \in Calls, Served(c),
         ReplayCapacity >= 4
  PROVE  LearnsOK'
<1> SUFFICES ASSUME sse' # "none", record'[web'.job].status \in Terminal
             PROVE  /\ sse' = "snapshot" =>
                         (WireTells \/ Pending(web.job) \/ Stale \/ Heard(web.job))'
                    /\ sse' = "stream" =>
                         (WireTells \/ Pending(web.job) \/ web.foreign \/ Channel.missed
                           \/ ChannelTells)'
  BY DEF LearnsOK
<1>1. /\ web' = web /\ sse' = sse /\ wire' = wire /\ restarts' = restarts
      /\ Says(c) /\ Effects(c) /\ sse # "none" /\ record'[web.job].status \in Terminal
  BY DEF Served, Effects, fvars
<1>2. web.job \in Jobs /\ web.job \in Keys
  BY <1>1 DEF WebOK, Keys
<1>3. ASSUME NEW d \in Calls, Tells(calls'[d], web.job) PROVE Pending(web.job)'
  BY <1>1, <1>3 DEF Pending
<1>4. CASE Settling(web.job)
  BY <1>1, <1>2, <1>3, <1>4 DEF Effects
<1>5. CASE record[web.job].status \in Terminal
  <2>1. Budget(web.job)' \in 0 .. 3
    <3>1. PICK i \in Jobs : i = web.job
      BY <1>2
    <3>2. Budget(i)' \in 0 .. 3
      BY <1>1, <1>5, <3>1, BudgetFalls
    <3>3. i = web'.job
      BY <1>1, <3>1
    <3> QED  BY <3>2, <3>3
  <2>2. (WireTells => WireTells') /\ (Stale => Stale') /\ (web.foreign => web'.foreign)
    BY <1>1 DEF WireTells, Stale
  <2>3. Pending(web.job) => \/ Pending(web.job)' \/ Tells(calls[c], web.job)
    <3>1. ASSUME NEW d \in Calls \ {c}, Tells(calls[d], web.job) PROVE Tells(calls'[d], web.job)
      BY <1>1, <3>1 DEF Effects, SamePlace, Tells
    <3> QED  BY <1>3, <3>1 DEF Pending
  <2>4. ReplayCapacity # 0
    BY EventsAssumption
  <2>5. ASSUME Tells(calls[c], web.job)
        PROVE  /\ sse = "snapshot" => Stale \/ Heard(web.job)'
               /\ sse = "stream" => ChannelTells' \/ Channel.missed'
    BY <1>1, <2>1, <2>4, <2>5, SaidIsHeard
  <2>6. CASE sse = "snapshot"
    <3>1. WireTells \/ Pending(web.job) \/ Stale \/ Heard(web.job)
      BY <1>5, <2>6 DEF LearnsOK
    <3>2. Heard(web.job) => Stale \/ Heard(web.job)'
      BY <1>2, <1>5, <2>6, HeardStays
    <3> QED  BY <1>1, <2>2, <2>3, <2>5, <2>6, <3>1, <3>2
  <2>7. CASE sse = "stream"
    <3>1. WireTells \/ Pending(web.job) \/ web.foreign \/ Channel.missed \/ ChannelTells
      BY <1>5, <2>7 DEF LearnsOK
    <3>2. /\ Channel.missed => Channel'.missed
          /\ \A i \in DOMAIN Channel.events : \E k \in DOMAIN Channel'.events :
               Channel'.events[k] = Channel.events[i]
      <4>1. CASE calls[c].pc # "publish" \/ calls[c].job # web.job
        <5>1. streams'[web.job] = streams[web.job]
          BY <1>1, <1>2, <4>1, SaysThis DEF Says
        <5> QED  BY <1>1, <5>1 DEF Channel
      <4>2. CASE calls[c].pc = "publish" /\ calls[c].job = web.job
        <5>1. /\ Spoken(c) \in Event
              /\ streams'[web.job].channel[Tab] = Offer(streams[web.job].channel[Tab], Spoken(c))
          BY <1>1, <4>2, SaysThis, FollowerAssumption
        <5>2. streams[web.job].channel[Tab] \in ChannelType
          BY <1>2, FollowerAssumption DEF StreamsOK, StreamType
        <5> QED  BY <1>1, <5>1, <5>2, ChannelOffered DEF Channel
      <4> QED  BY <4>1, <4>2
    <3>3. ChannelTells => ChannelTells'
      BY <3>2 DEF ChannelTells
    <3> QED  BY <1>1, <2>2, <2>3, <2>5, <2>7, <3>1, <3>2, <3>3
  <2> QED  BY <1>1, <2>6, <2>7
<1> QED  BY <1>1, <1>2, <1>4, <1>5 DEF Settling


-------------------------------------------------------------------------------
(* The invariant of the follower, and what its own steps leave alone. That    *)
(* the tab learns what it has to is an invariant where four events are kept   *)
(* for replay.                                                                *)
FInv == IInv /\ JInv /\ SpeakersOK /\ StreamsOK /\ WebOK /\ TruthOK

Followed == FInv' /\ (LearnsOK => LearnsOK')

LEMMA RestartFollowed ==
  ASSUME FInv, Good, JInv', FRestart
  PROVE  Followed
<1>1. /\ restarts' = restarts + 1 /\ failures' = failures /\ restarts \in Nat
      /\ record' = [j \in Jobs |-> [record[j] EXCEPT !.status = Recovered(@)]]
      /\ calls' = [c \in Calls |-> Idle]
      /\ streams' = [k \in Keys |-> EmptyStream]
      /\ web' = [web EXCEPT !.pc = IF @ = "read" THEN "lost" ELSE @]
      /\ sse' = "none" /\ wire' = <<>>
  BY DEF FRestart, Restart, FInv, WebOK
<1>2. SpeakersOK'
  <2>1. \A c \in Calls : calls'[c].pc = "free"
    BY <1>1 DEF Idle
  <2> QED  BY <2>1 DEF SpeakersOK, SpeaksOwn, Creating, Late
<1>3. StreamOK(EmptyStream) /\ EmptyStream \in StreamType
  BY EventsAssumption DEF StreamOK, StreamType, EmptyStream, NoChannel, ChannelType
<1>4. StreamsOK'
  BY <1>1, <1>3 DEF StreamsOK
<1>5. web' \in WebType /\ web'.job = web.job /\ web'.shown = web.shown /\ web'.pc # "read"
      /\ web'.issued = web.issued /\ (web'.pc # "idle" => web.pc # "idle")
  BY <1>1 DEF FInv, WebOK, WebType
<1>6. web.issued <= restarts /\ web.issued \in Nat
  BY DEF FInv, WebOK, WebType
<1>7. web.issued <= restarts' /\ web.issued # restarts' /\ restarts' \in Nat
  BY <1>1, <1>6
<1>8. WebOK'
  BY <1>1, <1>5, <1>7 DEF FInv, WebOK
<1>9. TruthOK'
  <2>1. \A j \in Jobs : record[j] \in RecordType /\ Kept(j)
    BY DEF FInv, IInv, Good
  <2>2. Aging
    BY <1>1, <2>1 DEF Aging, RecordType, Recovered, InFlight
  <2>3. failures = 0 => Truth(web.job, web.shown)
    BY DEF FInv, TruthOK
  <2>4. failures = 0 => TruthLater(web.job, web.shown)
    BY <2>1, <2>2, <2>3, TruthStays
  <2>5. failures' = 0 => Truth(web.job, web.shown)'
    BY <1>1, <1>5, <2>4 DEF Truth, TruthLater
  <2>6. \A c \in Calls : calls'[c].pc # "publish"
    BY <1>1 DEF Idle
  <2>7. \A k \in Keys : DOMAIN streams'[k].replay = {}
                        /\ \A t \in Subscribers : DOMAIN streams'[k].channel[t].events = {}
    BY <1>1 DEF EmptyStream, NoChannel
  <2> QED  BY <1>1, <2>5, <2>6, <2>7 DEF TruthOK
<1>10. LearnsOK'
  BY <1>1 DEF LearnsOK
<1> QED  BY <1>2, <1>4, <1>8, <1>9, <1>10 DEF Followed, FInv, Good

(* A step of the tab or of its event request leaves the jobs alone.           *)
JobsAlone == UNCHANGED <<record, calls, sent, failures, restarts>>

LEMMA JobsAloneKeeps ==
  ASSUME FInv, JobsAlone
  PROVE  /\ IInv' /\ JInv' /\ SpeakersOK'
         /\ \A j \in Jobs : Pending(j) => Pending(j)'
BY DEF FInv, JobsAlone, IInv, JInv, StagesOK, InFlightHasRunner, Runs, SpeakersOK, Pending

LEMMA TruthCarries ==
  ASSUME TruthOK, JobsAlone,
         failures = 0 =>
           /\ \A k \in Keys : \A i \in DOMAIN streams'[k].replay :
                Truth(k, streams'[k].replay[i].status)
           /\ \A k \in Keys, t \in Subscribers : \A i \in DOMAIN streams'[k].channel[t].events :
                Truth(k, streams'[k].channel[t].events[i].status)
           /\ \A i \in DOMAIN wire' : Truth(web'.job, wire'[i].status)
           /\ Truth(web'.job, web'.shown)
  PROVE  TruthOK'
<1>1. \A j, status : Truth(j, status) => TruthLater(j, status)
  BY DEF Truth, TruthLater, JobsAlone
<1>2. failures' = failures /\ calls' = calls
  BY DEF JobsAlone
<1>3. failures = 0 => \A c \in Calls : calls[c].pc = "publish" =>
                        TruthLater(calls[c].job, calls[c].status)
  BY <1>1 DEF TruthOK
<1>4. failures = 0 =>
        /\ \A k \in Keys : \A i \in DOMAIN streams'[k].replay :
             TruthLater(k, streams'[k].replay[i].status)
        /\ \A k \in Keys, t \in Subscribers : \A i \in DOMAIN streams'[k].channel[t].events :
             TruthLater(k, streams'[k].channel[t].events[i].status)
        /\ \A i \in DOMAIN wire' : TruthLater(web'.job, wire'[i].status)
        /\ TruthLater(web'.job, web'.shown)
  BY <1>1
<1> QED  BY <1>2, <1>3, <1>4 DEF TruthOK, Truth, TruthLater

(* The channel of the tab changes, and nothing else in the streams.           *)
LEMMA ChannelChanges ==
  ASSUME StreamsOK, NEW j \in Keys, NEW channel \in ChannelType,
         streams' = [streams EXCEPT ![j] = [@ EXCEPT !.channel[Tab] = channel]],
         \A i \in DOMAIN channel.events : channel.events[i].sequence <= streams[j].sequence
  PROVE  /\ StreamsOK'
         /\ \A k \in Keys : /\ streams'[k].sequence = streams[k].sequence
                            /\ streams'[k].replay = streams[k].replay
                            /\ \A t \in Subscribers :
                                 streams'[k].channel[t] = IF k = j /\ t = Tab THEN channel
                                                          ELSE streams[k].channel[t]
<1> DEFINE s == [streams[j] EXCEPT !.channel[Tab] = channel]
<1>1. streams' = [streams EXCEPT ![j] = s]
  OBVIOUS
<1>2. streams[j] \in StreamType /\ StreamOK(streams[j]) /\ Tab \in Subscribers
  BY FollowerAssumption DEF StreamsOK
<1>3. /\ s \in StreamType
      /\ s.sequence = streams[j].sequence /\ s.replay = streams[j].replay
      /\ \A t \in Subscribers :
           s.channel[t] = IF t = Tab THEN channel ELSE streams[j].channel[t]
  BY <1>2 DEF StreamType
<1>4. StreamOK(s)
  BY <1>2, <1>3 DEF StreamOK
<1> HIDE DEF s
<1> QED  BY <1>1, <1>3, <1>4 DEF StreamsOK


LEMMA FollowFollowed ==
  ASSUME FInv, NEW j \in Jobs, Follow(j)
  PROVE  Followed
<1>1. /\ web.pc = "idle" /\ record[j].status \in Active
      /\ web' = [NoTab EXCEPT !.pc = "connect", !.job = j, !.shown = record[j].status]
      /\ UNCHANGED <<streams, sse, wire>> /\ JobsAlone /\ sse = "none" /\ wire = <<>>
  BY DEF Follow, vars, JobsAlone, FInv, WebOK
<1>2. /\ web'.pc = "connect" /\ web'.job = j /\ web'.shown = record[j].status
      /\ web'.lastEvent = 0 /\ web'.issued = 0 /\ web' \in WebType
  BY <1>1 DEF NoTab, WebType, Words, Stored, Active, InFlight, Keys
<1>3. restarts \in Nat /\ restarts' = restarts /\ streams' = streams
      /\ \A k \in Keys : streams[k].sequence \in Nat
  BY <1>1 DEF FInv, WebOK, JobsAlone, StreamsOK, StreamType
<1>4. WebOK'
  <2>1. j \in Keys /\ 0 <= restarts /\ 0 <= streams[j].sequence
    BY <1>3 DEF Keys
  <2> QED  BY <1>1, <1>2, <1>3, <2>1 DEF WebOK
<1>5. TruthOK'
  <2>1. Truth(web'.job, web'.shown)
    BY <1>1, <1>2 DEF Truth, Active, InFlight, Terminal
  <2> QED  BY <1>1, <2>1, TruthCarries DEF FInv, TruthOK
<1>6. StreamsOK'
  BY <1>1 DEF FInv, StreamsOK
<1>7. LearnsOK'
  BY <1>1 DEF LearnsOK
<1> QED  BY <1>1, <1>4, <1>5, <1>6, <1>7, JobsAloneKeeps DEF Followed, FInv

LEMMA ConnectFollowed ==
  ASSUME FInv, Connect
  PROVE  Followed
<1>1. /\ web.pc = "connect" /\ UNCHANGED streams /\ JobsAlone /\ sse = "none" /\ wire = <<>>
      /\ web.job \in Jobs /\ restarts' = restarts
  BY DEF Connect, vars, JobsAlone, FInv, WebOK
<1>2. StreamsOK'
  BY <1>1 DEF FInv, StreamsOK
<1>3. CASE Found(web.job)
  <2> DEFINE frame == [sequence |-> 0, status |-> record[web.job].status]
  <2>1. /\ web' = [web EXCEPT !.pc = "read"] /\ sse' = "snapshot" /\ wire' = <<frame>>
        /\ record[web.job].status \in Words
    BY <1>3 DEF Connect, Found, Words
  <2>2. /\ web' \in WebType /\ web'.pc = "read" /\ web'.job = web.job
        /\ web'.lastEvent = web.lastEvent /\ web'.issued = web.issued
        /\ web'.shown = web.shown
    BY <2>1 DEF FInv, WebOK, WebType
  <2>3. /\ wire' \in Seq(Frame) /\ DOMAIN wire' = {1} /\ wire'[1] = frame
    <3>1. frame \in Frame
      BY <2>1 DEF Frame
    <3> HIDE DEF frame
    <3> QED  BY <2>1, <3>1
  <2>4. streams[web.job].sequence \in Nat
    BY <1>1 DEF FInv, StreamsOK, StreamType, Keys
  <2>5. WebOK'
    BY <1>1, <2>1, <2>2, <2>3, <2>4 DEF FInv, WebOK
  <2>6. TruthOK'
    <3>1. Truth(web.job, record[web.job].status)
      BY <1>1 DEF Truth
    <3>2. \A i \in DOMAIN wire' : Truth(web'.job, wire'[i].status)
      BY <2>2, <2>3, <3>1
    <3> QED  BY <1>1, <2>2, <3>2, TruthCarries DEF FInv, TruthOK
  <2>7. LearnsOK'
    BY <1>1, <2>1, <2>2, <2>3 DEF LearnsOK, WireTells, JobsAlone
  <2> QED  BY <1>1, <1>2, <2>5, <2>6, <2>7, JobsAloneKeeps DEF Followed, FInv
<1>4. CASE ~Found(web.job)
  <2>1. web' = [web EXCEPT !.pc = "lost"] /\ UNCHANGED <<sse, wire>>
    BY <1>4 DEF Connect
  <2>2. /\ web' \in WebType /\ web'.pc = "lost" /\ web'.job = web.job
        /\ web'.lastEvent = web.lastEvent /\ web'.issued = web.issued
        /\ web'.shown = web.shown
    BY <2>1 DEF FInv, WebOK, WebType
  <2>3. WebOK'
    BY <1>1, <2>1, <2>2 DEF FInv, WebOK
  <2>4. TruthOK'
    BY <1>1, <2>1, <2>2, TruthCarries DEF FInv, TruthOK
  <2>5. LearnsOK'
    BY <1>1, <2>1 DEF LearnsOK
  <2> QED  BY <1>1, <1>2, <2>3, <2>4, <2>5, JobsAloneKeeps DEF Followed, FInv
<1> QED  BY <1>3, <1>4

LEMMA SubscribeFollowed ==
  ASSUME FInv, Subscribe
  PROVE  Followed
<1> DEFINE j == web.job
           events == EventsAfter(streams[j].replay, web.lastEvent)
           channel == [open |-> TRUE, capacity |-> Len(events) + SubscriberBuffer,
                       events |-> events, missed |-> FALSE]
<1>1. /\ sse = "snapshot" /\ sse' = "stream" /\ wire' = wire /\ JobsAlone
      /\ web' = [web EXCEPT !.foreign = web.lastEvent # 0 /\ web.issued # restarts]
      /\ restarts' = restarts /\ web.pc = "read" /\ j \in Jobs /\ j \in Keys
      /\ web.lastEvent \in Nat
  BY DEF Subscribe, StoreUnchanged, JobsAlone, FInv, WebOK, WebType, Keys
<1>2. /\ streams[j].replay \in Seq(Event)
      /\ \A i \in DOMAIN streams[j].replay :
           streams[j].replay[i].sequence <= streams[j].sequence
  BY <1>1 DEF FInv, StreamsOK, StreamOK, StreamType
<1>3. /\ events \in Seq(Event)
      /\ \A m \in DOMAIN events : \E i \in DOMAIN streams[j].replay :
           events[m] = streams[j].replay[i]
      /\ \A i \in DOMAIN streams[j].replay : streams[j].replay[i].sequence > web.lastEvent =>
           \E m \in DOMAIN events : events[m] = streams[j].replay[i]
  BY <1>1, <1>2, EventsAfterReturns
<1>4. channel \in ChannelType
  <2>1. Len(events) + SubscriberBuffer \in Nat
    BY <1>3, LenProperties, EventsAssumption
  <2> HIDE DEF events
  <2> QED  BY <1>3, <2>1 DEF ChannelType
<1>5. streams' = [streams EXCEPT ![j] = [@ EXCEPT !.channel[Tab] = channel]]
  BY DEF Subscribe, Subscribed
<1>6. channel.events = events /\ channel.open /\ ~channel.missed
  OBVIOUS
<1>7. \A m \in DOMAIN events : events[m].sequence <= streams[j].sequence
  BY <1>2, <1>3
<1> HIDE DEF channel, events, j
<1>8. /\ StreamsOK'
      /\ \A k \in Keys : /\ streams'[k].sequence = streams[k].sequence
                         /\ streams'[k].replay = streams[k].replay
                         /\ \A t \in Subscribers :
                              streams'[k].channel[t] = IF k = j /\ t = Tab THEN channel
                                                       ELSE streams[k].channel[t]
  BY <1>1, <1>4, <1>5, <1>6, <1>7, ChannelChanges DEF FInv
<1>9. /\ web' \in WebType /\ web'.pc = "read" /\ web'.job = j /\ web'.shown = web.shown
      /\ web'.lastEvent = web.lastEvent /\ web'.issued = web.issued
      /\ web'.foreign = Stale
  BY <1>1 DEF FInv, WebOK, WebType, Stale, j
<1>10. streams'[j].channel[Tab] = channel
  BY <1>1, <1>8, FollowerAssumption
<1>11. WebOK'
  BY <1>1, <1>6, <1>8, <1>9, <1>10 DEF FInv, WebOK, j
<1>12. TruthOK'
  <2>1. ASSUME failures = 0
        PROVE  /\ \A k \in Keys : \A i \in DOMAIN streams[k].replay :
                    Truth(k, streams[k].replay[i].status)
               /\ \A k \in Keys, t \in Subscribers : \A i \in DOMAIN streams[k].channel[t].events :
                    Truth(k, streams[k].channel[t].events[i].status)
               /\ (\A i \in DOMAIN wire : Truth(j, wire[i].status)) /\ Truth(j, web.shown)
    BY <2>1 DEF FInv, TruthOK, j
  <2>2. ASSUME failures = 0 PROVE \A m \in DOMAIN events : Truth(j, events[m].status)
    BY <1>1, <1>3, <2>1, <2>2
  <2>3. ASSUME failures = 0, NEW k \in Keys, NEW t \in Subscribers
        PROVE  \A i \in DOMAIN streams'[k].channel[t].events :
                 Truth(k, streams'[k].channel[t].events[i].status)
    <3>1. CASE k = j /\ t = Tab
      BY <1>6, <1>10, <2>2, <2>3, <3>1
    <3>2. CASE ~(k = j /\ t = Tab)
      BY <1>8, <2>1, <2>3, <3>2
    <3> QED  BY <3>1, <3>2
  <2> QED  BY <1>1, <1>8, <1>9, <2>1, <2>3, TruthCarries DEF FInv
<1>13. LearnsOK => LearnsOK'
  <2> SUFFICES ASSUME LearnsOK, record[j].status \in Terminal
               PROVE  (WireTells \/ Pending(web.job) \/ web.foreign \/ ChannelTells)'
    BY <1>1, <1>9 DEF LearnsOK, JobsAlone
  <2>1. WireTells \/ Pending(j) \/ Stale \/ Heard(j)
    BY <1>1 DEF LearnsOK, j
  <2>2. WireTells => WireTells'
    BY <1>1 DEF WireTells
  <2>3. Pending(j) => Pending(web.job)'
    BY <1>1, <1>9 DEF Pending, JobsAlone
  <2>4. Heard(j) => ChannelTells'
    <3>1. Heard(j) => \E m \in DOMAIN events : events[m].status \in Terminal
      BY <1>3 DEF Heard
    <3> QED  BY <1>6, <1>9, <1>10, <3>1 DEF ChannelTells, Channel
  <2> QED  BY <1>9, <2>1, <2>2, <2>3, <2>4
<1> QED  BY <1>1, <1>8, <1>11, <1>12, <1>13, JobsAloneKeeps DEF Followed, FInv


LEMMA SendFollowed ==
  ASSUME FInv, Send
  PROVE  Followed
<1> DEFINE j == web.job
           old == streams[j].channel[Tab]
           event == Head(old.events)
           frame == [sequence |-> event.sequence, status |-> event.status]
           channel == [old EXCEPT !.events = Tail(old.events)]
<1>1. /\ sse = "stream" /\ old.events # <<>> /\ UNCHANGED <<web, sse>> /\ JobsAlone
      /\ wire' = Append(wire, frame)
      /\ restarts' = restarts /\ j \in Jobs /\ j \in Keys /\ web.pc = "read"
  <2>1. /\ sse = "stream" /\ old.events # <<>> /\ UNCHANGED <<web, sse>> /\ JobsAlone
        /\ wire' = Append(wire, frame)
    BY DEF Send, StoreUnchanged, JobsAlone, Channel
  <2>2. j \in Jobs /\ j \in Keys /\ web.pc = "read"
    BY <2>1 DEF FInv, WebOK, Keys
  <2> QED  BY <2>1, <2>2 DEF JobsAlone
<1>2. /\ old \in ChannelType /\ old.open /\ streams[j].sequence \in Nat
      /\ \A i \in DOMAIN old.events : old.events[i].sequence <= streams[j].sequence
  BY <1>1, FollowerAssumption DEF FInv, StreamsOK, StreamOK, StreamType, WebOK
<1> DEFINE n == Len(old.events)
           rest == Tail(old.events)
<1>3. /\ old.events \in Seq(Event) /\ n \in Nat /\ n > 0 /\ DOMAIN old.events = 1 .. n
      /\ rest \in Seq(Event) /\ DOMAIN rest = 1 .. n - 1
      /\ \A i \in 1 .. n - 1 : rest[i] = old.events[i + 1]
      /\ event \in Event /\ event = old.events[1]
  <2>1. old.events \in Seq(Event)
    BY <1>2 DEF ChannelType
  <2> DEFINE s == old.events
  <2>2. s \in Seq(Event) /\ s # <<>>
    BY <1>1, <2>1
  <2> HIDE DEF s
  <2>3. Len(s) \in Nat /\ Len(s) # 0 /\ DOMAIN s = 1 .. Len(s)
    BY <2>2, EmptySeq, LenProperties
  <2>4. /\ Tail(s) \in Seq(Event) /\ Len(Tail(s)) = Len(s) - 1
        /\ \A i \in 1 .. Len(Tail(s)) : Tail(s)[i] = s[i + 1]
    BY <2>2, HeadTailProperties
  <2>5. DOMAIN Tail(s) = 1 .. Len(s) - 1
    BY <2>4, LenProperties
  <2>6. s[1] \in Event
    BY <2>2, <2>3, ElementOfSeq
  <2>7. Len(s) > 0 /\ Len(Tail(s)) = Len(s) - 1 /\ Head(s) = s[1]
    BY <2>2, <2>3, <2>4
  <2>8. \A i \in 1 .. Len(s) - 1 : Tail(s)[i] = s[i + 1]
    BY <2>4
  <2> QED  BY <2>2, <2>3, <2>4, <2>5, <2>6, <2>7, <2>8 DEF s
<1>4. /\ channel \in ChannelType /\ channel.events = rest /\ channel.open
      /\ channel.missed = old.missed
  BY <1>2, <1>3 DEF ChannelType
<1>5. streams' = [streams EXCEPT ![j] = [@ EXCEPT !.channel[Tab] = channel]]
  BY DEF Send, Received
<1>6. frame \in Frame /\ frame.sequence <= streams[j].sequence /\ frame.status = event.status
  <2>1. frame \in Frame /\ frame.sequence = event.sequence /\ frame.status = event.status
    BY <1>3 DEF Frame, Event
  <2>2. 1 \in DOMAIN old.events
    BY <1>3
  <2> QED  BY <1>2, <2>1, <2>2
<1>7. \A i \in DOMAIN rest : rest[i].sequence <= streams[j].sequence
  <2>1. \A i \in 1 .. n - 1 : i + 1 \in 1 .. n
    BY <1>3
  <2> QED  BY <1>2, <1>3, <2>1
<1> HIDE DEF channel, rest, frame, event, n, j
<1>8. /\ wire \in Seq(Frame) /\ Len(wire) \in Nat /\ DOMAIN wire = 1 .. Len(wire)
      /\ wire' \in Seq(Frame) /\ DOMAIN wire' = 1 .. Len(wire) + 1
      /\ wire'[Len(wire) + 1] = frame /\ \A i \in 1 .. Len(wire) : wire'[i] = wire[i]
  <2>1. wire \in Seq(Frame)
    BY DEF FInv, WebOK
  <2>2. wire' \in Seq(Frame) /\ Len(wire') = Len(wire) + 1
    BY <1>1, <1>6, <2>1, AppendProperties
  <2>3. /\ wire'[Len(wire) + 1] = frame
        /\ \A i \in 1 .. Len(wire) : wire'[i] = wire[i]
    BY <1>1, <1>6, <2>1, AppendProperties, Z3
  <2>4. /\ Len(wire) \in Nat /\ DOMAIN wire = 1 .. Len(wire)
        /\ DOMAIN wire' = 1 .. Len(wire')
    BY <2>1, <2>2, LenProperties
  <2> QED  BY <2>1, <2>2, <2>3, <2>4
<1>9. /\ StreamsOK'
      /\ \A k \in Keys : /\ streams'[k].sequence = streams[k].sequence
                         /\ streams'[k].replay = streams[k].replay
                         /\ \A t \in Subscribers :
                              streams'[k].channel[t] = IF k = j /\ t = Tab THEN channel
                                                       ELSE streams[k].channel[t]
  BY <1>1, <1>4, <1>5, <1>7, ChannelChanges DEF FInv
<1>10. streams'[j].channel[Tab] = channel
  BY <1>1, <1>9, FollowerAssumption
<1>11. \A i \in DOMAIN wire' : wire'[i] = frame \/ (i \in DOMAIN wire /\ wire'[i] = wire[i])
  BY <1>8
<1> HIDE DEF old
<1> USE DEF j
<1>12. WebOK'
  BY <1>1, <1>4, <1>6, <1>8, <1>9, <1>10, <1>11 DEF FInv, WebOK
<1>13. TruthOK'
  <2>1. ASSUME failures = 0
        PROVE  /\ \A k \in Keys : \A i \in DOMAIN streams[k].replay :
                    Truth(k, streams[k].replay[i].status)
               /\ \A k \in Keys, t \in Subscribers : \A i \in DOMAIN streams[k].channel[t].events :
                    Truth(k, streams[k].channel[t].events[i].status)
               /\ (\A i \in DOMAIN wire : Truth(j, wire[i].status)) /\ Truth(j, web.shown)
    BY <2>1 DEF FInv, TruthOK
  <2>2. ASSUME failures = 0 PROVE \A i \in DOMAIN old.events : Truth(j, old.events[i].status)
    BY <1>1, <2>1, <2>2, FollowerAssumption DEF old
  <2>3. ASSUME failures = 0 PROVE \A i \in DOMAIN rest : Truth(j, rest[i].status)
    <3>1. \A i \in DOMAIN rest : i + 1 \in DOMAIN old.events /\ rest[i] = old.events[i + 1]
      BY <1>3
    <3> QED  BY <2>2, <2>3, <3>1
  <2>4. ASSUME failures = 0 PROVE Truth(j, frame.status)
    <3>1. 1 \in DOMAIN old.events
      BY <1>3
    <3> QED  BY <1>6, <2>2, <2>4, <3>1 DEF event
  <2>5. ASSUME failures = 0, NEW k \in Keys, NEW t \in Subscribers
        PROVE  \A i \in DOMAIN streams'[k].channel[t].events :
                 Truth(k, streams'[k].channel[t].events[i].status)
    <3>1. CASE k = j /\ t = Tab
      BY <1>4, <1>10, <2>3, <2>5, <3>1
    <3>2. CASE ~(k = j /\ t = Tab)
      BY <1>9, <2>1, <2>5, <3>2
    <3> QED  BY <3>1, <3>2
  <2>6. ASSUME failures = 0 PROVE \A i \in DOMAIN wire' : Truth(web'.job, wire'[i].status)
    BY <1>1, <1>11, <2>1, <2>4, <2>6
  <2> QED  BY <1>1, <1>9, <2>1, <2>5, <2>6, TruthCarries DEF FInv
<1>14. LearnsOK => LearnsOK'
  <2> SUFFICES ASSUME LearnsOK, record[j].status \in Terminal
               PROVE  (WireTells \/ Pending(web.job) \/ web.foreign \/ Channel.missed
                         \/ ChannelTells)'
    BY <1>1 DEF LearnsOK, JobsAlone
  <2>1. WireTells \/ Pending(j) \/ web.foreign \/ Channel.missed \/ ChannelTells
    BY <1>1 DEF LearnsOK
  <2>2. WireTells => WireTells'
    BY <1>8 DEF WireTells
  <2>3. Pending(j) => Pending(web.job)'
    BY <1>1 DEF Pending, JobsAlone
  <2>4. Channel = old /\ Channel' = channel
    BY <1>1, <1>10 DEF Channel, old
  <2>5. ChannelTells => ChannelTells' \/ WireTells'
    <3> SUFFICES ASSUME NEW i \in DOMAIN old.events, old.events[i].status \in Terminal
                 PROVE  ChannelTells' \/ WireTells'
      BY <2>4 DEF ChannelTells
    <3>1. CASE i = 1
      <4>1. Len(wire) + 1 \in DOMAIN wire' /\ wire'[Len(wire) + 1].status \in Terminal
        BY <1>6, <1>8, <3>1 DEF event
      <4> QED  BY <4>1 DEF WireTells
    <3>2. CASE i # 1
      <4>1. i - 1 \in DOMAIN rest /\ rest[i - 1] = old.events[i]
        BY <1>3, <3>2
      <4> QED  BY <1>4, <2>4, <4>1 DEF ChannelTells
    <3> QED  BY <3>1, <3>2
  <2> QED  BY <1>1, <1>4, <2>1, <2>2, <2>3, <2>4, <2>5
<1> QED  BY <1>1, <1>9, <1>12, <1>13, <1>14, JobsAloneKeeps DEF Followed, FInv


LEMMA HangUpFollowed ==
  ASSUME FInv, JobsAlone, HangUp, web.pc # "idle",
         web' \in WebType, web'.job = web.job, web'.pc \notin {"read", "idle"},
         web'.issued <= restarts,
         web'.issued = restarts => web'.lastEvent <= streams[web.job].sequence,
         failures = 0 => Truth(web.job, web'.shown)
  PROVE  Followed
<1> DEFINE j == web.job
<1>1. /\ sse' = "none" /\ wire' = <<>> /\ restarts' = restarts /\ restarts \in Nat
      /\ streams' = [streams EXCEPT ![j] = [@ EXCEPT !.channel[Tab] = NoChannel]]
      /\ j \in Jobs /\ j \in Keys
  BY DEF HangUp, Unsubscribed, JobsAlone, FInv, WebOK, Keys
<1>2. NoChannel \in ChannelType /\ NoChannel.events = <<>> /\ DOMAIN NoChannel.events = {}
  BY DEF NoChannel, ChannelType
<1> HIDE DEF j
<1>3. /\ StreamsOK'
      /\ \A k \in Keys : /\ streams'[k].sequence = streams[k].sequence
                         /\ streams'[k].replay = streams[k].replay
                         /\ \A t \in Subscribers :
                              streams'[k].channel[t] = IF k = j /\ t = Tab THEN NoChannel
                                                       ELSE streams[k].channel[t]
  BY <1>1, <1>2, ChannelChanges DEF FInv
<1> USE DEF j
<1>4. WebOK'
  BY <1>1, <1>3 DEF WebOK
<1>5. TruthOK'
  <2>1. ASSUME failures = 0, NEW k \in Keys, NEW t \in Subscribers
        PROVE  \A i \in DOMAIN streams'[k].channel[t].events :
                 Truth(k, streams'[k].channel[t].events[i].status)
    <3>1. CASE k = j /\ t = Tab
      BY <1>2, <1>3, <3>1
    <3>2. CASE ~(k = j /\ t = Tab)
      BY <1>3, <2>1, <3>2 DEF FInv, TruthOK
    <3> QED  BY <3>1, <3>2
  <2>2. ASSUME failures = 0, NEW k \in Keys
        PROVE  \A i \in DOMAIN streams'[k].replay : Truth(k, streams'[k].replay[i].status)
    BY <1>3, <2>2 DEF FInv, TruthOK
  <2> QED  BY <1>1, <2>1, <2>2, TruthCarries DEF FInv
<1>6. LearnsOK'
  BY <1>1 DEF LearnsOK
<1> QED  BY <1>1, <1>3, <1>4, <1>5, <1>6, JobsAloneKeeps DEF Followed, FInv

LEMMA BreakFollowed ==
  ASSUME FInv, Break
  PROVE  Followed
<1>1. /\ web.pc = "read" /\ web' = [web EXCEPT !.pc = "lost"] /\ HangUp /\ JobsAlone
  BY DEF Break, StoreUnchanged, JobsAlone
<1>2. /\ web' \in WebType /\ web'.pc = "lost" /\ web'.job = web.job
      /\ web'.lastEvent = web.lastEvent /\ web'.issued = web.issued
      /\ web'.shown = web.shown
  BY <1>1 DEF FInv, WebOK, WebType
<1> QED  BY <1>1, <1>2, HangUpFollowed DEF FInv, WebOK, TruthOK

LEMMA RefetchFollowed ==
  ASSUME FInv, Refetch
  PROVE  Followed
<1> DEFINE status == record[web.job].status
           again == [web EXCEPT !.attempt = @ + 1,
                       !.pc = IF web.attempt + 1 < Attempts THEN "connect" ELSE "interrupted"]
<1>1. /\ web.pc = "lost" /\ UNCHANGED <<streams, sse, wire>> /\ JobsAlone
      /\ sse = "none" /\ wire = <<>> /\ web.job \in Jobs /\ restarts' = restarts
      /\ web \in WebType
  BY DEF Refetch, vars, JobsAlone, FInv, WebOK
<1>2. again \in WebType /\ again.pc \in {"connect", "interrupted"}
      /\ again.job = web.job /\ again.shown = web.shown
      /\ again.lastEvent = web.lastEvent /\ again.issued = web.issued
  <2>1. web.attempt + 1 \in Nat
    BY <1>1 DEF WebType
  <2> QED  BY <1>1, <2>1 DEF WebType
<1>3. PICK shown \in {web.shown, status} :
        /\ shown = status => shown \in Words
        /\ web' \in WebType /\ web'.shown = shown /\ web'.pc \notin {"read", "idle"}
        /\ web'.job = web.job /\ web'.lastEvent = web.lastEvent /\ web'.issued = web.issued
  <2>1. CASE web' = again
    BY <1>1, <1>2, <2>1 DEF WebType
  <2>2. CASE Found(web.job) /\ status \in Terminal
             /\ web' = [web EXCEPT !.shown = status, !.pc = "done"]
    BY <1>1, <2>2 DEF WebType, Found, Words
  <2>3. CASE Found(web.job) /\ web' = [again EXCEPT !.shown = status]
    <3> HIDE DEF again
    <3> QED  BY <1>2, <2>3 DEF WebType, Found, Words
  <2> QED  BY <2>1, <2>2, <2>3 DEF Refetch
<1>4. StreamsOK'
  BY <1>1 DEF FInv, StreamsOK
<1>5. WebOK'
  BY <1>1, <1>3 DEF FInv, WebOK
<1>6. TruthOK'
  <2>1. Truth(web.job, status)
    BY <1>1 DEF Truth
  <2>2. failures = 0 => Truth(web'.job, web'.shown)
    BY <1>3, <2>1 DEF FInv, TruthOK
  <2> QED  BY <1>1, <1>3, <2>2, TruthCarries DEF FInv, TruthOK
<1>7. LearnsOK'
  BY <1>1 DEF LearnsOK
<1> QED  BY <1>1, <1>4, <1>5, <1>6, <1>7, JobsAloneKeeps DEF Followed, FInv

(* What a tab takes from the frames it reads.                                 *)
LEMMA ReadTakes ==
  ASSUME FInv, web.pc = "read", NEW n \in 1 .. Len(wire),
         NEW chunk, chunk = SubSeq(wire, 1, n)
  PROVE  /\ DOMAIN chunk = 1 .. n /\ n \in DOMAIN wire /\ DOMAIN wire = 1 .. Len(wire)
         /\ Len(wire) \in Nat /\ \A i \in 1 .. n : chunk[i] = wire[i]
         /\ \/ Shown(web.shown, chunk) = web.shown
            \/ \E i \in DOMAIN wire : Shown(web.shown, chunk) = wire[i].status
         /\ LastEvent(chunk) \in Nat
         /\ \/ LastEvent(chunk) = web.lastEvent
            \/ /\ sse = "stream"
               /\ LastEvent(chunk) <= streams[web.job].sequence
<1> DEFINE top == streams[web.job].sequence
           last == web.lastEvent
<1>1. /\ wire \in Seq(Frame) /\ Len(wire) \in Nat /\ DOMAIN wire = 1 .. Len(wire)
      /\ top \in Nat /\ last \in Nat /\ \A i \in DOMAIN wire : wire[i].sequence <= top
      /\ sse \in {"snapshot", "stream"}
      /\ sse = "snapshot" => \A i \in DOMAIN wire : wire[i].sequence = 0
  <2>1. wire \in Seq(Frame) /\ web.job \in Keys
    BY DEF FInv, WebOK, WebType
  <2> QED  BY <2>1, LenProperties DEF FInv, WebOK, WebType, StreamsOK, StreamType
<1>2. \A i \in 1 .. n : wire[i] \in Frame /\ i \in DOMAIN wire
  BY <1>1, ElementOfSeq
<1>3. DOMAIN chunk = 1 .. n /\ \A i \in 1 .. n : chunk[i] = wire[i]
  <2>1. n \in Int /\ 1 \in Int /\ 1 <= n
    BY <1>1
  <2>2. /\ SubSeq(wire, 1, n) \in Seq(Frame)
        /\ Len(SubSeq(wire, 1, n)) = IF 1 <= n THEN n - 1 + 1 ELSE 0
        /\ \A i \in 1 .. n - 1 + 1 : SubSeq(wire, 1, n)[i] = wire[1 + i - 1]
    BY <1>2, <2>1, SubSeqProperties, Z3
  <2>3. Len(chunk) = n /\ chunk \in Seq(Frame)
    BY <2>1, <2>2
  <2>4. DOMAIN chunk = 1 .. n
    BY <2>3, LenProperties
  <2>5. \A i \in 1 .. n : i \in 1 .. n - 1 + 1 /\ 1 + i - 1 = i
    BY <2>1
  <2> QED  BY <2>2, <2>4, <2>5
<1> HIDE DEF top, last
<1>4. \/ Shown(web.shown, chunk) = web.shown
      \/ \E i \in DOMAIN wire : Shown(web.shown, chunk) = wire[i].status
  <2> DEFINE named == {i \in DOMAIN chunk : chunk[i].status # ""}
  <2>1. CASE named # {}
    <3>1. named \subseteq Nat /\ n \in Nat /\ \A x \in named : x <= n
      <4>1. named \subseteq DOMAIN chunk
        OBVIOUS
      <4>2. n \in Nat
        BY <1>1
      <4> HIDE DEF named
      <4> QED  BY <1>3, <4>1, <4>2
    <3>2. Max(named) \in named
      <4> HIDE DEF named
      <4> QED  BY <2>1, <3>1, MaxIs
    <3>3. Shown(web.shown, chunk) = chunk[Max(named)].status
      BY <2>1 DEF Shown
    <3> QED  BY <1>2, <1>3, <3>2, <3>3
  <2>2. CASE named = {}
    BY <2>2 DEF Shown
  <2> QED  BY <2>1, <2>2
<1>5. /\ LastEvent(chunk) \in Nat
      /\ LastEvent(chunk) = last \/ (sse = "stream" /\ LastEvent(chunk) <= top)
  <2> DEFINE S == {last} \cup {chunk[i].sequence : i \in DOMAIN chunk}
  <2>1. \A i \in DOMAIN chunk : chunk[i].sequence \in Nat /\ chunk[i].sequence <= top
                                /\ (sse = "snapshot" => chunk[i].sequence = 0)
    BY <1>1, <1>2, <1>3 DEF Frame
  <2>2. S \subseteq Nat /\ S # {} /\ last \in S /\ top + last \in Nat
    BY <1>1, <2>1
  <2>3. \A x \in S : x = last \/ (x <= top /\ (sse = "snapshot" => x = 0))
    BY <2>1
  <2>4. \A x \in S : x <= top + last
    <3> HIDE DEF S
    <3> QED  BY <1>1, <2>2, <2>3
  <2>5. LastEvent(chunk) = Max(S)
    BY DEF LastEvent, last
  <2> HIDE DEF S
  <2>6. Max(S) \in S /\ \A x \in S : x <= Max(S)
    BY <2>2, <2>4, MaxIs
  <2>7. Max(S) \in Nat /\ last <= Max(S)
    BY <2>2, <2>6
  <2>8. Max(S) = last \/ (sse = "stream" /\ Max(S) <= top)
    BY <1>1, <2>3, <2>6, <2>7
  <2> QED  BY <2>5, <2>7, <2>8
<1> QED  BY <1>1, <1>2, <1>3, <1>4, <1>5 DEF top, last


LEMMA ReadFollowed ==
  ASSUME FInv, Read
  PROVE  Followed
<1>1. PICK n \in 1 .. Len(wire) :
        LET chunk == SubSeq(wire, 1, n)
            last == LastEvent(chunk)
        IN  /\ web' = [web EXCEPT
                 !.pc = IF Settles(chunk) THEN "done" ELSE "read",
                 !.shown = Shown(@, chunk),
                 !.lastEvent = last,
                 !.issued = IF last = web.lastEvent THEN @ ELSE restarts]
            /\ IF Settles(chunk) THEN HangUp
               ELSE /\ wire' = SubSeq(wire, n + 1, Len(wire))
                    /\ UNCHANGED <<sse, streams>>
  BY DEF Read
<1> DEFINE chunk == SubSeq(wire, 1, n)
           last == LastEvent(chunk)
           shown == Shown(web.shown, chunk)
           rest == SubSeq(wire, n + 1, Len(wire))
<1>2. web.pc = "read" /\ JobsAlone /\ web.job \in Jobs /\ web.job \in Keys /\ web \in WebType
  BY DEF Read, StoreUnchanged, JobsAlone, FInv, WebOK, Keys
<1>3. /\ DOMAIN chunk = 1 .. n /\ n \in DOMAIN wire /\ DOMAIN wire = 1 .. Len(wire)
      /\ Len(wire) \in Nat /\ \A i \in 1 .. n : chunk[i] = wire[i]
      /\ shown = web.shown \/ \E i \in DOMAIN wire : shown = wire[i].status
      /\ last \in Nat
      /\ \/ last = web.lastEvent
         \/ sse = "stream" /\ last <= streams[web.job].sequence
  <2> HIDE DEF chunk
  <2>1. chunk = SubSeq(wire, 1, n)
    BY DEF chunk
  <2> QED  BY <1>2, <2>1, ReadTakes
<1>4. /\ web' = [web EXCEPT
              !.pc = IF Settles(chunk) THEN "done" ELSE "read", !.shown = shown,
              !.lastEvent = last,
              !.issued = IF last = web.lastEvent THEN @ ELSE restarts]
      /\ Settles(chunk) => HangUp
      /\ ~Settles(chunk) => wire' = rest /\ UNCHANGED <<sse, streams>>
  BY <1>1
<1> HIDE DEF chunk, last, shown, rest
<1>5. wire \in Seq(Frame) /\ restarts \in Nat /\ restarts' = restarts
      /\ \A i \in DOMAIN wire : wire[i] \in Frame
  <2>1. wire \in Seq(Frame)
    BY DEF FInv, WebOK
  <2> QED  BY <1>2, <2>1, ElementOfSeq, LenProperties DEF FInv, WebOK, JobsAlone
<1>6. shown \in Words /\ (failures = 0 => Truth(web.job, shown))
  <2>1. \A i \in DOMAIN wire : wire[i].status \in Words
    BY <1>5 DEF Frame
  <2>2. web.shown \in Words
    BY <1>2 DEF WebType
  <2>3. failures = 0 => /\ \A i \in DOMAIN wire : Truth(web.job, wire[i].status)
                        /\ Truth(web.job, web.shown)
    BY DEF FInv, TruthOK
  <2> QED  BY <1>3, <2>1, <2>2, <2>3
<1>7. /\ web' \in WebType /\ web'.job = web.job /\ web'.shown = shown
      /\ web'.pc = IF Settles(chunk) THEN "done" ELSE "read"
      /\ web'.lastEvent = last /\ web'.foreign = web.foreign
      /\ web'.issued = IF last = web.lastEvent THEN web.issued ELSE restarts
  BY <1>2, <1>3, <1>4, <1>5, <1>6 DEF WebType
<1>8. /\ web'.issued <= restarts
      /\ web'.issued = restarts => web'.lastEvent <= streams[web.job].sequence
  BY <1>3, <1>5, <1>7 DEF FInv, WebOK
<1>9. CASE Settles(chunk)
  BY <1>2, <1>4, <1>6, <1>7, <1>8, <1>9, HangUpFollowed
<1>10. CASE ~Settles(chunk)
  <2>1. wire' = rest /\ sse' = sse /\ streams' = streams /\ web'.pc = "read"
    BY <1>4, <1>7, <1>10
  <2>2. /\ wire' \in Seq(Frame)
        /\ \A i \in DOMAIN wire' : i + n \in DOMAIN wire /\ wire'[i] = wire[i + n]
        /\ \A i \in DOMAIN wire : i > n => i - n \in DOMAIN wire' /\ wire'[i - n] = wire[i]
    <3> DEFINE N == Len(wire)
    <3>1. n \in Nat /\ N \in Nat /\ n <= N /\ n + 1 \in Int /\ N \in Int
      BY <1>3
    <3>2. \A i \in n + 1 .. N : wire[i] \in Frame
      BY <1>3, <1>5, <3>1
    <3> HIDE DEF N
    <3>3. /\ SubSeq(wire, n + 1, N) \in Seq(Frame)
          /\ Len(SubSeq(wire, n + 1, N)) = IF n + 1 <= N THEN N - (n + 1) + 1 ELSE 0
          /\ \A i \in 1 .. N - (n + 1) + 1 : SubSeq(wire, n + 1, N)[i] = wire[(n + 1) + i - 1]
      BY <3>1, <3>2, SubSeqProperties, Z3
    <3>4. wire' = SubSeq(wire, n + 1, N)
      BY <2>1 DEF rest, N
    <3>5. Len(wire') = N - n
      BY <3>1, <3>3, <3>4
    <3>6. DOMAIN wire' = 1 .. N - n
      BY <3>3, <3>4, <3>5, LenProperties
    <3>7. \A i \in 1 .. N - n : i \in 1 .. N - (n + 1) + 1 /\ (n + 1) + i - 1 = i + n
      BY <3>1
    <3>8. \A i \in 1 .. N - n : wire'[i] = wire[i + n] /\ i + n \in 1 .. N
      BY <3>1, <3>3, <3>4, <3>7
    <3>9. \A i \in 1 .. N : i > n => i - n \in 1 .. N - n /\ (i - n) + n = i
      BY <3>1
    <3>10. DOMAIN wire = 1 .. N
      BY <1>3 DEF N
    <3>11. \A i \in 1 .. N : i > n => i - n \in 1 .. N - n /\ wire'[i - n] = wire[i]
      <4> SUFFICES ASSUME NEW i \in 1 .. N, i > n
                   PROVE  i - n \in 1 .. N - n /\ wire'[i - n] = wire[i]
        OBVIOUS
      <4>1. i - n \in 1 .. N - n /\ (i - n) + n = i
        BY <3>9
      <4>2. wire'[i - n] = wire[(i - n) + n]
        BY <3>8, <4>1
      <4> QED  BY <4>1, <4>2
    <3> QED  BY <3>3, <3>4, <3>6, <3>8, <3>10, <3>11
  <2>3. StreamsOK'
    BY <2>1 DEF FInv, StreamsOK
  <2>4. sse # "none" /\ sse \in {"snapshot", "stream"}
    BY <1>2 DEF FInv, WebOK
  <2>5. WebOK'
    BY <1>2, <1>5, <1>7, <1>8, <2>1, <2>2, <2>4 DEF FInv, WebOK
  <2>6. TruthOK'
    <3>1. failures = 0 => \A i \in DOMAIN wire' : Truth(web'.job, wire'[i].status)
      BY <1>7, <2>2 DEF FInv, TruthOK
    <3> QED  BY <1>2, <1>6, <1>7, <2>1, <3>1, TruthCarries DEF FInv, TruthOK
  <2>7. LearnsOK => LearnsOK'
    <3> SUFFICES ASSUME LearnsOK, record[web.job].status \in Terminal
                 PROVE  LearnsOK'
      BY <1>2, <1>7 DEF LearnsOK, JobsAlone
    <3>1. WireTells => WireTells'
      <4>1. ASSUME NEW i \in DOMAIN wire, wire[i].status \in Terminal PROVE i > n
        BY <1>3, <1>10, <4>1 DEF Settles
      <4> QED  BY <2>2, <4>1 DEF WireTells
    <3>2. Pending(web.job) => Pending(web.job)'
      BY <1>2, <1>7 DEF Pending, JobsAlone
    <3>3. CASE sse = "stream"
      <4>1. Channel' = Channel
        BY <1>7, <2>1 DEF Channel
      <4> QED  BY <1>7, <2>1, <3>1, <3>2, <3>3, <4>1 DEF LearnsOK, ChannelTells
    <3>4. CASE sse = "snapshot"
      <4>1. last = web.lastEvent /\ web'.lastEvent = web.lastEvent /\ web'.issued = web.issued
        BY <1>3, <1>7, <3>4
      <4>2. Stale => Stale'
        BY <1>5, <4>1 DEF Stale
      <4>3. Heard(web.job) => Heard(web.job)'
        BY <1>2, <1>7, <2>1, <4>1 DEF Heard, Budget, JobsAlone
      <4> QED  BY <1>7, <2>1, <3>1, <3>2, <3>4, <4>2, <4>3 DEF LearnsOK
    <3> QED  BY <2>4, <3>3, <3>4
  <2> QED  BY <1>2, <2>3, <2>5, <2>6, <2>7, JobsAloneKeeps DEF Followed, FInv
<1> QED  BY <1>9, <1>10


LEMMA FNextFollowed ==
  ASSUME FInv, [FNext]_allVars
  PROVE  FInv' /\ (ReplayCapacity >= 4 /\ LearnsOK => LearnsOK')
<1>1. CASE UNCHANGED allVars
  BY <1>1 DEF allVars, vars, FInv, IInv, JInv, StagesOK, InFlightHasRunner, Runs, SpeakersOK,
     StreamsOK, WebOK, TruthOK, Truth, LearnsOK, WireTells, Pending, Stale, Heard, Budget,
     Channel, ChannelTells
<1>2. CASE Serve /\ UNCHANGED fvars
  <2>1. IInv' /\ Good
    BY <1>2, NextGood DEF FInv, Next, Good
  <2>2. JInv'
    BY <1>2, NextKeepsJ DEF FInv, Next
  <2>3. PICK c \in Calls : Effects(c)
    BY <1>2, ServeHasEffects DEF FInv
  <2>4. Served(c) /\ Says(c)
    BY <1>2, <2>1, <2>3 DEF Served, Effects
  <2> QED  BY <2>1, <2>2, <2>3, <2>4, ServeKeepsSpeakers, ServeKeepsStreams, ServeKeepsWeb,
              ServeKeepsTruth, ServeKeepsLearns DEF FInv
<1>3. CASE FRestart
  <2>1. Good /\ JInv'
    BY <1>3, NextGood, NextKeepsJ DEF FInv, FRestart, Next
  <2> QED  BY <1>3, <2>1, RestartFollowed DEF Followed
<1>4. ASSUME NEW j \in Jobs, Follow(j) PROVE Followed
  BY <1>4, FollowFollowed
<1>5. CASE FollowerStep \/ Break
  BY <1>5, ConnectFollowed, SubscribeFollowed, SendFollowed, ReadFollowed, RefetchFollowed,
     BreakFollowed DEF Followed, FollowerStep
<1> QED  BY <1>1, <1>2, <1>3, <1>4, <1>5 DEF FNext, Followed

LEMMA FInitFollowed == FInit => FInv /\ LearnsOK
<1> SUFFICES ASSUME FInit PROVE FInv /\ LearnsOK
  OBVIOUS
<1>1. Init /\ web = NoTab /\ sse = "none" /\ wire = <<>>
  BY DEF FInit
<1>2. IInv /\ JInv
  BY <1>1, InitGood, InitJ
<1>3. /\ streams = [k \in Keys |-> EmptyStream] /\ restarts = 0
      /\ \A c \in Calls : calls[c].pc = "free"
  BY <1>1 DEF Init, Idle
<1>4. SpeakersOK
  BY <1>3 DEF SpeakersOK, SpeaksOwn, Creating, Late
<1>5. StreamOK(EmptyStream) /\ EmptyStream \in StreamType
  BY EventsAssumption DEF StreamOK, StreamType, EmptyStream, NoChannel, ChannelType
<1>6. StreamsOK
  BY <1>3, <1>5 DEF StreamsOK
<1>7. WebOK
  <2>1. web \in WebType
    BY <1>1 DEF WebType, NoTab, Words, Keys
  <2>2. web.pc = "idle" /\ web.issued = 0 /\ web.lastEvent = 0 /\ web.job = NoJob
    BY <1>1 DEF NoTab
  <2>3. streams[web.job].sequence = 0
    BY <1>3, <2>2 DEF Keys, EmptyStream
  <2>4. wire \in Seq(Frame) /\ DOMAIN wire = {}
    BY <1>1
  <2> QED  BY <1>1, <1>3, <2>1, <2>2, <2>3, <2>4 DEF WebOK
<1>8. TruthOK
  <2>1. Truth(web.job, web.shown)
    BY <1>1 DEF Truth, NoTab, Terminal
  <2>2. \A k \in Keys : DOMAIN streams[k].replay = {}
                        /\ \A t \in Subscribers : DOMAIN streams[k].channel[t].events = {}
    BY <1>3 DEF EmptyStream, NoChannel
  <2> QED  BY <1>1, <1>3, <2>1, <2>2 DEF TruthOK
<1>9. LearnsOK
  BY <1>1 DEF LearnsOK
<1> QED  BY <1>2, <1>4, <1>6, <1>7, <1>8, <1>9 DEF FInv

(* A settled status that a tab shows is the one in the file, whatever was     *)
(* delayed, replayed or read again: it needs no correction.                   *)
THEOREM ShownIsTrue == FSpec => []SettledShownIsStored
<1>1. FInv => SettledShownIsStored
  BY DEF FInv, TruthOK, Truth, SettledShownIsStored
<1>2. FInv /\ [FNext]_allVars => FInv'
  BY FNextFollowed
<1> QED  BY <1>1, <1>2, FInitFollowed, PTL DEF FSpec

(* A tab that has read everything knows that its job has settled, or has lost *)
(* an event in one of the two ways CaughtUpKnows names. It takes a replay     *)
(* buffer of four events (the code keeps 64): after the event that settles a  *)
(* job three late ones can still be published on it, and push that event out  *)
(* of a smaller buffer between the snapshot and the subscription.             *)
THEOREM FollowerLearns ==
  ASSUME ReplayCapacity >= 4
  PROVE  FSpec => []CaughtUpKnows
<1>1. FInv /\ LearnsOK => CaughtUpKnows
  <2> SUFFICES ASSUME FInv, LearnsOK, ~CaughtUpKnows PROVE FALSE
    OBVIOUS
  <2>1. /\ sse = "stream" /\ wire = <<>> /\ Channel.events = <<>>
        /\ ~Channel.missed /\ ~web.foreign
        /\ \A c \in Calls : ~(calls[c].pc = "publish" /\ calls[c].job = web.job)
        /\ record[web.job].status \in Terminal
    BY DEF CaughtUpKnows
  <2>2. WireTells \/ Pending(web.job) \/ ChannelTells
    BY <2>1 DEF LearnsOK
  <2>3. ~Pending(web.job)
    BY <2>1 DEF Pending, Tells
  <2>4. DOMAIN wire = {} /\ DOMAIN Channel.events = {}
    BY <2>1
  <2> QED  BY <2>2, <2>3, <2>4 DEF WireTells, ChannelTells
<1>2. FInv /\ LearnsOK /\ [FNext]_allVars => FInv' /\ LearnsOK'
  BY FNextFollowed
<1> QED  BY <1>1, <1>2, FInitFollowed, PTL DEF FSpec
===============================================================================
