------------------------------- MODULE WebQueue -------------------------------
(***************************************************************************)
(* The generation queue of one desk of the web workstation: the queue and  *)
(* the canvas in memory, the copy in local storage with its autosave, the  *)
(* copy that the service keeps of the session, one generation per task     *)
(* (generate) against the jobs of the service, and the effect that follows *)
(* the jobs which outlived a refresh.                                      *)
(*                                                                         *)
(* Every task is an image without references sent as a job of the service, *)
(* so that nothing is awaited before the request; the queue has no         *)
(* limit of length or concurrency (GENERATION_CONCURRENCY is 0), so that a *)
(* task starts as soon as it is added.  The step of a handler between two  *)
(* awaits is one action.  The clocks of the page and of the service agree: *)
(* time is the number of copies the service has stamped.  A request whose  *)
(* failure changes nothing but a message may stay unanswered instead.      *)
(***************************************************************************)
EXTENDS Naturals, FiniteSets, Functions

CONSTANTS
  Tasks,          \* identifiers of tasks of this desk
  Prompt,         \* the fingerprint of each task
  Spare,          \* bound: the identifiers of tasks that only a retry takes
  Jobs,           \* identifiers of jobs of the service; also of "remote-job"
  NoJob, NoDoc, Nobody, Sync,
  Endings,        \* how a job of the service may end that nobody cancels
  MaxSaves,       \* bound of the copies sent to the service
  MaxReloads      \* bound of refreshes

ASSUME EndingsAreFinal == Endings \subseteq {"succeeded", "failed", "unknown"}
ASSUME NamesDiffer == Tasks \cap Jobs = {} /\ NoJob \notin Jobs /\ {Nobody, Sync} \cap Tasks = {}

VARIABLES
  queue,          \* generationQueueRef: identifier -> item
  canvas,         \* the jobs whose picture is on the canvas
  changed,        \* updatedAt of the session in memory
  stored,         \* the session in local storage
  pending,        \* the snapshot that the autosave holds
  adopted,        \* history: memory is a copy of the service no write has stored
  due,            \* the save timer of the App runs; its payload is the session stored
  saves,          \* the copies sent to the service, in flight or answered
  clock,          \* how many copies the service has stamped
  server,         \* the copy the service keeps
  run,            \* the generation of each task: phase, job, live (active context)
  foreground,     \* generationRef: the task (or Sync) that owns the controller
  used,           \* identifiers of tasks taken
  abandoned,      \* history: generations the user or the timeout gave up
  sync,           \* the remote-jobs effect: phase, listed, todo, job
  recovered,      \* recoveredJobIds
  cancels,        \* the cancel request of each job, or the status it answered
  jobs,           \* the jobs of the service: status and fingerprint
  reloads

desk  == <<queue, canvas, changed, stored, pending, adopted, due>>
copy  == <<saves, clock, server>>
work  == <<run, foreground, used, abandoned>>
vars  == <<desk, copy, work, sync, recovered, cancels, jobs, reloads>>

Active    == {"queued", "upstream"}                  \* isActiveServerJobStatus
Final     == {"succeeded", "failed", "unknown", "canceled"}
NotRun    == [phase |-> "idle", job |-> NoJob, live |-> FALSE]
SyncOff   == [phase |-> "off", listed |-> [j \in Jobs |-> "none"], todo |-> {}, job |-> NoJob]

---------------------------------------------------------------------------
(* The queue: items and the pure functions of util/generationJobs.js.      *)

Item(status, job, remote, prompt) ==
  [status |-> status, job |-> job, remote |-> remote, prompt |-> prompt]

Local(t) == Item("running", NoJob, FALSE, Prompt[t])

\* queueStatusFromServerJob
QueueStatus(s) == CASE s = "succeeded" -> "done" [] s = "upstream" -> "running" [] OTHER -> s

ItemsOf(q, j) == {i \in DOMAIN q : q[i].job = j}

\* Mutant: a job the service still runs takes the place of a canceled item
Upsert_Wrong(q, j, s) ==
  [i \in (DOMAIN q \ ItemsOf(q, j)) \cup {j} |->
     IF i = j THEN Item(QueueStatus(s), j, TRUE, Nobody) ELSE q[i]]

\* upsertRemoteGenerationJobTask: one item "remote-j" replaces those of job j
Upsert(q, j, s) ==
  IF s \in Active /\ \E i \in ItemsOf(q, j) : q[i].status = "canceled"
  THEN q
  ELSE [i \in (DOMAIN q \ ItemsOf(q, j)) \cup {j} |->
          IF i = j
          THEN Item(QueueStatus(s), j, TRUE, Nobody)
          ELSE q[i]]

\* markRemoteGenerationJobTask
MarkJob(q, j, status) ==
  [i \in DOMAIN q |-> IF q[i].job = j THEN [q[i] EXCEPT !.status = status] ELSE q[i]]

\* runGenerationQueue on a queue whose only queued items are of the service
RunQueue(q) ==
  [i \in DOMAIN q |-> IF q[i].status = "queued" THEN [q[i] EXCEPT !.status = "failed"] ELSE q[i]]

\* restoredQueueStatus: what a refresh makes of an item, also applied by every save
RestoredStatus(item) ==
  IF item.job = NoJob /\ item.status = "running" THEN "failed" ELSE item.status

Restored(q) ==
  [i \in DOMAIN q |-> Item(RestoredStatus(q[i]), q[i].job, q[i].remote, q[i].prompt)]

\* sanitizeGenerationQueue of the service drops the fingerprint
Sanitized(q) == [i \in DOMAIN q |-> Item(q[i].status, q[i].job, q[i].remote, Nobody)]

Doc(q, c, at) == [queue |-> Restored(q), canvas |-> c, at |-> at]

Same(doc, q, c) == doc.queue = Restored(q) /\ doc.canvas = c

---------------------------------------------------------------------------
Init ==
  /\ queue = <<>> /\ canvas = {} /\ changed = 0
  /\ stored = Doc(queue, canvas, 0) /\ pending = NoDoc /\ adopted = FALSE
  /\ due = FALSE /\ saves = [k \in 1 .. MaxSaves |-> [state |-> "unused", doc |-> NoDoc]]
  /\ clock = 0 /\ server = NoDoc
  /\ run = [t \in Tasks |-> NotRun] /\ foreground = Nobody
  /\ used = {} /\ abandoned = {}
  /\ sync = SyncOff /\ recovered = {}                 \* a new desk has no jobs
  /\ cancels = [j \in Jobs |-> "none"]
  /\ jobs = [j \in Jobs |-> [status |-> "none", prompt |-> Nobody]]
  /\ reloads = 0

\* Nothing is kept for a save or a refresh beyond its bound
SaveLeft  == \E k \in DOMAIN saves : saves[k].state = "unused"
Kept(doc) == IF reloads' < MaxReloads THEN doc ELSE NoDoc

\* Mutant: the autosave keeps the snapshot it holds
Commit_Wrong(q, c) ==
  /\ queue' = q /\ canvas' = c /\ changed' = clock
  /\ stored' = Doc(q, c, clock)
  /\ pending' = pending
  /\ adopted' = FALSE
  /\ due' = SaveLeft

\* commitCurrentSessionPatch: written at once, the autosave is dropped, the App told
Commit(q, c) ==
  /\ queue' = q /\ canvas' = c /\ changed' = clock
  /\ stored' = Doc(q, c, clock)
  /\ pending' = NoDoc
  /\ adopted' = FALSE
  /\ due' = SaveLeft

\* applySessionSnapshot: a copy of the service takes the place of the desk
Adopt(doc) ==
  /\ queue' = doc.queue /\ canvas' = doc.canvas /\ changed' = doc.at

---------------------------------------------------------------------------
(* Autosave and the copy of the service.                                   *)

\* The snapshot effect: anything of the desk changed, the user typed
Snapshot ==
  /\ pending' = Doc(queue, canvas, 0)
  /\ changed' = clock
  /\ UNCHANGED <<queue, canvas, stored, adopted, due, copy, work, sync, recovered, cancels, jobs, reloads>>

\* The idle or the longest timer of the autosave fires
Flush ==
  /\ pending # NoDoc
  /\ stored' = [pending EXCEPT !.at = clock]
  /\ due' = SaveLeft
  /\ pending' = NoDoc
  /\ adopted' = (adopted /\ ~Same(pending, queue, canvas))
  /\ changed' = IF Same(pending, queue, canvas) THEN clock ELSE changed
  /\ UNCHANGED <<queue, canvas, copy, work, sync, recovered, cancels, jobs, reloads>>

\* handleSessionSnapshot, 800 ms later
SendSave(k) ==
  /\ due /\ saves[k].state = "unused"
  /\ saves' = [saves EXCEPT ![k] = [state |-> "sent", doc |-> stored]]
  /\ due' = FALSE
  /\ UNCHANGED <<queue, canvas, changed, stored, pending, adopted, clock, server,
                 work, sync, recovered, cancels, jobs, reloads>>

\* POST session: the service stamps the copy when it has sanitized it
StoreSave(k) ==
  /\ saves[k].state \in {"sent", "orphan"}
  /\ clock' = clock + 1
  /\ UNCHANGED <<desk, work, sync, recovered, cancels, jobs, reloads>>
  /\ LET doc == [queue |-> Sanitized(saves[k].doc.queue), canvas |-> saves[k].doc.canvas, at |-> clock + 1]
     IN /\ server' = Kept(doc)
        /\ saves' = [saves EXCEPT ![k] = IF saves[k].state = "sent"
                                         THEN [state |-> "stored", doc |-> doc]
                                         ELSE [state |-> "done", doc |-> NoDoc]]

\* An older copy than one already answered is not taken (setRemoteSession)
Latest(k) == \A l \in DOMAIN saves : saves[l].state = "taken" => saves[l].doc.at <= saves[k].doc.at

\* The answer becomes remoteSession, and the desk takes it unless it changed later
SaveAnswered(k) ==
  /\ saves[k].state = "stored"
  /\ saves' = [saves EXCEPT ![k] = [state |-> "taken", doc |-> [at |-> saves[k].doc.at]]]
  /\ IF Latest(k) /\ changed < saves[k].doc.at
     THEN Adopt(saves[k].doc) /\ adopted' = TRUE
     ELSE UNCHANGED <<queue, canvas, changed, adopted>>
  /\ UNCHANGED <<stored, pending, due, clock, server, work, sync, recovered, cancels, jobs, reloads>>

---------------------------------------------------------------------------
(* One generation: enqueueGenerationTask, runGenerationQueue, generate.    *)

\* The context becomes inactive and its controller is aborted
Drop(t) ==
  /\ run' = [run EXCEPT ![t].live = FALSE]
  /\ foreground' = IF foreground = t THEN Nobody ELSE foreground

Start(t, q) ==
  /\ t \notin used
  /\ used' = used \cup {t}
  /\ Commit(RunQueue([i \in DOMAIN q \cup {t} |-> IF i = t THEN Local(t) ELSE q[i]]), canvas)
  /\ run' = [run EXCEPT ![t] = [phase |-> "posting", job |-> NoJob, live |-> TRUE]]
  /\ foreground' = t
  /\ UNCHANGED <<copy, abandoned, sync, recovered, cancels, jobs, reloads>>

Submit(t) ==
  /\ t \notin Spare
  /\ \A i \in DOMAIN queue : queue[i].prompt = Prompt[t] => queue[i].status \notin {"queued", "running"}
  /\ Start(t, queue)

\* retryGenerationTask: the item is replaced; the duplicate check is not repeated
Retry(i, t) ==
  /\ i \in DOMAIN queue /\ queue[i].status \in {"failed", "canceled"}
  /\ ~queue[i].remote
  /\ i \in Tasks /\ Prompt[t] = Prompt[i]
  /\ Start(t, [k \in DOMAIN queue \ {i} |-> queue[k]])

\* generate returns, the task still running is settled and the queue run again
End(t, q, c, status) ==
  /\ run' = [run EXCEPT ![t] = NotRun]
  /\ foreground' = IF foreground = t THEN Nobody ELSE foreground
  /\ Commit(RunQueue([i \in DOMAIN q |-> IF i = t /\ q[i].status = "running"
                                        THEN [q[i] EXCEPT !.status = status] ELSE q[i]]), c)
  /\ abandoned' = abandoned \ {t}
  /\ UNCHANGED <<copy, used, sync, recovered, cancels, jobs, reloads>>

\* isCurrentRequest
Current(t) == run[t].live

\* The service makes a job, or answers the active one with the same fingerprint
Accept(t, j) ==
  /\ run[t].phase = "posting"
  /\ LET twins == {k \in Jobs : jobs[k].status \in Active /\ jobs[k].prompt = Prompt[t]}
     IN IF twins # {} THEN j \in twins ELSE jobs[j].status = "none"
  /\ jobs' = IF jobs[j].status = "none"
             THEN [jobs EXCEPT ![j] = [status |-> "queued", prompt |-> Prompt[t]]] ELSE jobs
  /\ run' = [run EXCEPT ![t].phase = "posted", ![t].job = j]
  /\ UNCHANGED <<desk, copy, foreground, used, abandoned, sync, recovered, cancels, reloads>>

\* The request or its answer is lost; no client fallback outside development
PostFails(t) ==
  /\ run[t].phase \in {"posting", "posted"}
  /\ End(t, queue, canvas, "failed")

\* The item is tied to the job, even when the generation was given up
Posted(t) ==
  /\ run[t].phase = "posted"
  /\ run' = [run EXCEPT ![t].phase = "waiting"]
  /\ Commit([i \in DOMAIN queue |-> IF i = t
                                    THEN [queue[i] EXCEPT !.job = run[t].job, !.remote = TRUE]
                                    ELSE queue[i]], canvas)
  /\ UNCHANGED <<copy, foreground, used, abandoned, sync, recovered, cancels, jobs, reloads>>

\* waitForServerJob returns, or its sleep is aborted
Waited(t) ==
  LET j == run[t].job
      s == jobs[j].status
  IN /\ run[t].phase = "waiting"
     /\ \/ ~Current(t) /\ End(t, queue, canvas, "failed")
        \/ /\ Current(t) /\ s \in Final \ {"succeeded"}
           /\ End(t, Upsert(queue, j, s), canvas, "failed")
        \/ /\ Current(t) /\ s = "succeeded"
           /\ run' = [run EXCEPT ![t].phase = "resolving"]
           /\ UNCHANGED <<desk, copy, foreground, used, abandoned, sync, recovered, cancels, jobs, reloads>>

\* Mutant: not asked again after the pictures are fetched
Resolved_Wrong(t) ==
  /\ run[t].phase = "resolving"
  /\ End(t, queue, canvas \cup {run[t].job}, "done")

\* The pictures are fetched and, if still wanted, put on the canvas
Resolved(t) ==
  /\ run[t].phase = "resolving"
  /\ IF Current(t)
     THEN End(t, queue, canvas \cup {run[t].job}, "done")
     ELSE End(t, queue, canvas, "failed")

\* GENERATION_TIMEOUT_MS: the page gives up
TimesOut(t) ==
  /\ run[t].phase # "idle" /\ Current(t)
  /\ Drop(t)
  /\ abandoned' = abandoned \cup {t}
  /\ UNCHANGED <<desk, copy, used, sync, recovered, cancels, jobs, reloads>>

---------------------------------------------------------------------------
(* The user.                                                               *)

\* cancelGenerationTask of an item of the service
CancelRemote(i) ==
  LET j == queue[i].job
      mine == i \in Tasks /\ run[i].job = j /\ run[i].live
  IN /\ i \in DOMAIN queue /\ queue[i].status \in {"queued", "running"}
     /\ queue[i].remote /\ j # NoJob
     /\ IF mine
        THEN Drop(i) /\ abandoned' = abandoned \cup {i}
        ELSE UNCHANGED <<run, foreground, abandoned>>
     /\ Commit([queue EXCEPT ![i].status = "canceled"], canvas)
     /\ cancels' = [cancels EXCEPT ![j] = "asked"]
     /\ UNCHANGED <<copy, used, sync, recovered, jobs, reloads>>

\* stopGeneration of a task whose job the item does not know
StopLocal(t) ==
  /\ t \in DOMAIN queue /\ queue[t].status = "running" /\ ~queue[t].remote
  /\ run[t].live
  /\ Drop(t)
  /\ abandoned' = abandoned \cup {t}
  /\ LET failed == [queue EXCEPT ![t].status = "failed"]
         known  == run[t].phase \in {"waiting", "resolving"}
     IN /\ Commit(IF known THEN MarkJob(failed, run[t].job, "canceled") ELSE failed, canvas)
        /\ cancels' = IF known THEN [cancels EXCEPT ![run[t].job] = "asked"] ELSE cancels
  /\ UNCHANGED <<copy, used, sync, recovered, jobs, reloads>>

\* acknowledgeGenerationTask
Dismiss(i) ==
  /\ i \in DOMAIN queue /\ queue[i].status \notin {"queued", "running"}
  /\ Commit([k \in DOMAIN queue \ {i} |-> queue[k]], canvas)
  /\ UNCHANGED <<copy, work, sync, recovered, cancels, jobs, reloads>>

\* A refresh: the autosave is flushed when the page is left in order; then the
\* newer of the local copy and that of the service is opened
Reload ==
  /\ reloads < MaxReloads
  /\ reloads' = reloads + 1
  /\ \E local \in {stored} \cup {[d EXCEPT !.at = clock] : d \in {pending} \ {NoDoc}} :
       LET open == IF server # NoDoc /\ local.at < server.at THEN server ELSE local
       IN Adopt(open) /\ stored' = open
  /\ pending' = NoDoc /\ adopted' = FALSE /\ due' = FALSE
  /\ saves' = [k \in DOMAIN saves |->
                 CASE saves[k].state = "sent" -> [state |-> "orphan", doc |-> Kept(saves[k].doc)]
                   [] saves[k].state \in {"stored", "taken"} -> [state |-> "done", doc |-> NoDoc]
                   [] OTHER -> saves[k]]
  /\ run' = [t \in Tasks |-> NotRun] /\ foreground' = Nobody
  /\ abandoned' = {}
  /\ sync' = [SyncOff EXCEPT !.phase = "asked"] /\ recovered' = {}
  /\ cancels' = [j \in Jobs |-> "none"]
  /\ server' = Kept(server)
  /\ UNCHANGED <<clock, used, jobs>>

---------------------------------------------------------------------------
(* The remote-jobs effect.                                                 *)

\* The service lists its jobs
List ==
  /\ sync.phase = "asked"
  /\ sync' = [sync EXCEPT !.phase = "listed", !.listed = [j \in Jobs |-> jobs[j].status]]
  /\ UNCHANGED <<desk, copy, work, recovered, cancels, jobs, reloads>>

\* The list arrives: every visible job is taken into the queue
UpsertAll(q, statuses) ==
  FoldFunctionOnSet(LAMBDA p, acc : IF p.status \in Active \cup {"failed", "unknown", "canceled"}
                                    THEN Upsert(acc, p.job, p.status) ELSE acc,
                    q, [j \in Jobs |-> [job |-> j, status |-> statuses[j]]], Jobs)

Listed ==
  /\ sync.phase = "listed"
  /\ Commit(UpsertAll(queue, sync.listed), canvas)
  /\ sync' = [sync EXCEPT !.phase = "attaching", !.todo = {j \in Jobs : sync.listed[j] = "succeeded"}]
  /\ UNCHANGED <<copy, work, recovered, cancels, jobs, reloads>>

\* attachServerJobResult before its await: nothing to do for a picture already shown
BeginAttach(j) ==
  /\ \/ sync.phase = "attaching" /\ j \in sync.todo
     \/ sync.phase = "polling" /\ sync.job = j /\ jobs[j].status = "succeeded"
  /\ IF j \in recovered \cup canvas
     THEN recovered' = recovered \cup {j} /\ sync' = [sync EXCEPT
            !.todo = @ \ {j}, !.phase = IF @ = "polling" THEN "attached" ELSE @]
     ELSE UNCHANGED recovered /\ sync' = [sync EXCEPT
            !.job = j, !.phase = IF @ = "polling" THEN "fetchingLast" ELSE "fetching"]
  /\ UNCHANGED <<desk, copy, work, cancels, jobs, reloads>>

\* ... and after it: the pictures are put on the canvas and the item is done
Attach ==
  LET j == sync.job
  IN /\ sync.phase \in {"fetching", "fetchingLast"}
     /\ Commit(MarkJob(queue, j, "done"), canvas \cup {j})
     /\ recovered' = recovered \cup {j}
     /\ sync' = [sync EXCEPT !.todo = @ \ {j},
                             !.phase = IF @ = "fetching" THEN "attaching" ELSE "attached"]
     /\ UNCHANGED <<copy, work, cancels, jobs, reloads>>

SyncEnds(q) ==
  /\ Commit(q, canvas)
  /\ foreground' = IF foreground = Sync THEN Nobody ELSE foreground
  /\ sync' = SyncOff
  /\ UNCHANGED <<copy, run, used, abandoned, recovered, cancels, jobs, reloads>>

\* A generation has the foreground: the effect leaves the jobs to it
YieldForeground ==
  /\ sync.phase = "attaching" /\ sync.todo = {} /\ foreground # Nobody
  /\ sync' = SyncOff
  /\ UNCHANGED <<desk, copy, work, recovered, cancels, jobs, reloads>>

\* One active job of the list is followed
Follow(j) ==
  /\ sync.phase = "attaching" /\ sync.todo = {} /\ foreground = Nobody
  /\ sync.listed[j] \in Active /\ j \notin recovered
  /\ Commit(Upsert(queue, j, sync.listed[j]), canvas)
  /\ foreground' = Sync
  /\ sync' = [sync EXCEPT !.phase = "polling", !.job = j]
  /\ UNCHANGED <<copy, run, used, abandoned, recovered, cancels, jobs, reloads>>

NothingToFollow ==
  /\ sync.phase = "attaching" /\ sync.todo = {} /\ foreground = Nobody
  /\ \A j \in Jobs : sync.listed[j] \notin Active
  /\ LET stopped == {j \in Jobs \ recovered : sync.listed[j] \in {"unknown", "failed"}}
     IN IF stopped = {}
        THEN sync' = SyncOff /\ UNCHANGED <<desk, copy, work, recovered, cancels, jobs, reloads>>
        ELSE \E j \in stopped : SyncEnds(MarkJob(queue, j, sync.listed[j]))

\* The job followed has ended
Followed ==
  LET j == sync.job
  IN \/ sync.phase = "attached" /\ SyncEnds(MarkJob(queue, j, "done"))
     \/ /\ sync.phase = "polling" /\ jobs[j].status \in Final \ {"succeeded"}
        /\ SyncEnds(Upsert(queue, j, jobs[j].status))

---------------------------------------------------------------------------
(* The jobs of the service, as much of them as the desk can tell apart.    *)

Serve(j) ==
  /\ \/ jobs[j].status = "queued" /\ jobs' = [jobs EXCEPT ![j].status = "upstream"]
     \/ jobs[j].status = "upstream"
        /\ \E s \in Endings : jobs' = [jobs EXCEPT ![j].status = s]
  /\ UNCHANGED <<desk, copy, work, sync, recovered, cancels, reloads>>

\* The cancel request arrives: a job sent upstream has an unknown result
ServeCancel(j) ==
  /\ cancels[j] = "asked"
  /\ jobs' = CASE jobs[j].status = "queued" -> [jobs EXCEPT ![j].status = "canceled"]
               [] jobs[j].status = "upstream" -> [jobs EXCEPT ![j].status = "unknown"]
               [] OTHER -> jobs
  /\ cancels' = [cancels EXCEPT ![j] = jobs'[j].status]
  /\ UNCHANGED <<desk, copy, work, sync, recovered, reloads>>

CancelAnswered(j) ==
  /\ cancels[j] \notin {"none", "asked"}
  /\ Commit(Upsert(queue, j, cancels[j]), canvas)
  /\ cancels' = [cancels EXCEPT ![j] = "none"]
  /\ UNCHANGED <<copy, work, sync, recovered, jobs, reloads>>

---------------------------------------------------------------------------
Generate(t) ==
  PostFails(t) \/ Posted(t) \/ Waited(t) \/ Resolved(t)

Next ==
  \/ Snapshot \/ Flush
  \/ \E k \in 1 .. MaxSaves : SendSave(k) \/ StoreSave(k) \/ SaveAnswered(k)
  \/ \E t \in Tasks : Submit(t) \/ Generate(t) \/ TimesOut(t) \/ StopLocal(t)
  \/ \E t \in Tasks, j \in Jobs : Accept(t, j)
  \/ \E i, t \in Tasks : Retry(i, t)
  \/ \E i \in DOMAIN queue : CancelRemote(i) \/ Dismiss(i)
  \/ Reload
  \/ List \/ Listed \/ Attach \/ YieldForeground \/ NothingToFollow \/ Followed
  \/ \E j \in Jobs : BeginAttach(j) \/ Follow(j) \/ Serve(j) \/ ServeCancel(j) \/ CancelAnswered(j)

Spec == Init /\ [][Next]_vars

---------------------------------------------------------------------------
(* Transitions of the queue are durable immediately, ahead of the autosave *)
(* (commitCurrentSessionPatch): local storage holds the queue and the      *)
(* canvas in memory, as a refresh would restore them, unless the desk has  *)
(* just taken a copy of the service.  A snapshot that the autosave still   *)
(* holds never overwrites a later transition.                              *)
DurableTransitions == adopted \/ Same(stored, queue, canvas)

(* A generation puts no picture on the canvas after the user canceled or   *)
(* stopped its task or the page gave it up, whichever await it was in      *)
(* (isCurrentRequest in generate).                                         *)
Publishes(t) ==
  /\ reloads' = reloads
  /\ run[t].phase = "resolving" /\ run[t].job \notin canvas
  /\ run'[t].phase = "idle" /\ run[t].job \in canvas'
AbandonedNeverPublish == [][\A t \in abandoned : ~Publishes(t)]_vars

(* A task the user canceled is not shown queued or running again by an     *)
(* older list of jobs or by the late answer of the cancel request, unless  *)
(* another task is tied to its job (upsertRemoteGenerationJobTask).        *)
Shown(q, j, statuses) == \E i \in ItemsOf(q, j) : q[i].status \in statuses
CanceledStays ==
  [][\A j \in Jobs :
       /\ Shown(queue, j, {"canceled"}) /\ ~Shown(queue, j, {"queued", "running"})
       /\ ~adopted' /\ reloads' = reloads
       => \/ ~Shown(queue', j, {"queued", "running"})
          \/ \E t \in Tasks : run[t].phase = "posted" /\ run[t].job = j]_vars

(* "a late arrival for the same session only fills an empty canvas rather  *)
(* than overwriting an edited one" (useCanvasNodes.js:41): within one      *)
(* opening of the page a picture on the canvas stays there.                *)
CanvasKept == [][reloads' = reloads => canvas \subseteq canvas']_vars
=============================================================================
