----------------------------- MODULE WebQueueProofs -----------------------------
(***************************************************************************)
(* Theorems about WebQueue, for any tasks, jobs and bounds: a generation   *)
(* that was given up publishes nothing, local storage never falls behind   *)
(* the queue, whatever the autosave still holds, and a task the user       *)
(* canceled is not shown running again.                                    *)
(***************************************************************************)
EXTENDS WebQueue, FiniteSetTheorems, WellFoundedInduction, TLAPS

-------------------------------------------------------------------------------
(* Generations.                                                            *)

(* A generation that was given up is not current, and an identifier is     *)
(* never taken twice, so that nothing makes it current again.              *)
Phases == {"idle", "posting", "posted", "waiting", "resolving"}

RunsInv ==
  /\ run \in [Tasks -> [phase : Phases, job : Jobs \cup {NoJob}, live : BOOLEAN]]
  /\ reloads \in Nat
  /\ abandoned \subseteq used \cap Tasks
  /\ \A t \in Tasks : run[t].live \/ run[t].phase # "idle" => t \in used
  /\ \A t \in Tasks : t \in abandoned => ~run[t].live
  /\ \A t \in Tasks : run[t].phase \in {"posted", "waiting", "resolving"} => run[t].job \in Jobs

LEMMA RunsInit == Init => RunsInv
  BY DEF Init, RunsInv, NotRun, Phases

(* What the actions do to a generation: it ends, is given up, or goes on.  *)
LEMMA EndKeepsRuns ==
  ASSUME RunsInv, NEW t \in Tasks, NEW q, NEW c, NEW status, End(t, q, c, status)
  PROVE  RunsInv'
  BY DEF RunsInv, End, NotRun, Phases

LEMMA DropKeepsRuns ==
  ASSUME RunsInv, NEW t \in Tasks, Drop(t), t \in used,
         abandoned' = abandoned \cup {t}, UNCHANGED << used, reloads >>
  PROVE  RunsInv'
  BY DEF RunsInv, Drop, Phases

LEMMA SameKeepsRuns ==
  ASSUME RunsInv, UNCHANGED << run, used, abandoned, reloads >>
  PROVE  RunsInv'
  BY DEF RunsInv

LEMMA StartKeepsRuns ==
  ASSUME RunsInv, NEW t \in Tasks, NEW q, Start(t, q)
  PROVE  RunsInv'
  BY DEF RunsInv, Start, Phases

LEMMA OnwardKeepsRuns ==
  ASSUME RunsInv, NEW t \in Tasks, run[t].phase # "idle",
         NEW phase \in Phases, NEW job \in Jobs,
         run' = [run EXCEPT ![t].phase = phase, ![t].job = job],
         UNCHANGED << used, abandoned, reloads >>
  PROVE  RunsInv'
  BY DEF RunsInv, Phases

LEMMA PhaseKeepsRuns ==
  ASSUME RunsInv, NEW t \in Tasks, run[t].phase \in {"posted", "waiting"},
         NEW phase \in Phases, run' = [run EXCEPT ![t].phase = phase],
         UNCHANGED << used, abandoned, reloads >>
  PROVE  RunsInv'
<1> DEFINE new == [phase |-> phase, job |-> run[t].job, live |-> run[t].live]
<1>1. run[t].job \in Jobs
  BY DEF RunsInv
<1>2. [run[t] EXCEPT !.phase = phase] = new
  <2>1. run[t] \in [phase : Phases, job : Jobs \cup {NoJob}, live : BOOLEAN]
    BY DEF RunsInv
  <2> QED  BY <2>1
<1>3. run' = [run EXCEPT ![t] = new]
  BY <1>2
<1>4. new \in [phase : Phases, job : Jobs \cup {NoJob}, live : BOOLEAN]
  BY <1>1 DEF RunsInv
<1> HIDE DEF new
<1>5. \A u \in Tasks : run'[u] = IF u = t THEN new ELSE run[u]
  BY <1>3 DEF RunsInv
<1> QED  BY <1>1, <1>3, <1>4, <1>5 DEF RunsInv, new

LEMMA GenerateKeepsRuns ==
  ASSUME RunsInv, NEW t \in Tasks, Generate(t)
  PROVE  RunsInv'
<1>1. CASE PostFails(t)
  BY <1>1, EndKeepsRuns DEF PostFails
<1>2. CASE Posted(t)
  <2>1. /\ run[t].phase # "idle" /\ UNCHANGED << used, abandoned, reloads >>
        /\ run' = [run EXCEPT ![t].phase = "waiting"] /\ run[t].phase = "posted"
    BY <1>2 DEF Posted
  <2> QED  BY <2>1, PhaseKeepsRuns DEF Phases
<1>3. CASE Waited(t)
  <2>1. CASE \E q, status : End(t, q, canvas, status)
    BY <2>1, EndKeepsRuns
  <2>2. CASE /\ run[t].phase = "waiting" /\ UNCHANGED << used, abandoned, reloads >>
             /\ run' = [run EXCEPT ![t].phase = "resolving"]
    BY <2>2, PhaseKeepsRuns DEF Phases
  <2> QED  BY <1>3, <2>1, <2>2 DEF Waited, work
<1>4. CASE Resolved(t)
  BY <1>4, EndKeepsRuns DEF Resolved
<1> QED  BY <1>1, <1>2, <1>3, <1>4 DEF Generate

LEMMA RunsStep == RunsInv /\ [Next]_vars => RunsInv'
<1> SUFFICES ASSUME RunsInv, [Next]_vars
             PROVE  RunsInv'
  OBVIOUS
<1>1. ASSUME NEW t \in Tasks, Submit(t) \/ \E i \in Tasks : Retry(i, t)
      PROVE  RunsInv'
  BY <1>1, StartKeepsRuns DEF Submit, Retry
<1>2. ASSUME NEW t \in Tasks, TimesOut(t) \/ StopLocal(t)
      PROVE  RunsInv'
  <2>1. Drop(t) /\ t \in used /\ abandoned' = abandoned \cup {t} /\ UNCHANGED << used, reloads >>
    BY <1>2 DEF TimesOut, StopLocal, RunsInv
  <2> QED  BY <2>1, DropKeepsRuns
<1>3. ASSUME NEW i \in DOMAIN queue, CancelRemote(i)
      PROVE  RunsInv'
  <2>1. CASE UNCHANGED << run, used, abandoned, reloads >>
    BY <2>1, SameKeepsRuns
  <2>2. CASE /\ i \in Tasks /\ run[i].live /\ Drop(i)
             /\ abandoned' = abandoned \cup {i} /\ UNCHANGED << used, reloads >>
    BY <2>2, DropKeepsRuns DEF RunsInv
  <2> QED  BY <1>3, <2>1, <2>2 DEF CancelRemote
<1>4. ASSUME NEW t \in Tasks, NEW j \in Jobs, Accept(t, j)
      PROVE  RunsInv'
  <2>1. /\ run[t].phase # "idle" /\ UNCHANGED << used, abandoned, reloads >>
        /\ run' = [run EXCEPT ![t].phase = "posted", ![t].job = j]
    BY <1>4 DEF Accept
  <2> QED  BY <2>1 DEF RunsInv, Phases
<1>5. CASE Reload
  BY <1>5 DEF Reload, RunsInv, NotRun, Phases
<1>6. CASE UNCHANGED << run, used, abandoned, reloads >>
  BY <1>6, SameKeepsRuns
<1>7. ASSUME NEW j \in Jobs,
             BeginAttach(j) \/ Follow(j) \/ Serve(j) \/ ServeCancel(j) \/ CancelAnswered(j)
      PROVE  UNCHANGED << run, used, abandoned, reloads >>
  BY <1>7 DEF BeginAttach, Follow, Serve, ServeCancel, CancelAnswered, work
<1>8. ASSUME NEW k \in 1 .. MaxSaves, SendSave(k) \/ StoreSave(k) \/ SaveAnswered(k)
      PROVE  UNCHANGED << run, used, abandoned, reloads >>
  BY <1>8 DEF SendSave, StoreSave, SaveAnswered, work
<1>9. CASE Snapshot \/ Flush \/ List \/ Listed \/ Attach \/ YieldForeground
  BY <1>9, <1>6 DEF Snapshot, Flush, List, Listed, Attach, YieldForeground, work
<1>10. CASE NothingToFollow \/ Followed
  BY <1>10, <1>6 DEF NothingToFollow, Followed, SyncEnds, work
<1>11. ASSUME NEW i \in DOMAIN queue, Dismiss(i)
       PROVE  RunsInv'
  BY <1>11, <1>6 DEF Dismiss, work
<1>12. CASE UNCHANGED vars
  BY <1>12, <1>6 DEF vars, work
<1> QED
  BY <1>1, <1>2, <1>3, <1>4, <1>5, <1>6, <1>7, <1>8, <1>9, <1>10, <1>11, <1>12,
     GenerateKeepsRuns
     DEF Next

(* A generation that resolves is put to its end by Resolved or a refresh.  *)
LEMMA OnlyResolvedEnds ==
  ASSUME RunsInv, [Next]_vars, NEW t \in Tasks,
         run[t].phase = "resolving", run'[t].phase = "idle", UNCHANGED reloads
  PROVE  Resolved(t)
<1> SUFFICES ASSUME ~Resolved(t)
             PROVE  run'[t].phase = "resolving"
  OBVIOUS
<1> USE DEF RunsInv, Phases
<1>1. ASSUME NEW u \in Tasks, Submit(u) \/ \E i \in Tasks : Retry(i, u)
      PROVE  run'[t].phase = "resolving"
  BY <1>1 DEF Submit, Retry, Start
<1>2. ASSUME NEW u \in Tasks, Drop(u)
      PROVE  run'[t].phase = "resolving"
  BY <1>2 DEF Drop
<1>3. ASSUME NEW u \in Tasks, NEW q, NEW c, NEW status, End(u, q, c, status), u # t
      PROVE  run'[t].phase = "resolving"
  BY <1>3 DEF End
<1>4. ASSUME NEW u \in Tasks, Generate(u)
      PROVE  run'[t].phase = "resolving"
  <2>1. CASE PostFails(u)
    BY <2>1, <1>3 DEF PostFails
  <2>2. CASE Posted(u)
    BY <2>2 DEF Posted
  <2>3. CASE Waited(u)
    <3>1. u # t
      BY <2>3 DEF Waited
    <3>2. CASE \E q, status : End(u, q, canvas, status)
      BY <3>1, <3>2, <1>3
    <3>3. CASE run' = [run EXCEPT ![u].phase = "resolving"]
      BY <3>3
    <3> QED  BY <2>3, <3>2, <3>3 DEF Waited
  <2>4. CASE Resolved(u)
    BY <2>4, <1>3 DEF Resolved
  <2> QED  BY <1>4, <2>1, <2>2, <2>3, <2>4 DEF Generate
<1>5. ASSUME NEW i \in DOMAIN queue, CancelRemote(i)
      PROVE  run'[t].phase = "resolving"
  BY <1>5, <1>2 DEF CancelRemote
<1>6. ASSUME NEW u \in Tasks, NEW j \in Jobs, Accept(u, j)
      PROVE  run'[t].phase = "resolving"
  BY <1>6 DEF Accept
<1>7. ~Reload
  BY DEF Reload
<1>8. CASE UNCHANGED run
  BY <1>8
<1> QED
  BY <1>1, <1>2, <1>4, <1>5, <1>6, <1>7, <1>8
     DEF Next, vars, work, TimesOut, StopLocal, BeginAttach, Follow, Serve, ServeCancel,
         CancelAnswered, SendSave, StoreSave, SaveAnswered, Snapshot, Flush, List, Listed,
         Attach, YieldForeground, NothingToFollow, Followed, SyncEnds, Dismiss

LEMMA OnlyCurrentPublish ==
  ASSUME RunsInv, [Next]_vars, NEW t \in Tasks, t \in abandoned
  PROVE  ~Publishes(t)
<1> SUFFICES ASSUME Publishes(t)
             PROVE  FALSE
  OBVIOUS
<1>1. /\ run[t].phase = "resolving" /\ run'[t].phase = "idle"
      /\ run[t].job \notin canvas /\ run[t].job \in canvas' /\ UNCHANGED reloads
  BY DEF Publishes
<1>2. ~run[t].live /\ Resolved(t)
  BY <1>1, OnlyResolvedEnds DEF RunsInv
<1> QED
  BY <1>1, <1>2 DEF Resolved, Current, End, Commit

(* Whatever a generation awaits when it is given up, it publishes nothing. *)
THEOREM AbandonedAreSilent == Spec => AbandonedNeverPublish
<1>1. RunsInv /\ [Next]_vars => [\A t \in abandoned : ~Publishes(t)]_vars
  <2> SUFFICES ASSUME RunsInv, [Next]_vars, NEW t \in abandoned
               PROVE  ~Publishes(t)
    OBVIOUS
  <2>1. t \in Tasks
    BY DEF RunsInv
  <2> QED  BY <2>1, OnlyCurrentPublish
<1> QED  BY <1>1, RunsInit, RunsStep, PTL DEF Spec, AbandonedNeverPublish

-------------------------------------------------------------------------------
(* Local storage.                                                          *)

(* A copy of the session is as a refresh restores it.                      *)
IsDoc(d) ==
  /\ d = [queue |-> d.queue, canvas |-> d.canvas, at |-> d.at]
  /\ Restored(d.queue) = d.queue

(* DurableTransitions, with what the copies that may come back are like:   *)
(* the snapshot that the autosave holds is that of the desk.               *)
DurableInv ==
  /\ IsDoc(stored)
  /\ pending # NoDoc => IsDoc(pending) /\ (adopted \/ Same(pending, queue, canvas))
  /\ server # NoDoc => IsDoc(server)
  /\ DOMAIN saves = 1 .. MaxSaves
  /\ \A k \in 1 .. MaxSaves :
       /\ saves[k].state \in {"sent", "stored"} => IsDoc(saves[k].doc)
       /\ saves[k].state = "orphan" /\ reloads < MaxReloads => IsDoc(saves[k].doc)
  /\ DurableTransitions

(* To restore a queue once more, or what the service keeps of a restored   *)
(* queue, changes nothing.                                                 *)
LEMMA RestoredTwice == \A q : Restored(Restored(q)) = Restored(q)
  BY DEF Restored, RestoredStatus, Item

LEMMA RestoredSanitized ==
  \A q : Restored(q) = q => Restored(Sanitized(q)) = Sanitized(q)
<1> SUFFICES ASSUME NEW q, Restored(q) = q
             PROVE  Restored(Sanitized(q)) = Sanitized(q)
  OBVIOUS
<1>1. ASSUME NEW i \in DOMAIN q
      PROVE  RestoredStatus(Sanitized(q)[i]) = Sanitized(q)[i].status
  <2>1. q[i].status = RestoredStatus(q[i])
    BY DEF Restored, Item
  <2> QED  BY <2>1 DEF Sanitized, RestoredStatus, Item
<1> QED  BY <1>1 DEF Restored, Sanitized, Item

LEMMA DocIsDoc == \A q, c, at : IsDoc(Doc(q, c, at))
  BY RestoredTwice DEF IsDoc, Doc

LEMMA DurableInit == Init => DurableInv
<1> SUFFICES ASSUME Init
             PROVE  DurableInv
  OBVIOUS
<1>1. IsDoc(stored) /\ Same(stored, queue, canvas)
  BY DocIsDoc DEF Init, Doc, Same
<1> QED  BY <1>1 DEF Init, DurableInv, DurableTransitions

(* A transition writes local storage and drops the snapshot.               *)
LEMMA CommitKeepsDurable ==
  ASSUME DurableInv, NEW q, NEW c, Commit(q, c), UNCHANGED << saves, server, reloads >>
  PROVE  DurableInv'
<1>1. IsDoc(stored') /\ Same(stored', queue', canvas')
  BY DocIsDoc DEF Commit, Doc, Same
<1> QED  BY <1>1 DEF Commit, DurableInv, DurableTransitions

LEMMA SameKeepsDurable ==
  ASSUME DurableInv, UNCHANGED << desk, copy, reloads >>
  PROVE  DurableInv'
  BY DEF DurableInv, DurableTransitions, desk, copy, Same

LEMMA FlushKeepsDurable ==
  ASSUME DurableInv, Flush
  PROVE  DurableInv'
<1>1. IsDoc(stored') /\ stored'.queue = pending.queue /\ stored'.canvas = pending.canvas
  BY DEF Flush, DurableInv, IsDoc
<1>2. DurableTransitions'
  BY <1>1 DEF Flush, DurableInv, DurableTransitions, Same
<1> QED  BY <1>1, <1>2 DEF Flush, DurableInv, copy

LEMMA CopiesKeepDurable ==
  ASSUME DurableInv, NEW k \in 1 .. MaxSaves,
         SendSave(k) \/ StoreSave(k) \/ SaveAnswered(k)
  PROVE  DurableInv'
<1>1. CASE SendSave(k)
  BY <1>1 DEF SendSave, DurableInv, DurableTransitions, Same
<1>2. CASE StoreSave(k)
  <2> DEFINE doc == [ queue  |-> Sanitized(saves[k].doc.queue),
                      canvas |-> saves[k].doc.canvas, at |-> clock + 1 ]
  <2>1. IsDoc(saves[k].doc) => IsDoc(doc)
    BY RestoredSanitized DEF IsDoc
  <2>2. /\ server' = Kept(doc) /\ UNCHANGED << desk, reloads >>
        /\ saves' = [saves EXCEPT ![k] = IF saves[k].state = "sent"
                                         THEN [state |-> "stored", doc |-> doc]
                                         ELSE [state |-> "done", doc |-> NoDoc]]
    BY <1>2 DEF StoreSave
  <2>3. server' # NoDoc => IsDoc(doc)
    BY <1>2, <2>1, <2>2 DEF StoreSave, DurableInv, Kept
  <2>4. server' # NoDoc => IsDoc(server')
    BY <2>2, <2>3 DEF Kept
  <2> HIDE DEF doc
  <2> QED
    BY <1>2, <2>1, <2>2, <2>4
       DEF StoreSave, DurableInv, DurableTransitions, desk, Same
<1>3. CASE SaveAnswered(k)
  BY <1>3 DEF SaveAnswered, DurableInv, DurableTransitions, Adopt
<1> QED  BY <1>1, <1>2, <1>3

LEMMA ReloadKeepsDurable ==
  ASSUME DurableInv, Reload
  PROVE  DurableInv'
<1>1. IsDoc(stored') /\ queue' = stored'.queue /\ canvas' = stored'.canvas
  BY DEF Reload, DurableInv, Adopt, IsDoc
<1>2. DurableTransitions'
  BY <1>1 DEF DurableTransitions, Same, IsDoc
<1>3. server' # NoDoc => IsDoc(server')
  BY DEF Reload, DurableInv, Kept
<1>4. ASSUME NEW k \in 1 .. MaxSaves
      PROVE  /\ saves'[k].state \notin {"sent", "stored"}
             /\ saves'[k].state = "orphan" /\ reloads' < MaxReloads => IsDoc(saves'[k].doc)
  BY DEF Reload, DurableInv, Kept
<1> QED
  BY <1>1, <1>2, <1>3, <1>4 DEF Reload, DurableInv

LEMMA DurableStep == DurableInv /\ [Next]_vars => DurableInv'
<1> SUFFICES ASSUME DurableInv, [Next]_vars
             PROVE  DurableInv'
  OBVIOUS
<1> DEFINE Other == UNCHANGED << saves, server, reloads >>
<1>1. ASSUME NEW q, NEW c, Commit(q, c), Other
      PROVE  DurableInv'
  BY <1>1, CommitKeepsDurable
<1>2. CASE UNCHANGED << desk, copy, reloads >>
  BY <1>2, SameKeepsDurable
<1>3. CASE Snapshot
  BY <1>3, DocIsDoc DEF Snapshot, DurableInv, DurableTransitions, copy, Doc, Same
<1>4. ASSUME NEW t \in Tasks, NEW q, Start(t, q)
      PROVE  DurableInv'
  BY <1>1, <1>4 DEF Start, copy
<1>5. ASSUME NEW t \in Tasks, NEW q, NEW c, NEW status, End(t, q, c, status)
      PROVE  DurableInv'
  BY <1>1, <1>5 DEF End, copy
<1>6. ASSUME NEW t \in Tasks, Generate(t)
      PROVE  DurableInv'
  <2>1. CASE Posted(t)
    BY <1>1, <2>1 DEF Posted, copy
  <2>2. CASE PostFails(t) \/ Resolved(t)
    BY <1>5, <2>2 DEF PostFails, Resolved
  <2>3. CASE Waited(t)
    BY <1>2, <1>5, <2>3 DEF Waited
  <2> QED  BY <1>6, <2>1, <2>2, <2>3 DEF Generate
<1>7. ASSUME NEW t \in Tasks, TimesOut(t) \/ StopLocal(t)
      PROVE  DurableInv'
  BY <1>1, <1>2, <1>7 DEF TimesOut, StopLocal, copy
<1>8. ASSUME NEW i \in DOMAIN queue, CancelRemote(i) \/ Dismiss(i)
      PROVE  DurableInv'
  BY <1>1, <1>8 DEF CancelRemote, Dismiss, copy
<1>9. ASSUME NEW q, SyncEnds(q)
      PROVE  DurableInv'
  BY <1>1, <1>9 DEF SyncEnds, copy
<1>10. CASE Listed \/ Attach
  BY <1>1, <1>10 DEF Listed, Attach, copy
<1>11. CASE NothingToFollow \/ Followed
  BY <1>2, <1>9, <1>11 DEF NothingToFollow, Followed
<1>12. CASE List \/ YieldForeground
  BY <1>2, <1>12 DEF List, YieldForeground
<1>13. ASSUME NEW j \in Jobs, Follow(j) \/ CancelAnswered(j)
       PROVE  DurableInv'
  BY <1>1, <1>13 DEF Follow, CancelAnswered, copy
<1>14. ASSUME NEW j \in Jobs, BeginAttach(j) \/ Serve(j) \/ ServeCancel(j)
       PROVE  DurableInv'
  BY <1>2, <1>14 DEF BeginAttach, Serve, ServeCancel
<1>15. ASSUME NEW t \in Tasks, NEW j \in Jobs, Accept(t, j)
       PROVE  DurableInv'
  BY <1>2, <1>15 DEF Accept
<1>16. ASSUME NEW i \in Tasks, NEW t \in Tasks, Submit(t) \/ Retry(i, t)
       PROVE  DurableInv'
  BY <1>4, <1>16 DEF Submit, Retry
<1>17. CASE UNCHANGED vars
  BY <1>2, <1>17 DEF vars
<1> QED
  BY <1>3, <1>6, <1>7, <1>8, <1>10, <1>11, <1>12, <1>13, <1>14, <1>15, <1>16, <1>17,
     FlushKeepsDurable, CopiesKeepDurable, ReloadKeepsDurable
     DEF Next

(* No refresh loses a transition of the queue or a picture of the canvas,  *)
(* but to a copy of the service that the desk has just taken.              *)
THEOREM TransitionsAreDurable == Spec => []DurableTransitions
<1>1. DurableInv => DurableTransitions
  BY DEF DurableInv
<1> QED  BY <1>1, DurableInit, DurableStep, PTL DEF Spec

-------------------------------------------------------------------------------
(* The list of jobs, taken into the queue one by one as the fold does it.  *)
(* Induction is by the smallest subset for which a claim would fail, so    *)
(* that no theorem with a predicate as its parameter is needed.            *)

Any(s) == CHOOSE x \in s : TRUE

Take(q, j, s) ==
  IF s \in Active \cup {"failed", "unknown", "canceled"} THEN Upsert(q, j, s) ELSE q

(* The queue that some of the jobs make of q, for the subsets of T. *)
Takes(q, statuses, T, g) ==
  g = [s \in SUBSET T |->
         IF s = {} THEN q ELSE Take(g[s \ {Any(s)}], Any(s), statuses[Any(s)])]

LEMMA SmallestSubset ==
  ASSUME NEW S, IsFiniteSet(S), NEW T, T \subseteq SUBSET S, T # {}
  PROVE  \E x \in T : \A y \in T : y \subseteq x => y = x
<1>1. IsWellFoundedOn(StrictSubsetOrdering(S), SUBSET S)
  BY FS_StrictSubsetOrderingWellFounded, FS_FiniteSubsetsOfFinite
<1>2. PICK x \in T : \A y \in T : << y, x >> \notin StrictSubsetOrdering(S)
  BY <1>1, WFMin
<1> QED  BY <1>2 DEF StrictSubsetOrdering

LEMMA AnyIsOne ==
  ASSUME NEW s, s # {}
  PROVE  Any(s) \in s
BY DEF Any

LEMMA TakesAt ==
  ASSUME NEW q, NEW statuses, NEW T, NEW g, Takes(q, statuses, T, g), NEW s \in SUBSET T
  PROVE  g[s] = IF s = {} THEN q ELSE Take(g[s \ {Any(s)}], Any(s), statuses[Any(s)])
BY DEF Takes

(* There is at most one such function,                                     *)
LEMMA TakesUnique ==
  ASSUME NEW q, NEW statuses, NEW S, IsFiniteSet(S), NEW g, NEW h,
         Takes(q, statuses, S, g), Takes(q, statuses, S, h)
  PROVE  g = h
<1> DEFINE Bad == { s \in SUBSET S : g[s] # h[s] }
<1>1. Bad = {}
  <2> SUFFICES ASSUME Bad # {} PROVE FALSE
    OBVIOUS
  <2>1. PICK s \in Bad : \A y \in Bad : y \subseteq s => y = s
    <3>1. Bad \subseteq SUBSET S
      OBVIOUS
    <3> HIDE DEF Bad
    <3> QED  BY <3>1, SmallestSubset
  <2>2. s \in SUBSET S /\ g[s] # h[s]
    BY <2>1
  <2>3. /\ g[s] = IF s = {} THEN q ELSE Take(g[s \ {Any(s)}], Any(s), statuses[Any(s)])
        /\ h[s] = IF s = {} THEN q ELSE Take(h[s \ {Any(s)}], Any(s), statuses[Any(s)])
    BY <2>2 DEF Takes
  <2>4. s # {}
    BY <2>2, <2>3
  <2>5. s \ {Any(s)} \in SUBSET S /\ s \ {Any(s)} # s
    BY <2>2, <2>4, AnyIsOne
  <2>6. g[s \ {Any(s)}] = h[s \ {Any(s)}]
    BY <2>1, <2>5
  <2> QED  BY <2>2, <2>3, <2>4, <2>6
<1>2. \A s \in SUBSET S : g[s] = h[s]
  BY <1>1
<1>3. g = [s \in SUBSET S |-> g[s]] /\ h = [s \in SUBSET S |-> h[s]]
  BY DEF Takes
<1> QED  BY <1>2, <1>3

(* which serves fewer jobs just as well,                                   *)
LEMMA TakesRestrict ==
  ASSUME NEW q, NEW statuses, NEW S, NEW g, Takes(q, statuses, S, g), NEW T \in SUBSET S
  PROVE  Takes(q, statuses, T, [s \in SUBSET T |-> g[s]])
<1> DEFINE h == [s \in SUBSET T |-> g[s]]
<1>1. \A s \in SUBSET T :
        h[s] = IF s = {} THEN q ELSE Take(h[s \ {Any(s)}], Any(s), statuses[Any(s)])
  <2> TAKE s \in SUBSET T
  <2>1. h[s] = g[s] /\ h[s \ {Any(s)}] = g[s \ {Any(s)}]
    OBVIOUS
  <2> HIDE DEF h
  <2> QED  BY <2>1, TakesAt
<1>2. h = [s \in SUBSET T |-> h[s]]
  OBVIOUS
<1> HIDE DEF h
<1>3. h = [s \in SUBSET T |->
             IF s = {} THEN q ELSE Take(h[s \ {Any(s)}], Any(s), statuses[Any(s)])]
  BY <1>1, <1>2
<1>4. Takes(q, statuses, T, h)
  BY <1>3 DEF Takes
<1> QED  BY <1>4 DEF h

(* and there is one: the smallest set without it would be built from the   *)
(* functions of its subsets.                                               *)
LEMMA TakesExist ==
  ASSUME NEW q, NEW statuses, NEW S, IsFiniteSet(S)
  PROVE  \E g : Takes(q, statuses, S, g)
<1> DEFINE Bad == { T \in SUBSET S : ~ \E g : Takes(q, statuses, T, g) }
           Part(s) == CHOOSE g : Takes(q, statuses, s, g)
<1> SUFFICES ASSUME Bad # {} PROVE FALSE
  OBVIOUS
<1>1. PICK T \in Bad : \A y \in Bad : y \subseteq T => y = T
  <2>1. Bad \subseteq SUBSET S
    OBVIOUS
  <2> HIDE DEF Bad
  <2> QED  BY <2>1, SmallestSubset
<1>2. T \in SUBSET S /\ IsFiniteSet(T) /\ ~ \E g : Takes(q, statuses, T, g)
  BY <1>1, FS_Subset
<1>3. \A s \in SUBSET T : s # T => Takes(q, statuses, s, Part(s))
  BY <1>1, <1>2
<1>4. ASSUME NEW r \in SUBSET T, r # T, NEW p \in SUBSET r
      PROVE  Part(r)[p] = Part(p)[p]
  <2>1. Takes(q, statuses, p, [s \in SUBSET p |-> Part(r)[s]])
    BY <1>3, <1>4, TakesRestrict
  <2>2. Takes(q, statuses, p, Part(p)) /\ IsFiniteSet(p)
    BY <1>2, <1>3, <1>4, FS_Subset
  <2>3. [s \in SUBSET p |-> Part(r)[s]] = Part(p)
    <3> HIDE DEF Part
    <3> QED  BY <2>1, <2>2, TakesUnique
  <2>4. [s \in SUBSET p |-> Part(r)[s]][p] = Part(r)[p]
    OBVIOUS
  <2> QED  BY <2>3, <2>4
<1> DEFINE g == [s \in SUBSET T |->
                   IF s = {} THEN q
                   ELSE Take(Part(s \ {Any(s)})[s \ {Any(s)}], Any(s), statuses[Any(s)])]
<1>5. ASSUME NEW s \in SUBSET T, s # {}
      PROVE  g[s \ {Any(s)}] = Part(s \ {Any(s)})[s \ {Any(s)}]
  <2> DEFINE r == s \ {Any(s)}
             p == r \ {Any(r)}
  <2>1. r \in SUBSET T /\ r # T /\ p \in SUBSET r
    BY <1>5, AnyIsOne
  <2>2. Part(r)[r] = IF r = {} THEN q ELSE Take(Part(r)[p], Any(r), statuses[Any(r)])
    <3> HIDE DEF r, Part
    <3> QED  BY <1>3, <2>1, TakesAt
  <2>3. Part(r)[p] = Part(p)[p]
    BY <1>4, <2>1
  <2>4. g[r] = IF r = {} THEN q ELSE Take(Part(p)[p], Any(r), statuses[Any(r)])
    BY <2>1
  <2> HIDE DEF g, Part, p
  <2> QED  BY <2>2, <2>3, <2>4
<1>6. \A s \in SUBSET T :
        g[s] = IF s = {} THEN q ELSE Take(g[s \ {Any(s)}], Any(s), statuses[Any(s)])
  <2> TAKE s \in SUBSET T
  <2>1. g[s] = IF s = {} THEN q
               ELSE Take(Part(s \ {Any(s)})[s \ {Any(s)}], Any(s), statuses[Any(s)])
    OBVIOUS
  <2> HIDE DEF g, Part
  <2> QED  BY <1>5, <2>1
<1>7. g = [s \in SUBSET T |-> g[s]]
  OBVIOUS
<1> HIDE DEF g
<1>8. g = [s \in SUBSET T |->
             IF s = {} THEN q ELSE Take(g[s \ {Any(s)}], Any(s), statuses[Any(s)])]
  BY <1>6, <1>7
<1> QED  BY <1>2, <1>8 DEF Takes

(* So the list is taken in as that function says.                          *)
LEMMA UpsertAllTakes ==
  ASSUME NEW q, NEW statuses, IsFiniteSet(Jobs)
  PROVE  \E g : Takes(q, statuses, Jobs, g) /\ UpsertAll(q, statuses) = g[Jobs]
<1> DEFINE p == [j \in Jobs |-> [job |-> j, status |-> statuses[j]]]
           Body(g) ==
             [s \in SUBSET Jobs |->
                IF s = {} THEN q
                ELSE IF p[Any(s)].status \in Active \cup {"failed", "unknown", "canceled"}
                     THEN Upsert(g[s \ {Any(s)}], p[Any(s)].job, p[Any(s)].status)
                     ELSE g[s \ {Any(s)}]]
<1>1. UpsertAll(q, statuses) = (CHOOSE g : g = Body(g))[Jobs]
  BY DEF UpsertAll, FoldFunctionOnSet, MapThenFoldSet, Any
<1>2. ASSUME NEW g
      PROVE  (g = Body(g)) <=> Takes(q, statuses, Jobs, g)
  <2>1. \A s \in SUBSET Jobs : s # {} => p[Any(s)] = [job |-> Any(s), status |-> statuses[Any(s)]]
    BY AnyIsOne
  <2> HIDE DEF p
  <2>2. ASSUME NEW s \in SUBSET Jobs
        PROVE  Body(g)[s]
                 = IF s = {} THEN q ELSE Take(g[s \ {Any(s)}], Any(s), statuses[Any(s)])
    <3>1. Body(g)[s] = IF s = {} THEN q
                       ELSE IF p[Any(s)].status \in Active \cup {"failed", "unknown", "canceled"}
                            THEN Upsert(g[s \ {Any(s)}], p[Any(s)].job, p[Any(s)].status)
                            ELSE g[s \ {Any(s)}]
      OBVIOUS
    <3>2. CASE s # {}
      <4>1. p[Any(s)].job = Any(s) /\ p[Any(s)].status = statuses[Any(s)]
        <5>1. p[Any(s)] = [job |-> Any(s), status |-> statuses[Any(s)]]
          BY <2>1, <3>2, Zenon
        <5> QED  BY <5>1
      <4> HIDE DEF Body
      <4> QED  BY <3>1, <3>2, <4>1 DEF Take
    <3>3. CASE s = {}
      BY <3>3
    <3> HIDE DEF Body
    <3> QED  BY <3>2, <3>3
  <2>3. Body(g) = [s \in SUBSET Jobs |-> Body(g)[s]]
    OBVIOUS
  <2> HIDE DEF Body
  <2>4. Body(g) = [s \in SUBSET Jobs |->
                     IF s = {} THEN q ELSE Take(g[s \ {Any(s)}], Any(s), statuses[Any(s)])]
    BY <2>2, <2>3
  <2> QED  BY <2>4 DEF Takes
<1> HIDE DEF Body
<1>3. \E g : Takes(q, statuses, Jobs, g)
  BY TakesExist
<1>4. Takes(q, statuses, Jobs, CHOOSE g : g = Body(g))
  BY <1>2, <1>3
<1> QED  BY <1>1, <1>4

-------------------------------------------------------------------------------
(* Canceled tasks.                                                         *)

Statuses == {"none"} \cup Active \cup Final

IsItem(item) == item = Item(item.status, item.job, item.remote, item.prompt)

(* The item under the identifier of a job is that job's. *)
Keyed(q) == \A i \in DOMAIN q : IsItem(q[i]) /\ (i \in Jobs => q[i].job = i)

Busy(q, j) == Shown(q, j, {"queued", "running"})
Dropped(q, j) == Shown(q, j, {"canceled"})

(* No task that is canceled in q is shown busy in r. *)
StaysDropped(q, r) ==
  \A j \in Jobs : Dropped(q, j) /\ ~Busy(q, j) => ~Busy(r, j)

(* An item of the job is replaced, unless a canceled one is kept.          *)
Held(q, k, s) == s \in Active /\ \E i \in ItemsOf(q, k) : q[i].status = "canceled"

Replaced(q, k, s, new) ==
  /\ DOMAIN new = (DOMAIN q \ ItemsOf(q, k)) \cup {k}
  /\ IsItem(new[k]) /\ new[k].job = k /\ new[k].status = QueueStatus(s)
  /\ \A i \in DOMAIN q \ ItemsOf(q, k) : i # k => new[i] = q[i]

LEMMA UpsertItems ==
  ASSUME NEW q, NEW k, NEW s, ~Held(q, k, s)
  PROVE  Replaced(q, k, s, Upsert(q, k, s))
<1> DEFINE r == [i \in (DOMAIN q \ ItemsOf(q, k)) \cup {k} |->
                   IF i = k THEN Item(QueueStatus(s), k, TRUE, Nobody) ELSE q[i]]
<1>1. Upsert(q, k, s) = r
  BY DEF Held, Upsert
<1>2. /\ DOMAIN r = (DOMAIN q \ ItemsOf(q, k)) \cup {k}
      /\ r[k] = Item(QueueStatus(s), k, TRUE, Nobody)
      /\ \A i \in DOMAIN q \ ItemsOf(q, k) : i # k => r[i] = q[i]
  OBVIOUS
<1>3. IsItem(r[k]) /\ r[k].job = k /\ r[k].status = QueueStatus(s)
  BY <1>2 DEF Item, IsItem
<1> HIDE DEF r
<1> QED  BY <1>1, <1>2, <1>3 DEF Replaced

LEMMA UpsertKeyed ==
  ASSUME NEW q, Keyed(q), NEW k \in Jobs, NEW s
  PROVE  Keyed(Upsert(q, k, s))
<1>1. CASE Held(q, k, s)
  BY <1>1 DEF Held, Upsert
<1>2. CASE ~Held(q, k, s)
  <2>0. PICK r : r = Upsert(q, k, s)
    OBVIOUS
  <2>1. /\ DOMAIN r = (DOMAIN q \ ItemsOf(q, k)) \cup {k}
        /\ IsItem(r[k]) /\ r[k].job = k
        /\ \A i \in DOMAIN q \ ItemsOf(q, k) : i # k => r[i] = q[i]
    <3>1. Replaced(q, k, s, r)
      BY <1>2, <2>0, UpsertItems, Zenon
    <3> QED  BY <3>1 DEF Replaced
  <2>2. Keyed(r)
    BY <2>1 DEF Keyed
  <2> QED  BY <2>0, <2>2
<1> QED  BY <1>1, <1>2

(* What is known of job k changes nothing of a canceled task of another    *)
(* job, and nothing of a canceled task of k while k is active.             *)
LEMMA UpsertStays ==
  ASSUME NEW q, Keyed(q), NEW k \in Jobs, NEW s \in Statuses, NEW j \in Jobs, ~Busy(q, j),
         j = k /\ s \in Active => Dropped(q, j)
  PROVE  /\ ~Busy(Upsert(q, k, s), j)
         /\ Dropped(q, j) /\ (j # k \/ s \in Active) => Dropped(Upsert(q, k, s), j)
<1>0. PICK r : r = Upsert(q, k, s)
  OBVIOUS
<1>1. CASE Held(q, k, s)
  BY <1>1 DEF Held, Upsert
<1>2. CASE ~Held(q, k, s)
  <2>1. /\ DOMAIN r = (DOMAIN q \ ItemsOf(q, k)) \cup {k}
        /\ r[k].job = k /\ r[k].status = QueueStatus(s)
        /\ \A i \in DOMAIN q \ ItemsOf(q, k) : i # k => r[i] = q[i]
    <3>1. Replaced(q, k, s, r)
      BY <1>0, <1>2, UpsertItems, Zenon
    <3> QED  BY <3>1 DEF Replaced
  <2>2. ~(j = k /\ s \in Active)
    BY <1>2 DEF Held, Dropped, Shown
  <2>3. s \notin Active => QueueStatus(s) \notin {"queued", "running"}
    BY DEF Statuses, Active, Final, QueueStatus
  <2>4. ~Busy(r, j)
    BY <2>1, <2>2, <2>3 DEF Busy, Shown, ItemsOf
  <2>5. ASSUME Dropped(q, j), j # k
        PROVE  Dropped(r, j)
    <3>1. PICK i \in DOMAIN q : q[i].job = j /\ q[i].status = "canceled"
      BY <2>5 DEF Dropped, Shown, ItemsOf
    <3>2. i # k /\ i \notin ItemsOf(q, k)
      BY <2>5, <3>1 DEF Keyed, ItemsOf
    <3> QED  BY <2>1, <3>1, <3>2 DEF Dropped, Shown, ItemsOf
  <2> QED  BY <1>0, <2>2, <2>4, <2>5
<1> QED  BY <1>1, <1>2

(* The same of a whole list of jobs: no claim about what it holds is lost  *)
(* on the way.                                                             *)
Calm(q, statuses, acc) ==
  /\ Keyed(acc)
  /\ \A j \in Jobs :
       Dropped(q, j) /\ ~Busy(q, j) =>
         ~Busy(acc, j) /\ (statuses[j] \in Active => Dropped(acc, j))

LEMMA TakeKeepsCalm ==
  ASSUME NEW q, NEW statuses \in [Jobs -> Statuses], NEW acc, Calm(q, statuses, acc),
         NEW k \in Jobs
  PROVE  Calm(q, statuses, Take(acc, k, statuses[k]))
<1> DEFINE s == statuses[k]
           r == Upsert(acc, k, s)
<1>1. s \in Statuses /\ Keyed(acc)
  BY DEF Calm
<1>2. Keyed(r)
  BY <1>1, UpsertKeyed
<1>3. ASSUME NEW j \in Jobs, Dropped(q, j), ~Busy(q, j)
      PROVE  ~Busy(r, j) /\ (statuses[j] \in Active => Dropped(r, j))
  <2>1. ~Busy(acc, j) /\ (statuses[j] \in Active => Dropped(acc, j))
    BY <1>3 DEF Calm
  <2> HIDE DEF s
  <2>2. j = k /\ s \in Active => Dropped(acc, j)
    BY <2>1 DEF s
  <2>3. /\ ~Busy(Upsert(acc, k, s), j)
        /\ Dropped(acc, j) /\ (j # k \/ s \in Active) => Dropped(Upsert(acc, k, s), j)
    BY <1>1, <2>1, <2>2, UpsertStays
  <2> QED  BY <2>1, <2>3 DEF s
<1> HIDE DEF r
<1>4. Calm(q, statuses, r)
  BY <1>2, <1>3 DEF Calm
<1> QED  BY <1>4 DEF Take, r

LEMMA UpsertAllCalm ==
  ASSUME IsFiniteSet(Jobs), NEW q, Keyed(q), NEW statuses \in [Jobs -> Statuses]
  PROVE  Keyed(UpsertAll(q, statuses)) /\ StaysDropped(q, UpsertAll(q, statuses))
<1>1. PICK g : Takes(q, statuses, Jobs, g) /\ UpsertAll(q, statuses) = g[Jobs]
  BY UpsertAllTakes
<1> DEFINE Bad == { s \in SUBSET Jobs : ~Calm(q, statuses, g[s]) }
<1>2. Bad = {}
  <2> SUFFICES ASSUME Bad # {} PROVE FALSE
    OBVIOUS
  <2>1. PICK s \in Bad : \A y \in Bad : y \subseteq s => y = s
    <3>1. Bad \subseteq SUBSET Jobs
      OBVIOUS
    <3> HIDE DEF Bad
    <3> QED  BY <3>1, SmallestSubset
  <2>2. s \in SUBSET Jobs /\ ~Calm(q, statuses, g[s])
    BY <2>1
  <2>3. g[s] = IF s = {} THEN q ELSE Take(g[s \ {Any(s)}], Any(s), statuses[Any(s)])
    BY <1>1, <2>2 DEF Takes
  <2>4. Calm(q, statuses, q)
    BY DEF Calm
  <2>5. s # {} /\ Any(s) \in s
    BY <2>2, <2>3, <2>4, AnyIsOne
  <2>6. Calm(q, statuses, g[s \ {Any(s)}])
    BY <2>1, <2>2, <2>5
  <2>7. Calm(q, statuses, Take(g[s \ {Any(s)}], Any(s), statuses[Any(s)]))
    BY <2>2, <2>5, <2>6, TakeKeepsCalm
  <2> QED  BY <2>2, <2>3, <2>5, <2>7
<1>3. Calm(q, statuses, g[Jobs])
  BY <1>2
<1> QED  BY <1>1, <1>3 DEF Calm, StaysDropped

(* A queue in which items were settled or removed: no task is canceled and *)
(* then busy, and what is known of the identifiers stays.                  *)
Fewer(q, r) ==
  /\ DOMAIN r \subseteq DOMAIN q
  /\ \A i \in DOMAIN r :
       /\ IsItem(r[i]) /\ r[i].job = q[i].job
       /\ r[i].status \in {"queued", "running"} => q[i].status \in {"queued", "running"}

LEMMA FewerStays ==
  ASSUME NEW q, NEW r, NEW s, StaysDropped(q, r), Keyed(r), Fewer(r, s)
  PROVE  StaysDropped(q, s) /\ Keyed(s)
BY DEF StaysDropped, Keyed, Fewer, Busy, Shown, ItemsOf

LEMMA SameStays == \A q : StaysDropped(q, q)
BY DEF StaysDropped

(* Some of the items of a queue, some of them with a final status. *)
Settled(q, r) ==
  /\ DOMAIN r \subseteq DOMAIN q
  /\ \A i \in DOMAIN r :
       \/ r[i] = q[i]
       \/ \E status : /\ r[i] = [q[i] EXCEPT !.status = status]
                      /\ status \notin {"queued", "running"}

LEMMA SettledIsFewer ==
  ASSUME NEW q, NEW r, Keyed(q), Settled(q, r)
  PROVE  Fewer(q, r)
<1> SUFFICES ASSUME NEW i \in DOMAIN r
             PROVE  /\ IsItem(r[i]) /\ r[i].job = q[i].job
                    /\ r[i].status \in {"queued", "running"} =>
                         q[i].status \in {"queued", "running"}
  BY DEF Settled, Fewer
<1>1. IsItem(q[i])
  BY DEF Settled, Keyed
<1>2. CASE r[i] = q[i]
  BY <1>1, <1>2
<1>3. ASSUME NEW status, r[i] = [q[i] EXCEPT !.status = status],
             status \notin {"queued", "running"}
      PROVE  IsItem(r[i]) /\ r[i].job = q[i].job /\ r[i].status = status
  BY <1>1, <1>3 DEF IsItem, Item
<1> QED  BY <1>2, <1>3 DEF Settled

LEMMA RunQueueFewer ==
  ASSUME NEW q, Keyed(q)
  PROVE  Fewer(q, RunQueue(q))
<1>1. Settled(q, RunQueue(q))
  BY DEF Settled, RunQueue
<1> QED  BY <1>1, SettledIsFewer

LEMMA MarkJobFewer ==
  ASSUME NEW q, Keyed(q), NEW j, NEW status, status \notin {"queued", "running"}
  PROVE  Fewer(q, MarkJob(q, j, status))
<1>1. Settled(q, MarkJob(q, j, status))
  BY DEF Settled, MarkJob
<1> QED  BY <1>1, SettledIsFewer

(* What a refresh or the service makes of a queue. *)
LEMMA CopiesKeyed ==
  ASSUME NEW q, Keyed(q)
  PROVE  Keyed(Restored(q)) /\ Keyed(Sanitized(q))
BY DEF Keyed, Restored, Sanitized, IsItem, Item

(* Every copy of the session that may come back is such a queue.           *)
DocsKeyed ==
  /\ Keyed(queue) /\ Keyed(stored.queue)
  /\ pending # NoDoc => Keyed(pending.queue)
  /\ server # NoDoc => Keyed(server.queue)
  /\ DOMAIN saves = 1 .. MaxSaves
  /\ \A k \in 1 .. MaxSaves :
       /\ saves[k].state \in {"sent", "stored"} => Keyed(saves[k].doc.queue)
       /\ saves[k].state = "orphan" /\ reloads < MaxReloads => Keyed(saves[k].doc.queue)

(* What the service says of a job is one of its statuses.                  *)
IsEffect(s) == s = [phase |-> s.phase, listed |-> s.listed, todo |-> s.todo, job |-> s.job]
StatusesOK ==
  /\ DOMAIN jobs = Jobs /\ DOMAIN cancels = Jobs
  /\ \A j \in Jobs :
       /\ jobs[j] = [status |-> jobs[j].status, prompt |-> jobs[j].prompt]
       /\ jobs[j].status \in Statuses
       /\ cancels[j] \in Statuses \cup {"asked"}
  /\ IsEffect(sync) /\ sync.listed \in [Jobs -> Statuses]
  /\ sync.phase = "polling" => sync.job \in Jobs

(* CanceledStays, of one step.                                             *)
DropsStay ==
  \A j \in Jobs :
    /\ Dropped(queue, j) /\ ~Busy(queue, j) /\ ~adopted' /\ reloads' = reloads
    => \/ ~Busy(queue', j)
       \/ \E t \in Tasks : run[t].phase = "posted" /\ run[t].job = j

LEMMA DocsInit == Init => DocsKeyed
<1> SUFFICES ASSUME Init
             PROVE  DocsKeyed
  OBVIOUS
<1>1. DOMAIN queue = {} /\ stored.queue = Restored(queue)
  BY DEF Init, Doc
<1>2. Keyed(queue)
  BY <1>1 DEF Keyed
<1>3. Keyed(stored.queue)
  BY <1>1, <1>2, CopiesKeyed
<1> QED  BY <1>2, <1>3 DEF Init, DocsKeyed

LEMMA StatusesInit == Init => StatusesOK
BY DEF Init, StatusesOK, IsEffect, SyncOff, Statuses

LEMMA StatusesStep == StatusesOK /\ [Next]_vars => StatusesOK'
<1> SUFFICES ASSUME StatusesOK, [Next]_vars
             PROVE  StatusesOK'
  OBVIOUS
<1>1. CASE UNCHANGED << jobs, cancels, sync >>
  BY <1>1 DEF StatusesOK
<1>2. ASSUME UNCHANGED << jobs, cancels >>, IsEffect(sync'),
             sync'.listed = sync.listed \/ sync'.listed \in [Jobs -> Statuses],
             sync'.phase = "polling" => sync'.job \in Jobs
      PROVE  StatusesOK'
  BY <1>2 DEF StatusesOK
<1>3. IsEffect(SyncOff) /\ SyncOff.listed \in [Jobs -> Statuses] /\ SyncOff.phase = "off"
  BY DEF IsEffect, SyncOff, Statuses
<1>4. CASE List
  <2>1. [j \in Jobs |-> jobs[j].status] \in [Jobs -> Statuses]
    BY DEF StatusesOK
  <2>2. /\ IsEffect(sync') /\ sync'.listed = [j \in Jobs |-> jobs[j].status]
        /\ sync'.phase = "listed"
    BY <1>4 DEF List, StatusesOK, IsEffect
  <2> QED  BY <1>2, <1>4, <2>1, <2>2 DEF List
<1>5. CASE Listed
  BY <1>2, <1>5 DEF Listed, StatusesOK, IsEffect
<1>6. CASE Attach
  BY <1>2, <1>6 DEF Attach, StatusesOK, IsEffect
<1>7. ASSUME NEW q, SyncEnds(q)
      PROVE  StatusesOK'
  BY <1>2, <1>3, <1>7 DEF SyncEnds
<1>8. CASE YieldForeground \/ NothingToFollow \/ Followed
  BY <1>1, <1>2, <1>3, <1>7, <1>8 DEF YieldForeground, NothingToFollow, Followed
<1>9. ASSUME NEW j \in Jobs, BeginAttach(j)
      PROVE  StatusesOK'
  BY <1>2, <1>9 DEF BeginAttach, StatusesOK, IsEffect
<1>10. ASSUME NEW j \in Jobs, Follow(j)
       PROVE  StatusesOK'
  BY <1>2, <1>10 DEF Follow, StatusesOK, IsEffect
<1>11. ASSUME NEW j \in Jobs, NEW job, IsEffect(sync), jobs' = [jobs EXCEPT ![j] = job],
              job = [status |-> job.status, prompt |-> job.prompt],
              job.status \in Statuses, UNCHANGED << cancels, sync >>
       PROVE  StatusesOK'
  BY <1>11 DEF StatusesOK
<1>12. ASSUME NEW j \in Jobs, Serve(j)
       PROVE  StatusesOK'
  <2>1. PICK s \in Statuses : jobs' = [jobs EXCEPT ![j].status = s]
    BY <1>12, EndingsAreFinal DEF Serve, EndingsAreFinal, Statuses, Active, Final
  <2> DEFINE job == [jobs[j] EXCEPT !.status = s]
  <2>2. job = [status |-> s, prompt |-> jobs[j].prompt]
    BY DEF StatusesOK
  <2>3. jobs' = [jobs EXCEPT ![j] = job] /\ UNCHANGED << cancels, sync >>
    BY <1>12, <2>1 DEF Serve
  <2>4. job = [status |-> job.status, prompt |-> job.prompt] /\ job.status \in Statuses
    BY <2>2
  <2> HIDE DEF job
  <2> QED  BY <1>11, <2>3, <2>4 DEF StatusesOK
<1>13. ASSUME NEW t \in Tasks, NEW j \in Jobs, Accept(t, j)
       PROVE  StatusesOK'
  <2>1. CASE jobs' = [jobs EXCEPT ![j] = [status |-> "queued", prompt |-> Prompt[t]]]
    BY <1>11, <1>13, <2>1 DEF Accept, StatusesOK, Statuses, Active
  <2> QED  BY <1>1, <1>13, <2>1 DEF Accept
<1>14. ASSUME NEW j \in Jobs, ServeCancel(j)
       PROVE  StatusesOK'
  <2>1. /\ DOMAIN jobs' = Jobs
        /\ \A k \in Jobs : /\ jobs'[k] = [status |-> jobs'[k].status, prompt |-> jobs'[k].prompt]
                           /\ jobs'[k].status \in Statuses
    <3>1. CASE UNCHANGED jobs
      BY <3>1 DEF StatusesOK
    <3>2. ASSUME NEW s \in {"canceled", "unknown"}, jobs' = [jobs EXCEPT ![j].status = s]
          PROVE  /\ DOMAIN jobs' = Jobs
                 /\ \A k \in Jobs : /\ jobs'[k] = [status |-> jobs'[k].status, prompt |-> jobs'[k].prompt]
                                    /\ jobs'[k].status \in Statuses
      BY <3>2 DEF StatusesOK, Statuses, Final
    <3> QED  BY <1>14, <3>1, <3>2 DEF ServeCancel
  <2>2. cancels' = [cancels EXCEPT ![j] = jobs'[j].status] /\ UNCHANGED sync
    BY <1>14 DEF ServeCancel
  <2>3. DOMAIN cancels' = Jobs /\ \A k \in Jobs : cancels'[k] \in Statuses \cup {"asked"}
    BY <2>1, <2>2 DEF StatusesOK
  <2> QED  BY <2>1, <2>2, <2>3 DEF StatusesOK
<1>15. ASSUME UNCHANGED << jobs, sync >>,
              \E j, s : cancels' = [cancels EXCEPT ![j] = s] /\ s \in {"none", "asked"}
       PROVE  StatusesOK'
  BY <1>15 DEF StatusesOK, Statuses
<1>16. ASSUME NEW j \in Jobs, CancelAnswered(j)
       PROVE  StatusesOK'
  BY <1>15, <1>16 DEF CancelAnswered
<1>17. ASSUME NEW i \in DOMAIN queue, CancelRemote(i)
       PROVE  StatusesOK'
  BY <1>15, <1>17 DEF CancelRemote
<1>18. ASSUME NEW t \in Tasks, StopLocal(t)
       PROVE  StatusesOK'
  BY <1>1, <1>15, <1>18 DEF StopLocal
<1>19. CASE Reload
  <2>1. cancels' = [j \in Jobs |-> "none"] /\ UNCHANGED jobs
        /\ sync' = [SyncOff EXCEPT !.phase = "asked"]
    BY <1>19 DEF Reload
  <2>2. IsEffect(sync') /\ sync'.listed \in [Jobs -> Statuses] /\ sync'.phase = "asked"
    BY <2>1 DEF IsEffect, SyncOff, Statuses
  <2> QED  BY <2>1, <2>2 DEF StatusesOK, Statuses
<1>20. ASSUME NEW t \in Tasks, Submit(t) \/ Generate(t) \/ TimesOut(t) \/ \E i \in Tasks : Retry(i, t)
       PROVE  UNCHANGED << jobs, cancels, sync >>
  BY <1>20 DEF Submit, Retry, Start, Generate, PostFails, Posted, Waited, Resolved, End, TimesOut
<1>21. ASSUME NEW k \in 1 .. MaxSaves, SendSave(k) \/ StoreSave(k) \/ SaveAnswered(k)
       PROVE  UNCHANGED << jobs, cancels, sync >>
  BY <1>21 DEF SendSave, StoreSave, SaveAnswered
<1>22. CASE Snapshot \/ Flush \/ UNCHANGED vars
  BY <1>1, <1>22 DEF Snapshot, Flush, vars
<1>23. ASSUME NEW i \in DOMAIN queue, Dismiss(i)
       PROVE  StatusesOK'
  BY <1>1, <1>23 DEF Dismiss
<1> QED
  BY <1>1, <1>4, <1>5, <1>6, <1>8, <1>9, <1>10, <1>12, <1>13, <1>14, <1>16, <1>17, <1>18,
     <1>19, <1>20, <1>21, <1>22, <1>23 DEF Next

(* A transition of the queue, to one in which canceled tasks stay so.      *)
Calms == DocsKeyed' /\ DropsStay

LEMMA CommitKeyed ==
  ASSUME DocsKeyed, NEW q, NEW c, Commit(q, c), Keyed(q), UNCHANGED << saves, server, reloads >>
  PROVE  DocsKeyed'
<1>1. Keyed(stored'.queue)
  BY CopiesKeyed DEF Commit, Doc
<1> QED  BY <1>1 DEF Commit, DocsKeyed

LEMMA CommitCalms ==
  ASSUME DocsKeyed, NEW q, NEW c, Commit(q, c), Keyed(q), StaysDropped(queue, q),
         UNCHANGED << saves, server, reloads >>
  PROVE  Calms
<1>1. DocsKeyed'
  BY CommitKeyed
<1>2. queue' = q
  BY DEF Commit
<1> QED  BY <1>1, <1>2 DEF Calms, DropsStay, StaysDropped

LEMMA SameCalms ==
  ASSUME DocsKeyed, UNCHANGED << desk, copy, reloads >>
  PROVE  Calms
BY DEF Calms, DocsKeyed, DropsStay, desk, copy

LEMMA SavesCalm ==
  ASSUME DocsKeyed, reloads \in Nat,
         Snapshot \/ Flush \/ Reload
           \/ \E k \in 1 .. MaxSaves : SendSave(k) \/ StoreSave(k) \/ SaveAnswered(k)
  PROVE  Calms
<1>1. CASE Snapshot
  <2>1. Keyed(pending'.queue)
    BY <1>1, CopiesKeyed DEF Snapshot, DocsKeyed, Doc
  <2> QED  BY <1>1, <2>1 DEF Snapshot, DocsKeyed, Calms, DropsStay, copy
<1>2. CASE Flush
  <2>1. stored' = [pending EXCEPT !.at = clock] /\ pending # NoDoc /\ pending' = NoDoc
        /\ UNCHANGED << queue, server, saves, reloads >>
    BY <1>2 DEF Flush, copy
  <2>2. Keyed(pending.queue)
    BY <2>1 DEF DocsKeyed
  <2> QED  BY <2>1, <2>2 DEF DocsKeyed, Calms, DropsStay
<1>3. CASE Reload
  <2>0. PICK d : /\ d = stored \/ (pending # NoDoc /\ d = [pending EXCEPT !.at = clock])
                 /\ LET open == IF server # NoDoc /\ d.at < server.at THEN server ELSE d
                    IN Adopt(open) /\ stored' = open
    BY <1>3 DEF Reload
  <2>1. Keyed(d.queue)
    <3>1. CASE d = stored
      BY <3>1 DEF DocsKeyed
    <3>2. CASE pending # NoDoc /\ d = [pending EXCEPT !.at = clock]
      <4>1. d.queue = pending.queue
        BY <3>2
      <4> QED  BY <3>2, <4>1 DEF DocsKeyed
    <3> QED  BY <2>0, <3>1, <3>2
  <2>2. Keyed(stored'.queue) /\ queue' = stored'.queue
    BY <2>0, <2>1 DEF Adopt, DocsKeyed
  <2>3. /\ pending' = NoDoc /\ reloads' = reloads + 1 /\ reloads' # reloads
        /\ server' = Kept(server)
    BY <1>3 DEF Reload
  <2>4. server' # NoDoc => Keyed(server'.queue)
    BY <2>3 DEF DocsKeyed, Kept
  <2>5. ASSUME NEW k \in 1 .. MaxSaves
        PROVE  /\ saves'[k].state \notin {"sent", "stored"}
               /\ saves'[k].state = "orphan" /\ reloads' < MaxReloads => Keyed(saves'[k].doc.queue)
    BY <1>3 DEF Reload, DocsKeyed, Kept
  <2>6. DOMAIN saves' = 1 .. MaxSaves
    BY <1>3 DEF Reload, DocsKeyed
  <2> QED  BY <2>2, <2>3, <2>4, <2>5, <2>6 DEF DocsKeyed, Calms, DropsStay
<1>4. ASSUME NEW k \in 1 .. MaxSaves, SendSave(k)
      PROVE  Calms
  BY <1>4 DEF SendSave, DocsKeyed, Calms, DropsStay
<1>5. ASSUME NEW k \in 1 .. MaxSaves, StoreSave(k)
      PROVE  Calms
  <2> DEFINE doc == [ queue  |-> Sanitized(saves[k].doc.queue),
                      canvas |-> saves[k].doc.canvas, at |-> clock + 1 ]
  <2>1. /\ server' = Kept(doc) /\ UNCHANGED << desk, reloads >>
        /\ saves' = [saves EXCEPT ![k] = IF saves[k].state = "sent"
                                         THEN [state |-> "stored", doc |-> doc]
                                         ELSE [state |-> "done", doc |-> NoDoc]]
        /\ saves[k].state \in {"sent", "orphan"}
    BY <1>5 DEF StoreSave
  <2>2. saves[k].state = "sent" \/ reloads < MaxReloads => Keyed(doc.queue)
    BY <2>1, CopiesKeyed DEF DocsKeyed
  <2> HIDE DEF doc
  <2>3. server' # NoDoc => Keyed(server'.queue)
    BY <2>1, <2>2 DEF Kept
  <2>4. UNCHANGED << queue, stored, pending, reloads >>
    BY <2>1 DEF desk
  <2>5. ASSUME NEW l \in 1 .. MaxSaves
        PROVE  /\ saves'[l].state \in {"sent", "stored"} => Keyed(saves'[l].doc.queue)
               /\ saves'[l].state = "orphan" /\ reloads' < MaxReloads => Keyed(saves'[l].doc.queue)
    BY <2>1, <2>2, <2>4 DEF DocsKeyed
  <2>6. DOMAIN saves' = 1 .. MaxSaves
    BY <2>1 DEF DocsKeyed
  <2> QED  BY <2>3, <2>4, <2>5, <2>6 DEF DocsKeyed, Calms, DropsStay
<1>6. ASSUME NEW k \in 1 .. MaxSaves, SaveAnswered(k)
      PROVE  Calms
  BY <1>6 DEF SaveAnswered, DocsKeyed, Calms, DropsStay, Adopt
<1> QED  BY <1>1, <1>2, <1>3, <1>4, <1>5, <1>6

(* The transitions of generations. *)
LEMMA StartCalms ==
  ASSUME DocsKeyed, NEW t \in Tasks, NEW q, Fewer(queue, q), Start(t, q)
  PROVE  Calms
<1> DEFINE r == [i \in DOMAIN q \cup {t} |-> IF i = t THEN Local(t) ELSE q[i]]
<1>1. t \notin Jobs /\ NoJob \notin Jobs
  BY NamesDiffer DEF NamesDiffer
<1>2. StaysDropped(queue, q) /\ Keyed(q)
  BY SameStays, FewerStays DEF DocsKeyed
<1>3. /\ DOMAIN r = DOMAIN q \cup {t} /\ r[t] = Local(t)
      /\ \A i \in DOMAIN q : i # t => r[i] = q[i]
  OBVIOUS
<1>4. IsItem(r[t]) /\ r[t].job = NoJob
  BY <1>3 DEF Local, Item, IsItem
<1>5. Commit(RunQueue(r), canvas) /\ UNCHANGED << saves, server, reloads >>
  BY DEF Start, copy
<1> HIDE DEF r
<1>6. Keyed(r)
  BY <1>1, <1>2, <1>3, <1>4 DEF Keyed
<1>7. StaysDropped(queue, r)
  <2> SUFFICES ASSUME NEW j \in Jobs, Busy(r, j)
               PROVE  Busy(q, j)
    BY <1>2 DEF StaysDropped
  <2>1. PICK i \in DOMAIN r : r[i].job = j /\ r[i].status \in {"queued", "running"}
    BY DEF Busy, Shown, ItemsOf
  <2>2. i # t /\ i \in DOMAIN q /\ r[i] = q[i]
    BY <1>1, <1>3, <1>4, <2>1
  <2> QED  BY <2>1, <2>2 DEF Busy, Shown, ItemsOf
<1>8. StaysDropped(queue, RunQueue(r)) /\ Keyed(RunQueue(r))
  BY <1>6, <1>7, RunQueueFewer, FewerStays
<1> QED  BY <1>5, <1>8, CommitCalms

LEMMA EndCalms ==
  ASSUME DocsKeyed, NEW t \in Tasks, NEW q, NEW c, NEW status \in {"done", "failed"},
         Keyed(q), StaysDropped(queue, q), End(t, q, c, status)
  PROVE  Calms
<1> DEFINE r == [i \in DOMAIN q |-> IF i = t /\ q[i].status = "running"
                                   THEN [q[i] EXCEPT !.status = status] ELSE q[i]]
<1>1. Settled(q, r)
  BY DEF Settled
<1>2. Commit(RunQueue(r), c) /\ UNCHANGED << saves, server, reloads >>
  BY DEF End, copy
<1> HIDE DEF r
<1>3. StaysDropped(queue, r) /\ Keyed(r)
  BY <1>1, SettledIsFewer, FewerStays
<1>4. StaysDropped(queue, RunQueue(r)) /\ Keyed(RunQueue(r))
  BY <1>3, RunQueueFewer, FewerStays
<1> QED  BY <1>2, <1>4, CommitCalms

LEMMA FewerCalms ==
  ASSUME DocsKeyed, NEW q, NEW c, Fewer(queue, q), Commit(q, c),
         UNCHANGED << saves, server, reloads >>
  PROVE  Calms
<1>1. StaysDropped(queue, q) /\ Keyed(q)
  BY SameStays, FewerStays DEF DocsKeyed
<1> QED  BY <1>1, CommitCalms

(* The item of a task gets its job, which may be one that was canceled.    *)
LEMMA PostedCalms ==
  ASSUME DocsKeyed, NEW t \in Tasks, Posted(t)
  PROVE  Calms
<1> DEFINE q == [i \in DOMAIN queue |->
                   IF i = t THEN [queue[i] EXCEPT !.job = run[t].job, !.remote = TRUE]
                   ELSE queue[i]]
<1>1. Commit(q, canvas) /\ UNCHANGED << saves, server, reloads >> /\ run[t].phase = "posted"
  BY DEF Posted, copy
<1>2. t \notin Jobs
  BY NamesDiffer DEF NamesDiffer
<1>3. /\ DOMAIN q = DOMAIN queue
      /\ \A i \in DOMAIN q : i # t => q[i] = queue[i]
      /\ t \in DOMAIN q => IsItem(q[t]) /\ q[t].job = run[t].job /\ q[t].status = queue[t].status
  <2>1. DOMAIN q = DOMAIN queue /\ \A i \in DOMAIN q : i # t => q[i] = queue[i]
    OBVIOUS
  <2>2. ASSUME t \in DOMAIN queue
        PROVE  IsItem(q[t]) /\ q[t].job = run[t].job /\ q[t].status = queue[t].status
    <3>1. q[t] = [queue[t] EXCEPT !.job = run[t].job, !.remote = TRUE]
      BY <2>2
    <3>2. IsItem(queue[t])
      BY <2>2 DEF DocsKeyed, Keyed
    <3> HIDE DEF q
    <3> QED  BY <3>1, <3>2 DEF IsItem, Item
  <2> QED  BY <2>1, <2>2
<1>4. queue' = q
  BY <1>1 DEF Commit
<1> HIDE DEF q
<1>5. Keyed(q)
  BY <1>2, <1>3 DEF DocsKeyed, Keyed
<1>6. DocsKeyed'
  BY <1>1, <1>5, CommitKeyed
<1>7. ASSUME NEW j \in Jobs, run[t].job # j, Busy(q, j)
      PROVE  Busy(queue, j)
  BY <1>3, <1>7 DEF Busy, Shown, ItemsOf
<1> QED  BY <1>1, <1>4, <1>6, <1>7 DEF Calms, DropsStay


LEMMA UpsertCalms ==
  ASSUME DocsKeyed, NEW j \in Jobs, NEW s \in Statuses
  PROVE  Keyed(Upsert(queue, j, s)) /\ StaysDropped(queue, Upsert(queue, j, s))
<1>1. Keyed(queue)
  BY DEF DocsKeyed
<1>2. ASSUME NEW k \in Jobs, Dropped(queue, k), ~Busy(queue, k)
      PROVE  ~Busy(Upsert(queue, j, s), k)
  BY <1>1, <1>2, UpsertStays
<1> QED  BY <1>1, <1>2, UpsertKeyed DEF StaysDropped

LEMMA GenerateCalms ==
  ASSUME DocsKeyed, RunsInv, StatusesOK, NEW t \in Tasks, Generate(t)
  PROVE  Calms
<1>1. Keyed(queue) /\ StaysDropped(queue, queue)
  BY SameStays DEF DocsKeyed
<1>2. CASE PostFails(t) \/ Resolved(t)
  BY <1>1, <1>2, EndCalms DEF PostFails, Resolved
<1>3. CASE Posted(t)
  BY <1>3, PostedCalms
<1>4. CASE Waited(t)
  <2> DEFINE j == run[t].job
             s == jobs[j].status
  <2>1. j \in Jobs /\ s \in Statuses
    BY <1>4 DEF Waited, RunsInv, StatusesOK
  <2>2. CASE End(t, queue, canvas, "failed")
    BY <1>1, <2>2, EndCalms
  <2>3. CASE End(t, Upsert(queue, j, s), canvas, "failed")
    <3>1. Keyed(Upsert(queue, j, s)) /\ StaysDropped(queue, Upsert(queue, j, s))
      BY <2>1, UpsertCalms
    <3> HIDE DEF j, s
    <3> QED  BY <2>3, <3>1, EndCalms
  <2>4. CASE UNCHANGED << desk, copy, reloads >>
    BY <2>4, SameCalms
  <2> QED  BY <1>4, <2>2, <2>3, <2>4 DEF Waited
<1> QED  BY <1>2, <1>3, <1>4 DEF Generate

(* What the user does: an item is settled or removed. *)
LEMMA UserCalms ==
  ASSUME DocsKeyed,
         \/ \E t \in Tasks : Submit(t) \/ TimesOut(t) \/ StopLocal(t)
         \/ \E i, t \in Tasks : Retry(i, t)
         \/ \E i \in DOMAIN queue : CancelRemote(i) \/ Dismiss(i)
  PROVE  Calms
<1>1. Keyed(queue) /\ StaysDropped(queue, queue)
  BY SameStays DEF DocsKeyed
<1>2. ASSUME NEW q, Settled(queue, q)
      PROVE  Fewer(queue, q)
  BY <1>1, <1>2, SettledIsFewer
<1>3. ASSUME NEW t \in Tasks, Submit(t)
      PROVE  Calms
  <2>1. Fewer(queue, queue)
    BY <1>2 DEF Settled
  <2> QED  BY <1>3, <2>1, StartCalms DEF Submit
<1>4. ASSUME NEW i
      PROVE  Fewer(queue, [k \in DOMAIN queue \ {i} |-> queue[k]])
  BY <1>2 DEF Settled
<1>5. ASSUME NEW i \in Tasks, NEW t \in Tasks, Retry(i, t)
      PROVE  Calms
  BY <1>4, <1>5, StartCalms DEF Retry
<1>6. ASSUME NEW t \in Tasks, TimesOut(t)
      PROVE  Calms
  BY <1>6, SameCalms DEF TimesOut
<1>7. ASSUME NEW i \in DOMAIN queue, NEW status \in {"failed", "canceled"}
      PROVE  Settled(queue, [queue EXCEPT ![i].status = status])
  <2> DEFINE q == [queue EXCEPT ![i].status = status]
  <2>1. DOMAIN q = DOMAIN queue /\ \A k \in DOMAIN queue : k # i => q[k] = queue[k]
    OBVIOUS
  <2>2. q[i] = [queue[i] EXCEPT !.status = status]
    BY DOMAIN queue = DOMAIN queue
  <2> HIDE DEF q
  <2>3. Settled(queue, q)
    BY <2>1, <2>2 DEF Settled
  <2> QED  BY <2>3 DEF q
<1>8. ASSUME NEW t \in Tasks, StopLocal(t)
      PROVE  Calms
  <2> DEFINE failed == [queue EXCEPT ![t].status = "failed"]
             marked == MarkJob(failed, run[t].job, "canceled")
  <2>1. t \in DOMAIN queue /\ UNCHANGED << saves, server, reloads >>
        /\ (Commit(failed, canvas) \/ Commit(marked, canvas))
    BY <1>8 DEF StopLocal, copy
  <2>2. Fewer(queue, failed)
    BY <1>2, <1>7, <2>1
  <2>3. StaysDropped(queue, failed) /\ Keyed(failed)
    <3> HIDE DEF failed
    <3> QED  BY <1>1, <2>2, FewerStays
  <2>4. StaysDropped(queue, marked) /\ Keyed(marked)
    <3> HIDE DEF failed
    <3>1. Fewer(failed, marked)
      BY <2>3, MarkJobFewer
    <3> HIDE DEF marked
    <3> QED  BY <2>3, <3>1, FewerStays
  <2> HIDE DEF failed, marked
  <2> QED  BY <2>1, <2>3, <2>4, CommitCalms
<1>9. ASSUME NEW i \in DOMAIN queue, CancelRemote(i)
      PROVE  Calms
  <2>1. /\ Commit([queue EXCEPT ![i].status = "canceled"], canvas)
        /\ UNCHANGED << saves, server, reloads >>
    BY <1>9 DEF CancelRemote, copy
  <2>2. Fewer(queue, [queue EXCEPT ![i].status = "canceled"])
    BY <1>2, <1>7
  <2> QED  BY <2>1, <2>2, FewerCalms
<1>10. ASSUME NEW i \in DOMAIN queue, Dismiss(i)
       PROVE  Calms
  <2>1. Commit([k \in DOMAIN queue \ {i} |-> queue[k]], canvas) /\ UNCHANGED << saves, server, reloads >>
    BY <1>10 DEF Dismiss, copy
  <2> QED  BY <1>4, <2>1, FewerCalms
<1> QED  BY <1>3, <1>5, <1>6, <1>8, <1>9, <1>10

(* What the effect of the remote jobs and the answers to cancels do. *)
LEMMA JobsCalm ==
  ASSUME DocsKeyed, StatusesOK, IsFiniteSet(Jobs),
         \/ Listed \/ Attach \/ NothingToFollow \/ Followed
         \/ \E j \in Jobs : Follow(j) \/ CancelAnswered(j)
  PROVE  Calms
<1>1. Keyed(queue)
  BY DEF DocsKeyed
<1>2. ASSUME NEW j, NEW status, status \notin {"queued", "running"}
      PROVE  Fewer(queue, MarkJob(queue, j, status))
  BY <1>1, <1>2, MarkJobFewer
<1>3. ASSUME NEW j \in Jobs, NEW s \in Statuses, NEW c, Commit(Upsert(queue, j, s), c),
             UNCHANGED << saves, server, reloads >>
      PROVE  Calms
  <2>1. Keyed(Upsert(queue, j, s)) /\ StaysDropped(queue, Upsert(queue, j, s))
    BY UpsertCalms
  <2> QED  BY <1>3, <2>1, CommitCalms
<1>4. CASE Listed
  <2>1. /\ Commit(UpsertAll(queue, sync.listed), canvas) /\ UNCHANGED << saves, server, reloads >>
        /\ sync.listed \in [Jobs -> Statuses]
    BY <1>4 DEF Listed, copy, StatusesOK
  <2>2. /\ Keyed(UpsertAll(queue, sync.listed))
        /\ StaysDropped(queue, UpsertAll(queue, sync.listed))
    BY <1>1, <2>1, UpsertAllCalm
  <2> QED  BY <2>1, <2>2, CommitCalms
<1>5. CASE Attach
  <2>1. Commit(MarkJob(queue, sync.job, "done"), canvas \cup {sync.job})
        /\ UNCHANGED << saves, server, reloads >>
    BY <1>5 DEF Attach, copy
  <2> QED  BY <1>2, <2>1, FewerCalms
<1>6. CASE NothingToFollow
  <2>1. CASE UNCHANGED << desk, copy, reloads >>
    BY <2>1, SameCalms
  <2>2. ASSUME NEW j \in Jobs, sync.listed[j] \in {"unknown", "failed"},
               SyncEnds(MarkJob(queue, j, sync.listed[j]))
        PROVE  Calms
    <3>1. /\ Commit(MarkJob(queue, j, sync.listed[j]), canvas)
          /\ UNCHANGED << saves, server, reloads >>
      BY <2>2 DEF SyncEnds, copy
    <3>2. Fewer(queue, MarkJob(queue, j, sync.listed[j]))
      BY <1>2, <2>2
    <3> QED  BY <3>1, <3>2, FewerCalms
  <2> QED  BY <1>6, <2>1, <2>2 DEF NothingToFollow
<1>7. CASE Followed
  <2>1. CASE SyncEnds(MarkJob(queue, sync.job, "done"))
    <3>1. Commit(MarkJob(queue, sync.job, "done"), canvas) /\ UNCHANGED << saves, server, reloads >>
      BY <2>1 DEF SyncEnds, copy
    <3> QED  BY <1>2, <3>1, FewerCalms
  <2>2. CASE SyncEnds(Upsert(queue, sync.job, jobs[sync.job].status)) /\ sync.phase = "polling"
    <3>1. /\ Commit(Upsert(queue, sync.job, jobs[sync.job].status), canvas)
          /\ UNCHANGED << saves, server, reloads >>
      BY <2>2 DEF SyncEnds, copy
    <3>2. sync.job \in Jobs /\ jobs[sync.job].status \in Statuses
      BY <2>2 DEF StatusesOK
    <3> QED  BY <1>3, <3>1, <3>2
  <2> QED  BY <1>7, <2>1, <2>2 DEF Followed
<1>8. ASSUME NEW j \in Jobs, Follow(j)
      PROVE  Calms
  <2>1. /\ Commit(Upsert(queue, j, sync.listed[j]), canvas) /\ UNCHANGED << saves, server, reloads >>
        /\ sync.listed[j] \in Statuses
    BY <1>8 DEF Follow, copy, StatusesOK
  <2> QED  BY <1>3, <2>1
<1>9. ASSUME NEW j \in Jobs, CancelAnswered(j)
      PROVE  Calms
  <2>1. /\ Commit(Upsert(queue, j, cancels[j]), canvas) /\ UNCHANGED << saves, server, reloads >>
        /\ cancels[j] \in Statuses
    BY <1>9 DEF CancelAnswered, copy, StatusesOK
  <2> QED  BY <1>3, <2>1
<1> QED  BY <1>4, <1>5, <1>6, <1>7, <1>8, <1>9

LEMMA QueueCalms ==
  ASSUME DocsKeyed, RunsInv, StatusesOK, IsFiniteSet(Jobs), [Next]_vars
  PROVE  Calms
<1>1. CASE UNCHANGED << desk, copy, reloads >>
  BY <1>1, SameCalms
<1>2. ASSUME NEW j \in Jobs, BeginAttach(j) \/ Serve(j) \/ ServeCancel(j)
      PROVE  Calms
  BY <1>1, <1>2 DEF BeginAttach, Serve, ServeCancel
<1>3. ASSUME NEW t \in Tasks, NEW j \in Jobs, Accept(t, j)
      PROVE  Calms
  BY <1>1, <1>3 DEF Accept
<1>4. CASE List \/ YieldForeground
  BY <1>1, <1>4 DEF List, YieldForeground
<1>5. reloads \in Nat
  BY DEF RunsInv
<1>6. CASE UNCHANGED vars
  BY <1>1, <1>6 DEF vars
<1> QED
  BY <1>2, <1>3, <1>4, <1>5, <1>6, SavesCalm, GenerateCalms, UserCalms, JobsCalm DEF Next

(* A list of jobs read before the cancel, or the late answer to it, does   *)
(* not show a canceled task running again (upsertRemoteGenerationJobTask). *)
THEOREM CanceledTasksStay ==
  ASSUME IsFiniteSet(Jobs)
  PROVE  Spec => CanceledStays
<1>1. DocsKeyed /\ RunsInv /\ StatusesOK /\ [Next]_vars => Calms
  BY QueueCalms
<1>2. DocsKeyed /\ RunsInv /\ StatusesOK /\ [Next]_vars => DocsKeyed' /\ DropsStay
  BY <1>1 DEF Calms
<1>3. DropsStay =>
        \A j \in Jobs :
          /\ Shown(queue, j, {"canceled"}) /\ ~Shown(queue, j, {"queued", "running"})
          /\ ~adopted' /\ reloads' = reloads
          => \/ ~Shown(queue', j, {"queued", "running"})
             \/ \E t \in Tasks : run[t].phase = "posted" /\ run[t].job = j
  BY DEF DropsStay, Dropped, Busy
<1> QED
  BY <1>2, <1>3, DocsInit, RunsInit, StatusesInit, RunsStep, StatusesStep, PTL
     DEF Spec, CanceledStays
===============================================================================
