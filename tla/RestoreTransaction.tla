-------------------------- MODULE RestoreTransaction --------------------------
(***************************************************************************)
(* Restoring a personal backup (restoreUserBackup in userBackup.js, with   *)
(* commitUserRestore and recoverUserRestore of restoreTransaction.js): the *)
(* snapshot is staged, the old entries are moved aside and the staged ones *)
(* moved in under a journal.  Any file operation may fail, the process may *)
(* crash between any two of them, and removing a directory may stop half   *)
(* way.  The user's data lock makes the accesses of one user sequential:   *)
(* the process is in one of them, or between two.                          *)
(*                                                                         *)
(* A definition X_Wrong is X with a plausible mistake; no behaviour uses   *)
(* it.                                                                     *)
(***************************************************************************)
EXTENDS Naturals

CONSTANTS
  N,           \* the number of ENTRIES, which are visited in order
  Contents,    \* what an entry may hold
  None,        \* the entry does not exist
  Torn,        \* the entry is half written or half removed
  NoSnapshot

ASSUME RestoreAssumption ==
  /\ N \in Nat
  /\ None \notin Contents
  /\ Torn \notin Contents
  /\ None # Torn
  /\ NoSnapshot \notin [1 .. N -> Contents \cup {None}]

ENTRIES == 1 .. N
Snapshots == [ENTRIES -> Contents \cup {None}]
Places == [ENTRIES -> Contents \cup {None, Torn}]

VARIABLES
  home,        \* the entries of the user's directory
  staged,      \* .restore-transaction/staged
  previous,    \* .restore-transaction/previous
  journal,     \* the phase of journal.json, "none" when it does not exist
  had,         \* the entries of the journal with hadOriginal
  snapshot,    \* the validated payload of the restore in progress
  pc,          \* what the access awaits next
  goal,        \* what follows the recovery in progress
  at           \* the entry that a loop has come to

files == << home, staged, previous, journal, had >>
control == << snapshot, pc, goal, at >>
vars == << home, staged, previous, journal, had, snapshot, pc, goal, at >>

Steps ==
  { "idle", "recover", "rollback", "return", "clean", "ready", "stage",
    "prepare", "out", "in", "mark", "sweep" }

(* Recovery runs before every access, again at the start of a restore, in  *)
(* the catch of commitUserRestore (undo) and in that of restoreUserBackup  *)
(* (abort).                                                                *)
Goals == { "access", "restore", "undo", "abort" }

TypeOK ==
  /\ home \in Places /\ staged \in Places /\ previous \in Places
  /\ journal \in { "none", "prepared", "committed" }
  /\ had \in SUBSET ENTRIES
  /\ snapshot \in Snapshots \cup {NoSnapshot}
  /\ pc \in Steps
  /\ goal \in Goals
  /\ at \in 1 .. N + 1
  /\ pc \in { "idle", "ready", "sweep" } => snapshot = NoSnapshot

Init ==
  /\ home \in Snapshots
  /\ staged = [e \in ENTRIES |-> None]
  /\ previous = [e \in ENTRIES |-> None]
  /\ journal = "none"
  /\ had = {}
  /\ snapshot = NoSnapshot
  /\ pc = "idle"
  /\ goal = "access"
  /\ at = 1

-------------------------------------------------------------------------------
(* Control. *)

Goto(step) == pc' = step /\ at' = 1 /\ UNCHANGED << snapshot, goal >>
Advance(step) == pc' = step /\ at' = at + 1 /\ UNCHANGED << snapshot, goal >>
Recover(why) ==
  pc' = "recover" /\ goal' = why /\ at' = 1 /\ UNCHANGED snapshot
Leave ==
  pc' = "idle" /\ snapshot' = NoSnapshot /\ at' = 1 /\ UNCHANGED goal

More(step) == pc = step /\ at <= N
Done(step) == pc = step /\ at > N

(* fs.rm with recursive: what it leaves of an entry while it runs. *)
Removing(place, e) ==
  { [place EXCEPT ![e] = Torn], [place EXCEPT ![e] = None] }

-------------------------------------------------------------------------------
(* A request enters, recovers, and then reads, writes or restores. *)

Access ==
  /\ pc = "idle"
  /\ Recover("access")
  /\ UNCHANGED files

(* Any write or removal of one entry: the history, a session, a job, an    *)
(* asset.  A request may change several.                                   *)
Save(e) ==
  /\ pc = "ready"
  /\ \E c \in Contents \cup {None} : home' = [home EXCEPT ![e] = c]
  /\ UNCHANGED << staged, previous, journal, had, control >>

Respond ==
  /\ pc = "ready"
  /\ Leave
  /\ UNCHANGED files

(* POST backup/restore, with a payload that validateUserBackup accepts.    *)
BeginRestore ==
  /\ pc = "ready"
  /\ snapshot' \in Snapshots
  /\ pc' = "recover"
  /\ goal' = "restore"
  /\ at' = 1
  /\ UNCHANGED files

-------------------------------------------------------------------------------
(* recoverUserRestore *)

RecoverRead ==
  /\ pc = "recover"
  /\ Goto(IF journal = "prepared" THEN "rollback" ELSE "clean")
  /\ UNCHANGED files

(* A moved entry displaces whatever is in its place; an entry that did not *)
(* exist is removed; any other is still where it was.                      *)
RollbackRemove ==
  /\ More("rollback")
  /\ home[at] # None
  /\ previous[at] # None \/ at \notin had
  /\ home' \in Removing(home, at)
  /\ UNCHANGED << staged, previous, journal, had, control >>

RollbackReturn ==
  /\ More("rollback")
  /\ previous[at] # None
  /\ home[at] = None
  /\ home' = [home EXCEPT ![at] = previous[at]]
  /\ previous' = [previous EXCEPT ![at] = None]
  /\ Advance("rollback")
  /\ UNCHANGED << staged, journal, had >>

RollbackKeep_Wrong ==
  /\ More("rollback")
  /\ previous[at] = None
  /\ Advance("rollback")
  /\ UNCHANGED files
RollbackKeep ==
  /\ More("rollback")
  /\ previous[at] = None
  /\ at \notin had => home[at] = None
  /\ Advance("rollback")
  /\ UNCHANGED files

RollbackDone ==
  /\ Done("rollback")
  /\ Goto("clean")
  /\ UNCHANGED files

(* fs.rm of the whole transaction directory: its parts go in any order. *)
RemoveSome ==
  \/ /\ \E e \in ENTRIES : staged[e] # None /\ staged' \in Removing(staged, e)
     /\ UNCHANGED << home, previous, journal, had >>
  \/ /\ \E e \in ENTRIES : previous[e] # None /\ previous' \in Removing(previous, e)
     /\ UNCHANGED << home, staged, journal, had >>
  \/ /\ journal # "none"
     /\ journal' = "none"
     /\ had' = {}
     /\ UNCHANGED << home, staged, previous >>

Removed ==
  /\ journal = "none"
  /\ \A e \in ENTRIES : staged[e] = None /\ previous[e] = None

Clean ==
  /\ pc = "clean"
  /\ RemoveSome
  /\ UNCHANGED control

Recovered ==
  /\ pc = "clean"
  /\ Removed
  /\ CASE goal = "access"  -> Goto("ready")
       [] goal = "restore" -> Goto("stage")
       [] goal = "undo"    -> Recover("abort")
       [] OTHER            -> Leave
  /\ UNCHANGED files

(* A failed recovery fails the access; after the catch of                  *)
(* commitUserRestore, that of restoreUserBackup tries once more.           *)
RecoverFails_Wrong ==
  /\ pc \in { "recover", "rollback", "clean" }
  /\ IF goal = "undo" THEN Recover("undo") ELSE Leave
  /\ UNCHANGED files
RecoverFails ==
  /\ pc \in { "recover", "rollback", "clean" }
  /\ IF goal = "undo" THEN Recover("abort") ELSE Leave
  /\ UNCHANGED files

-------------------------------------------------------------------------------
(* restoreUserBackup: the snapshot is staged. *)

StageEntry ==
  /\ More("stage")
  /\ snapshot[at] # None
  /\ \/ /\ staged' = [staged EXCEPT ![at] = snapshot[at]]
        /\ Advance("stage")
     \/ /\ staged' = [staged EXCEPT ![at] = Torn]
        /\ UNCHANGED control
  /\ UNCHANGED << home, previous, journal, had >>

StageNothing ==
  /\ More("stage")
  /\ snapshot[at] = None
  /\ Advance("stage")
  /\ UNCHANGED files

Staged ==
  /\ Done("stage")
  /\ Goto("prepare")
  /\ UNCHANGED files

(* commitUserRestore: the journal is written before an entry moves. *)
Prepare_Wrong ==
  /\ pc = "prepare"
  /\ journal' = "prepared"
  /\ had' = { e \in ENTRIES : staged[e] # None }
  /\ Goto("out")
  /\ UNCHANGED << home, staged, previous >>
Prepare ==
  /\ pc = "prepare"
  /\ journal' = "prepared"
  /\ had' = { e \in ENTRIES : home[e] # None }
  /\ Goto("out")
  /\ UNCHANGED << home, staged, previous >>

MoveOut ==
  /\ More("out")
  /\ IF at \in had
     THEN /\ previous' = [previous EXCEPT ![at] = home[at]]
          /\ home' = [home EXCEPT ![at] = None]
     ELSE UNCHANGED << home, previous >>
  /\ pc' = "in"
  /\ UNCHANGED << staged, journal, had, snapshot, goal, at >>

MoveIn ==
  /\ pc = "in"
  /\ IF staged[at] # None
     THEN /\ home' = [home EXCEPT ![at] = staged[at]]
          /\ staged' = [staged EXCEPT ![at] = None]
     ELSE UNCHANGED << home, staged >>
  /\ Advance("out")
  /\ UNCHANGED << previous, journal, had >>

(* The snapshot is the user's data from here on. *)
Mark ==
  /\ Done("out")
  /\ journal' = "committed"
  /\ pc' = "sweep"
  /\ snapshot' = NoSnapshot
  /\ at' = 1
  /\ UNCHANGED << home, staged, previous, had, goal >>

RestoreFails ==
  /\ \/ pc \in { "stage", "prepare" } /\ Recover("abort")
     \/ pc \in { "out", "in" } /\ Recover("undo")
  /\ UNCHANGED files

(* The cleanup is best effort. *)
Sweep ==
  /\ pc = "sweep"
  /\ RemoveSome
  /\ UNCHANGED control

SweepEnds ==
  /\ pc = "sweep"
  /\ Leave
  /\ UNCHANGED files

-------------------------------------------------------------------------------
Crash ==
  /\ pc # "idle"
  /\ Leave
  /\ UNCHANGED files

Progress ==
  \/ Respond \/ RecoverRead \/ RollbackRemove \/ RollbackReturn \/ RollbackKeep
  \/ RollbackDone \/ Clean \/ Recovered \/ StageEntry \/ StageNothing \/ Staged
  \/ Prepare \/ MoveOut \/ MoveIn \/ Mark \/ Sweep \/ SweepEnds

Next ==
  \/ Access \/ BeginRestore
  \/ \E e \in ENTRIES : Save(e)
  \/ Progress
  \/ RecoverFails \/ RestoreFails
  \/ Crash

Spec == Init /\ [][Next]_vars

(* The event loop goes on with an access that nothing fails. *)
FairSpec == Spec /\ WF_vars(Progress)

-------------------------------------------------------------------------------
(* Properties. *)

(* What the next access sees once it has recovered: under a prepared       *)
(* journal the old data, wherever its entries are.                         *)
View ==
  [ e \in ENTRIES |->
      IF journal # "prepared" THEN home[e]
      ELSE IF previous[e] # None THEN previous[e]
      ELSE IF e \in had THEN home[e]
      ELSE None ]

Abstract == INSTANCE AtomicRestore
              WITH Entries <- ENTRIES, data <- View, snapshot <- snapshot

(* A restore is all or nothing: whatever fails or crashes, what the user's *)
(* accesses see changes from the old data to the whole snapshot in the one *)
(* step that writes the committed journal (commitUserRestore).             *)
Atomic == Abstract!Spec

(* Why the view is stable, in parts.  Under a prepared journal the old     *)
(* entry is in `previous' or still in place; otherwise nothing is torn.    *)
Recovering == pc \in { "recover", "rollback", "clean" }

Journaled ==
  IF journal = "prepared"
  THEN \A e \in ENTRIES :
         /\ previous[e] # Torn
         /\ previous[e] # None => e \in had
         /\ e \in had /\ previous[e] = None => home[e] \in Contents
  ELSE home \in Snapshots

RolledBack(e) == previous[e] = None /\ (e \notin had => home[e] = None)

RollbackOK ==
  /\ pc = "rollback" => journal = "prepared" /\ \A e \in 1 .. at - 1 : RolledBack(e)
  /\ pc = "clean" /\ journal = "prepared" => \A e \in ENTRIES : RolledBack(e)

(* The entries before `at' are done, the others are untouched. *)
StageOK ==
  /\ pc \in { "ready", "stage", "prepare" }
       => journal = "none" /\ \A e \in ENTRIES : previous[e] = None
  /\ pc = "ready" => \A e \in ENTRIES : staged[e] = None
  /\ pc = "stage" =>
       /\ \A e \in 1 .. at - 1 : staged[e] = snapshot[e]
       /\ \A e \in at + 1 .. N : staged[e] = None
       /\ at <= N => IF snapshot[at] = None THEN staged[at] = None
                     ELSE staged[at] \in { None, Torn }
  /\ pc = "prepare" => staged = snapshot

SwitchOK ==
  pc \in { "out", "in" } =>
    /\ journal = "prepared"
    /\ pc = "in" => at <= N /\ home[at] = None /\ staged[at] = snapshot[at]
    /\ \A e \in 1 .. at - 1 : home[e] = snapshot[e]
    /\ \A e \in ENTRIES :
         (e > at \/ (e = at /\ pc = "out"))
           => /\ staged[e] = snapshot[e]
              /\ previous[e] = None
              /\ e \notin had => home[e] = None
    /\ \A e \in had : (e < at \/ (e = at /\ pc = "in")) => previous[e] # None

PayloadOK ==
  /\ pc = "sweep" => journal # "prepared"
  /\ Recovering /\ goal = "access" => snapshot = NoSnapshot
  /\ Recovering /\ goal # "access" => snapshot \in Snapshots
  /\ pc \in { "stage", "prepare", "out", "in" } => snapshot \in Snapshots

IInv == TypeOK /\ Journaled /\ RollbackOK /\ StageOK /\ SwitchOK /\ PayloadOK

(* A request reads and writes the user's data, and a restore is staged,    *)
(* only where recovery left nothing behind: the entries in place are the   *)
(* user's data and no remains of a former restore can enter the next one   *)
(* (recoverUserRestore).                                                   *)
ReadyIsClean ==
  pc \in { "ready", "stage" } =>
    /\ journal = "none"
    /\ \A e \in ENTRIES :
         /\ home[e] # Torn
         /\ previous[e] = None
         /\ pc = "ready" \/ at < e => staged[e] = None

(* A recovery, complete or cut short, first or repeated, never changes     *)
(* what the user's data is: after a crash it neither loses an old entry    *)
(* nor lets a new one in (recoverUserRestore).                             *)
RecoveryKeepsData ==
  [][Recovering => View' = View]_vars

(* An access always ends, whatever fails in it: it holds the lock of the   *)
(* user's data meanwhile (handler).                                        *)
AccessEnds == pc # "idle" ~> pc = "idle"
===============================================================================
