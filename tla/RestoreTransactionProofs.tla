----------------------- MODULE RestoreTransactionProofs -----------------------
(***************************************************************************)
(* Theorems about RestoreTransaction, for every number of entries and      *)
(* every set of contents.                                                  *)
(***************************************************************************)
EXTENDS RestoreTransaction, TLAPS

(* The vocabulary in which every action is written. *)
USE RestoreAssumption
USE DEF ENTRIES, Snapshots, Places, files, control, Goto, Advance, Recover,
        Leave, More, Done

(* Before the first access nothing is staged, moved or journaled. *)
LEMMA InitKeeps == Init => IInv
  BY DEF Init, IInv, TypeOK, Steps, Goals, Journaled, RollbackOK, StageOK,
         SwitchOK, PayloadOK, Recovering

(***************************************************************************)
(* The steps of the control that leave the files alone: an access enters,  *)
(* fails or is interrupted, or a phase of the restore ends.  The journal   *)
(* is judged by the files only.                                            *)
(***************************************************************************)
LEMMA JournaledByFiles == Journaled /\ UNCHANGED files => Journaled'
  BY DEF Journaled

(* An access enters, ends or starts a restore (handler). *)
LEMMA AccessKeeps ==
  ASSUME IInv, Access \/ Respond \/ BeginRestore \/ SweepEnds \/ Crash
  PROVE  IInv'
<1>1. UNCHANGED files
  BY DEF Access, Respond, BeginRestore, SweepEnds, Crash
<1>2. Journaled'
  BY <1>1, JournaledByFiles DEF IInv
<1>3. pc' \in { "idle", "recover" }
  BY DEF Access, Respond, BeginRestore, SweepEnds, Crash
<1>4. TypeOK'
  BY <1>1 DEF IInv, TypeOK, Steps, Goals, Access, Respond, BeginRestore,
              SweepEnds, Crash
<1>5. RollbackOK' /\ StageOK' /\ SwitchOK'
  BY <1>3 DEF RollbackOK, StageOK, SwitchOK
<1>6. PayloadOK'
  BY DEF IInv, TypeOK, PayloadOK, Recovering, Access, Respond, BeginRestore,
         SweepEnds, Crash
<1> QED
  BY <1>2, <1>4, <1>5, <1>6 DEF IInv

(* An access or a restore that fails recovers once more or gives up (the   *)
(* catch blocks of commitUserRestore and restoreUserBackup).               *)
LEMMA FailureKeeps ==
  ASSUME IInv, RecoverFails \/ RestoreFails
  PROVE  IInv'
<1>1. UNCHANGED files
  BY DEF RecoverFails, RestoreFails
<1>2. Journaled'
  BY <1>1, JournaledByFiles DEF IInv
<1>3. pc' \in { "idle", "recover" }
  BY DEF RecoverFails, RestoreFails
<1>4. TypeOK'
  BY <1>1 DEF IInv, TypeOK, Steps, Goals, RecoverFails, RestoreFails
<1>5. RollbackOK' /\ StageOK' /\ SwitchOK'
  BY <1>3 DEF RollbackOK, StageOK, SwitchOK
<1>6. PayloadOK'
  BY DEF IInv, PayloadOK, Recovering, RecoverFails, RestoreFails
<1> QED
  BY <1>2, <1>4, <1>5, <1>6 DEF IInv

(* A save replaces one entry where recovery left nothing behind. *)
LEMMA SaveKeeps ==
  ASSUME IInv, NEW e \in ENTRIES, Save(e)
  PROVE  IInv'
<1>1. journal = "none"
  BY DEF IInv, StageOK, Save
<1>2. TypeOK' /\ Journaled'
  BY <1>1 DEF IInv, TypeOK, Journaled, Save
<1>3. RollbackOK' /\ StageOK' /\ SwitchOK' /\ PayloadOK'
  BY DEF IInv, RollbackOK, StageOK, SwitchOK, PayloadOK, Recovering, Save
<1> QED
  BY <1>2, <1>3 DEF IInv

(***************************************************************************)
(* recoverUserRestore.                                                     *)
(***************************************************************************)

(* Recovery rolls back under a prepared journal and cleans up under any    *)
(* other (recoverUserRestore).                                             *)
LEMMA RecoverReadKeeps ==
  ASSUME IInv, RecoverRead
  PROVE  IInv'
<1>1. TypeOK' /\ Journaled'
  BY JournaledByFiles DEF IInv, TypeOK, Steps, Goals, RecoverRead
<1>2. RollbackOK'
  BY DEF RollbackOK, RecoverRead
<1>3. StageOK' /\ SwitchOK' /\ PayloadOK'
  BY DEF IInv, StageOK, SwitchOK, PayloadOK, Recovering, RecoverRead
<1> QED
  BY <1>1, <1>2, <1>3 DEF IInv

(* Only what a moved entry displaces, or what did not exist, is removed:   *)
(* no entry that still is where it was.                                    *)
LEMMA RollbackRemoveKeeps ==
  ASSUME IInv, RollbackRemove
  PROVE  IInv'
<1>1. journal = "prepared" /\ at \in ENTRIES
  BY DEF IInv, TypeOK, RollbackOK, RollbackRemove
<1>2. \A e \in ENTRIES : e # at => home'[e] = home[e]
  BY <1>1 DEF IInv, TypeOK, Removing, RollbackRemove
<1>3. TypeOK'
  BY <1>1 DEF IInv, TypeOK, Removing, RollbackRemove
<1>4. Journaled'
  BY <1>1, <1>2 DEF IInv, Journaled, RollbackRemove
<1>5. RollbackOK'
  BY <1>1, <1>2 DEF IInv, TypeOK, RollbackOK, RolledBack, RollbackRemove
<1>6. StageOK' /\ SwitchOK' /\ PayloadOK'
  BY DEF IInv, StageOK, SwitchOK, PayloadOK, Recovering, RollbackRemove
<1> QED
  BY <1>3, <1>4, <1>5, <1>6 DEF IInv

(* A moved entry returns to its place. *)
LEMMA RollbackReturnKeeps ==
  ASSUME IInv, RollbackReturn
  PROVE  IInv'
<1>1. journal = "prepared" /\ at \in ENTRIES
  BY DEF IInv, TypeOK, RollbackOK, RollbackReturn
<1>2. at \in had /\ previous[at] \in Contents
  BY <1>1 DEF IInv, TypeOK, Journaled, RollbackReturn
<1>3. TypeOK'
  BY <1>1, <1>2 DEF IInv, TypeOK, Steps, RollbackReturn
<1>4. Journaled'
  BY <1>1, <1>2 DEF IInv, TypeOK, Journaled, RollbackReturn
<1>5. RollbackOK'
  BY <1>1, <1>2 DEF IInv, TypeOK, RollbackOK, RolledBack, RollbackReturn
<1>6. StageOK' /\ SwitchOK' /\ PayloadOK'
  BY DEF IInv, StageOK, SwitchOK, PayloadOK, Recovering, RollbackReturn
<1> QED
  BY <1>3, <1>4, <1>5, <1>6 DEF IInv

(* The loop passes an entry that needs nothing, and ends. *)
LEMMA RollbackAdvanceKeeps ==
  ASSUME IInv, RollbackKeep \/ RollbackDone
  PROVE  IInv'
<1>1. UNCHANGED files /\ at \in 1 .. N + 1
  BY DEF IInv, TypeOK, RollbackKeep, RollbackDone
<1>2. TypeOK' /\ Journaled'
  BY <1>1, JournaledByFiles DEF IInv, TypeOK, Steps, RollbackKeep, RollbackDone
<1>3. RollbackOK'
  <2>1. CASE RollbackKeep
    BY <1>1, <2>1 DEF IInv, RollbackOK, RolledBack, RollbackKeep
  <2>2. CASE RollbackDone
    BY <1>1, <2>2 DEF IInv, RollbackOK, RolledBack, RollbackDone
  <2> QED
    BY <2>1, <2>2
<1>4. StageOK' /\ SwitchOK' /\ PayloadOK'
  BY DEF IInv, StageOK, SwitchOK, PayloadOK, Recovering, RollbackKeep, RollbackDone
<1> QED
  BY <1>2, <1>3, <1>4 DEF IInv

(* Removing the transaction keeps the data: when the rollback is complete, *)
(* nothing of it is left there, and otherwise it was never there.          *)
LEMMA CleanKeeps ==
  ASSUME IInv, Clean
  PROVE  IInv'
<1>1. UNCHANGED << home, control >>
  BY DEF Clean, RemoveSome
<1>2. TypeOK'
  BY <1>1 DEF IInv, TypeOK, Clean, RemoveSome, Removing
<1>3. Journaled' /\ RollbackOK'
  <2>1. CASE journal = "prepared"
    <3>1. \A e \in ENTRIES : previous[e] = None /\ (e \notin had => home[e] = None)
      BY <2>1 DEF IInv, RollbackOK, RolledBack, Clean
    <3>2. UNCHANGED previous
      BY <3>1 DEF Clean, RemoveSome
    <3>3. home \in Snapshots
      BY <2>1, <3>1 DEF IInv, TypeOK, Journaled
    <3> QED
      BY <1>1, <2>1, <3>1, <3>2, <3>3
         DEF IInv, Journaled, RollbackOK, RolledBack, Clean, RemoveSome
  <2>2. CASE journal # "prepared"
    BY <1>1, <2>2 DEF IInv, Journaled, RollbackOK, Clean, RemoveSome
  <2> QED
    BY <2>1, <2>2
<1>4. StageOK' /\ SwitchOK' /\ PayloadOK'
  BY <1>1 DEF IInv, StageOK, SwitchOK, PayloadOK, Recovering, Clean
<1> QED
  BY <1>2, <1>3, <1>4 DEF IInv

(* With the transaction gone, the access goes on. *)
LEMMA RecoveredKeeps ==
  ASSUME IInv, Recovered
  PROVE  IInv'
<1>1. /\ UNCHANGED files
      /\ journal = "none"
      /\ \A e \in ENTRIES : staged[e] = None /\ previous[e] = None
  BY DEF Recovered, Removed
<1>2. TypeOK' /\ Journaled'
  BY <1>1, JournaledByFiles
     DEF IInv, TypeOK, Steps, Goals, PayloadOK, Recovering, Recovered
<1>3. RollbackOK' /\ SwitchOK'
  BY DEF RollbackOK, SwitchOK, Recovered
<1>4. StageOK'
  BY <1>1 DEF StageOK, Recovered
<1>5. PayloadOK'
  BY DEF IInv, PayloadOK, Recovering, Recovered
<1> QED
  BY <1>2, <1>3, <1>4, <1>5 DEF IInv

(***************************************************************************)
(* restoreUserBackup and commitUserRestore.                                *)
(***************************************************************************)

(* Staging writes no entry of the user's directory (restoreUserBackup). *)
LEMMA StagingKeeps ==
  ASSUME IInv, StageEntry \/ StageNothing \/ Staged
  PROVE  IInv'
<1>1. /\ UNCHANGED << home, previous, journal, had >>
      /\ pc = "stage"
      /\ snapshot \in Snapshots
      /\ at \in 1 .. N + 1
  BY DEF IInv, TypeOK, PayloadOK, StageEntry, StageNothing, Staged
<1>2. TypeOK' /\ Journaled'
  BY <1>1 DEF IInv, TypeOK, Steps, Journaled, StageEntry, StageNothing, Staged
<1>3. RollbackOK' /\ SwitchOK' /\ PayloadOK'
  BY <1>1 DEF RollbackOK, SwitchOK, PayloadOK, Recovering, StageEntry,
              StageNothing, Staged
<1>4. StageOK'
  <2>1. CASE StageEntry
    BY <1>1, <2>1 DEF IInv, TypeOK, StageOK, StageEntry
  <2>2. CASE StageNothing
    BY <1>1, <2>2 DEF IInv, TypeOK, StageOK, StageNothing
  <2>3. CASE Staged
    BY <1>1, <2>3 DEF IInv, TypeOK, StageOK, Staged
  <2> QED
    BY <2>1, <2>2, <2>3
<1> QED
  BY <1>2, <1>3, <1>4 DEF IInv

(* The journal names the entries that exist, all of them in place. *)
LEMMA PrepareKeeps ==
  ASSUME IInv, Prepare
  PROVE  IInv'
<1>1. /\ home \in Snapshots
      /\ staged = snapshot /\ snapshot \in Snapshots
      /\ \A e \in ENTRIES : previous[e] = None
  BY DEF IInv, Journaled, StageOK, PayloadOK, Prepare
<1>2. TypeOK'
  BY DEF IInv, TypeOK, Steps, Prepare
<1>3. Journaled'
  BY <1>1 DEF Journaled, Prepare
<1>4. RollbackOK' /\ StageOK' /\ PayloadOK'
  BY <1>1 DEF RollbackOK, StageOK, PayloadOK, Recovering, Prepare
<1>5. SwitchOK'
  BY <1>1 DEF SwitchOK, Prepare
<1> QED
  BY <1>2, <1>3, <1>4, <1>5 DEF IInv

(* The old entry moves aside whole. *)
LEMMA MoveOutKeeps ==
  ASSUME IInv, MoveOut
  PROVE  IInv'
<1>1. /\ journal = "prepared" /\ at \in ENTRIES
      /\ previous[at] = None
      /\ staged[at] = snapshot[at]
      /\ at \notin had => home[at] = None
      /\ at \in had => home[at] \in Contents
  BY DEF IInv, TypeOK, SwitchOK, Journaled, MoveOut
<1>2. TypeOK'
  BY <1>1 DEF IInv, TypeOK, Steps, MoveOut
<1>3. Journaled'
  BY <1>1 DEF IInv, TypeOK, Journaled, MoveOut
<1>4. RollbackOK' /\ StageOK' /\ PayloadOK'
  BY DEF IInv, RollbackOK, StageOK, PayloadOK, Recovering, MoveOut
<1>5. SwitchOK'
  BY <1>1 DEF IInv, TypeOK, SwitchOK, MoveOut
<1> QED
  BY <1>2, <1>3, <1>4, <1>5 DEF IInv

(* The staged entry moves into the free place. *)
LEMMA MoveInKeeps ==
  ASSUME IInv, MoveIn
  PROVE  IInv'
<1>1. /\ journal = "prepared" /\ at \in ENTRIES
      /\ snapshot \in Snapshots
      /\ home[at] = None /\ staged[at] = snapshot[at]
      /\ at \in had => previous[at] # None
  BY DEF IInv, TypeOK, SwitchOK, PayloadOK, MoveIn
<1>2. TypeOK'
  BY <1>1 DEF IInv, TypeOK, Steps, MoveIn
<1>3. Journaled'
  BY <1>1 DEF IInv, TypeOK, Journaled, MoveIn
<1>4. RollbackOK' /\ StageOK' /\ PayloadOK'
  BY DEF IInv, RollbackOK, StageOK, PayloadOK, Recovering, MoveIn
<1>5. SwitchOK'
  BY <1>1 DEF IInv, TypeOK, SwitchOK, MoveIn
<1> QED
  BY <1>2, <1>3, <1>4, <1>5 DEF IInv

(* When the last entry has moved, the user's directory is the snapshot. *)
LEMMA Switched ==
  ASSUME IInv, Done("out")
  PROVE  home = snapshot /\ snapshot \in Snapshots /\ journal = "prepared"
<1>1. /\ snapshot \in Snapshots
      /\ home \in Places
      /\ journal = "prepared"
      /\ at = N + 1
  BY DEF IInv, TypeOK, SwitchOK, PayloadOK
<1>2. \A e \in ENTRIES : home[e] = snapshot[e]
  BY <1>1 DEF IInv, SwitchOK
<1> QED
  BY <1>1, <1>2

(* The committed journal gives up the old entries. *)
LEMMA MarkKeeps ==
  ASSUME IInv, Mark
  PROVE  IInv'
<1>1. home = snapshot /\ snapshot \in Snapshots
  BY Switched DEF Mark
<1>2. TypeOK' /\ Journaled'
  BY <1>1 DEF IInv, TypeOK, Steps, Journaled, Mark
<1>3. RollbackOK' /\ StageOK' /\ SwitchOK' /\ PayloadOK'
  BY DEF RollbackOK, StageOK, SwitchOK, PayloadOK, Recovering, Mark
<1> QED
  BY <1>2, <1>3 DEF IInv

(* What is swept is no longer the user's data. *)
LEMMA SweepKeeps ==
  ASSUME IInv, Sweep
  PROVE  IInv'
<1>1. UNCHANGED << home, control >> /\ journal # "prepared"
  BY DEF IInv, PayloadOK, Sweep, RemoveSome
<1>2. TypeOK' /\ Journaled'
  BY <1>1 DEF IInv, TypeOK, Journaled, Sweep, RemoveSome, Removing
<1>3. journal' # "prepared"
  BY <1>1 DEF Sweep, RemoveSome
<1>4. RollbackOK' /\ StageOK' /\ SwitchOK' /\ PayloadOK'
  BY <1>1, <1>3 DEF IInv, RollbackOK, StageOK, SwitchOK, PayloadOK, Recovering, Sweep
<1> QED
  BY <1>2, <1>4 DEF IInv

(* Every step keeps the invariant. *)
LEMMA StepKeeps == IInv /\ [Next]_vars => IInv'
<1> SUFFICES ASSUME IInv, [Next]_vars PROVE IInv'
  OBVIOUS
<1>1. CASE UNCHANGED vars
  BY <1>1 DEF vars, IInv, TypeOK, Journaled, RollbackOK, RolledBack, StageOK,
              SwitchOK, PayloadOK, Recovering
<1>2. CASE Progress
  BY <1>2, AccessKeeps, RecoverReadKeeps, RollbackRemoveKeeps,
     RollbackReturnKeeps, RollbackAdvanceKeeps, CleanKeeps, RecoveredKeeps,
     StagingKeeps, PrepareKeeps, MoveOutKeeps, MoveInKeeps, MarkKeeps, SweepKeeps
     DEF Progress
<1>3. CASE \E e \in ENTRIES : Save(e)
  BY <1>3, SaveKeeps
<1>4. CASE Access \/ BeginRestore \/ Crash
  BY <1>4, AccessKeeps
<1>5. CASE RecoverFails \/ RestoreFails
  BY <1>5, FailureKeeps
<1> QED
  BY <1>1, <1>2, <1>3, <1>4, <1>5 DEF Next

(* The invariant of the transaction: at every step of a restore or a       *)
(* recovery, the old data is whole in the two places that the journal      *)
(* names, or the new data is in place.                                     *)
THEOREM Invariant == Spec => []IInv
<1> QED
  BY InitKeeps, StepKeeps, PTL DEF Spec

(* Requests and restores start from a clean directory, after any crash     *)
(* (recoverUserRestore).                                                   *)
THEOREM CleanAfterRecovery == Spec => []ReadyIsClean
<1>1. IInv => ReadyIsClean
  BY DEF IInv, TypeOK, Journaled, StageOK, ReadyIsClean
<1> QED
  BY <1>1, Invariant, PTL

(***************************************************************************)
(* What the user's accesses see.                                           *)
(***************************************************************************)

(* The view depends on the files only. *)
LEMMA ViewOfFiles == UNCHANGED files => View' = View
  BY DEF View

(* Where no prepared journal exists, the view is what is in place. *)
LEMMA ViewInPlace ==
  ASSUME IInv, journal # "prepared"
  PROVE  View = home /\ home \in Snapshots
  BY DEF IInv, Journaled, View

(* Recovery moves no entry out of the view (recoverUserRestore). *)
LEMMA RecoveryStep ==
  ASSUME IInv, RollbackRemove \/ RollbackReturn \/ Clean
  PROVE  View' = View
<1>1. CASE RollbackRemove
  <2>1. journal = "prepared" /\ at \in ENTRIES
    BY <1>1 DEF IInv, TypeOK, RollbackOK, RollbackRemove
  <2>2. \A e \in ENTRIES : e # at => home'[e] = home[e]
    BY <1>1, <2>1 DEF IInv, TypeOK, Removing, RollbackRemove
  <2> QED
    BY <1>1, <2>1, <2>2 DEF View, RollbackRemove
<1>2. CASE RollbackReturn
  <2>1. journal = "prepared" /\ at \in ENTRIES
    BY <1>2 DEF IInv, TypeOK, RollbackOK, RollbackReturn
  <2>2. at \in had
    BY <1>2, <2>1 DEF IInv, Journaled, RollbackReturn
  <2> QED
    BY <1>2, <2>1, <2>2 DEF IInv, TypeOK, View, RollbackReturn
<1>3. CASE Clean
  <2>1. UNCHANGED home
    BY <1>3 DEF Clean, RemoveSome
  <2>2. CASE journal = "prepared"
    <3>1. \A e \in ENTRIES : previous[e] = None /\ (e \notin had => home[e] = None)
      BY <1>3, <2>2 DEF IInv, RollbackOK, RolledBack, Clean
    <3>2. UNCHANGED previous
      BY <1>3, <3>1 DEF Clean, RemoveSome
    <3>3. journal' = "none" \/ UNCHANGED << journal, had >>
      BY <1>3 DEF Clean, RemoveSome
    <3> QED
      BY <2>1, <2>2, <3>1, <3>2, <3>3 DEF View
  <2>3. CASE journal # "prepared"
    BY <1>3, <2>1, <2>3 DEF Clean, RemoveSome, View
  <2> QED
    BY <2>2, <2>3
<1> QED
  BY <1>1, <1>2, <1>3

(* Staging and the switch move no entry out of the view: the old data is   *)
(* in the transaction or still in place (restoreUserBackup,                *)
(* commitUserRestore).                                                     *)
LEMMA RestoreStep ==
  ASSUME IInv, StageEntry \/ Prepare \/ MoveOut \/ MoveIn \/ Sweep
  PROVE  View' = View
<1>1. CASE StageEntry
  BY <1>1 DEF View, StageEntry
<1>2. CASE Prepare
  <2>1. home \in Snapshots /\ journal = "none" /\ \A e \in ENTRIES : previous[e] = None
    BY <1>2 DEF IInv, Journaled, StageOK, Prepare
  <2> QED
    BY <1>2, <2>1 DEF View, Prepare
<1>3. CASE MoveOut
  <2>1. /\ journal = "prepared" /\ at \in ENTRIES
        /\ previous[at] = None
        /\ at \in had => home[at] # None
        /\ home \in Places /\ previous \in Places
    BY <1>3 DEF IInv, TypeOK, SwitchOK, Journaled, MoveOut
  <2> QED
    BY <1>3, <2>1 DEF View, MoveOut
<1>4. CASE MoveIn
  <2>1. /\ journal = "prepared" /\ at \in ENTRIES
        /\ at \in had => previous[at] # None
        /\ at \notin had => previous[at] = None
        /\ home \in Places
    BY <1>4 DEF IInv, TypeOK, SwitchOK, Journaled, MoveIn
  <2> QED
    BY <1>4, <2>1 DEF View, MoveIn
<1>5. CASE Sweep
  <2>1. journal # "prepared" /\ journal' # "prepared" /\ UNCHANGED home
    BY <1>5 DEF IInv, PayloadOK, Sweep, RemoveSome
  <2> QED
    BY <2>1 DEF View
<1> QED
  BY <1>1, <1>2, <1>3, <1>4, <1>5

(* A step of a recovery, or of an access that it fails, never changes what *)
(* the user's data is (recoverUserRestore).                                *)
THEOREM RecoveryIsHarmless == Spec => RecoveryKeepsData
<1>1. IInv /\ [Next]_vars => [Recovering => View' = View]_vars
  <2> SUFFICES ASSUME IInv, Next, Recovering PROVE View' = View
    BY DEF vars
  <2>1. \/ RecoverRead \/ RollbackKeep \/ RollbackDone \/ Recovered
        \/ RecoverFails \/ Crash
        \/ RollbackRemove \/ RollbackReturn \/ Clean
    BY DEF Next, Progress, Recovering, Access, BeginRestore, Save, Respond,
           StageEntry, StageNothing, Staged, Prepare, MoveOut, MoveIn, Mark,
           Sweep, SweepEnds, RestoreFails
  <2>2. CASE RecoverRead \/ RollbackKeep \/ RollbackDone \/ Recovered
             \/ RecoverFails \/ Crash
    BY <2>2, ViewOfFiles DEF RecoverRead, RollbackKeep, RollbackDone,
       Recovered, RecoverFails, Crash
  <2> QED
    BY <2>1, <2>2, RecoveryStep
<1> QED
  BY <1>1, Invariant, PTL DEF Spec, RecoveryKeepsData

(* A restore is all or nothing: every step of the transaction is a save, a *)
(* begin, an abandonment or a commit of the abstract restore, or nothing   *)
(* at all (restoreUserBackup, commitUserRestore, recoverUserRestore).      *)
THEOREM RestoreIsAtomic == Spec => Atomic
<1>1. Init => Abstract!Init
  BY DEF Init, Abstract!Init, Abstract!Snapshots, View
<1>2. ASSUME UNCHANGED View, UNCHANGED snapshot \/ snapshot' = NoSnapshot
      PROVE  [Abstract!Next]_<<View, snapshot>>
  BY <1>2 DEF Abstract!Next, Abstract!Abandon
<1>3. ASSUME IInv, NEW e \in ENTRIES, Save(e)
      PROVE  Abstract!Save(e)
  <2>1. snapshot = NoSnapshot /\ journal = "none" /\ journal' = "none"
        /\ snapshot' = snapshot
    BY <1>3 DEF IInv, TypeOK, StageOK, Save
  <2>2. View = home
    BY <1>3, <2>1, ViewInPlace
  <2>3. View' = home'
    <3>1. IInv'
      BY <1>3, SaveKeeps
    <3> QED
      BY <2>1, <3>1 DEF View, IInv, Journaled
  <2> QED
    BY <1>3, <2>1, <2>2, <2>3 DEF Save, Abstract!Save
<1>4. ASSUME IInv, BeginRestore
      PROVE  Abstract!Begin
  BY <1>4, ViewOfFiles DEF IInv, TypeOK, BeginRestore, Abstract!Begin, Abstract!Snapshots
<1>5. ASSUME IInv, Mark
      PROVE  Abstract!Commit
  <2>1. home = snapshot /\ snapshot \in Snapshots
    BY <1>5, Switched DEF Mark
  <2>2. View' = home'
    BY <1>5, <2>1 DEF View, Mark
  <2> QED
    BY <1>5, <2>1, <2>2 DEF Mark, Abstract!Commit
<1>6. ASSUME IInv, Next
      PROVE  [Abstract!Next]_<<View, snapshot>>
  <2>1. CASE \/ Access \/ Respond \/ RecoverRead \/ RollbackKeep
             \/ RollbackDone \/ Recovered \/ RecoverFails \/ StageNothing
             \/ Staged \/ RestoreFails \/ SweepEnds \/ Crash
    <3>1. UNCHANGED View
      BY <2>1, ViewOfFiles DEF Access, Respond, RecoverRead, RollbackKeep,
         RollbackDone, Recovered, RecoverFails, StageNothing, Staged,
         RestoreFails, SweepEnds, Crash
    <3>2. UNCHANGED snapshot \/ snapshot' = NoSnapshot
      BY <2>1 DEF Access, Respond, RecoverRead, RollbackKeep, RollbackDone,
         Recovered, RecoverFails, StageNothing, Staged, RestoreFails,
         SweepEnds, Crash
    <3> QED
      BY <1>2, <3>1, <3>2
  <2>2. CASE RollbackRemove \/ RollbackReturn \/ Clean
    <3>1. UNCHANGED snapshot
      BY <2>2 DEF RollbackRemove, RollbackReturn, Clean
    <3> QED
      BY <1>2, <1>6, <2>2, <3>1, RecoveryStep
  <2>3. CASE StageEntry \/ Prepare \/ MoveOut \/ MoveIn \/ Sweep
    <3>1. UNCHANGED snapshot
      BY <2>3 DEF StageEntry, Prepare, MoveOut, MoveIn, Sweep
    <3> QED
      BY <1>2, <1>6, <2>3, <3>1, RestoreStep
  <2>4. CASE BeginRestore
    BY <1>4, <1>6, <2>4 DEF Abstract!Next
  <2>5. CASE Mark
    BY <1>5, <1>6, <2>5 DEF Abstract!Next
  <2>6. CASE \E e \in ENTRIES : Save(e)
    BY <1>3, <1>6, <2>6 DEF Abstract!Next
  <2> QED
    BY <1>6, <2>1, <2>2, <2>3, <2>4, <2>5, <2>6 DEF Next, Progress
<1>7. IInv /\ [Next]_vars => [Abstract!Next]_<<View, snapshot>>
  <2> SUFFICES ASSUME IInv, UNCHANGED vars PROVE UNCHANGED << View, snapshot >>
    BY <1>6
  <2> QED
    BY ViewOfFiles DEF vars
<1> QED
  BY <1>1, <1>7, Invariant, PTL DEF Spec, Atomic, Abstract!Spec
===============================================================================
