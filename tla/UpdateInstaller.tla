-------------------------- MODULE UpdateInstaller ---------------------------
(***************************************************************************)
(* The installation transaction of a client: the rollback snapshot, the    *)
(* transaction marker, the replacement of the components one by one, the   *)
(* health gate, the automatic rollback, and the recovery that the status   *)
(* service (and the update worker) runs before anything else.              *)
(*                                                                         *)
(* Three processes contend for the OS lock beside the marker: the guarded  *)
(* updater an operator starts ("manual"), the recovery of the status       *)
(* service ("status") and the update worker ("worker", whose own steps are *)
(* in ClientUpdate).  A process whose attempt on the lock fails ends       *)
(* without an effect, so only successful attempts are steps.  A step makes *)
(* at most one file durable; between two steps the process may die.        *)
(*                                                                         *)
(* Every release replaces all Components, and a component holds the        *)
(* version of the release it came from.                                    *)
(***************************************************************************)
EXTENDS Naturals

CONSTANTS
    Components,     \* the components of a package
    Dirs,           \* rollback directories, one per installation
    ManualDirs,     \* the ones an operator names on the command line
    ManualReleases, \* releases an operator may install by hand
    OperatorWaits,  \* TRUE: no manual installation while a marker is pending
    TornWrites,     \* TRUE: a crash may leave the temporary file of a write
    MaxFaults       \* bound on crashes, I/O errors and failing commands

ASSUME ComponentsAssumption == Components # {}
ASSUME DirsAssumption == ManualDirs \subseteq Dirs
ASSUME ManualReleasesAssumption == ManualReleases \subseteq Nat \ {0}
ASSUME FlagsAssumption == OperatorWaits \in BOOLEAN /\ TornWrites \in BOOLEAN
ASSUME MaxFaultsAssumption == MaxFaults \in Nat

VARIABLES
    lock,         \* the holder of update-transaction.json.lock
    pc,           \* pc[p]: where process p is
    cur,          \* the release and the rollback directory of the holder
    todo,         \* components that the holder's loop has still to treat
    target,       \* target[c]: the installed version of component c
    snapshot,     \* snapshot[d]: the contents of rollback directory d
    marker,       \* update-transaction.json
    updateState,  \* update-state.json
    stateTmp,     \* update-state.json.tmp exists
    markTmp,      \* update-transaction.json.tmp exists
    kept,         \* history: installations that passed the health gate
    faults        \* faults so far

localVars == <<lock, pc, cur, todo>>

fileVars == <<target, snapshot, marker, updateState, stateTmp, markTmp>>

installVars == <<localVars, fileVars, kept, faults>>

Procs == {"worker", "status", "manual"}

Plan == [dir : Dirs, rel : Nat]

NoPlan == [dir |-> "none", rel |-> 0]

NoSnapshot == [rel |-> 0]

Snapshot == [files : [Components -> Nat], rel : Nat]

NoState == [rel |-> 0, status |-> "none"]

(* The control points at which a process writes update-state.json. *)
StateWriters == {"recHealth", "health", "rbHealth", "irState"}

Goto(p, l) == pc' = [pc EXCEPT ![p] = l] /\ UNCHANGED lock

(* The process ends; the kernel releases its lock. *)
Exit(p) == pc' = [pc EXCEPT ![p] = "off"] /\ lock' = "none"

Acquire(p, l) ==
    /\ lock = "none" /\ pc[p] = "off"
    /\ lock' = p
    /\ pc' = [pc EXCEPT ![p] = l]

(* installStaged returns: the updater ends, the worker goes on. *)
Return(p, l) == IF p = "worker" THEN Goto(p, l) ELSE Exit(p)

-----------------------------------------------------------------------------
(* Installation *)

(* sw-badge-client-updater --install, after verification and staging.      *)
ManualStart(d, rel) ==
    /\ snapshot[d] = NoSnapshot
    /\ OperatorWaits => marker = NoPlan
    /\ Acquire("manual", "install")
    /\ cur' = [dir |-> d, rel |-> rel]
    /\ UNCHANGED <<todo, fileVars, kept, faults>>

(* Faulty variant: targets are replaced before a marker is written.        *)
CreateRollbackUnmarked(p) ==
    /\ pc[p] = "install" /\ snapshot[cur.dir] = NoSnapshot
    /\ snapshot' = [snapshot EXCEPT ![cur.dir] = [files |-> target, rel |-> cur.rel]]
    /\ Goto(p, "apply") /\ todo' = Components
    /\ UNCHANGED <<cur, target, marker, updateState, stateTmp, markTmp, kept,
                   faults>>

(* The snapshot is renamed into place once it is complete; an existing     *)
(* directory makes the installation fail before anything is changed.       *)
CreateRollback(p) ==
    /\ pc[p] = "install"
    /\ IF snapshot[cur.dir] = NoSnapshot
         THEN /\ snapshot' = [snapshot EXCEPT ![cur.dir] =
                                 [files |-> target, rel |-> cur.rel]]
              /\ Goto(p, "mark")
         ELSE Return(p, "doneFailed") /\ UNCHANGED snapshot
    /\ UNCHANGED <<cur, todo, target, marker, updateState, stateTmp, markTmp,
                   kept, faults>>

(* The marker is renamed into place, over an older one if there is one.    *)
WriteUpdateTransaction(p) ==
    /\ pc[p] = "mark"
    /\ IF markTmp
         THEN Return(p, "doneFailed") /\ UNCHANGED <<marker, todo>>
         ELSE marker' = cur /\ todo' = Components /\ Goto(p, "apply")
    /\ UNCHANGED <<cur, target, snapshot, updateState, stateTmp, markTmp,
                   kept, faults>>

ApplyComponent(p) ==
    /\ pc[p] = "apply"
    /\ \E c \in todo :
          /\ target' = [target EXCEPT ![c] = cur.rel]
          /\ todo' = todo \ {c}
    /\ IF todo' = {} THEN Goto(p, "health") ELSE UNCHANGED <<pc, lock>>
    /\ UNCHANGED <<cur, snapshot, marker, updateState, stateTmp, markTmp,
                   kept, faults>>

StartRollback(p) == Goto(p, "rbRestore") /\ todo' = Components

(* The health callback records the success first, then checks services.    *)
RecordSuccess(p) ==
    /\ pc[p] = "health"
    /\ IF stateTmp
         THEN StartRollback(p) /\ UNCHANGED updateState
         ELSE /\ updateState' = [rel |-> cur.rel, status |-> "success"]
              /\ Goto(p, "check") /\ UNCHANGED todo
    /\ UNCHANGED <<cur, target, snapshot, marker, stateTmp, markTmp, kept,
                   faults>>

(* The services are healthy: the marker goes and the release stays.        *)
CompleteInstall(p) ==
    /\ pc[p] = "check"
    /\ marker' = NoPlan
    /\ kept' = kept \cup {cur.dir}
    /\ Return(p, "doneOk")
    /\ UNCHANGED <<cur, todo, target, snapshot, updateState, stateTmp,
                   markTmp, faults>>

(* A step of the installation fails: before the marker it just returns,    *)
(* after it the snapshot is restored.  The directory sync that ends the    *)
(* writing of the snapshot or of the marker may be what fails: the file is *)
(* then in place, but the installation returns as if it were not.          *)
InstallFails(p) ==
    /\ faults < MaxFaults /\ faults' = faults + 1
    /\ \/ /\ pc[p] = "install" /\ Return(p, "doneFailed")
          /\ snapshot' \in {snapshot, [snapshot EXCEPT ![cur.dir] =
                                         [files |-> target, rel |-> cur.rel]]}
          /\ snapshot[cur.dir] # NoSnapshot => snapshot' = snapshot
          /\ UNCHANGED <<marker, todo>>
       \/ /\ pc[p] = "mark" /\ Return(p, "doneFailed")
          /\ marker' \in {marker, cur}
          /\ UNCHANGED <<snapshot, todo>>
       \/ /\ pc[p] \in {"apply", "health", "check"} /\ StartRollback(p)
          /\ UNCHANGED <<snapshot, marker>>
    /\ UNCHANGED <<cur, target, updateState, stateTmp, markTmp, kept>>

-----------------------------------------------------------------------------
(* Rollback and recovery *)

(* Faulty variant: the restoration ends with its first component.          *)
RestoreOneOnly(p, from, to) ==
    /\ pc[p] = from
    /\ \E c \in todo :
          /\ target' = [target EXCEPT ![c] = snapshot[cur.dir].files[c]]
          /\ todo' = todo \ {c}
    /\ kept' = kept \ {cur.dir}
    /\ Goto(p, to)
    /\ UNCHANGED <<cur, snapshot, marker, updateState, stateTmp, markTmp,
                   faults>>

(* RestoreRollback: one component at a time, from the snapshot of cur.dir. *)
RestoreStep(p, from, to) ==
    /\ pc[p] = from
    /\ \E c \in todo :
          /\ target' = [target EXCEPT ![c] = snapshot[cur.dir].files[c]]
          /\ todo' = todo \ {c}
    /\ kept' = kept \ {cur.dir}
    /\ IF todo' = {} THEN Goto(p, to) ELSE UNCHANGED <<pc, lock>>
    /\ UNCHANGED <<cur, snapshot, marker, updateState, stateTmp, markTmp,
                   faults>>

(* Faulty variant: the state file is not rewritten after a rollback.       *)
RecordNothing(p, from, to) ==
    /\ pc[p] = from /\ Goto(p, to)
    /\ UNCHANGED <<cur, todo, fileVars, kept, faults>>

(* WriteUpdateState with status failed.  The temporary file is created     *)
(* exclusively: one left behind makes the write fail, and the process      *)
(* ends with the error.                                                    *)
RecordFailure(p, from, to) ==
    /\ pc[p] = from
    /\ IF stateTmp
         THEN Exit(p) /\ UNCHANGED updateState
         ELSE /\ updateState' = [rel |-> cur.rel, status |-> "failed"]
              /\ Goto(p, to)
    /\ UNCHANGED <<cur, todo, target, snapshot, marker, stateTmp, markTmp,
                   kept, faults>>

(* The health check after a rollback succeeds; then the marker is removed. *)
CompleteRollback(p) ==
    /\ pc[p] = "rbCheck"
    /\ marker' = NoPlan
    /\ Return(p, "doneFailed")
    /\ UNCHANGED <<cur, todo, target, snapshot, updateState, stateTmp,
                   markTmp, kept, faults>>

(* Recovery begins: a marker is there, its snapshot is to be restored.     *)
RecoverMarker(p) ==
    /\ marker # NoPlan
    /\ Acquire(p, "recRestore")
    /\ cur' = marker
    /\ todo' = Components
    /\ UNCHANGED <<fileVars, kept, faults>>

StatusStart == RecoverMarker("status")

(* Faulty variant: the marker is not removed after recovery.               *)
RecoveryKeepsMarker(p) ==
    /\ pc[p] = "recCheck"
    /\ Return(p, "journal")
    /\ UNCHANGED <<cur, todo, fileVars, kept, faults>>

(* PostInterruptedRecovery succeeds; the marker is removed.                *)
CompleteRecovery(p) ==
    /\ pc[p] = "recCheck"
    /\ marker' = NoPlan
    /\ Return(p, "journal")
    /\ UNCHANGED <<cur, todo, target, snapshot, updateState, stateTmp,
                   markTmp, kept, faults>>

(* The process dies or returns an error: a crash, a power loss, a kill, an *)
(* I/O error or a failing command.  A crash inside a write leaves the      *)
(* temporary file of that write.                                           *)
Dies(p) ==
    /\ pc[p] # "off"
    /\ faults < MaxFaults /\ faults' = faults + 1
    /\ Exit(p)
    /\ \/ UNCHANGED <<stateTmp, markTmp>>
       \/ /\ TornWrites /\ pc[p] \in StateWriters
          /\ stateTmp' = TRUE /\ UNCHANGED markTmp
       \/ /\ TornWrites /\ pc[p] = "mark"
          /\ markTmp' = TRUE /\ UNCHANGED stateTmp
    /\ UNCHANGED <<cur, todo, target, snapshot, marker, updateState, kept>>

-----------------------------------------------------------------------------
InstallInit ==
    /\ lock = "none"
    /\ pc = [p \in Procs |-> "off"]
    /\ cur = NoPlan
    /\ todo = {}
    /\ target = [c \in Components |-> 0]
    /\ snapshot = [d \in Dirs |-> NoSnapshot]
    /\ marker = NoPlan
    /\ updateState = NoState
    /\ stateTmp = FALSE /\ markTmp = FALSE
    /\ kept = {}
    /\ faults = 0

(* The steps of installStaged. *)
InstallStep(p) ==
    \/ CreateRollback(p) \/ WriteUpdateTransaction(p) \/ ApplyComponent(p)
    \/ RecordSuccess(p) \/ CompleteInstall(p)
    \/ RestoreStep(p, "rbRestore", "rbHealth")
    \/ RecordFailure(p, "rbHealth", "rbCheck")
    \/ CompleteRollback(p)

(* The steps of recoverPendingUpdate. *)
RecoveryStep(p) ==
    \/ RestoreStep(p, "recRestore", "recHealth")
    \/ RecordFailure(p, "recHealth", "recCheck")
    \/ CompleteRecovery(p)

ManualUpdater ==
    \/ \E d \in ManualDirs, rel \in ManualReleases : ManualStart(d, rel)
    \/ InstallStep("manual") \/ InstallFails("manual") \/ Dies("manual")

StatusService ==
    StatusStart \/ RecoveryStep("status") \/ Dies("status")

(* A client without the update worker. *)
InstallNext == ManualUpdater \/ StatusService

(* The timer starts the status service again and again, and a started      *)
(* process goes on; faults are bounded, so they do not happen forever.     *)
InstallFairness ==
    /\ WF_installVars(StatusStart)
    /\ WF_installVars(RecoveryStep("status"))
    /\ WF_installVars(InstallStep("manual"))

InstallSpec == InstallInit /\ [][InstallNext]_installVars /\ InstallFairness

-----------------------------------------------------------------------------
InstallPC ==
    {"install", "mark", "apply", "health", "check", "rbRestore", "rbHealth",
     "rbCheck"}

RecoveryPC == {"recRestore", "recHealth", "recCheck"}

WorkerPC ==
    {"journal", "irRestore", "irState", "irJournal", "pollWait",
     "prepared", "pkgWait", "startWait", "doneOk", "doneFailed", "result",
     "resultWait"}

PCs == {"off"} \cup InstallPC \cup RecoveryPC \cup WorkerPC

InstallTypeOK ==
    /\ lock \in Procs \cup {"none"}
    /\ pc \in [Procs -> PCs]
    /\ cur \in Plan \cup {NoPlan}
    /\ todo \in SUBSET Components
    /\ target \in [Components -> Nat]
    /\ snapshot \in [Dirs -> Snapshot \cup {NoSnapshot}]
    /\ marker \in Plan \cup {NoPlan}
    /\ updateState \in [rel : Nat, status : {"none", "success", "failed"}]
    /\ stateTmp \in BOOLEAN /\ markTmp \in BOOLEAN
    /\ kept \in SUBSET Dirs
    /\ faults \in 0..MaxFaults

(* The OS lock: the updater, the status recovery and the worker never      *)
(* change installation targets at the same time (tryUpdateLock guards      *)
(* InstallStagedWithTransaction, RecoverPendingUpdate and RunWorker).      *)
ExclusiveMutation == \A p \in Procs : pc[p] # "off" => lock = p

(* Half-replaced components never go unnoticed: as long as they exist, a   *)
(* marker names a snapshot from which recovery can restore one release     *)
(* (the marker precedes the first replacement and outlives the last        *)
(* restored file).                                                         *)
MixedIsRecoverable ==
    \/ \A c, d \in Components : target[c] = target[d]
    \/ /\ marker # NoPlan
       /\ snapshot[marker.dir] # NoSnapshot
       /\ \A c, d \in Components :
             snapshot[marker.dir].files[c] = snapshot[marker.dir].files[d]

(* A reported success is one: with no installation or recovery pending,    *)
(* update-state.json says "success" only of the release whose components   *)
(* are all installed, though it is written before the health check runs.   *)
ReportedSuccessInstalled ==
    lock = "none" /\ marker = NoPlan /\ updateState.status = "success" =>
        \A c \in Components : target[c] = updateState.rel

(* A pending marker does not stay: the status service retries recovery     *)
(* until the previous files are back and the marker is removed.  The one   *)
(* exception is a crash inside WriteUpdateState: writeExclusive refuses    *)
(* the temporary file that is left behind, at every later attempt, and     *)
(* then the marker stays, though the previous files come back.             *)
PendingIsRecovered ==
    []<>(\/ marker = NoPlan
         \/ stateTmp /\ target = snapshot[marker.dir].files)
=============================================================================
