------------------------- MODULE ClientUpdateProofs -------------------------
(***************************************************************************)
(* The inductive invariant of ClientUpdate holds for every number of jobs, *)
(* clients, releases, components and faults, and with it what scheduled    *)
(* updates promise; ClientUpdate implements UpdateLifecycle.  Three more   *)
(* invariants rest on it: a reported success is installed, half-replaced   *)
(* components always leave evidence, and no release is installed by the    *)
(* worker that is not newer.                                               *)
(***************************************************************************)
EXTENDS UpdateStepProofs

(* Leaves are proved by Zenon, unless they name their provers: SMT, and    *)
(* then Z3, where arithmetic or sequences matter; PTL for temporal steps.  *)
USE ZenonT(100)

-----------------------------------------------------------------------------
(* The composition *)

FullInv == IInv /\ JobsInv

(* What a handler does to the job table is a step of the job store.        *)
LEMMA HandleIsJobStep ==
    ASSUME TypeOK, NEW m \in msgs, Handle(m)
    PROVE  [JobsNext]_serverVars
<1>1. /\ m.op # "poll" => m.job \in Jobs
      /\ m.op = "start" => m.at \in 0..MaxTime
      /\ m.op = "result" => m.result \in {"succeeded", "failed"} /\ m.rb \in BOOLEAN
  BY MessageFields DEF TypeOK
<1>2. CASE PollRead(m) \/ DownloadClientUpdate(m) \/ Authenticate(m)
  BY <1>2 DEF PollRead, DownloadClientUpdate, Authenticate
<1>3. CASE PollAnswer(m)
  BY <1>1, <1>3, SelfAssumption DEF PollAnswer, JobsNext, Refused
<1>4. CASE HandleStart(m)
  <2>1. now \in Nat /\ m.at \in Nat
    BY <1>1, <1>4, MaxTimeAssumption, UpToItself DEF HandleStart, TypeOK, JobsTypeOK
  <2>2. \A t \in m.at..now : t \in 0..now
    BY <2>1, LaterThan
  <2>3. m.job \in Jobs
    BY <1>1, <1>4 DEF HandleStart
  <2>4. CASE Refused
    BY <2>4 DEF Refused
  <2>5. CASE \E t \in 0..now : StartClientUpdate(m.job, Self, t)
    BY <2>3, <2>5, SelfAssumption DEF JobsNext
  <2>6. QED
    BY <1>4, <2>2, <2>4, <2>5 DEF HandleStart
<1>5. CASE HandleResult(m)
  BY <1>1, <1>5, SelfAssumption DEF HandleResult, JobsNext, Refused
<1>6. QED
  BY <1>2, <1>3, <1>4, <1>5 DEF Handle

LEMMA NextIsJobStep ==
    ASSUME TypeOK, [Next]_vars
    PROVE  [JobsNext]_serverVars
<1>1. CASE Administration
  BY <1>1, SelfAssumption DEF Administration, Absent, JobsNext
<1>2. ASSUME NEW approved \in SUBSET Releases, ServerRestart(approved)
      PROVE  [JobsNext]_serverVars
  BY <1>2 DEF ServerRestart, JobsNext
<1>3. CASE WorkerStart \/ WorkerStep \/ WorkerFault
  <2>1. CASE WorkerStep
    BY <2>1
    DEF WorkerStep, ReadJournal, JournalInterrupted, ReceivePoll, CheckWindow,
                ReceivePackage, ReceiveStart, JournalOutcome, ReportResult, ReceiveAck,
                ConnectionLost, WorkerInstall
  <2>2. QED
    BY <1>3, <2>1 DEF WorkerStart, WorkerFault
<1>4. CASE OtherProcesses
  BY <1>4 DEF OtherProcesses
<1>5. CASE UNCHANGED vars
  BY <1>5 DEF vars
<1>6. QED
  BY <1>1, <1>2, <1>3, <1>4, <1>5, HandleIsJobStep DEF Next

LEMMA FullStart == Init => FullInv
<1> SUFFICES ASSUME Init PROVE FullInv
  OBVIOUS
<1>1. JobsInv /\ JobsTypeOK /\ \A j \in Jobs : state[j] = "absent"
  BY JobsStart DEF Init, JobsInit, JobsInv
<1>2. /\ pc = [p \in Procs |-> "off"] /\ lock = "none" /\ marker = NoPlan /\ kept = {}
      /\ journal = NoJournal /\ msgs = {} /\ reply = NoReply /\ cur = NoPlan
      /\ begun = [j \in Jobs |-> 0]
  BY DEF Init, InstallInit
<1>3. \A p \in Procs : pc[p] = "off"
  BY <1>2
<1>4. TypeOK
  <2>1. InstallTypeOK
    <3>1. stateTmp \in BOOLEAN /\ markTmp \in BOOLEAN
      BY DEF Init, InstallInit
    <3>2. /\ faults \in 0..MaxFaults /\ target \in [Components -> Nat]
          /\ updateState \in [rel : Nat, status : {"none", "success", "failed"}]
          /\ snapshot \in [Dirs -> Snapshot \cup {NoSnapshot}]
      <4>1. 0 \in 0..MaxFaults
        BY SMT, Z3, MaxFaultsAssumption
      <4>2. NoState \in [rel : Nat, status : {"none", "success", "failed"}]
        BY ZeroIsNat DEF NoState
      <4>3. QED
        BY <4>1, <4>2, ZeroIsNat DEF Init, InstallInit
    <3>3. QED
      BY <1>2, <3>1, <3>2 DEF Init, InstallInit, InstallTypeOK, PCs
  <2>2. QED
    <3>1. NoReply \in Reply
      BY DEF Reply, NoReply
    <3>2. floor \in Nat /\ begun \in [Jobs -> Nat]
      BY <1>2, ZeroIsNat DEF Init
    <3>3. QED
      BY <1>1, <1>2, <2>1, <3>1, <3>2 DEF TypeOK
<1>5. ProcessInv
  BY <1>2, <1>3 DEF ProcessInv, ExclusiveMutation, Procs
<1>6. RequestInv /\ JournalInv
  BY <1>2, <1>3 DEF RequestInv, JournalInv, NoReply, Procs, InstallPC, Waiting
<1>7. MarkerInv
  BY <1>2, <1>3 DEF MarkerInv, InstallPC, RecoveryPC, WorkerPC, Procs
<1>8. KeptInv
  BY <1>2, <1>3 DEF KeptInv, InstallPC, NoJournal, Procs
<1>9. AgreementInv
  <2>1. \A j \in Jobs : ~(begun[j] > 0)
    BY <1>2, ZeroIsNat
  <2>2. journal.phase = "none" /\ reply.code = "none"
    BY <1>2 DEF NoJournal, NoReply
  <2>3. QED
    BY <1>1, <1>2, <2>1, <2>2 DEF AgreementInv
<1>10. QED
  BY <1>1, <1>4, <1>5, <1>6, <1>7, <1>8, <1>9 DEF FullInv, IInv

LEMMA HandleKeeps ==
    ASSUME IInv, JobsTypeOK', NEW m \in msgs, Handle(m)
    PROVE  IInv'
  BY PollReadKeeps, PollAnswerKeeps, DownloadKeeps, AuthenticateKeeps, StartKeeps, ResultKeeps
  DEF Handle

LEMMA WorkerInstallKeeps ==
    ASSUME IInv, WorkerInstall
    PROVE  IInv'
<1>1. UNCHANGED <<serverVars, workerVars>> /\ "worker" \in Procs
  BY DEF WorkerInstall, Procs
<1>2. QED
  BY <1>1, InstallStepKeeps, RecoveryStepKeeps, RestoreKeeps, RecordFailureKeeps
     DEF WorkerInstall

LEMMA WorkerFaultKeeps ==
    ASSUME IInv, WorkerFault
    PROVE  IInv'
  BY WorkerDiesKeeps, InstallFailsKeeps DEF WorkerFault

LEMMA StutterKeeps ==
    ASSUME IInv, UNCHANGED vars
    PROVE  IInv'
<1>1. UNCHANGED <<serverVars, deviceVars, installVars, workerVars>> /\ UNCHANGED <<msgs, reply>>
  BY DEF vars, deviceVars, workerVars
<1>2. JobsTypeOK' /\ RequestInv'
  <2>1. JobsTypeOK'
    BY <1>1, JobsTypeKept DEF IInv, TypeOK
  <2>2. QED
    BY <1>1, <2>1 DEF IInv, RequestInv, installVars, localVars, workerVars
<1>3. AgreementInv'
  BY <1>1 DEF IInv, AgreementInv, serverVars, installVars, localVars, workerVars,
     NoResult, PollView
<1>4. QED
  BY <1>1, <1>2, <1>3, HandlerKeeps DEF IInv, TypeOK

LEMMA FullStep == FullInv /\ [Next]_vars => FullInv'
<1> SUFFICES ASSUME FullInv, [Next]_vars PROVE FullInv'
  OBVIOUS
<1>1. IInv /\ TypeOK /\ JobsInv
  BY DEF FullInv, IInv
<1>2. JobsInv' /\ JobsTypeOK'
  BY <1>1, NextIsJobStep, JobsStep DEF JobsInv
<1>3. CASE Administration
  BY <1>1, <1>2, <1>3, AdministrationKeeps DEF FullInv
<1>4. ASSUME NEW approved \in SUBSET Releases, ServerRestart(approved)
      PROVE  FullInv'
  BY <1>1, <1>2, <1>4, RestartKeeps DEF FullInv
<1>5. ASSUME NEW m \in msgs, Handle(m)
      PROVE  FullInv'
  BY <1>1, <1>2, <1>5, HandleKeeps DEF FullInv
<1>6. CASE WorkerStart
  BY <1>1, <1>2, <1>6, WorkerStartKeeps DEF FullInv
<1>7. CASE WorkerStep
  BY <1>1, <1>2, <1>7, WorkerRequestsKeep, WorkerInstallKeeps DEF FullInv
<1>8. CASE WorkerFault
  BY <1>1, <1>2, <1>8, WorkerFaultKeeps DEF FullInv
<1>9. CASE OtherProcesses
  BY <1>1, <1>2, <1>9, OtherProcessesKeep DEF FullInv
<1>10. CASE UNCHANGED vars
  BY <1>1, <1>2, <1>10, StutterKeeps DEF FullInv
<1>11. QED
  BY <1>3, <1>4, <1>5, <1>6, <1>7, <1>8, <1>9, <1>10 DEF Next

(* The inductive invariant holds: the job table, the journal, the marker,  *)
(* the lock and the requests in flight agree in every reachable state.     *)
THEOREM UpdateInvariant == Spec => []FullInv
  BY FullStart, FullStep, PTL DEF Spec

(* The inductive invariant that ClientUpdate states holds.                 *)
THEOREM UpdateAgreement == Spec => []IInv
<1>1. FullInv => IInv
  BY DEF FullInv
<1>2. QED
  BY <1>1, UpdateInvariant, PTL

(* In the composition the job table changes as the job store allows.       *)
THEOREM StoreInComposition == Spec => JobsSpec
<1>1. Init => JobsInit
  BY DEF Init
<1>2. FullInv /\ [Next]_vars => [JobsNext]_serverVars
  BY NextIsJobStep DEF FullInv, IInv
<1>3. QED
  BY <1>1, <1>2, UpdateInvariant, PTL DEF Spec, JobsSpec

(* A client has one open job at most (createUpdateJob).                    *)
THEOREM OneJobAtATime == Spec => []OneOpenJob
  BY StoreInComposition, JobsInvariant, PTL

(* The audit trail of a job is its life (changeUpdateJob).                 *)
THEOREM TrailsTellLives == Spec => []AuditTrail
  BY StoreInComposition, JobsInvariant, PTL

(* Permission to execute is given at a clock reading inside the window of  *)
(* a job only, a reading that is not later than the commit, and to a       *)
(* client that is enabled and for a release that is approved when the      *)
(* start commits, whatever changed since the request was authenticated     *)
(* (startClientUpdate, changeUpdateJob).                                   *)
THEOREM StartedInWindow == Spec => DispatchedInWindow
  BY StoreInComposition, JobsStartInWindow, PTL

(* Every variable keeps its type. *)
THEOREM UpdateTypes == Spec => []TypeOK
<1>1. FullInv => TypeOK
  BY DEF FullInv, IInv
<1>2. QED
  BY <1>1, UpdateInvariant, PTL

(* No job is executed twice, whatever crashes, answers get lost or         *)
(* requests are handled late (RunWorker, startClientUpdate).               *)
THEOREM ExecutedAtMostOnce == Spec => []AtMostOnce
<1>1. FullInv => AtMostOnce
  <2> SUFFICES ASSUME FullInv, NEW j \in Jobs PROVE begun[j] <= 1
    BY DEF AtMostOnce
  <2>1. begun[j] \in Nat /\ (begun[j] > 0 => begun[j] = 1)
    BY DEF FullInv, IInv, AgreementInv, TypeOK
  <2>2. QED
    BY <2>1, AtMostOne
<1>2. QED
  BY <1>1, UpdateInvariant, PTL

(* Every execution has a committed and audited permission. *)
THEOREM ExecutedWithPermission == Spec => []PermissionFirst
<1>1. FullInv => PermissionFirst
  <2> SUFFICES ASSUME FullInv, NEW j \in Jobs, begun[j] > 0
               PROVE  /\ state[j] \in {"dispatched", "succeeded", "failed"}
                      /\ Len(audit[j]) >= 2 /\ audit[j][2] = "dispatched"
    BY DEF PermissionFirst
  <2>1. state[j] \in {"dispatched", "succeeded", "failed"}
    BY DEF FullInv, IInv, AgreementInv, Permitted
  <2>2. \/ audit[j] = <<"scheduled", "dispatched">>
        \/ audit[j] = <<"scheduled", "dispatched", state[j]>>
    BY <2>1 DEF FullInv, JobsInv, AuditTrail
  <2>3. QED
    <3> DEFINE x == audit[j]  y == state[j]
    <3>1. x = <<"scheduled", "dispatched">> \/ x = <<"scheduled", "dispatched", y>>
      BY <2>2
    <3> HIDE DEF x, y
    <3>2. Len(x) >= 2 /\ x[2] = "dispatched"
      BY <3>1, SecondEvent
    <3>3. QED
      BY <2>1, <3>2 DEF x
<1>2. QED
  BY <1>1, UpdateInvariant, PTL

(* What the server records of a job is what the device did. *)
THEOREM RecordedTruthfully == Spec => []ResultTruthful
<1>1. FullInv => ResultTruthful
  BY DEF FullInv, IInv, AgreementInv, KeptInv, ResultTruthful
<1>2. QED
  BY <1>1, UpdateInvariant, PTL

(* An execution the server waits for is in the journal of the device. *)
THEOREM ExecutionIsJournaled == Spec => []EvidenceKept
<1>1. FullInv => EvidenceKept
  BY NothingJournaled DEF FullInv, IInv, AgreementInv, EvidenceKept
<1>2. QED
  BY <1>1, UpdateInvariant, PTL

(* Two processes never change installation targets at the same time. *)
THEOREM OneMutatorAtATime == Spec => []ExclusiveMutation
<1>1. FullInv => ExclusiveMutation
  BY DEF FullInv, IInv, ProcessInv
<1>2. QED
  BY <1>1, UpdateInvariant, PTL

-----------------------------------------------------------------------------
(* ClientUpdate implements UpdateLifecycle. *)

(* A change of a job that was not in its new state yet. *)
LEMMA ChangeRefines ==
    ASSUME FullInv, FullInv', UNCHANGED <<kept, begun>>,
           NEW j \in Jobs, NEW c, NEW to \in JobState \ {"scheduled"}, NEW r, NEW t,
           ChangeUpdateJob(j, c, to, r, t)
    PROVE  [Lifecycle!LifecycleNext]_(Lifecycle!lifecycleVars)
<1>1. /\ state' = [state EXCEPT ![j] = to] /\ state[j] \in JobState \cup {"absent"}
      /\ state \in [Jobs -> JobState \cup {"absent"}] /\ state'[j] = to
  BY DEF ChangeUpdateJob, FullInv, JobsInv, JobsTypeOK
<1>2. CASE state[j] = to
  BY <1>1, <1>2 DEF Lifecycle!lifecycleVars
<1>3. CASE state[j] = "scheduled" /\ to \in {"cancelled", "expired", "dispatched"}
  <2>1. Lifecycle!Leave(j, to)
    BY <1>1, <1>3 DEF Lifecycle!Leave
  <2>2. QED
    BY <1>3, <2>1 DEF Lifecycle!LifecycleNext
<1>4. CASE state[j] = "dispatched" /\ to \in {"succeeded", "failed"}
  <2>1. /\ to = "succeeded" => j \in kept
        /\ to = "failed" => j \notin kept
    BY <1>1 DEF FullInv, IInv, AgreementInv
  <2>2. Lifecycle!Report(j, to)
    BY <1>1, <1>4, <2>1 DEF Lifecycle!Report
  <2>3. QED
    BY <1>4, <2>2 DEF Lifecycle!LifecycleNext
<1>5. QED
  BY <1>1, <1>2, <1>3, <1>4 DEF ChangeUpdateJob, CanChange, Transition

LEMMA ScheduleRefines ==
    ASSUME UNCHANGED <<kept, begun>>, NEW j \in Jobs, NEW r \in Request, NEW t,
           CreateUpdateJob(j, r, t)
    PROVE  Lifecycle!LifecycleNext
<1> DEFINE overdue == Overdue(r.client, t)
<1>1. overdue \in SUBSET Jobs /\ \A p \in overdue : state[p] = "scheduled"
  BY DEF Overdue
<1>2. /\ state[j] = "absent"
      /\ state' = [p \in Jobs |-> IF p = j THEN "scheduled"
                                  ELSE IF p \in overdue THEN "expired"
                                  ELSE state[p]]
  BY DEF CreateUpdateJob
<1> HIDE DEF overdue
<1>3. Lifecycle!Schedule(j, overdue)
  BY <1>1, <1>2 DEF Lifecycle!Schedule
<1>4. QED
  BY <1>1, <1>3 DEF Lifecycle!LifecycleNext

(* What the server does is a step of the lifecycle. *)
LEMMA ServerRefines ==
    ASSUME FullInv, FullInv', UNCHANGED <<kept, begun>>, [JobsNext]_serverVars
    PROVE  [Lifecycle!LifecycleNext]_(Lifecycle!lifecycleVars)
<1>1. ASSUME NEW j \in Jobs, NEW r \in Request, NEW t, ScheduleClientUpdate(j, r, t)
      PROVE  [Lifecycle!LifecycleNext]_(Lifecycle!lifecycleVars)
  BY <1>1, ScheduleRefines DEF ScheduleClientUpdate
<1>2. ASSUME NEW j \in Jobs, NEW c, NEW r, NEW to \in JobState \ {"scheduled"}, NEW t,
             ChangeUpdateJob(j, c, to, r, t)
      PROVE  [Lifecycle!LifecycleNext]_(Lifecycle!lifecycleVars)
  BY <1>2, ChangeRefines
<1>3. {"cancelled", "expired", "dispatched", "succeeded", "failed"}
          \subseteq JobState \ {"scheduled"}
  BY DEF JobState, Open, Terminal
<1>4. CASE UNCHANGED state
  BY <1>4 DEF Lifecycle!lifecycleVars
<1>5. QED
  BY <1>1, <1>2, <1>3, <1>4
     DEF JobsNext, CancelClientUpdate, ExpireOnPoll, StartClientUpdate, FinishClientUpdate,
         SetEnabled, SetCertified, LoadCatalog, Tick, serverVars

(* What the installation keeps or takes back belongs to the execution of   *)
(* a permitted job, or to none.                                            *)
LEMMA KeptRefines ==
    ASSUME FullInv, UNCHANGED <<state, begun>>, NEW p \in Procs,
           pc[p] \in InstallPC \cup RecoveryPC \cup {"irRestore"},
           kept' = kept \cup {cur.dir} \/ kept' = kept \ {cur.dir}
    PROVE  [Lifecycle!LifecycleNext]_(Lifecycle!lifecycleVars)
<1>1. CASE cur.dir \notin Jobs
  BY <1>1 DEF Lifecycle!lifecycleVars
<1>2. CASE cur.dir \in Jobs
  <2>1. state[cur.dir] = "dispatched" /\ begun[cur.dir] = 1
    BY <1>2, InstallerAt DEF FullInv, IInv, AgreementInv
  <2>2. Lifecycle!Keep(cur.dir) \/ Lifecycle!Undo(cur.dir)
    BY <1>2, <2>1 DEF Lifecycle!Keep, Lifecycle!Undo
  <2>3. QED
    BY <1>2, <2>2 DEF Lifecycle!LifecycleNext
<1>3. QED
  BY <1>1, <1>2

LEMMA InstallRefines ==
    ASSUME FullInv, UNCHANGED <<state, begun>>, NEW p \in Procs,
           \/ InstallStep(p) \/ RecoveryStep(p)
           \/ RestoreStep(p, "irRestore", "irState")
           \/ RecordFailure(p, "irState", "irJournal")
           \/ InstallFails(p) \/ Dies(p)
    PROVE  [Lifecycle!LifecycleNext]_(Lifecycle!lifecycleVars)
<1>1. CASE kept' = kept
  BY <1>1 DEF Lifecycle!lifecycleVars
<1>2. CASE CompleteInstall(p)
  BY <1>2, KeptRefines DEF CompleteInstall, InstallPC
<1>3. ASSUME NEW from \in {"rbRestore", "recRestore", "irRestore"}, NEW to,
             RestoreStep(p, from, to)
      PROVE  [Lifecycle!LifecycleNext]_(Lifecycle!lifecycleVars)
  BY <1>3, KeptRefines DEF RestoreStep, InstallPC, RecoveryPC
<1>4. QED
  BY <1>1, <1>2, <1>3
     DEF InstallStep, RecoveryStep, CreateRollback, WriteUpdateTransaction, ApplyComponent,
         RecordSuccess, RecordFailure, CompleteRollback, CompleteRecovery, InstallFails, Dies

(* The execution of a job begins when it is permitted, and for the first   *)
(* time.                                                                   *)
LEMMA StartRefines ==
    ASSUME FullInv, FullInv', ReceiveStart
    PROVE  [Lifecycle!LifecycleNext]_(Lifecycle!lifecycleVars)
<1>1. UNCHANGED <<state, kept>>
  BY DEF ReceiveStart, serverVars, installed
<1>2. CASE begun' = begun
  BY <1>1, <1>2 DEF Lifecycle!lifecycleVars
<1>3. CASE reply.code = "ok" /\ begun' = [begun EXCEPT ![journal.job] = @ + 1]
  <2>1. /\ journal.phase = "prepared" /\ journal.job \in Jobs /\ begun[journal.job] = 0
        /\ state[journal.job] = "dispatched"
    BY <1>3 DEF ReceiveStart, FullInv, IInv, JournalInv, AgreementInv, TypeOK, Journal, NoJournal
  <2>2. Lifecycle!Begin(journal.job)
    <3>1. begun[journal.job] + 1 = 1
      BY SMT, Z3, <2>1
    <3>2. begun' = [begun EXCEPT ![journal.job] = 1]
      BY <1>3, <3>1
    <3>3. QED
      BY <1>1, <2>1, <3>2 DEF Lifecycle!Begin
  <2>3. QED
    BY <2>1, <2>2 DEF Lifecycle!LifecycleNext
<1>4. QED
  BY <1>2, <1>3 DEF ReceiveStart

LEMMA StepRefines ==
    FullInv /\ FullInv' /\ [Next]_vars => [Lifecycle!LifecycleNext]_(Lifecycle!lifecycleVars)
<1> SUFFICES ASSUME FullInv, FullInv', [Next]_vars
             PROVE  [Lifecycle!LifecycleNext]_(Lifecycle!lifecycleVars)
  OBVIOUS
<1>1. CASE UNCHANGED <<kept, begun>>
  BY <1>1, NextIsJobStep, ServerRefines DEF FullInv, IInv
<1>2. CASE WorkerInstall
  BY <1>2, InstallRefines DEF WorkerInstall, serverVars, workerVars, Procs
<1>3. CASE WorkerFault
  BY <1>3, InstallRefines DEF WorkerFault, serverVars, workerVars, Procs
<1>4. CASE OtherProcesses
  <2>1. CASE ManualUpdater \/ StatusService
    BY <1>1, <1>4, <2>1, InstallRefines
       DEF OtherProcesses, ManualUpdater, StatusService, StatusStart, ManualStart,
           RecoverMarker, serverVars, workerVars, Procs
  <2>2. QED
    BY <1>4, <2>1 DEF OtherProcesses
<1>5. CASE WorkerStep
  BY <1>1, <1>2, <1>5, StartRefines
     DEF WorkerStep, ReadJournal, JournalInterrupted, ReceivePoll, CheckWindow, ReceivePackage,
         JournalOutcome, ReportResult, ReceiveAck, ConnectionLost, installed
<1>6. CASE WorkerStart
  BY <1>1, <1>6 DEF WorkerStart, RecoverMarker, installed, workerVars
<1>7. CASE Administration \/ UNCHANGED vars
  BY <1>1, <1>7 DEF Administration, vars, installVars, workerVars
<1>8. ASSUME NEW approved \in SUBSET Releases, ServerRestart(approved)
      PROVE  UNCHANGED <<kept, begun>>
  BY <1>8 DEF ServerRestart
<1>9. ASSUME NEW m \in msgs, Handle(m)
      PROVE  UNCHANGED <<kept, begun>>
  BY <1>9 DEF Handle, PollRead, PollAnswer, DownloadClientUpdate, Authenticate, HandleStart,
              HandleResult, deviceVars, installVars
<1>10. QED
  BY <1>1, <1>3, <1>4, <1>5, <1>6, <1>7, <1>8, <1>9 DEF Next

(* The server, the worker, the installer and the requests between them     *)
(* implement the lifecycle of UpdateLifecycle.                             *)
THEOREM UpdatesFollowLifecycle == Spec => ImplementsLifecycle
<1>1. Init => Lifecycle!LifecycleInit
  BY DEF Init, JobsInit, InstallInit, Lifecycle!LifecycleInit
<1>2. QED
  BY <1>1, StepRefines, UpdateInvariant, PTL
     DEF Spec, ImplementsLifecycle, Lifecycle!LifecycleSpec

(* An ended job is settled on both sides: its record stays, and the device *)
(* neither executes it nor keeps or takes back its release any more.       *)
StaysEnded(j) ==
    state[j] \in Terminal =>
        state'[j] = state[j] /\ begun'[j] = begun[j] /\ (j \in kept' <=> j \in kept)

(* A step of the lifecycle leaves an ended job alone. *)
LEMMA LifecycleEnds ==
    ASSUME JobsTypeOK, begun \in [Jobs -> Nat],
           [Lifecycle!LifecycleNext]_(Lifecycle!lifecycleVars), NEW i \in Jobs
    PROVE  StaysEnded(i)
<1> SUFFICES ASSUME state[i] \in Terminal
             PROVE  /\ state'[i] = state[i] /\ begun'[i] = begun[i]
                    /\ i \in kept' <=> i \in kept
  BY DEF StaysEnded
<1>1. /\ state \in [Jobs -> JobState \cup {"absent"}]
      /\ state[i] \notin {"absent", "scheduled", "dispatched"}
  BY DEF JobsTypeOK, Terminal
<1>2. CASE UNCHANGED Lifecycle!lifecycleVars
  BY <1>2 DEF Lifecycle!lifecycleVars
<1>3. ASSUME NEW j \in Jobs, NEW overdue \in SUBSET Jobs, Lifecycle!Schedule(j, overdue)
      PROVE  /\ state'[i] = state[i] /\ begun'[i] = begun[i]
             /\ i \in kept' <=> i \in kept
  <2>1. i # j /\ i \notin overdue
    BY <1>1, <1>3 DEF Lifecycle!Schedule
  <2>2. QED
    BY <1>3, <2>1 DEF Lifecycle!Schedule
<1>4. ASSUME NEW j \in Jobs, NEW to, Lifecycle!Leave(j, to) \/ Lifecycle!Report(j, to)
      PROVE  /\ state'[i] = state[i] /\ begun'[i] = begun[i]
             /\ i \in kept' <=> i \in kept
  <2>1. i # j
    BY <1>1, <1>4 DEF Lifecycle!Leave, Lifecycle!Report
  <2>2. QED
    BY <1>1, <1>4, <2>1 DEF Lifecycle!Leave, Lifecycle!Report
<1>5. ASSUME NEW j \in Jobs, Lifecycle!Begin(j) \/ Lifecycle!Keep(j) \/ Lifecycle!Undo(j)
      PROVE  /\ state'[i] = state[i] /\ begun'[i] = begun[i]
             /\ i \in kept' <=> i \in kept
  <2>1. i # j
    BY <1>1, <1>5 DEF Lifecycle!Begin, Lifecycle!Keep, Lifecycle!Undo
  <2>2. QED
    BY <1>5, <2>1 DEF Lifecycle!Begin, Lifecycle!Keep, Lifecycle!Undo
<1>6. QED
  BY <1>2, <1>3, <1>4, <1>5 DEF Lifecycle!LifecycleNext

(* What was reported, cancelled or expired is final for server and device: *)
(* no late request, interrupted execution or recovery of a marker starts   *)
(* the job again, undoes a release recorded as succeeded or puts one in    *)
(* place that was recorded as failed (finishClientUpdate, the worker's     *)
(* journal, recoverPendingUpdate).                                         *)
THEOREM EndedIsSettled == Spec => [][\A j \in Jobs : StaysEnded(j)]_vars
<1>1. FullInv /\ FullInv' /\ [Next]_vars => [\A j \in Jobs : StaysEnded(j)]_vars
  BY StepRefines, LifecycleEnds DEF FullInv, JobsInv, IInv, TypeOK
<1>2. QED
  BY <1>1, UpdateInvariant, PTL DEF Spec

(* The history of a job, seen by the composition, only goes forward.       *)
THEOREM JobsAdvanceInComposition == Spec => LifecycleOnlyAdvances
  BY StoreInComposition, JobsOnlyAdvance, PTL

-----------------------------------------------------------------------------
(* The success in update-state.json *)

(* No permitted release is the version 0 of a fresh device. *)
LEMMA PlannedRelease ==
    ASSUME IInv, NEW j \in Jobs, state[j] \in Permitted
    PROVE  /\ [dir |-> j, rel |-> req[j].release] \in Plan
           /\ [dir |-> j, rel |-> req[j].release] # NoPlan
<1>1. req[j] \in Request
  BY DEF IInv, TypeOK, JobsTypeOK, Permitted
<1>2. req[j].release \in Nat \ {0}
  BY <1>1, ReleasesAssumption DEF Request
<1> QED BY <1>2, JobDirsAssumption DEF Plan, NoPlan

(* A success is one of the release that is installed. *)
Claim == updateState.status = "success" => \A c \in Components : target[c] = updateState.rel

(* The worker has still to restore the snapshot of its job, or to record   *)
(* that this is not needed.                                                *)
Unfinished == journal.phase = "executing" /\ snapshot[journal.job] # NoSnapshot

Beyond == {"apply", "health", "check", "rbRestore", "rbHealth", "rbCheck"}

(* What the position of the holder of the lock tells. *)
SuccessAt(l) ==
    /\ l \in {"install", "mark"} => cur # NoPlan
    /\ l \in Beyond => marker # NoPlan
    /\ l = "apply" => \A c \in Components \ todo : target[c] = cur.rel
    /\ l \in {"health", "check"} => \A c \in Components : target[c] = cur.rel
    /\ l = "check" => updateState.status = "success" /\ updateState.rel = cur.rel
    /\ l \in {"rbCheck", "recCheck"} => updateState.status = "failed"

(* Where the worker has not replaced anything, or has an outcome. *)
Decided == {"install", "mark", "doneOk", "doneFailed", "irJournal"}

SuccessInv ==
    /\ marker = NoPlan /\ ~Unfinished => Claim
    /\ marker = NoPlan /\ pc["worker"] \in Decided => Claim
    /\ \A p \in Procs : SuccessAt(pc[p])

LEMMA SuccessMoves ==
    ASSUME marker' = NoPlan /\ ~Unfinished' => Claim',
           NEW p \in Procs, NEW l, pc'[p] = l, \A q \in Procs \ {p} : pc'[q] = "off",
           p = "worker" /\ l \in Decided /\ marker' = NoPlan => Claim',
           SuccessAt(l)'
    PROVE  SuccessInv'
<1>1. SuccessAt("off")' /\ "off" \notin Decided /\ "worker" \in Procs
  BY DEF SuccessAt, Beyond, Decided, Procs
<1>2. \A q \in Procs : SuccessAt(pc[q])'
  BY <1>1
<1>3. marker' = NoPlan /\ pc'["worker"] \in Decided => Claim'
  <2>1. CASE p = "worker"
    BY <2>1
  <2>2. CASE p # "worker"
    BY <1>1, <2>2
  <2> QED BY <2>1, <2>2
<1> QED BY <1>2, <1>3 DEF SuccessInv

(* The holder goes on: the files, the report and the journal stay, or what *)
(* they say is known.                                                      *)
LEMMA SuccessGoesOn ==
    ASSUME IInv, SuccessInv, NEW p \in Procs, pc[p] # "off", NEW l, pc' = [pc EXCEPT ![p] = l],
           marker' = NoPlan /\ ~Unfinished' => Claim',
           p = "worker" /\ l \in Decided /\ marker' = NoPlan => Claim',
           SuccessAt(l)'
    PROVE  SuccessInv'
<1>1. pc \in [Procs -> PCs] /\ \A q \in Procs \ {p} : pc[q] = "off"
  BY Alone DEF IInv, TypeOK, InstallTypeOK, ProcessInv
<1>2. pc'[p] = l /\ \A q \in Procs \ {p} : pc'[q] = "off"
  BY <1>1
<1> QED BY <1>2, SuccessMoves

LEMMA SameClaim ==
    ASSUME UNCHANGED <<target, updateState>>
    PROVE  Claim' <=> Claim
  BY DEF Claim

LEMMA FailureClaimsNothing ==
    ASSUME updateState.status = "failed"
    PROVE  Claim
  BY DEF Claim

(* A snapshot is taken of what is there. *)
LEMMA SnapshotSuccess ==
    ASSUME IInv, SuccessInv, UNCHANGED <<journal, target, updateState, marker, cur>>,
           NEW p \in Procs, pc[p] = "install",
           snapshot' \in {snapshot, [snapshot EXCEPT ![cur.dir] =
                                       [files |-> target, rel |-> cur.rel]]},
           snapshot[cur.dir] # NoSnapshot => snapshot' = snapshot,
           NEW l \in {"off", "mark", "doneFailed"}, pc' = [pc EXCEPT ![p] = l]
    PROVE  SuccessInv'
<1> DEFINE s == [files |-> target, rel |-> cur.rel]
<1>1. snapshot' \in {snapshot, [snapshot EXCEPT ![cur.dir] = s]}
  OBVIOUS
<1> HIDE DEF s
<1>2. snapshot \in [Dirs -> Snapshot \cup {NoSnapshot}]
  BY DEF IInv, TypeOK, InstallTypeOK
<1>3. journal.phase = "executing" => journal.job \in Dirs
  BY JournalAt, JobDirsAssumption DEF Phase
<1>4. Unfinished => Unfinished'
  <2> SUFFICES ASSUME Unfinished PROVE Unfinished'
    OBVIOUS
  <2>1. journal.phase = "executing" /\ snapshot[journal.job] # NoSnapshot /\ journal.job \in Dirs
    BY <1>3 DEF Unfinished
  <2>2. snapshot'[journal.job] = snapshot[journal.job]
    BY <1>1, <1>2, <2>1
  <2> QED BY <2>1, <2>2 DEF Unfinished
<1>5. Claim' <=> Claim
  BY SameClaim
<1>6. p = "worker" /\ marker = NoPlan => Claim
  BY DEF SuccessInv, Decided
<1>7. SuccessAt(l)'
  BY DEF SuccessInv, SuccessAt, Beyond
<1>8. marker' = NoPlan /\ ~Unfinished' => Claim'
  BY <1>4, <1>5 DEF SuccessInv
<1> QED BY <1>5, <1>6, <1>7, <1>8, SuccessGoesOn

LEMMA CreateRollbackSuccess ==
    ASSUME IInv, SuccessInv, UNCHANGED journal, NEW p \in Procs, CreateRollback(p)
    PROVE  SuccessInv'
<1>1. /\ pc[p] = "install" /\ UNCHANGED <<target, updateState, marker, cur>>
      /\ snapshot' \in {snapshot, [snapshot EXCEPT ![cur.dir] =
                                     [files |-> target, rel |-> cur.rel]]}
      /\ snapshot[cur.dir] # NoSnapshot => snapshot' = snapshot
  BY DEF CreateRollback
<1>2. \E l \in {"off", "mark", "doneFailed"} : pc' = [pc EXCEPT ![p] = l]
  BY DEF CreateRollback, Return, Exit, Goto
<1> QED BY <1>1, <1>2, SnapshotSuccess

(* The marker is written, or not: nothing is replaced yet. *)
LEMMA MarkSuccess ==
    ASSUME IInv, SuccessInv, UNCHANGED <<journal, target, updateState, snapshot, cur>>,
           NEW p \in Procs, pc[p] = "mark", marker' \in {marker, cur},
           NEW l \in {"off", "apply", "doneFailed"}, pc' = [pc EXCEPT ![p] = l],
           l = "apply" => marker' = cur /\ todo' = Components
    PROVE  SuccessInv'
<1>1. cur # NoPlan
  BY DEF SuccessInv, SuccessAt
<1>2. marker' = NoPlan => marker = NoPlan
  BY <1>1
<1>3. (Claim' <=> Claim) /\ (Unfinished' <=> Unfinished)
  BY SameClaim DEF Unfinished
<1>4. p = "worker" /\ marker = NoPlan => Claim
  BY DEF SuccessInv, Decided
<1>5. SuccessAt(l)'
  BY <1>1 DEF SuccessAt, Beyond
<1>6. marker' = NoPlan /\ ~Unfinished' => Claim'
  BY <1>2, <1>3 DEF SuccessInv
<1> QED BY <1>2, <1>3, <1>4, <1>5, <1>6, SuccessGoesOn

LEMMA WriteTransactionSuccess ==
    ASSUME IInv, SuccessInv, UNCHANGED journal, NEW p \in Procs, WriteUpdateTransaction(p)
    PROVE  SuccessInv'
<1>1. /\ pc[p] = "mark" /\ UNCHANGED <<target, updateState, snapshot, cur>>
      /\ marker' \in {marker, cur}
  BY DEF WriteUpdateTransaction
<1>2. \E l \in {"off", "apply", "doneFailed"} :
          /\ pc' = [pc EXCEPT ![p] = l]
          /\ l = "apply" => marker' = cur /\ todo' = Components
  BY DEF WriteUpdateTransaction, Return, Exit, Goto
<1> QED BY <1>1, <1>2, MarkSuccess

(* As long as there is a marker, a success need not be one. *)
LEMMA PendingSuccess ==
    ASSUME IInv, SuccessInv, NEW p \in Procs, pc[p] # "off", NEW l, pc' = [pc EXCEPT ![p] = l],
           marker # NoPlan, marker' = marker, SuccessAt(l)'
    PROVE  SuccessInv'
  BY SuccessGoesOn

LEMMA ApplyComponentSuccess ==
    ASSUME IInv, SuccessInv, NEW p \in Procs, ApplyComponent(p)
    PROVE  SuccessInv'
<1>1. /\ pc[p] = "apply" /\ marker # NoPlan /\ UNCHANGED <<cur, marker>>
      /\ \A c \in Components \ todo : target[c] = cur.rel
  BY DEF ApplyComponent, SuccessInv, SuccessAt, Beyond
<1>2. PICK c \in todo : target' = [target EXCEPT ![c] = cur.rel] /\ todo' = todo \ {c}
  BY DEF ApplyComponent
<1>3. \A d \in Components \ todo' : target'[d] = cur.rel
  BY <1>1, <1>2 DEF IInv, TypeOK, InstallTypeOK
<1>4. \E l \in {"apply", "health"} : pc' = [pc EXCEPT ![p] = l] /\ (l = "health" => todo' = {})
  <2>1. [pc EXCEPT ![p] = "apply"] = pc
    BY <1>1 DEF IInv, TypeOK, InstallTypeOK
  <2> QED BY <2>1 DEF ApplyComponent, Goto
<1>5. SuccessAt("apply")' /\ (todo' = {} => SuccessAt("health")')
  BY <1>1, <1>3 DEF SuccessAt, Beyond
<1>6. pc[p] # "off"
  BY <1>1
<1> QED BY <1>1, <1>4, <1>5, <1>6, PendingSuccess

LEMMA RecordSuccessSuccess ==
    ASSUME IInv, SuccessInv, NEW p \in Procs, RecordSuccess(p)
    PROVE  SuccessInv'
<1>1. /\ pc[p] = "health" /\ pc[p] # "off" /\ marker # NoPlan /\ UNCHANGED <<cur, marker, target>>
      /\ \A c \in Components : target[c] = cur.rel
  BY DEF RecordSuccess, SuccessInv, SuccessAt, Beyond
<1>2. CASE pc' = [pc EXCEPT ![p] = "rbRestore"]
  <2>1. SuccessAt("rbRestore")'
    BY <1>1 DEF SuccessAt, Beyond
  <2> QED BY <1>1, <1>2, <2>1, PendingSuccess
<1>3. CASE /\ pc' = [pc EXCEPT ![p] = "check"]
           /\ updateState' = [rel |-> cur.rel, status |-> "success"]
  <2>1. updateState'.status = "success" /\ updateState'.rel = cur.rel
    BY <1>3
  <2>2. SuccessAt("check")'
    BY <1>1, <2>1 DEF SuccessAt, Beyond
  <2> QED BY <1>1, <1>3, <2>2, PendingSuccess
<1> QED BY <1>2, <1>3 DEF RecordSuccess, StartRollback, Goto

(* The marker goes: the success is one, or a failure was recorded. *)
LEMMA CompletionSuccess ==
    ASSUME IInv, SuccessInv, NEW p \in Procs,
           CompleteInstall(p) \/ CompleteRollback(p) \/ CompleteRecovery(p)
    PROVE  SuccessInv'
<1>1. /\ pc[p] \in {"check", "rbCheck", "recCheck"} /\ pc[p] # "off"
      /\ UNCHANGED <<target, updateState>>
  BY DEF CompleteInstall, CompleteRollback, CompleteRecovery
<1>2. Claim
  <2>1. SuccessAt(pc[p])
    BY DEF SuccessInv
  <2>2. CASE pc[p] = "check"
    BY <2>1, <2>2 DEF SuccessAt, Claim
  <2>3. CASE pc[p] \in {"rbCheck", "recCheck"}
    BY <2>1, <2>3, FailureClaimsNothing DEF SuccessAt
  <2> QED BY <1>1, <2>2, <2>3
<1>3. Claim'
  BY <1>1, <1>2, SameClaim
<1>4. PICK l \in {"off", "doneOk", "doneFailed", "journal"} : pc' = [pc EXCEPT ![p] = l]
  BY DEF CompleteInstall, CompleteRollback, CompleteRecovery, Return, Exit, Goto
<1>5. SuccessAt(l)'
  BY <1>4 DEF SuccessAt, Beyond
<1> QED BY <1>1, <1>3, <1>4, <1>5, SuccessGoesOn

(* While the worker restores the snapshot of its job, its journal says so. *)
LEMMA RestoreSuccess ==
    ASSUME IInv, SuccessInv, UNCHANGED journal, NEW p \in Procs, NEW from, NEW to,
           RestoreStep(p, from, to),
           \/ from = "rbRestore" /\ to = "rbHealth"
           \/ from = "recRestore" /\ to = "recHealth"
           \/ from = "irRestore" /\ to = "irState"
    PROVE  SuccessInv'
<1>1. pc[p] = from /\ pc[p] # "off" /\ UNCHANGED <<cur, marker, snapshot>>
  BY DEF RestoreStep
<1>2. PICK l \in {from, to} : pc' = [pc EXCEPT ![p] = l]
  <2>1. [pc EXCEPT ![p] = from] = pc
    BY <1>1 DEF IInv, TypeOK, InstallTypeOK
  <2> QED BY <2>1 DEF RestoreStep, Goto
<1>3. CASE from \in {"rbRestore", "recRestore"}
  <2>1. marker # NoPlan
    BY <1>1, <1>3 DEF SuccessInv, SuccessAt, Beyond, IInv, MarkerInv, RecoveryPC
  <2>2. SuccessAt(l)'
    BY <1>1, <1>2, <1>3, <2>1 DEF SuccessAt, Beyond
  <2> QED BY <1>1, <1>2, <2>1, <2>2, PendingSuccess
<1>4. CASE from = "irRestore" /\ to = "irState"
  <2>1. p = "worker" /\ snapshot[cur.dir] # NoSnapshot
    BY <1>1, <1>4, InstallerAt
  <2>2. journal.phase = "executing" /\ cur.dir = journal.job
    BY <1>1, <1>4, <2>1 DEF IInv, JournalInv
  <2>3. Unfinished'
    BY <1>1, <2>1, <2>2 DEF Unfinished
  <2>4. SuccessAt(l)' /\ l \notin Decided
    BY <1>2, <1>4 DEF SuccessAt, Beyond, Decided
  <2> QED BY <1>1, <1>2, <2>3, <2>4, SuccessGoesOn
<1> QED BY <1>3, <1>4

LEMMA RecordFailureSuccess ==
    ASSUME IInv, SuccessInv, UNCHANGED journal, NEW p \in Procs, NEW from, NEW to,
           RecordFailure(p, from, to),
           \/ from = "rbHealth" /\ to = "rbCheck"
           \/ from = "recHealth" /\ to = "recCheck"
           \/ from = "irState" /\ to = "irJournal"
    PROVE  SuccessInv'
<1>1. pc[p] = from /\ pc[p] # "off" /\ UNCHANGED <<target, marker, snapshot>>
  BY DEF RecordFailure
<1>2. CASE pc' = [pc EXCEPT ![p] = "off"] /\ UNCHANGED updateState
  <2>1. (Claim' <=> Claim) /\ (Unfinished' <=> Unfinished)
    BY <1>1, <1>2, SameClaim DEF Unfinished
  <2>2. SuccessAt("off")' /\ "off" \notin Decided
    BY DEF SuccessAt, Beyond, Decided
  <2>3. marker' = NoPlan /\ ~Unfinished' => Claim'
    BY <1>1, <2>1 DEF SuccessInv
  <2> QED BY <1>1, <1>2, <2>2, <2>3, SuccessGoesOn
<1>3. CASE /\ pc' = [pc EXCEPT ![p] = to]
           /\ updateState' = [rel |-> cur.rel, status |-> "failed"]
  <2>1. updateState'.status = "failed"
    BY <1>3
  <2>2. Claim'
    BY <2>1 DEF Claim
  <2>3. to = "rbCheck" => marker' # NoPlan
    BY <1>1 DEF SuccessInv, SuccessAt, Beyond
  <2>4. SuccessAt(to)'
    BY <2>1, <2>3 DEF SuccessAt, Beyond
  <2> QED BY <1>1, <1>3, <2>2, <2>4, SuccessGoesOn
<1> QED BY <1>2, <1>3 DEF RecordFailure, Exit, Goto

LEMMA InstallFailsSuccess ==
    ASSUME IInv, SuccessInv, UNCHANGED journal, NEW p \in Procs, InstallFails(p)
    PROVE  SuccessInv'
<1>1. UNCHANGED <<target, updateState, cur>>
  BY DEF InstallFails
<1>2. CASE /\ pc[p] = "install" /\ Return(p, "doneFailed") /\ UNCHANGED <<marker, todo>>
           /\ snapshot' \in {snapshot, [snapshot EXCEPT ![cur.dir] =
                                          [files |-> target, rel |-> cur.rel]]}
           /\ snapshot[cur.dir] # NoSnapshot => snapshot' = snapshot
  <2>1. \E l \in {"off", "mark", "doneFailed"} : pc' = [pc EXCEPT ![p] = l]
    BY <1>2 DEF Return, Exit, Goto
  <2> QED BY <1>1, <1>2, <2>1, SnapshotSuccess
<1>3. CASE /\ pc[p] = "mark" /\ Return(p, "doneFailed") /\ marker' \in {marker, cur}
           /\ UNCHANGED <<snapshot, todo>>
  <2>1. \E l \in {"off", "apply", "doneFailed"} : pc' = [pc EXCEPT ![p] = l] /\ l # "apply"
    BY <1>3 DEF Return, Exit, Goto
  <2> QED BY <1>1, <1>3, <2>1, MarkSuccess
<1>4. CASE /\ pc[p] \in {"apply", "health", "check"} /\ StartRollback(p)
           /\ UNCHANGED <<snapshot, marker>>
  <2>1. marker # NoPlan /\ pc[p] # "off"
    BY <1>4 DEF SuccessInv, SuccessAt, Beyond
  <2>2. SuccessAt("rbRestore")'
    BY <1>4, <2>1 DEF SuccessAt, Beyond
  <2>3. pc' = [pc EXCEPT ![p] = "rbRestore"]
    BY <1>4 DEF StartRollback, Goto
  <2> QED BY <1>4, <2>1, <2>2, <2>3, PendingSuccess
<1> QED BY <1>2, <1>3, <1>4 DEF InstallFails

(* The files and the report stay, and no process looks at them. *)
LEMMA IdleSuccess ==
    ASSUME SuccessInv, UNCHANGED <<target, updateState, marker, snapshot, journal>>,
           NEW p \in Procs, NEW l, pc'[p] = l, \A q \in Procs \ {p} : pc'[q] = "off",
           p = "worker" => l \notin Decided, SuccessAt(l)'
    PROVE  SuccessInv'
<1>1. (Claim' <=> Claim) /\ (Unfinished' <=> Unfinished)
  BY SameClaim DEF Unfinished
<1>2. marker' = NoPlan /\ ~Unfinished' => Claim'
  BY <1>1 DEF SuccessInv
<1> QED BY <1>2, SuccessMoves

LEMMA DiesSuccess ==
    ASSUME IInv, SuccessInv, UNCHANGED journal, NEW p \in Procs, Dies(p)
    PROVE  SuccessInv'
<1>1. /\ UNCHANGED <<target, updateState, marker, snapshot>> /\ pc[p] # "off"
      /\ pc' = [pc EXCEPT ![p] = "off"]
  BY DEF Dies, Exit
<1>2. pc \in [Procs -> PCs] /\ \A q \in Procs \ {p} : pc[q] = "off"
  BY <1>1, Alone DEF IInv, TypeOK, InstallTypeOK, ProcessInv
<1>3. pc'[p] = "off" /\ \A q \in Procs \ {p} : pc'[q] = "off"
  BY <1>1, <1>2
<1>4. SuccessAt("off")' /\ "off" \notin Decided
  BY DEF SuccessAt, Beyond, Decided
<1> QED BY <1>1, <1>3, <1>4, IdleSuccess

(* A process takes the lock; nothing is changed yet. *)
LEMMA StartSuccess ==
    ASSUME IInv, SuccessInv, UNCHANGED <<journal, fileVars>>, NEW p \in Procs,
           NEW l \in {"journal", "recRestore", "install"}, Acquire(p, l),
           p = "worker" => l # "install", l = "install" => cur' # NoPlan
    PROVE  SuccessInv'
<1>1. pc \in [Procs -> PCs] /\ "none" \notin Procs /\ ExclusiveMutation
  BY DEF IInv, TypeOK, InstallTypeOK, ProcessInv, Procs
<1>2. pc'[p] = l /\ \A q \in Procs \ {p} : pc'[q] = "off"
  BY <1>1 DEF Acquire, ExclusiveMutation
<1>3. UNCHANGED <<target, updateState, marker, snapshot>>
  BY DEF fileVars
<1>4. SuccessAt(l)' /\ (p = "worker" => l \notin Decided)
  BY DEF SuccessAt, Beyond, Decided
<1> QED BY <1>2, <1>3, <1>4, IdleSuccess

LEMMA RecoverMarkerSuccess ==
    ASSUME IInv, SuccessInv, UNCHANGED journal, NEW p \in Procs, RecoverMarker(p)
    PROVE  SuccessInv'
<1>1. Acquire(p, "recRestore") /\ UNCHANGED fileVars
  BY DEF RecoverMarker
<1> QED BY <1>1, StartSuccess

LEMMA ManualStartSuccess ==
    ASSUME IInv, SuccessInv, UNCHANGED journal, NEW d \in ManualDirs, NEW rel \in ManualReleases,
           ManualStart(d, rel)
    PROVE  SuccessInv'
<1>1. /\ cur' = [dir |-> d, rel |-> rel] /\ Acquire("manual", "install") /\ UNCHANGED fileVars
      /\ "manual" \in Procs
  BY DEF ManualStart, Procs
<1>2. cur' # NoPlan
  BY <1>1, ManualReleasesAssumption DEF NoPlan
<1> QED BY <1>1, <1>2, StartSuccess

(* The steps of installStaged and of recoverPendingUpdate. *)
LEMMA InstallSuccess ==
    ASSUME IInv, SuccessInv, UNCHANGED journal, NEW p \in Procs,
           \/ InstallStep(p) \/ RecoveryStep(p)
           \/ RestoreStep(p, "irRestore", "irState")
           \/ RecordFailure(p, "irState", "irJournal")
    PROVE  SuccessInv'
  BY CreateRollbackSuccess, WriteTransactionSuccess, ApplyComponentSuccess,
     RecordSuccessSuccess, CompletionSuccess, RestoreSuccess, RecordFailureSuccess
     DEF InstallStep, RecoveryStep

LEMMA OtherSuccess ==
    ASSUME IInv, SuccessInv, OtherProcesses
    PROVE  SuccessInv'
<1>1. UNCHANGED journal /\ "manual" \in Procs /\ "status" \in Procs
  BY DEF OtherProcesses, workerVars, Procs
<1>2. CASE ManualUpdater
  BY <1>1, <1>2, ManualStartSuccess, InstallSuccess, InstallFailsSuccess, DiesSuccess
     DEF ManualUpdater
<1>3. CASE StatusService
  BY <1>1, <1>3, RecoverMarkerSuccess, InstallSuccess, DiesSuccess
     DEF StatusService, StatusStart
<1> QED BY <1>2, <1>3 DEF OtherProcesses

LEMMA WorkerStartSuccess ==
    ASSUME IInv, SuccessInv, WorkerStart
    PROVE  SuccessInv'
<1>1. UNCHANGED journal /\ "worker" \in Procs
  BY DEF WorkerStart, workerVars, Procs
<1>2. CASE RecoverMarker("worker")
  BY <1>1, <1>2, RecoverMarkerSuccess
<1>3. CASE Acquire("worker", "journal") /\ UNCHANGED <<cur, todo, installed>>
  <2>1. UNCHANGED fileVars
    BY <1>3 DEF installed
  <2> QED BY <1>1, <1>3, <2>1, StartSuccess
<1> QED BY <1>2, <1>3 DEF WorkerStart

(* The worker goes on or ends without touching a file: the journal stays,  *)
(* or the success is known to be one.                                      *)
LEMMA WorkerSuccess ==
    ASSUME IInv, SuccessInv, pc["worker"] # "off",
           NEW l \in {"off", "pollWait", "irRestore", "irJournal", "result", "prepared", "pkgWait",
                      "startWait", "install", "resultWait"},
           pc' = [pc EXCEPT !["worker"] = l], UNCHANGED <<target, snapshot, marker, updateState>>,
           journal' = journal \/ (marker = NoPlan => Claim),
           l \in {"irJournal", "install"} => (marker = NoPlan => Claim),
           l = "install" => cur' # NoPlan
    PROVE  SuccessInv'
<1>1. Claim' <=> Claim
  BY SameClaim
<1>2. marker' = NoPlan /\ ~Unfinished' => Claim'
  <2>1. CASE journal' = journal
    <3>1. Unfinished' <=> Unfinished
      BY <2>1 DEF Unfinished
    <3> QED BY <1>1, <3>1 DEF SuccessInv
  <2>2. CASE marker = NoPlan => Claim
    BY <1>1, <2>2
  <2> QED BY <2>1, <2>2
<1>3. SuccessAt(l)'
  BY DEF SuccessAt, Beyond
<1>4. l \in Decided /\ marker' = NoPlan => Claim'
  BY <1>1 DEF Decided
<1>5. "worker" \in Procs
  BY DEF Procs
<1> QED BY <1>2, <1>3, <1>4, <1>5, SuccessGoesOn

(* Nothing is executing: a success is one. *)
LEMMA QuietSuccess ==
    ASSUME SuccessInv, journal.phase # "executing" \/ snapshot[journal.job] = NoSnapshot
    PROVE  marker = NoPlan => Claim
  BY DEF SuccessInv, Unfinished

LEMMA ReadJournalSuccess ==
    ASSUME IInv, SuccessInv, ReadJournal
    PROVE  SuccessInv'
<1>1. /\ pc["worker"] # "off" /\ journal' = journal
      /\ UNCHANGED <<target, snapshot, marker, updateState>>
  BY DEF ReadJournal, installed, fileVars
<1>2. \E l \in {"pollWait", "irRestore", "irJournal", "result", "prepared"} :
          /\ pc' = [pc EXCEPT !["worker"] = l]
          /\ l = "irJournal" => snapshot[journal.job] = NoSnapshot
  BY DEF ReadJournal, Goto
<1> QED BY <1>1, <1>2, QuietSuccess, WorkerSuccess

LEMMA OutcomeSuccess ==
    ASSUME IInv, SuccessInv, JournalInterrupted \/ JournalOutcome
    PROVE  SuccessInv'
<1>1. pc["worker"] # "off" /\ UNCHANGED <<target, snapshot, marker, updateState>>
  BY DEF JournalInterrupted, JournalOutcome, installed, fileVars
<1>2. marker = NoPlan => Claim
  BY DEF JournalInterrupted, JournalOutcome, SuccessInv, Decided
<1>3. \E l \in {"off", "result"} : pc' = [pc EXCEPT !["worker"] = l]
  BY DEF JournalInterrupted, JournalOutcome, Leave, Exit, Goto
<1> QED BY <1>1, <1>2, <1>3, WorkerSuccess

(* The requests of the worker before and after an execution. *)
LEMMA RequestSuccess ==
    ASSUME IInv, SuccessInv,
           \/ ReceivePoll \/ CheckWindow \/ ReceivePackage \/ ReportResult \/ ReceiveAck
           \/ ConnectionLost
    PROVE  SuccessInv'
<1>1. pc["worker"] # "off" /\ UNCHANGED <<target, snapshot, marker, updateState>>
  BY DEF ReceivePoll, CheckWindow, ReceivePackage, ReportResult, ReceiveAck, ConnectionLost,
     installed, fileVars
<1>2. journal' = journal \/ journal.phase # "executing"
  <2>1. CASE ReceivePoll
    <3>1. journal = NoJournal /\ NoJournal.phase = "none"
      BY <2>1 DEF ReceivePoll, IInv, JournalInv, NoJournal
    <3> QED BY <3>1
  <2>2. CASE CheckWindow \/ ReceivePackage
    BY <2>2 DEF CheckWindow, ReceivePackage, IInv, JournalInv
  <2>3. CASE ReportResult \/ ReceiveAck \/ ConnectionLost
    BY <2>3 DEF ReportResult, ReceiveAck, ConnectionLost, IInv, JournalInv
  <2> QED BY <2>1, <2>2, <2>3
<1>3. \E l \in {"off", "result", "prepared", "pkgWait", "startWait", "resultWait"} :
          pc' = [pc EXCEPT !["worker"] = l]
  BY DEF ReceivePoll, CheckWindow, ReceivePackage, ReportResult, ReceiveAck, ConnectionLost,
     Leave, Exit, Goto
<1> QED BY <1>1, <1>2, <1>3, QuietSuccess, WorkerSuccess

LEMMA ReceiveStartSuccess ==
    ASSUME IInv, SuccessInv, ReceiveStart
    PROVE  SuccessInv'
<1>1. /\ pc["worker"] # "off" /\ journal.phase = "prepared"
      /\ UNCHANGED <<target, snapshot, marker, updateState>>
  BY DEF ReceiveStart, IInv, JournalInv, installed, fileVars
<1>2. journal.phase # "executing"
  BY <1>1
<1>3. reply.code = "ok" => state[journal.job] \in Permitted /\ journal.job \in Jobs
  BY <1>1, JournalAt DEF ReceiveStart, IInv, AgreementInv, Permitted, Phase
<1>4. \E l \in {"off", "install"} :
          pc' = [pc EXCEPT !["worker"] = l] /\ (l = "install" => cur' # NoPlan)
  BY <1>3, PlannedRelease DEF ReceiveStart, Leave, Exit, Goto
<1> QED BY <1>1, <1>2, <1>4, QuietSuccess, WorkerSuccess

(* Steps of the server leave the device alone. *)
LEMMA UntouchedSuccess ==
    ASSUME SuccessInv,
           UNCHANGED <<pc, cur, todo, target, snapshot, marker, updateState, journal>>
    PROVE  SuccessInv'
<1>1. (Claim' <=> Claim) /\ (Unfinished' <=> Unfinished)
  BY SameClaim DEF Unfinished
<1>2. ASSUME NEW p \in Procs PROVE SuccessAt(pc[p])'
  <2>1. SuccessAt(pc[p])
    BY DEF SuccessInv
  <2> QED BY <2>1 DEF SuccessAt
<1> QED BY <1>1, <1>2 DEF SuccessInv

LEMMA ServerSuccess ==
    ASSUME SuccessInv,
           \/ Administration \/ \E approved \in SUBSET Releases : ServerRestart(approved)
           \/ \E m \in msgs : Handle(m)
           \/ UNCHANGED vars
    PROVE  SuccessInv'
<1>1. CASE Administration \/ UNCHANGED vars
  BY <1>1, UntouchedSuccess
     DEF Administration, vars, installVars, localVars, fileVars, workerVars
<1>2. CASE \E approved \in SUBSET Releases : ServerRestart(approved)
  BY <1>2, UntouchedSuccess DEF ServerRestart, localVars, fileVars
<1>3. CASE \E m \in msgs : Handle(m)
  <2>1. UNCHANGED deviceVars
    BY <1>3 DEF Handle, PollRead, PollAnswer, DownloadClientUpdate, Authenticate, HandleStart, HandleResult
  <2> QED BY <2>1, UntouchedSuccess DEF deviceVars, installVars, localVars, fileVars
<1> QED BY <1>1, <1>2, <1>3

LEMMA NextSuccess ==
    ASSUME IInv, SuccessInv, [Next]_vars
    PROVE  SuccessInv'
<1>1. "worker" \in Procs
  BY DEF Procs
<1>2. CASE WorkerStep
  <2>1. WorkerInstall => UNCHANGED journal
    BY DEF WorkerInstall, workerVars
  <2> QED BY <1>1, <1>2, <2>1, ReadJournalSuccess, OutcomeSuccess, RequestSuccess,
          ReceiveStartSuccess, InstallSuccess DEF WorkerStep, WorkerInstall
<1>3. CASE WorkerFault
  BY <1>1, <1>3, DiesSuccess, InstallFailsSuccess DEF WorkerFault, workerVars
<1> QED BY <1>2, <1>3, ServerSuccess, WorkerStartSuccess, OtherSuccess DEF Next

LEMMA InitSuccess ==
    ASSUME Init
    PROVE  SuccessInv
<1>1. /\ \A p \in Procs : pc[p] = "off"
      /\ updateState.status = "none" /\ pc["worker"] = "off"
  BY DEF Init, InstallInit, NoState, Procs
<1>2. SuccessAt("off") /\ "off" \notin Decided
  BY DEF SuccessAt, Beyond, Decided
<1>3. Claim
  BY <1>1 DEF Claim
<1> QED BY <1>1, <1>2, <1>3 DEF SuccessInv

(* Also with the worker, and however often an operator installs by hand, a *)
(* success in update-state.json, which the client reports to the server,   *)
(* is one of the release whose components are all in place: unless a       *)
(* marker is pending or the journal still has an execution to account for, *)
(* as it has while the worker restores what a crash left behind.           *)
THEOREM SuccessIsInstalled ==
    Spec => [](journal.phase # "executing" => ReportedSuccessInstalled)
<1>1. SuccessInv => (journal.phase # "executing" => ReportedSuccessInstalled)
  BY DEF SuccessInv, Unfinished, Claim, ReportedSuccessInstalled
<1>2. IInv /\ SuccessInv /\ [Next]_vars => SuccessInv'
  BY NextSuccess
<1> QED BY <1>1, <1>2, InitSuccess, UpdateAgreement, PTL DEF Spec

-----------------------------------------------------------------------------
(* The evidence of half-replaced components *)

(* The journal of an execution names a snapshot of one release. *)
Journaled == journal.phase = "executing" /\ Restorable(journal.job)

(* Where the worker is while all components are of one release. *)
EvidentAt(l) ==
    /\ l \in {"install", "mark", "irState", "irJournal", "doneOk"} => Uniform(target)
    /\ l = "doneFailed" /\ marker = NoPlan => Uniform(target)

(* The marker is evidence, or else the journal is.  The snapshots of jobs  *)
(* are of one release, those of an operator need not be.                   *)
EvidenceInv ==
    /\ \E e \in BOOLEAN : (e => Journaled) /\ FilesInv(e)
    /\ \A j \in Jobs : snapshot[j] # NoSnapshot => Uniform(snapshot[j].files)
    /\ EvidentAt(pc["worker"])
    /\ marker # NoPlan => marker.dir \in Jobs \cup ManualDirs
    /\ OperatorWaits /\ pc["manual"] \in {"install", "mark"} => marker = NoPlan

(* The operator waits for a pending recovery, or installs by hand at most  *)
(* once (a directory serves one installation).                             *)
Careful == OperatorWaits \/ \A d, e \in ManualDirs : d = e

LEMMA FilesWeaker ==
    ASSUME NEW e \in BOOLEAN, NEW f \in BOOLEAN, e => f, FilesInv(e)
    PROVE  FilesInv(f)
  BY DEF FilesInv, HolderAt

(* The evidence to go on with: as much as there is. *)
LEMMA EvidenceKnows ==
    ASSUME IInv, EvidenceInv
    PROVE  \E e \in BOOLEAN : (e <=> Journaled) /\ Files(e)
<1>1. PICK e \in BOOLEAN : (e => Journaled) /\ FilesInv(e)
  BY DEF EvidenceInv
<1>2. PICK f \in BOOLEAN : f <=> Journaled
  OBVIOUS
<1>3. FilesInv(f)
  BY <1>1, <1>2, FilesWeaker
<1> QED BY <1>2, <1>3 DEF Files, IInv, TypeOK, ProcessInv

(* A step of the holder, or the start of one. *)
LEMMA EvidenceMoves ==
    ASSUME NEW e \in BOOLEAN, e => Journaled', FilesInv(e)',
           \A j \in Jobs : snapshot'[j] # NoSnapshot => Uniform(snapshot[j].files)',
           NEW p \in Procs, NEW l, pc'[p] = l, \A q \in Procs \ {p} : pc'[q] = "off",
           p = "worker" => EvidentAt(l)',
           marker' # NoPlan => marker'.dir \in Jobs \cup ManualDirs,
           OperatorWaits /\ p = "manual" /\ l \in {"install", "mark"} => marker' = NoPlan
    PROVE  EvidenceInv'
<1>1. EvidentAt(pc["worker"])'
  BY DEF EvidentAt, Procs
<1>2. OperatorWaits /\ pc'["manual"] \in {"install", "mark"} => marker' = NoPlan
  BY DEF Procs
<1> QED BY <1>1, <1>2 DEF EvidenceInv

(* The holder goes on, and no snapshot is taken. *)
LEMMA EvidenceGoesOn ==
    ASSUME IInv, EvidenceInv, UNCHANGED <<journal, snapshot>>,
           NEW e \in BOOLEAN, e => Journaled, FilesInv(e)',
           NEW p \in Procs, pc[p] # "off", NEW l, pc' = [pc EXCEPT ![p] = l],
           p = "worker" => EvidentAt(l)',
           marker' # NoPlan => marker' = marker \/ marker'.dir \in Jobs \cup ManualDirs,
           l \notin {"install", "mark"}
    PROVE  EvidenceInv'
<1>1. /\ \A j \in Jobs : snapshot[j] # NoSnapshot => Uniform(snapshot[j].files)
      /\ marker # NoPlan => marker.dir \in Jobs \cup ManualDirs
  BY DEF EvidenceInv
<1>2. pc \in [Procs -> PCs] /\ \A q \in Procs \ {p} : pc[q] = "off"
  BY Alone DEF IInv, TypeOK, InstallTypeOK, ProcessInv
<1>3. pc'[p] = l /\ \A q \in Procs \ {p} : pc'[q] = "off"
  BY <1>2
<1>4. \A j \in Jobs : snapshot'[j] # NoSnapshot => Uniform(snapshot[j].files)'
  BY <1>1 DEF Uniform
<1>5. e => Journaled'
  BY DEF Journaled, Restorable, Uniform
<1> QED BY <1>1, <1>3, <1>4, <1>5, EvidenceMoves

(* Whose installation it is, and what can be restored. *)
LEMMA EvidenceAt ==
    ASSUME IInv, EvidenceInv, NEW p \in Procs, pc[p] \in InstallPC
    PROVE  /\ p \in {"worker", "manual"} /\ pc[p] # "off"
           /\ cur \in Plan /\ cur.dir \in Dirs /\ cur.dir \in Jobs \cup ManualDirs
           /\ p = "worker" => cur.dir \in Jobs /\ EvidentAt(pc[p])
           /\ p = "worker" /\ pc[p] # "install" => Restorable(cur.dir)
           /\ p = "manual" => cur.dir \in ManualDirs
<1>1. /\ p \in {"worker", "manual"} /\ pc[p] # "off" /\ cur \in Plan /\ cur.dir \in Dirs
      /\ pc[p] # "install" => snapshot[cur.dir] # NoSnapshot
  BY InstallerAt DEF InstallPC
<1>2. p = "worker" => cur.dir \in Jobs
  BY JournalAt DEF IInv, JournalInv, Phase
<1>3. p = "manual" => cur.dir \in ManualDirs
  BY <1>1 DEF IInv, ProcessInv
<1>4. p = "worker" => EvidentAt(pc[p])
  BY DEF EvidenceInv
<1>5. p = "worker" /\ pc[p] # "install" => Restorable(cur.dir)
  BY <1>1, <1>2 DEF EvidenceInv, Restorable
<1> QED BY <1>1, <1>2, <1>3, <1>4, <1>5

LEMMA WriteTransactionEvidence ==
    ASSUME IInv, EvidenceInv, UNCHANGED journal, NEW p \in Procs, WriteUpdateTransaction(p)
    PROVE  EvidenceInv'
<1>1. PICK e \in BOOLEAN : (e <=> Journaled) /\ Files(e)
  BY EvidenceKnows
<1>2. /\ pc[p] = "mark" /\ pc[p] # "off" /\ cur.dir \in Jobs \cup ManualDirs
      /\ p = "worker" => Uniform(target)
  BY EvidenceAt DEF WriteUpdateTransaction, InstallPC, EvidentAt
<1>3. FilesInv(e)' /\ UNCHANGED <<target, snapshot>>
  BY <1>1, WriteTransactionFiles DEF WriteUpdateTransaction
<1>4. marker' = marker \/ marker'.dir \in Jobs \cup ManualDirs
  BY <1>2 DEF WriteUpdateTransaction
<1>5. \E l \in {"off", "apply", "doneFailed"} : pc' = [pc EXCEPT ![p] = l]
  BY DEF WriteUpdateTransaction, Return, Exit, Goto
<1>6. p = "worker" => \A l \in {"off", "apply", "doneFailed"} : EvidentAt(l)'
  BY <1>2, <1>3 DEF EvidentAt, Uniform
<1>7. \A l \in {"off", "apply", "doneFailed"} : l \notin {"install", "mark"}
  OBVIOUS
<1> QED BY <1>1, <1>2, <1>3, <1>4, <1>5, <1>6, <1>7, EvidenceGoesOn

LEMMA ApplyComponentEvidence ==
    ASSUME IInv, EvidenceInv, UNCHANGED journal, NEW p \in Procs, ApplyComponent(p)
    PROVE  EvidenceInv'
<1>1. PICK e \in BOOLEAN : (e <=> Journaled) /\ Files(e)
  BY EvidenceKnows
<1>2. FilesInv(e)' /\ UNCHANGED <<marker, snapshot>> /\ pc[p] # "off"
  BY <1>1, ApplyComponentFiles DEF ApplyComponent
<1>3. \E l \in {"apply", "health"} : pc' = [pc EXCEPT ![p] = l]
  <2>1. pc[p] = "apply" => [pc EXCEPT ![p] = "apply"] = pc
    BY DEF IInv, TypeOK, InstallTypeOK
  <2> QED BY <2>1 DEF ApplyComponent, Goto
<1>4. \A l \in {"apply", "health"} : EvidentAt(l)' /\ l \notin {"install", "mark"}
  BY DEF EvidentAt
<1> QED BY <1>1, <1>2, <1>3, <1>4, EvidenceGoesOn

LEMMA RecordSuccessEvidence ==
    ASSUME IInv, EvidenceInv, UNCHANGED journal, NEW p \in Procs, RecordSuccess(p)
    PROVE  EvidenceInv'
<1>1. PICK e \in BOOLEAN : (e <=> Journaled) /\ Files(e)
  BY EvidenceKnows
<1>2. FilesInv(e)' /\ UNCHANGED <<marker, snapshot>> /\ pc[p] # "off"
  BY <1>1, RecordSuccessFiles DEF RecordSuccess
<1>3. \E l \in {"rbRestore", "check"} : pc' = [pc EXCEPT ![p] = l]
  BY DEF RecordSuccess, StartRollback, Goto
<1>4. \A l \in {"rbRestore", "check"} : EvidentAt(l)' /\ l \notin {"install", "mark"}
  BY DEF EvidentAt
<1> QED BY <1>1, <1>2, <1>3, <1>4, EvidenceGoesOn

LEMMA CompletionEvidence ==
    ASSUME IInv, EvidenceInv, UNCHANGED journal, NEW p \in Procs,
           CompleteInstall(p) \/ CompleteRollback(p) \/ CompleteRecovery(p)
    PROVE  EvidenceInv'
<1>1. PICK e \in BOOLEAN : (e <=> Journaled) /\ Files(e)
  BY EvidenceKnows
<1>2. FilesInv(e)'
  BY <1>1, CompleteInstallFiles, CompleteRestorationFiles
<1>3. pc[p] # "off" /\ UNCHANGED snapshot /\ marker' = NoPlan
  BY DEF CompleteInstall, CompleteRollback, CompleteRecovery
<1>4. CompleteInstall(p) => Uniform(target)'
  BY <1>1, CompleteInstallFiles
<1>5. CompleteRollback(p) /\ p = "worker" => Uniform(target)'
  <2>1. CompleteRollback(p) => pc[p] = "rbCheck" /\ pc[p] \in InstallPC
    BY DEF CompleteRollback, InstallPC
  <2> QED BY <1>1, <2>1, EvidenceAt, CompleteRestorationFiles
<1>6. PICK l \in {"off", "doneOk", "doneFailed", "journal"} :
          /\ pc' = [pc EXCEPT ![p] = l]
          /\ p = "worker" /\ l \in {"doneOk", "doneFailed"} => Uniform(target)'
  BY <1>4, <1>5 DEF CompleteInstall, CompleteRollback, CompleteRecovery, Return, Exit, Goto
<1>7. (p = "worker" => EvidentAt(l)') /\ l \notin {"install", "mark"}
  BY <1>6 DEF EvidentAt
<1> QED BY <1>1, <1>2, <1>3, <1>6, <1>7, EvidenceGoesOn

LEMMA RestoreEvidence ==
    ASSUME IInv, EvidenceInv, UNCHANGED journal, NEW p \in Procs, NEW from, NEW to,
           RestoreStep(p, from, to),
           \/ from = "rbRestore" /\ to = "rbHealth"
           \/ from = "recRestore" /\ to = "recHealth"
           \/ from = "irRestore" /\ to = "irState"
    PROVE  EvidenceInv'
<1>1. PICK e \in BOOLEAN : (e <=> Journaled) /\ Files(e)
  BY EvidenceKnows
<1>2. /\ pc[p] = from /\ pc[p] # "off" /\ UNCHANGED <<cur, marker, snapshot>>
      /\ from = "irRestore" => p = "worker"
  BY InstallerAt DEF RestoreStep
<1>3. from = "irRestore" => Journaled /\ cur.dir = journal.job
  <2>1. from = "irRestore" => journal.phase = "executing" /\ cur.dir = journal.job
    BY <1>2 DEF IInv, JournalInv
  <2>2. from = "irRestore" => snapshot[cur.dir] # NoSnapshot
    BY <1>2, InstallerAt
  <2> QED BY <2>1, <2>2, JournalAt DEF Journaled, Restorable, EvidenceInv, Phase
<1>4. FilesInv(e)'
  BY <1>1, <1>3, RestoreFiles
<1>5. PICK l \in {from, to} : pc' = [pc EXCEPT ![p] = l] /\ (l = to => todo' = {})
  <2>1. [pc EXCEPT ![p] = from] = pc
    BY <1>2 DEF IInv, TypeOK, InstallTypeOK
  <2> QED BY <2>1 DEF RestoreStep, Goto
<1>6. l = "irState" => Uniform(target)'
  <2>1. SUFFICES ASSUME from = "irRestore", todo' = {} PROVE Uniform(target)'
    BY <1>5
  <2>2. \A c \in Components \ todo : target[c] = snapshot[cur.dir].files[c]
    BY <1>1, <1>2, <2>1, HolderKnows DEF HolderAt
  <2>3. PICK c \in todo :
            target' = [target EXCEPT ![c] = snapshot[cur.dir].files[c]] /\ todo' = todo \ {c}
    BY DEF RestoreStep
  <2>4. \A d \in Components : target'[d] = snapshot[cur.dir].files[d]
    BY <2>1, <2>2, <2>3 DEF IInv, TypeOK, InstallTypeOK
  <2>5. Uniform(snapshot[cur.dir].files)
    BY <1>3, <2>1 DEF Journaled, Restorable
  <2> QED BY <2>4, <2>5 DEF Uniform
<1>7. EvidentAt(l)' /\ l \notin {"install", "mark"}
  BY <1>5, <1>6 DEF EvidentAt
<1> QED BY <1>1, <1>2, <1>4, <1>5, <1>7, EvidenceGoesOn

LEMMA RecordFailureEvidence ==
    ASSUME IInv, EvidenceInv, UNCHANGED journal, NEW p \in Procs, NEW from, NEW to,
           RecordFailure(p, from, to),
           \/ from = "rbHealth" /\ to = "rbCheck"
           \/ from = "recHealth" /\ to = "recCheck"
           \/ from = "irState" /\ to = "irJournal"
    PROVE  EvidenceInv'
<1>1. PICK e \in BOOLEAN : (e <=> Journaled) /\ Files(e)
  BY EvidenceKnows
<1>2. FilesInv(e)' /\ UNCHANGED <<target, marker, snapshot>> /\ pc[p] = from /\ pc[p] # "off"
  BY <1>1, RecordFailureFiles DEF RecordFailure
<1>3. PICK l \in {"off", to} : pc' = [pc EXCEPT ![p] = l]
  BY DEF RecordFailure, Exit, Goto
<1>4. p = "worker" /\ from = "irState" => Uniform(target)'
  BY <1>2 DEF EvidenceInv, EvidentAt, Uniform
<1>5. (p = "worker" => EvidentAt(l)') /\ l \notin {"install", "mark"}
  BY <1>3, <1>4 DEF EvidentAt
<1> QED BY <1>1, <1>2, <1>3, <1>5, EvidenceGoesOn

(* The snapshot of a job is taken of one release, and other snapshots and  *)
(* the evidence of the journal stay.                                       *)
LEMMA SnapshotEvidence ==
    ASSUME IInv, EvidenceInv, UNCHANGED <<journal, target>>, NEW p \in Procs, pc[p] = "install",
           snapshot' \in {snapshot, [snapshot EXCEPT ![cur.dir] =
                                       [files |-> target, rel |-> cur.rel]]},
           snapshot[cur.dir] # NoSnapshot => snapshot' = snapshot
    PROVE  /\ Journaled => Journaled'
           /\ \A j \in Jobs : snapshot'[j] # NoSnapshot => Uniform(snapshot[j].files)'
<1> DEFINE s == [files |-> target, rel |-> cur.rel]
<1>1. s.files = target
  OBVIOUS
<1>2. snapshot' \in {snapshot, [snapshot EXCEPT ![cur.dir] = s]}
  OBVIOUS
<1> HIDE DEF s
<1>3. cur.dir \in Dirs /\ (cur.dir \in Jobs => Uniform(target))
  BY EvidenceAt, JobDirsAssumption DEF InstallPC, EvidentAt
<1>4. snapshot \in [Dirs -> Snapshot \cup {NoSnapshot}]
  BY DEF IInv, TypeOK, InstallTypeOK
<1>5. \A d \in Dirs : snapshot'[d] = snapshot[d] \/ (d = cur.dir /\ snapshot'[d] = s /\ snapshot[d] = NoSnapshot)
  BY <1>2, <1>3, <1>4
<1>6. Journaled => Journaled'
  <2>1. journal.phase = "executing" => journal.job \in Dirs
    BY JournalAt, JobDirsAssumption DEF Phase
  <2> QED BY <1>5, <2>1 DEF Journaled, Restorable, Uniform
<1>7. ASSUME NEW j \in Jobs, snapshot'[j] # NoSnapshot
      PROVE  Uniform(snapshot[j].files)'
  <2>1. j \in Dirs /\ (snapshot[j] # NoSnapshot => Uniform(snapshot[j].files))
    BY JobDirsAssumption DEF EvidenceInv
  <2>2. snapshot'[j] = snapshot[j] \/ (snapshot'[j].files = target /\ Uniform(target))
    BY <1>1, <1>3, <1>5, <2>1
  <2>3. CASE snapshot'[j] = snapshot[j]
    BY <1>7, <2>1, <2>3 DEF Uniform
  <2>4. CASE snapshot'[j].files = target /\ Uniform(target)
    BY <2>4 DEF Uniform
  <2> QED BY <2>2, <2>3, <2>4
<1> QED BY <1>6, <1>7

(* An operator who is careful takes no snapshot of half-replaced files     *)
(* unless the journal is evidence of them.                                 *)
LEMMA CarefulSnapshot ==
    ASSUME Careful, IInv, EvidenceInv, NEW p \in Procs, pc[p] = "install",
           snapshot[cur.dir] = NoSnapshot
    PROVE  Journaled \/ marker = NoPlan
<1>1. CASE p = "worker"
  BY <1>1 DEF IInv, MarkerInv
<1>2. CASE p = "manual" /\ OperatorWaits
  BY <1>2 DEF EvidenceInv
<1>3. CASE p = "manual" /\ marker # NoPlan /\ \A d, e \in ManualDirs : d = e
  <2>1. cur.dir \in ManualDirs
    BY <1>3, EvidenceAt DEF InstallPC
  <2>2. snapshot[marker.dir] # NoSnapshot /\ marker.dir \in Jobs \cup ManualDirs
    BY <1>3 DEF IInv, MarkerInv, EvidenceInv
  <2>3. marker.dir \in Jobs
    BY <1>3, <2>1, <2>2
  <2>4. journal.phase = "executing" /\ journal.job = marker.dir
    BY <1>3, <2>3 DEF IInv, MarkerInv
  <2> QED BY <2>2, <2>3, <2>4 DEF Journaled, Restorable, EvidenceInv
<1>4. p \in {"worker", "manual"}
  BY EvidenceAt DEF InstallPC
<1> QED BY <1>1, <1>2, <1>3, <1>4 DEF Careful

LEMMA CreateRollbackEvidence ==
    ASSUME Careful, IInv, EvidenceInv, UNCHANGED journal, NEW p \in Procs, CreateRollback(p)
    PROVE  EvidenceInv'
<1>1. PICK e \in BOOLEAN : (e <=> Journaled) /\ Files(e)
  BY EvidenceKnows
<1>2. /\ pc[p] = "install" /\ pc[p] # "off" /\ UNCHANGED <<target, marker>>
      /\ p = "worker" => Uniform(target)
  BY EvidenceAt DEF CreateRollback, InstallPC, EvidentAt
<1>3. FilesInv(e)'
  BY <1>1, <1>2, CarefulSnapshot, CreateRollbackFiles
<1>4. p = "worker" => \A l \in {"off", "mark", "doneFailed"} : EvidentAt(l)'
  BY <1>2 DEF EvidentAt, Uniform
<1>5. CASE snapshot[cur.dir] = NoSnapshot
  <2>1. /\ Journaled => Journaled'
        /\ \A j \in Jobs : snapshot'[j] # NoSnapshot => Uniform(snapshot[j].files)'
    BY <1>2, <1>5, SnapshotEvidence DEF CreateRollback
  <2>2. pc \in [Procs -> PCs] /\ \A q \in Procs \ {p} : pc[q] = "off"
    BY <1>2, Alone DEF IInv, TypeOK, InstallTypeOK, ProcessInv
  <2>3. pc'[p] = "mark" /\ \A q \in Procs \ {p} : pc'[q] = "off"
    BY <1>5, <2>2 DEF CreateRollback, Goto
  <2>4. /\ marker' # NoPlan => marker'.dir \in Jobs \cup ManualDirs
        /\ OperatorWaits /\ p = "manual" => marker' = NoPlan
    BY <1>2 DEF EvidenceInv
  <2> QED BY <1>1, <1>3, <1>4, <2>1, <2>3, <2>4, EvidenceMoves
<1>6. CASE snapshot[cur.dir] # NoSnapshot
  <2>1. snapshot' = snapshot /\ \E l \in {"off", "doneFailed"} : pc' = [pc EXCEPT ![p] = l]
    BY <1>6 DEF CreateRollback, Return, Exit, Goto
  <2>2. \A l \in {"off", "doneFailed"} : l \notin {"install", "mark"}
    OBVIOUS
  <2> QED BY <1>1, <1>2, <1>3, <1>4, <2>1, <2>2, EvidenceGoesOn
<1> QED BY <1>5, <1>6

LEMMA InstallFailsEvidence ==
    ASSUME Careful, IInv, EvidenceInv, UNCHANGED journal, NEW p \in Procs, InstallFails(p)
    PROVE  EvidenceInv'
<1>1. PICK e \in BOOLEAN : (e <=> Journaled) /\ Files(e)
  BY EvidenceKnows
<1>2. UNCHANGED target /\ pc[p] \in InstallPC /\ pc[p] # "off"
  BY DEF InstallFails, InstallPC
<1>3. FilesInv(e)'
  BY <1>1, CarefulSnapshot, InstallFailsFiles
<1>4. cur.dir \in Jobs \cup ManualDirs /\ (p = "worker" => EvidentAt(pc[p]))
  BY <1>2, EvidenceAt
<1>5. CASE pc[p] = "install"
  <2>1. /\ UNCHANGED marker
        /\ snapshot' \in {snapshot, [snapshot EXCEPT ![cur.dir] =
                                       [files |-> target, rel |-> cur.rel]]}
        /\ snapshot[cur.dir] # NoSnapshot => snapshot' = snapshot
        /\ Return(p, "doneFailed")
    BY <1>5 DEF InstallFails
  <2>2. /\ Journaled => Journaled'
        /\ \A j \in Jobs : snapshot'[j] # NoSnapshot => Uniform(snapshot[j].files)'
    BY <1>2, <1>5, <2>1, SnapshotEvidence
  <2>3. pc \in [Procs -> PCs] /\ \A q \in Procs \ {p} : pc[q] = "off"
    BY <1>2, Alone DEF IInv, TypeOK, InstallTypeOK, ProcessInv
  <2>4. PICK l \in {"off", "doneFailed"} : pc' = [pc EXCEPT ![p] = l]
    BY <2>1 DEF Return, Exit, Goto
  <2>5. pc'[p] = l /\ \A q \in Procs \ {p} : pc'[q] = "off"
    BY <2>3, <2>4
  <2>6. (p = "worker" => EvidentAt(l)') /\ l \notin {"install", "mark"}
    BY <1>2, <1>4, <1>5, <2>4 DEF EvidentAt, Uniform
  <2>7. marker' # NoPlan => marker'.dir \in Jobs \cup ManualDirs
    BY <2>1 DEF EvidenceInv
  <2> QED BY <1>1, <1>3, <2>2, <2>5, <2>6, <2>7, EvidenceMoves
<1>6. CASE pc[p] # "install"
  <2>1. /\ UNCHANGED snapshot
        /\ marker' = marker \/ marker'.dir \in Jobs \cup ManualDirs
    BY <1>4, <1>6 DEF InstallFails
  <2>2. PICK l \in {"off", "doneFailed", "rbRestore"} :
            pc' = [pc EXCEPT ![p] = l] /\ (l = "doneFailed" => pc[p] = "mark")
    BY <1>6 DEF InstallFails, Return, Exit, Goto, StartRollback
  <2>3. (p = "worker" => EvidentAt(l)') /\ l \notin {"install", "mark"}
    BY <1>2, <1>4, <2>2 DEF EvidentAt, Uniform
  <2> QED BY <1>1, <1>2, <1>3, <2>1, <2>2, <2>3, EvidenceGoesOn
<1> QED BY <1>5, <1>6

LEMMA DiesEvidence ==
    ASSUME IInv, EvidenceInv, UNCHANGED journal, NEW p \in Procs, Dies(p)
    PROVE  EvidenceInv'
<1>1. PICK e \in BOOLEAN : (e <=> Journaled) /\ Files(e)
  BY EvidenceKnows
<1>2. /\ FilesInv(e)' /\ UNCHANGED <<marker, snapshot>> /\ pc[p] # "off"
      /\ pc' = [pc EXCEPT ![p] = "off"]
  BY <1>1, DiesFiles DEF Dies, Exit
<1>3. EvidentAt("off")'
  BY DEF EvidentAt
<1> QED BY <1>1, <1>2, <1>3, EvidenceGoesOn

(* A process takes the lock; nothing is changed yet. *)
LEMMA StartEvidence ==
    ASSUME IInv, EvidenceInv, UNCHANGED <<journal, fileVars>>, NEW p \in Procs,
           NEW l \in {"journal", "recRestore", "install"}, Acquire(p, l),
           p = "worker" => l # "install",
           NEW e \in BOOLEAN, e => Journaled, FilesInv(e)',
           OperatorWaits /\ l = "install" => marker = NoPlan
    PROVE  EvidenceInv'
<1>1. /\ pc \in [Procs -> PCs] /\ "none" \notin Procs /\ ExclusiveMutation
      /\ \A j \in Jobs : snapshot[j] # NoSnapshot => Uniform(snapshot[j].files)
      /\ marker # NoPlan => marker.dir \in Jobs \cup ManualDirs
  BY DEF IInv, TypeOK, InstallTypeOK, ProcessInv, Procs, EvidenceInv
<1>2. pc'[p] = l /\ \A q \in Procs \ {p} : pc'[q] = "off"
  BY <1>1 DEF Acquire, ExclusiveMutation
<1>3. \A j \in Jobs : snapshot'[j] # NoSnapshot => Uniform(snapshot[j].files)'
  BY <1>1 DEF Uniform, fileVars
<1>4. (e => Journaled') /\ (p = "worker" => EvidentAt(l)') /\ marker' = marker
  BY DEF Journaled, Restorable, Uniform, EvidentAt, fileVars
<1> QED BY <1>1, <1>2, <1>3, <1>4, EvidenceMoves

(* The steps of installStaged and of recoverPendingUpdate. *)
LEMMA InstallEvidence ==
    ASSUME Careful, IInv, EvidenceInv, UNCHANGED journal, NEW p \in Procs,
           \/ InstallStep(p) \/ RecoveryStep(p)
           \/ RestoreStep(p, "irRestore", "irState")
           \/ RecordFailure(p, "irState", "irJournal")
    PROVE  EvidenceInv'
  BY CreateRollbackEvidence, WriteTransactionEvidence, ApplyComponentEvidence,
     RecordSuccessEvidence, CompletionEvidence, RestoreEvidence, RecordFailureEvidence
     DEF InstallStep, RecoveryStep

LEMMA RecoverMarkerEvidence ==
    ASSUME IInv, EvidenceInv, UNCHANGED journal, NEW p \in Procs, RecoverMarker(p)
    PROVE  EvidenceInv'
<1>1. PICK e \in BOOLEAN : (e <=> Journaled) /\ Files(e)
  BY EvidenceKnows
<1>2. FilesInv(e)' /\ Acquire(p, "recRestore") /\ UNCHANGED fileVars
  BY <1>1, RecoverMarkerFiles DEF RecoverMarker
<1> QED BY <1>1, <1>2, StartEvidence

LEMMA ManualStartEvidence ==
    ASSUME IInv, EvidenceInv, UNCHANGED journal, NEW d \in ManualDirs, NEW rel \in ManualReleases,
           ManualStart(d, rel)
    PROVE  EvidenceInv'
<1>1. PICK e \in BOOLEAN : (e <=> Journaled) /\ Files(e)
  BY EvidenceKnows
<1>2. /\ FilesInv(e)' /\ Acquire("manual", "install") /\ UNCHANGED fileVars
      /\ OperatorWaits => marker = NoPlan
  BY <1>1, ManualStartFiles DEF ManualStart
<1>3. "manual" \in Procs
  BY DEF Procs
<1> QED BY <1>1, <1>2, <1>3, StartEvidence

LEMMA OtherEvidence ==
    ASSUME Careful, IInv, EvidenceInv, OtherProcesses
    PROVE  EvidenceInv'
<1>1. UNCHANGED journal /\ "manual" \in Procs /\ "status" \in Procs
  BY DEF OtherProcesses, workerVars, Procs
<1>2. CASE ManualUpdater
  BY <1>1, <1>2, ManualStartEvidence, InstallEvidence, InstallFailsEvidence, DiesEvidence
     DEF ManualUpdater
<1>3. CASE StatusService
  BY <1>1, <1>3, RecoverMarkerEvidence, InstallEvidence, DiesEvidence
     DEF StatusService, StatusStart
<1> QED BY <1>2, <1>3 DEF OtherProcesses

LEMMA WorkerStartEvidence ==
    ASSUME IInv, EvidenceInv, WorkerStart
    PROVE  EvidenceInv'
<1>1. UNCHANGED journal /\ "worker" \in Procs
  BY DEF WorkerStart, workerVars, Procs
<1>2. CASE RecoverMarker("worker")
  BY <1>1, <1>2, RecoverMarkerEvidence
<1>3. CASE Acquire("worker", "journal") /\ UNCHANGED <<cur, todo, installed>>
  <2>1. PICK e \in BOOLEAN : (e <=> Journaled) /\ Files(e)
    BY EvidenceKnows
  <2>2. UNCHANGED fileVars /\ UNCHANGED <<target, snapshot, marker>>
    BY <1>3 DEF installed, fileVars
  <2>3. HolderAt("journal", e)'
    BY DEF HolderAt, Restored, Marked
  <2>4. FilesInv(e)'
    BY <1>1, <1>3, <2>1, <2>2, <2>3, StartFiles
  <2> QED BY <1>1, <1>3, <2>1, <2>2, <2>4, StartEvidence
<1> QED BY <1>2, <1>3 DEF WorkerStart

(* The worker goes on or ends without touching a file: the journal stays,  *)
(* or is no evidence, or none is needed.                                   *)
LEMMA WorkerEvidence ==
    ASSUME IInv, EvidenceInv, pc["worker"] # "off",
           NEW l \in {"off", "pollWait", "irRestore", "irJournal", "result", "prepared", "pkgWait",
                      "startWait", "install", "resultWait"},
           pc' = [pc EXCEPT !["worker"] = l], UNCHANGED <<target, snapshot, marker>>,
           \/ journal' = journal \/ journal.phase # "executing"
           \/ marker = NoPlan /\ Uniform(target),
           l = "irRestore" => todo' = Components,
           l = "irJournal" => Uniform(target),
           l = "install" => Uniform(target) /\ cur' \in Plan /\ cur' # NoPlan
    PROVE  EvidenceInv'
<1>1. PICK e \in BOOLEAN : (e <=> Journaled) /\ Files(e)
  BY EvidenceKnows
<1>2. /\ pc \in [Procs -> PCs] /\ ExclusiveMutation /\ "worker" \in Procs
      /\ \A j \in Jobs : snapshot[j] # NoSnapshot => Uniform(snapshot[j].files)
      /\ marker # NoPlan => marker.dir \in Jobs \cup ManualDirs
  BY DEF IInv, TypeOK, InstallTypeOK, ProcessInv, Procs, EvidenceInv
<1>3. pc'["worker"] = l /\ \A q \in Procs \ {"worker"} : pc'[q] = "off"
  BY <1>2, Alone
<1>4. \A j \in Jobs : snapshot'[j] # NoSnapshot => Uniform(snapshot[j].files)'
  BY <1>2 DEF Uniform
<1>5. EvidentAt(l)'
  BY DEF EvidentAt, Uniform
<1>6. \A f \in BOOLEAN : HolderAt(l, f)'
  BY DEF HolderAt, Restored, Marked
<1>7. CASE journal' = journal \/ journal.phase # "executing"
  <2>1. FilesInv(e)'
    BY <1>1, <1>2, <1>6, HolderLeaves
  <2>2. e => Journaled'
    BY <1>1, <1>7 DEF Journaled, Restorable, Uniform
  <2> QED BY <1>2, <1>3, <1>4, <1>5, <2>1, <2>2, EvidenceMoves
<1>8. CASE marker = NoPlan /\ Uniform(target)
  <2>1. PICK f \in BOOLEAN : ~f
    OBVIOUS
  <2>2. HolderAt(l, f)' /\ marker' = NoPlan /\ Uniform(target)'
    BY <1>6, <1>8 DEF Uniform
  <2>3. FilesInv(f)'
    BY <1>2, <2>2, HolderMoves
  <2> QED BY <1>2, <1>3, <1>4, <1>5, <2>1, <2>2, <2>3, EvidenceMoves
<1> QED BY <1>7, <1>8

LEMMA ReadJournalEvidence ==
    ASSUME IInv, EvidenceInv, ReadJournal
    PROVE  EvidenceInv'
<1>1. /\ pc["worker"] = "journal" /\ pc["worker"] # "off" /\ marker = NoPlan
      /\ journal' = journal /\ UNCHANGED <<target, snapshot, marker>>
  BY DEF ReadJournal, IInv, MarkerInv, WorkerPC, installed, fileVars
<1>2. journal.phase = "executing" /\ snapshot[journal.job] = NoSnapshot => Uniform(target)
  <2>1. PICK e \in BOOLEAN : (e <=> Journaled) /\ Files(e)
    BY EvidenceKnows
  <2> QED BY <1>1, <2>1 DEF Journaled, Restorable, Files, FilesInv
<1>3. \E l \in {"pollWait", "irRestore", "irJournal", "result", "prepared"} :
          /\ pc' = [pc EXCEPT !["worker"] = l]
          /\ l = "irRestore" => todo' = Components
          /\ l = "irJournal" => Uniform(target)
  BY <1>2 DEF ReadJournal, Goto
<1> QED BY <1>1, <1>3, WorkerEvidence

LEMMA OutcomeEvidence ==
    ASSUME IInv, EvidenceInv, JournalInterrupted \/ JournalOutcome
    PROVE  EvidenceInv'
<1>1. pc["worker"] # "off" /\ UNCHANGED <<target, snapshot, marker>>
  BY DEF JournalInterrupted, JournalOutcome, installed, fileVars
<1>2. marker = NoPlan => Uniform(target)
  BY DEF JournalInterrupted, JournalOutcome, EvidenceInv, EvidentAt
<1>3. JournalInterrupted => marker = NoPlan
  BY DEF JournalInterrupted, IInv, MarkerInv, WorkerPC
<1>4. /\ journal' = journal \/ (marker = NoPlan /\ Uniform(target))
      /\ \E l \in {"off", "result"} : pc' = [pc EXCEPT !["worker"] = l]
  BY <1>2, <1>3 DEF JournalInterrupted, JournalOutcome, Leave, Exit, Goto
<1> QED BY <1>1, <1>4, WorkerEvidence

(* The requests of the worker before and after an execution. *)
LEMMA RequestEvidence ==
    ASSUME IInv, EvidenceInv,
           \/ ReceivePoll \/ CheckWindow \/ ReceivePackage \/ ReportResult \/ ReceiveAck
           \/ ConnectionLost
    PROVE  EvidenceInv'
<1>1. pc["worker"] # "off" /\ UNCHANGED <<target, snapshot, marker>>
  BY DEF ReceivePoll, CheckWindow, ReceivePackage, ReportResult, ReceiveAck, ConnectionLost,
     installed, fileVars
<1>2. journal' = journal \/ journal.phase # "executing"
  <2>1. CASE ReceivePoll
    <3>1. journal = NoJournal /\ NoJournal.phase = "none"
      BY <2>1 DEF ReceivePoll, IInv, JournalInv, NoJournal
    <3> QED BY <3>1
  <2>2. CASE CheckWindow \/ ReceivePackage
    BY <2>2 DEF CheckWindow, ReceivePackage, IInv, JournalInv
  <2>3. CASE ReportResult \/ ReceiveAck \/ ConnectionLost
    BY <2>3 DEF ReportResult, ReceiveAck, ConnectionLost, IInv, JournalInv
  <2> QED BY <2>1, <2>2, <2>3
<1>3. \E l \in {"off", "result", "prepared", "pkgWait", "startWait", "resultWait"} :
          pc' = [pc EXCEPT !["worker"] = l]
  BY DEF ReceivePoll, CheckWindow, ReceivePackage, ReportResult, ReceiveAck, ConnectionLost,
     Leave, Exit, Goto
<1> QED BY <1>1, <1>2, <1>3, WorkerEvidence

LEMMA ReceiveStartEvidence ==
    ASSUME IInv, EvidenceInv, ReceiveStart
    PROVE  EvidenceInv'
<1>1. /\ pc["worker"] = "startWait" /\ pc["worker"] # "off" /\ marker = NoPlan
      /\ journal.phase = "prepared" /\ UNCHANGED <<target, snapshot, marker>>
  BY DEF ReceiveStart, IInv, MarkerInv, JournalInv, WorkerPC, installed, fileVars
<1>2. Uniform(target)
  <2>1. PICK e \in BOOLEAN : (e <=> Journaled) /\ Files(e)
    BY EvidenceKnows
  <2> QED BY <1>1, <2>1 DEF Journaled, Files, FilesInv
<1>3. reply.code = "ok" => state[journal.job] \in Permitted /\ journal.job \in Jobs
  BY <1>1, JournalAt DEF IInv, AgreementInv, Permitted, Phase
<1>4. \E l \in {"off", "install"} :
          /\ pc' = [pc EXCEPT !["worker"] = l]
          /\ l = "install" => cur' \in Plan /\ cur' # NoPlan
  BY <1>3, PlannedRelease DEF ReceiveStart, Leave, Exit, Goto
<1> QED BY <1>1, <1>2, <1>4, WorkerEvidence

(* Steps of the server leave the device alone. *)
LEMMA UntouchedEvidence ==
    ASSUME EvidenceInv, UNCHANGED <<pc, cur, todo, target, snapshot, marker, journal>>
    PROVE  EvidenceInv'
<1>1. PICK e \in BOOLEAN : (e => Journaled) /\ FilesInv(e)
  BY DEF EvidenceInv
<1>2. ASSUME NEW p \in Procs PROVE HolderAt(pc[p], e)'
  <2>1. HolderAt(pc[p], e)
    BY <1>1 DEF FilesInv
  <2>2. Restorable(cur.dir) => Restorable(cur.dir)'
    BY DEF Restorable
  <2>3. QED
    BY <2>1, <2>2 DEF HolderAt
<1>3. /\ marker' = NoPlan => e \/ Uniform(target)'
      /\ marker' # NoPlan => e \/ Restorable(marker.dir)'
      /\ e => Journaled'
  BY <1>1 DEF FilesInv, Journaled, Restorable, Uniform
<1>4. FilesInv(e)'
  BY <1>2, <1>3 DEF FilesInv
<1>5. EvidentAt(pc["worker"])'
  BY DEF EvidenceInv, EvidentAt, Uniform
<1>6. \A j \in Jobs : snapshot'[j] # NoSnapshot => Uniform(snapshot[j].files)'
  BY DEF EvidenceInv, Uniform
<1> QED BY <1>3, <1>4, <1>5, <1>6 DEF EvidenceInv

LEMMA ServerEvidence ==
    ASSUME EvidenceInv,
           \/ Administration \/ \E approved \in SUBSET Releases : ServerRestart(approved)
           \/ \E m \in msgs : Handle(m)
           \/ UNCHANGED vars
    PROVE  EvidenceInv'
<1>1. CASE Administration \/ UNCHANGED vars
  BY <1>1, UntouchedEvidence
     DEF Administration, vars, installVars, localVars, fileVars, workerVars
<1>2. CASE \E approved \in SUBSET Releases : ServerRestart(approved)
  BY <1>2, UntouchedEvidence DEF ServerRestart, localVars, fileVars
<1>3. CASE \E m \in msgs : Handle(m)
  <2>1. UNCHANGED deviceVars
    BY <1>3 DEF Handle, PollRead, PollAnswer, DownloadClientUpdate, Authenticate, HandleStart, HandleResult
  <2> QED BY <2>1, UntouchedEvidence DEF deviceVars, installVars, localVars, fileVars
<1> QED BY <1>1, <1>2, <1>3

LEMMA NextEvidence ==
    ASSUME Careful, IInv, EvidenceInv, [Next]_vars
    PROVE  EvidenceInv'
<1>1. "worker" \in Procs
  BY DEF Procs
<1>2. CASE WorkerStep
  <2>1. WorkerInstall => UNCHANGED journal
    BY DEF WorkerInstall, workerVars
  <2> QED BY <1>1, <1>2, <2>1, ReadJournalEvidence, OutcomeEvidence, RequestEvidence,
          ReceiveStartEvidence, InstallEvidence DEF WorkerStep, WorkerInstall
<1>3. CASE WorkerFault
  BY <1>1, <1>3, DiesEvidence, InstallFailsEvidence DEF WorkerFault, workerVars
<1> QED BY <1>2, <1>3, ServerEvidence, WorkerStartEvidence, OtherEvidence DEF Next

LEMMA InitEvidence ==
    ASSUME Init
    PROVE  EvidenceInv
<1>1. /\ \A p \in Procs : pc[p] = "off"
      /\ marker = NoPlan /\ Uniform(target)
      /\ \A j \in Jobs : snapshot[j] = NoSnapshot
  BY JobDirsAssumption DEF Init, InstallInit, Uniform
<1>2. PICK e \in BOOLEAN : ~e
  OBVIOUS
<1>3. HolderAt("off", e) /\ EvidentAt("off")
  BY DEF HolderAt, Restored, Marked, EvidentAt
<1>4. FilesInv(e) /\ pc["worker"] = "off" /\ pc["manual"] = "off"
  BY <1>1, <1>3 DEF FilesInv, Procs
<1> QED BY <1>1, <1>2, <1>3, <1>4 DEF EvidenceInv

LEMMA EvidenceSeen ==
    ASSUME EvidenceInv
    PROVE  MixedHasEvidence
<1>1. PICK e \in BOOLEAN : (e => Journaled) /\ FilesInv(e)
  BY DEF EvidenceInv
<1> QED BY <1>1 DEF FilesInv, Journaled, Restorable, Uniform, MixedHasEvidence

(* With the worker, half-replaced components always leave a marker or an   *)
(* executing journal whose snapshot restores one release: each process     *)
(* that takes the lock knows from its position what the files hold.        *)
THEOREM EvidenceInvariant ==
    ASSUME Careful
    PROVE  Spec => []EvidenceInv
  BY InitEvidence, NextEvidence, UpdateAgreement, PTL DEF Spec

(* Components of two releases never go unnoticed, through crashes at any   *)
(* step of an installation, a rollback or a recovery.  The operator either *)
(* waits for a pending recovery or installs by hand at most once, because  *)
(* installStaged itself does not look for a marker.                        *)
THEOREM MixAlwaysHasEvidence ==
    ASSUME Careful
    PROVE  Spec => []MixedHasEvidence
  BY EvidenceInvariant, EvidenceSeen, PTL

-----------------------------------------------------------------------------
(* The floor under the installed versions *)

(* No version is above the one in installed-version.json. *)
Floored(files) == \A c \in Components : files[c] <= floor

(* A component above it is one of the release being installed, or of the   *)
(* one whose success is still to be reported.                              *)
Accounted ==
    \A c \in Components :
        \/ target[c] <= floor
        \/ /\ journal.phase \in {"executing", "succeeded"}
           /\ target[c] <= req[journal.job].release

(* What the position of the worker tells. *)
FloorAt(l) ==
    /\ l \in {"install", "mark", "irState", "irJournal", "resultWait"} => Floored(target)
    /\ l = "doneFailed" /\ marker = NoPlan => Floored(target)
    /\ l \in InstallPC => cur.rel = req[journal.job].release
    /\ l = "startWait" => floor < req[journal.job].release

FloorInv ==
    /\ \A j \in Jobs : snapshot[j] # NoSnapshot => Floored(snapshot[j].files)
    /\ Accounted
    /\ journal.phase = "executing" /\ snapshot[journal.job] = NoSnapshot => Floored(target)
    /\ FloorAt(pc["worker"])

LEMMA FloorMoves ==
    ASSUME \A j \in Jobs : snapshot'[j] # NoSnapshot => Floored(snapshot[j].files)',
           Accounted',
           journal'.phase = "executing" /\ snapshot'[journal'.job] = NoSnapshot => Floored(target)',
           NEW p \in Procs, NEW l, pc'[p] = l, \A q \in Procs \ {p} : pc'[q] = "off",
           p = "worker" => FloorAt(l)'
    PROVE  FloorInv'
<1>1. FloorAt("off")'
  BY DEF FloorAt, InstallPC
<1>2. FloorAt(pc["worker"])'
  BY <1>1 DEF Procs
<1> QED BY <1>2 DEF FloorInv

(* The holder goes on; no snapshot is taken, and a component is replaced   *)
(* only after one was.                                                     *)
LEMMA FloorGoesOn ==
    ASSUME IInv, FloorInv, UNCHANGED <<journal, floor, req, snapshot>>,
           NEW p \in Procs, pc[p] # "off", NEW l, pc' = [pc EXCEPT ![p] = l],
           p = "worker" => FloorAt(l)',
           target' = target \/ (Accounted' /\ snapshot[journal.job] # NoSnapshot)
    PROVE  FloorInv'
<1>1. pc \in [Procs -> PCs] /\ \A q \in Procs \ {p} : pc[q] = "off"
  BY Alone DEF IInv, TypeOK, InstallTypeOK, ProcessInv
<1>2. pc'[p] = l /\ \A q \in Procs \ {p} : pc'[q] = "off"
  BY <1>1
<1>3. \A j \in Jobs : snapshot'[j] # NoSnapshot => Floored(snapshot[j].files)'
  BY DEF FloorInv, Floored
<1>4. Accounted'
  BY DEF FloorInv, Accounted
<1>5. journal'.phase = "executing" /\ snapshot'[journal'.job] = NoSnapshot => Floored(target)'
  BY DEF FloorInv, Floored
<1> QED BY <1>2, <1>3, <1>4, <1>5, FloorMoves

(* Without an operator, every installation is one of a job. *)
LEMMA JobHolder ==
    ASSUME ManualDirs = {}, IInv, EvidenceInv, NEW p \in Procs,
           pc[p] \in InstallPC \cup RecoveryPC \cup {"irRestore"}
    PROVE  /\ pc[p] # "off" /\ cur \in Plan /\ cur.dir \in Jobs
           /\ journal.phase = "executing" /\ journal.job = cur.dir
           /\ pc[p] # "install" => snapshot[cur.dir] # NoSnapshot
           /\ pc[p] \in InstallPC \cup {"irRestore"} => p = "worker"
<1>1. /\ cur \in Plan /\ (pc[p] # "install" => snapshot[cur.dir] # NoSnapshot)
      /\ cur.dir \in Jobs => journal.phase = "executing" /\ journal.job = cur.dir
      /\ pc[p] = "irRestore" => p = "worker"
  BY InstallerAt
<1>2. CASE pc[p] \in InstallPC
  BY <1>1, <1>2, EvidenceAt
<1>3. CASE pc[p] \in RecoveryPC
  <2>1. marker # NoPlan /\ cur = marker
    BY <1>3 DEF IInv, MarkerInv
  <2> QED BY <1>1, <1>3, <2>1 DEF EvidenceInv, RecoveryPC, InstallPC
<1>4. CASE pc[p] = "irRestore"
  <2>1. journal.phase = "executing" /\ cur.dir = journal.job
    BY <1>1, <1>4 DEF IInv, JournalInv
  <2> QED BY <1>1, <1>4, <2>1, JournalAt DEF Phase
<1> QED BY <1>2, <1>3, <1>4

LEMMA WriteTransactionFloor ==
    ASSUME ManualDirs = {}, IInv, EvidenceInv, FloorInv, UNCHANGED <<journal, floor, req>>,
           NEW p \in Procs, WriteUpdateTransaction(p)
    PROVE  FloorInv'
<1>1. pc[p] = "mark" /\ p = "worker" /\ UNCHANGED <<target, snapshot, cur>>
  BY JobHolder DEF WriteUpdateTransaction, InstallPC
<1>2. FloorAt("mark")
  BY <1>1 DEF FloorInv
<1>3. \E l \in {"off", "apply", "doneFailed"} : pc' = [pc EXCEPT ![p] = l]
  BY DEF WriteUpdateTransaction, Return, Exit, Goto
<1>4. \A l \in {"off", "apply", "doneFailed"} : FloorAt(l)'
  BY <1>1, <1>2 DEF FloorAt, Floored, InstallPC
<1> QED BY <1>1, <1>3, <1>4, FloorGoesOn

LEMMA ApplyComponentFloor ==
    ASSUME ManualDirs = {}, IInv, EvidenceInv, FloorInv, UNCHANGED <<journal, floor, req>>,
           NEW p \in Procs, ApplyComponent(p)
    PROVE  FloorInv'
<1>1. /\ pc[p] = "apply" /\ p = "worker" /\ UNCHANGED <<snapshot, cur>>
      /\ journal.phase = "executing" /\ snapshot[journal.job] # NoSnapshot
      /\ cur.rel = req[journal.job].release /\ cur \in Plan
  BY JobHolder DEF ApplyComponent, InstallPC, FloorInv, FloorAt
<1>2. PICK c \in todo : target' = [target EXCEPT ![c] = cur.rel]
  BY DEF ApplyComponent
<1>3. cur.rel <= cur.rel
  BY <1>1, PlanRelease, LeqReflexive
<1>4. Accounted'
  <2>1. \A d \in Components : target'[d] = target[d] \/ target'[d] = cur.rel
    BY <1>2 DEF IInv, TypeOK, InstallTypeOK
  <2> QED BY <1>1, <1>3, <2>1 DEF Accounted, FloorInv
<1>5. \E l \in {"apply", "health"} : pc' = [pc EXCEPT ![p] = l]
  <2>1. [pc EXCEPT ![p] = "apply"] = pc
    BY <1>1 DEF IInv, TypeOK, InstallTypeOK
  <2> QED BY <2>1 DEF ApplyComponent, Goto
<1>6. \A l \in {"apply", "health"} : FloorAt(l)'
  BY <1>1 DEF FloorAt
<1> QED BY <1>1, <1>4, <1>5, <1>6, FloorGoesOn

(* The recorded outcome and the end of an installation or of a recovery. *)
LEMMA RecordSuccessFloor ==
    ASSUME ManualDirs = {}, IInv, EvidenceInv, FloorInv, UNCHANGED <<journal, floor, req>>,
           NEW p \in Procs, RecordSuccess(p)
    PROVE  FloorInv'
<1>1. /\ pc[p] = "health" /\ p = "worker" /\ UNCHANGED <<target, snapshot, cur>>
      /\ cur.rel = req[journal.job].release
  BY JobHolder DEF RecordSuccess, InstallPC, FloorInv, FloorAt
<1>2. \E l \in {"rbRestore", "check"} : pc' = [pc EXCEPT ![p] = l]
  BY DEF RecordSuccess, StartRollback, Goto
<1>3. \A l \in {"rbRestore", "check"} : FloorAt(l)'
  BY <1>1 DEF FloorAt
<1> QED BY <1>1, <1>2, <1>3, FloorGoesOn

(* What a restoration has put back is not above the floor. *)
LEMMA RestoredFloor ==
    ASSUME ManualDirs = {}, IInv, EvidenceInv, FloorInv, NEW p \in Procs,
           pc[p] \in Restored \cup {"rbRestore", "recRestore", "irRestore"}
    PROVE  /\ Floored(snapshot[cur.dir].files)
           /\ \A c \in Components :
                 pc[p] \in Restored \/ c \notin todo => target[c] = snapshot[cur.dir].files[c]
<1>1. pc[p] \in InstallPC \cup RecoveryPC \cup {"irRestore"} /\ pc[p] # "install"
  BY DEF Restored, InstallPC, RecoveryPC
<1>2. Floored(snapshot[cur.dir].files)
  BY <1>1, JobHolder DEF FloorInv
<1>3. PICK e \in BOOLEAN : (e <=> Journaled) /\ Files(e)
  BY EvidenceKnows
<1>4. HolderAt(pc[p], e)
  BY <1>3, HolderKnows
<1> QED BY <1>2, <1>4 DEF HolderAt

LEMMA CompletionFloor ==
    ASSUME ManualDirs = {}, IInv, EvidenceInv, FloorInv, UNCHANGED <<journal, floor, req>>,
           NEW p \in Procs, CompleteInstall(p) \/ CompleteRollback(p) \/ CompleteRecovery(p)
    PROVE  FloorInv'
<1>1. pc[p] # "off" /\ UNCHANGED <<target, snapshot>>
  BY DEF CompleteInstall, CompleteRollback, CompleteRecovery
<1>2. CompleteRollback(p) => Floored(target)
  <2>1. SUFFICES ASSUME pc[p] = "rbCheck" PROVE Floored(target)
    BY DEF CompleteRollback
  <2> QED BY <2>1, RestoredFloor DEF Restored, Floored
<1>3. PICK l \in {"off", "doneOk", "doneFailed", "journal"} :
          pc' = [pc EXCEPT ![p] = l] /\ (l = "doneFailed" => Floored(target))
  BY <1>2 DEF CompleteInstall, CompleteRollback, CompleteRecovery, Return, Exit, Goto
<1>4. FloorAt(l)'
  BY <1>1, <1>3 DEF FloorAt, Floored, InstallPC
<1> QED BY <1>1, <1>3, <1>4, FloorGoesOn

LEMMA RestoreFloor ==
    ASSUME ManualDirs = {}, IInv, EvidenceInv, FloorInv, UNCHANGED <<journal, floor, req>>,
           NEW p \in Procs, NEW from, NEW to, RestoreStep(p, from, to),
           \/ from = "rbRestore" /\ to = "rbHealth"
           \/ from = "recRestore" /\ to = "recHealth"
           \/ from = "irRestore" /\ to = "irState"
    PROVE  FloorInv'
<1>1. /\ pc[p] = from /\ from # "off" /\ UNCHANGED <<snapshot, cur>>
      /\ from \in InstallPC \cup RecoveryPC \cup {"irRestore"} /\ from # "install"
      /\ from \in InstallPC <=> from = "rbRestore"
  BY DEF RestoreStep, InstallPC, RecoveryPC
<1>2. /\ snapshot[journal.job] # NoSnapshot
      /\ from \in InstallPC => p = "worker"
  BY <1>1, JobHolder
<1>3. /\ Floored(snapshot[cur.dir].files)
      /\ \A c \in Components \ todo : target[c] = snapshot[cur.dir].files[c]
  BY <1>1, RestoredFloor
<1>4. PICK c \in todo :
          target' = [target EXCEPT ![c] = snapshot[cur.dir].files[c]] /\ todo' = todo \ {c}
  BY DEF RestoreStep
<1>5. \A d \in Components : \/ target'[d] = target[d] /\ d # c
                            \/ target'[d] = snapshot[cur.dir].files[d]
  BY <1>4 DEF IInv, TypeOK, InstallTypeOK
<1>6. Accounted'
  BY <1>3, <1>5 DEF Accounted, FloorInv, Floored
<1>7. todo' = {} => Floored(target)'
  BY <1>3, <1>4, <1>5 DEF Floored
<1>8. PICK l \in {from, to} : pc' = [pc EXCEPT ![p] = l] /\ (l = to => todo' = {})
  <2>1. [pc EXCEPT ![p] = from] = pc
    BY <1>1 DEF IInv, TypeOK, InstallTypeOK
  <2> QED BY <2>1 DEF RestoreStep, Goto
<1>9. p = "worker" => FloorAt(l)'
  <2>1. from = "rbRestore" /\ p = "worker" => cur.rel = req[journal.job].release
    BY <1>1 DEF FloorInv, FloorAt, InstallPC
  <2> QED BY <1>1, <1>7, <1>8, <2>1 DEF FloorAt, InstallPC
<1> QED BY <1>1, <1>2, <1>6, <1>8, <1>9, FloorGoesOn

LEMMA RecordFailureFloor ==
    ASSUME IInv, FloorInv, UNCHANGED <<journal, floor, req>>,
           NEW p \in Procs, NEW from, NEW to, RecordFailure(p, from, to),
           \/ from = "rbHealth" /\ to = "rbCheck"
           \/ from = "recHealth" /\ to = "recCheck"
           \/ from = "irState" /\ to = "irJournal"
    PROVE  FloorInv'
<1>1. pc[p] = from /\ from # "off" /\ UNCHANGED <<target, snapshot, cur>>
  BY DEF RecordFailure
<1>2. PICK l \in {"off", to} : pc' = [pc EXCEPT ![p] = l]
  BY DEF RecordFailure, Exit, Goto
<1>3. p = "worker" => FloorAt(from)
  BY <1>1 DEF FloorInv
<1>4. p = "worker" => FloorAt(l)'
  BY <1>1, <1>2, <1>3 DEF FloorAt, Floored, InstallPC
<1> QED BY <1>1, <1>2, <1>4, FloorGoesOn

LEMMA DiesFloor ==
    ASSUME IInv, FloorInv, UNCHANGED <<journal, floor, req>>, NEW p \in Procs, Dies(p)
    PROVE  FloorInv'
<1>1. pc[p] # "off" /\ pc' = [pc EXCEPT ![p] = "off"] /\ UNCHANGED <<target, snapshot>>
  BY DEF Dies, Exit
<1>2. FloorAt("off")'
  BY DEF FloorAt, InstallPC
<1> QED BY <1>1, <1>2, FloorGoesOn

(* A snapshot that may be taken, of versions the floor covers. *)
LEMMA SnapshotFloor ==
    ASSUME ManualDirs = {}, IInv, EvidenceInv, FloorInv, UNCHANGED <<journal, floor, req, target, cur>>,
           NEW p \in Procs, pc[p] = "install",
           snapshot' \in {snapshot, [snapshot EXCEPT ![cur.dir] =
                                       [files |-> target, rel |-> cur.rel]]},
           NEW l \in {"off", "mark", "doneFailed"}, pc' = [pc EXCEPT ![p] = l]
    PROVE  FloorInv'
<1> DEFINE s == [files |-> target, rel |-> cur.rel]
<1>1. s.files = target
  OBVIOUS
<1>2. snapshot' \in {snapshot, [snapshot EXCEPT ![cur.dir] = s]}
  OBVIOUS
<1> HIDE DEF s
<1>3. /\ p = "worker" /\ Floored(target) /\ cur.rel = req[journal.job].release
      /\ pc \in [Procs -> PCs] /\ \A q \in Procs \ {p} : pc[q] = "off"
      /\ snapshot \in [Dirs -> Snapshot \cup {NoSnapshot}]
  <2>1. "install" \in InstallPC /\ "install" # "off"
    BY DEF InstallPC
  <2>2. p = "worker"
    BY <2>1, JobHolder
  <2>3. FloorAt("install")
    BY <2>2 DEF FloorInv
  <2> QED BY <2>1, <2>2, <2>3, Alone DEF IInv, TypeOK, InstallTypeOK, ProcessInv, FloorAt
<1>4. pc'[p] = l /\ \A q \in Procs \ {p} : pc'[q] = "off"
  BY <1>3
<1>5. Floored(target)' /\ Accounted'
  BY <1>3 DEF Floored, Accounted
<1>6. ASSUME NEW j \in Jobs, snapshot'[j] # NoSnapshot
      PROVE  Floored(snapshot[j].files)'
  <2>1. j \in Dirs
    BY JobDirsAssumption
  <2>2. snapshot'[j] = snapshot[j] \/ snapshot'[j].files = target
    BY <1>1, <1>2, <1>3, <2>1
  <2>3. CASE snapshot'[j] = snapshot[j]
    BY <1>6, <2>3 DEF Floored, FloorInv
  <2>4. CASE snapshot'[j].files = target
    BY <1>3, <2>4 DEF Floored
  <2> QED BY <2>2, <2>3, <2>4
<1>7. FloorAt(l)'
  BY <1>3, <1>5 DEF FloorAt
<1> QED BY <1>4, <1>5, <1>6, <1>7, FloorMoves

LEMMA CreateRollbackFloor ==
    ASSUME ManualDirs = {}, IInv, EvidenceInv, FloorInv, UNCHANGED <<journal, floor, req>>,
           NEW p \in Procs, CreateRollback(p)
    PROVE  FloorInv'
<1>1. /\ pc[p] = "install" /\ UNCHANGED <<target, cur>>
      /\ snapshot' \in {snapshot, [snapshot EXCEPT ![cur.dir] =
                                     [files |-> target, rel |-> cur.rel]]}
  BY DEF CreateRollback
<1>2. \E l \in {"off", "mark", "doneFailed"} : pc' = [pc EXCEPT ![p] = l]
  BY DEF CreateRollback, Return, Exit, Goto
<1> QED BY <1>1, <1>2, SnapshotFloor

LEMMA InstallFailsFloor ==
    ASSUME ManualDirs = {}, IInv, EvidenceInv, FloorInv, UNCHANGED <<journal, floor, req>>,
           NEW p \in Procs, InstallFails(p)
    PROVE  FloorInv'
<1>1. CASE pc[p] = "install"
  <2>1. /\ UNCHANGED <<target, cur>> /\ Return(p, "doneFailed")
        /\ snapshot' \in {snapshot, [snapshot EXCEPT ![cur.dir] =
                                       [files |-> target, rel |-> cur.rel]]}
    BY <1>1 DEF InstallFails
  <2>2. \E l \in {"off", "mark", "doneFailed"} : pc' = [pc EXCEPT ![p] = l]
    BY <2>1 DEF Return, Exit, Goto
  <2> QED BY <1>1, <2>1, <2>2, SnapshotFloor
<1>2. CASE pc[p] \in {"mark", "apply", "health", "check"}
  <2>1. p = "worker" /\ FloorAt(pc[p]) /\ UNCHANGED <<target, snapshot, cur>>
    BY <1>2, JobHolder DEF InstallFails, InstallPC, FloorInv
  <2>2. PICK l \in {"off", "doneFailed", "rbRestore"} :
            pc' = [pc EXCEPT ![p] = l] /\ (l # "rbRestore" => pc[p] = "mark")
    BY <1>2 DEF InstallFails, Return, Exit, Goto, StartRollback
  <2>3. FloorAt(l)'
    BY <1>2, <2>1, <2>2 DEF FloorAt, Floored, InstallPC
  <2> QED BY <1>2, <2>1, <2>2, <2>3, FloorGoesOn
<1> QED BY <1>1, <1>2 DEF InstallFails

(* A process that takes the lock. *)
LEMMA StartFloor ==
    ASSUME IInv, FloorInv, UNCHANGED <<journal, floor, req, snapshot, target>>,
           NEW p \in Procs, NEW l \in {"recRestore", "journal"}, Acquire(p, l)
    PROVE  FloorInv'
<1>1. pc \in [Procs -> PCs] /\ \A q \in Procs : pc[q] = "off"
  BY DEF IInv, TypeOK, InstallTypeOK, ProcessInv, ExclusiveMutation, Acquire, Procs
<1>2. pc'[p] = l /\ \A q \in Procs \ {p} : pc'[q] = "off"
  BY <1>1 DEF Acquire
<1>3. \A j \in Jobs : snapshot'[j] # NoSnapshot => Floored(snapshot[j].files)'
  BY DEF FloorInv, Floored
<1>4. Accounted'
  BY DEF FloorInv, Accounted
<1>5. journal'.phase = "executing" /\ snapshot'[journal'.job] = NoSnapshot => Floored(target)'
  BY DEF FloorInv, Floored
<1>6. FloorAt(l)'
  BY DEF FloorAt, InstallPC
<1> QED BY <1>2, <1>3, <1>4, <1>5, <1>6, FloorMoves

(* The steps of the transaction, by whichever process. *)
LEMMA InstallFloor ==
    ASSUME ManualDirs = {}, IInv, EvidenceInv, FloorInv, UNCHANGED <<journal, floor, req>>,
           NEW p \in Procs,
           \/ InstallStep(p) \/ RecoveryStep(p) \/ InstallFails(p) \/ Dies(p)
           \/ RecoverMarker(p)
           \/ RestoreStep(p, "irRestore", "irState")
           \/ RecordFailure(p, "irState", "irJournal")
    PROVE  FloorInv'
<1>1. CASE InstallStep(p)
  BY <1>1, CreateRollbackFloor, WriteTransactionFloor, ApplyComponentFloor,
     RecordSuccessFloor, CompletionFloor, RestoreFloor, RecordFailureFloor DEF InstallStep
<1>2. CASE RecoveryStep(p)
  BY <1>2, CompletionFloor, RestoreFloor, RecordFailureFloor DEF RecoveryStep
<1>3. CASE RecoverMarker(p)
  <2>1. Acquire(p, "recRestore") /\ UNCHANGED <<snapshot, target>>
    BY <1>3 DEF RecoverMarker, fileVars
  <2> QED BY <2>1, StartFloor
<1> QED BY <1>1, <1>2, <1>3, InstallFailsFloor, DiesFloor, RestoreFloor, RecordFailureFloor

LEMMA OtherFloor ==
    ASSUME ManualDirs = {}, IInv, EvidenceInv, FloorInv, OtherProcesses
    PROVE  FloorInv'
<1>1. UNCHANGED <<journal, floor, req>>
  BY DEF OtherProcesses, serverVars, workerVars
<1>2. ~ \E d \in ManualDirs, rel \in ManualReleases : ManualStart(d, rel)
  OBVIOUS
<1> QED BY <1>1, <1>2, InstallFloor
        DEF OtherProcesses, ManualUpdater, StatusService, StatusStart, Procs

LEMMA WorkerStartFloor ==
    ASSUME ManualDirs = {}, IInv, EvidenceInv, FloorInv, WorkerStart
    PROVE  FloorInv'
<1>1. UNCHANGED <<journal, floor, req>> /\ "worker" \in Procs
  BY DEF WorkerStart, serverVars, workerVars, Procs
<1>2. CASE RecoverMarker("worker")
  BY <1>1, <1>2, InstallFloor
<1>3. CASE Acquire("worker", "journal") /\ UNCHANGED installed
  <2>1. UNCHANGED <<snapshot, target>>
    BY <1>3 DEF installed, fileVars
  <2> QED BY <1>1, <1>3, <2>1, StartFloor
<1> QED BY <1>2, <1>3 DEF WorkerStart

(* The worker goes on and perhaps rewrites its journal or raises the floor. *)
LEMMA FloorRises ==
    ASSUME IInv, FloorInv, UNCHANGED <<req, snapshot, target>>, floor' \in Nat, floor <= floor',
           pc["worker"] # "off", NEW l, pc' = [pc EXCEPT !["worker"] = l], FloorAt(l)',
           \/ Floored(target)
           \/ Floored(target)'
           \/ /\ journal.phase = "executing" /\ floor' = floor
              /\ journal'.phase = "succeeded" /\ journal'.job = journal.job
    PROVE  FloorInv'
<1>1. "worker" \in Procs /\ pc \in [Procs -> PCs] /\ \A q \in Procs \ {"worker"} : pc[q] = "off"
  BY Alone DEF IInv, TypeOK, InstallTypeOK, ProcessInv, Procs
<1>2. pc'["worker"] = l /\ \A q \in Procs \ {"worker"} : pc'[q] = "off"
  BY <1>1
<1>3. ASSUME NEW files \in [Components -> Nat], Floored(files)
      PROVE  \A c \in Components : files[c] <= floor'
  <2>1. SUFFICES ASSUME NEW c \in Components PROVE files[c] <= floor'
    OBVIOUS
  <2>2. files[c] \in Nat /\ floor \in Nat /\ files[c] <= floor
    BY <1>3, <2>1 DEF Floored, IInv, TypeOK
  <2> QED BY <2>2, LeqTransitive
<1>4. ASSUME NEW j \in Jobs, snapshot'[j] # NoSnapshot
      PROVE  Floored(snapshot[j].files)'
  <2>1. snapshot[j] \in Snapshot
    BY <1>4, JobDirsAssumption DEF IInv, TypeOK, InstallTypeOK
  <2>2. snapshot[j].files \in [Components -> Nat] /\ Floored(snapshot[j].files)
    BY <1>4, <2>1 DEF Snapshot, FloorInv
  <2> QED BY <1>3, <2>2 DEF Floored
<1>5. Floored(target) => Floored(target)'
  BY <1>3 DEF Floored, IInv, TypeOK, InstallTypeOK
<1>6. Accounted'
  BY <1>5 DEF Accounted, Floored, FloorInv
<1>7. journal'.phase = "executing" => Floored(target)'
  BY <1>5
<1> QED BY <1>1, <1>2, <1>4, <1>6, <1>7, FloorMoves

(* No component is above the floor unless an execution may have put it there. *)
LEMMA FlooredUnless ==
    ASSUME FloorInv, journal.phase \notin {"executing", "succeeded"}
    PROVE  Floored(target)
  BY DEF FloorInv, Accounted, Floored

LEMMA FloorIsNat ==
    ASSUME IInv
    PROVE  /\ floor \in Nat /\ floor <= floor
           /\ InstalledVersion \in Nat /\ floor <= InstalledVersion
<1>1. floor \in Nat /\ updateState.rel \in Nat
  BY DEF IInv, TypeOK, InstallTypeOK
<1> QED BY <1>1, LeqReflexive, LessOrLeq DEF InstalledVersion

LEMMA ReadJournalFloor ==
    ASSUME IInv, FloorInv, ReadJournal
    PROVE  FloorInv'
<1>1. /\ pc["worker"] # "off" /\ "worker" \in Procs
      /\ UNCHANGED <<journal, floor, req, snapshot, target>>
  BY DEF ReadJournal, serverVars, installed, fileVars, Procs
<1>2. journal.phase = "executing" /\ snapshot[journal.job] = NoSnapshot => Floored(target)
  BY DEF FloorInv
<1>3. PICK l \in {"pollWait", "irRestore", "irJournal", "result", "prepared"} :
          pc' = [pc EXCEPT !["worker"] = l] /\ (l = "irJournal" => Floored(target))
  BY <1>2 DEF ReadJournal, Goto
<1>4. FloorAt(l)'
  BY <1>1, <1>3 DEF FloorAt, Floored, InstallPC
<1> QED BY <1>1, <1>3, <1>4, FloorGoesOn

LEMMA OutcomeFloor ==
    ASSUME IInv, FloorInv, JournalInterrupted \/ JournalOutcome
    PROVE  FloorInv'
<1>1. /\ pc["worker"] # "off" /\ "worker" \in Procs
      /\ UNCHANGED <<floor, req, snapshot, target>> /\ floor' \in Nat /\ floor <= floor'
  BY FloorIsNat
     DEF JournalInterrupted, JournalOutcome, serverVars, installed, fileVars, Procs
<1>2. \A l \in {"off", "result"} : FloorAt(l)'
  BY DEF FloorAt, InstallPC
<1>3. CASE JournalInterrupted
  <2>1. Floored(target) /\ pc' = [pc EXCEPT !["worker"] = "result"]
    BY <1>3 DEF JournalInterrupted, FloorInv, FloorAt, Goto
  <2> QED BY <1>1, <1>2, <2>1, FloorRises
<1>4. CASE JournalOutcome /\ marker # NoPlan
  <2>1. pc' = [pc EXCEPT !["worker"] = "off"] /\ UNCHANGED journal
    BY <1>4 DEF JournalOutcome, Leave, Exit
  <2> QED BY <1>1, <1>2, <2>1, FloorGoesOn
<1>5. CASE JournalOutcome /\ marker = NoPlan
  <2>1. pc' = [pc EXCEPT !["worker"] = "result"] /\ journal.phase = "executing"
    BY <1>5 DEF JournalOutcome, Goto, IInv, JournalInv
  <2>2. CASE pc["worker"] = "doneOk"
    <3>1. journal' = [job |-> journal.job, phase |-> "succeeded", rb |-> Rollback(journal.job)]
      BY <1>5, <2>2 DEF JournalOutcome, Write
    <3>2. journal'.phase = "succeeded" /\ journal'.job = journal.job
      BY <3>1
    <3> QED BY <1>1, <1>2, <2>1, <3>2, FloorRises
  <2>3. CASE pc["worker"] = "doneFailed"
    <3>1. Floored(target)
      BY <1>5, <2>3 DEF FloorInv, FloorAt
    <3> QED BY <1>1, <1>2, <2>1, <3>1, FloorRises
  <2> QED BY <1>5, <2>2, <2>3 DEF JournalOutcome
<1> QED BY <1>3, <1>4, <1>5

LEMMA ForgettingFloor ==
    ASSUME IInv, FloorInv, ReceivePoll \/ CheckWindow \/ ReceiveAck \/ ConnectionLost
    PROVE  FloorInv'
<1>1. /\ pc["worker"] # "off" /\ "worker" \in Procs
      /\ UNCHANGED <<floor, req, snapshot, target>> /\ floor' \in Nat /\ floor <= floor'
  BY FloorIsNat DEF ReceivePoll, CheckWindow, ReceiveAck, ConnectionLost, serverVars,
     installed, fileVars, Procs
<1>2. UNCHANGED journal \/ Floored(target)
  <2>1. CASE ReceivePoll
    <3>1. journal = NoJournal /\ NoJournal.phase = "none"
      BY <2>1 DEF ReceivePoll, IInv, JournalInv, NoJournal
    <3> QED BY <3>1, FlooredUnless
  <2>2. CASE CheckWindow
    <3>1. journal.phase = "prepared"
      BY <2>2 DEF CheckWindow, IInv, JournalInv
    <3> QED BY <3>1, FlooredUnless
  <2>3. CASE ReceiveAck
    BY <2>3 DEF ReceiveAck, FloorInv, FloorAt
  <2>4. CASE ConnectionLost
    BY <2>4 DEF ConnectionLost
  <2> QED BY <2>1, <2>2, <2>3, <2>4
<1>3. PICK l \in {"off", "result", "prepared", "pkgWait"} : pc' = [pc EXCEPT !["worker"] = l]
  BY DEF ReceivePoll, CheckWindow, ReceiveAck, ConnectionLost, Leave, Exit, Goto
<1>4. FloorAt(l)'
  BY <1>3 DEF FloorAt, InstallPC
<1>5. CASE UNCHANGED journal
  BY <1>1, <1>3, <1>4, <1>5, FloorGoesOn
<1>6. CASE Floored(target)
  BY <1>1, <1>3, <1>4, <1>6, FloorRises
<1> QED BY <1>2, <1>5, <1>6

(* The floor that a package must exceed covers what is installed. *)
LEMMA ReceivePackageFloor ==
    ASSUME IInv, FloorInv, ReceivePackage
    PROVE  FloorInv'
<1>1. /\ pc["worker"] = "pkgWait" /\ pc["worker"] # "off"
      /\ UNCHANGED <<req, snapshot, target>> /\ journal.phase = "prepared"
  BY DEF ReceivePackage, serverVars, installed, fileVars, IInv, JournalInv
<1>2. Floored(target)
  BY <1>1, FlooredUnless
<1>3. floor' \in Nat /\ floor <= floor'
  BY FloorIsNat DEF ReceivePackage
<1>4. CASE pc' = [pc EXCEPT !["worker"] = "off"]
  <2>1. FloorAt("off")'
    BY DEF FloorAt, InstallPC
  <2> QED BY <1>1, <1>2, <1>3, <1>4, <2>1, FloorRises
<1>5. CASE /\ pc' = [pc EXCEPT !["worker"] = "startWait"]
           /\ UNCHANGED journal /\ floor' = InstalledVersion
           /\ InstalledVersion < req[journal.job].release
  <2>1. FloorAt("startWait")'
    BY <1>1, <1>5 DEF FloorAt, InstallPC
  <2> QED BY <1>1, <1>2, <1>3, <1>5, <2>1, FloorRises
<1> QED BY <1>4, <1>5 DEF ReceivePackage, Leave, Exit, Goto

LEMMA ReceiveStartFloor ==
    ASSUME IInv, FloorInv, ReceiveStart
    PROVE  FloorInv'
<1>1. /\ pc["worker"] = "startWait" /\ pc["worker"] # "off" /\ journal.phase = "prepared"
      /\ UNCHANGED <<floor, req, snapshot, target>> /\ floor' \in Nat /\ floor <= floor'
  BY FloorIsNat
     DEF ReceiveStart, serverVars, installed, fileVars, IInv, JournalInv
<1>2. Floored(target)
  BY <1>1, FlooredUnless
<1>3. CASE pc' = [pc EXCEPT !["worker"] = "off"]
  <2>1. FloorAt("off")'
    BY DEF FloorAt, InstallPC
  <2> QED BY <1>1, <1>2, <1>3, <2>1, FloorRises
<1>4. CASE /\ pc' = [pc EXCEPT !["worker"] = "install"]
           /\ journal' = [journal EXCEPT !.phase = "executing"]
           /\ cur' = [dir |-> journal.job, rel |-> req[journal.job].release]
  <2>1. journal \in Journal
    BY <1>1, JournalAt DEF Phase
  <2>2. journal'.job = journal.job /\ cur'.rel = req[journal.job].release
    BY <1>4, <2>1 DEF Journal
  <2>3. FloorAt("install")'
    BY <1>1, <1>2, <2>2 DEF FloorAt, Floored
  <2> QED BY <1>1, <1>2, <1>4, <2>3, FloorRises
<1> QED BY <1>3, <1>4 DEF ReceiveStart, Leave, Exit, Goto

LEMMA ReportResultFloor ==
    ASSUME IInv, FloorInv, ReportResult
    PROVE  FloorInv'
<1>1. /\ pc["worker"] = "result" /\ pc["worker"] # "off"
      /\ UNCHANGED <<req, snapshot, target, journal>>
      /\ pc' = [pc EXCEPT !["worker"] = "resultWait"]
      /\ journal.phase \in {"succeeded", "failed"}
  BY DEF ReportResult, serverVars, installed, fileVars, IInv, JournalInv, Goto
<1>2. /\ floor \in Nat /\ InstalledVersion \in Nat /\ floor <= InstalledVersion
      /\ target \in [Components -> Nat] /\ req[journal.job].release \in Nat
  <2>1. journal.job \in Jobs /\ state[journal.job] \in Permitted
    BY <1>1, JournalAt DEF IInv, AgreementInv, Phase
  <2> QED BY <2>1, FloorIsNat, KnownRelease DEF IInv, TypeOK, InstallTypeOK
<1>3. floor' = IF journal.phase # "succeeded" THEN floor
               ELSE IF InstalledVersion < req[journal.job].release
                      THEN req[journal.job].release ELSE InstalledVersion
  BY DEF ReportResult
<1>4. /\ floor' \in Nat /\ floor <= floor'
      /\ journal.phase = "succeeded" => req[journal.job].release <= floor'
  <2>1. CASE journal.phase # "succeeded"
    BY <1>2, <1>3, <2>1, LeqReflexive
  <2>2. CASE journal.phase = "succeeded" /\ InstalledVersion < req[journal.job].release
    <3>1. floor' = req[journal.job].release
      BY <1>3, <2>2
    <3>2. InstalledVersion <= req[journal.job].release
      BY <1>2, <2>2, LessOrLeq
    <3>3. floor <= req[journal.job].release
      BY <1>2, <3>2, LeqTransitive
    <3>4. QED
      BY <1>2, <3>1, <3>3, LeqReflexive
  <2>3. CASE journal.phase = "succeeded" /\ ~(InstalledVersion < req[journal.job].release)
    BY <1>2, <1>3, <2>3, LessOrLeq
  <2>4. QED
    BY <2>1, <2>2, <2>3
<1>5. Floored(target)'
  <2>1. SUFFICES ASSUME NEW c \in Components PROVE target[c] <= floor'
    BY <1>1 DEF Floored
  <2>2. \/ target[c] <= floor
        \/ journal.phase = "succeeded" /\ target[c] <= req[journal.job].release
    BY <1>1, <2>1 DEF FloorInv, Accounted
  <2>3. target[c] \in Nat
    BY <1>2
  <2> QED BY <1>2, <1>4, <2>2, <2>3, LeqTransitive
<1>6. FloorAt("resultWait")'
  BY <1>5 DEF FloorAt, InstallPC
<1> QED BY <1>1, <1>4, <1>5, <1>6, FloorRises

(* Steps of the server leave the device and the jobs in the table alone. *)
LEMMA UntouchedFloor ==
    ASSUME IInv, FloorInv, UNCHANGED <<pc, cur, target, snapshot, marker, journal, floor>>,
           journal.phase \in {"prepared", "executing", "succeeded"} =>
               req'[journal.job] = req[journal.job]
    PROVE  FloorInv'
<1>1. /\ \A j \in Jobs : snapshot'[j] # NoSnapshot => Floored(snapshot[j].files)'
      /\ journal'.phase = "executing" /\ snapshot'[journal'.job] = NoSnapshot => Floored(target)'
  BY DEF FloorInv, Floored
<1>2. Accounted'
  BY DEF FloorInv, Accounted
<1>3. pc["worker"] \in InstallPC \cup {"startWait"} =>
          journal.phase \in {"prepared", "executing", "succeeded"}
  BY DEF IInv, JournalInv
<1>4. FloorAt(pc["worker"])'
  BY <1>3 DEF FloorInv, FloorAt, Floored
<1> QED BY <1>1, <1>2, <1>4 DEF FloorInv

(* The worker prepares jobs of the table only. *)
KnownInv ==
    /\ journal.phase = "prepared" => state[journal.job] # "absent"
    /\ \A m \in msgs : m.live /\ m.op = "polled" => state[m.job] # "absent"
    /\ reply.code = "job" => state[reply.job] # "absent"

(* No job leaves the table, and no job in it changes what was scheduled.   *)
Remembered == \A j \in Jobs : state[j] # "absent" => state'[j] # "absent" /\ req'[j] = req[j]

LEMMA StepRemembers ==
    ASSUME TypeOK, [Next]_vars
    PROVE  Remembered
<1>1. JobsTypeOK /\ [JobsNext]_serverVars
  BY NextIsJobStep DEF TypeOK
<1> QED BY <1>1, StepAdvances DEF Remembered, Advances

(* Where the jobs come from that the worker hears and writes of. *)
LEMMA KnownMoves ==
    ASSUME TypeOK, KnownInv, Remembered,
           \/ journal' = journal \/ journal'.phase # "prepared"
           \/ reply.code = "job" /\ journal'.job = reply.job,
           \A m \in msgs' : m.live /\ m.op = "polled" =>
               m \in msgs \/ (m.job \in Jobs /\ state[m.job] \in Open),
           \/ reply' = reply \/ reply'.code # "job"
           \/ \E m \in msgs : m.live /\ m.op = "polled" /\ reply'.job = m.job
    PROVE  KnownInv'
<1>1. journal.phase = "prepared" => journal.job \in Jobs
  BY JournalRow
<1>2. reply.code = "job" => reply.job \in Jobs
  BY ReplyFields DEF TypeOK
<1>3. \A m \in msgs : m.op = "polled" => m.job \in Jobs
  BY MessageFields DEF TypeOK
<1>4. \A j \in Jobs : state[j] \in Open => state[j] # "absent"
  BY DEF Open
<1>5. journal'.phase = "prepared" => state'[journal'.job] # "absent"
  BY <1>1, <1>2 DEF KnownInv, Remembered
<1>6. reply'.code = "job" => state'[reply'.job] # "absent"
  BY <1>2, <1>3 DEF KnownInv, Remembered
<1>7. \A m \in msgs' : m.live /\ m.op = "polled" => state'[m.job] # "absent"
  BY <1>3, <1>4 DEF KnownInv, Remembered
<1> QED BY <1>5, <1>6, <1>7 DEF KnownInv

LEMMA HandleKnows ==
    ASSUME TypeOK, KnownInv, Remembered, NEW m \in msgs, Handle(m)
    PROVE  KnownInv'
<1>0. m.live \in BOOLEAN
  BY MessageFields DEF TypeOK
<1>1. journal' = journal
  BY DEF Handle, PollRead, PollAnswer, DownloadClientUpdate, Authenticate, HandleStart,
         HandleResult, deviceVars
<1>2. ASSUME NEW c \in {"empty", "ok", "gone", "error"}, Answer(m, Code(c))
      PROVE  KnownInv'
  <2>1. msgs' \subseteq msgs /\ (reply' = reply \/ reply' = Code(c))
    BY <1>0, <1>2 DEF Answer
  <2>2. reply' = reply \/ reply'.code # "job"
    BY <2>1, Codes
  <2> QED BY <1>1, <2>1, <2>2, KnownMoves
<1>3. CASE PollRead(m)
  <2>1. CASE Answer(m, Code("error")) \/ Answer(m, Code("empty"))
    BY <1>2, <2>1
  <2>2. ASSUME NEW j \in Jobs, state[j] \in Open, reply' = reply,
               msgs' = (msgs \ {m}) \cup
                   {[op |-> "polled", live |-> m.live, job |-> j, seen |-> state[j]]}
        PROVE  KnownInv'
    <3> DEFINE n == [op |-> "polled", live |-> m.live, job |-> j, seen |-> state[j]]
    <3>1. n.job = j
      OBVIOUS
    <3>2. \A k \in msgs' : k \in msgs \/ k = n
      BY <2>2
    <3> HIDE DEF n
    <3> QED BY <1>1, <2>2, <3>1, <3>2, KnownMoves
  <2> QED BY <1>3, <2>1, <2>2 DEF PollRead
<1>4. CASE PollAnswer(m)
  <2>1. CASE Answer(m, Code("error")) \/ Answer(m, Code("empty"))
    BY <1>2, <2>1
  <2>2. CASE Answer(m, [code |-> "job", job |-> m.job, seen |-> m.seen])
    <3> DEFINE r == [code |-> "job", job |-> m.job, seen |-> m.seen]
    <3>1. r.job = m.job
      OBVIOUS
    <3>2. Answer(m, r)
      BY <2>2
    <3> HIDE DEF r
    <3>3. msgs' \subseteq msgs /\ (reply' = reply \/ (m.live /\ reply' = r))
      BY <1>0, <3>2 DEF Answer
    <3>4. m.op = "polled"
      BY <1>4 DEF PollAnswer
    <3> QED BY <1>1, <3>1, <3>3, <3>4, KnownMoves
  <2> QED BY <1>4, <2>1, <2>2 DEF PollAnswer
<1>5. CASE DownloadClientUpdate(m) \/ HandleStart(m) \/ HandleResult(m)
  <2>1. \E c \in {"empty", "ok", "gone", "error"} : Answer(m, Code(c))
    BY <1>5 DEF DownloadClientUpdate, HandleStart, HandleResult
  <2> QED BY <1>2, <2>1
<1>6. CASE Authenticate(m)
  <2>1. CASE Answer(m, Code("error"))
    BY <1>2, <2>1
  <2>2. CASE msgs' = (msgs \ {m}) \cup {Passed(m)} /\ reply' = reply
    <3> DEFINE n == Passed(m)
    <3>1. m \in Message /\ m.op \in {"start", "result"} /\ now \in 0..MaxTime
      BY <1>6 DEF Authenticate, TypeOK, JobsTypeOK
    <3>2. n.op # "polled"
      BY <3>1, PassedMessage
    <3>3. \A k \in msgs' : k \in msgs \/ k = n
      BY <2>2
    <3> HIDE DEF n
    <3> QED BY <1>1, <2>2, <3>2, <3>3, KnownMoves
  <2> QED BY <1>6, <2>1, <2>2 DEF Authenticate
<1> QED BY <1>3, <1>4, <1>5, <1>6 DEF Handle

LEMMA LeaveKnows ==
    ASSUME TypeOK, KnownInv, Remembered, Abandon,
           journal' = journal \/ journal' = NoJournal
    PROVE  KnownInv'
<1>1. NoJournal.phase # "prepared" /\ NoReply.code # "job"
  BY DEF NoJournal, NoReply
<1>2. reply' = NoReply /\ \A n \in msgs' : ~n.live
  BY AbandonEffect
<1> QED BY <1>1, <1>2, KnownMoves

LEMMA SendKnows ==
    ASSUME TypeOK, KnownInv, Remembered, journal' = journal,
           NEW m, m.op # "polled", Send(m)
    PROVE  KnownInv'
<1>1. NoReply.code # "job"
  BY DEF NoReply
<1>2. reply' = NoReply /\ \A n \in msgs' : n \in msgs \/ n = m
  BY DEF Send
<1> QED BY <1>1, <1>2, KnownMoves

LEMMA WriteKnows ==
    ASSUME TypeOK, KnownInv, Remembered, msgs' = msgs, reply' = reply \/ reply' = NoReply,
           \/ journal' = journal \/ journal'.phase # "prepared"
           \/ reply.code = "job" /\ journal'.job = reply.job
    PROVE  KnownInv'
<1>1. NoReply.code # "job"
  BY DEF NoReply
<1> QED BY <1>1, KnownMoves

LEMMA WorkerKnows ==
    ASSUME IInv, KnownInv, Remembered, WorkerStep
    PROVE  KnownInv'
<1>1. TypeOK
  BY DEF IInv
<1>2. CASE ReadJournal
  <2> DEFINE m == PollRequest
  <2>1. m.op # "polled"
    BY DEF PollRequest
  <2>2. journal' = journal /\ (Send(m) \/ UNCHANGED <<msgs, reply>>)
    BY <1>2 DEF ReadJournal
  <2> HIDE DEF m
  <2> QED BY <1>1, <2>1, <2>2, SendKnows, WriteKnows
<1>3. CASE JournalInterrupted
  <2>1. journal'.phase = "failed" /\ UNCHANGED <<msgs, reply>>
    BY <1>3 DEF JournalInterrupted, Write
  <2> QED BY <1>1, <2>1, WriteKnows
<1>4. CASE ReceivePoll
  <2>1. CASE Leave /\ UNCHANGED journal
    BY <1>1, <2>1, LeaveKnows DEF Leave
  <2>2. CASE reply.code = "job" /\ Write(reply.job, "failed") /\ msgs' = msgs /\ reply' = NoReply
    <3>1. journal'.phase = "failed"
      BY <2>2 DEF Write
    <3> QED BY <1>1, <2>2, <3>1, WriteKnows
  <2>3. CASE /\ reply.code = "job" /\ msgs' = msgs /\ reply' = NoReply
             /\ journal' = [job |-> reply.job, phase |-> "prepared", rb |-> FALSE]
    <3>1. journal'.job = reply.job
      BY <2>3
    <3> QED BY <1>1, <2>3, <3>1, WriteKnows
  <2> QED BY <1>4, <2>1, <2>2, <2>3 DEF ReceivePoll
<1>5. CASE CheckWindow
  <2> DEFINE m == PackageRequest(journal.job)
  <2>1. m.op # "polled"
    BY DEF PackageRequest
  <2>2. \/ Send(m) /\ journal' = journal
        \/ Abandon /\ journal' = NoJournal
    BY <1>5 DEF CheckWindow, Leave
  <2> HIDE DEF m
  <2> QED BY <1>1, <2>1, <2>2, SendKnows, LeaveKnows
<1>6. CASE ReceivePackage
  <2> DEFINE m == StartRequest(journal.job)
  <2>1. m.op # "polled"
    BY DEF StartRequest
  <2>2. \/ Send(m) /\ journal' = journal
        \/ Abandon /\ (journal' = journal \/ journal' = NoJournal)
    BY <1>6 DEF ReceivePackage, Leave
  <2> HIDE DEF m
  <2> QED BY <1>1, <2>1, <2>2, SendKnows, LeaveKnows
<1>7. CASE ReceiveStart
  <2>1. CASE Abandon /\ (journal' = journal \/ journal' = NoJournal)
    BY <1>1, <2>1, LeaveKnows
  <2>2. CASE /\ journal' = [journal EXCEPT !.phase = "executing"]
             /\ msgs' = msgs /\ reply' = NoReply
    <3>1. journal \in Journal
      BY <1>7, JournalAt DEF ReceiveStart, Phase
    <3>2. journal'.phase = "executing"
      BY <2>2, <3>1 DEF Journal
    <3> QED BY <1>1, <2>2, <3>2, WriteKnows
  <2> QED BY <1>7, <2>1, <2>2 DEF ReceiveStart, Leave
<1>8. CASE JournalOutcome
  <2>1. CASE Abandon /\ journal' = journal
    BY <1>1, <2>1, LeaveKnows
  <2>2. CASE journal'.phase \in {"succeeded", "failed"} /\ UNCHANGED <<msgs, reply>>
    BY <1>1, <2>2, WriteKnows
  <2>3. ASSUME NEW o \in {"succeeded", "failed"}, Write(journal.job, o)
        PROVE  journal'.phase = o
    BY <2>3 DEF Write
  <2> QED BY <1>8, <2>1, <2>2, <2>3 DEF JournalOutcome, Leave
<1>9. CASE ReportResult
  <2> DEFINE m == ResultRequest(journal.job, journal.phase, journal.rb)
  <2>1. m.op # "polled"
    BY DEF ResultRequest
  <2>2. Send(m) /\ journal' = journal
    BY <1>9 DEF ReportResult
  <2> HIDE DEF m
  <2> QED BY <1>1, <2>1, <2>2, SendKnows
<1>10. CASE ReceiveAck \/ ConnectionLost
  BY <1>1, <1>10, LeaveKnows DEF ReceiveAck, ConnectionLost, Leave
<1>11. CASE WorkerInstall
  BY <1>1, <1>11, WriteKnows DEF WorkerInstall, workerVars
<1> QED BY <1>2, <1>3, <1>4, <1>5, <1>6, <1>7, <1>8, <1>9, <1>10, <1>11 DEF WorkerStep

LEMMA NextKnows ==
    ASSUME IInv, KnownInv, [Next]_vars
    PROVE  KnownInv'
<1>1. TypeOK
  BY DEF IInv
<1>2. Remembered
  BY <1>1, StepRemembers
<1>3. CASE \/ Administration \/ WorkerStart \/ OtherProcesses \/ UNCHANGED vars
  <2>1. UNCHANGED <<journal, msgs, reply>>
    BY <1>3 DEF Administration, WorkerStart, OtherProcesses, vars, workerVars
  <2> QED BY <1>1, <1>2, <2>1, WriteKnows
<1>4. CASE \E approved \in SUBSET Releases : ServerRestart(approved)
  <2>1. journal' = journal /\ msgs' = {} /\ (reply' = reply \/ reply' = NoReply)
    BY <1>4 DEF ServerRestart
  <2>2. NoReply.code # "job"
    BY DEF NoReply
  <2> QED BY <1>1, <1>2, <2>1, <2>2, KnownMoves
<1>5. CASE WorkerFault
  <2>1. CASE Abandon /\ UNCHANGED journal
    BY <1>1, <1>2, <2>1, LeaveKnows
  <2>2. CASE UNCHANGED workerVars
    BY <1>1, <1>2, <2>2, WriteKnows DEF workerVars
  <2> QED BY <1>5, <2>1, <2>2 DEF WorkerFault
<1> QED BY <1>1, <1>2, <1>3, <1>4, <1>5, HandleKnows, WorkerKnows DEF Next

LEMMA ServerFloor ==
    ASSUME IInv, KnownInv, FloorInv, Remembered,
           \/ Administration \/ \E approved \in SUBSET Releases : ServerRestart(approved)
           \/ \E m \in msgs : Handle(m)
           \/ UNCHANGED vars
    PROVE  FloorInv'
<1>1. UNCHANGED <<pc, cur, target, snapshot, marker, journal, floor>>
  <2>1. CASE Administration \/ UNCHANGED vars
    BY <2>1 DEF Administration, vars, installVars, localVars, fileVars, workerVars
  <2>2. CASE \E approved \in SUBSET Releases : ServerRestart(approved)
    BY <2>2 DEF ServerRestart, localVars, fileVars
  <2>3. CASE \E m \in msgs : Handle(m)
    <3>1. UNCHANGED deviceVars
      BY <2>3 DEF Handle, PollRead, PollAnswer, DownloadClientUpdate, Authenticate, HandleStart, HandleResult
    <3> QED BY <3>1 DEF deviceVars, installVars, localVars, fileVars
  <2> QED BY <2>1, <2>2, <2>3
<1>2. journal.phase \in {"prepared", "executing", "succeeded"} =>
          journal.job \in Jobs /\ state[journal.job] # "absent"
  BY JournalAt DEF Phase, KnownInv, IInv, AgreementInv, Permitted
<1> QED BY <1>1, <1>2, UntouchedFloor DEF Remembered

LEMMA NextFloor ==
    ASSUME ManualDirs = {}, IInv, EvidenceInv, KnownInv, FloorInv, [Next]_vars
    PROVE  FloorInv'
<1>1. Remembered /\ "worker" \in Procs
  BY StepRemembers DEF IInv, Procs
<1>2. CASE WorkerStep
  <2>1. WorkerInstall => UNCHANGED <<journal, floor, req>>
    BY DEF WorkerInstall, workerVars, serverVars
  <2>2. CASE WorkerInstall
    BY <1>1, <2>1, <2>2, InstallFloor DEF WorkerInstall
  <2> QED BY <1>2, <2>2, ReadJournalFloor, OutcomeFloor, ForgettingFloor, ReceivePackageFloor,
             ReceiveStartFloor, ReportResultFloor DEF WorkerStep
<1>3. CASE WorkerFault
  BY <1>1, <1>3, DiesFloor, InstallFailsFloor DEF WorkerFault, workerVars, serverVars
<1> QED BY <1>1, <1>2, <1>3, ServerFloor, WorkerStartFloor, OtherFloor DEF Next

LEMMA InitFloor ==
    ASSUME Init
    PROVE  KnownInv /\ FloorInv
<1>1. NoJournal.phase = "none" /\ NoReply.code = "none"
  BY DEF NoJournal, NoReply
<1>2. KnownInv
  BY <1>1 DEF Init, KnownInv
<1>3. 0 <= 0
  BY ZeroIsNat, LeqReflexive
<1>4. Floored(target) /\ pc["worker"] = "off" /\ \A j \in Jobs : snapshot[j] = NoSnapshot
  BY <1>3, JobDirsAssumption DEF Init, InstallInit, Floored, Procs
<1>5. FloorAt("off")
  BY DEF FloorAt, InstallPC
<1>6. Accounted
  BY <1>4 DEF Accounted, Floored
<1> QED BY <1>2, <1>4, <1>5, <1>6 DEF FloorInv

(* An execution begins only above everything installed. *)
LEMMA BeginsAbove ==
    ASSUME IInv, FloorInv, [Next]_vars, NEW j \in Jobs, begun'[j] > begun[j],
           NEW c \in Components
    PROVE  target[c] < req[j].release
<1>1. begun' # begun
  <2>1. begun[j] \in Nat
    BY DEF IInv, TypeOK
  <2> QED BY <2>1, LeqReflexive
<1>2. ReceiveStart
  <2>1. CASE Administration \/ (\E approved \in SUBSET Releases : ServerRestart(approved))
             \/ (\E m \in msgs : Handle(m)) \/ UNCHANGED vars
    BY <1>1, <2>1 DEF Administration, ServerRestart, Handle, PollRead, PollAnswer,
       DownloadClientUpdate, Authenticate, HandleStart, HandleResult, deviceVars, workerVars, vars
  <2>2. CASE WorkerStart \/ WorkerFault \/ OtherProcesses
    BY <1>1, <2>2 DEF WorkerStart, WorkerFault, OtherProcesses, workerVars
  <2>3. CASE WorkerStep
    BY <1>1, <2>3 DEF WorkerStep, ReadJournal, JournalInterrupted, ReceivePoll, CheckWindow,
       ReceivePackage, JournalOutcome, ReportResult, ReceiveAck, ConnectionLost, WorkerInstall,
       workerVars
  <2> QED BY <2>1, <2>2, <2>3 DEF Next
<1>3. pc["worker"] = "startWait" /\ journal.phase = "prepared"
  BY <1>2 DEF ReceiveStart, IInv, JournalInv
<1>4. begun' = [begun EXCEPT ![journal.job] = @ + 1]
  BY <1>1, <1>2 DEF ReceiveStart
<1>5. j = journal.job
  <2>1. begun \in [Jobs -> Nat]
    BY DEF IInv, TypeOK
  <2> QED BY <1>4, <2>1, LeqReflexive
<1>6. target[c] <= floor /\ floor < req[j].release
  <2>1. Floored(target)
    BY <1>3, FlooredUnless
  <2> QED BY <1>3, <1>5, <2>1 DEF Floored, FloorInv, FloorAt
<1>7. target[c] \in Nat /\ floor \in Nat
  BY DEF IInv, TypeOK, InstallTypeOK
<1>8. req[j].release \in Nat
  <2>1. reply.code = "ok"
    BY <1>1, <1>2 DEF ReceiveStart
  <2>2. state[j] \in Permitted
    BY <1>3, <1>5, <2>1 DEF IInv, AgreementInv, Permitted
  <2> QED BY <2>2, KnownRelease
<1> QED BY <1>6, <1>7, <1>8, LeqLess

(* On a client that only the worker updates, the recorded version is a     *)
(* floor under everything the worker reads from its files and its journal. *)
THEOREM FloorInvariant ==
    ASSUME ManualDirs = {}
    PROVE  Spec => [](EvidenceInv /\ KnownInv /\ FloorInv)
<1>1. Init => EvidenceInv /\ KnownInv /\ FloorInv
  BY InitEvidence, InitFloor
<1>2. Careful
  BY DEF Careful
<1>3. IInv /\ (EvidenceInv /\ KnownInv /\ FloorInv) /\ [Next]_vars =>
          (EvidenceInv /\ KnownInv /\ FloorInv)'
  BY <1>2, NextEvidence, NextKnows, NextFloor
<1> QED BY <1>1, <1>3, UpdateAgreement, PTL DEF Spec

(* The worker never starts an installation of a release that is not newer  *)
(* than every installed component, through lost answers, crashes and       *)
(* rollbacks; an operator's own installations are excluded, because a      *)
(* later failed one replaces the success that update-state.json recorded.  *)
THEOREM WorkerOnlyRaises ==
    ASSUME ManualDirs = {}
    PROVE  Spec => NoDowngrade
<1>1. IInv /\ (EvidenceInv /\ KnownInv /\ FloorInv) /\ [Next]_vars =>
          [\A j \in Jobs :
              begun'[j] > begun[j] =>
                  \A c \in Components : target[c] < req[j].release]_vars
  BY BeginsAbove
<1> QED BY <1>1, FloorInvariant, UpdateAgreement, PTL DEF Spec, NoDowngrade
=============================================================================
