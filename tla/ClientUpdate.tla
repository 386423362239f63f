---------------------------- MODULE ClientUpdate ----------------------------
(***************************************************************************)
(* Scheduled updates end to end: the job store of UpdateJobs, one device   *)
(* (client Self) with the installation transaction of UpdateInstaller, the *)
(* update worker with its durable journal job.json, and the HTTP requests  *)
(* between the worker and the server.                                      *)
(*                                                                         *)
(* A request stays in msgs until its handler answers.  A start and a       *)
(* result are authenticated in a step of their own: whatever happens to    *)
(* the client after it, the handler goes on to its transaction.  A worker  *)
(* that times out or dies leaves its request behind: the handler may still *)
(* commit, but nobody hears the answer.  A job's journal copies its immutable      *)
(* columns, so the model reads them from req.                              *)
(***************************************************************************)
EXTENDS UpdateJobs, UpdateInstaller

CONSTANTS
    Self,         \* the client whose device is modelled
    Withdrawals,  \* TRUE: a restart of the server may withdraw approvals
    Revocations   \* TRUE: the client may be disabled, its certificate revoked

ASSUME SelfAssumption == Self \in Clients
ASSUME JobDirsAssumption == Jobs \subseteq Dirs /\ Jobs \cap ManualDirs = {}
ASSUME SwitchesAssumption == Withdrawals \in BOOLEAN /\ Revocations \in BOOLEAN

VARIABLES
    journal,  \* update-jobs/job.json
    floor,    \* update-jobs/installed-version.json
    msgs,     \* requests that no handler has answered yet
    reply,    \* the answer to the worker's request
    begun     \* history: begun[j] executions of job j were started

workerVars == <<journal, floor, msgs, reply, begun>>

vars == <<serverVars, installVars, workerVars>>

Phase == {"prepared", "executing", "succeeded", "failed"}

Journal == [job : Jobs, phase : Phase, rb : BOOLEAN]

NoJournal == [phase |-> "none"]

(* auth: updateDevice let the client pass; at: the time when it did, for a *)
(* start, whose transaction uses a clock reading that is no earlier.       *)
Message == [op : {"poll"}, live : BOOLEAN]
    \cup [op : {"polled"}, live : BOOLEAN, job : Jobs, seen : Open]
    \cup [op : {"package"}, live : BOOLEAN, job : Jobs]
    \cup [op : {"start"}, live : BOOLEAN, auth : BOOLEAN, job : Jobs,
          at : 0..MaxTime]
    \cup [op : {"result"}, live : BOOLEAN, auth : BOOLEAN, job : Jobs,
          result : {"succeeded", "failed"}, rb : BOOLEAN]

PollRequest == [op |-> "poll", live |-> TRUE]

PackageRequest(j) == [op |-> "package", live |-> TRUE, job |-> j]

StartRequest(j) ==
    [op |-> "start", live |-> TRUE, auth |-> FALSE, job |-> j, at |-> 0]

ResultRequest(j, result, r) ==
    [op |-> "result", live |-> TRUE, auth |-> FALSE, job |-> j,
     result |-> result, rb |-> r]

NoReply == [code |-> "none"]

Reply == [code : {"none", "empty", "ok", "gone", "error"}]
    \cup [code : {"job"}, job : Jobs, seen : Open]

-----------------------------------------------------------------------------
(* The server answers *)

Answer(m, r) ==
    /\ msgs' = msgs \ {m}
    /\ reply' = IF m.live THEN r ELSE reply

Code(c) == [code |-> c]

deviceVars == <<installVars, journal, floor, begun>>

(* The jobs of the client are read; only an open one matters to the loop.  *)
PollRead(m) ==
    /\ m.op = "poll"
    /\ \/ ~UpdateDevice(Self) /\ Answer(m, Code("error"))
       \/ /\ UpdateDevice(Self)
          /\ \A j \in Jobs : ~(state[j] \in Open /\ req[j].client = Self)
          /\ Answer(m, Code("empty"))
       \/ /\ UpdateDevice(Self)
          /\ \E j \in Jobs :
                /\ state[j] \in Open /\ req[j].client = Self
                /\ msgs' = (msgs \ {m}) \cup
                      {[op |-> "polled", live |-> m.live, job |-> j,
                        seen |-> state[j]]}
          /\ UNCHANGED reply
    /\ UNCHANGED <<serverVars, deviceVars>>

(* The job is treated as it was read, whatever happened since.             *)
PollAnswer(m) ==
    /\ m.op = "polled"
    /\ LET overdue == m.seen = "scheduled" /\ req[m.job].expiresAt <= now
           due == m.seen = "dispatched" \/ req[m.job].notBefore <= now
       IN  \/ /\ overdue
              /\ ExpireOnPoll(m.job, Self) /\ Answer(m, Code("empty"))
           \/ /\ overdue /\ ~CanChange(m.job, Self, "expired", FALSE, now)
              /\ Refused /\ Answer(m, Code("error"))
           \/ /\ ~overdue /\ ~due
              /\ Refused /\ Answer(m, Code("empty"))
           \/ /\ ~overdue /\ due /\ ~ApprovedJob(m.job)
              /\ Refused /\ Answer(m, Code("error"))
           \/ /\ ~overdue /\ due /\ ApprovedJob(m.job)
              /\ Refused
              /\ Answer(m, [code |-> "job", job |-> m.job, seen |-> m.seen])
    /\ UNCHANGED deviceVars

DownloadClientUpdate(m) ==
    /\ m.op = "package"
    /\ Answer(m, Code(IF ~UpdateDevice(Self) THEN "error"
                      ELSE IF PackageAvailable(m.job, Self) THEN "ok"
                      ELSE "gone"))
    /\ UNCHANGED <<serverVars, deviceVars>>

Passed(m) == IF m.op = "start" THEN [m EXCEPT !.auth = TRUE, !.at = now]
             ELSE [m EXCEPT !.auth = TRUE]

(* updateDevice, before a start or a result goes to its transaction.       *)
Authenticate(m) ==
    /\ m.op \in {"start", "result"} /\ ~m.auth
    /\ \/ ~UpdateDevice(Self) /\ Answer(m, Code("error"))
       \/ /\ UpdateDevice(Self)
          /\ msgs' = (msgs \ {m}) \cup {Passed(m)}
          /\ UNCHANGED reply
    /\ UNCHANGED <<serverVars, deviceVars>>

(* Faulty variant: a refused start is acknowledged.                        *)
AcknowledgeStart(m) ==
    /\ m.op = "start" /\ m.auth
    /\ Answer(m, Code("ok"))
    /\ UNCHANGED <<serverVars, deviceVars>>

(* The clock is read between the authentication and the transaction.       *)
HandleStart(m) ==
    /\ m.op = "start" /\ m.auth
    /\ \E t \in m.at..now :
          \/ StartClientUpdate(m.job, Self, t) /\ Answer(m, Code("ok"))
          \/ /\ ~StartAllowed(m.job, Self, t) /\ Refused
             /\ Answer(m, Code("gone"))
    /\ UNCHANGED deviceVars

HandleResult(m) ==
    /\ m.op = "result" /\ m.auth
    /\ \/ /\ FinishClientUpdate(m.job, Self, m.result, m.rb)
          /\ Answer(m, Code("ok"))
       \/ /\ ~FinishAllowed(m.job, Self, m.result, m.rb) /\ Refused
          /\ Answer(m, Code("error"))
    /\ UNCHANGED deviceVars

Handle(m) ==
    \/ PollRead(m) \/ PollAnswer(m) \/ DownloadClientUpdate(m)
    \/ Authenticate(m) \/ HandleStart(m) \/ HandleResult(m)

(* A restart ends the handlers and reads the catalog again.  An answer     *)
(* that is not out yet is lost, though its transaction was committed.      *)
ServerRestart(approved) ==
    /\ faults < MaxFaults /\ faults' = faults + 1
    /\ ~Withdrawals => approved = Releases
    /\ LoadCatalog(approved)
    /\ msgs' = {} /\ reply' \in {reply, NoReply}
    /\ UNCHANGED <<localVars, fileVars, kept, journal, floor, begun>>

(* The identifiers that are not in use yet: the others change nothing.     *)
Absent == {j \in Jobs : state[j] = "absent"}

Administration ==
    /\ \/ \E j \in Absent, r \in Request, t \in 0..now :
             ScheduleClientUpdate(j, r, t)
       \/ \E j \in Jobs : CancelClientUpdate(j)
       \/ Revocations /\ (SetEnabled(Self) \/ SetCertified(Self))
       \/ Tick
    /\ UNCHANGED <<installVars, workerVars>>

-----------------------------------------------------------------------------
(* The worker *)

Send(m) == msgs' = msgs \cup {m} /\ reply' = NoReply

(* The process is gone: its request, if any, is on its own from now on.    *)
Abandon ==
    /\ msgs' = {[m EXCEPT !.live = FALSE] : m \in msgs}
    /\ reply' = NoReply

Leave == Exit("worker") /\ Abandon

installed == <<fileVars, kept, faults>>

(* Faulty variant: the worker starts without looking for a marker.         *)
StartUnrecovered ==
    /\ Acquire("worker", "journal")
    /\ UNCHANGED <<cur, todo, installed, serverVars, workerVars>>

(* The lock is taken; recovery comes before everything else.               *)
WorkerStart ==
    /\ \/ RecoverMarker("worker")
       \/ /\ marker = NoPlan
          /\ Acquire("worker", "journal")
          /\ UNCHANGED <<cur, todo, installed>>
    /\ UNCHANGED <<serverVars, workerVars>>

(* Faulty variant: an interrupted execution is taken up again.             *)
ReadJournalAgain ==
    /\ pc["worker"] = "journal"
    /\ \/ /\ journal = NoJournal
          /\ Goto("worker", "pollWait")
          /\ Send(PollRequest)
       \/ /\ journal.phase \in {"succeeded", "failed"}
          /\ Goto("worker", "result") /\ UNCHANGED <<msgs, reply>>
       \/ /\ journal.phase \in {"prepared", "executing"}
          /\ Goto("worker", "prepared") /\ UNCHANGED <<msgs, reply>>
    /\ UNCHANGED <<serverVars, cur, todo, installed, journal, floor, begun>>

(* Where the journal says the last run stopped.                            *)
ReadJournal ==
    /\ pc["worker"] = "journal"
    /\ \/ /\ journal = NoJournal
          /\ Goto("worker", "pollWait")
          /\ Send(PollRequest)
          /\ UNCHANGED <<cur, todo>>
       \/ /\ journal.phase = "executing"
          /\ snapshot[journal.job] # NoSnapshot
          /\ Goto("worker", "irRestore")
          /\ cur' = [dir |-> journal.job, rel |-> req[journal.job].release]
          /\ todo' = Components
          /\ UNCHANGED <<msgs, reply>>
       \/ /\ journal.phase = "executing"
          /\ snapshot[journal.job] = NoSnapshot
          /\ Goto("worker", "irJournal") /\ UNCHANGED <<cur, todo, msgs, reply>>
       \/ /\ journal.phase \in {"succeeded", "failed"}
          /\ Goto("worker", "result") /\ UNCHANGED <<cur, todo, msgs, reply>>
       \/ /\ journal.phase = "prepared"
          /\ Goto("worker", "prepared") /\ UNCHANGED <<cur, todo, msgs, reply>>
    /\ UNCHANGED <<serverVars, installed, journal, floor, begun>>

(* workerRollback: the snapshot of the job is there and complete.          *)
Rollback(j) == snapshot[j] # NoSnapshot

Write(j, phase) == journal' = [job |-> j, phase |-> phase, rb |-> Rollback(j)]

(* After the restored files, the interrupted execution becomes a failure.  *)
JournalInterrupted ==
    /\ pc["worker"] = "irJournal"
    /\ Write(journal.job, "failed")
    /\ Goto("worker", "result")
    /\ UNCHANGED <<serverVars, cur, todo, installed, floor, msgs, reply, begun>>

(* Faulty variant: a dispatched job without evidence is left to itself.    *)
ReceivePollIgnoring ==
    /\ pc["worker"] = "pollWait" /\ reply # NoReply
    /\ \/ /\ reply.code = "job" => reply.seen = "dispatched"
          /\ Leave /\ UNCHANGED journal
       \/ /\ reply.code = "job" /\ reply.seen = "scheduled"
          /\ journal' = [job |-> reply.job, phase |-> "prepared", rb |-> FALSE]
          /\ Goto("worker", "prepared") /\ UNCHANGED msgs /\ reply' = NoReply
    /\ UNCHANGED <<serverVars, cur, todo, installed, floor, begun>>

ReceivePoll ==
    /\ pc["worker"] = "pollWait" /\ reply # NoReply
    /\ \/ reply.code # "job" /\ Leave /\ UNCHANGED journal
       \/ /\ reply.code = "job" /\ reply.seen = "dispatched"
          /\ Write(reply.job, "failed")
          /\ Goto("worker", "result") /\ UNCHANGED msgs /\ reply' = NoReply
       \/ /\ reply.code = "job" /\ reply.seen = "scheduled"
          /\ journal' = [job |-> reply.job, phase |-> "prepared", rb |-> FALSE]
          /\ Goto("worker", "prepared") /\ UNCHANGED msgs /\ reply' = NoReply
    /\ UNCHANGED <<serverVars, cur, todo, installed, floor, begun>>

(* Outside its window a prepared job is forgotten; inside, its package is  *)
(* fetched.                                                                *)
CheckWindow ==
    /\ pc["worker"] = "prepared"
    /\ LET j == journal.job
       IN  IF req[j].notBefore <= now /\ now < req[j].expiresAt
             THEN /\ Send(PackageRequest(j))
                  /\ Goto("worker", "pkgWait") /\ UNCHANGED journal
             ELSE Leave /\ journal' = NoJournal
    /\ UNCHANGED <<serverVars, cur, todo, installed, floor, begun>>

(* The greatest version known to be installed; 0 is the worker's own.      *)
InstalledVersion ==
    IF updateState.status = "success" /\ floor < updateState.rel
      THEN updateState.rel ELSE floor

(* Faulty variant: a package as old as the installed version is accepted.  *)
ReceiveSamePackage ==
    /\ pc["worker"] = "pkgWait" /\ reply.code = "ok"
    /\ floor' = InstalledVersion
    /\ IF InstalledVersion <= req[journal.job].release
         THEN /\ Send(StartRequest(journal.job))
              /\ Goto("worker", "startWait")
         ELSE Leave
    /\ UNCHANGED <<serverVars, cur, todo, installed, journal, begun>>

(* The package is verified against the installed version and staged, and   *)
(* permission to execute is requested while the window is open.            *)
ReceivePackage ==
    /\ pc["worker"] = "pkgWait" /\ reply # NoReply
    /\ LET j == journal.job
       IN  \/ reply.code = "gone" /\ Leave /\ journal' = NoJournal /\ UNCHANGED floor
           \/ reply.code = "error" /\ Leave /\ UNCHANGED <<journal, floor>>
           \/ /\ reply.code = "ok"
              /\ floor' = InstalledVersion
              /\ IF /\ InstalledVersion < req[j].release
                    /\ req[j].release \in GreeterReleases => req[j].maintenance
                    /\ now < req[j].expiresAt
                   THEN /\ Send(StartRequest(j))
                        /\ Goto("worker", "startWait")
                   ELSE Leave
              /\ UNCHANGED journal
    /\ UNCHANGED <<serverVars, cur, todo, installed, begun>>

(* Permission granted: the journal says so before any target changes.      *)
ReceiveStart ==
    /\ pc["worker"] = "startWait" /\ reply # NoReply
    /\ LET j == journal.job
       IN  \/ /\ reply.code = "gone"
              /\ Leave /\ journal' = NoJournal /\ UNCHANGED <<cur, begun>>
           \/ reply.code = "error" /\ Leave /\ UNCHANGED <<journal, cur, begun>>
           \/ /\ reply.code = "ok"
              /\ journal' = [journal EXCEPT !.phase = "executing"]
              /\ begun' = [begun EXCEPT ![j] = @ + 1]
              /\ cur' = [dir |-> j, rel |-> req[j].release]
              /\ Goto("worker", "install")
              /\ reply' = NoReply /\ UNCHANGED msgs
    /\ UNCHANGED <<serverVars, todo, installed, floor>>

(* Faulty variant: every outcome is journaled as a success.                *)
JournalSuccess ==
    /\ pc["worker"] \in {"doneOk", "doneFailed"}
    /\ Write(journal.job, "succeeded")
    /\ Goto("worker", "result") /\ UNCHANGED <<msgs, reply>>
    /\ UNCHANGED <<serverVars, cur, todo, installed, floor, begun>>

(* The installation returned; with a marker still there, recovery first.   *)
JournalOutcome ==
    /\ pc["worker"] \in {"doneOk", "doneFailed"}
    /\ IF marker # NoPlan
         THEN Leave /\ UNCHANGED journal
         ELSE /\ Write(journal.job, IF pc["worker"] = "doneOk"
                                      THEN "succeeded" ELSE "failed")
              /\ Goto("worker", "result") /\ UNCHANGED <<msgs, reply>>
    /\ UNCHANGED <<serverVars, cur, todo, installed, floor, begun>>

(* finishWorker: raise the floor, then report the journal's result.        *)
ReportResult ==
    /\ pc["worker"] = "result"
    /\ LET j == journal.job
       IN  /\ floor' = IF journal.phase # "succeeded" THEN floor
                       ELSE IF InstalledVersion < req[j].release
                              THEN req[j].release ELSE InstalledVersion
           /\ Send(ResultRequest(j, journal.phase, journal.rb))
    /\ Goto("worker", "resultWait")
    /\ UNCHANGED <<serverVars, cur, todo, installed, journal, begun>>

(* Only an acknowledged result lets the journal go.                        *)
ReceiveAck ==
    /\ pc["worker"] = "resultWait" /\ reply # NoReply
    /\ journal' = IF reply.code = "ok" THEN NoJournal ELSE journal
    /\ Leave
    /\ UNCHANGED <<serverVars, cur, todo, installed, floor, begun>>

(* Faulty variant: the journal goes although nobody acknowledged it.       *)
ForgetUnacknowledged ==
    /\ pc["worker"] \in {"pollWait", "pkgWait", "startWait", "resultWait"}
    /\ reply = NoReply /\ \A m \in msgs : ~m.live
    /\ journal' = NoJournal
    /\ Leave
    /\ UNCHANGED <<serverVars, cur, todo, installed, floor, begun>>

(* The connection of the pending request is gone (server restart).         *)
ConnectionLost ==
    /\ pc["worker"] \in {"pollWait", "pkgWait", "startWait", "resultWait"}
    /\ reply = NoReply /\ \A m \in msgs : ~m.live
    /\ Leave
    /\ UNCHANGED <<serverVars, cur, todo, installed, journal, floor, begun>>

(* The steps of the installation and of the recoveries, by the worker.     *)
WorkerInstall ==
    /\ \/ InstallStep("worker") \/ RecoveryStep("worker")
       \/ RestoreStep("worker", "irRestore", "irState")
       \/ RecordFailure("worker", "irState", "irJournal")
    /\ UNCHANGED <<serverVars, workerVars>>

WorkerStep ==
    \/ ReadJournal \/ JournalInterrupted \/ ReceivePoll \/ CheckWindow
    \/ ReceivePackage \/ ReceiveStart \/ JournalOutcome \/ ReportResult
    \/ ReceiveAck \/ ConnectionLost \/ WorkerInstall

WorkerFault ==
    \/ Dies("worker") /\ Abandon /\ UNCHANGED <<serverVars, journal, floor, begun>>
    \/ InstallFails("worker") /\ UNCHANGED <<serverVars, workerVars>>

-----------------------------------------------------------------------------
Init ==
    /\ JobsInit /\ InstallInit
    /\ journal = NoJournal
    /\ floor = 0
    /\ msgs = {} /\ reply = NoReply
    /\ begun = [j \in Jobs |-> 0]

OtherProcesses ==
    (ManualUpdater \/ StatusService) /\ UNCHANGED <<serverVars, workerVars>>

Next ==
    \/ Administration
    \/ \E approved \in SUBSET Releases : ServerRestart(approved)
    \/ \E m \in msgs : Handle(m)
    \/ WorkerStart \/ WorkerStep \/ WorkerFault
    \/ OtherProcesses

Spec == Init /\ [][Next]_vars

(* The timers start the worker and the status service again and again, a   *)
(* started process and a handler go on, and time passes.  Faults and       *)
(* restarts are bounded by MaxFaults, so they do not happen forever.       *)
Fairness ==
    /\ WF_vars(WorkerStart) /\ WF_vars(WorkerStep)
    /\ WF_vars(\E m \in msgs : Handle(m))
    /\ WF_vars(StatusStart /\ UNCHANGED <<serverVars, workerVars>>)
    /\ WF_vars(RecoveryStep("status") /\ UNCHANGED <<serverVars, workerVars>>)
    /\ WF_vars(InstallStep("manual") /\ UNCHANGED <<serverVars, workerVars>>)
    /\ WF_vars(Tick /\ UNCHANGED <<installVars, workerVars>>)

FairSpec == Spec /\ Fairness

-----------------------------------------------------------------------------
TypeOK ==
    /\ JobsTypeOK
    /\ InstallTypeOK
    /\ journal \in Journal \cup {NoJournal}
    /\ floor \in Nat
    /\ msgs \in SUBSET Message
    /\ reply \in Reply
    /\ begun \in [Jobs -> Nat]

(* At most one execution per job, through crashes, lost answers and        *)
(* requests that are handled after the worker gave up: neither a repeated  *)
(* grant nor the journal ever starts the installation a second time.       *)
AtMostOnce == \A j \in Jobs : begun[j] <= 1

(* Nothing is installed without a committed and audited permission: an     *)
(* execution that began belongs to a job that was dispatched, so that it   *)
(* can be neither cancelled nor expired any more.                          *)
PermissionFirst ==
    \A j \in Jobs :
        begun[j] > 0 => /\ state[j] \in {"dispatched", "succeeded", "failed"}
                        /\ Len(audit[j]) >= 2 /\ audit[j][2] = "dispatched"

(* What the server records is what the device did: a succeeded job passed  *)
(* its health gate and was not rolled back since, and no failed job left   *)
(* its release in place (journal, recovery and late results agree).        *)
ResultTruthful ==
    \A j \in Jobs :
        /\ state[j] = "succeeded" => begun[j] = 1 /\ j \in kept
        /\ state[j] = "failed" => j \notin kept

(* An execution awaiting its result keeps its evidence: as long as the     *)
(* server waits for a job that began, the journal knows of it.             *)
EvidenceKept ==
    \A j \in Jobs :
        begun[j] > 0 /\ state[j] = "dispatched" =>
            journal # NoJournal /\ journal.job = j /\ journal.phase # "prepared"

(* Components of two releases never go unnoticed: a marker or an executing *)
(* journal names a snapshot from which one release can be restored.        *)
MixedHasEvidence ==
    LET uniform(files) == \A c, d \in Components : files[c] = files[d]
        restorable(d) == snapshot[d] # NoSnapshot /\ uniform(snapshot[d].files)
    IN  \/ uniform(target)
        \/ marker # NoPlan /\ restorable(marker.dir)
        \/ journal.phase = "executing" /\ restorable(journal.job)

(* The worker never starts an installation of a release that is not newer  *)
(* than every installed component (workerInstalledVersion keeps the floor  *)
(* that VerifyPackage compares with).                                      *)
NoDowngrade ==
    [][\A j \in Jobs :
          begun'[j] > begun[j] =>
              \A c \in Components : target[c] < req[j].release]_vars

Lifecycle == INSTANCE UpdateLifecycle
                WITH phase <- state, kept <- kept \cap Jobs

(* The server, the worker, the installer and their requests implement the  *)
(* lifecycle of UpdateLifecycle: every step of theirs is one step of a     *)
(* job there, or none.                                                     *)
ImplementsLifecycle == Lifecycle!LifecycleSpec

(* Every job comes to an end: it is executed and reported, cancelled, or   *)
(* expires, through crashes, I/O errors, restarts and lost answers.  The   *)
(* exception is a dispatched job whose client died inside WriteUpdateState *)
(* and left update-state.json.tmp: recovery fails from then on, and the    *)
(* job stays as it is.  It is also assumed that the client stays enabled   *)
(* and certified and the release approved until the job has ended.         *)
EveryJobEnds ==
    \A j \in Jobs :
        state[j] \in Open ~> \/ state[j] \in Terminal
                             \/ state[j] = "dispatched" /\ stateTmp

(* A job whose execution was permitted is reported in the end.             *)
DispatchedIsReported ==
    \A j \in Jobs : state[j] = "dispatched" ~> state[j] \in {"succeeded", "failed"}
-----------------------------------------------------------------------------
(* The inductive invariant behind AtMostOnce, PermissionFirst,             *)
(* ResultTruthful, EvidenceKept and ImplementsLifecycle.                   *)

Waiting == {"pollWait", "pkgWait", "startWait", "resultWait"}

Permitted == {"dispatched", "succeeded", "failed"}

(* Which processes can be where. *)
ProcessInv ==
    /\ ExclusiveMutation
    /\ pc["status"] \in {"off"} \cup RecoveryPC
    /\ pc["manual"] \in {"off"} \cup InstallPC
    /\ pc["manual"] # "off" => cur.dir \in ManualDirs

(* The worker waits for one request at a time, and hears only its answer.  *)
RequestInv ==
    /\ \A m, n \in msgs : m.live /\ n.live => m = n
    /\ reply # NoReply => \A m \in msgs : ~m.live
    /\ pc["worker"] \notin Waiting => reply = NoReply /\ \A m \in msgs : ~m.live
    /\ reply.code = "job" => pc["worker"] = "pollWait"
    /\ \A m \in msgs : m.live =>
          /\ m.op \in {"poll", "polled"} => pc["worker"] = "pollWait"
          /\ m.op = "package" => pc["worker"] = "pkgWait"
          /\ m.op = "start" => pc["worker"] = "startWait" /\ m.job = journal.job
          /\ m.op = "result" => pc["worker"] = "resultWait" /\ m.job = journal.job

(* Where the worker is and what its journal says. *)
JournalInv ==
    /\ pc["worker"] = "pollWait" => journal = NoJournal
    /\ pc["worker"] \in {"prepared", "pkgWait", "startWait"} =>
          journal.phase = "prepared"
    /\ pc["worker"] \in InstallPC \cup {"doneOk", "doneFailed", "irRestore"} =>
          journal.phase = "executing" /\ cur.dir = journal.job
    /\ pc["worker"] \in {"irState", "irJournal"} => journal.phase = "executing"
    /\ pc["worker"] \in {"result", "resultWait"} =>
          journal.phase \in {"succeeded", "failed"}

(* A marker of a job belongs to the execution the journal records, and     *)
(* what recovery or rollback is to restore is there.                       *)
MarkerInv ==
    /\ marker # NoPlan /\ marker.dir \in Jobs =>
          journal.phase = "executing" /\ journal.job = marker.dir
    /\ pc["worker"] \in (WorkerPC \ {"doneFailed"}) \cup {"install", "mark"} =>
          marker = NoPlan
    /\ \A p \in Procs : pc[p] \in RecoveryPC => marker # NoPlan /\ cur = marker
    /\ marker # NoPlan => snapshot[marker.dir] # NoSnapshot
    /\ \A p \in Procs : pc[p] \in InstallPC \cup {"irRestore"} => cur \in Plan
    /\ \A p \in Procs : pc[p] \in (InstallPC \ {"install"}) \cup {"irRestore"} =>
          snapshot[cur.dir] # NoSnapshot

(* Which releases were kept. *)
KeptInv ==
    /\ \A j \in kept \cap Jobs : begun[j] = 1 /\ snapshot[j] # NoSnapshot
    /\ pc["worker"] \in InstallPC \cup {"doneFailed", "irState", "irJournal"} =>
          journal.job \notin kept
    /\ pc["worker"] = "doneOk" => journal.job \in kept
    /\ journal.phase = "succeeded" => journal.job \in kept
    /\ journal.phase = "failed" => journal.job \notin kept

NoResult(j) == \A m \in msgs : m.op = "result" => m.job # j

(* What the worker may conclude from a job that a poll read. *)
PollView(j, seen) ==
    begun[j] = 0 /\ NoResult(j) /\ (seen = "dispatched" => state[j] = "dispatched")

(* How the job table, the journal and the requests in flight agree. *)
AgreementInv ==
    /\ \A j \in Jobs : begun[j] > 0 => begun[j] = 1 /\ state[j] \in Permitted
    /\ \A j \in Jobs : begun[j] > 0 /\ state[j] = "dispatched" =>
          journal.phase \in {"executing", "succeeded", "failed"} /\ journal.job = j
    /\ \A j \in Jobs : state[j] = "succeeded" => j \in kept
    /\ \A j \in Jobs : state[j] = "failed" => j \notin kept
    /\ journal.phase = "prepared" => begun[journal.job] = 0 /\ NoResult(journal.job)
    /\ journal.phase = "executing" =>
          state[journal.job] = "dispatched" /\ begun[journal.job] = 1
    /\ journal.phase \in {"succeeded", "failed"} => state[journal.job] \in Permitted
    /\ \A m \in msgs : m.op = "result" =>
          /\ state[m.job] \in Permitted
          /\ state[m.job] = "dispatched" =>
                journal.phase = m.result /\ journal.job = m.job
    /\ pc["worker"] = "resultWait" /\ reply.code = "ok" =>
          state[journal.job] # "dispatched"
    /\ pc["worker"] = "startWait" /\ reply.code = "ok" =>
          state[journal.job] = "dispatched"
    /\ \A m \in msgs : m.live /\ m.op = "polled" => PollView(m.job, m.seen)
    /\ reply.code = "job" => PollView(reply.job, reply.seen)

IInv ==
    /\ TypeOK /\ ProcessInv /\ RequestInv /\ JournalInv /\ MarkerInv /\ KeptInv
    /\ AgreementInv
=============================================================================
