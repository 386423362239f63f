-------------------------- MODULE UpdateStepProofs --------------------------
(***************************************************************************)
(* Proofs about the parts of scheduled updates.  The job store alone keeps *)
(* its types, one open job per client and the audit trail, and no request  *)
(* takes a job back.  Every step of ClientUpdate keeps its inductive       *)
(* invariant: administration, restarts and handlers of the server, the     *)
(* installation transaction, whichever process takes its steps, and the    *)
(* worker with its journal and its requests.  The installer without the    *)
(* worker leaves no mix of two releases that recovery could not undo.      *)
(***************************************************************************)
EXTENDS ClientUpdate, TLAPS

(* Leaves are proved by Zenon, unless they name their provers: SMT, and    *)
(* then Z3, where arithmetic or sequences matter; PTL for temporal steps.  *)
USE ZenonT(100)

-----------------------------------------------------------------------------
(* Numbers and trails *)

LEMMA ZeroIsNat == 0 \in Nat /\ ~(0 > 0)
  BY SMT, Z3

LEMMA LeqReflexive == \A a \in Nat : a <= a /\ ~(a > a)
  BY SMT, Z3

LEMMA LeqTransitive == \A a, b, c \in Nat : a <= b /\ b <= c => a <= c
  BY SMT, Z3

LEMMA LeqLess == \A a, b, c \in Nat : a <= b /\ b < c => a < c
  BY SMT, Z3

LEMMA LessOrLeq == \A a, b \in Nat : (a < b => a <= b) /\ (~(a < b) => b <= a)
  BY SMT, Z3

LEMMA ZeroUpTo == \A a \in Nat : 0 \in 0..a
  BY SMT, Z3

LEMMA EarlierThan == \A a \in Nat : \A b \in 0..a : \A t \in 0..b : t \in 0..a /\ t <= b
  BY SMT, Z3

LEMMA LaterThan == \A a, b \in Nat : \A t \in a..b : t \in 0..b
  BY SMT, Z3

LEMMA UpToItself == \A a \in Nat : \A b \in 0..a : b \in Nat /\ b \in 0..b
  BY SMT, Z3

LEMMA AtMostOne == \A a \in Nat : (a > 0 => a = 1) => a <= 1
  BY SMT, Z3

LEMMA SecondEvent ==
    \A s, c : s = <<"scheduled", "dispatched">> \/ s = <<"scheduled", "dispatched", c>> =>
              Len(s) >= 2 /\ s[2] = "dispatched"
  BY SMT, Z3

-----------------------------------------------------------------------------
(* The job store *)

(* The inductive invariant of the store.                                   *)
JobsInv == JobsTypeOK /\ OneOpenJob /\ AuditTrail

(* Trails are equal when they have the same events. *)
LEMMA SameTrail ==
    ASSUME NEW S, NEW s \in Seq(S), NEW t \in Seq(S), Len(s) = Len(t),
           \A i \in 1..Len(s) : s[i] = t[i]
    PROVE  s = t
BY SMT, Z3

(* What Append makes of the two shortest trails.                           *)
LEMMA AppendToOne ==
    ASSUME NEW S, NEW a \in S, NEW b \in S
    PROVE  Append(<<a>>, b) = <<a, b>>
<1> DEFINE s == Append(<<a>>, b)  t == <<a, b>>
<1>1. <<a>> \in Seq(S) /\ t \in Seq(S) /\ s \in Seq(S)
  BY SMT, Z3
<1>2. Len(s) = 2 /\ Len(t) = 2
  BY SMT, Z3, <1>1
<1>3. s[1] = a /\ s[2] = b
  BY SMT, Z3, <1>1
<1>4. \A i \in 1 .. 2 : s[i] = t[i]
  BY SMT, Z3, <1>3
<1> HIDE DEF s, t
<1>5. s = t
  BY <1>1, <1>2, <1>4, SameTrail
<1>6. QED
  BY <1>5 DEF s, t

LEMMA AppendToTwo ==
    ASSUME NEW S, NEW a \in S, NEW b \in S, NEW c \in S
    PROVE  Append(<<a,b>>, c) = <<a, b, c>>
<1> DEFINE s == Append(<<a, b>>, c)  t == <<a, b, c>>
<1>1. <<a, b>> \in Seq(S) /\ t \in Seq(S) /\ s \in Seq(S)
  BY SMT, Z3
<1>2. Len(s) = 3 /\ Len(t) = 3
  BY SMT, Z3, <1>1
<1>3. s[1] = a /\ s[2] = b /\ s[3] = c
  BY SMT, Z3, <1>1
<1>4. \A i \in 1 .. 3 : s[i] = t[i]
  BY SMT, Z3, <1>3
<1> HIDE DEF s, t
<1>5. s = t
  BY <1>1, <1>2, <1>4, SameTrail
<1>6. QED
  BY <1>5 DEF s, t

(* The row of changeUpdateJob and its audit event keep the types of the    *)
(* tables, one open job per client and the trails.                         *)
LEMMA ChangeKeepsTypes ==
    ASSUME JobsTypeOK,
           NEW j \in Jobs, NEW c \in Clients, NEW to \in JobState, NEW r \in BOOLEAN,
           NEW t \in 0..MaxTime, ChangeUpdateJob(j, c, to, r, t)
    PROVE  JobsTypeOK'
<1>0. granted' \in [Jobs -> 0..MaxTime]
  <2>1. 0 \in 0..MaxTime
    BY MaxTimeAssumption, ZeroUpTo
  <2>2. QED
    BY <2>1 DEF ChangeUpdateJob, JobsTypeOK
<1>1. audit' \in [Jobs -> Seq(JobState)]
  BY SMT, Z3 DEF ChangeUpdateJob, JobsTypeOK
<1>2. state' \in [Jobs -> JobState \cup {"absent"}] /\ rb' \in [Jobs -> BOOLEAN]
  BY DEF ChangeUpdateJob, JobsTypeOK
<1>3. \A i \in Jobs : state'[i] # "absent" => req'[i] \in Request
  BY DEF ChangeUpdateJob, CanChange, JobsTypeOK
<1>4. QED
  BY <1>0, <1>1, <1>2, <1>3 DEF ChangeUpdateJob, accessVars, JobsTypeOK

LEMMA ChangeKeepsOneOpen ==
    ASSUME JobsTypeOK, OneOpenJob,
           NEW j \in Jobs, NEW c \in Clients, NEW to \in JobState \ {"scheduled"},
           NEW r \in BOOLEAN, NEW t, ChangeUpdateJob(j, c, to, r, t)
    PROVE  OneOpenJob'
<1>1. to \in Open => state[j] \in Open
  BY DEF ChangeUpdateJob, CanChange, Transition, Open
<1>2. QED
  BY <1>1 DEF ChangeUpdateJob, OneOpenJob, JobsTypeOK

LEMMA ChangeKeepsTrail ==
    ASSUME JobsTypeOK, AuditTrail,
           NEW j \in Jobs, NEW c \in Clients, NEW to \in JobState, NEW r \in BOOLEAN,
           NEW t, ChangeUpdateJob(j, c, to, r, t)
    PROVE  AuditTrail'
<1>1. CASE state[j] = to
  BY <1>1 DEF ChangeUpdateJob, AuditTrail, JobsTypeOK
<1>2. CASE state[j] # to
  <2>1. Transition(j, to, t)
    BY <1>2 DEF ChangeUpdateJob, CanChange
  <2>2. audit' = [audit EXCEPT ![j] = Append(@, to)] /\ state' = [state EXCEPT ![j] = to]
    BY <1>2 DEF ChangeUpdateJob
  <2>3. CASE state[j] = "scheduled"
    <3>1. to \in {"cancelled", "expired", "dispatched"}
      BY <2>1, <2>3 DEF Transition
    <3>2. audit'[j] = <<"scheduled", to>>
      <4>1. audit'[j] = Append(audit[j], to)
        BY <2>2 DEF JobsTypeOK
      <4>2. audit[j] = <<"scheduled">>
        BY <2>3 DEF AuditTrail
      <4>3. "scheduled" \in JobState
        BY DEF JobState, Open
      <4>4. QED
        BY <4>1, <4>2, <4>3, AppendToOne
    <3>3. QED
      BY <2>2, <3>1, <3>2 DEF AuditTrail, JobsTypeOK
  <2>4. CASE state[j] = "dispatched"
    <3>1. to \in {"succeeded", "failed"}
      BY <2>1, <2>4 DEF Transition
    <3>2. audit'[j] = <<"scheduled", "dispatched", to>>
      <4>1. audit'[j] = Append(audit[j], to)
        BY <2>2 DEF JobsTypeOK
      <4>2. audit[j] = <<"scheduled", "dispatched">>
        BY <2>4 DEF AuditTrail
      <4>3. "scheduled" \in JobState /\ "dispatched" \in JobState
        BY DEF JobState, Open
      <4>4. QED
        BY <4>1, <4>2, <4>3, AppendToTwo
    <3>3. QED
      BY <2>2, <3>1, <3>2 DEF AuditTrail, JobsTypeOK
  <2>5. QED
    BY <2>1, <2>3, <2>4 DEF Transition
<1>3. QED
  BY <1>1, <1>2

(* The row of createUpdateJob, with the expiry of overdue predecessors.    *)
LEMMA CreateKeepsTypes ==
    ASSUME JobsTypeOK, NEW j \in Jobs, NEW r \in Request, NEW t,
           CreateUpdateJob(j, r, t)
    PROVE  JobsTypeOK'
<1>1. audit' \in [Jobs -> Seq(JobState)]
  <2>1. "expired" \in JobState /\ "scheduled" \in JobState
    BY DEF JobState, Open, Terminal
  <2>2. <<"scheduled">> \in Seq(JobState)
    BY SMT, Z3, <2>1
  <2>3. \A p \in Jobs : Append(audit[p], "expired") \in Seq(JobState)
    BY SMT, Z3, <2>1 DEF JobsTypeOK
  <2>4. QED
    BY <2>2, <2>3 DEF CreateUpdateJob, JobsTypeOK
<1>2. state' \in [Jobs -> JobState \cup {"absent"}]
  BY DEF CreateUpdateJob, JobsTypeOK, JobState, Open, Terminal
<1>3. req' \in [Jobs -> Request \cup {NoRequest}]
  BY DEF CreateUpdateJob, JobsTypeOK
<1>4. \A p \in Jobs : state'[p] # "absent" => req'[p] \in Request
  BY DEF CreateUpdateJob, JobsTypeOK, Overdue
<1>5. QED
  BY <1>1, <1>2, <1>3, <1>4 DEF CreateUpdateJob, accessVars, JobsTypeOK

LEMMA CreateKeepsOneOpen ==
    ASSUME JobsTypeOK, OneOpenJob, NEW j \in Jobs, NEW r \in Request, NEW t,
           CreateUpdateJob(j, r, t)
    PROVE  OneOpenJob'
<1>1. \A p \in Jobs : state'[p] \in Open /\ p # j =>
         state[p] \in Open /\ p \notin Overdue(r.client, t) /\ req'[p] = req[p]
  BY DEF CreateUpdateJob, JobsTypeOK, Open
<1>2. req'[j] = r
  BY DEF CreateUpdateJob, JobsTypeOK
<1>3. QED
  BY SMT, Z3, <1>1, <1>2 DEF CreateUpdateJob, OneOpenJob

LEMMA CreateKeepsTrail ==
    ASSUME JobsTypeOK, AuditTrail, NEW j \in Jobs, NEW r \in Request, NEW t,
           CreateUpdateJob(j, r, t)
    PROVE  AuditTrail'
<1>1. ASSUME NEW p \in Jobs, p # j, p \in Overdue(r.client, t)
      PROVE  state'[p] = "expired" /\ audit'[p] = <<"scheduled", "expired">>
  <2>1. audit[p] = <<"scheduled">>
    BY <1>1 DEF Overdue, AuditTrail
  <2>2. "scheduled" \in JobState /\ "expired" \in JobState
    BY DEF JobState, Open, Terminal
  <2>3. audit'[p] = Append(audit[p], "expired") /\ state'[p] = "expired"
    BY <1>1 DEF CreateUpdateJob
  <2>4. QED
    BY <2>1, <2>2, <2>3, AppendToOne
<1>2. \A p \in Jobs : p # j /\ p \notin Overdue(r.client, t) =>
         state'[p] = state[p] /\ audit'[p] = audit[p]
  BY DEF CreateUpdateJob
<1>3. state'[j] = "scheduled" /\ audit'[j] = <<"scheduled">>
  BY DEF CreateUpdateJob
<1>4. QED
  BY <1>1, <1>2, <1>3 DEF AuditTrail

(* What leaves the store alone keeps its types. *)
LEMMA JobsTypeKept ==
    ASSUME JobsTypeOK, UNCHANGED serverVars
    PROVE  JobsTypeOK'
<1>1. UNCHANGED <<state, req, rb, audit, granted>>
  BY DEF serverVars
<1>2. UNCHANGED <<enabled, certified, catalog, now>>
  BY DEF serverVars, accessVars
<1>3. QED
  BY <1>1, <1>2 DEF JobsTypeOK

(* Every step of the store keeps the invariant, whoever takes it.          *)
LEMMA JobsStep == JobsInv /\ [JobsNext]_serverVars => JobsInv'
<1> SUFFICES ASSUME JobsInv, [JobsNext]_serverVars PROVE JobsInv'
  OBVIOUS
<1> USE DEF JobsInv
<1>0. /\ {"dispatched", "expired", "cancelled", "succeeded", "failed"}
            \subseteq JobState \ {"scheduled"}
      /\ TRUE \in BOOLEAN /\ FALSE \in BOOLEAN /\ now \in 0..now
  BY MaxTimeAssumption, UpToItself DEF JobState, Open, Terminal, JobsTypeOK
<1>1. ASSUME NEW j \in Jobs, NEW r \in Request, NEW t, ScheduleClientUpdate(j, r, t)
      PROVE  JobsInv'
  BY <1>1, CreateKeepsTypes, CreateKeepsOneOpen, CreateKeepsTrail
     DEF ScheduleClientUpdate
<1>2. ASSUME NEW j \in Jobs, NEW c \in Clients, NEW to \in JobState \ {"scheduled"},
             NEW r \in BOOLEAN, NEW t \in 0..now, ChangeUpdateJob(j, c, to, r, t)
      PROVE  JobsInv'
  <2>1. t \in 0..MaxTime
    BY MaxTimeAssumption, EarlierThan DEF JobsTypeOK
  <2>2. QED
    BY <1>2, <2>1, ChangeKeepsTypes, ChangeKeepsOneOpen, ChangeKeepsTrail
<1>3. ASSUME NEW j \in Jobs, CancelClientUpdate(j)
      PROVE  JobsInv'
  <2>1. req[j].client \in Clients
    BY <1>3 DEF CancelClientUpdate, JobsTypeOK, Request
  <2>2. QED
    BY <1>0, <1>2, <1>3, <2>1 DEF CancelClientUpdate
<1>4. ASSUME NEW j \in Jobs, NEW c \in Clients,
             ExpireOnPoll(j, c) \/ \E t \in 0..now : StartClientUpdate(j, c, t)
      PROVE  JobsInv'
  BY <1>0, <1>2, <1>4 DEF ExpireOnPoll, StartClientUpdate
<1>5. ASSUME NEW j \in Jobs, NEW c \in Clients, NEW result \in {"succeeded", "failed"},
             NEW r \in BOOLEAN, FinishClientUpdate(j, c, result, r)
      PROVE  JobsInv'
  BY <1>0, <1>2, <1>5 DEF FinishClientUpdate
<1>6. ASSUME NEW c \in Clients, SetEnabled(c) \/ SetCertified(c)
      PROVE  JobsInv'
  <2>1. UNCHANGED <<state, req, rb, audit, granted, catalog, now>>
    BY <1>6 DEF SetEnabled, SetCertified
  <2>2. enabled' \in [Clients -> BOOLEAN] /\ certified' \in [Clients -> BOOLEAN]
    BY <1>6 DEF SetEnabled, SetCertified, JobsTypeOK
  <2>3. QED
    BY <2>1, <2>2 DEF JobsTypeOK, OneOpenJob, AuditTrail
<1>7. ASSUME NEW approved \in SUBSET Releases, LoadCatalog(approved)
      PROVE  JobsInv'
  BY <1>7 DEF LoadCatalog, JobsTypeOK, OneOpenJob, AuditTrail
<1>8. CASE Tick
  BY SMT, Z3, <1>8, MaxTimeAssumption DEF Tick, JobsTypeOK, OneOpenJob, AuditTrail
<1>9. CASE UNCHANGED serverVars
  BY <1>9 DEF serverVars, accessVars, JobsTypeOK, OneOpenJob, AuditTrail
<1>10. QED
  BY <1>1, <1>3, <1>4, <1>5, <1>6, <1>7, <1>8, <1>9 DEF JobsNext

LEMMA JobsStart == JobsInit => JobsInv
<1> SUFFICES ASSUME JobsInit PROVE JobsInv
  OBVIOUS
<1>1. JobsTypeOK
  BY SMT, Z3, MaxTimeAssumption DEF JobsInit, JobsTypeOK
<1>2. OneOpenJob /\ AuditTrail
  BY DEF JobsInit, OneOpenJob, AuditTrail, Open
<1>3. QED
  BY <1>1, <1>2 DEF JobsInv

(* In every run of the store the tables are well typed, a client has at    *)
(* most one open job, and the audit trail of a job is its life.            *)
THEOREM JobsInvariant == JobsSpec => [](JobsTypeOK /\ OneOpenJob /\ AuditTrail)
<1>1. JobsInv => JobsTypeOK /\ OneOpenJob /\ AuditTrail
  BY DEF JobsInv
<1>2. QED
  BY <1>1, JobsStart, JobsStep, PTL DEF JobsSpec

(* What a step of the store can do to one job. *)
Advances(j) ==
    /\ state[j] \in Terminal => state'[j] = state[j] /\ rb'[j] = rb[j]
    /\ state[j] = "dispatched" => state'[j] \in {"dispatched", "succeeded", "failed"}
    /\ state[j] # "absent" => state'[j] # "absent" /\ req'[j] = req[j]

LEMMA StepAdvances ==
    ASSUME JobsTypeOK, [JobsNext]_serverVars, NEW i \in Jobs
    PROVE  Advances(i)
<1>1. ASSUME NEW j \in Jobs, NEW c \in Clients, NEW to \in JobState \ {"scheduled"},
             NEW r \in BOOLEAN, NEW t, ChangeUpdateJob(j, c, to, r, t)
      PROVE  Advances(i)
  BY <1>1 DEF ChangeUpdateJob, CanChange, Transition, Advances, Terminal, JobsTypeOK
<1>2. ASSUME NEW j \in Jobs, NEW r \in Request, NEW t, ScheduleClientUpdate(j, r, t)
      PROVE  Advances(i)
  BY <1>2 DEF ScheduleClientUpdate, CreateUpdateJob, Overdue, Advances, Terminal, JobsTypeOK
<1>3. CASE UNCHANGED <<state, req, rb>>
  BY <1>3 DEF Advances
<1>4. /\ {"dispatched", "expired", "cancelled", "succeeded", "failed"}
            \subseteq JobState \ {"scheduled"}
      /\ FALSE \in BOOLEAN
  BY DEF JobState, Open, Terminal
<1>5. ASSUME NEW j \in Jobs, CancelClientUpdate(j)
      PROVE  Advances(i)
  <2>1. req[j].client \in Clients
    BY <1>5 DEF CancelClientUpdate, JobsTypeOK, Request
  <2>2. QED
    BY <1>1, <1>4, <1>5, <2>1 DEF CancelClientUpdate
<1>6. ASSUME NEW j \in Jobs, NEW c \in Clients,
             ExpireOnPoll(j, c) \/ \E t : StartClientUpdate(j, c, t)
      PROVE  Advances(i)
  BY <1>1, <1>4, <1>6 DEF ExpireOnPoll, StartClientUpdate
<1>7. ASSUME NEW j \in Jobs, NEW c \in Clients, NEW result \in {"succeeded", "failed"},
             NEW r \in BOOLEAN, FinishClientUpdate(j, c, result, r)
      PROVE  Advances(i)
  BY <1>1, <1>4, <1>7 DEF FinishClientUpdate
<1>8. QED
  BY <1>2, <1>3, <1>5, <1>6, <1>7 DEF JobsNext, SetEnabled, SetCertified,
     LoadCatalog, Tick, serverVars

(* No request in any order reopens a finished job, takes a permission back *)
(* or changes what was scheduled.                                          *)
THEOREM JobsOnlyAdvance == JobsSpec => LifecycleOnlyAdvances
<1>1. JobsTypeOK /\ [JobsNext]_serverVars =>
        [\A j \in Jobs :
            /\ state[j] \in Terminal => state'[j] = state[j] /\ rb'[j] = rb[j]
            /\ state[j] = "dispatched" =>
                  state'[j] \in {"dispatched", "succeeded", "failed"}
            /\ state[j] # "absent" => req'[j] = req[j]]_serverVars
  BY StepAdvances DEF Advances
<1>2. QED
  BY <1>1, JobsInvariant, PTL DEF JobsSpec, LifecycleOnlyAdvances

(* What a start commits: only StartClientUpdate dispatches a job.          *)
LEMMA StepDispatches ==
    ASSUME JobsTypeOK, [JobsNext]_serverVars, NEW i \in Jobs,
           state[i] # "dispatched", state'[i] = "dispatched"
    PROVE  /\ req[i].notBefore <= granted'[i] /\ granted'[i] < req[i].expiresAt
           /\ granted'[i] <= now
           /\ enabled[req[i].client] /\ req[i].release \in catalog
           /\ req[i].release \in GreeterReleases => req[i].maintenance
<1>1. ASSUME NEW j \in Jobs, NEW to, state' = [state EXCEPT ![j] = to]
      PROVE  i = j /\ to = "dispatched"
  BY <1>1 DEF JobsTypeOK
<1>2. ASSUME NEW j \in Jobs, NEW r \in Request, NEW t, ScheduleClientUpdate(j, r, t)
      PROVE  FALSE
  BY <1>2 DEF ScheduleClientUpdate, CreateUpdateJob
<1>3. state' # state
  OBVIOUS
<1>4. PICK c \in Clients, t \in 0..now : StartClientUpdate(i, c, t)
  <2>1. JobsNext
    BY <1>3 DEF serverVars
  <2>2. ASSUME NEW j \in Jobs, CancelClientUpdate(j) PROVE FALSE
    <3>1. state' = [state EXCEPT ![j] = "cancelled"]
      BY <2>2 DEF CancelClientUpdate, ChangeUpdateJob
    <3>2. "cancelled" = "dispatched"
      BY <1>1, <3>1
    <3>3. QED
      BY <3>2
  <2>3. ASSUME NEW j \in Jobs, NEW c \in Clients, ExpireOnPoll(j, c) PROVE FALSE
    <3>1. state' = [state EXCEPT ![j] = "expired"]
      BY <2>3 DEF ExpireOnPoll, ChangeUpdateJob
    <3>2. "expired" = "dispatched"
      BY <1>1, <3>1
    <3>3. QED
      BY <3>2
  <2>4. \A j \in Jobs, c \in Clients, result \in {"succeeded", "failed"}, r \in BOOLEAN :
            ~FinishClientUpdate(j, c, result, r)
    BY <1>1 DEF FinishClientUpdate, ChangeUpdateJob
  <2>5. \A j \in Jobs, c \in Clients, t \in 0..now : StartClientUpdate(j, c, t) => i = j
    BY <1>1 DEF StartClientUpdate, ChangeUpdateJob
  <2>6. (\E c \in Clients : SetEnabled(c) \/ SetCertified(c)) \/ Tick => FALSE
    BY <1>3 DEF SetEnabled, SetCertified, Tick
  <2>7. \A approved : ~LoadCatalog(approved)
    BY <1>3 DEF LoadCatalog
  <2> QED BY <1>2, <2>1, <2>2, <2>3, <2>4, <2>5, <2>6, <2>7 DEF JobsNext
<1>5. /\ req[i].client = c /\ enabled[c] /\ ApprovedJob(i)
      /\ Transition(i, "dispatched", t)
  BY <1>4 DEF StartClientUpdate, StartAllowed, CanChange
<1>6. granted'[i] = t
  BY <1>4 DEF StartClientUpdate, ChangeUpdateJob, JobsTypeOK
<1>7. t <= now
  BY MaxTimeAssumption, EarlierThan DEF JobsTypeOK
<1> QED BY <1>5, <1>6, <1>7 DEF ApprovedJob, Transition

(* Permission is given at a clock reading inside the window of a job only, *)
(* to a client that is enabled and for a release that is approved when the *)
(* start commits (changeUpdateJob, startClientUpdate).                     *)
THEOREM JobsStartInWindow == JobsSpec => DispatchedInWindow
<1>1. JobsTypeOK /\ [JobsNext]_serverVars =>
        [\A j \in Jobs :
            state[j] # "dispatched" /\ state'[j] = "dispatched" =>
                /\ req[j].notBefore <= granted'[j] /\ granted'[j] < req[j].expiresAt
                /\ granted'[j] <= now
                /\ enabled[req[j].client] /\ req[j].release \in catalog
                /\ req[j].release \in GreeterReleases => req[j].maintenance]_serverVars
  BY StepDispatches
<1> QED BY <1>1, JobsInvariant, PTL DEF JobsSpec, DispatchedInWindow

-----------------------------------------------------------------------------
(* Requests, the lock and faults *)

(* Which fields a message has. *)
LEMMA MessageFields ==
    ASSUME NEW m \in Message
    PROVE  /\ m.live \in BOOLEAN
           /\ m.op \in {"poll", "polled", "package", "start", "result"}
           /\ m.op # "poll" => m.job \in Jobs
           /\ m.op = "polled" => m.seen \in Open
           /\ m.op = "start" => m.at \in 0..MaxTime
           /\ m.op = "result" => m.result \in {"succeeded", "failed"} /\ m.rb \in BOOLEAN
  BY DEF Message

(* The requests of the worker. *)
LEMMA PollRequests ==
    PollRequest \in Message /\ PollRequest.live /\ PollRequest.op = "poll"
  BY DEF Message, PollRequest

LEMMA PackageRequests ==
    ASSUME NEW j \in Jobs, NEW m, m = PackageRequest(j)
    PROVE  m \in Message /\ m.live /\ m.op = "package" /\ m.job = j
  BY DEF Message, PackageRequest

LEMMA StartRequests ==
    ASSUME NEW j \in Jobs, NEW m, m = StartRequest(j)
    PROVE  m \in Message /\ m.live /\ m.op = "start" /\ m.job = j
<1>1. 0 \in 0..MaxTime
  BY MaxTimeAssumption, ZeroUpTo
<1>2. QED
  BY <1>1 DEF Message, StartRequest

(* A request that was let pass is the same request. *)
LEMMA PassedMessage ==
    ASSUME NEW m \in Message, m.op \in {"start", "result"}, now \in 0..MaxTime,
           NEW n, n = Passed(m)
    PROVE  /\ n \in Message /\ n.live = m.live /\ n.op = m.op /\ n.job = m.job
           /\ m.op = "result" => n.result = m.result
<1>1. CASE m.op = "start"
  <2>1. m \in [op : {"start"}, live : BOOLEAN, auth : BOOLEAN, job : Jobs, at : 0..MaxTime]
    BY <1>1 DEF Message
  <2>2. n = [m EXCEPT !.auth = TRUE, !.at = now]
    BY <1>1 DEF Passed
  <2>3. QED
    BY <1>1, <2>1, <2>2 DEF Message
<1>2. CASE m.op = "result"
  <2>1. m \in [op : {"result"}, live : BOOLEAN, auth : BOOLEAN, job : Jobs,
               result : {"succeeded", "failed"}, rb : BOOLEAN]
    BY <1>2 DEF Message
  <2>2. n = [m EXCEPT !.auth = TRUE]
    BY <1>2 DEF Passed
  <2>3. QED
    BY <1>2, <2>1, <2>2 DEF Message
<1>3. QED
  BY <1>1, <1>2

LEMMA ReplyFields ==
    ASSUME NEW r \in Reply, r.code = "job"
    PROVE  r.job \in Jobs /\ r.seen \in Open
  BY DEF Reply

(* A request that loses its worker is still a request, and the same one.   *)
LEMMA AbandonedMessage ==
    ASSUME NEW m \in Message
    PROVE  LET n == [m EXCEPT !.live = FALSE]
           IN  /\ n \in Message /\ ~n.live /\ n.op = m.op
               /\ m.op # "poll" => n.job = m.job
               /\ m.op = "result" => n.result = m.result
  BY DEF Message

(* The lock admits one process: the others are off. *)
LEMMA Alone ==
    ASSUME ExclusiveMutation, NEW p \in Procs, pc[p] # "off"
    PROVE  lock = p /\ \A q \in Procs \ {p} : pc[q] = "off"
  BY DEF ExclusiveMutation

(* What is left of a process that dies. *)
LEMMA DiesEffect ==
    ASSUME InstallTypeOK, NEW p \in Procs, Dies(p)
    PROVE  /\ faults' \in 0..MaxFaults /\ stateTmp' \in BOOLEAN /\ markTmp' \in BOOLEAN
           /\ pc' = [pc EXCEPT ![p] = "off"] /\ lock' = "none"
<1>1. /\ faults' \in 0..MaxFaults
      /\ pc' = [pc EXCEPT ![p] = "off"] /\ lock' = "none"
  BY SMT, Z3, MaxFaultsAssumption DEF Dies, Exit, InstallTypeOK
<1>2. stateTmp' = stateTmp \/ stateTmp' = TRUE
  BY DEF Dies
<1>3. markTmp' = markTmp \/ markTmp' = TRUE
  BY DEF Dies
<1>4. QED
  BY <1>1, <1>2, <1>3 DEF InstallTypeOK

(* A process moves, and no other does. *)
LEMMA MovesTo ==
    ASSUME TypeOK, NEW p \in Procs, NEW l \in PCs, pc' = [pc EXCEPT ![p] = l]
    PROVE  /\ pc' \in [Procs -> PCs] /\ pc'[p] = l
           /\ \A q \in Procs \ {p} : pc'[q] = pc[q]
<1>1. pc \in [Procs -> PCs]
  BY DEF TypeOK, InstallTypeOK
<1>2. QED
  BY <1>1

(* An absent journal has no phase. *)
LEMMA NothingJournaled == NoJournal.phase = "none"
  BY DEF NoJournal

(* What is installed has a release. *)
LEMMA PlanRelease == \A x \in Plan \cup {NoPlan} : x.rel \in Nat
<1>1. NoPlan.rel = 0 /\ 0 \in Nat
  BY SMT, Z3 DEF NoPlan
<1>2. \A x \in Plan : x.rel \in Nat
  BY DEF Plan
<1>3. QED
  BY <1>1, <1>2

(* A fault is counted. *)
LEMMA FaultCounted ==
    ASSUME faults \in 0..MaxFaults, faults < MaxFaults, faults' = faults + 1
    PROVE  faults' \in 0..MaxFaults
  BY SMT, Z3, MaxFaultsAssumption

(* A snapshot of a directory is written, or fails to be. *)
LEMMA SnapshotGrows ==
    ASSUME TypeOK, cur \in Plan,
           \/ snapshot' = snapshot
           \/ snapshot' = [snapshot EXCEPT ![cur.dir] = [files |-> target, rel |-> cur.rel]]
    PROVE  /\ \A d \in Dirs : snapshot[d] # NoSnapshot => snapshot'[d] # NoSnapshot
           /\ snapshot' \in [Dirs -> Snapshot \cup {NoSnapshot}]
           /\ snapshot' # snapshot => snapshot'[cur.dir] # NoSnapshot
<1> DEFINE s == [files |-> target, rel |-> cur.rel]
<1>1. s \in Snapshot /\ s # NoSnapshot
  BY DEF TypeOK, InstallTypeOK, Snapshot, Plan, NoSnapshot
<1>2. cur.dir \in Dirs /\ snapshot \in [Dirs -> Snapshot \cup {NoSnapshot}]
  BY DEF TypeOK, InstallTypeOK, Plan
<1>3. snapshot' = snapshot \/ snapshot' = [snapshot EXCEPT ![cur.dir] = s]
  OBVIOUS
<1> HIDE DEF s
<1>4. QED
  BY <1>1, <1>2, <1>3

(* A marker stays what it was while no process begins to install.          *)
LEMMA MarkerFrame ==
    ASSUME MarkerInv, UNCHANGED <<marker, cur, snapshot, journal>>,
           \A q \in Procs :
              /\ pc'[q] \in RecoveryPC => pc[q] \in RecoveryPC
              /\ pc'[q] \in InstallPC \cup {"irRestore"} =>
                    pc[q] \in (InstallPC \ {"install"}) \cup {"irRestore"},
           pc'["worker"] \in (WorkerPC \ {"doneFailed"}) \cup {"install", "mark"} => marker = NoPlan
    PROVE  MarkerInv'
  BY DEF MarkerInv

(* A release of a job that was not begun is not kept.                      *)
LEMMA NotKept ==
    ASSUME KeptInv, NEW j \in Jobs, begun[j] = 0
    PROVE  j \notin kept
<1>1. begun[j] # 1
  BY SMT, Z3
<1>2. QED
  BY <1>1 DEF KeptInv

(* An execution that the server waits for, and a result on its way, are    *)
(* those of the journal.                                                   *)
LEMMA OwedIsJournaled ==
    ASSUME TypeOK, AgreementInv
    PROVE  /\ \A j \in Jobs : begun[j] > 0 =>
                 /\ begun[j] = 1 /\ state[j] \in Permitted
                 /\ state[j] = "dispatched" =>
                       journal.phase \in {"executing", "succeeded", "failed"} /\ journal.job = j
           /\ \A m \in msgs : m.op = "result" =>
                 /\ m.job \in Jobs /\ m.result \in {"succeeded", "failed"}
                 /\ state[m.job] \in Permitted
                 /\ state[m.job] = "dispatched" => journal.phase = m.result /\ journal.job = m.job
<1>1. \A m \in msgs : m.op = "result" => m.job \in Jobs /\ m.result \in {"succeeded", "failed"}
  BY MessageFields DEF TypeOK
<1>2. QED
  BY <1>1 DEF AgreementInv

(* An open job is not begun while nothing is journaled.                    *)
LEMMA NotBegun ==
    ASSUME TypeOK, AgreementInv, journal = NoJournal, NEW j \in Jobs, state[j] \in Open
    PROVE  begun[j] = 0 /\ NoResult(j)
<1>1. journal.phase = "none"
  BY DEF NoJournal
<1>2. state[j] \in Permitted => state[j] = "dispatched"
  BY DEF Open, Permitted
<1>3. ~(begun[j] > 0)
  BY <1>1, <1>2, OwedIsJournaled
<1>4. begun[j] = 0
  <2>1. begun[j] \in Nat
    BY DEF TypeOK
  <2>2. QED
    BY SMT, Z3, <1>3, <2>1
<1>5. NoResult(j)
  BY <1>1, <1>2, OwedIsJournaled DEF NoResult
<1>6. QED
  BY <1>4, <1>5

(* A step after which the same jobs are begun, finished and journaled.     *)
LEMMA AgreementFrame ==
    ASSUME AgreementInv, UNCHANGED <<state, journal, begun, kept>>,
           \A n \in msgs' : n.op = "result" =>
              /\ state[n.job] \in Permitted
              /\ state[n.job] = "dispatched" => journal.phase = n.result /\ journal.job = n.job,
           journal.phase = "prepared" => NoResult(journal.job)',
           \A n \in msgs' : n.live /\ n.op = "polled" => PollView(n.job, n.seen)',
           reply'.code = "job" => PollView(reply.job, reply.seen)',
           pc'["worker"] = "resultWait" /\ reply'.code = "ok" => state[journal.job] # "dispatched",
           pc'["worker"] = "startWait" /\ reply'.code = "ok" => state[journal.job] = "dispatched"
    PROVE  AgreementInv'
  BY DEF AgreementInv

(* The results under way are among the earlier ones.                       *)
LEMMA ResultsRemain ==
    ASSUME AgreementInv, UNCHANGED <<state, journal, begun>>,
           \A n \in msgs' : n.op = "result" =>
              \E m \in msgs : m.op = "result" /\ m.job = n.job /\ m.result = n.result
    PROVE  /\ \A n \in msgs' : n.op = "result" =>
                 /\ state[n.job] \in Permitted
                 /\ state[n.job] = "dispatched" => journal.phase = n.result /\ journal.job = n.job
           /\ \A j : NoResult(j) => NoResult(j)'
           /\ \A j, seen : PollView(j, seen) => PollView(j, seen)'
           /\ journal.phase = "prepared" => NoResult(journal.job)'
<1>1. \A j : NoResult(j) => NoResult(j)'
  BY DEF NoResult
<1>2. \A j, seen : PollView(j, seen) => PollView(j, seen)'
  BY <1>1 DEF PollView
<1>3. \A n \in msgs' : n.op = "result" =>
         /\ state[n.job] \in Permitted
         /\ state[n.job] = "dispatched" => journal.phase = n.result /\ journal.job = n.job
  BY DEF AgreementInv
<1>4. journal.phase = "prepared" => NoResult(journal.job)'
  BY <1>1 DEF AgreementInv
<1>5. QED
  BY <1>1, <1>2, <1>3, <1>4

(* What the device holds is untouched. *)
LEMMA DeviceUntouched ==
    ASSUME ProcessInv, JournalInv, MarkerInv, KeptInv,
           UNCHANGED <<localVars, fileVars, kept, journal, begun>>
    PROVE  ProcessInv' /\ JournalInv' /\ MarkerInv' /\ KeptInv'
<1> USE DEF localVars, fileVars
<1>1. ProcessInv'
  BY DEF ProcessInv, ExclusiveMutation
<1>2. JournalInv'
  BY DEF JournalInv
<1>3. MarkerInv'
  BY DEF MarkerInv
<1>4. KeptInv'
  BY DEF KeptInv
<1>5. QED
  BY <1>1, <1>2, <1>3, <1>4

(* An answer reaches the worker that waits for it, or nobody. *)
LEMMA AnswerKeepsRequests ==
    ASSUME TypeOK, RequestInv, NEW m \in msgs, NEW r \in Reply,
           r.code = "job" => m.op = "polled",
           Answer(m, r), UNCHANGED <<pc, journal>>
    PROVE  RequestInv' /\ msgs' \in SUBSET Message /\ reply' \in Reply
<1>1. m.live \in BOOLEAN /\ m.op \in {"poll", "polled", "package", "start", "result"}
  BY MessageFields DEF TypeOK
<1>2. msgs' \in SUBSET Message /\ reply' \in Reply
  BY <1>1 DEF Answer, TypeOK
<1>3. RequestInv'
  BY <1>1 DEF RequestInv, Answer, TypeOK, Waiting
<1>4. QED
  BY <1>2, <1>3

LEMMA Codes ==
    ASSUME NEW c \in {"empty", "ok", "gone", "error"}
    PROVE  Code(c) \in Reply /\ Code(c).code = c /\ Code(c) # NoReply
  BY DEF Code, Reply, NoReply

(* A journal is of some job.                                               *)
LEMMA JournalRow ==
    ASSUME TypeOK
    PROVE  journal.phase # "none" => journal.job \in Jobs
<1>1. journal \in Journal \cup {NoJournal}
  BY DEF TypeOK
<1>2. \A r \in Journal : r.job \in Jobs
  BY DEF Journal
<1>3. NoJournal.phase = "none"
  BY DEF NoJournal
<1>4. QED
  BY <1>1, <1>2, <1>3

(* Which processes are at an installation step, and what they work on. *)
LEMMA InstallerAt ==
    ASSUME IInv, NEW p \in Procs,
           pc[p] \in InstallPC \cup RecoveryPC \cup {"irRestore"}
    PROVE  /\ lock = p /\ \A q \in Procs \ {p} : pc[q] = "off"
           /\ cur \in Plan /\ cur.dir \in Dirs
           /\ pc[p] # "install" => snapshot[cur.dir] # NoSnapshot
           /\ cur.dir \in Jobs => journal.phase = "executing" /\ journal.job = cur.dir
           /\ pc[p] \in RecoveryPC => p \in {"worker", "status"}
           /\ pc[p] \in InstallPC => p \in {"worker", "manual"}
           /\ pc[p] = "irRestore" => p = "worker"
<1> USE DEF IInv
<1>1. lock = p /\ \A q \in Procs \ {p} : pc[q] = "off"
  BY Alone DEF ProcessInv, InstallPC, RecoveryPC
<1>2. /\ pc[p] \in RecoveryPC => p \in {"worker", "status"}
      /\ pc[p] \in InstallPC => p \in {"worker", "manual"}
      /\ pc[p] = "irRestore" => p = "worker"
  BY DEF ProcessInv, InstallPC, RecoveryPC, Procs
<1>3. cur \in Plan /\ (pc[p] # "install" => snapshot[cur.dir] # NoSnapshot)
  BY DEF MarkerInv, TypeOK, InstallTypeOK, InstallPC, RecoveryPC
<1>4. cur.dir \in Jobs => journal.phase = "executing" /\ journal.job = cur.dir
  <2>1. CASE pc[p] \in RecoveryPC
    BY <2>1 DEF MarkerInv
  <2>2. CASE p = "worker" /\ pc[p] \notin RecoveryPC
    BY <2>2 DEF JournalInv
  <2>3. CASE p = "manual"
    BY <2>3, JobDirsAssumption DEF ProcessInv, InstallPC, RecoveryPC
  <2>4. QED
    BY <1>2, <2>1, <2>2, <2>3
<1>5. QED
  BY <1>1, <1>2, <1>3, <1>4 DEF Plan

(* A job that was permitted has a release. *)
LEMMA KnownRelease ==
    ASSUME IInv, NEW j \in Jobs, state[j] \in Permitted
    PROVE  req[j].release \in Nat
<1>1. req[j] \in Request
  BY DEF IInv, TypeOK, JobsTypeOK, Permitted
<1>2. QED
  BY <1>1, ReleasesAssumption DEF Request

(* Outside its requests the worker is not spoken to. *)
LEMMA Unaddressed ==
    ASSUME IInv, pc["worker"] \notin Waiting \/ reply # NoReply
    PROVE  \A n \in msgs : ~n.live
  BY DEF IInv, RequestInv

(* Where the worker is when it is not installing or recovering. *)
LEMMA WorkerAt ==
    ASSUME IInv, pc["worker"] \in WorkerPC
    PROVE  /\ pc["worker"] # "off" /\ lock = "worker" /\ "worker" \in Procs
           /\ \A q \in Procs \ {"worker"} : pc[q] = "off"
           /\ pc["worker"] # "doneFailed" => marker = NoPlan
           /\ pc["worker"] \notin Waiting => reply = NoReply /\ \A n \in msgs : ~n.live
  BY Alone DEF IInv, ProcessInv, MarkerInv, RequestInv, Procs, WorkerPC

(* What the journal holds, as far as the worker's position tells. *)
LEMMA JournalAt ==
    ASSUME IInv
    PROVE  /\ pc["worker"] \in {"prepared", "pkgWait", "startWait"} => journal.phase = "prepared"
           /\ pc["worker"] \in {"result", "resultWait"} => journal.phase \in {"succeeded", "failed"}
           /\ journal.phase \in Phase =>
                 journal \in Journal /\ journal.job \in Jobs /\ journal.rb \in BOOLEAN
           /\ floor \in Nat
<1>1. journal \in Journal \/ journal = NoJournal
  BY DEF IInv, TypeOK
<1>2. journal.phase \in Phase =>
         journal \in Journal /\ journal.job \in Jobs /\ journal.rb \in BOOLEAN
  BY SMT, Z3, <1>1 DEF Journal, NoJournal, Phase
<1>3. /\ pc["worker"] \in {"prepared", "pkgWait", "startWait"} => journal.phase = "prepared"
      /\ pc["worker"] \in {"result", "resultWait"} => journal.phase \in {"succeeded", "failed"}
  BY DEF IInv, JournalInv
<1>4. floor \in Nat
  BY DEF IInv, TypeOK
<1>5. QED
  BY <1>2, <1>3, <1>4

LEMMA InstalledVersionType ==
    ASSUME TypeOK
    PROVE  InstalledVersion \in Nat
  BY DEF TypeOK, InstallTypeOK, InstalledVersion

-----------------------------------------------------------------------------
(* The server among the clients *)

(* A step of the server that finishes no job. *)
Quiet ==
    \A j \in Jobs : \/ state'[j] = state[j]
                    \/ state[j] \notin Permitted /\ state'[j] \notin {"succeeded", "failed"}

LEMMA QuietKeepsAgreement ==
    ASSUME IInv, Quiet, UNCHANGED <<pc, journal, kept, begun>>, msgs' \subseteq msgs,
           \/ reply' = reply
           \/ reply'.code \notin {"job", "ok"}
           \/ reply'.code = "job" /\ PollView(reply.job, reply.seen)'
           \/ /\ reply'.code = "ok" /\ pc["worker"] # "resultWait"
              /\ pc["worker"] = "startWait" => state'[journal.job] = "dispatched"
    PROVE  AgreementInv'
<1>0. journal.phase # "none" => journal.job \in Jobs
  BY JournalRow DEF IInv
<1> USE DEF IInv, TypeOK, Journal, NoJournal, Permitted
<1>1. \A j \in Jobs : begun[j] > 0 => begun[j] = 1 /\ state'[j] \in Permitted
  BY DEF AgreementInv, Quiet
<1>2. \A j \in Jobs : begun[j] > 0 /\ state'[j] = "dispatched" =>
         journal.phase \in {"executing", "succeeded", "failed"} /\ journal.job = j
  BY DEF AgreementInv, Quiet
<1>3. \A j \in Jobs : /\ state'[j] = "succeeded" => j \in kept
                      /\ state'[j] = "failed" => j \notin kept
  BY DEF AgreementInv, Quiet
<1>4. /\ journal.phase = "prepared" => begun[journal.job] = 0 /\ NoResult(journal.job)'
      /\ journal.phase = "executing" =>
            state'[journal.job] = "dispatched" /\ begun[journal.job] = 1
      /\ journal.phase \in {"succeeded", "failed"} => state'[journal.job] \in Permitted
  <2>2. journal.phase = "prepared" => begun[journal.job] = 0 /\ NoResult(journal.job)
    BY DEF AgreementInv
  <2>3. journal.phase = "prepared" => NoResult(journal.job)'
    BY <2>2 DEF NoResult
  <2>4. journal.phase = "executing" =>
            state'[journal.job] = "dispatched" /\ begun[journal.job] = 1
    BY <1>0 DEF AgreementInv, Quiet
  <2>5. journal.phase \in {"succeeded", "failed"} => state'[journal.job] \in Permitted
    BY <1>0 DEF AgreementInv, Quiet
  <2>6. QED
    BY <2>2, <2>3, <2>4, <2>5
<1>5. \A m \in msgs' : m.op = "result" =>
          /\ state'[m.job] \in Permitted
          /\ state'[m.job] = "dispatched" => journal.phase = m.result /\ journal.job = m.job
  BY MessageFields DEF AgreementInv, Quiet
<1>6. \A m \in msgs' : m.live /\ m.op = "polled" => PollView(m.job, m.seen)'
  <2> SUFFICES ASSUME NEW m \in msgs, m.live, m.op = "polled" PROVE PollView(m.job, m.seen)'
    OBVIOUS
  <2>1. m.job \in Jobs /\ PollView(m.job, m.seen)
    BY MessageFields DEF AgreementInv
  <2>2. m.seen = "dispatched" => state'[m.job] = "dispatched"
    BY <2>1 DEF Quiet, PollView
  <2>3. QED
    BY <2>1, <2>2 DEF PollView, NoResult
<1>7. /\ pc["worker"] = "resultWait" /\ reply'.code = "ok" => state'[journal.job] # "dispatched"
      /\ pc["worker"] = "startWait" /\ reply'.code = "ok" => state'[journal.job] = "dispatched"
  <2>1. ASSUME pc["worker"] = "resultWait", reply'.code = "ok"
        PROVE  state'[journal.job] # "dispatched"
    <3>1. journal.phase \in {"succeeded", "failed"}
      BY <2>1 DEF JournalInv
    <3>2. journal.job \in Jobs /\ state[journal.job] \in Permitted
      BY <1>0, <3>1 DEF AgreementInv
    <3>3. reply' = reply
      BY <2>1
    <3>4. state[journal.job] # "dispatched"
      BY <2>1, <3>3 DEF AgreementInv
    <3>5. QED
      BY <3>2, <3>4 DEF Quiet
  <2>2. ASSUME pc["worker"] = "startWait", reply'.code = "ok"
        PROVE  state'[journal.job] = "dispatched"
    <3>1. journal.phase = "prepared"
      BY <2>2 DEF JournalInv
    <3>2. journal.job \in Jobs
      BY <1>0, <3>1
    <3>3. CASE reply' = reply
      BY <2>2, <3>2, <3>3 DEF AgreementInv, Quiet
    <3>4. QED
      BY <2>2, <3>3
  <2>3. QED
    BY <2>1, <2>2
<1>8. reply'.code = "job" => PollView(reply.job, reply.seen)'
  <2>1. CASE reply' = reply
    BY <2>1, ReplyFields DEF AgreementInv, Quiet, PollView, NoResult
  <2>2. QED
    BY <2>1
<1>9. QED
  BY <1>1, <1>2, <1>3, <1>4, <1>5, <1>6, <1>7, <1>8 DEF AgreementInv, PollView, NoResult

LEMMA AdministrationKeeps ==
    ASSUME IInv, JobsTypeOK', Administration
    PROVE  IInv'
<1> USE DEF IInv
<1>1. UNCHANGED <<installVars, workerVars>>
  BY DEF Administration
<1>2. Quiet
  <2>1. ASSUME NEW j \in Jobs, NEW r \in Request, NEW t, ScheduleClientUpdate(j, r, t)
        PROVE  Quiet
    BY <2>1 DEF Quiet, ScheduleClientUpdate, CreateUpdateJob, Overdue, Permitted
  <2>2. ASSUME NEW j \in Jobs, CancelClientUpdate(j)
        PROVE  Quiet
    BY <2>2 DEF Quiet, CancelClientUpdate, ChangeUpdateJob, CanChange, Transition,
                Permitted, JobsTypeOK, TypeOK
  <2>3. CASE SetEnabled(Self) \/ SetCertified(Self) \/ Tick
    BY <2>3 DEF Quiet, SetEnabled, SetCertified, Tick
  <2>4. QED
    BY <2>1, <2>2, <2>3 DEF Administration, Absent
<1>3. AgreementInv'
  BY <1>1, <1>2, QuietKeepsAgreement DEF installVars, localVars, workerVars
<1>4. ProcessInv' /\ JournalInv' /\ MarkerInv' /\ KeptInv'
  BY <1>1, DeviceUntouched DEF installVars, workerVars
<1>5. RequestInv'
  BY <1>1 DEF installVars, localVars, workerVars, RequestInv
<1>6. TypeOK'
  BY <1>1 DEF TypeOK, InstallTypeOK, installVars, localVars, fileVars, workerVars
<1>7. QED
  BY <1>3, <1>4, <1>5, <1>6

LEMMA RestartKeeps ==
    ASSUME IInv, JobsTypeOK', NEW approved \in SUBSET Releases, ServerRestart(approved)
    PROVE  IInv'
<1> USE DEF IInv
<1>1. /\ UNCHANGED <<localVars, fileVars, kept, journal, begun>>
      /\ UNCHANGED <<state, floor>> /\ msgs' = {}
      /\ reply' = reply \/ (reply' = NoReply /\ reply'.code = "none")
  <2>1. NoReply.code = "none"
    BY DEF NoReply
  <2>2. reply' = reply \/ reply' = NoReply
    BY DEF ServerRestart
  <2>3. UNCHANGED <<localVars, fileVars, kept, journal, begun, floor>> /\ msgs' = {}
    BY DEF ServerRestart
  <2>4. UNCHANGED state
    BY DEF ServerRestart, LoadCatalog
  <2>5. QED
    BY <2>1, <2>2, <2>3, <2>4
<1>2. faults' \in 0..MaxFaults
  BY SMT, Z3, MaxFaultsAssumption DEF ServerRestart, TypeOK, InstallTypeOK
<1>3. AgreementInv'
  BY <1>1, QuietKeepsAgreement DEF Quiet, localVars
<1>4. ProcessInv' /\ JournalInv' /\ MarkerInv' /\ KeptInv'
  BY <1>1, DeviceUntouched
<1>5. RequestInv'
  BY <1>1 DEF localVars, RequestInv
<1>6. TypeOK'
  BY <1>1, <1>2 DEF TypeOK, InstallTypeOK, localVars, fileVars, Reply, NoReply
<1>7. QED
  BY <1>3, <1>4, <1>5, <1>6

(* The parts of IInv that a handler can disturb. *)
LEMMA HandlerKeeps ==
    ASSUME IInv, JobsTypeOK', UNCHANGED deviceVars, RequestInv', AgreementInv',
           msgs' \in SUBSET Message, reply' \in Reply
    PROVE  IInv'
<1> USE DEF IInv, deviceVars
<1>1. ProcessInv' /\ JournalInv' /\ MarkerInv' /\ KeptInv'
  BY DeviceUntouched DEF installVars
<1>2. TypeOK'
  BY DEF TypeOK, InstallTypeOK, installVars, localVars, fileVars
<1>3. QED
  BY <1>1, <1>2

LEMMA PollReadKeeps ==
    ASSUME IInv, JobsTypeOK', NEW m \in msgs, PollRead(m)
    PROVE  IInv'
<1> USE DEF IInv
<1>1. UNCHANGED <<state, pc, journal, kept, begun>> /\ UNCHANGED deviceVars /\ Quiet
  BY DEF PollRead, serverVars, deviceVars, installVars, localVars, Quiet
<1>2. ASSUME NEW c \in {"empty", "error"}, Answer(m, Code(c))
      PROVE  IInv'
  <2>1. RequestInv' /\ msgs' \in SUBSET Message /\ reply' \in Reply
    BY <1>1, <1>2, Codes, AnswerKeepsRequests
  <2>2. AgreementInv'
    <3>1. msgs' \subseteq msgs /\ (reply' = reply \/ reply'.code \notin {"job", "ok"})
      BY <1>2, Codes DEF Answer
    <3>2. QED
      BY <1>1, <3>1, QuietKeepsAgreement
  <2>3. QED
    BY <1>1, <2>1, <2>2, HandlerKeeps
<1>3. ASSUME NEW j \in Jobs, state[j] \in Open,
             msgs' = (msgs \ {m}) \cup {[op |-> "polled", live |-> m.live, job |-> j,
                                         seen |-> state[j]]},
             reply' = reply
      PROVE  IInv'
  <2> DEFINE n == [op |-> "polled", live |-> m.live, job |-> j, seen |-> state[j]]
  <2>0. m.op = "poll" /\ m.live \in BOOLEAN
    BY MessageFields DEF PollRead, TypeOK
  <2>1. n \in Message /\ n.op = "polled" /\ n.live = m.live /\ n.job = j /\ n.seen = state[j]
    BY <1>3, <2>0 DEF Message
  <2> HIDE DEF n
  <2>2. msgs' = (msgs \ {m}) \cup {n}
    BY <1>3 DEF n
  <2>3. RequestInv'
    BY <1>1, <1>3, <2>0, <2>1, <2>2 DEF RequestInv
  <2>4. m.live => PollView(j, state[j])
    <3>1. m.live => journal = NoJournal
      BY <2>0 DEF RequestInv, JournalInv
    <3>2. m.live => begun[j] = 0 /\ NoResult(j)
      BY <1>3, <3>1, NotBegun
    <3>3. QED
      BY <3>2 DEF PollView
  <2>5. AgreementInv'
    <3>1. UNCHANGED <<state, journal, begun, kept>>
      BY <1>1, <1>3 DEF Refused, serverVars
    <3>2. \A n1 \in msgs' : n1 \in msgs \/ n1 = n
      BY <2>2
    <3>3. \A n1 \in msgs' : n1.op = "result" => n1 \in msgs
      BY <2>1, <3>2
    <3>4. \A j1, seen : PollView(j1, seen) => PollView(j1, seen)'
      BY <3>1, <3>3, ResultsRemain
    <3>5. \A n1 \in msgs' : n1.live /\ n1.op = "polled" => PollView(n1.job, n1.seen)'
      BY <2>1, <2>4, <3>2, <3>4 DEF AgreementInv
    <3>6. reply'.code = "job" => PollView(reply.job, reply.seen)'
      BY <1>3, <3>4 DEF AgreementInv
    <3>7. QED
      BY <1>1, <1>3, <3>1, <3>3, <3>5, <3>6, ResultsRemain, AgreementFrame DEF AgreementInv
  <2>6. QED
    BY <1>1, <1>3, <2>1, <2>2, <2>3, <2>5, HandlerKeeps DEF TypeOK
<1>4. QED
  BY <1>2, <1>3 DEF PollRead

LEMMA PollAnswerKeeps ==
    ASSUME IInv, JobsTypeOK', NEW m \in msgs, PollAnswer(m)
    PROVE  IInv'
<1> USE DEF IInv
<1>1. UNCHANGED <<pc, journal, kept, begun>> /\ UNCHANGED deviceVars
  BY DEF PollAnswer, deviceVars, installVars, localVars
<1>2. m.op = "polled" /\ m.job \in Jobs /\ m.seen \in Open /\ m.live \in BOOLEAN
  BY MessageFields DEF PollAnswer, TypeOK
<1>3. Quiet
  <2>1. CASE ExpireOnPoll(m.job, Self)
    BY <1>2, <2>1 DEF ExpireOnPoll, ChangeUpdateJob, CanChange, Transition, Quiet,
                      Permitted, TypeOK, JobsTypeOK
  <2>2. CASE Refused
    BY <2>2 DEF Refused, serverVars, Quiet
  <2>3. QED
    BY <2>1, <2>2 DEF PollAnswer
<1>4. ASSUME NEW r \in Reply, Answer(m, r), r.code # "ok",
             r.code = "job" => Refused /\ r.job = m.job /\ r.seen = m.seen
      PROVE  IInv'
  <2>1. RequestInv' /\ msgs' \in SUBSET Message /\ reply' \in Reply
    BY <1>1, <1>2, <1>4, AnswerKeepsRequests
  <2>2. msgs' \subseteq msgs /\ (reply' = reply \/ (m.live /\ reply' = r))
    BY <1>2, <1>4 DEF Answer
  <2>3. reply' # reply /\ r.code = "job" => PollView(reply.job, reply.seen)'
    <3> SUFFICES ASSUME reply' # reply, r.code = "job" PROVE PollView(reply.job, reply.seen)'
      OBVIOUS
    <3>1. reply'.job = m.job /\ reply'.seen = m.seen /\ m.live
      BY <1>4, <2>2
    <3>2. state' = state /\ begun' = begun
      BY <1>1, <1>4 DEF Refused, serverVars
    <3>3. begun[m.job] = 0 /\ NoResult(m.job) /\ (m.seen = "dispatched" => state[m.job] = "dispatched")
      BY <1>2, <3>1 DEF AgreementInv, PollView
    <3>4. \A n \in msgs' : n.op = "result" => n.job # m.job
      BY <2>2, <3>3 DEF NoResult
    <3> QED
      BY <3>1, <3>2, <3>3, <3>4 DEF PollView, NoResult
  <2>4. AgreementInv'
    BY <1>1, <1>3, <1>4, <2>2, <2>3, QuietKeepsAgreement
  <2>5. QED
    BY <1>1, <2>1, <2>4, HandlerKeeps
<1>5. ASSUME NEW c \in {"empty", "error"}, Answer(m, Code(c))
      PROVE  IInv'
  BY <1>4, <1>5, Codes
<1>6. CASE Answer(m, [code |-> "job", job |-> m.job, seen |-> m.seen]) /\ Refused
  BY <1>2, <1>4, <1>6 DEF Reply
<1>7. QED
  BY <1>5, <1>6 DEF PollAnswer

LEMMA DownloadKeeps ==
    ASSUME IInv, JobsTypeOK', NEW m \in msgs, DownloadClientUpdate(m)
    PROVE  IInv'
<1> USE DEF IInv
<1>1. UNCHANGED <<pc, journal, kept, begun>> /\ UNCHANGED deviceVars /\ Quiet
  BY DEF DownloadClientUpdate, deviceVars, installVars, localVars, serverVars, Quiet
<1>2. m.op = "package" /\ m.live \in BOOLEAN
  BY MessageFields DEF DownloadClientUpdate, TypeOK
<1>3. PICK c \in {"ok", "gone", "error"} : Answer(m, Code(c))
  BY DEF DownloadClientUpdate
<1>4. RequestInv' /\ msgs' \in SUBSET Message /\ reply' \in Reply
  BY <1>1, <1>2, <1>3, Codes, AnswerKeepsRequests
<1>5. msgs' \subseteq msgs /\ (reply' = reply \/ (m.live /\ reply'.code # "job"))
  BY <1>2, <1>3, Codes DEF Answer
<1>6. m.live => pc["worker"] = "pkgWait"
  BY <1>2 DEF RequestInv
<1>7. AgreementInv'
  BY <1>1, <1>5, <1>6, QuietKeepsAgreement
<1>8. QED
  BY <1>1, <1>4, <1>7, HandlerKeeps

(* A request that was let pass is handled later; one that was not is       *)
(* answered with an error.                                                 *)
LEMMA AuthenticateKeeps ==
    ASSUME IInv, JobsTypeOK', NEW m \in msgs, Authenticate(m)
    PROVE  IInv'
<1> USE DEF IInv
<1>1. UNCHANGED <<state, pc, journal, kept, begun>> /\ UNCHANGED deviceVars /\ Quiet
  BY DEF Authenticate, serverVars, deviceVars, installVars, localVars, Quiet
<1>2. m \in Message /\ m.op \in {"start", "result"} /\ m.live \in BOOLEAN
  BY MessageFields DEF Authenticate, TypeOK
<1>3. CASE Answer(m, Code("error"))
  <2>1. RequestInv' /\ msgs' \in SUBSET Message /\ reply' \in Reply
    BY <1>1, <1>3, Codes, AnswerKeepsRequests
  <2>2. msgs' \subseteq msgs /\ (reply' = reply \/ reply'.code = "error")
    BY <1>3, Codes DEF Answer
  <2>3. AgreementInv'
    BY <1>1, <2>2, QuietKeepsAgreement
  <2>4. QED
    BY <1>1, <2>1, <2>3, HandlerKeeps
<1>4. CASE msgs' = (msgs \ {m}) \cup {Passed(m)} /\ reply' = reply
  <2> DEFINE n == Passed(m)
  <2>1. now \in 0..MaxTime
    BY DEF TypeOK, JobsTypeOK
  <2>2. msgs' = (msgs \ {m}) \cup {n}
    BY <1>4
  <2>3. /\ n \in Message /\ n.live = m.live /\ n.op = m.op /\ n.job = m.job
        /\ m.op = "result" => n.result = m.result
    BY <1>2, <2>1, PassedMessage
  <2> HIDE DEF n
  <2>4. RequestInv'
    BY <1>1, <1>2, <1>4, <2>2, <2>3 DEF RequestInv
  <2>5. AgreementInv'
    <3>1. UNCHANGED <<state, journal, begun, kept>>
      BY <1>1
    <3>2. \A n1 \in msgs' : n1 \in msgs \/ n1 = n
      BY <2>2
    <3>3. \A n1 \in msgs' : n1.op = "result" =>
             \E m1 \in msgs : m1.op = "result" /\ m1.job = n1.job /\ m1.result = n1.result
      BY <2>3, <3>2
    <3>4. \A j1, seen : PollView(j1, seen) => PollView(j1, seen)'
      BY <3>1, <3>3, ResultsRemain
    <3>5. \A n1 \in msgs' : n1.live /\ n1.op = "polled" => PollView(n1.job, n1.seen)'
      BY <1>2, <2>3, <3>2, <3>4 DEF AgreementInv
    <3>6. reply'.code = "job" => PollView(reply.job, reply.seen)'
      BY <1>4, <3>4 DEF AgreementInv
    <3>7. QED
      BY <1>1, <1>4, <3>1, <3>3, <3>5, <3>6, ResultsRemain, AgreementFrame DEF AgreementInv
  <2>6. QED
    BY <1>1, <1>4, <2>2, <2>3, <2>4, <2>5, HandlerKeeps DEF TypeOK
<1>5. QED
  BY <1>3, <1>4 DEF Authenticate

LEMMA StartKeeps ==
    ASSUME IInv, JobsTypeOK', NEW m \in msgs, HandleStart(m)
    PROVE  IInv'
<1> USE DEF IInv
<1>1. UNCHANGED <<pc, journal, kept, begun>> /\ UNCHANGED deviceVars
  BY DEF HandleStart, deviceVars, installVars, localVars
<1>2. m.op = "start" /\ m.job \in Jobs /\ m.live \in BOOLEAN
  BY MessageFields DEF HandleStart, TypeOK
<1>3. m.live => pc["worker"] = "startWait" /\ m.job = journal.job
  BY <1>2 DEF RequestInv
<1>t. PICK t \in m.at..now :
         \/ StartClientUpdate(m.job, Self, t) /\ Answer(m, Code("ok"))
         \/ Refused /\ Answer(m, Code("gone"))
  BY DEF HandleStart
<1>4. Quiet
  BY <1>2, <1>t
  DEF StartClientUpdate, ChangeUpdateJob, CanChange, Transition, Quiet,
              Permitted, TypeOK, JobsTypeOK, Refused, serverVars
<1>5. PICK c \in {"ok", "gone"} :
         Answer(m, Code(c)) /\ (c = "ok" => state'[m.job] = "dispatched")
  BY <1>2, <1>t DEF StartClientUpdate, ChangeUpdateJob, TypeOK, JobsTypeOK
<1>6. RequestInv' /\ msgs' \in SUBSET Message /\ reply' \in Reply
  BY <1>1, <1>2, <1>5, Codes, AnswerKeepsRequests
<1>7. msgs' \subseteq msgs /\ (reply' = reply \/ (m.live /\ reply'.code = c))
  BY <1>2, <1>5, Codes DEF Answer
<1>8. AgreementInv'
  BY <1>1, <1>3, <1>4, <1>5, <1>7, QuietKeepsAgreement
<1>9. QED
  BY <1>1, <1>6, <1>8, HandlerKeeps

(* The one handler that finishes jobs: the result agrees with the journal, *)
(* or it has been recorded before.                                         *)
LEMMA ResultKeeps ==
    ASSUME IInv, JobsTypeOK', NEW m \in msgs, HandleResult(m)
    PROVE  IInv'
<1> USE DEF IInv
<1>1. UNCHANGED <<pc, journal, kept, begun>> /\ UNCHANGED deviceVars
  BY DEF HandleResult, deviceVars, installVars, localVars
<1>2. /\ m.op = "result" /\ m.job \in Jobs /\ m.live \in BOOLEAN
      /\ m.result \in {"succeeded", "failed"}
  BY MessageFields DEF HandleResult, TypeOK
<1>3. m.live => pc["worker"] = "resultWait" /\ m.job = journal.job
  BY <1>2 DEF RequestInv
<1>4. CASE Refused /\ Answer(m, Code("error"))
  <2>1. Quiet
    BY <1>4 DEF Refused, serverVars, Quiet
  <2>2. RequestInv' /\ msgs' \in SUBSET Message /\ reply' \in Reply
    BY <1>1, <1>2, <1>4, Codes, AnswerKeepsRequests
  <2>3. msgs' \subseteq msgs /\ (reply' = reply \/ reply'.code = "error")
    BY <1>4, Codes DEF Answer
  <2>4. AgreementInv'
    BY <1>1, <2>1, <2>3, QuietKeepsAgreement
  <2>5. QED
    BY <1>1, <2>2, <2>4, HandlerKeeps
<1>5. CASE FinishClientUpdate(m.job, Self, m.result, m.rb) /\ Answer(m, Code("ok"))
  <2>1. /\ state' = [state EXCEPT ![m.job] = m.result]
        /\ state[m.job] = m.result \/ state[m.job] = "dispatched"
    BY <1>2, <1>5 DEF FinishClientUpdate, ChangeUpdateJob, CanChange, Transition
  <2>2. RequestInv' /\ msgs' \in SUBSET Message /\ reply' \in Reply
    BY <1>1, <1>2, <1>5, Codes, AnswerKeepsRequests
  <2>3. msgs' \subseteq msgs /\ (reply' = reply \/ (m.live /\ reply'.code = "ok"))
    BY <1>2, <1>5, Codes DEF Answer
  <2>4. CASE state[m.job] = m.result
    <3>1. state' = state
      <4>1. state \in [Jobs -> JobState \cup {"absent"}]
        BY DEF TypeOK, JobsTypeOK
      <4>2. QED
        BY <2>1, <2>4, <1>2, <4>1
    <3>2. AgreementInv'
      <4>1. reply'.code = "ok" /\ reply' # reply => state'[journal.job] # "dispatched"
        BY <1>2, <1>3, <2>3, <2>4, <3>1
      <4>2. UNCHANGED <<state, journal, begun, kept>>
        BY <1>1, <3>1
      <4>3. \A j1, seen : PollView(j1, seen) => PollView(j1, seen)'
        BY <2>3, <4>2, ResultsRemain
      <4>4. \A n1 \in msgs' : n1.live /\ n1.op = "polled" => PollView(n1.job, n1.seen)'
        BY <2>3, <4>3 DEF AgreementInv
      <4>5. reply'.code = "job" => reply' = reply
        BY <2>3
      <4>6. reply'.code = "job" => PollView(reply.job, reply.seen)'
        BY <4>3, <4>5 DEF AgreementInv
      <4>7. /\ pc'["worker"] = "resultWait" /\ reply'.code = "ok" => state[journal.job] # "dispatched"
            /\ pc'["worker"] = "startWait" /\ reply'.code = "ok" => state[journal.job] = "dispatched"
        BY <1>1, <1>3, <2>3, <4>1, <4>2 DEF AgreementInv
      <4>8. QED
        BY <2>3, <4>2, <4>4, <4>6, <4>7, ResultsRemain, AgreementFrame
    <3>3. QED
      BY <1>1, <2>2, <3>2, HandlerKeeps
  <2>5. CASE state[m.job] = "dispatched"
    <3>1. journal.phase = m.result /\ journal.job = m.job
      BY <1>2, <2>5 DEF AgreementInv
    <3>2. /\ state'[m.job] = m.result
          /\ \A j \in Jobs : j # m.job => state'[j] = state[j]
      BY <1>2, <2>1 DEF TypeOK, JobsTypeOK
    <3>3. \A n \in msgs : n.op = "result" /\ n.job # m.job => state[n.job] # "dispatched"
      BY <3>1 DEF AgreementInv
    <3>4. m.result = "succeeded" <=> m.job \in kept
      BY <1>2, <3>1 DEF KeptInv
    <3>5. AgreementInv'
      <4>1. \A j \in Jobs : begun[j] > 0 => begun[j] = 1 /\ state'[j] \in Permitted
        BY <1>2, <3>2 DEF AgreementInv, Permitted
      <4>2. \A j \in Jobs : begun[j] > 0 /\ state'[j] = "dispatched" =>
               journal.phase \in {"executing", "succeeded", "failed"} /\ journal.job = j
        BY <1>2, <3>2 DEF AgreementInv
      <4>3. \A j \in Jobs : /\ state'[j] = "succeeded" => j \in kept
                            /\ state'[j] = "failed" => j \notin kept
        BY <1>2, <3>2, <3>4 DEF AgreementInv
      <4>4. /\ journal.phase \notin {"prepared", "executing"}
            /\ state'[journal.job] \in Permitted
        BY <1>2, <3>1, <3>2 DEF Permitted
      <4>5. \A n \in msgs' : n.op = "result" =>
               /\ state'[n.job] \in Permitted
               /\ state'[n.job] = "dispatched" =>
                     journal.phase = n.result /\ journal.job = n.job
        <5>1. TAKE n \in msgs'
        <5>2. HAVE n.op = "result"
        <5>3. n.job \in Jobs /\ state[n.job] \in Permitted
          BY <2>3, <5>2, OwedIsJournaled
        <5>4. CASE n.job = m.job
          BY <1>2, <3>2, <5>4 DEF Permitted
        <5>5. CASE n.job # m.job
          BY <2>3, <3>2, <3>3, <5>2, <5>3, <5>5
        <5>6. QED
          BY <5>4, <5>5
      <4>6. pc["worker"] \notin {"startWait", "pollWait"}
        <5>1. journal.phase \notin {"none", "prepared"}
          BY <1>2, <3>1
        <5>2. NoJournal.phase = "none"
          BY DEF NoJournal
        <5>3. QED
          BY <5>1, <5>2 DEF JournalInv
      <4>7. /\ \A n \in msgs' : n.live => n.op # "polled"
            /\ reply'.code # "job"
        BY <2>3, <4>6 DEF RequestInv
      <4>8. state'[journal.job] # "dispatched"
        BY <1>2, <3>1, <3>2
      <4>9. QED
        BY <1>1, <4>1, <4>2, <4>3, <4>4, <4>5, <4>6, <4>7, <4>8 DEF AgreementInv
    <3>6. QED
      BY <1>1, <2>2, <3>5, HandlerKeeps
  <2>6. QED
    BY <2>1, <2>4, <2>5
<1>6. QED
  BY <1>4, <1>5 DEF HandleResult

-----------------------------------------------------------------------------
(* The installation transaction *)

(* The server and the requests do not see the steps of the installation,   *)
(* except that the release of the job being executed is kept or undone.    *)
LEMMA InstallerKeepsAgreement ==
    ASSUME IInv, UNCHANGED <<serverVars, workerVars>>,
           pc'["worker"] = pc["worker"] \/ {pc["worker"], pc'["worker"]} \cap Waiting = {},
           \A j \in Jobs : \/ j \in kept' <=> j \in kept
                           \/ journal.phase = "executing" /\ journal.job = j
    PROVE  RequestInv' /\ AgreementInv'
<1> USE DEF IInv, serverVars, workerVars
<1>1. RequestInv'
  BY DEF RequestInv, Waiting
<1>2. AgreementInv'
  BY DEF AgreementInv, Waiting, PollView, NoResult
<1>3. QED
  BY <1>1, <1>2

(* The parts of IInv that an installation step can disturb. *)
InstallParts == InstallTypeOK /\ ProcessInv /\ JournalInv /\ MarkerInv /\ KeptInv

LEMMA InstallerKeeps ==
    ASSUME IInv, UNCHANGED <<serverVars, workerVars>>, InstallParts',
           pc'["worker"] = pc["worker"] \/ {pc["worker"], pc'["worker"]} \cap Waiting = {},
           \A j \in Jobs : \/ j \in kept' <=> j \in kept
                           \/ journal.phase = "executing" /\ journal.job = j
    PROVE  IInv'
<1>1. RequestInv' /\ AgreementInv'
  BY InstallerKeepsAgreement
<1>2. JobsTypeOK'
  BY JobsTypeKept DEF IInv, TypeOK
<1>3. TypeOK'
  BY <1>2 DEF IInv, TypeOK, InstallParts, workerVars
<1>4. QED
  BY <1>1, <1>3 DEF IInv, InstallParts

LEMMA CreateRollbackKeeps ==
    ASSUME IInv, UNCHANGED <<serverVars, workerVars>>,
           NEW p \in {"worker", "manual"}, CreateRollback(p)
    PROVE  IInv'
<1> USE DEF IInv
<1>1. /\ p \in Procs /\ lock = p /\ \A q \in Procs \ {p} : pc[q] = "off"
      /\ cur \in Plan /\ cur.dir \in Dirs
      /\ cur.dir \in Jobs => journal.phase = "executing" /\ journal.job = cur.dir
      /\ pc[p] = "install"
  BY InstallerAt DEF CreateRollback, InstallPC, Procs
<1>2. /\ UNCHANGED <<cur, todo, target, marker, updateState, stateTmp, markTmp, kept, faults>>
      /\ UNCHANGED <<journal, begun>>
  BY DEF CreateRollback, workerVars
<1>3. /\ pc' \in [Procs -> PCs] /\ \A q \in Procs \ {p} : pc'[q] = "off"
      /\ \A d \in Dirs : snapshot[d] # NoSnapshot => snapshot'[d] # NoSnapshot
      /\ snapshot' \in [Dirs -> Snapshot \cup {NoSnapshot}]
      /\ \/ pc'[p] = "mark" /\ lock' = lock /\ snapshot'[cur.dir] # NoSnapshot
         \/ p = "worker" /\ pc'[p] = "doneFailed" /\ lock' = lock
         \/ p = "manual" /\ pc'[p] = "off" /\ lock' = "none"
  <2>1. \/ /\ snapshot' = [snapshot EXCEPT ![cur.dir] = [files |-> target, rel |-> cur.rel]]
           /\ pc' = [pc EXCEPT ![p] = "mark"] /\ lock' = lock
        \/ /\ snapshot' = snapshot
           /\ \/ p = "worker" /\ pc' = [pc EXCEPT ![p] = "doneFailed"] /\ lock' = lock
              \/ p = "manual" /\ pc' = [pc EXCEPT ![p] = "off"] /\ lock' = "none"
    BY <1>1 DEF CreateRollback, Return, Goto, Exit
  <2>2. /\ \A d \in Dirs : snapshot[d] # NoSnapshot => snapshot'[d] # NoSnapshot
        /\ snapshot' \in [Dirs -> Snapshot \cup {NoSnapshot}]
    BY <1>1, <2>1, SnapshotGrows
  <2>3. snapshot' = [snapshot EXCEPT ![cur.dir] = [files |-> target, rel |-> cur.rel]] =>
           snapshot'[cur.dir] # NoSnapshot
    <3>1. [files |-> target, rel |-> cur.rel] # NoSnapshot
      BY <1>1 DEF TypeOK, InstallTypeOK, Plan, NoSnapshot
    <3>2. snapshot \in [Dirs -> Snapshot \cup {NoSnapshot}]
      BY DEF TypeOK, InstallTypeOK
    <3>3. QED
      BY <1>1, <3>1, <3>2
  <2>4. "mark" \in PCs /\ "doneFailed" \in PCs /\ "off" \in PCs
    BY DEF PCs, InstallPC, WorkerPC
  <2>5. QED
    BY <1>1, <2>1, <2>2, <2>3, <2>4, MovesTo
<1>4. InstallTypeOK'
  BY <1>1, <1>2, <1>3 DEF TypeOK, InstallTypeOK, Procs
<1>5. ProcessInv'
  BY <1>1, <1>2, <1>3
  DEF ProcessInv, ExclusiveMutation, Procs, InstallPC, RecoveryPC
<1>6. JournalInv'
  BY <1>1, <1>2, <1>3 DEF JournalInv, InstallPC, Procs
<1>7. MarkerInv'
  BY <1>1, <1>2, <1>3 DEF MarkerInv, InstallPC, RecoveryPC, WorkerPC, Procs, TypeOK, InstallTypeOK, Plan
<1>8. KeptInv'
  BY <1>1, <1>2, <1>3, JobDirsAssumption DEF KeptInv, InstallPC, Procs
<1>9. pc'["worker"] = pc["worker"] \/ {pc["worker"], pc'["worker"]} \cap Waiting = {}
  BY <1>1, <1>3 DEF Waiting, Procs
<1>10. QED
  BY <1>2, <1>4, <1>5, <1>6, <1>7, <1>8, <1>9, InstallerKeeps DEF InstallParts

LEMMA WriteTransactionKeeps ==
    ASSUME IInv, UNCHANGED <<serverVars, workerVars>>,
           NEW p \in {"worker", "manual"}, WriteUpdateTransaction(p)
    PROVE  IInv'
<1> USE DEF IInv
<1>1. /\ p \in Procs /\ lock = p /\ \A q \in Procs \ {p} : pc[q] = "off"
      /\ cur \in Plan /\ cur.dir \in Dirs
      /\ cur.dir \in Jobs => journal.phase = "executing" /\ journal.job = cur.dir
      /\ snapshot[cur.dir] # NoSnapshot
      /\ pc[p] = "mark"
  BY InstallerAt DEF WriteUpdateTransaction, InstallPC, Procs
<1>2. /\ UNCHANGED <<cur, target, snapshot, updateState, stateTmp, markTmp, kept, faults>>
      /\ UNCHANGED <<journal, begun>>
  BY DEF WriteUpdateTransaction, workerVars
<1>3. /\ pc' \in [Procs -> PCs] /\ \A q \in Procs \ {p} : pc'[q] = "off"
      /\ \/ marker' = cur /\ todo' = Components /\ pc'[p] = "apply" /\ lock' = lock
         \/ /\ marker' = marker /\ todo' = todo
            /\ \/ p = "worker" /\ pc'[p] = "doneFailed" /\ lock' = lock
               \/ p = "manual" /\ pc'[p] = "off" /\ lock' = "none"
  <2>1. \/ /\ marker' = cur /\ todo' = Components
           /\ pc' = [pc EXCEPT ![p] = "apply"] /\ lock' = lock
        \/ /\ marker' = marker /\ todo' = todo
           /\ \/ p = "worker" /\ pc' = [pc EXCEPT ![p] = "doneFailed"] /\ lock' = lock
              \/ p = "manual" /\ pc' = [pc EXCEPT ![p] = "off"] /\ lock' = "none"
    BY DEF WriteUpdateTransaction, Return, Goto, Exit
  <2>2. "apply" \in PCs /\ "doneFailed" \in PCs /\ "off" \in PCs
    BY DEF PCs, InstallPC, WorkerPC
  <2>3. QED
    BY <1>1, <2>1, <2>2, MovesTo
<1>4. InstallTypeOK'
  BY <1>1, <1>2, <1>3 DEF TypeOK, InstallTypeOK, Procs
<1>5. ProcessInv'
  BY <1>1, <1>2, <1>3
  DEF ProcessInv, ExclusiveMutation, Procs, InstallPC, RecoveryPC
<1>6. JournalInv'
  BY <1>1, <1>2, <1>3 DEF JournalInv, InstallPC, Procs
<1>7. MarkerInv'
  BY <1>1, <1>2, <1>3 DEF MarkerInv, InstallPC, RecoveryPC, WorkerPC, Procs
<1>8. KeptInv'
  BY <1>1, <1>2, <1>3 DEF KeptInv, InstallPC, Procs
<1>9. pc'["worker"] = pc["worker"] \/ {pc["worker"], pc'["worker"]} \cap Waiting = {}
  BY <1>1, <1>3 DEF Waiting, Procs
<1>10. QED
  BY <1>2, <1>4, <1>5, <1>6, <1>7, <1>8, <1>9, InstallerKeeps DEF InstallParts

LEMMA ApplyComponentKeeps ==
    ASSUME IInv, UNCHANGED <<serverVars, workerVars>>,
           NEW p \in {"worker", "manual"}, ApplyComponent(p)
    PROVE  IInv'
<1> USE DEF IInv
<1>1. /\ p \in Procs /\ lock = p /\ \A q \in Procs \ {p} : pc[q] = "off"
      /\ cur \in Plan /\ cur.dir \in Dirs
      /\ cur.dir \in Jobs => journal.phase = "executing" /\ journal.job = cur.dir
      /\ snapshot[cur.dir] # NoSnapshot
      /\ pc[p] = "apply"
  BY InstallerAt DEF ApplyComponent, InstallPC, Procs
<1>2. /\ UNCHANGED <<cur, snapshot, marker, updateState, stateTmp, markTmp, kept, faults>>
      /\ UNCHANGED <<journal, begun>>
  BY DEF ApplyComponent, workerVars
<1>3. /\ pc' \in [Procs -> PCs] /\ \A q \in Procs \ {p} : pc'[q] = "off"
      /\ target' \in [Components -> Nat] /\ todo' \in SUBSET Components
      /\ pc'[p] \in {"apply", "health"} /\ lock' = lock
  <2>1. lock' = lock /\ (pc' = pc \/ pc' = [pc EXCEPT ![p] = "health"])
    BY DEF ApplyComponent, Goto
  <2>2. pc \in [Procs -> PCs]
    BY DEF TypeOK, InstallTypeOK
  <2>3. target' \in [Components -> Nat] /\ todo' \in SUBSET Components
    BY <1>1 DEF ApplyComponent, Plan, TypeOK, InstallTypeOK
  <2>4. "health" \in PCs
    BY DEF PCs, InstallPC, WorkerPC
  <2>5. QED
    BY <1>1, <2>1, <2>2, <2>3, <2>4, MovesTo
<1>4. InstallTypeOK'
  BY <1>1, <1>2, <1>3 DEF TypeOK, InstallTypeOK, Procs
<1>5. ProcessInv'
  BY <1>1, <1>2, <1>3
  DEF ProcessInv, ExclusiveMutation, Procs, InstallPC, RecoveryPC
<1>6. JournalInv'
  BY <1>1, <1>2, <1>3 DEF JournalInv, InstallPC, Procs
<1>7. MarkerInv'
  BY <1>1, <1>2, <1>3 DEF MarkerInv, InstallPC, RecoveryPC, WorkerPC, Procs
<1>8. KeptInv'
  BY <1>1, <1>2, <1>3 DEF KeptInv, InstallPC, Procs
<1>9. pc'["worker"] = pc["worker"] \/ {pc["worker"], pc'["worker"]} \cap Waiting = {}
  BY <1>1, <1>3 DEF Waiting, Procs
<1>10. QED
  BY <1>2, <1>4, <1>5, <1>6, <1>7, <1>8, <1>9, InstallerKeeps DEF InstallParts

LEMMA RecordSuccessKeeps ==
    ASSUME IInv, UNCHANGED <<serverVars, workerVars>>,
           NEW p \in {"worker", "manual"}, RecordSuccess(p)
    PROVE  IInv'
<1> USE DEF IInv
<1>1. /\ p \in Procs /\ lock = p /\ \A q \in Procs \ {p} : pc[q] = "off"
      /\ cur \in Plan /\ cur.dir \in Dirs
      /\ cur.dir \in Jobs => journal.phase = "executing" /\ journal.job = cur.dir
      /\ snapshot[cur.dir] # NoSnapshot
      /\ pc[p] = "health"
  BY InstallerAt DEF RecordSuccess, InstallPC, Procs
<1>2. /\ UNCHANGED <<cur, target, snapshot, marker, stateTmp, markTmp, kept, faults>>
      /\ UNCHANGED <<journal, begun>>
  BY DEF RecordSuccess, workerVars
<1>3. /\ pc' \in [Procs -> PCs] /\ \A q \in Procs \ {p} : pc'[q] = "off"
      /\ updateState' = updateState \/ updateState' = [rel |-> cur.rel, status |-> "success"]
      /\ todo' = todo \/ todo' = Components
      /\ pc'[p] \in {"rbRestore", "check"} /\ lock' = lock
  <2>1. /\ updateState' = updateState \/ updateState' = [rel |-> cur.rel, status |-> "success"]
        /\ todo' = todo \/ todo' = Components
        /\ lock' = lock /\ \E l \in {"rbRestore", "check"} : pc' = [pc EXCEPT ![p] = l]
    BY DEF RecordSuccess, StartRollback, Goto
  <2>2. "rbRestore" \in PCs /\ "check" \in PCs
    BY DEF PCs, InstallPC, WorkerPC
  <2>3. QED
    BY <1>1, <2>1, <2>2, MovesTo
<1>4. InstallTypeOK'
  <2>1. [rel |-> cur.rel, status |-> "success"] \in [rel : Nat, status : {"none", "success", "failed"}]
    BY <1>1 DEF Plan
  <2>2. updateState' \in [rel : Nat, status : {"none", "success", "failed"}]
    BY <1>3, <2>1 DEF TypeOK, InstallTypeOK
  <2>3. QED
    BY <1>1, <1>2, <1>3, <2>2 DEF TypeOK, InstallTypeOK, Procs
<1>5. ProcessInv'
  BY <1>1, <1>2, <1>3
  DEF ProcessInv, ExclusiveMutation, Procs, InstallPC, RecoveryPC
<1>6. JournalInv'
  BY <1>1, <1>2, <1>3 DEF JournalInv, InstallPC, Procs
<1>7. MarkerInv'
  BY <1>1, <1>2, <1>3 DEF MarkerInv, InstallPC, RecoveryPC, WorkerPC, Procs
<1>8. KeptInv'
  BY <1>1, <1>2, <1>3 DEF KeptInv, InstallPC, Procs
<1>9. pc'["worker"] = pc["worker"] \/ {pc["worker"], pc'["worker"]} \cap Waiting = {}
  BY <1>1, <1>3 DEF Waiting, Procs
<1>10. QED
  BY <1>2, <1>4, <1>5, <1>6, <1>7, <1>8, <1>9, InstallerKeeps DEF InstallParts

LEMMA CompleteInstallKeeps ==
    ASSUME IInv, UNCHANGED <<serverVars, workerVars>>,
           NEW p \in {"worker", "manual"}, CompleteInstall(p)
    PROVE  IInv'
<1> USE DEF IInv
<1>1. /\ p \in Procs /\ lock = p /\ \A q \in Procs \ {p} : pc[q] = "off"
      /\ cur \in Plan /\ cur.dir \in Dirs
      /\ cur.dir \in Jobs => journal.phase = "executing" /\ journal.job = cur.dir
      /\ snapshot[cur.dir] # NoSnapshot
      /\ pc[p] = "check" /\ (p = "worker" => cur.dir = journal.job)
  BY InstallerAt DEF CompleteInstall, JournalInv, InstallPC, Procs
<1>2. /\ UNCHANGED <<cur, todo, target, snapshot, updateState, stateTmp, markTmp, faults>>
      /\ UNCHANGED <<journal, begun>>
  BY DEF CompleteInstall, workerVars
<1>3. /\ pc' \in [Procs -> PCs] /\ \A q \in Procs \ {p} : pc'[q] = "off"
      /\ marker' = NoPlan /\ kept' = kept \cup {cur.dir}
      /\ \/ p = "worker" /\ pc'[p] = "doneOk" /\ lock' = lock
         \/ p = "manual" /\ pc'[p] = "off" /\ lock' = "none"
  <2>1. /\ marker' = NoPlan /\ kept' = kept \cup {cur.dir}
        /\ \/ p = "worker" /\ pc' = [pc EXCEPT ![p] = "doneOk"] /\ lock' = lock
           \/ p = "manual" /\ pc' = [pc EXCEPT ![p] = "off"] /\ lock' = "none"
    BY DEF CompleteInstall, Return, Goto, Exit
  <2>2. "doneOk" \in PCs /\ "off" \in PCs
    BY DEF PCs, InstallPC, WorkerPC
  <2>3. QED
    BY <1>1, <2>1, <2>2, MovesTo
<1>4. InstallTypeOK'
  BY <1>1, <1>2, <1>3 DEF TypeOK, InstallTypeOK, Procs
<1>5. ProcessInv'
  BY <1>1, <1>2, <1>3
  DEF ProcessInv, ExclusiveMutation, Procs, InstallPC, RecoveryPC
<1>6. JournalInv'
  BY <1>1, <1>2, <1>3 DEF JournalInv, InstallPC, Procs
<1>7. MarkerInv'
  BY <1>1, <1>2, <1>3 DEF MarkerInv, InstallPC, RecoveryPC, WorkerPC, Procs
<1>8. KeptInv'
  <2>0. cur.dir \in Jobs => begun[cur.dir] = 1
    BY <1>1 DEF AgreementInv
  <2>1. \A j \in kept' \cap Jobs : begun[j] = 1 /\ snapshot[j] # NoSnapshot
    BY <1>1, <1>3, <2>0 DEF KeptInv
  <2>2. journal.phase = "failed" => journal.job \notin kept'
    BY <1>1, <1>3, JournalRow DEF KeptInv
  <2>3. QED
    BY <1>1, <1>2, <1>3, <2>1, <2>2 DEF KeptInv, InstallPC, Procs
<1>9. pc'["worker"] = pc["worker"] \/ {pc["worker"], pc'["worker"]} \cap Waiting = {}
  BY <1>1, <1>3 DEF Waiting, Procs
<1>10. \A j \in Jobs : \/ j \in kept' <=> j \in kept
                       \/ journal.phase = "executing" /\ journal.job = j
  BY <1>1, <1>3
<1>11. QED
  BY <1>2, <1>4, <1>5, <1>6, <1>7, <1>8, <1>9, <1>10, InstallerKeeps
  DEF InstallParts

LEMMA InstallFailsKeeps ==
    ASSUME IInv, UNCHANGED <<serverVars, workerVars>>,
           NEW p \in {"worker", "manual"}, InstallFails(p)
    PROVE  IInv'
<1> USE DEF IInv
<1>1. /\ p \in Procs /\ lock = p /\ \A q \in Procs \ {p} : pc[q] = "off"
      /\ cur \in Plan /\ cur.dir \in Dirs
      /\ cur.dir \in Jobs => journal.phase = "executing" /\ journal.job = cur.dir
      /\ pc[p] \in {"install", "mark", "apply", "health", "check"}
      /\ pc[p] # "install" => snapshot[cur.dir] # NoSnapshot
  BY InstallerAt DEF InstallFails, InstallPC, Procs
<1>2. /\ UNCHANGED <<cur, target, updateState, stateTmp, markTmp, kept>>
      /\ UNCHANGED <<journal, begun>>
  BY DEF InstallFails, workerVars
<1>3. /\ pc' \in [Procs -> PCs] /\ \A q \in Procs \ {p} : pc'[q] = "off"
      /\ faults' \in 0..MaxFaults /\ todo' \in SUBSET Components
      /\ \A d \in Dirs : snapshot[d] # NoSnapshot => snapshot'[d] # NoSnapshot
      /\ snapshot' \in [Dirs -> Snapshot \cup {NoSnapshot}]
      /\ \/ /\ pc[p] = "install" /\ marker' = marker
            /\ \/ p = "worker" /\ pc'[p] = "doneFailed" /\ lock' = lock
               \/ p = "manual" /\ pc'[p] = "off" /\ lock' = "none"
         \/ /\ pc[p] = "mark" /\ marker' \in {marker, cur}
            /\ \/ p = "worker" /\ pc'[p] = "doneFailed" /\ lock' = lock
               \/ p = "manual" /\ pc'[p] = "off" /\ lock' = "none"
         \/ /\ pc[p] \in {"apply", "health", "check"} /\ marker' = marker
            /\ pc'[p] = "rbRestore" /\ lock' = lock
  <2>1. todo' \in {todo, Components} /\ todo' \in SUBSET Components
    BY DEF InstallFails, StartRollback, TypeOK, InstallTypeOK
  <2>2. faults' \in 0..MaxFaults
    BY FaultCounted DEF InstallFails, TypeOK, InstallTypeOK
  <2>3. /\ \A d \in Dirs : snapshot[d] # NoSnapshot => snapshot'[d] # NoSnapshot
        /\ snapshot' \in [Dirs -> Snapshot \cup {NoSnapshot}]
    BY <1>1, SnapshotGrows DEF InstallFails
  <2>4. \/ /\ pc[p] = "install" /\ marker' = marker
           /\ \/ p = "worker" /\ pc' = [pc EXCEPT ![p] = "doneFailed"] /\ lock' = lock
              \/ p = "manual" /\ pc' = [pc EXCEPT ![p] = "off"] /\ lock' = "none"
        \/ /\ pc[p] = "mark" /\ marker' \in {marker, cur}
           /\ \/ p = "worker" /\ pc' = [pc EXCEPT ![p] = "doneFailed"] /\ lock' = lock
              \/ p = "manual" /\ pc' = [pc EXCEPT ![p] = "off"] /\ lock' = "none"
        \/ /\ pc[p] \in {"apply", "health", "check"} /\ marker' = marker
           /\ pc' = [pc EXCEPT ![p] = "rbRestore"] /\ lock' = lock
    BY DEF InstallFails, StartRollback, Return, Goto, Exit
  <2>5. "doneFailed" \in PCs /\ "off" \in PCs /\ "rbRestore" \in PCs
    BY DEF PCs, InstallPC, WorkerPC
  <2>6. PICK l \in {"doneFailed", "off", "rbRestore"} : pc' = [pc EXCEPT ![p] = l]
    BY <2>4
  <2>7. /\ pc' \in [Procs -> PCs] /\ pc'[p] = l
        /\ \A q \in Procs \ {p} : pc'[q] = "off"
    BY <1>1, <2>5, <2>6, MovesTo
  <2>8. \A l1 \in PCs : pc' = [pc EXCEPT ![p] = l1] => pc'[p] = l1
    BY <1>1, MovesTo
  <2>9. QED
    BY <2>1, <2>2, <2>3, <2>4, <2>5, <2>7, <2>8
<1>4. InstallTypeOK'
  BY <1>1, <1>2, <1>3 DEF TypeOK, InstallTypeOK, Procs
<1>5. ProcessInv'
  BY <1>1, <1>2, <1>3
  DEF ProcessInv, ExclusiveMutation, Procs, InstallPC, RecoveryPC
<1>6. JournalInv'
  BY <1>1, <1>2, <1>3 DEF JournalInv, InstallPC, Procs
<1>7. MarkerInv'
  <2>1. marker' # NoPlan =>
           /\ marker'.dir \in Jobs => journal.phase = "executing" /\ journal.job = marker'.dir
           /\ marker'.dir \in Dirs /\ snapshot[marker'.dir] # NoSnapshot
    BY <1>1, <1>3 DEF MarkerInv, TypeOK, InstallTypeOK, Plan
  <2>2. pc'["worker"] \notin (WorkerPC \ {"doneFailed"}) \cup {"install", "mark"}
    BY <1>1, <1>3 DEF WorkerPC, Procs
  <2>3. /\ \A q \in Procs : pc'[q] \notin RecoveryPC \cup {"irRestore"}
        /\ \A q \in Procs : pc'[q] \in InstallPC => pc[p] # "install"
    BY <1>1, <1>3 DEF InstallPC, RecoveryPC
  <2>4. QED
    BY <1>1, <1>2, <1>3, <2>1, <2>2, <2>3 DEF MarkerInv
<1>8. KeptInv'
  BY <1>1, <1>2, <1>3, JobDirsAssumption DEF KeptInv, InstallPC, Procs
<1>9. pc'["worker"] = pc["worker"] \/ {pc["worker"], pc'["worker"]} \cap Waiting = {}
  BY <1>1, <1>3 DEF Waiting, Procs
<1>10. QED
  BY <1>2, <1>4, <1>5, <1>6, <1>7, <1>8, <1>9, InstallerKeeps DEF InstallParts

(* The three restorations: the rollback of a failed installation, the      *)
(* recovery of a marker, and that of an executing journal.                 *)
LEMMA RestoreKeeps ==
    ASSUME IInv, UNCHANGED <<serverVars, workerVars>>,
           NEW p \in Procs, NEW from, NEW to, RestoreStep(p, from, to),
           \/ from = "rbRestore" /\ to = "rbHealth"
           \/ from = "recRestore" /\ to = "recHealth"
           \/ from = "irRestore" /\ to = "irState"
    PROVE  IInv'
<1> USE DEF IInv
<1>1. /\ p \in Procs /\ lock = p /\ \A q \in Procs \ {p} : pc[q] = "off"
      /\ cur \in Plan /\ cur.dir \in Dirs
      /\ cur.dir \in Jobs => journal.phase = "executing" /\ journal.job = cur.dir
      /\ snapshot[cur.dir] # NoSnapshot
      /\ pc[p] = from
      /\ from = "recRestore" => p \in {"worker", "status"}
      /\ from = "rbRestore" => p \in {"worker", "manual"}
      /\ from = "irRestore" => p = "worker" /\ cur.dir = journal.job
  BY InstallerAt DEF RestoreStep, JournalInv, InstallPC, RecoveryPC
<1>2. /\ UNCHANGED <<cur, snapshot, marker, updateState, stateTmp, markTmp, faults>>
      /\ UNCHANGED <<journal, begun>>
  BY DEF RestoreStep, workerVars
<1>3. /\ pc' \in [Procs -> PCs] /\ \A q \in Procs \ {p} : pc'[q] = "off"
      /\ target' \in [Components -> Nat] /\ todo' \in SUBSET Components
      /\ kept' = kept \ {cur.dir} /\ lock' = lock /\ pc'[p] \in {from, to}
  <2>1. snapshot[cur.dir].files \in [Components -> Nat]
    BY <1>1 DEF TypeOK, InstallTypeOK, Snapshot, NoSnapshot
  <2>2. /\ \E c \in todo : /\ target' = [target EXCEPT ![c] = snapshot[cur.dir].files[c]]
                           /\ todo' = todo \ {c}
        /\ kept' = kept \ {cur.dir} /\ lock' = lock
        /\ pc' = pc \/ pc' = [pc EXCEPT ![p] = to]
    BY DEF RestoreStep, Goto
  <2>3. target' \in [Components -> Nat] /\ todo' \in SUBSET Components
    BY <2>1, <2>2 DEF TypeOK, InstallTypeOK
  <2>4. QED
    <3>1. pc \in [Procs -> PCs] /\ to \in PCs
      BY DEF IInv, TypeOK, InstallTypeOK, PCs, InstallPC, RecoveryPC, WorkerPC
    <3>2. /\ pc' \in [Procs -> PCs] /\ pc'[p] \in {from, to}
          /\ \A q \in Procs \ {p} : pc'[q] = pc[q]
      BY <1>1, <2>2, <3>1
    <3>3. QED
      BY <1>1, <2>2, <2>3, <3>2
<1>4. InstallTypeOK'
  BY <1>1, <1>2, <1>3 DEF TypeOK, InstallTypeOK, Procs
<1>5. ProcessInv'
  BY <1>1, <1>2, <1>3
  DEF ProcessInv, ExclusiveMutation, Procs, InstallPC, RecoveryPC
<1>6. JournalInv'
  BY <1>1, <1>2, <1>3 DEF JournalInv, InstallPC, Procs
<1>7. MarkerInv'
  <2>1. {from, to} \cap {"install", "mark"} = {}
    OBVIOUS
  <2>2. /\ from \in RecoveryPC <=> to \in RecoveryPC
        /\ from \in InstallPC <=> to \in InstallPC
        /\ from \in WorkerPC \ {"doneFailed"} <=> to \in WorkerPC \ {"doneFailed"}
        /\ to # "irRestore"
    BY DEF InstallPC, RecoveryPC, WorkerPC
  <2>3. "off" \notin InstallPC \cup RecoveryPC \cup WorkerPC
    BY DEF InstallPC, RecoveryPC, WorkerPC
  <2>4. pc[p] = from /\ \A q \in Procs : q # p => pc[q] = "off" /\ pc'[q] = "off"
    BY <1>1, <1>3
  <2>5. /\ \A q \in Procs : pc'[q] \in RecoveryPC => pc[q] \in RecoveryPC
        /\ pc'["worker"] \in (WorkerPC \ {"doneFailed"}) \cup {"install", "mark"} =>
              pc["worker"] \in (WorkerPC \ {"doneFailed"}) \cup {"install", "mark"}
    BY <1>3, <2>1, <2>2, <2>4 DEF Procs
  <2> QED BY <1>1, <1>2, <2>5 DEF MarkerInv
<1>8. KeptInv'
  <2>1. journal.phase = "succeeded" => journal.job \in kept'
    BY <1>1, <1>3, JournalRow DEF KeptInv
  <2>2. pc'["worker"] # "doneOk"
    BY <1>1, <1>3 DEF Procs
  <2>3. pc'["worker"] \in InstallPC \cup {"doneFailed", "irState", "irJournal"} =>
           journal.job \notin kept'
    BY <1>1, <1>3 DEF KeptInv, InstallPC, Procs
  <2>4. QED
    BY <1>2, <1>3, <2>1, <2>2, <2>3 DEF KeptInv
<1>9. pc'["worker"] = pc["worker"] \/ {pc["worker"], pc'["worker"]} \cap Waiting = {}
  BY <1>1, <1>3 DEF Waiting, Procs
<1>10. \A j \in Jobs : \/ j \in kept' <=> j \in kept
                       \/ journal.phase = "executing" /\ journal.job = j
  BY <1>1, <1>3
<1>11. QED
  BY <1>2, <1>4, <1>5, <1>6, <1>7, <1>8, <1>9, <1>10, InstallerKeeps
  DEF InstallParts

LEMMA RecordFailureKeeps ==
    ASSUME IInv, UNCHANGED <<serverVars, workerVars>>,
           NEW p \in Procs, NEW from, NEW to, RecordFailure(p, from, to),
           \/ from = "rbHealth" /\ to = "rbCheck"
           \/ from = "recHealth" /\ to = "recCheck"
           \/ from = "irState" /\ to = "irJournal"
    PROVE  IInv'
<1> USE DEF IInv
<1>1. /\ pc[p] = from /\ lock = p /\ \A q \in Procs \ {p} : pc[q] = "off"
      /\ from = "recHealth" => p \in {"worker", "status"}
      /\ from = "rbHealth" => p \in {"worker", "manual"}
      /\ from = "irState" => p = "worker"
  BY Alone DEF RecordFailure, ProcessInv, Procs, InstallPC, RecoveryPC
<1>2. /\ UNCHANGED <<cur, todo, target, snapshot, marker, stateTmp, markTmp, kept, faults>>
      /\ UNCHANGED <<journal, begun>>
  BY DEF RecordFailure, workerVars
<1>3. /\ pc' \in [Procs -> PCs] /\ \A q \in Procs \ {p} : pc'[q] = "off"
      /\ updateState' = updateState \/ updateState' = [rel |-> cur.rel, status |-> "failed"]
      /\ \/ pc'[p] = "off" /\ lock' = "none"
         \/ pc'[p] = to /\ lock' = lock
  <2>1. /\ updateState' = updateState \/ updateState' = [rel |-> cur.rel, status |-> "failed"]
        /\ \/ pc' = [pc EXCEPT ![p] = "off"] /\ lock' = "none"
           \/ pc' = [pc EXCEPT ![p] = to] /\ lock' = lock
    BY DEF RecordFailure, Goto, Exit
  <2>2. "off" \in PCs /\ to \in PCs
    BY DEF PCs, InstallPC, RecoveryPC, WorkerPC
  <2>3. QED
    BY <1>1, <2>1, <2>2, MovesTo
<1>4. InstallTypeOK'
  <2>1. cur.rel \in Nat
    BY PlanRelease DEF TypeOK, InstallTypeOK
  <2>2. [rel |-> cur.rel, status |-> "failed"] \in [rel : Nat, status : {"none", "success", "failed"}]
    BY <2>1
  <2>3. updateState' \in [rel : Nat, status : {"none", "success", "failed"}]
    BY <1>3, <2>2 DEF TypeOK, InstallTypeOK
  <2>4. QED
    BY <1>1, <1>2, <1>3, <2>3 DEF TypeOK, InstallTypeOK, Procs
<1>5. ProcessInv'
  BY <1>1, <1>2, <1>3
  DEF ProcessInv, ExclusiveMutation, Procs, InstallPC, RecoveryPC
<1>6. JournalInv'
  BY <1>1, <1>2, <1>3 DEF JournalInv, InstallPC, Procs
<1>7. MarkerInv'
  <2>1. /\ from \in RecoveryPC <=> to \in RecoveryPC
        /\ from \in InstallPC <=> to \in InstallPC
        /\ from \in WorkerPC \ {"doneFailed"} <=> to \in WorkerPC \ {"doneFailed"}
        /\ {from, to} \cap {"install", "mark", "irRestore"} = {}
    BY DEF InstallPC, RecoveryPC, WorkerPC
  <2>2. "off" \notin InstallPC \cup RecoveryPC \cup WorkerPC
    BY DEF InstallPC, RecoveryPC, WorkerPC
  <2>3. \A q \in Procs : pc'[q] = "off" \/ (q = p /\ pc'[q] = to)
    BY <1>3
  <2>4. \A q \in Procs :
           /\ pc'[q] \in RecoveryPC => pc[q] \in RecoveryPC
           /\ pc'[q] \in InstallPC \cup {"irRestore"} =>
                 pc[q] \in (InstallPC \ {"install"}) \cup {"irRestore"}
    BY <1>1, <2>1, <2>2, <2>3
  <2>5. pc'["worker"] \in (WorkerPC \ {"doneFailed"}) \cup {"install", "mark"} => marker = NoPlan
    BY <1>1, <2>1, <2>2, <2>3 DEF Procs, MarkerInv
  <2>6. QED
    BY <1>2, <2>4, <2>5, MarkerFrame
<1>8. KeptInv'
  BY <1>1, <1>2, <1>3 DEF KeptInv, InstallPC, Procs
<1>9. pc'["worker"] = pc["worker"] \/ {pc["worker"], pc'["worker"]} \cap Waiting = {}
  BY <1>1, <1>3 DEF Waiting, Procs
<1>10. QED
  BY <1>2, <1>4, <1>5, <1>6, <1>7, <1>8, <1>9, InstallerKeeps DEF InstallParts

LEMMA CompleteRollbackKeeps ==
    ASSUME IInv, UNCHANGED <<serverVars, workerVars>>,
           NEW p \in {"worker", "manual"}, CompleteRollback(p)
    PROVE  IInv'
<1> USE DEF IInv
<1>1. /\ p \in Procs /\ pc[p] = "rbCheck" /\ lock = p
      /\ \A q \in Procs \ {p} : pc[q] = "off"
  BY Alone DEF CompleteRollback, ProcessInv, Procs
<1>2. /\ UNCHANGED <<cur, todo, target, snapshot, updateState, stateTmp, markTmp, kept, faults>>
      /\ UNCHANGED <<journal, begun>>
  BY DEF CompleteRollback, workerVars
<1>3. /\ pc' \in [Procs -> PCs] /\ \A q \in Procs \ {p} : pc'[q] = "off"
      /\ marker' = NoPlan
      /\ \/ p = "worker" /\ pc'[p] = "doneFailed" /\ lock' = lock
         \/ p = "manual" /\ pc'[p] = "off" /\ lock' = "none"
  <2>1. /\ marker' = NoPlan
        /\ \/ p = "worker" /\ pc' = [pc EXCEPT ![p] = "doneFailed"] /\ lock' = lock
           \/ p = "manual" /\ pc' = [pc EXCEPT ![p] = "off"] /\ lock' = "none"
    BY DEF CompleteRollback, Return, Goto, Exit
  <2>2. "doneFailed" \in PCs /\ "off" \in PCs
    BY DEF PCs, WorkerPC
  <2>3. QED
    BY <1>1, <2>1, <2>2, MovesTo
<1>4. InstallTypeOK'
  BY <1>1, <1>2, <1>3 DEF TypeOK, InstallTypeOK, Procs
<1>5. ProcessInv'
  BY <1>1, <1>2, <1>3
  DEF ProcessInv, ExclusiveMutation, Procs, InstallPC, RecoveryPC
<1>6. JournalInv'
  BY <1>1, <1>2, <1>3 DEF JournalInv, InstallPC, Procs
<1>7. MarkerInv'
  BY <1>1, <1>2, <1>3 DEF MarkerInv, InstallPC, RecoveryPC, WorkerPC, Procs
<1>8. KeptInv'
  BY <1>1, <1>2, <1>3 DEF KeptInv, InstallPC, Procs
<1>9. pc'["worker"] = pc["worker"] \/ {pc["worker"], pc'["worker"]} \cap Waiting = {}
  BY <1>1, <1>3 DEF Waiting, Procs
<1>10. QED
  BY <1>2, <1>4, <1>5, <1>6, <1>7, <1>8, <1>9, InstallerKeeps DEF InstallParts

LEMMA CompleteRecoveryKeeps ==
    ASSUME IInv, UNCHANGED <<serverVars, workerVars>>,
           NEW p \in {"worker", "status"}, CompleteRecovery(p)
    PROVE  IInv'
<1> USE DEF IInv
<1>1. /\ p \in Procs /\ pc[p] = "recCheck" /\ lock = p
      /\ \A q \in Procs \ {p} : pc[q] = "off"
  BY Alone DEF CompleteRecovery, ProcessInv, Procs
<1>2. /\ UNCHANGED <<cur, todo, target, snapshot, updateState, stateTmp, markTmp, kept, faults>>
      /\ UNCHANGED <<journal, begun>>
  BY DEF CompleteRecovery, workerVars
<1>3. /\ pc' \in [Procs -> PCs] /\ \A q \in Procs \ {p} : pc'[q] = "off"
      /\ marker' = NoPlan
      /\ \/ p = "worker" /\ pc'[p] = "journal" /\ lock' = lock
         \/ p = "status" /\ pc'[p] = "off" /\ lock' = "none"
  <2>1. /\ marker' = NoPlan
        /\ \/ p = "worker" /\ pc' = [pc EXCEPT ![p] = "journal"] /\ lock' = lock
           \/ p = "status" /\ pc' = [pc EXCEPT ![p] = "off"] /\ lock' = "none"
    BY DEF CompleteRecovery, Return, Goto, Exit
  <2>2. "journal" \in PCs /\ "off" \in PCs
    BY DEF PCs, WorkerPC
  <2>3. QED
    BY <1>1, <2>1, <2>2, MovesTo
<1>4. InstallTypeOK'
  BY <1>1, <1>2, <1>3 DEF TypeOK, InstallTypeOK, Procs
<1>5. ProcessInv'
  BY <1>1, <1>2, <1>3
  DEF ProcessInv, ExclusiveMutation, Procs, InstallPC, RecoveryPC
<1>6. JournalInv'
  BY <1>1, <1>2, <1>3 DEF JournalInv, InstallPC, Procs
<1>7. MarkerInv'
  BY <1>1, <1>2, <1>3 DEF MarkerInv, InstallPC, RecoveryPC, WorkerPC, Procs
<1>8. KeptInv'
  BY <1>1, <1>2, <1>3 DEF KeptInv, InstallPC, Procs
<1>9. pc'["worker"] = pc["worker"] \/ {pc["worker"], pc'["worker"]} \cap Waiting = {}
  BY <1>1, <1>3 DEF Waiting, Procs
<1>10. QED
  BY <1>2, <1>4, <1>5, <1>6, <1>7, <1>8, <1>9, InstallerKeeps DEF InstallParts

LEMMA RecoverMarkerKeeps ==
    ASSUME IInv, UNCHANGED <<serverVars, workerVars>>,
           NEW p \in {"worker", "status"}, RecoverMarker(p)
    PROVE  IInv'
<1> USE DEF IInv
<1>1. /\ p \in Procs /\ lock = "none" /\ marker # NoPlan
      /\ \A q \in Procs : pc[q] = "off"
  BY DEF RecoverMarker, Acquire, ProcessInv, ExclusiveMutation, Procs
<1>2. /\ UNCHANGED <<target, snapshot, marker, updateState, stateTmp, markTmp, kept, faults>>
      /\ UNCHANGED <<journal, begun>>
  BY DEF RecoverMarker, fileVars, workerVars
<1>3. /\ pc' \in [Procs -> PCs] /\ \A q \in Procs \ {p} : pc'[q] = "off"
      /\ cur' = marker /\ todo' = Components /\ pc'[p] = "recRestore" /\ lock' = p
  BY <1>1
  DEF RecoverMarker, Acquire, TypeOK, InstallTypeOK, PCs, InstallPC, RecoveryPC, WorkerPC
<1>4. InstallTypeOK'
  BY <1>1, <1>2, <1>3 DEF TypeOK, InstallTypeOK, Procs
<1>5. ProcessInv'
  BY <1>1, <1>2, <1>3
  DEF ProcessInv, ExclusiveMutation, Procs, InstallPC, RecoveryPC
<1>6. JournalInv'
  BY <1>1, <1>2, <1>3 DEF JournalInv, InstallPC, Procs
<1>7. MarkerInv'
  BY <1>1, <1>2, <1>3 DEF MarkerInv, InstallPC, RecoveryPC, WorkerPC, Procs
<1>8. KeptInv'
  BY <1>1, <1>2, <1>3 DEF KeptInv, InstallPC, Procs
<1>9. pc'["worker"] = pc["worker"] \/ {pc["worker"], pc'["worker"]} \cap Waiting = {}
  BY <1>1, <1>3 DEF Waiting, Procs
<1>10. QED
  BY <1>2, <1>4, <1>5, <1>6, <1>7, <1>8, <1>9, InstallerKeeps DEF InstallParts

LEMMA ManualStartKeeps ==
    ASSUME IInv, UNCHANGED <<serverVars, workerVars>>,
           NEW d \in ManualDirs, NEW rel \in ManualReleases, ManualStart(d, rel)
    PROVE  IInv'
<1> USE DEF IInv
<1>1. /\ lock = "none" /\ [dir |-> d, rel |-> rel] \in Plan /\ d \notin Jobs
      /\ \A q \in Procs : pc[q] = "off"
  BY DirsAssumption, JobDirsAssumption, ManualReleasesAssumption
     DEF ManualStart, Acquire, ProcessInv, ExclusiveMutation, Procs, Plan
<1>2. /\ UNCHANGED <<todo, target, snapshot, marker, updateState, stateTmp, markTmp, kept, faults>>
      /\ UNCHANGED <<journal, begun>>
  BY DEF ManualStart, fileVars, workerVars
<1>3. /\ pc' \in [Procs -> PCs] /\ \A q \in Procs \ {"manual"} : pc'[q] = "off"
      /\ cur' = [dir |-> d, rel |-> rel] /\ pc'["manual"] = "install" /\ lock' = "manual"
  BY <1>1
  DEF ManualStart, Acquire, Procs, TypeOK, InstallTypeOK, PCs, InstallPC, RecoveryPC, WorkerPC
<1>4. InstallTypeOK'
  BY <1>1, <1>2, <1>3 DEF TypeOK, InstallTypeOK, Procs
<1>5. ProcessInv'
  BY <1>1, <1>2, <1>3
  DEF ProcessInv, ExclusiveMutation, Procs, InstallPC, RecoveryPC
<1>6. JournalInv'
  BY <1>1, <1>2, <1>3 DEF JournalInv, InstallPC, Procs
<1>7. MarkerInv'
  BY <1>1, <1>2, <1>3 DEF MarkerInv, InstallPC, RecoveryPC, WorkerPC, Procs
<1>8. KeptInv'
  BY <1>1, <1>2, <1>3 DEF KeptInv, InstallPC, Procs
<1>9. pc'["worker"] = pc["worker"] \/ {pc["worker"], pc'["worker"]} \cap Waiting = {}
  BY <1>1, <1>3 DEF Waiting, Procs
<1>10. QED
  BY <1>2, <1>4, <1>5, <1>6, <1>7, <1>8, <1>9, InstallerKeeps DEF InstallParts

LEMMA OtherDiesKeeps ==
    ASSUME IInv, UNCHANGED <<serverVars, workerVars>>,
           NEW p \in {"manual", "status"}, Dies(p)
    PROVE  IInv'
<1> USE DEF IInv
<1>1. /\ p \in Procs /\ pc[p] # "off"
      /\ \A q \in Procs \ {p} : pc[q] = "off"
  BY Alone DEF Dies, ProcessInv, Procs
<1>2. /\ UNCHANGED <<cur, todo, target, snapshot, marker, updateState, kept>>
      /\ UNCHANGED <<journal, begun>>
  BY DEF Dies, workerVars
<1>3. /\ pc' \in [Procs -> PCs] /\ \A q \in Procs \ {p} : pc'[q] = "off"
      /\ faults' \in 0..MaxFaults /\ stateTmp' \in BOOLEAN /\ markTmp' \in BOOLEAN
      /\ pc'[p] = "off" /\ lock' = "none"
  <2>1. pc' = [pc EXCEPT ![p] = "off"] /\ lock' = "none"
    BY DEF Dies, Exit
  <2>2. stateTmp' \in BOOLEAN /\ markTmp' \in BOOLEAN
    BY DEF Dies, TypeOK, InstallTypeOK
  <2>3. faults' \in 0..MaxFaults
    BY FaultCounted DEF Dies, TypeOK, InstallTypeOK
  <2>4. "off" \in PCs
    BY DEF PCs
  <2>5. QED
    BY <1>1, <2>1, <2>2, <2>3, <2>4, MovesTo
<1>4. InstallTypeOK'
  BY <1>1, <1>2, <1>3 DEF TypeOK, InstallTypeOK, Procs
<1>5. ProcessInv'
  BY <1>1, <1>2, <1>3
  DEF ProcessInv, ExclusiveMutation, Procs, InstallPC, RecoveryPC
<1>6. JournalInv'
  BY <1>1, <1>2, <1>3 DEF JournalInv, InstallPC, Procs
<1>7. MarkerInv'
  BY <1>1, <1>2, <1>3 DEF MarkerInv, InstallPC, RecoveryPC, WorkerPC, Procs
<1>8. KeptInv'
  BY <1>1, <1>2, <1>3 DEF KeptInv, InstallPC, Procs
<1>9. pc'["worker"] = pc["worker"] \/ {pc["worker"], pc'["worker"]} \cap Waiting = {}
  BY <1>1, <1>3 DEF Waiting, Procs
<1>10. QED
  BY <1>2, <1>4, <1>5, <1>6, <1>7, <1>8, <1>9, InstallerKeeps DEF InstallParts

(* The steps of installStaged, of recoverPendingUpdate and of the other    *)
(* processes, together.                                                    *)
LEMMA InstallStepKeeps ==
    ASSUME IInv, UNCHANGED <<serverVars, workerVars>>,
           NEW p \in {"worker", "manual"}, InstallStep(p)
    PROVE  IInv'
<1>1. p \in Procs
  BY DEF Procs
<1>2. QED
  BY <1>1, CreateRollbackKeeps, WriteTransactionKeeps, ApplyComponentKeeps, RecordSuccessKeeps,
     CompleteInstallKeeps, RestoreKeeps, RecordFailureKeeps, CompleteRollbackKeeps
     DEF InstallStep

LEMMA RecoveryStepKeeps ==
    ASSUME IInv, UNCHANGED <<serverVars, workerVars>>,
           NEW p \in {"worker", "status"}, RecoveryStep(p)
    PROVE  IInv'
<1>1. p \in Procs
  BY DEF Procs
<1>2. QED
  BY <1>1, RestoreKeeps, RecordFailureKeeps, CompleteRecoveryKeeps DEF RecoveryStep

LEMMA OtherProcessesKeep ==
    ASSUME IInv, OtherProcesses
    PROVE  IInv'
<1>1. UNCHANGED <<serverVars, workerVars>>
  BY DEF OtherProcesses
<1>2. CASE ManualUpdater
  BY <1>1, <1>2, ManualStartKeeps, InstallStepKeeps, InstallFailsKeeps, OtherDiesKeeps
     DEF ManualUpdater
<1>3. CASE StatusService
  BY <1>1, <1>3, RecoverMarkerKeeps, RecoveryStepKeeps, OtherDiesKeeps
     DEF StatusService, StatusStart
<1>4. QED
  BY <1>2, <1>3 DEF OtherProcesses

(* The worker begins, with recovery when a marker is pending. *)
LEMMA WorkerStartKeeps ==
    ASSUME IInv, WorkerStart
    PROVE  IInv'
<1> USE DEF IInv
<1>1. CASE RecoverMarker("worker")
  BY <1>1, RecoverMarkerKeeps DEF WorkerStart
<1>2. CASE /\ marker = NoPlan
           /\ Acquire("worker", "journal")
           /\ UNCHANGED <<cur, todo, installed>>
  <2>1. /\ UNCHANGED <<serverVars, workerVars>>
        /\ UNCHANGED <<cur, todo, fileVars, kept, faults, journal, begun>>
        /\ lock = "none" /\ lock' = "worker" /\ pc' = [pc EXCEPT !["worker"] = "journal"]
    BY <1>2 DEF WorkerStart, Acquire, installed, workerVars
  <2>2. \A q \in Procs : pc[q] = "off"
    BY <2>1 DEF ProcessInv, ExclusiveMutation, Procs
  <2> USE DEF fileVars
  <2>3. InstallTypeOK'
    BY <2>1 DEF TypeOK, InstallTypeOK, Procs, WorkerPC, PCs, fileVars
  <2>4. ProcessInv'
    BY <2>1, <2>2
    DEF ProcessInv, ExclusiveMutation, Procs, InstallPC, RecoveryPC, TypeOK, InstallTypeOK
  <2>5. JournalInv'
    BY <2>1, <2>2 DEF JournalInv, InstallPC, Procs, TypeOK, InstallTypeOK
  <2>6. MarkerInv'
    BY <1>2, <2>1, <2>2 DEF MarkerInv, InstallPC, RecoveryPC, WorkerPC, Procs, TypeOK, InstallTypeOK
  <2>7. KeptInv'
    BY <2>1, <2>2 DEF KeptInv, InstallPC, Procs, TypeOK, InstallTypeOK
  <2>8. {pc["worker"], pc'["worker"]} \cap Waiting = {}
    BY <2>1, <2>2 DEF Waiting, Procs, TypeOK, InstallTypeOK
  <2>9. QED
    BY <2>1, <2>3, <2>4, <2>5, <2>6, <2>7, <2>8, InstallerKeeps DEF InstallParts
<1>3. QED
  BY <1>1, <1>2 DEF WorkerStart

-----------------------------------------------------------------------------
(* The worker *)

(* Requests whose worker is gone. *)
LEMMA AbandonEffect ==
    ASSUME TypeOK, Abandon
    PROVE  /\ msgs' \in SUBSET Message /\ reply' \in Reply /\ reply' = NoReply
           /\ \A n \in msgs' : ~n.live
           /\ \A n \in msgs' : n.op = "result" =>
                 \E m \in msgs : m.op = "result" /\ m.job = n.job /\ m.result = n.result
<1>1. \A n \in msgs' : \E m \in msgs : m \in Message /\ n = [m EXCEPT !.live = FALSE]
  BY DEF Abandon, TypeOK
<1>2. reply' \in Reply /\ reply' = NoReply
  BY DEF Abandon, Reply, NoReply
<1>3. ASSUME NEW n \in msgs'
      PROVE  /\ n \in Message /\ ~n.live
             /\ n.op = "result" =>
                   \E m \in msgs : m.op = "result" /\ m.job = n.job /\ m.result = n.result
  <2>1. PICK m \in msgs : m \in Message /\ n = [m EXCEPT !.live = FALSE]
    BY <1>1
  <2>2. QED
    BY <2>1, AbandonedMessage
<1>4. QED
  BY <1>2, <1>3

(* The journal may be forgotten when no result is owed. *)
Settled ==
    /\ marker = NoPlan
    /\ \A j \in Jobs : begun[j] > 0 => state[j] # "dispatched"
    /\ \A m \in msgs : m.op = "result" => state[m.job] # "dispatched"

(* The worker ends, orderly or not. *)
LEMMA EndKeeps ==
    ASSUME IInv, pc["worker"] # "off", Abandon,
           pc' = [pc EXCEPT !["worker"] = "off"], lock' = "none",
           UNCHANGED <<serverVars, cur, todo, target, snapshot, marker, updateState, kept, begun>>,
           faults' \in 0..MaxFaults, stateTmp' \in BOOLEAN, markTmp' \in BOOLEAN,
           floor' \in Nat, journal' = journal \/ (journal' = NoJournal /\ Settled)
    PROVE  IInv'
<1> USE DEF IInv
<1>1. /\ msgs' \in SUBSET Message /\ reply' \in Reply /\ reply' = NoReply
      /\ \A n \in msgs' : ~n.live
      /\ \A n \in msgs' : n.op = "result" =>
            \E m \in msgs : m.op = "result" /\ m.job = n.job /\ m.result = n.result
  BY AbandonEffect
<1>2. \A q \in Procs : pc'[q] = "off"
  BY Alone DEF ProcessInv, Procs, TypeOK, InstallTypeOK
<1>3. TypeOK'
  <2>1. JobsTypeOK'
    BY JobsTypeKept DEF TypeOK
  <2>2. InstallTypeOK'
    BY DEF TypeOK, InstallTypeOK, PCs, Procs
  <2>3. QED
    BY <1>1, <2>1, <2>2 DEF TypeOK
<1>4. ProcessInv'
  BY <1>2 DEF ProcessInv, ExclusiveMutation, Procs, InstallPC
<1>5. RequestInv'
  BY <1>1, <1>2 DEF RequestInv, NoReply, Procs
<1>6. JournalInv'
  BY <1>2 DEF JournalInv, InstallPC, Procs
<1>7. MarkerInv'
  BY <1>2 DEF MarkerInv, InstallPC, RecoveryPC, WorkerPC, Procs, Settled
<1>8. KeptInv'
  <2>1. pc'["worker"] \notin InstallPC \cup {"doneFailed", "irState", "irJournal", "doneOk"}
    BY <1>2 DEF InstallPC, Procs
  <2>2. journal' = journal \/ journal'.phase = "none"
    BY NothingJournaled
  <2>3. QED
    BY <2>1, <2>2 DEF KeptInv
<1>9. AgreementInv'
  <2>1. /\ pc'["worker"] = "off" /\ reply'.code = "none"
        /\ UNCHANGED <<state, kept, begun>> /\ \A n \in msgs' : ~n.live
    BY <1>1, <1>2 DEF Procs, NoReply, serverVars
  <2>2. CASE journal' = journal
    BY <1>1, <2>1, <2>2, ResultsRemain, AgreementFrame
  <2>3. CASE journal' = NoJournal /\ Settled
    <3>1. journal'.phase = "none"
      BY <2>3 DEF NoJournal
    <3>2. QED
      BY <1>1, <2>1, <2>3, <3>1 DEF AgreementInv, Settled
  <2>4. QED
    BY <2>2, <2>3
<1>10. QED
  BY <1>3, <1>4, <1>5, <1>6, <1>7, <1>8, <1>9

LEMMA LeaveKeeps ==
    ASSUME IInv, pc["worker"] # "off", Leave,
           UNCHANGED <<serverVars, cur, todo, installed, begun>>,
           floor' \in Nat, journal' = journal \/ (journal' = NoJournal /\ Settled)
    PROVE  IInv'
<1>1. stateTmp' \in BOOLEAN /\ markTmp' \in BOOLEAN
  BY DEF IInv, TypeOK, InstallTypeOK, installed, fileVars
<1>2. QED
  BY <1>1, EndKeeps
  DEF IInv, TypeOK, InstallTypeOK, Leave, Exit, installed, fileVars

(* With a prepared job, or an acknowledged result, nothing is owed. *)
LEMMA SettledWhen ==
    ASSUME IInv, marker = NoPlan,
           \/ journal = NoJournal
           \/ journal.phase = "prepared"
           \/ /\ journal.phase \in {"succeeded", "failed"}
              /\ state[journal.job] # "dispatched"
    PROVE  Settled
<1>1. journal.phase \in {"none", "prepared", "succeeded", "failed"}
  BY NothingJournaled
<1>2. journal.phase \in {"succeeded", "failed"} => state[journal.job] # "dispatched"
  BY NothingJournaled
<1>3. TypeOK /\ AgreementInv
  BY DEF IInv
<1>4. QED
  BY <1>1, <1>2, <1>3, OwedIsJournaled DEF Settled

(* The worker goes on: what is left to show. *)
LEMMA GoesOn ==
    ASSUME IInv, pc["worker"] # "off",
           NEW l \in InstallPC \cup WorkerPC, pc' = [pc EXCEPT !["worker"] = l], lock' = lock,
           UNCHANGED <<serverVars, installed>>,
           cur' \in Plan \cup {NoPlan}, todo' \in SUBSET Components,
           journal' \in Journal \cup {NoJournal}, floor' \in Nat,
           msgs' \in SUBSET Message, reply' \in Reply, begun' \in [Jobs -> Nat],
           RequestInv', JournalInv', MarkerInv', KeptInv', AgreementInv'
    PROVE  IInv'
<1> USE DEF IInv
<1>1. lock = "worker" /\ \A q \in Procs \ {"worker"} : pc[q] = "off"
  BY Alone DEF ProcessInv, Procs
<1>2. JobsTypeOK'
  BY JobsTypeKept DEF TypeOK
<1>3. InstallTypeOK'
  BY DEF TypeOK, InstallTypeOK, PCs, Procs, installed, fileVars
<1>4. ProcessInv'
  BY <1>1
  DEF ProcessInv, ExclusiveMutation, Procs, InstallPC, RecoveryPC, TypeOK, InstallTypeOK
<1>5. TypeOK'
  BY <1>2, <1>3 DEF TypeOK
<1>6. QED
  BY <1>4, <1>5

(* The worker writes its one request. *)
LEMMA SendEffect ==
    ASSUME TypeOK, \A n \in msgs : ~n.live, NEW m \in Message, m.live, Send(m),
           m.op = "poll" => pc'["worker"] = "pollWait",
           m.op = "package" => pc'["worker"] = "pkgWait",
           m.op = "start" => pc'["worker"] = "startWait" /\ m.job = journal'.job,
           m.op = "result" => pc'["worker"] = "resultWait" /\ m.job = journal'.job,
           m.op # "polled"
    PROVE  RequestInv' /\ msgs' \in SUBSET Message /\ reply' \in Reply
<1>1. msgs' \in SUBSET Message /\ reply' \in Reply
  BY DEF Send, TypeOK, Reply, NoReply
<1>2. m.op \in {"poll", "package", "start", "result"}
  BY MessageFields
<1>3. RequestInv'
  BY <1>2 DEF RequestInv, Send, NoReply, Waiting
<1>4. QED
  BY <1>1, <1>3

LEMMA ReadJournalKeeps ==
    ASSUME IInv, ReadJournal
    PROVE  IInv'
<1> USE DEF IInv
<1>1. /\ pc["worker"] = "journal" /\ marker = NoPlan /\ "worker" \in Procs
      /\ \A q \in Procs \ {"worker"} : pc[q] = "off"
      /\ \A n \in msgs : ~n.live
      /\ reply = NoReply
  BY Alone, Unaddressed
  DEF ReadJournal, MarkerInv, ProcessInv, Procs, WorkerPC, RequestInv, Waiting
<1>2. UNCHANGED <<serverVars, installed, journal, floor, begun>>
  BY DEF ReadJournal
<1>3. CASE /\ journal = NoJournal /\ Goto("worker", "pollWait")
           /\ Send(PollRequest)
           /\ UNCHANGED <<cur, todo>>
  <2> DEFINE m == PollRequest
  <2>1. m \in Message /\ m.live /\ m.op = "poll"
    BY PollRequests
  <2>2. pc' = [pc EXCEPT !["worker"] = "pollWait"] /\ lock' = lock /\ pc'["worker"] = "pollWait"
    BY <1>1, <1>3 DEF Goto, TypeOK, InstallTypeOK
  <2>3. Send(m)
    BY <1>3
  <2> HIDE DEF m
  <2>4. RequestInv' /\ msgs' \in SUBSET Message /\ reply' \in Reply
    BY <1>1, <2>1, <2>2, <2>3, SendEffect
  <2>5. JournalInv'
    BY <1>2, <1>3, <2>2 DEF JournalInv, InstallPC
  <2>6. MarkerInv'
    BY <1>1, <1>2, <1>3, <2>2
       DEF MarkerInv, installed, fileVars, InstallPC, RecoveryPC, WorkerPC, Procs, TypeOK, InstallTypeOK
  <2>7. KeptInv'
    BY <1>2, <1>3, <2>2 DEF KeptInv, installed, fileVars, InstallPC
  <2>8. AgreementInv'
    <3>1. UNCHANGED <<state, journal, begun, kept>>
      BY <1>2 DEF installed, serverVars
    <3>2. msgs' = msgs \cup {m} /\ reply'.code = "none"
      BY <2>3 DEF Send, NoReply
    <3>3. /\ \A n \in msgs' : n.op = "result" => n \in msgs
          /\ \A n \in msgs' : n.live => n.op # "polled"
      BY <1>1, <2>1, <3>2
    <3>4. QED
      BY <3>1, <3>2, <3>3, ResultsRemain, AgreementFrame
  <2>9. QED
    BY <1>1, <1>2, <1>3, <2>2, <2>4, <2>5, <2>6, <2>7, <2>8, GoesOn
       DEF WorkerPC, TypeOK, InstallTypeOK
<1>4. ASSUME NEW l \in {"irRestore", "irJournal", "result", "prepared"}, Goto("worker", l),
             UNCHANGED <<msgs, reply>>, cur' \in Plan \cup {NoPlan}, todo' \in SUBSET Components,
             l = "irRestore" => /\ journal.phase = "executing" /\ cur'.dir = journal.job
                                /\ cur' \in Plan /\ snapshot[cur'.dir] # NoSnapshot,
             l = "irJournal" => journal.phase = "executing" /\ journal.job \notin kept,
             l = "result" => journal.phase \in {"succeeded", "failed"},
             l = "prepared" => journal.phase = "prepared"
      PROVE  IInv'
  <2>1. pc' = [pc EXCEPT !["worker"] = l] /\ lock' = lock /\ pc'["worker"] = l
    BY <1>1, <1>4 DEF Goto, TypeOK, InstallTypeOK
  <2>2. RequestInv'
    BY <1>1, <1>4, <2>1 DEF RequestInv, NoReply
  <2>3. JournalInv'
    BY <1>2, <1>4, <2>1 DEF JournalInv, InstallPC
  <2>4. MarkerInv'
    <3>1. UNCHANGED <<marker, snapshot, journal>>
      BY <1>2 DEF installed, fileVars
    <3>2. \A q \in Procs \ {"worker"} : pc'[q] = "off"
      BY <1>1, <2>1 DEF TypeOK, InstallTypeOK
    <3>3. {l, "off"} \cap (InstallPC \cup RecoveryPC) = {}
      BY DEF InstallPC, RecoveryPC
    <3> QED BY <1>1, <1>4, <2>1, <3>1, <3>2, <3>3 DEF MarkerInv
  <2>5. KeptInv'
    BY <1>2, <1>4, <2>1 DEF KeptInv, installed, fileVars, InstallPC
  <2>6. AgreementInv'
    <3>1. UNCHANGED <<state, req, journal, begun, kept, msgs, reply>>
      BY <1>2, <1>4 DEF installed, serverVars
    <3>2. l \notin {"resultWait", "startWait"}
      OBVIOUS
    <3> QED BY <2>1, <3>1, <3>2 DEF AgreementInv, NoResult, PollView
  <2>7. QED
    BY <1>1, <1>2, <1>4, <2>1, <2>2, <2>3, <2>4, <2>5, <2>6, GoesOn DEF WorkerPC, TypeOK
<1>5. journal.phase = "executing" => /\ journal.job \in Jobs /\ journal.job \in Dirs
                                     /\ req[journal.job].release \in Nat
  BY KnownRelease, JobDirsAssumption, JournalAt DEF AgreementInv, Permitted, Phase
<1>6. CASE /\ journal.phase = "executing" /\ snapshot[journal.job] # NoSnapshot
           /\ Goto("worker", "irRestore")
           /\ cur' = [dir |-> journal.job, rel |-> req[journal.job].release]
           /\ todo' = Components /\ UNCHANGED <<msgs, reply>>
  BY <1>4, <1>5, <1>6 DEF Plan
<1>7. CASE /\ journal.phase = "executing" /\ snapshot[journal.job] = NoSnapshot
           /\ Goto("worker", "irJournal") /\ UNCHANGED <<cur, todo, msgs, reply>>
  <2>1. journal.job \notin kept
    BY <1>5, <1>7 DEF KeptInv
  <2>2. QED
    BY <1>4, <1>7, <2>1 DEF TypeOK, InstallTypeOK
<1>8. CASE /\ journal.phase \in {"succeeded", "failed"}
           /\ Goto("worker", "result") /\ UNCHANGED <<cur, todo, msgs, reply>>
  BY <1>4, <1>8 DEF TypeOK, InstallTypeOK
<1>9. CASE /\ journal.phase = "prepared"
           /\ Goto("worker", "prepared") /\ UNCHANGED <<cur, todo, msgs, reply>>
  BY <1>4, <1>9 DEF TypeOK, InstallTypeOK
<1>10. QED
  BY <1>3, <1>6, <1>7, <1>8, <1>9 DEF ReadJournal

(* The worker writes a new phase of an execution, or an outcome, into the  *)
(* journal and goes on without a request.                                  *)
LEMMA JournalWriteKeeps ==
    ASSUME IInv, pc["worker"] \in WorkerPC, marker = NoPlan,
           NEW j \in Jobs, NEW ph \in {"prepared", "succeeded", "failed"}, NEW b \in BOOLEAN,
           journal' = [job |-> j, phase |-> ph, rb |-> b],
           NEW l \in {"result", "prepared"}, l = "prepared" <=> ph = "prepared",
           pc' = [pc EXCEPT !["worker"] = l], lock' = lock,
           UNCHANGED <<serverVars, cur, todo, installed, floor, begun, msgs>>, reply' = NoReply,
           \A n \in msgs : ~n.live,
           journal = NoJournal \/ (journal.phase = "executing" /\ journal.job = j),
           ph = "prepared" => begun[j] = 0 /\ NoResult(j),
           ph = "succeeded" => j \in kept,
           ph = "failed" => j \notin kept,
           ph \in {"succeeded", "failed"} => state[j] = "dispatched"
    PROVE  IInv'
<1> USE DEF IInv
<1>1. /\ pc["worker"] # "off" /\ "worker" \in Procs
      /\ \A q \in Procs \ {"worker"} : pc[q] = "off"
  BY WorkerAt
<1>2. /\ pc'["worker"] = l /\ \A q \in Procs \ {"worker"} : pc'[q] = "off"
      /\ UNCHANGED <<marker, snapshot, kept, state>>
  BY <1>1 DEF TypeOK, InstallTypeOK, installed, fileVars, serverVars
<1>3. journal'.job = j /\ journal'.phase = ph /\ journal' \in Journal \cup {NoJournal}
  BY DEF Journal, Phase
<1>4. RequestInv'
  BY <1>2 DEF RequestInv, NoReply, Waiting
<1>5. JournalInv'
  BY <1>2, <1>3 DEF JournalInv, InstallPC
<1>6. MarkerInv'
  BY <1>2 DEF MarkerInv, InstallPC, RecoveryPC, Procs
<1>7. KeptInv'
  BY <1>2, <1>3 DEF KeptInv, InstallPC
<1>8. AgreementInv'
  <2>1. \A i \in Jobs : begun[i] > 0 /\ state[i] = "dispatched" => i = j /\ ph # "prepared"
    <3>1. journal.phase = "none" \/ (journal.phase = "executing" /\ journal.job = j)
      BY NothingJournaled
    <3>2. begun[j] = 0 => ~(begun[j] > 0)
      BY SMT, Z3
    <3>3. QED
      BY <3>1, <3>2, OwedIsJournaled
  <2>2. \A m \in msgs : m.op = "result" => state[m.job] \in Permitted /\ state[m.job] # "dispatched"
    <3>1. journal.phase \in {"none", "executing"}
      BY NothingJournaled
    <3>2. QED
      BY <3>1, OwedIsJournaled
  <2>3. QED
    BY <1>2, <1>3, <2>1, <2>2 DEF AgreementInv, NoReply, NoResult, Permitted
<1>9. reply' \in Reply
  BY DEF Reply, NoReply
<1>10. QED
  BY <1>1, <1>3, <1>4, <1>5, <1>6, <1>7, <1>8, <1>9, GoesOn
     DEF WorkerPC, TypeOK, InstallTypeOK

LEMMA JournalInterruptedKeeps ==
    ASSUME IInv, JournalInterrupted
    PROVE  IInv'
<1> USE DEF IInv
<1>1. /\ pc["worker"] = "irJournal" /\ pc["worker"] \in WorkerPC /\ marker = NoPlan
      /\ reply = NoReply /\ \A n \in msgs : ~n.live
  BY WorkerAt DEF JournalInterrupted, WorkerPC, Waiting
<1>2. /\ journal.phase = "executing" /\ journal.job \in Jobs /\ journal.job \notin kept
      /\ state[journal.job] = "dispatched"
  BY <1>1, JournalAt DEF JournalInv, KeptInv, AgreementInv, Phase
<1>3. PICK b \in BOOLEAN : journal' = [job |-> journal.job, phase |-> "failed", rb |-> b]
  BY DEF JournalInterrupted, Write, Rollback
<1>4. /\ pc' = [pc EXCEPT !["worker"] = "result"] /\ lock' = lock /\ reply' = NoReply
      /\ UNCHANGED <<serverVars, cur, todo, installed, floor, begun, msgs>>
  BY <1>1 DEF JournalInterrupted, Goto
<1>5. QED
  BY <1>1, <1>2, <1>3, <1>4, JournalWriteKeeps

LEMMA ReceivePollKeeps ==
    ASSUME IInv, ReceivePoll
    PROVE  IInv'
<1> USE DEF IInv
<1>1. /\ pc["worker"] = "pollWait" /\ pc["worker"] \in WorkerPC /\ marker = NoPlan
      /\ reply # NoReply /\ journal = NoJournal /\ pc["worker"] # "off"
      /\ \A n \in msgs : ~n.live
  BY WorkerAt, Unaddressed DEF ReceivePoll, WorkerPC, JournalInv
<1>2. UNCHANGED <<serverVars, cur, todo, installed, floor, begun>>
  BY DEF ReceivePoll
<1>3. CASE Leave /\ UNCHANGED journal
  BY <1>1, <1>2, <1>3, LeaveKeeps DEF TypeOK
<1>4. reply.code = "job" => /\ reply.job \in Jobs /\ reply.seen \in Open
                            /\ PollView(reply.job, reply.seen)
  BY ReplyFields DEF AgreementInv, TypeOK
<1>5. CASE /\ reply.code = "job" /\ reply.seen = "dispatched"
           /\ Write(reply.job, "failed")
           /\ Goto("worker", "result") /\ UNCHANGED msgs /\ reply' = NoReply
  <2>1. state[reply.job] = "dispatched" /\ begun[reply.job] = 0
    BY <1>4, <1>5 DEF PollView
  <2>2. reply.job \notin kept
    BY <1>4, <1>5, <2>1, NotKept
  <2>3. PICK b \in BOOLEAN : journal' = [job |-> reply.job, phase |-> "failed", rb |-> b]
    BY <1>5 DEF Write, Rollback
  <2>4. pc' = [pc EXCEPT !["worker"] = "result"] /\ lock' = lock
    BY <1>5 DEF Goto
  <2>5. QED
    BY <1>1, <1>2, <1>4, <1>5, <2>1, <2>2, <2>3, <2>4, JournalWriteKeeps
<1>6. CASE /\ reply.code = "job" /\ reply.seen = "scheduled"
           /\ journal' = [job |-> reply.job, phase |-> "prepared", rb |-> FALSE]
           /\ Goto("worker", "prepared") /\ UNCHANGED msgs /\ reply' = NoReply
  <2>1. begun[reply.job] = 0 /\ NoResult(reply.job)
    BY <1>4, <1>6 DEF PollView
  <2>2. pc' = [pc EXCEPT !["worker"] = "prepared"] /\ lock' = lock
    BY <1>6 DEF Goto
  <2>3. QED
    BY <1>1, <1>2, <1>4, <1>6, <2>1, <2>2, JournalWriteKeeps
<1>7. QED
  BY <1>3, <1>5, <1>6 DEF ReceivePoll

(* Only the worker's position, its requests and the floor change.          *)
LEMMA RequestKeeps ==
    ASSUME IInv, pc["worker"] \in WorkerPC, pc["worker"] # "doneFailed",
           NEW m \in Message, m.live, Send(m), \A n \in msgs : ~n.live,
           NEW l \in {"pkgWait", "startWait", "resultWait"}, Goto("worker", l),
           m.op = CASE l = "pkgWait" -> "package" [] l = "startWait" -> "start"
                    [] l = "resultWait" -> "result",
           m.job = journal.job, journal.job \in Jobs, floor' \in Nat,
           l = "resultWait" => /\ journal.phase \in {"succeeded", "failed"}
                               /\ m.result = journal.phase,
           l # "resultWait" => journal.phase = "prepared",
           UNCHANGED <<serverVars, cur, todo, installed, journal, begun>>
    PROVE  IInv'
<1> USE DEF IInv
<1>1. /\ pc["worker"] # "off" /\ "worker" \in Procs /\ marker = NoPlan
      /\ \A q \in Procs \ {"worker"} : pc[q] = "off"
  BY WorkerAt
<1>2. /\ pc'["worker"] = l /\ \A q \in Procs \ {"worker"} : pc'[q] = "off"
      /\ UNCHANGED <<marker, snapshot, kept, state>>
      /\ pc' = [pc EXCEPT !["worker"] = l] /\ lock' = lock
  BY <1>1 DEF TypeOK, InstallTypeOK, installed, fileVars, serverVars, Goto
<1>3. RequestInv' /\ msgs' \in SUBSET Message /\ reply' \in Reply
  BY <1>2, SendEffect
<1>4. JournalInv'
  BY <1>2 DEF JournalInv, InstallPC
<1>5. MarkerInv'
  BY <1>1, <1>2 DEF MarkerInv, InstallPC, RecoveryPC, Procs
<1>6. KeptInv'
  BY <1>2 DEF KeptInv, InstallPC
<1>7. AgreementInv'
  <2>1. m.op # "polled" /\ (m.op = "result" <=> l = "resultWait")
    OBVIOUS
  <2>2. msgs' = msgs \cup {m} /\ reply'.code = "none"
    BY DEF Send, NoReply
  <2>3. \A n \in msgs' : n.op = "result" =>
           /\ state[n.job] \in Permitted
           /\ state[n.job] = "dispatched" => journal.phase = n.result /\ journal.job = n.job
    BY <2>1, <2>2 DEF AgreementInv
  <2>4. journal.phase = "prepared" => NoResult(journal.job)'
    <3>1. journal.phase = "prepared" => m.op # "result" /\ NoResult(journal.job)
      BY <2>1 DEF AgreementInv
    <3>2. QED
      BY <2>2, <3>1 DEF NoResult
  <2>5. \A n \in msgs' : n.live => n.op # "polled"
    BY <2>1, <2>2
  <2>6. QED
    BY <1>2, <2>2, <2>3, <2>4, <2>5, AgreementFrame
<1>8. QED
  BY <1>1, <1>2, <1>3, <1>4, <1>5, <1>6, <1>7, GoesOn
     DEF WorkerPC, TypeOK, InstallTypeOK

LEMMA CheckWindowKeeps ==
    ASSUME IInv, CheckWindow
    PROVE  IInv'
<1>1. /\ pc["worker"] = "prepared" /\ pc["worker"] \in WorkerPC /\ pc["worker"] # "off"
      /\ marker = NoPlan /\ \A n \in msgs : ~n.live
      /\ journal.phase = "prepared" /\ journal.job \in Jobs
      /\ UNCHANGED <<serverVars, cur, todo, installed, floor, begun>> /\ floor' \in Nat
  BY WorkerAt, JournalAt DEF CheckWindow, WorkerPC, Waiting, Phase
<1> USE DEF IInv
<1>2. CASE Leave /\ journal' = NoJournal
  BY <1>1, <1>2, LeaveKeeps, SettledWhen
<1>3. CASE /\ Send(PackageRequest(journal.job))
           /\ Goto("worker", "pkgWait") /\ UNCHANGED journal
  <2> DEFINE m == PackageRequest(journal.job)
  <2>1. m \in Message /\ m.live /\ m.op = "package" /\ m.job = journal.job
    BY <1>1, PackageRequests
  <2>2. Send(m)
    BY <1>3
  <2> HIDE DEF m
  <2>3. QED
    BY <1>1, <1>3, <2>1, <2>2, RequestKeeps
<1>4. QED
  BY <1>2, <1>3 DEF CheckWindow

LEMMA ReceivePackageKeeps ==
    ASSUME IInv, ReceivePackage
    PROVE  IInv'
<1>1. /\ pc["worker"] = "pkgWait" /\ pc["worker"] \in WorkerPC /\ pc["worker"] # "off"
      /\ marker = NoPlan /\ \A n \in msgs : ~n.live
      /\ journal.phase = "prepared" /\ journal.job \in Jobs
      /\ UNCHANGED <<serverVars, cur, todo, installed, begun>>
  BY WorkerAt, JournalAt, Unaddressed DEF ReceivePackage, WorkerPC, Waiting, Phase
<1> USE DEF IInv
<1>2. floor' \in Nat
  <2>1. InstalledVersion \in Nat /\ floor \in Nat
    BY InstalledVersionType DEF TypeOK
  <2>2. QED
    BY <2>1 DEF ReceivePackage
<1>3. CASE Leave /\ journal' \in {journal, NoJournal}
  BY <1>1, <1>2, <1>3, LeaveKeeps, SettledWhen
<1>4. CASE /\ Send(StartRequest(journal.job))
           /\ Goto("worker", "startWait") /\ UNCHANGED journal
  <2> DEFINE m == StartRequest(journal.job)
  <2>1. m \in Message /\ m.live /\ m.op = "start" /\ m.job = journal.job
    BY <1>1, StartRequests
  <2>2. Send(m)
    BY <1>4
  <2> HIDE DEF m
  <2>3. QED
    BY <1>1, <1>2, <1>4, <2>1, <2>2, RequestKeeps
<1>5. QED
  BY <1>3, <1>4 DEF ReceivePackage

LEMMA ReportResultKeeps ==
    ASSUME IInv, ReportResult
    PROVE  IInv'
<1>1. /\ pc["worker"] = "result" /\ pc["worker"] \in WorkerPC /\ pc["worker"] # "off"
      /\ marker = NoPlan /\ \A n \in msgs : ~n.live
      /\ journal.phase \in {"succeeded", "failed"} /\ journal.job \in Jobs
      /\ journal.rb \in BOOLEAN
      /\ UNCHANGED <<serverVars, cur, todo, installed, journal, begun>>
  BY WorkerAt, JournalAt DEF ReportResult, WorkerPC, Waiting, Phase
<1> USE DEF IInv
<1>2. floor' \in Nat
  <2>1. req[journal.job].release \in Nat
    BY <1>1, KnownRelease DEF AgreementInv
  <2>2. InstalledVersion \in Nat /\ floor \in Nat
    BY InstalledVersionType DEF TypeOK
  <2>3. QED
    BY <2>1, <2>2 DEF ReportResult
<1> DEFINE m == ResultRequest(journal.job, journal.phase, journal.rb)
<1>3. /\ m \in Message /\ m.live /\ m.op = "result" /\ m.job = journal.job
      /\ m.result = journal.phase
  BY <1>1 DEF Message, ResultRequest
<1>4. Send(m) /\ Goto("worker", "resultWait")
  BY DEF ReportResult
<1> HIDE DEF m
<1>5. QED
  BY <1>1, <1>2, <1>3, <1>4, RequestKeeps

LEMMA ReceiveAckKeeps ==
    ASSUME IInv, ReceiveAck
    PROVE  IInv'
<1>1. /\ pc["worker"] = "resultWait" /\ pc["worker"] \in WorkerPC /\ pc["worker"] # "off"
      /\ marker = NoPlan /\ journal.phase \in {"succeeded", "failed"}
      /\ UNCHANGED <<serverVars, cur, todo, installed, floor, begun>> /\ Leave
      /\ floor' \in Nat
  BY WorkerAt, JournalAt DEF ReceiveAck, WorkerPC, Waiting, Phase
<1> USE DEF IInv
<1>2. reply.code = "ok" => Settled
  BY <1>1, SettledWhen DEF AgreementInv
<1>3. QED
  BY <1>1, <1>2, LeaveKeeps DEF ReceiveAck

LEMMA ConnectionLostKeeps ==
    ASSUME IInv, ConnectionLost
    PROVE  IInv'
<1>1. pc["worker"] # "off" /\ floor' \in Nat
  BY DEF ConnectionLost, IInv, TypeOK
<1>2. QED
  BY <1>1, LeaveKeeps DEF ConnectionLost

LEMMA WorkerDiesKeeps ==
    ASSUME IInv, Dies("worker"), Abandon, UNCHANGED <<serverVars, journal, floor, begun>>
    PROVE  IInv'
<1>1. "worker" \in Procs /\ InstallTypeOK /\ floor' \in Nat
  BY DEF Procs, IInv, TypeOK
<1>2. QED
  BY <1>1, DiesEffect, EndKeeps DEF Dies

(* The worker has permission and begins: the job was not begun before, and *)
(* no result of it is under way.                                           *)
LEMMA ReceiveStartKeeps ==
    ASSUME IInv, ReceiveStart
    PROVE  IInv'
<1> DEFINE j == journal.job
<1>1. /\ pc["worker"] = "startWait" /\ pc["worker"] \in WorkerPC /\ pc["worker"] # "off"
      /\ marker = NoPlan /\ "worker" \in Procs /\ \A n \in msgs : ~n.live
      /\ \A q \in Procs \ {"worker"} : pc[q] = "off"
      /\ journal.phase = "prepared" /\ journal \in Journal /\ j \in Jobs
      /\ UNCHANGED <<serverVars, todo, installed, floor>>
  BY WorkerAt, JournalAt, Unaddressed DEF ReceiveStart, WorkerPC, Waiting, Phase
<1> USE DEF IInv
<1>2. floor' \in Nat
  BY <1>1 DEF TypeOK
<1>3. CASE Leave /\ journal' \in {journal, NoJournal} /\ UNCHANGED <<cur, begun>>
  BY <1>1, <1>2, <1>3, LeaveKeeps, SettledWhen
<1>4. CASE /\ reply.code = "ok"
           /\ journal' = [journal EXCEPT !.phase = "executing"]
           /\ begun' = [begun EXCEPT ![j] = @ + 1]
           /\ cur' = [dir |-> j, rel |-> req[j].release]
           /\ Goto("worker", "install")
           /\ reply' = NoReply /\ UNCHANGED msgs
  <2>1. begun[j] = 0 /\ NoResult(j) /\ state[j] = "dispatched"
    BY <1>1, <1>4 DEF AgreementInv
  <2>2. /\ pc'["worker"] = "install" /\ \A q \in Procs \ {"worker"} : pc'[q] = "off"
        /\ UNCHANGED <<marker, snapshot, kept, state>>
        /\ pc' = [pc EXCEPT !["worker"] = "install"] /\ lock' = lock
    BY <1>1, <1>4 DEF TypeOK, InstallTypeOK, installed, fileVars, serverVars, Goto
  <2>3. /\ journal'.job = j /\ journal'.phase = "executing"
        /\ journal' \in Journal \cup {NoJournal}
    BY <1>1, <1>4 DEF Journal, Phase
  <2>4. /\ begun' \in [Jobs -> Nat] /\ begun'[j] = 1
        /\ \A i \in Jobs \ {j} : begun'[i] = begun[i]
    <3>1. begun \in [Jobs -> Nat]
      BY DEF TypeOK
    <3>2. begun[j] + 1 = 1 /\ 1 \in Nat
      BY SMT, Z3, <2>1
    <3>3. begun' = [begun EXCEPT ![j] = 1]
      BY <1>4, <3>2
    <3>4. QED
      BY <1>1, <3>1, <3>2, <3>3
  <2>5. cur' \in Plan /\ cur'.dir = j
    BY <1>1, <1>4, <2>1, KnownRelease, JobDirsAssumption DEF Plan, Permitted
  <2>6. j \notin kept
    BY <1>1, <2>1, NotKept
  <2>7. reply' \in Reply
    BY <1>4 DEF Reply, NoReply
  <2> HIDE DEF j
  <2>8. RequestInv'
    BY <1>1, <1>4, <2>2 DEF RequestInv, NoReply, Waiting
  <2>9. JournalInv'
    BY <2>2, <2>3, <2>5 DEF JournalInv
  <2>10. MarkerInv'
    BY <1>1, <2>2, <2>5 DEF MarkerInv, InstallPC, RecoveryPC, Procs
  <2>11. KeptInv'
    BY <2>2, <2>3, <2>4, <2>6 DEF KeptInv
  <2>12. AgreementInv'
    <3>1. \A i \in Jobs \ {j} : begun[i] > 0 => state[i] # "dispatched"
      BY <1>1 DEF AgreementInv
    <3>2. \A m \in msgs : m.op = "result" => state[m.job] # "dispatched" /\ m.job # j
      <4>1. \A m \in msgs : m.op = "result" => m.result \in {"succeeded", "failed"}
        BY MessageFields DEF TypeOK
      <4> QED BY <1>1, <2>1, <4>1 DEF AgreementInv, NoResult
    <3>3. UNCHANGED <<state, kept, msgs>> /\ reply'.code \notin {"ok", "job"}
      BY <1>1, <1>4 DEF serverVars, installed, NoReply
    <3>4. \A i \in Jobs : begun'[i] > 0 => begun'[i] = 1 /\ state[i] \in Permitted
      <4>1. state[j] \in Permitted /\ (begun'[j] > 0 => begun'[j] = 1)
        BY <2>1, <2>4 DEF Permitted
      <4> QED BY <2>4, <4>1 DEF AgreementInv
    <3>5. \A i \in Jobs : begun'[i] > 0 /\ state[i] = "dispatched" => i = j
      BY <2>4, <3>1
    <3>6. journal'.phase = "executing" /\ journal'.job = j
      BY <2>3
    <3>7. \A m \in msgs : ~m.live
      BY <1>1
    <3> QED
      BY <2>1, <2>4, <3>2, <3>3, <3>4, <3>5, <3>6, <3>7 DEF AgreementInv, Permitted
  <2>13. QED
    BY <1>1, <1>2, <1>4, <2>2, <2>3, <2>4, <2>5, <2>7, <2>8, <2>9, <2>10, <2>11, <2>12,
       GoesOn DEF InstallPC, TypeOK, InstallTypeOK
<1>5. QED
  BY <1>3, <1>4 DEF ReceiveStart

LEMMA JournalOutcomeKeeps ==
    ASSUME IInv, JournalOutcome
    PROVE  IInv'
<1> USE DEF IInv
<1>1. /\ pc["worker"] \in {"doneOk", "doneFailed"} /\ pc["worker"] \in WorkerPC
      /\ pc["worker"] # "off" /\ reply = NoReply /\ \A n \in msgs : ~n.live
      /\ journal.phase = "executing" /\ journal.job \in Jobs
      /\ state[journal.job] = "dispatched"
      /\ pc["worker"] = "doneOk" => journal.job \in kept
      /\ pc["worker"] = "doneFailed" => journal.job \notin kept
  <2>1. pc["worker"] \in {"doneOk", "doneFailed"}
    BY DEF JournalOutcome
  <2>2. /\ pc["worker"] \in WorkerPC /\ pc["worker"] # "off" /\ pc["worker"] \notin Waiting
    BY <2>1 DEF WorkerPC, Waiting
  <2>3. reply = NoReply /\ \A n \in msgs : ~n.live
    BY <2>2, WorkerAt
  <2>4. journal.phase = "executing"
    BY <2>1 DEF JournalInv
  <2>5. journal.job \in Jobs
    BY <2>4, JournalRow
  <2>6. state[journal.job] = "dispatched"
    BY <2>4 DEF AgreementInv
  <2>7. /\ pc["worker"] = "doneOk" => journal.job \in kept
        /\ pc["worker"] = "doneFailed" => journal.job \notin kept
    BY DEF KeptInv
  <2>8. QED
    BY <2>1, <2>2, <2>3, <2>4, <2>5, <2>6, <2>7
<1>2. UNCHANGED <<serverVars, cur, todo, installed, floor, begun>>
  BY DEF JournalOutcome
<1>3. CASE marker # NoPlan
  <2>1. Leave /\ UNCHANGED journal /\ floor' \in Nat
    BY <1>2, <1>3 DEF JournalOutcome, TypeOK
  <2>2. QED
    BY <1>1, <1>2, <2>1, LeaveKeeps
<1>4. CASE marker = NoPlan
  <2>1. PICK ph \in {"succeeded", "failed"}, b \in BOOLEAN :
           /\ journal' = [job |-> journal.job, phase |-> ph, rb |-> b]
           /\ ph = "succeeded" <=> pc["worker"] = "doneOk"
    <3>1. Rollback(journal.job) \in BOOLEAN
      BY DEF Rollback
    <3>2. journal' = [job |-> journal.job,
                      phase |-> IF pc["worker"] = "doneOk" THEN "succeeded" ELSE "failed",
                      rb |-> Rollback(journal.job)]
      BY <1>4 DEF JournalOutcome, Write
    <3>3. QED
      BY <3>1, <3>2
  <2>2. /\ pc' = [pc EXCEPT !["worker"] = "result"] /\ lock' = lock
        /\ UNCHANGED msgs /\ reply' = NoReply
    BY <1>1, <1>4 DEF JournalOutcome, Goto
  <2>3. QED
    BY <1>1, <1>2, <1>4, <2>1, <2>2, JournalWriteKeeps
<1>5. QED
  BY <1>3, <1>4

LEMMA WorkerRequestsKeep ==
    ASSUME IInv, WorkerStep, ~WorkerInstall
    PROVE  IInv'
  BY ReadJournalKeeps, JournalInterruptedKeeps, ReceivePollKeeps, CheckWindowKeeps,
     ReceivePackageKeeps, ReceiveStartKeeps, JournalOutcomeKeeps, ReportResultKeeps,
     ReceiveAckKeeps, ConnectionLostKeeps DEF WorkerStep

-----------------------------------------------------------------------------
(* The installed files *)

Uniform(files) == \A c, d \in Components : files[c] = files[d]

Restorable(d) == snapshot[d] # NoSnapshot /\ Uniform(snapshot[d].files)

Restored == {"rbHealth", "rbCheck", "recHealth", "recCheck"}

Marked == {"apply", "health", "check", "rbRestore", "recRestore"} \cup Restored

(* How far the holder of the lock has come when it is at l.  With e there  *)
(* is other evidence of half-replaced components than the marker.          *)
HolderAt(l, e) ==
    /\ l = "apply" => \A c \in Components \ todo : target[c] = cur.rel
    /\ l \in {"health", "check"} => \A c \in Components : target[c] = cur.rel
    /\ l \in {"rbRestore", "recRestore", "irRestore"} =>
          \A c \in Components \ todo : target[c] = snapshot[cur.dir].files[c]
    /\ l \in Restored => \A c \in Components : target[c] = snapshot[cur.dir].files[c]
    /\ l \in Marked => marker = cur /\ cur # NoPlan
    /\ l \in {"install", "mark"} => cur \in Plan /\ cur # NoPlan
    /\ l = "mark" => e \/ Restorable(cur.dir)

FilesInv(e) ==
    /\ \A p \in Procs : HolderAt(pc[p], e)
    /\ marker = NoPlan => e \/ Uniform(target)
    /\ marker # NoPlan => e \/ Restorable(marker.dir)

(* A step of the holder moves no other process.                            *)
LEMMA HolderMoves ==
    ASSUME NEW e \in BOOLEAN, ExclusiveMutation, NEW p \in Procs, pc[p] # "off", NEW l,
           pc' = [pc EXCEPT ![p] = l], pc \in [Procs -> PCs], HolderAt(l, e)',
           marker' = NoPlan => e \/ Uniform(target)',
           marker' # NoPlan => e \/ Restorable(marker.dir)'
    PROVE  FilesInv(e)'
<1>1. pc'[p] = l /\ \A q \in Procs \ {p} : pc'[q] = "off"
  BY Alone
<1>2. \A q \in Procs \ {p} : HolderAt(pc[q], e)'
  BY <1>1 DEF HolderAt, Restored, Marked
<1>3. HolderAt(pc[p], e)'
  BY <1>1
<1> QED BY <1>2, <1>3 DEF FilesInv

Files(e) == InstallTypeOK /\ ExclusiveMutation /\ FilesInv(e)

(* Where the holder is, and what is known of the marker there.             *)
LEMMA HolderKnows ==
    ASSUME NEW e \in BOOLEAN, Files(e), NEW p \in Procs
    PROVE  /\ HolderAt(pc[p], e) /\ pc \in [Procs -> PCs]
           /\ marker = NoPlan => e \/ Uniform(target)
           /\ marker # NoPlan => e \/ Restorable(marker.dir)
           /\ marker # NoPlan => marker \in Plan /\ marker.dir \in Dirs
           /\ \A r \in Plan : r.dir \in Dirs
<1>1. \A r \in Plan : r.dir \in Dirs
  BY DEF Plan
<1> QED BY <1>1 DEF Files, FilesInv, InstallTypeOK

(* The holder goes on or ends, and no file is touched.                     *)
LEMMA HolderLeaves ==
    ASSUME NEW e \in BOOLEAN, Files(e), NEW p \in Procs, pc[p] # "off", NEW l,
           pc' = [pc EXCEPT ![p] = l], UNCHANGED <<target, snapshot, marker>>, HolderAt(l, e)'
    PROVE  FilesInv(e)'
<1>1. /\ marker = NoPlan => e \/ Uniform(target)
      /\ marker # NoPlan => e \/ Restorable(marker.dir)
      /\ pc \in [Procs -> PCs] /\ ExclusiveMutation
  BY HolderKnows DEF Files
<1>2. /\ marker' = NoPlan => e \/ Uniform(target)'
      /\ marker' # NoPlan => e \/ Restorable(marker.dir)'
  BY <1>1 DEF Uniform, Restorable
<1> QED BY <1>1, <1>2, HolderMoves

(* The snapshot is taken of one release, and no other one is touched.      *)
LEMMA SnapshotTaken ==
    ASSUME NEW e \in BOOLEAN, Files(e), cur \in Plan, UNCHANGED <<marker, target, cur>>,
           snapshot' \in {snapshot, [snapshot EXCEPT ![cur.dir] =
                                       [files |-> target, rel |-> cur.rel]]},
           snapshot[cur.dir] # NoSnapshot => snapshot' = snapshot,
           snapshot[cur.dir] = NoSnapshot => e \/ marker = NoPlan
    PROVE  /\ marker' = NoPlan => e \/ Uniform(target)'
           /\ marker' # NoPlan => e \/ Restorable(marker.dir)'
           /\ snapshot' # snapshot => e \/ Restorable(cur.dir)'
<1> DEFINE s == [files |-> target, rel |-> cur.rel]
<1>1. /\ marker = NoPlan => e \/ Uniform(target)
      /\ marker # NoPlan => e \/ Restorable(marker.dir)
      /\ marker # NoPlan => marker.dir \in Dirs
      /\ cur.dir \in Dirs
  <2>1. "manual" \in Procs
    BY DEF Procs
  <2> QED BY <2>1, HolderKnows
<1>2. snapshot \in [Dirs -> Snapshot \cup {NoSnapshot}]
  BY DEF Files, InstallTypeOK
<1>3. s.files = target /\ s # NoSnapshot
  BY DEF NoSnapshot
<1> HIDE DEF s
<1>4. CASE snapshot' = snapshot
  BY <1>1, <1>4 DEF Uniform, Restorable
<1>5. CASE snapshot' = [snapshot EXCEPT ![cur.dir] = s] /\ snapshot[cur.dir] = NoSnapshot
  <2>1. snapshot'[cur.dir] = s /\ \A d \in Dirs \ {cur.dir} : snapshot'[d] = snapshot[d]
    BY <1>1, <1>2, <1>5
  <2>2. marker # NoPlan => e \/ Restorable(marker.dir)'
    BY <1>5
  <2>3. e \/ Restorable(cur.dir)'
    <3>1. e \/ Uniform(target)
      BY <1>1, <1>5
    <3>2. snapshot'[cur'.dir] = s /\ snapshot'[cur'.dir].files = target
      BY <1>3, <2>1
    <3> QED BY <1>3, <3>1, <3>2 DEF Uniform, Restorable
  <2>4. marker' = NoPlan => e \/ Uniform(target)'
    BY <1>1 DEF Uniform
  <2> QED BY <2>2, <2>3, <2>4
<1> QED BY <1>4, <1>5 DEF s

LEMMA CreateRollbackFiles ==
    ASSUME NEW e \in BOOLEAN, Files(e), NEW p \in Procs, CreateRollback(p),
           snapshot[cur.dir] = NoSnapshot => e \/ marker = NoPlan
    PROVE  FilesInv(e)'
<1>1. /\ pc[p] = "install" /\ pc[p] # "off" /\ cur \in Plan /\ cur # NoPlan
      /\ pc \in [Procs -> PCs] /\ ExclusiveMutation
  BY HolderKnows DEF CreateRollback, HolderAt, Files
<1>2. UNCHANGED <<marker, target, cur>>
  BY DEF CreateRollback
<1>3. CASE snapshot[cur.dir] = NoSnapshot
  <2>1. /\ snapshot' = [snapshot EXCEPT ![cur.dir] = [files |-> target, rel |-> cur.rel]]
        /\ pc' = [pc EXCEPT ![p] = "mark"]
    BY <1>3 DEF CreateRollback, Goto
  <2>2. snapshot' # snapshot
    <3>1. snapshot'[cur.dir].files = target /\ snapshot'[cur.dir] # NoSnapshot
      BY <1>1, <2>1 DEF NoSnapshot, Files, InstallTypeOK, Plan
    <3> QED BY <1>3, <3>1
  <2>3. /\ marker' = NoPlan => e \/ Uniform(target)'
        /\ marker' # NoPlan => e \/ Restorable(marker.dir)'
        /\ e \/ Restorable(cur.dir)'
    BY <1>1, <1>2, <1>3, <2>1, <2>2, SnapshotTaken
  <2>4. HolderAt("mark", e)'
    BY <1>1, <1>2, <2>3 DEF HolderAt, Restored, Marked
  <2> QED BY <1>1, <2>1, <2>3, <2>4, HolderMoves
<1>4. CASE snapshot[cur.dir] # NoSnapshot
  <2>1. snapshot' = snapshot /\ \E l \in {"off", "doneFailed"} : pc' = [pc EXCEPT ![p] = l]
    BY <1>4 DEF CreateRollback, Return, Goto, Exit
  <2>2. \A l \in {"off", "doneFailed"} : HolderAt(l, e)'
    BY DEF HolderAt, Restored, Marked
  <2> QED BY <1>1, <1>2, <2>1, <2>2, HolderLeaves
<1> QED BY <1>3, <1>4

LEMMA WriteTransactionFiles ==
    ASSUME NEW e \in BOOLEAN, Files(e), NEW p \in Procs, WriteUpdateTransaction(p)
    PROVE  FilesInv(e)'
<1>1. /\ pc[p] = "mark" /\ pc[p] # "off" /\ cur # NoPlan /\ (e \/ Restorable(cur.dir))
      /\ pc \in [Procs -> PCs] /\ ExclusiveMutation
  BY HolderKnows DEF WriteUpdateTransaction, HolderAt, Files
<1>2. UNCHANGED <<target, cur, snapshot>>
  BY DEF WriteUpdateTransaction
<1>3. CASE markTmp
  <2>1. marker' = marker /\ \E l \in {"off", "doneFailed"} : pc' = [pc EXCEPT ![p] = l]
    BY <1>3 DEF WriteUpdateTransaction, Return, Goto, Exit
  <2>2. \A l \in {"off", "doneFailed"} : HolderAt(l, e)'
    BY DEF HolderAt, Restored, Marked
  <2> QED BY <1>1, <1>2, <2>1, <2>2, HolderLeaves
<1>4. CASE ~markTmp
  <2>1. marker' = cur /\ todo' = Components /\ pc' = [pc EXCEPT ![p] = "apply"]
    BY <1>4 DEF WriteUpdateTransaction, Goto
  <2>2. marker' # NoPlan /\ (e \/ Restorable(marker.dir)')
    BY <1>1, <1>2, <2>1 DEF Uniform, Restorable
  <2>3. HolderAt("apply", e)'
    BY <1>1, <1>2, <2>1 DEF HolderAt, Restored, Marked
  <2> QED BY <1>1, <2>1, <2>2, <2>3, HolderMoves
<1> QED BY <1>3, <1>4

(* Targets change only while the marker is there, or with other evidence.  *)
LEMMA ReplacementFiles ==
    ASSUME NEW e \in BOOLEAN, Files(e), NEW p \in Procs, pc[p] # "off",
           e \/ marker # NoPlan, UNCHANGED <<cur, snapshot, marker>>,
           NEW l, pc' = [pc EXCEPT ![p] = l], HolderAt(l, e)'
    PROVE  FilesInv(e)'
<1>1. /\ pc \in [Procs -> PCs] /\ ExclusiveMutation
      /\ marker # NoPlan => e \/ Restorable(marker.dir)
  BY HolderKnows DEF Files
<1>2. marker' # NoPlan => e \/ Restorable(marker.dir)'
  BY <1>1 DEF Uniform, Restorable
<1> QED BY <1>1, <1>2, HolderMoves

LEMMA ApplyComponentFiles ==
    ASSUME NEW e \in BOOLEAN, Files(e), NEW p \in Procs, ApplyComponent(p)
    PROVE  FilesInv(e)'
<1>1. /\ pc[p] = "apply" /\ pc[p] # "off" /\ pc \in [Procs -> PCs]
      /\ marker = cur /\ marker # NoPlan
      /\ \A c \in Components \ todo : target[c] = cur.rel
  BY HolderKnows DEF ApplyComponent, HolderAt, Marked
<1>2. UNCHANGED <<cur, snapshot, marker>>
  BY DEF ApplyComponent
<1>3. PICK c \in todo : target' = [target EXCEPT ![c] = cur.rel] /\ todo' = todo \ {c}
  BY DEF ApplyComponent
<1>4. \A d \in Components \ todo' : target'[d] = cur.rel
  BY <1>1, <1>3 DEF Files, InstallTypeOK
<1>5. CASE todo' = {}
  <2>1. pc' = [pc EXCEPT ![p] = "health"]
    BY <1>5 DEF ApplyComponent, Goto
  <2>2. HolderAt("health", e)'
    BY <1>1, <1>2, <1>4, <1>5 DEF HolderAt, Restored, Marked
  <2> QED BY <1>1, <1>2, <2>1, <2>2, ReplacementFiles
<1>6. CASE todo' # {}
  <2>1. pc' = [pc EXCEPT ![p] = "apply"]
    BY <1>1, <1>6 DEF ApplyComponent
  <2>2. HolderAt("apply", e)'
    BY <1>1, <1>2, <1>4 DEF HolderAt, Restored, Marked
  <2> QED BY <1>1, <1>2, <2>1, <2>2, ReplacementFiles
<1> QED BY <1>5, <1>6

LEMMA RestoreFiles ==
    ASSUME NEW e \in BOOLEAN, Files(e), NEW p \in Procs, NEW from, NEW to,
           RestoreStep(p, from, to),
           \/ from = "rbRestore" /\ to = "rbHealth"
           \/ from = "recRestore" /\ to = "recHealth"
           \/ from = "irRestore" /\ to = "irState" /\ e
    PROVE  FilesInv(e)'
<1>1. /\ pc[p] = from /\ pc[p] # "off" /\ pc \in [Procs -> PCs]
      /\ e \/ (marker = cur /\ marker # NoPlan)
      /\ from # "irRestore" => marker = cur /\ marker # NoPlan
      /\ \A c \in Components \ todo : target[c] = snapshot[cur.dir].files[c]
  BY HolderKnows DEF RestoreStep, HolderAt, Marked
<1>2. UNCHANGED <<cur, snapshot, marker>>
  BY DEF RestoreStep
<1>3. PICK c \in todo : /\ target' = [target EXCEPT ![c] = snapshot[cur.dir].files[c]]
                        /\ todo' = todo \ {c}
  BY DEF RestoreStep
<1>4. \A d \in Components \ todo' : target'[d] = snapshot[cur.dir].files[d]
  BY <1>1, <1>3 DEF Files, InstallTypeOK
<1>5. CASE todo' = {}
  <2>1. pc' = [pc EXCEPT ![p] = to]
    BY <1>5 DEF RestoreStep, Goto
  <2>2. HolderAt(to, e)'
    BY <1>1, <1>2, <1>4, <1>5 DEF HolderAt, Restored, Marked
  <2> QED BY <1>1, <1>2, <2>1, <2>2, ReplacementFiles
<1>6. CASE todo' # {}
  <2>1. pc' = [pc EXCEPT ![p] = from]
    BY <1>1, <1>6 DEF RestoreStep
  <2>2. HolderAt(from, e)'
    BY <1>1, <1>2, <1>4 DEF HolderAt, Restored, Marked
  <2> QED BY <1>1, <1>2, <2>1, <2>2, ReplacementFiles
<1> QED BY <1>5, <1>6

LEMMA RecordSuccessFiles ==
    ASSUME NEW e \in BOOLEAN, Files(e), NEW p \in Procs, RecordSuccess(p)
    PROVE  FilesInv(e)'
<1>1. /\ pc[p] # "off" /\ marker = cur /\ cur # NoPlan
      /\ \A c \in Components : target[c] = cur.rel
  BY HolderKnows DEF RecordSuccess, HolderAt, Marked
<1>2. UNCHANGED <<target, snapshot, marker, cur>>
  BY DEF RecordSuccess
<1>3. CASE stateTmp
  <2>1. todo' = Components /\ pc' = [pc EXCEPT ![p] = "rbRestore"]
    BY <1>3 DEF RecordSuccess, StartRollback, Goto
  <2>2. HolderAt("rbRestore", e)'
    BY <1>1, <1>2, <2>1 DEF HolderAt, Restored, Marked
  <2> QED BY <1>1, <1>2, <2>1, <2>2, HolderLeaves
<1>4. CASE ~stateTmp
  <2>1. pc' = [pc EXCEPT ![p] = "check"]
    BY <1>4 DEF RecordSuccess, Goto
  <2>2. HolderAt("check", e)'
    BY <1>1, <1>2 DEF HolderAt, Restored, Marked
  <2> QED BY <1>1, <1>2, <2>1, <2>2, HolderLeaves
<1> QED BY <1>3, <1>4

(* The marker goes when the components are of one release.                 *)
LEMMA MarkerRemoved ==
    ASSUME NEW e \in BOOLEAN, Files(e), NEW p \in Procs, pc[p] # "off",
           marker' = NoPlan, target' = target, e \/ Uniform(target),
           NEW l \in {"doneOk", "doneFailed", "journal"}, Return(p, l)
    PROVE  FilesInv(e)'
<1>1. pc \in [Procs -> PCs] /\ ExclusiveMutation
  BY DEF Files, InstallTypeOK
<1>2. PICK k \in {"off", l} : pc' = [pc EXCEPT ![p] = k]
  BY DEF Return, Goto, Exit
<1>3. HolderAt(k, e)'
  BY <1>2 DEF HolderAt, Restored, Marked
<1>4. marker' = NoPlan => e \/ Uniform(target)'
  BY DEF Uniform
<1> QED BY <1>1, <1>2, <1>3, <1>4, HolderMoves

LEMMA CompleteInstallFiles ==
    ASSUME NEW e \in BOOLEAN, Files(e), NEW p \in Procs, CompleteInstall(p)
    PROVE  FilesInv(e)' /\ Uniform(target)'
<1>1. pc[p] # "off" /\ \A c \in Components : target[c] = cur.rel
  BY HolderKnows DEF CompleteInstall, HolderAt
<1>2. marker' = NoPlan /\ target' = target /\ Return(p, "doneOk") /\ Uniform(target)
  BY <1>1 DEF CompleteInstall, Uniform
<1> QED BY <1>1, <1>2, MarkerRemoved DEF Uniform

LEMMA CompleteRestorationFiles ==
    ASSUME NEW e \in BOOLEAN, Files(e), NEW p \in Procs,
           CompleteRollback(p) \/ CompleteRecovery(p)
    PROVE  FilesInv(e)' /\ (Restorable(cur.dir) => Uniform(target)')
<1>1. /\ pc[p] # "off" /\ marker = cur /\ marker # NoPlan
      /\ \A c \in Components : target[c] = snapshot[cur.dir].files[c]
      /\ e \/ Restorable(marker.dir)
  BY HolderKnows DEF CompleteRollback, CompleteRecovery, HolderAt, Restored, Marked
<1>2. Restorable(cur.dir) => Uniform(target)
  BY <1>1 DEF Restorable, Uniform
<1>3. marker' = NoPlan /\ target' = target
  BY DEF CompleteRollback, CompleteRecovery
<1>4. Return(p, "doneFailed") \/ Return(p, "journal")
  BY DEF CompleteRollback, CompleteRecovery
<1> QED BY <1>1, <1>2, <1>3, <1>4, MarkerRemoved DEF Uniform

LEMMA RecordFailureFiles ==
    ASSUME NEW e \in BOOLEAN, Files(e), NEW p \in Procs, NEW from, NEW to,
           RecordFailure(p, from, to),
           \/ from = "rbHealth" /\ to = "rbCheck"
           \/ from = "recHealth" /\ to = "recCheck"
           \/ from = "irState" /\ to = "irJournal"
    PROVE  FilesInv(e)'
<1>1. pc[p] = from /\ pc[p] # "off" /\ HolderAt(from, e)
  BY HolderKnows DEF RecordFailure
<1>2. UNCHANGED <<target, snapshot, marker, cur>>
  BY DEF RecordFailure
<1>3. PICK l \in {"off", to} : pc' = [pc EXCEPT ![p] = l]
  BY DEF RecordFailure, Goto, Exit
<1>4. HolderAt(l, e)'
  BY <1>1, <1>2, <1>3 DEF HolderAt, Restored, Marked
<1> QED BY <1>1, <1>2, <1>3, <1>4, HolderLeaves

LEMMA InstallFailsFiles ==
    ASSUME NEW e \in BOOLEAN, Files(e), NEW p \in Procs, InstallFails(p),
           pc[p] = "install" /\ snapshot[cur.dir] = NoSnapshot => e \/ marker = NoPlan
    PROVE  FilesInv(e)'
<1>1. /\ pc[p] # "off" /\ HolderAt(pc[p], e) /\ pc \in [Procs -> PCs] /\ ExclusiveMutation
      /\ UNCHANGED <<target, cur>>
  BY HolderKnows DEF InstallFails, Files
<1>2. \A l \in {"off", "doneFailed"} : HolderAt(l, e)'
  BY DEF HolderAt, Restored, Marked
<1>3. CASE pc[p] = "install"
  <2>1. /\ marker' = marker /\ cur \in Plan
        /\ snapshot' \in {snapshot, [snapshot EXCEPT ![cur.dir] =
                                       [files |-> target, rel |-> cur.rel]]}
        /\ snapshot[cur.dir] # NoSnapshot => snapshot' = snapshot
        /\ \E l \in {"off", "doneFailed"} : pc' = [pc EXCEPT ![p] = l]
    BY <1>1, <1>3 DEF InstallFails, HolderAt, Return, Goto, Exit
  <2>2. /\ marker' = NoPlan => e \/ Uniform(target)'
        /\ marker' # NoPlan => e \/ Restorable(marker.dir)'
    BY <1>1, <1>3, <2>1, SnapshotTaken
  <2> QED BY <1>1, <1>2, <2>1, <2>2, HolderMoves
<1>4. CASE pc[p] = "mark"
  <2>1. /\ marker' \in {marker, cur} /\ snapshot' = snapshot /\ cur # NoPlan
        /\ e \/ Restorable(cur.dir)
        /\ \E l \in {"off", "doneFailed"} : pc' = [pc EXCEPT ![p] = l]
    BY <1>1, <1>4 DEF InstallFails, HolderAt, Return, Goto, Exit
  <2>2. CASE marker' = marker
    BY <1>1, <1>2, <2>1, <2>2, HolderLeaves
  <2>3. CASE marker' = cur
    <3>1. marker' # NoPlan /\ (e \/ Restorable(marker.dir)')
      BY <2>1, <2>3 DEF Restorable, Uniform
    <3> QED BY <1>1, <1>2, <2>1, <3>1, HolderMoves
  <2> QED BY <2>1, <2>2, <2>3
<1>5. CASE pc[p] \in {"apply", "health", "check"}
  <2>1. /\ todo' = Components /\ pc' = [pc EXCEPT ![p] = "rbRestore"]
        /\ UNCHANGED <<snapshot, marker>> /\ marker = cur /\ cur # NoPlan
    BY <1>1, <1>5 DEF InstallFails, StartRollback, Goto, HolderAt, Marked
  <2>2. HolderAt("rbRestore", e)'
    BY <1>1, <2>1 DEF HolderAt, Restored, Marked
  <2> QED BY <1>1, <2>1, <2>2, HolderLeaves
<1> QED BY <1>3, <1>4, <1>5 DEF InstallFails

LEMMA DiesFiles ==
    ASSUME NEW e \in BOOLEAN, Files(e), NEW p \in Procs, Dies(p)
    PROVE  FilesInv(e)'
<1>1. /\ pc[p] # "off" /\ pc' = [pc EXCEPT ![p] = "off"]
      /\ UNCHANGED <<target, snapshot, marker>>
  BY DEF Dies, Exit
<1>2. HolderAt("off", e)'
  BY DEF HolderAt, Restored, Marked
<1> QED BY <1>1, <1>2, HolderLeaves

(* A process that takes the lock finds nobody at work.                     *)
LEMMA StartFiles ==
    ASSUME NEW e \in BOOLEAN, Files(e), NEW p \in Procs, NEW l, Acquire(p, l),
           UNCHANGED <<target, snapshot, marker>>, HolderAt(l, e)'
    PROVE  FilesInv(e)'
<1>1. "none" \notin Procs
  BY DEF Procs
<1>2. \A q \in Procs : pc[q] = "off"
  BY <1>1 DEF Files, ExclusiveMutation, Acquire
<1>3. pc'[p] = l /\ \A q \in Procs \ {p} : pc'[q] = "off"
  BY <1>2 DEF Files, InstallTypeOK, Acquire
<1>4. \A q \in Procs : HolderAt(pc[q], e)'
  BY <1>3 DEF HolderAt, Restored, Marked
<1>5. /\ marker' = NoPlan => e \/ Uniform(target)'
      /\ marker' # NoPlan => e \/ Restorable(marker.dir)'
  BY HolderKnows DEF Uniform, Restorable
<1> QED BY <1>4, <1>5 DEF FilesInv

LEMMA RecoverMarkerFiles ==
    ASSUME NEW e \in BOOLEAN, Files(e), NEW p \in Procs, RecoverMarker(p)
    PROVE  FilesInv(e)'
<1>1. /\ marker # NoPlan /\ cur' = marker /\ todo' = Components /\ Acquire(p, "recRestore")
      /\ UNCHANGED <<target, snapshot, marker>>
  BY DEF RecoverMarker, fileVars
<1>2. HolderAt("recRestore", e)'
  BY <1>1 DEF HolderAt, Restored, Marked
<1> QED BY <1>1, <1>2, StartFiles

LEMMA ManualStartFiles ==
    ASSUME NEW e \in BOOLEAN, Files(e), NEW d \in ManualDirs, NEW rel \in ManualReleases,
           ManualStart(d, rel)
    PROVE  FilesInv(e)'
<1>1. /\ cur' = [dir |-> d, rel |-> rel] /\ Acquire("manual", "install")
      /\ UNCHANGED <<target, snapshot, marker>>
  BY DEF ManualStart, fileVars
<1>2. cur' \in Plan /\ cur' # NoPlan
  BY <1>1, DirsAssumption, ManualReleasesAssumption DEF Plan, NoPlan
<1>3. HolderAt("install", e)'
  BY <1>2 DEF HolderAt, Restored, Marked
<1>4. "manual" \in Procs
  BY DEF Procs
<1> QED BY <1>1, <1>3, <1>4, StartFiles

-----------------------------------------------------------------------------
(* The installation without the worker *)

Careless == ~OperatorWaits

(* What else is known where the operator's updater or the recovery is.     *)
AloneAt(l) ==
    /\ l = "install" => Careless \/ marker = NoPlan
    /\ l = "mark" => snapshot[cur.dir] # NoSnapshot
    /\ l = "check" => updateState.status = "success" /\ updateState.rel = cur.rel
    /\ l \in {"rbCheck", "recCheck"} => updateState.status = "failed"

AloneProcs ==
    /\ ExclusiveMutation
    /\ pc["worker"] = "off"
    /\ pc["status"] \in {"off"} \cup RecoveryPC
    /\ pc["manual"] \in {"off"} \cup InstallPC

(* A success is reported of what is installed, and a marker has a snapshot.*)
ReportInv ==
    /\ marker = NoPlan /\ updateState.status = "success" =>
          \A c \in Components : target[c] = updateState.rel
    /\ marker # NoPlan => snapshot[marker.dir] # NoSnapshot

AloneInv ==
    /\ InstallTypeOK /\ AloneProcs /\ FilesInv(Careless) /\ ReportInv
    /\ \A p \in Procs : AloneAt(pc[p])

(* The types of all but the lock and the control points.                   *)
FileTypes ==
    /\ cur \in Plan \cup {NoPlan}
    /\ todo \in SUBSET Components
    /\ target \in [Components -> Nat]
    /\ snapshot \in [Dirs -> Snapshot \cup {NoSnapshot}]
    /\ marker \in Plan \cup {NoPlan}
    /\ updateState \in [rel : Nat, status : {"none", "success", "failed"}]
    /\ stateTmp \in BOOLEAN /\ markTmp \in BOOLEAN
    /\ kept \in SUBSET Dirs
    /\ faults \in 0..MaxFaults

LEMMA AloneFacts ==
    ASSUME AloneInv
    PROVE  /\ FileTypes /\ pc \in [Procs -> PCs] /\ Files(Careless)
           /\ Careless \in BOOLEAN
           /\ cur.rel \in Nat
           /\ marker # NoPlan => snapshot[marker.dir] # NoSnapshot /\ marker \in Plan
           /\ \A p \in Procs : AloneAt(pc[p]) /\ HolderAt(pc[p], Careless)
           /\ "manual" \in Procs /\ "status" \in Procs
<1>1. FileTypes /\ pc \in [Procs -> PCs] /\ "manual" \in Procs /\ "status" \in Procs
  BY DEF AloneInv, InstallTypeOK, FileTypes, Procs
<1>2. \A r \in Plan \cup {NoPlan} : r.rel \in Nat
  BY PlanRelease
<1>3. Careless \in BOOLEAN
  BY DEF Careless
<1>4. cur.rel \in Nat /\ (marker # NoPlan => marker \in Plan)
  BY <1>1, <1>2 DEF FileTypes
<1>5. /\ Files(Careless)
      /\ marker # NoPlan => snapshot[marker.dir] # NoSnapshot
      /\ \A p \in Procs : AloneAt(pc[p]) /\ HolderAt(pc[p], Careless)
  BY DEF AloneInv, AloneProcs, Files, FilesInv, ReportInv
<1> QED BY <1>1, <1>3, <1>4, <1>5

LEMMA AloneMoves ==
    ASSUME AloneInv, NEW p \in {"manual", "status"}, pc[p] # "off",
           NEW l \in {"off"} \cup (IF p = "manual" THEN InstallPC ELSE RecoveryPC),
           pc' = [pc EXCEPT ![p] = l], lock' = IF l = "off" THEN "none" ELSE lock,
           FileTypes', FilesInv(Careless)', ReportInv', AloneAt(l)'
    PROVE  AloneInv'
<1>1. p \in Procs /\ pc \in [Procs -> PCs] /\ l \in PCs
  <2>1. InstallPC \subseteq PCs /\ RecoveryPC \subseteq PCs /\ "off" \in PCs
    BY DEF PCs
  <2> QED BY <2>1, AloneFacts
<1>2. lock = p /\ \A q \in Procs \ {p} : pc[q] = "off"
  BY <1>1, Alone DEF AloneInv, AloneProcs
<1>3. pc'[p] = l /\ \A q \in Procs \ {p} : pc'[q] = "off"
  BY <1>1, <1>2
<1>4. InstallTypeOK'
  BY <1>1, <1>2 DEF InstallTypeOK, FileTypes
<1>5. AloneProcs'
  BY <1>2, <1>3 DEF AloneProcs, ExclusiveMutation, Procs
<1>6. \A q \in Procs : AloneAt(pc[q])'
  BY <1>3 DEF AloneAt
<1> QED BY <1>4, <1>5, <1>6 DEF AloneInv

LEMMA AloneStarts ==
    ASSUME AloneInv, NEW p \in {"manual", "status"},
           NEW l \in (IF p = "manual" THEN InstallPC ELSE RecoveryPC),
           Acquire(p, l), UNCHANGED <<fileVars, kept, faults>>,
           cur' \in Plan \cup {NoPlan}, todo' \in SUBSET Components,
           FilesInv(Careless)', AloneAt(l)'
    PROVE  AloneInv'
<1>1. /\ p \in Procs /\ pc \in [Procs -> PCs] /\ l \in PCs /\ l # "off" /\ "none" \notin Procs
      /\ \A q \in Procs : pc[q] = "off"
      /\ pc' = [pc EXCEPT ![p] = l] /\ lock' = p
  <2>1. InstallPC \subseteq PCs /\ RecoveryPC \subseteq PCs
    BY DEF PCs
  <2>2. "none" \notin Procs /\ "off" \notin InstallPC \cup RecoveryPC
    BY DEF Procs, InstallPC, RecoveryPC
  <2> QED BY <2>1, <2>2, AloneFacts DEF AloneInv, AloneProcs, ExclusiveMutation, Acquire
<1>2. pc'[p] = l /\ \A q \in Procs \ {p} : pc'[q] = "off"
  BY <1>1
<1>3. InstallTypeOK'
  BY <1>1 DEF AloneInv, InstallTypeOK, fileVars
<1>4. AloneProcs'
  BY <1>1, <1>2 DEF AloneProcs, ExclusiveMutation, Procs
<1>5. \A q \in Procs : AloneAt(pc[q])'
  BY <1>2 DEF AloneAt
<1>6. ReportInv'
  BY DEF AloneInv, ReportInv, fileVars
<1> QED BY <1>3, <1>4, <1>5, <1>6 DEF AloneInv

(* The updater or the recovery dies: the files stay as they are, and the   *)
(* marker with them.                                                       *)
LEMMA AloneDies ==
    ASSUME AloneInv, NEW p \in {"manual", "status"}, Dies(p)
    PROVE  AloneInv'
<1>1. /\ p \in Procs /\ Files(Careless) /\ Careless \in BOOLEAN /\ FileTypes /\ InstallTypeOK
  BY AloneFacts DEF AloneInv
<1>2. /\ faults' \in 0..MaxFaults /\ stateTmp' \in BOOLEAN /\ markTmp' \in BOOLEAN
      /\ pc' = [pc EXCEPT ![p] = "off"] /\ lock' = "none" /\ pc[p] # "off"
      /\ UNCHANGED <<cur, todo, target, snapshot, marker, updateState, kept>>
  BY <1>1, DiesEffect DEF Dies
<1>3. FilesInv(Careless)'
  BY <1>1, DiesFiles
<1>4. FileTypes' /\ ReportInv' /\ AloneAt("off")'
  BY <1>1, <1>2 DEF FileTypes, AloneInv, ReportInv, AloneAt
<1> QED BY <1>2, <1>3, <1>4, AloneMoves

LEMMA AloneStart ==
    ASSUME AloneInv, NEW d \in ManualDirs, NEW rel \in ManualReleases, ManualStart(d, rel)
    PROVE  AloneInv'
<1>1. /\ Files(Careless) /\ Careless \in BOOLEAN /\ FileTypes
  BY AloneFacts
<1>2. /\ Acquire("manual", "install") /\ UNCHANGED <<todo, fileVars, kept, faults>>
      /\ cur' = [dir |-> d, rel |-> rel] /\ (OperatorWaits => marker = NoPlan)
  BY DEF ManualStart
<1>3. cur' \in Plan
  BY <1>2, DirsAssumption, ManualReleasesAssumption DEF Plan
<1>4. FilesInv(Careless)'
  BY <1>1, ManualStartFiles
<1>5. AloneAt("install")'
  BY <1>2 DEF AloneAt, Careless, fileVars
<1>6. todo' \in SUBSET Components /\ "install" \in InstallPC
  BY <1>1, <1>2 DEF FileTypes, InstallPC
<1> QED BY <1>2, <1>3, <1>4, <1>5, <1>6, AloneStarts

LEMMA AloneRecovers ==
    ASSUME AloneInv, StatusStart
    PROVE  AloneInv'
<1>1. /\ Files(Careless) /\ Careless \in BOOLEAN /\ FileTypes /\ "status" \in Procs
  BY AloneFacts
<1>2. /\ Acquire("status", "recRestore") /\ UNCHANGED <<fileVars, kept, faults>>
      /\ cur' = marker /\ todo' = Components
  BY DEF StatusStart, RecoverMarker
<1>3. FilesInv(Careless)'
  BY <1>1, RecoverMarkerFiles DEF StatusStart
<1>4. AloneAt("recRestore")' /\ "recRestore" \in RecoveryPC
  BY DEF AloneAt, RecoveryPC
<1>5. cur' \in Plan \cup {NoPlan} /\ todo' \in SUBSET Components
  BY <1>1, <1>2 DEF FileTypes
<1> QED BY <1>2, <1>3, <1>4, <1>5, AloneStarts

(* What holds when the updater ends, and how it ends.                      *)
LEMMA AloneReturns ==
    ASSUME NEW l, Return("manual", l)
    PROVE  pc' = [pc EXCEPT !["manual"] = "off"] /\ lock' = "none"
  BY DEF Return, Exit

LEMMA AloneSnapshots ==
    ASSUME AloneInv, CreateRollback("manual")
    PROVE  AloneInv'
<1>1. /\ Files(Careless) /\ Careless \in BOOLEAN /\ FileTypes /\ "manual" \in Procs
      /\ pc["manual"] = "install" /\ cur \in Plan /\ cur.rel \in Nat
      /\ snapshot[cur.dir] = NoSnapshot => Careless \/ marker = NoPlan
      /\ marker # NoPlan => snapshot[marker.dir] # NoSnapshot /\ marker \in Plan
  BY AloneFacts DEF CreateRollback, AloneAt, HolderAt
<1>2. FilesInv(Careless)'
  BY <1>1, CreateRollbackFiles
<1>3. UNCHANGED <<cur, todo, target, marker, updateState, stateTmp, markTmp, kept, faults>>
  BY DEF CreateRollback
<1>4. CASE snapshot[cur.dir] = NoSnapshot
  <2> DEFINE s == [files |-> target, rel |-> cur.rel]
  <2>1. s \in Snapshot /\ s # NoSnapshot
    BY <1>1 DEF Snapshot, NoSnapshot, FileTypes
  <2>2. /\ snapshot' = [snapshot EXCEPT ![cur.dir] = s]
        /\ pc' = [pc EXCEPT !["manual"] = "mark"] /\ lock' = lock
    BY <1>4 DEF CreateRollback, Goto
  <2> HIDE DEF s
  <2>3. cur.dir \in Dirs /\ (marker # NoPlan => marker.dir \in Dirs)
    BY <1>1 DEF Plan
  <2>4. FileTypes'
    BY <1>1, <1>3, <2>1, <2>2, <2>3 DEF FileTypes
  <2>5. snapshot'[cur.dir] # NoSnapshot
    BY <1>1, <2>1, <2>2, <2>3 DEF FileTypes
  <2>6. marker # NoPlan => snapshot'[marker.dir] # NoSnapshot
    BY <1>1, <2>1, <2>2, <2>3 DEF FileTypes
  <2>7. ReportInv' /\ AloneAt("mark")'
    BY <1>3, <2>5, <2>6 DEF ReportInv, AloneInv, AloneAt
  <2> QED BY <1>1, <1>2, <2>2, <2>4, <2>7, AloneMoves DEF InstallPC
<1>5. CASE snapshot[cur.dir] # NoSnapshot
  <2>1. Return("manual", "doneFailed") /\ UNCHANGED snapshot
    BY <1>5 DEF CreateRollback
  <2>2. FileTypes' /\ ReportInv' /\ AloneAt("off")'
    BY <1>1, <1>3, <2>1 DEF FileTypes, AloneInv, ReportInv, AloneAt
  <2> QED BY <1>1, <1>2, <2>1, <2>2, AloneReturns, AloneMoves
<1> QED BY <1>4, <1>5

LEMMA AloneMarks ==
    ASSUME AloneInv, WriteUpdateTransaction("manual")
    PROVE  AloneInv'
<1>1. /\ Files(Careless) /\ Careless \in BOOLEAN /\ FileTypes /\ "manual" \in Procs
      /\ pc["manual"] = "mark" /\ cur \in Plan /\ cur # NoPlan
      /\ snapshot[cur.dir] # NoSnapshot
  BY AloneFacts DEF WriteUpdateTransaction, AloneAt, HolderAt
<1>2. FilesInv(Careless)'
  BY <1>1, WriteTransactionFiles
<1>3. UNCHANGED <<cur, target, snapshot, updateState, stateTmp, markTmp, kept, faults>>
  BY DEF WriteUpdateTransaction
<1>4. CASE markTmp
  <2>1. Return("manual", "doneFailed") /\ UNCHANGED <<marker, todo>>
    BY <1>4 DEF WriteUpdateTransaction
  <2>2. FileTypes' /\ ReportInv' /\ AloneAt("off")'
    BY <1>1, <1>3, <2>1 DEF FileTypes, AloneInv, ReportInv, AloneAt
  <2> QED BY <1>1, <1>2, <2>1, <2>2, AloneReturns, AloneMoves
<1>5. CASE ~markTmp
  <2>1. /\ marker' = cur /\ todo' = Components
        /\ pc' = [pc EXCEPT !["manual"] = "apply"] /\ lock' = lock
    BY <1>5 DEF WriteUpdateTransaction, Goto
  <2>2. FileTypes' /\ ReportInv' /\ AloneAt("apply")'
    BY <1>1, <1>3, <2>1 DEF FileTypes, AloneInv, ReportInv, AloneAt
  <2> QED BY <1>1, <1>2, <2>1, <2>2, AloneMoves DEF InstallPC
<1> QED BY <1>4, <1>5

(* A replaced or restored component, under the marker.                     *)
LEMMA AloneReplaces ==
    ASSUME AloneInv, NEW p \in {"manual", "status"}, pc[p] # "off", marker # NoPlan,
           NEW c \in todo, NEW v \in Nat, target' = [target EXCEPT ![c] = v],
           todo' = todo \ {c}, kept' \in SUBSET Dirs,
           UNCHANGED <<cur, snapshot, marker, updateState, stateTmp, markTmp, faults>>
    PROVE  FileTypes' /\ ReportInv'
<1>1. FileTypes /\ snapshot[marker.dir] # NoSnapshot
  BY AloneFacts
<1>2. target' \in [Components -> Nat] /\ todo' \in SUBSET Components
  BY <1>1 DEF FileTypes
<1> QED BY <1>1, <1>2 DEF FileTypes, ReportInv

LEMMA AloneApplies ==
    ASSUME AloneInv, ApplyComponent("manual")
    PROVE  AloneInv'
<1>1. /\ Files(Careless) /\ Careless \in BOOLEAN /\ FileTypes /\ "manual" \in Procs
      /\ pc["manual"] = "apply" /\ cur.rel \in Nat /\ marker # NoPlan
  BY AloneFacts DEF ApplyComponent, HolderAt, Marked
<1>2. FilesInv(Careless)'
  BY <1>1, ApplyComponentFiles
<1>3. FileTypes' /\ ReportInv'
  <2>1. PICK c \in todo : target' = [target EXCEPT ![c] = cur.rel] /\ todo' = todo \ {c}
    BY DEF ApplyComponent
  <2>2. /\ UNCHANGED <<cur, snapshot, marker, updateState, stateTmp, markTmp, faults>>
        /\ kept' \in SUBSET Dirs /\ pc["manual"] # "off"
    BY <1>1 DEF ApplyComponent, FileTypes
  <2> QED BY <1>1, <2>1, <2>2, AloneReplaces
<1>4. \E l \in {"apply", "health"} : pc' = [pc EXCEPT !["manual"] = l] /\ lock' = lock
  <2>1. [pc EXCEPT !["manual"] = "apply"] = pc
    BY <1>1, AloneFacts
  <2> QED BY <2>1 DEF ApplyComponent, Goto
<1>5. \A l \in {"apply", "health"} : l \in InstallPC /\ l # "off" /\ AloneAt(l)'
  BY DEF InstallPC, AloneAt
<1> QED BY <1>1, <1>2, <1>3, <1>4, <1>5, AloneMoves

LEMMA AloneRestores ==
    ASSUME AloneInv, NEW p \in {"manual", "status"}, NEW from, NEW to, RestoreStep(p, from, to),
           \/ p = "manual" /\ from = "rbRestore" /\ to = "rbHealth"
           \/ p = "status" /\ from = "recRestore" /\ to = "recHealth"
    PROVE  AloneInv'
<1>1. /\ Files(Careless) /\ Careless \in BOOLEAN /\ FileTypes /\ p \in Procs
      /\ pc[p] = from /\ from # "off" /\ marker = cur /\ marker # NoPlan
      /\ snapshot[cur.dir] # NoSnapshot /\ cur \in Plan
  BY AloneFacts DEF RestoreStep, HolderAt, Marked
<1>2. FilesInv(Careless)'
  BY <1>1, RestoreFiles
<1>3. FileTypes' /\ ReportInv'
  <2>1. PICK c \in todo :
            target' = [target EXCEPT ![c] = snapshot[cur.dir].files[c]] /\ todo' = todo \ {c}
    BY DEF RestoreStep
  <2>2. snapshot[cur.dir].files[c] \in Nat
    <3>1. snapshot[cur.dir] \in Snapshot /\ c \in Components
      BY <1>1, <2>1 DEF FileTypes, Plan
    <3> QED BY <3>1 DEF Snapshot
  <2>3. /\ UNCHANGED <<cur, snapshot, marker, updateState, stateTmp, markTmp, faults>>
        /\ kept' \in SUBSET Dirs
    BY <1>1 DEF RestoreStep, FileTypes
  <2> QED BY <1>1, <2>1, <2>2, <2>3, AloneReplaces
<1>4. \E l \in {from, to} : pc' = [pc EXCEPT ![p] = l] /\ lock' = lock
  <2>1. [pc EXCEPT ![p] = from] = pc
    BY <1>1, AloneFacts
  <2> QED BY <2>1 DEF RestoreStep, Goto
<1>5. \A l \in {from, to} :
          /\ l \in {"off"} \cup (IF p = "manual" THEN InstallPC ELSE RecoveryPC)
          /\ l # "off" /\ AloneAt(l)'
  BY DEF InstallPC, RecoveryPC, AloneAt
<1> QED BY <1>1, <1>2, <1>3, <1>4, <1>5, AloneMoves

LEMMA AloneSucceeds ==
    ASSUME AloneInv, RecordSuccess("manual")
    PROVE  AloneInv'
<1>1. /\ Files(Careless) /\ Careless \in BOOLEAN /\ FileTypes /\ "manual" \in Procs
      /\ pc["manual"] = "health" /\ cur.rel \in Nat /\ marker # NoPlan
      /\ snapshot[marker.dir] # NoSnapshot
  BY AloneFacts DEF RecordSuccess, HolderAt, Marked
<1>2. FilesInv(Careless)'
  BY <1>1, RecordSuccessFiles
<1>3. UNCHANGED <<cur, target, snapshot, marker, stateTmp, markTmp, kept, faults>>
  BY DEF RecordSuccess
<1>4. ReportInv'
  BY <1>1, <1>3 DEF ReportInv
<1>5. CASE stateTmp
  <2>1. /\ pc' = [pc EXCEPT !["manual"] = "rbRestore"] /\ lock' = lock
        /\ todo' = Components /\ updateState' = updateState
    BY <1>5 DEF RecordSuccess, StartRollback, Goto
  <2>2. FileTypes' /\ AloneAt("rbRestore")'
    BY <1>1, <1>3, <2>1 DEF FileTypes, AloneAt
  <2> QED BY <1>1, <1>2, <1>4, <2>1, <2>2, AloneMoves DEF InstallPC
<1>6. CASE ~stateTmp
  <2> DEFINE s == [rel |-> cur.rel, status |-> "success"]
  <2>1. /\ pc' = [pc EXCEPT !["manual"] = "check"] /\ lock' = lock
        /\ todo' = todo /\ updateState' = s
    BY <1>6 DEF RecordSuccess, Goto
  <2>2. s \in [rel : Nat, status : {"none", "success", "failed"}]
    BY <1>1
  <2>3. s.status = "success" /\ s.rel = cur.rel
    OBVIOUS
  <2> HIDE DEF s
  <2>4. FileTypes' /\ AloneAt("check")'
    BY <1>1, <1>3, <2>1, <2>2, <2>3 DEF FileTypes, AloneAt
  <2> QED BY <1>1, <1>2, <1>4, <2>1, <2>4, AloneMoves DEF InstallPC
<1> QED BY <1>5, <1>6

LEMMA AloneRecords ==
    ASSUME AloneInv, NEW p \in {"manual", "status"}, NEW from, NEW to, RecordFailure(p, from, to),
           \/ p = "manual" /\ from = "rbHealth" /\ to = "rbCheck"
           \/ p = "status" /\ from = "recHealth" /\ to = "recCheck"
    PROVE  AloneInv'
<1>1. /\ Files(Careless) /\ Careless \in BOOLEAN /\ FileTypes /\ p \in Procs
      /\ pc[p] = from /\ from # "off" /\ cur.rel \in Nat
      /\ marker # NoPlan => snapshot[marker.dir] # NoSnapshot
  BY AloneFacts DEF RecordFailure
<1>2. FilesInv(Careless)'
  BY <1>1, RecordFailureFiles
<1>3. UNCHANGED <<cur, todo, target, snapshot, marker, stateTmp, markTmp, kept, faults>>
  BY DEF RecordFailure
<1>4. CASE stateTmp
  <2>1. /\ pc' = [pc EXCEPT ![p] = "off"] /\ lock' = "none" /\ updateState' = updateState
    BY <1>4 DEF RecordFailure, Exit
  <2>2. FileTypes' /\ ReportInv' /\ AloneAt("off")'
    BY <1>1, <1>3, <2>1 DEF FileTypes, AloneInv, ReportInv, AloneAt
  <2> QED BY <1>1, <1>2, <2>1, <2>2, AloneMoves
<1>5. CASE ~stateTmp
  <2> DEFINE s == [rel |-> cur.rel, status |-> "failed"]
  <2>1. pc' = [pc EXCEPT ![p] = to] /\ lock' = lock /\ updateState' = s
    BY <1>5 DEF RecordFailure, Goto
  <2>2. s \in [rel : Nat, status : {"none", "success", "failed"}]
    BY <1>1
  <2>3. s.status = "failed"
    OBVIOUS
  <2> HIDE DEF s
  <2>4. FileTypes' /\ ReportInv'
    BY <1>1, <1>3, <2>1, <2>2, <2>3 DEF FileTypes, ReportInv
  <2>5. /\ to \in {"off"} \cup (IF p = "manual" THEN InstallPC ELSE RecoveryPC)
        /\ to # "off" /\ AloneAt(to)'
    BY <2>1, <2>3 DEF InstallPC, RecoveryPC, AloneAt
  <2> QED BY <1>1, <1>2, <2>1, <2>4, <2>5, AloneMoves
<1> QED BY <1>4, <1>5

(* The marker is removed: after a success the release is installed, after  *)
(* a restoration a failure has been recorded.                              *)
LEMMA AloneCompletes ==
    ASSUME AloneInv,
           \/ CompleteInstall("manual") \/ CompleteRollback("manual")
           \/ CompleteRecovery("status")
    PROVE  AloneInv'
<1>1. /\ Files(Careless) /\ Careless \in BOOLEAN /\ FileTypes
      /\ "manual" \in Procs /\ "status" \in Procs
  BY AloneFacts
<1>2. FilesInv(Careless)'
  BY <1>1, CompleteInstallFiles, CompleteRestorationFiles
<1>3. \E p \in {"manual", "status"} :
          pc[p] # "off" /\ pc' = [pc EXCEPT ![p] = "off"] /\ lock' = "none"
  BY DEF CompleteInstall, CompleteRollback, CompleteRecovery, Return, Exit
<1>4. /\ UNCHANGED <<cur, todo, target, snapshot, updateState, stateTmp, markTmp, faults>>
      /\ marker' = NoPlan
  BY DEF CompleteInstall, CompleteRollback, CompleteRecovery
<1>5. kept' \in SUBSET Dirs
  <2>1. CASE CompleteInstall("manual")
    <3>1. cur \in Plan
      BY <1>1, <2>1, AloneFacts DEF CompleteInstall, HolderAt, Marked
    <3> QED BY <1>1, <2>1, <3>1 DEF CompleteInstall, FileTypes, Plan
  <2>2. CASE CompleteRollback("manual") \/ CompleteRecovery("status")
    BY <1>1, <2>2 DEF CompleteRollback, CompleteRecovery, FileTypes
  <2> QED BY <2>1, <2>2
<1>6. updateState.status = "success" => \A c \in Components : target[c] = updateState.rel
  <2>1. CASE CompleteInstall("manual")
    <3>1. pc["manual"] = "check"
      BY <2>1 DEF CompleteInstall
    <3> QED BY <1>1, <3>1, AloneFacts DEF AloneAt, HolderAt
  <2>2. CASE CompleteRollback("manual")
    <3>1. pc["manual"] = "rbCheck"
      BY <2>2 DEF CompleteRollback
    <3> QED BY <1>1, <3>1, AloneFacts DEF AloneAt
  <2>3. CASE CompleteRecovery("status")
    <3>1. pc["status"] = "recCheck"
      BY <2>3 DEF CompleteRecovery
    <3> QED BY <1>1, <3>1, AloneFacts DEF AloneAt
  <2> QED BY <2>1, <2>2, <2>3
<1>7. FileTypes' /\ ReportInv' /\ AloneAt("off")'
  BY <1>1, <1>4, <1>5, <1>6 DEF FileTypes, ReportInv, AloneAt
<1> QED BY <1>2, <1>3, <1>7, AloneMoves

LEMMA AloneFails ==
    ASSUME AloneInv, InstallFails("manual")
    PROVE  AloneInv'
<1>1. /\ Files(Careless) /\ Careless \in BOOLEAN /\ FileTypes /\ "manual" \in Procs
      /\ cur.rel \in Nat /\ AloneAt(pc["manual"]) /\ HolderAt(pc["manual"], Careless)
      /\ marker # NoPlan => snapshot[marker.dir] # NoSnapshot /\ marker \in Plan
  BY AloneFacts
<1>2. FilesInv(Careless)'
  BY <1>1, InstallFailsFiles DEF AloneAt
<1>3. UNCHANGED <<cur, target, updateState, stateTmp, markTmp, kept>>
  BY DEF InstallFails
<1>4. faults' \in 0..MaxFaults
  BY <1>1, FaultCounted DEF InstallFails, FileTypes
<1>5. CASE /\ pc["manual"] = "install" /\ Return("manual", "doneFailed")
           /\ snapshot' \in {snapshot, [snapshot EXCEPT ![cur.dir] =
                                          [files |-> target, rel |-> cur.rel]]}
           /\ UNCHANGED <<marker, todo>>
  <2> DEFINE s == [files |-> target, rel |-> cur.rel]
  <2>1. s \in Snapshot /\ s # NoSnapshot
    BY <1>1 DEF Snapshot, NoSnapshot, FileTypes
  <2>2. snapshot' \in {snapshot, [snapshot EXCEPT ![cur.dir] = s]}
    BY <1>5
  <2> HIDE DEF s
  <2>3. cur.dir \in Dirs /\ (marker # NoPlan => marker.dir \in Dirs)
    BY <1>1, <1>5 DEF Plan, HolderAt
  <2>4. snapshot \in [Dirs -> Snapshot \cup {NoSnapshot}]
    BY <1>1 DEF FileTypes
  <2>5. snapshot' \in [Dirs -> Snapshot \cup {NoSnapshot}]
    BY <2>1, <2>2, <2>3, <2>4
  <2>6. marker # NoPlan => snapshot'[marker.dir] # NoSnapshot
    BY <1>1, <2>1, <2>2, <2>3, <2>4
  <2>7. FileTypes' /\ ReportInv' /\ AloneAt("off")'
    BY <1>1, <1>3, <1>4, <1>5, <2>5, <2>6 DEF FileTypes, ReportInv, AloneInv, AloneAt
  <2> QED BY <1>2, <1>5, <2>7, AloneReturns, AloneMoves
<1>6. CASE /\ pc["manual"] = "mark" /\ Return("manual", "doneFailed")
           /\ marker' \in {marker, cur} /\ UNCHANGED <<snapshot, todo>>
  <2>1. cur \in Plan /\ cur # NoPlan /\ snapshot[cur.dir] # NoSnapshot
    BY <1>1, <1>6 DEF AloneAt, HolderAt
  <2>2. FileTypes' /\ ReportInv' /\ AloneAt("off")'
    BY <1>1, <1>3, <1>4, <1>6, <2>1 DEF FileTypes, ReportInv, AloneInv, AloneAt
  <2> QED BY <1>2, <1>6, <2>2, AloneReturns, AloneMoves
<1>7. CASE /\ pc["manual"] \in {"apply", "health", "check"} /\ StartRollback("manual")
           /\ UNCHANGED <<snapshot, marker>>
  <2>1. /\ pc' = [pc EXCEPT !["manual"] = "rbRestore"] /\ lock' = lock /\ todo' = Components
        /\ pc["manual"] # "off"
    BY <1>7 DEF StartRollback, Goto
  <2>2. FileTypes' /\ ReportInv' /\ AloneAt("rbRestore")'
    BY <1>1, <1>3, <1>4, <1>7, <2>1 DEF FileTypes, ReportInv, AloneInv, AloneAt
  <2> QED BY <1>2, <2>1, <2>2, AloneMoves DEF InstallPC
<1> QED BY <1>5, <1>6, <1>7 DEF InstallFails

LEMMA AloneInit ==
    ASSUME InstallInit
    PROVE  AloneInv
<1>1. FileTypes
  <2>1. faults \in 0..MaxFaults /\ target \in [Components -> Nat]
    <3>1. 0 \in 0..MaxFaults /\ 0 \in Nat
      BY SMT, Z3, MaxFaultsAssumption
    <3>2. QED
      BY <3>1 DEF InstallInit
  <2>2. updateState \in [rel : Nat, status : {"none", "success", "failed"}]
    BY DEF InstallInit, NoState
  <2> QED BY <2>1, <2>2 DEF InstallInit, FileTypes
<1>2. \A p \in Procs : pc[p] = "off"
  BY DEF InstallInit
<1>3. InstallTypeOK
  BY <1>1, <1>2 DEF InstallTypeOK, FileTypes, InstallInit, PCs
<1>4. AloneProcs
  BY <1>2 DEF AloneProcs, ExclusiveMutation, Procs
<1>5. FilesInv(Careless)
  <2>1. Uniform(target) /\ marker = NoPlan
    BY DEF InstallInit, Uniform
  <2>2. HolderAt("off", Careless)
    BY DEF HolderAt, Restored, Marked
  <2> QED BY <1>2, <2>1, <2>2 DEF FilesInv
<1>6. ReportInv
  <2>1. updateState.status = "none"
    BY DEF InstallInit, NoState
  <2> QED BY <2>1 DEF ReportInv, InstallInit
<1>7. AloneAt("off")
  BY DEF AloneAt
<1> QED BY <1>2, <1>3, <1>4, <1>5, <1>6, <1>7 DEF AloneInv

LEMMA AloneNext ==
    ASSUME AloneInv, [InstallNext]_installVars
    PROVE  AloneInv'
<1>1. CASE ManualUpdater
  <2>1. CASE InstallStep("manual")
    BY <2>1, AloneSnapshots, AloneMarks, AloneApplies, AloneSucceeds, AloneCompletes,
       AloneRestores, AloneRecords DEF InstallStep
  <2> QED BY <1>1, <2>1, AloneStart, AloneFails, AloneDies DEF ManualUpdater
<1>2. CASE StatusService
  <2>1. CASE RecoveryStep("status")
    BY <2>1, AloneRestores, AloneRecords, AloneCompletes DEF RecoveryStep
  <2> QED BY <1>2, <2>1, AloneRecovers, AloneDies DEF StatusService
<1>3. CASE UNCHANGED installVars
  <2>1. UNCHANGED <<pc, lock, cur, todo, target, snapshot, marker, updateState>>
    BY <1>3 DEF installVars, localVars, fileVars
  <2>2. InstallTypeOK' /\ AloneProcs'
    BY <1>3, <2>1 DEF AloneInv, InstallTypeOK, AloneProcs, ExclusiveMutation,
       installVars, localVars, fileVars
  <2>3. FilesInv(Careless)'
    <3>1. FilesInv(Careless)
      BY DEF AloneInv
    <3>2. Careless' = Careless
      BY DEF Careless
    <3>3. ASSUME NEW p \in Procs PROVE HolderAt(pc[p], Careless)'
      <4>1. HolderAt(pc[p], Careless)
        BY <3>1 DEF FilesInv
      <4>2. Restorable(cur.dir) => Restorable(cur.dir)'
        BY <2>1 DEF Restorable
      <4>3. QED
        BY <2>1, <3>2, <4>1, <4>2 DEF HolderAt
    <3>4. QED
      BY <2>1, <3>1, <3>2, <3>3 DEF FilesInv, Restorable, Uniform
  <2>4. ReportInv' /\ \A p \in Procs : AloneAt(pc[p])'
    BY <2>1 DEF AloneInv, ReportInv, AloneAt
  <2> QED BY <2>2, <2>3, <2>4 DEF AloneInv
<1> QED BY <1>1, <1>2, <1>3 DEF InstallNext

(* On a client without the worker, the operator's updater and the recovery *)
(* of the status service keep the files, the marker, the snapshots and     *)
(* update-state.json in step, through every crash and failing command.     *)
THEOREM InstallerInvariant == InstallSpec => []AloneInv
<1>1. InstallInit => AloneInv
  BY AloneInit
<1>2. AloneInv /\ [InstallNext]_installVars => AloneInv'
  BY AloneNext
<1> QED BY <1>1, <1>2, PTL DEF InstallSpec

(* Half-replaced components are always covered by a marker whose snapshot  *)
(* restores one release, provided no operator installs over a pending      *)
(* marker (WriteUpdateTransaction replaces an older marker silently).      *)
THEOREM MixedStaysRecoverable ==
    ASSUME OperatorWaits
    PROVE  InstallSpec => []MixedIsRecoverable
<1>1. AloneInv => MixedIsRecoverable
  <2> SUFFICES ASSUME AloneInv PROVE MixedIsRecoverable
    OBVIOUS
  <2>1. FilesInv(Careless) /\ ~Careless
    BY DEF AloneInv, Careless
  <2> QED BY <2>1 DEF FilesInv, MixedIsRecoverable, Uniform, Restorable
<1> QED BY <1>1, InstallerInvariant, PTL

(* A success in update-state.json, which the health callback writes before *)
(* the services are checked, is one of the installed release as soon as    *)
(* no installation or recovery is pending.                                 *)
THEOREM ReportedMeansInstalled == InstallSpec => []ReportedSuccessInstalled
<1>1. AloneInv => ReportedSuccessInstalled
  BY DEF AloneInv, ReportInv, ReportedSuccessInstalled
<1> QED BY <1>1, InstallerInvariant, PTL
=============================================================================
