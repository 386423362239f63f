----------------------------- MODULE UpdateJobs -----------------------------
(***************************************************************************)
(* The server side of scheduled client updates: the client_update_jobs     *)
(* table, the transactions on it (createUpdateJob and changeUpdateJob) and *)
(* the administrative and device handlers that run them.                   *)
(*                                                                         *)
(* A database transaction is one step.  The row that audit_log gains in    *)
(* the same transaction is modelled by audit, the trail of each job.  A    *)
(* release stands for its catalog id, its version and its package hash,    *)
(* which the catalog binds together; releases are numbers, compared as     *)
(* versions are.                                                           *)
(*                                                                         *)
(* A handler reads the clock before its transaction begins, so that a      *)
(* transaction takes the reading t as a parameter: t may be any time up to *)
(* now.  The authentication of a device (updateDevice) comes earlier still *)
(* and is not part of the transaction, which reads again only that the     *)
(* client is enabled, and that only when it is to dispatch.                *)
(***************************************************************************)
EXTENDS Naturals, Sequences

CONSTANTS
    Jobs,             \* request identifiers chosen by the browser form
    Clients,          \* registered clients
    Releases,         \* release versions that a catalog may approve
    GreeterReleases,  \* releases that restart LightDM
    MaxTime           \* bound on the clock

ASSUME ReleasesAssumption == Releases \subseteq Nat \ {0}
ASSUME GreeterAssumption == GreeterReleases \subseteq Releases
ASSUME MaxTimeAssumption == MaxTime \in Nat

VARIABLES
    state,     \* state[j]: the state column, "absent" while there is no row
    req,       \* req[j]: the immutable columns of the row
    rb,        \* rb[j]: rollback_available
    audit,     \* audit[j]: the client_update_* events of job j, in order
    granted,   \* granted[j]: updated_at of a dispatched job
    enabled,   \* enabled[c]: client c is enabled, its mode not token_only
    certified, \* certified[c]: client c has an active device certificate
    catalog,   \* the releases approved since the last server start
    now        \* the clock, in units of the execution window

accessVars == <<enabled, certified, catalog, now>>

serverVars == <<state, req, rb, audit, granted, accessVars>>

Open == {"scheduled", "dispatched"}

Terminal == {"succeeded", "failed", "cancelled", "expired"}

JobState == Open \cup Terminal

Request == [client : Clients, release : Releases, notBefore : 0..MaxTime,
            expiresAt : 0..MaxTime, maintenance : BOOLEAN]

NoRequest == [client |-> "none"]

(* The conditions of JobWindow.Validate; its limits of 24 hours for the    *)
(* window and of 90 days ahead are beyond the clock of the model.          *)
Validate(r, requiresLightDM, t) ==
    /\ r.notBefore < r.expiresAt
    /\ t < r.expiresAt
    /\ requiresLightDM => r.maintenance

(* Faulty variant: a dispatched job can still be cancelled.                *)
TransitionTakesBack(j, to, t) ==
    \/ state[j] \in Open /\ to = "cancelled"
    \/ state[j] = "scheduled" /\ to = "expired" /\ req[j].expiresAt <= t
    \/ state[j] = "scheduled" /\ to = "dispatched" /\ req[j].notBefore <= t
    \/ state[j] = "dispatched" /\ to \in {"succeeded", "failed"}

(* Faulty variant: the end of the window is not looked at.                 *)
TransitionTooLate(j, to, t) ==
    \/ state[j] = "scheduled" /\ to = "cancelled"
    \/ state[j] = "scheduled" /\ to = "expired" /\ req[j].expiresAt <= t
    \/ state[j] = "scheduled" /\ to = "dispatched" /\ req[j].notBefore <= t
    \/ state[j] = "dispatched" /\ to \in {"succeeded", "failed"}

(* The lifecycle of a job, at the clock reading t. *)
Transition(j, to, t) ==
    \/ state[j] = "scheduled" /\ to = "cancelled"
    \/ state[j] = "scheduled" /\ to = "expired" /\ req[j].expiresAt <= t
    \/ /\ state[j] = "scheduled" /\ to = "dispatched"
       /\ req[j].notBefore <= t /\ t < req[j].expiresAt
    \/ state[j] = "dispatched" /\ to \in {"succeeded", "failed"}

(* The transaction changeUpdateJob(j, c, to, r) with the clock reading t   *)
(* commits.                                                                *)
CanChange(j, c, to, r, t) ==
    /\ state[j] # "absent"
    /\ req[j].client = c
    /\ IF state[j] = to
         THEN rb[j] = r
         ELSE Transition(j, to, t) /\ (to = "dispatched" => enabled[c])

(* Faulty variant: a repeated request is audited again.                    *)
ChangeAuditsTwice(j, c, to, r, t) ==
    /\ CanChange(j, c, to, r, t)
    /\ state' = [state EXCEPT ![j] = to]
    /\ rb' = [rb EXCEPT ![j] = r]
    /\ audit' = [audit EXCEPT ![j] = IF Len(@) > 3 THEN @ ELSE Append(@, to)]
    /\ granted' = [granted EXCEPT ![j] = IF to = "dispatched" THEN t ELSE 0]
    /\ UNCHANGED <<req, accessVars>>

(* Its effect: nothing when the job is in that state already. *)
ChangeUpdateJob(j, c, to, r, t) ==
    /\ CanChange(j, c, to, r, t)
    /\ state' = [state EXCEPT ![j] = to]
    /\ rb' = [rb EXCEPT ![j] = r]
    /\ audit' = IF state[j] = to THEN audit
                ELSE [audit EXCEPT ![j] = Append(@, to)]
    /\ granted' = IF state[j] = to THEN granted
                  ELSE [granted EXCEPT ![j] = IF to = "dispatched" THEN t ELSE 0]
    /\ UNCHANGED <<req, accessVars>>

(* What a request that the store refuses leaves behind. *)
Refused == UNCHANGED serverVars

(* The release of the job is approved as it was when the job was created. *)
ApprovedJob(j) ==
    /\ req[j].release \in catalog
    /\ req[j].release \in GreeterReleases => req[j].maintenance

-----------------------------------------------------------------------------
(* The scheduled jobs of client c whose window has passed at time t. *)
Overdue(c, t) == {p \in Jobs : /\ state[p] = "scheduled" /\ req[p].client = c
                               /\ req[p].expiresAt <= t}

(* Faulty variant: another open job of the client does not matter.         *)
CreateBesideOpen(j, r, t) ==
    /\ state[j] = "absent" /\ enabled[r.client]
    /\ state' = [state EXCEPT ![j] = "scheduled"]
    /\ req' = [req EXCEPT ![j] = r]
    /\ audit' = [audit EXCEPT ![j] = <<"scheduled">>]
    /\ UNCHANGED <<rb, granted, accessVars>>

(* A new row: overdue predecessors expire in the same transaction, and the *)
(* unique index refuses the row while another job of the client is open.   *)
CreateUpdateJob(j, r, t) ==
    /\ state[j] = "absent"
    /\ enabled[r.client]
    /\ \A p \in Jobs \ Overdue(r.client, t) :
          state[p] \in Open => req[p].client # r.client
    /\ state' = [p \in Jobs |-> IF p = j THEN "scheduled"
                                ELSE IF p \in Overdue(r.client, t) THEN "expired"
                                ELSE state[p]]
    /\ req' = [req EXCEPT ![j] = r]
    /\ audit' = [p \in Jobs |-> IF p = j THEN <<"scheduled">>
                                ELSE IF p \in Overdue(r.client, t)
                                       THEN Append(audit[p], "expired")
                                       ELSE audit[p]]
    /\ UNCHANGED <<rb, granted, accessVars>>

(* The form is submitted.  A repeated identifier is a no-op when the whole *)
(* request agrees and is refused when it does not: both change nothing.    *)
ScheduleClientUpdate(j, r, t) ==
    /\ r.release \in catalog
    /\ Validate(r, r.release \in GreeterReleases, t)
    /\ CreateUpdateJob(j, r, t)

CancelClientUpdate(j) ==
    /\ state[j] # "absent"
    /\ ChangeUpdateJob(j, req[j].client, "cancelled", FALSE, now)

(* The expiry that a poll commits for a job it read as scheduled.  What    *)
(* was overdue when the clock was read is overdue at the commit.           *)
ExpireOnPoll(j, c) ==
    /\ state[j] # "absent" /\ req[j].expiresAt <= now
    /\ ChangeUpdateJob(j, c, "expired", FALSE, now)

(* What updateDevice asks of the client of a request. *)
UpdateDevice(c) == enabled[c] /\ certified[c]

(* The rest of a start, for a client that updateDevice let pass.  The      *)
(* catalog and the columns that ApprovedJob reads stay the same as long as *)
(* the handler lives, so it does not matter when they are read.            *)
StartAllowed(j, c, t) ==
    /\ state[j] # "absent" /\ req[j].client = c
    /\ ApprovedJob(j)
    /\ CanChange(j, c, "dispatched", FALSE, t)

StartClientUpdate(j, c, t) ==
    StartAllowed(j, c, t) /\ ChangeUpdateJob(j, c, "dispatched", FALSE, t)

FinishAllowed(j, c, result, r) ==
    /\ result \in {"succeeded", "failed"}
    /\ CanChange(j, c, result, r, now)

FinishClientUpdate(j, c, result, r) ==
    FinishAllowed(j, c, result, r) /\ ChangeUpdateJob(j, c, result, r, now)

PackageAvailable(j, c) ==
    /\ state[j] \in Open /\ req[j].client = c
    /\ ApprovedJob(j)
    /\ now < req[j].expiresAt

(* client-enable, client-disable and client-auth-mode.                     *)
SetEnabled(c) ==
    /\ enabled' = [enabled EXCEPT ![c] = ~@]
    /\ UNCHANGED <<state, req, rb, audit, granted, certified, catalog, now>>

(* Revocation and activation of a device credential.                       *)
SetCertified(c) ==
    /\ certified' = [certified EXCEPT ![c] = ~@]
    /\ UNCHANGED <<state, req, rb, audit, granted, enabled, catalog, now>>

(* The catalog is read once, when the server starts. *)
LoadCatalog(approved) ==
    /\ catalog' = approved
    /\ UNCHANGED <<state, req, rb, audit, granted, enabled, certified, now>>

Tick ==
    /\ now < MaxTime
    /\ now' = now + 1
    /\ UNCHANGED <<state, req, rb, audit, granted, enabled, certified, catalog>>

JobsInit ==
    /\ state = [j \in Jobs |-> "absent"]
    /\ req = [j \in Jobs |-> NoRequest]
    /\ rb = [j \in Jobs |-> FALSE]
    /\ audit = [j \in Jobs |-> <<>>]
    /\ granted = [j \in Jobs |-> 0]
    /\ enabled = [c \in Clients |-> TRUE]
    /\ certified = [c \in Clients |-> TRUE]
    /\ catalog = Releases
    /\ now = 0

(* The devices as the job store sees them: any client may have been let    *)
(* pass, send any request, at any time and as often as it likes, and the   *)
(* clock may have been read at any earlier time.                           *)
JobsNext ==
    \/ \E j \in Jobs, r \in Request, t \in 0..now : ScheduleClientUpdate(j, r, t)
    \/ \E j \in Jobs : CancelClientUpdate(j)
    \/ \E j \in Jobs, c \in Clients : ExpireOnPoll(j, c)
    \/ \E j \in Jobs, c \in Clients, t \in 0..now : StartClientUpdate(j, c, t)
    \/ \E j \in Jobs, c \in Clients, result \in {"succeeded", "failed"},
          r \in BOOLEAN : FinishClientUpdate(j, c, result, r)
    \/ \E c \in Clients : SetEnabled(c) \/ SetCertified(c)
    \/ \E approved \in SUBSET Releases : LoadCatalog(approved)
    \/ Tick

JobsSpec == JobsInit /\ [][JobsNext]_serverVars

-----------------------------------------------------------------------------
JobsTypeOK ==
    /\ state \in [Jobs -> JobState \cup {"absent"}]
    /\ req \in [Jobs -> Request \cup {NoRequest}]
    /\ \A j \in Jobs : state[j] # "absent" => req[j] \in Request
    /\ rb \in [Jobs -> BOOLEAN]
    /\ audit \in [Jobs -> Seq(JobState)]
    /\ granted \in [Jobs -> 0..MaxTime]
    /\ enabled \in [Clients -> BOOLEAN]
    /\ certified \in [Clients -> BOOLEAN]
    /\ catalog \in SUBSET Releases
    /\ now \in 0..MaxTime

(* One open job per client: the expiry of overdue predecessors and the     *)
(* insertion of a successor (createUpdateJob) never leave two open rows.   *)
OneOpenJob ==
    \A i, j \in Jobs :
        /\ i # j /\ state[i] \in Open /\ state[j] \in Open
        => req[i].client # req[j].client

(* The audit trail of a job tells its life exactly: its scheduling, then   *)
(* one event per change and none twice, permission to execute before every *)
(* result (changeUpdateJob writes the event with the row, and a repeated   *)
(* request writes nothing).                                                *)
AuditTrail ==
    \A j \in Jobs :
        /\ state[j] = "absent" => audit[j] = <<>>
        /\ state[j] = "scheduled" => audit[j] = <<"scheduled">>
        /\ state[j] \in {"cancelled", "expired", "dispatched"} =>
              audit[j] = <<"scheduled", state[j]>>
        /\ state[j] \in {"succeeded", "failed"} =>
              audit[j] = <<"scheduled", "dispatched", state[j]>>

(* No request in any order reopens a finished job or takes back a granted  *)
(* permission: a late start, cancellation, expiry or contradicting result  *)
(* loses against what was committed first (Transition).                    *)
LifecycleOnlyAdvances ==
    [][\A j \in Jobs :
          /\ state[j] \in Terminal => state'[j] = state[j] /\ rb'[j] = rb[j]
          /\ state[j] = "dispatched" =>
                state'[j] \in {"dispatched", "succeeded", "failed"}
          /\ state[j] # "absent" => req'[j] = req[j]]_serverVars

(* Execution permission is given only inside the window the administrator  *)
(* chose: the time that the start read, and that the row keeps, is in it,  *)
(* though the commit itself may come after the end.  At the commit the     *)
(* client is still enabled, whatever happened since it was let pass, and   *)
(* the release is still approved (changeUpdateJob reads the client again,  *)
(* a restart with another catalog ends the handlers).  The certificate is  *)
(* not read again: its revocation does not stop a start under way.         *)
DispatchedInWindow ==
    [][\A j \in Jobs :
          state[j] # "dispatched" /\ state'[j] = "dispatched" =>
              /\ req[j].notBefore <= granted'[j] /\ granted'[j] < req[j].expiresAt
              /\ granted'[j] <= now
              /\ enabled[req[j].client] /\ req[j].release \in catalog
              /\ req[j].release \in GreeterReleases => req[j].maintenance
      ]_serverVars
=============================================================================
