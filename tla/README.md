# A formal model of the badge identity system

This directory holds TLA+ specifications of the Stumpfworks identity server
(LOGIN01) and of the programs on its clients, the TLC configurations that check
them, and TLAPS proofs of the properties that matter most. Everything is
translated from the Go source; documents are cited only where they disagree
with it.

## The system

| Part | State | Operations | Interacts with |
|---|---|---|---|
| Update job store (`internal/database/client_update_jobs.go`, `internal/server/client_update_jobs.go`, `internal/clientupdate/job.go`, `catalog.go`) | one row per job, its audit events, the catalog read at start | schedule, cancel, poll, download, start, result | update worker |
| Installation transaction (`internal/clientupdate/install.go`, `transaction.go`, `rollback.go`, `restore.go`, `state.go`, `orchestrate.go`, `lock_unix.go`; `cmd/client-updater`) | installed components, rollback directories, marker, state file, OS lock | install, roll back, recover | status service, update worker |
| Update worker (`internal/clientupdate/worker.go`) | `job.json`, `installed-version.json` | one run per timer tick | job store, installation transaction |
| Device credentials (`internal/database/client_device_authentication.go`, `internal/server/device_certificates.go`, `internal/deviceclient`) | enrollment tokens, credentials, authentication mode; the bundle on disk | enroll, renew, activate, revoke, set mode | job store, login |
| Login and grants (`internal/server/server.go`, `pkinit.go`, `cmd/pam-helper`) | grants in memory, rate limits | authenticate, redeem, log out | badges, directory |
| Badges and sessions (`internal/database/database.go`, `audit_mutations.go`, `administrative_audit.go`, `session_audit.go`) | badges, PINs, self-service and admin sessions | create, replace, activate, revoke, log in and out | login |
| Emergency administrator (`internal/database/emergency_admin.go`, `postgres_emergency_admin.go`, `internal/server/server.go`, `cmd/identity-admin`) | grants and the sessions they were exchanged for, the flag of the configuration | issue, revoke, log in and out | admin guard, PostgreSQL import |
| Update packages (`cmd/update-packager`, `internal/clientupdate/package.go`, `verify.go`, `stage.go`; `internal/server/clients.go`) | built files, packages, stage directories | hash, sign, copy, verify, stage, compare versions | installation transaction |
| OIDC provider (`internal/oidc`, `internal/database/oidc_*.go`) | clients, codes, sessions, signing key | authorize, token, introspect, revoke, disable | badge authentication |
| Passkeys (`internal/database/webauthn.go`, `internal/server/passkeys.go`) | handles, ceremonies, credentials, counters | register, authenticate, revoke | self-service sessions |
| Greeter (`cmd/greeter`, `cmd/native-greeter`) | screen automaton | scan, PIN, authorize, reset | login |
| PostgreSQL import (`cmd/identity-db-migrate`, `internal/database/postgres_import.go`, `postgres_reconcile.go`) | both databases, table locks, sequences | import, reconcile, cut over, roll back | all stores |

A store runs on one SQLite connection (or in one PostgreSQL transaction), so
**a database transaction is one step** of a model, and a handler that runs
several transactions is several steps. PostgreSQL's `now()`, the start of a
transaction, is then the time of the step. An audit row is written in the
transaction of the change it records, and is part of that step.

What makes the system hard to test: a worker that dies between any two writes
of a file, answers that get lost after the server has committed, requests that
are handled after their sender gave up, three processes on one device that
replace the same files, approvals that are withdrawn while a job runs, and
values that one transaction reads and another one uses. `PROJECT.json` lists
each of these hazards at the line where it bites.

## Modules

| Module | Models |
|---|---|
| `UpdateJobs` | the job table, its transactions and handlers |
| `UpdateInstaller` | the installation transaction of one device and its recovery |
| `ClientUpdate` | the composition: job store, installer, worker, requests in flight |
| `UpdateLifecycle` | what scheduled updates promise, as an abstract specification |
| `DeviceCredentials` | the certificate of one client: enrollment, renewal, activation, the bundle on its disk |
| `OidcProvider` | applications, codes, access tokens and subjects of the OIDC provider |
| `Badges`, `BadgeLogin` | the badges table; a badge login from the greeter to the desktop session |
| `SelfService` | self-service sessions, failed logins, passkeys |
| `EmergencyAdmin`, `DatabaseMigration` | emergency grants and sessions; the move of the store to PostgreSQL under them |
| `SemanticVersions`, `UpdatePackage` | comparison of versions; a package from the build to the installation |
| `MCUpdateInstaller`, `MCClientUpdate`, `MCDeviceCredentials`, `MCOidcProvider`, `MCBadgeLogin`, `MCSelfService`, `MCMigration`, `MCUpdatePackage` | constants and symmetry for TLC |
| `BadgeLoginProofs` | the inductive invariants of the badges table and of badge logins, and the theorems |
| `OidcProofs` | the inductive invariant of the OIDC provider, and the theorems |
| `SelfServiceProofs` | the inductive invariant of self-service, and the theorems |
| `MigrationProofs` | the inductive invariant of emergency grants under the move of the store, and the theorems |
| `UpdateStepProofs` | the job table alone, the installation without the worker, and what every action of server, installer and worker does to the invariant of the composition |
| `ClientUpdateProofs` | the composition: its invariants and the theorems |
| `DeviceCredentialsProofs` | the inductive invariant of device credentials, and the theorems |
| `UpdatePackageProofs` | the order of versions, the inductive invariant of packages, and the theorems |

### UpdateJobs

`state[j]`, `req[j]` and `rb[j]` are the columns of the row of job `j`;
`audit[j]` are its audit events, and `granted[j]` is the time that the
permission of a dispatched job was recorded with. `enabled[c]` stands for the
columns of a client that `changeUpdateJob` reads again in its transaction
(enabled, authentication mode), `certified[c]` for what only `updateDevice`
asks (a valid certificate). `CreateUpdateJob` and `ChangeUpdateJob` are
the two transactions of `internal/database/client_update_jobs.go`, each with
its guard, its early returns for repeated requests and its audit row. The
handlers (`ScheduleClientUpdate`, `CancelClientUpdate`, `StartClientUpdate`,
`FinishClientUpdate`, `PackageAvailable`) add the checks of
`internal/server/client_update_jobs.go`. Left out: identifiers and digests are
well-formed, and the limits of 24 hours per window and 90 days ahead, which
only bound the input.

A handler reads the clock before its transaction begins, so scheduling and
starting take a reading `t` that may be older than the commit. For an expiry and
a result no such reading is needed: what was overdue stays so, and a result does
not look at the clock.

### UpdateInstaller

A process (`manual`, `status`, `worker`) is at a control point `pc[p]`; each
step makes at most one file durable, and `Dies` may end a process before any
step. `target` maps every component to the release it came from; `snapshot`,
`marker` and `updateState` are the rollback directory, the transaction marker
and the state file. Two switches select environments: `OperatorWaits` (nobody
installs by hand while a recovery is pending) and `TornWrites` (a crash may
leave the temporary file of the write it interrupted, as all runs but
`UpdateSafety` and `UpdateWithdrawn` have it). Hashes, modes and the
contents of files are abstracted to the release they belong to. Also left out:
the removal of the marker is not followed by a directory sync, so a power loss
may bring the marker back; recovery then restores a release that had passed its
health gate.

### ClientUpdate

The worker's journal, its version floor and its one request in flight are added
to the two modules above. A request is a message that a handler takes later; a
worker that dies or whose connection breaks leaves the message behind, and the
handler may still commit. `pollClientUpdate` reads the jobs and acts on them in
separate transactions, so it is two steps (`PollRead`, `PollAnswer`), and other
requests may commit in between. A start or a result is authenticated in one step
(`Authenticate`) and committed in a later one (`HandleStart`, `HandleResult`), with
a clock reading of a start from any time in between: the client may be disabled,
its certificate revoked or its job cancelled meanwhile. The catalog and the
columns of a job do not change while a handler lives, so it does not matter when
they are read. A restart of the server drops all requests, may lose an answer
that was not heard yet, and reads the catalog again.

### DeviceCredentials

`status[k]`, `info[k]` and `token[t]` are the rows of credentials and enrollment
tokens, where `k` names a key pair and the certificate made for it; `bundle`,
`previous` and `ca` are the files of the device. A request is a message in
`msgs` that a handler moves through its transactions; `dev` is the running
command of the device. The device may crash between two writes and give up
waiting (`GiveUp`), and the server may restart at any time, also after it
committed an activation and before its answer is heard. `unheard` records that
the answer to an activation was lost in one of these ways.

### OidcProvider

`client`, `code`, `session` and `subject` are the rows of the four tables.
`authorize` and `token` are modelled transaction by transaction (`Authorize`,
`AuthenticateUser`, ..., `Token`, `OIDCCodeForExchange`, `DirectoryGetUser`,
`PrepareTokens`, `ConsumeCodeWithSession`), so that two exchanges of a code, a
refusal, a revocation and the disabling of an application interleave. Scopes,
nonces, PKCE and signatures are values that are compared or copied and are left
out.

### Badges and BadgeLogin

`badges` is the table, in the order of the ids; every transaction that changes
it is an action. `BadgeLogin` adds the authentication handler in its three steps
(`AuthRead`, `RecordBadgeAuthenticationSuccess`, `saveLoginGrant`), the grants in
memory, the file that the greeter leaves for the PAM helper, the helper and its
certificate request. Badges change at any time, requests outlive their helper,
files outlive a login, and a restart of the server drops the grants. `origin[g]`
is the audit row of the login behind a grant. PIN values and their attempt
counter are left out: a refused request changes nothing else. That a helper may
be configured with another client id than its greeter is part of the model
(`HelperClient`).

### SelfService

`session`, `ceremony` and `passkey` are the rows of three tables, `attempts` the
failed password logins of one address. The handlers behind a session check it
in one step and run their transaction in a later one, and so does the completion
of a passkey login. An assertion may carry any counter, as if the authenticator
had been copied. That a user's row is found or made in `users` is part of
`AuthenticateUser`, and may fail (`ProvisioningFails`).

### EmergencyAdmin and DatabaseMigration

`grants[b]` is the table of grants in database `b`, SQLite or PostgreSQL;
`backend` says which one the configuration names. `emergencyLogin` exchanges a
grant for a session, `adminGuard` looks the row of the session up for every
request, and the request goes on (`ServeHTTP`, `logout`) in a later step, when
the row may have been revoked. The two databases keep time differently:
PostgreSQL stores microseconds, and `CURRENT_TIMESTAMP` of SQLite, with which a
revocation compares, is a text without the fraction of a second
(`AfterCurrentTimestamp`). Time is counted in parts of a microsecond, so that
both roundings happen. The guard does not ask the flag of the configuration: a
session that was opened before emergency access was switched off ends with its
row.

`DatabaseMigration` composes this with `identity-db-migrate`. A run of the tool
takes the table locks one by one in the order of `importTables`, inserts, sets
the sequences and commits; it may lose its connection at any step, and a commit
that it no longer hears of may still happen (`OrphanEnds`). `users` stands for
the tables with generated identifiers, `emergency_admin_grants` for those with
times. The operator follows `docs/postgresql-migration.md`: stop, snapshot,
import, reconcile, start on PostgreSQL, roll back while nothing was written
there. The reconciliation compares rows and not sequences, which is why both
gates are needed before the start.

### SemanticVersions and UpdatePackage

`compareVersions` is the function of `verify.go`, `compareSemanticVersions` the
one of the client list; `Precedes` is the precedence of semver.org, against
which both are compared. A version is a core and a sequence of identifiers, each
a numeral, a hyphen followed by digits, or another word, with the number it is
read as and the place of its text in the order of bytes. Numbers beyond `MaxInt`
in the core become the largest one in the updater and make the version unknown
to the server; in a pre-release Go compares such a numeral as text, and a hyphen
with digits as a number, where semver.org does the opposite. A version without
either is `Plain`. `validVersion` accepts leading zeros in a pre-release, which
semver.org does not have: two such numerals are different texts of one value.

`UpdatePackage` follows a package through `update-packager`, which hashes the
files before it copies them, to a client where two updaters may stage it while
another package is delivered in its place. A digest is the content it was made
of. The installation itself, with its steps, is in `UpdateInstaller`; here it
succeeds, or fails and is recorded as failed. The updater run by an operator
compares with the version it was built with. The worker compares with that, with
`floor` (`installed-version.json`, which only workers write) and with `record`
(`update-state.json`, which every installation overwrites); `finishWorker` saves
the release in `floor`, also when the process that installed it has died. `seen`
is the history of releases that a worker installed or found recorded, of which
`WorkerOnlyUpgrades` is stated. An operator may go back to an older program, as
nothing in the code is against it; `seen` then begins anew. A stage directory that
is no longer used is forgotten.

## Runs

| Run | Shows |
|---|---|
| `MCUpdateInstaller` | crashes at every step: a mixture of two releases can always be restored, a recorded success is real, a pending marker goes away in the end, or an orphaned temporary file keeps it with the files restored |
| `UpdateSafety` | two consecutive jobs with two faults: one open job per client, exact audit trails, at most one execution per job, only with permission, truthful results, evidence kept, no downgrade; the composition implements `UpdateLifecycle` |
| `UpdateManual` | one job and an operator who installs by hand at any time, torn writes, withdrawn approvals, disabled clients, revoked certificates: the inductive invariant of the proofs, evidence of every mixture of releases, and permission only inside the window, to an enabled client and for an approved release |
| `UpdateLiveness` | every job ends, unless an orphaned temporary file blocks the recovery that its result waits for |
| `MCDeviceCredentials` | three certificates and two tokens with two faults: one active certificate, a token used once, renewals in a line, and, unless the answer to an activation was lost, no lost key and no rollback to a certificate that is refused |
| `MCOidcProvider` | two requests at a time: a code has one outcome and only for its application, an ended session stays ended, one subject per user |
| `MCBadgeLogin` | a grant opens one session, of the badge's owner, at the client of the badge; no login after the revocation; replaced and revoked badges stay so |
| `MCSelfService` | a ceremony and a counter value serve once, a removed passkey opens no session, a passkey belongs to the user whose password began its registration, failed logins are bounded |
| `MCMigration` | the store moves to PostgreSQL and back under emergency grants and new users, with two overlapping runs of the tool: a grant is exchanged once, a revoked session passes no guard, no user or identifier is lost, no runs wait in a circle |
| `MCUpdatePackage` | builds, deliveries and two updaters at the same time: only whole signed releases are installed, the worker never goes back behind a release it has seen, updater and server agree on what is later, and on plain versions with semver.org |
| `UpdateWithdrawn`, `DeviceLostAnswer` | disagreements between the documents and the code, see below |

**Bounds.** Two jobs are enough for a predecessor and a successor on one
client; two components for a mixture; two releases for an upgrade and a
downgrade (`UpdateManual`, where the question is not which one is newer, has one,
and takes its components to be interchangeable); a clock of three values for before, inside and after a window; two
or three faults for a crash during the recovery from a crash. Three key pairs
allow a renewal to be followed by another one; two requests at a time are enough
for every race of a read with a later transaction; two access tokens, sessions
or ceremonies for a second use of something that serves once (that a ceremony
registers one passkey only needs two passkeys, which is too large for TLC, and is
shown by the proof of `CeremonyUsedOnce`); two badges for a
replacement; two runs of the tool, one grant and two users for every overlap of
import, reconciliation, repetition and cutover. Clocks reach the first tick after
a lifetime has ended. `MaxTime`, `MaxFaults`, `MaxSecret`, `MaxBadges` and `MaxCount` bound what would grow.

**Fairness.** The systemd timers start the worker and the status service again
and again, a started process goes on, a handler ends, and time passes: weak
fairness of the corresponding actions. Faults are bounded by `MaxFaults`, so
they end. Nothing is assumed to be done by administrators or operators; in
`UpdateLiveness` approvals are not withdrawn and the client stays enabled and
certified (`Withdrawals` and `Revocations` are FALSE), without which a job may stay
dispatched, as `UpdateWithdrawn` shows.

**Deadlock** is checked in `MCMigration` and `MCUpdatePackage`. In the others it
is not: a system whose jobs are all finished and whose clock has reached
`MaxTime` stops.

### What the violated properties show

* `UpdateWithdrawn`: the poll handler refuses a dispatched job whose release is
  no longer approved. A worker that lost the answer to its start request never
  learns of the job, which stays dispatched for good.
* `DeviceLostAnswer`: the device restores its previous bundle whenever an
  activation fails, also when only the answer was lost. The server has then
  superseded the restored certificate, and the key of the active one is gone.

Some properties name an exception or hold only under an assumption, and each of
these is a hazard of the code. `PendingIsRecovered` and `EveryJobEnds` name a
temporary file that a crash left: `writeExclusive` creates
`update-state.json.tmp` with `O_EXCL`, and nothing removes an old one, so that
every later recovery restores the files, fails at this write and keeps its
marker. `docs/client-updates.md` says that a failed recovery keeps the marker so
that the next run can retry; it does, but to no avail before somebody removes the
file. Meanwhile the files are those of the snapshot, and a job whose result waits
for the recovery stays dispatched.
`MixedIsRecoverable` needs an operator who does not install by hand while a
recovery is pending (`OperatorWaits`): `installStaged` does not look for a
marker. With the worker, the journal is evidence as well, and `MixedHasEvidence`
also holds for an operator who does not wait but installs by hand only once
(`Careful`). `NoDowngrade` is stated without installations by hand: a failed one
overwrites `update-state.json`, from which the version floor is read
(`WorkerOnlyUpgrades` has such installations, and says what is kept). The
version that the worker was built with, a further floor, is taken to be 0: a
package need not contain the worker.

## Proofs

`UpdateStepProofs` first shows, for any sets of jobs, clients and releases, that the
job table keeps its types, `OneOpenJob` and `AuditTrail` (which together are
inductive), that no step reopens a job, and that a permission is given at a clock
reading inside the window, no later than the commit, to a client that is enabled
and for a release that is approved at the commit (`DispatchedInWindow`).

It then shows `InstallSpec => []AloneInv`: the installation transaction of a
client without the worker. That a mixture of releases can be restored
(`MixedIsRecoverable`) depends on where the process that holds the lock is, and
on what its snapshot, its marker and its set of components still to do say.
`AloneInv` states this for every control point (`HolderAt` in `FilesInv`): of the
components being replaced, those that are done are of the new release; of those
being restored, they are as in the snapshot; before the marker goes, all of them
are of one release. `ReportInv` adds that a success stands in
`update-state.json` only with a marker or with its release in place, from which
`ReportedSuccessInstalled` follows whatever the operator does.

`ClientUpdateProofs` shows `Spec => []FullInv`, where `FullInv` is `IInv` of
`ClientUpdate` and the invariant of the job table. The interesting properties
are not inductive: that a job is executed once follows from what the journal,
the table and every request in flight say about it. `IInv` therefore states
where processes may be (`ProcessInv`), that the worker hears only the answer to
its last request (`RequestInv`), what the journal says at each control point
(`JournalInv`), that a marker of a job belongs to the journaled execution
(`MarkerInv`), which releases were kept (`KeptInv`), and how the table, the
journal and the requests agree (`AgreementInv`): for example, a late result
request can still change a dispatched job only if it repeats the journal. The
run `UpdateManual` checks `IInv` on a small instance. From `FullInv` follow
`TypeOK`, `AtMostOnce`, `PermissionFirst`, `ResultTruthful`, `EvidenceKept`,
`ExclusiveMutation` and the refinement `ImplementsLifecycle`, for every number
of jobs, components, releases and faults, and with every switch on. A step of the
composition is a step of the job store or leaves its table alone
(`StoreInComposition`), so that `OneOpenJob`, `AuditTrail`, `DispatchedInWindow`
and the direction of a job's life hold in the composition too
(`JobsAdvanceInComposition`). From the refinement follows that an ended job is
settled on both sides (`EndedIsSettled`): its record stays, and no late request,
crash or recovery executes it, undoes a release recorded as succeeded or puts one
in place that was recorded as failed.

Three more invariants stand on `IInv`. `SuccessInv` says that a success in
`update-state.json` is one of the release in place unless a marker is pending or
the journal has an unfinished execution with a snapshot, in which case the worker
may be restoring it, and what each control point knows of that (`SuccessAt`,
`Decided`). Its consequence `SuccessIsInstalled` states
`ReportedSuccessInstalled` for the composition, where the journal is not
executing. Without this condition TLC finds a violation: a worker that dies after
it recorded the success, and again while it restores what it takes for an
interrupted execution, leaves the success beside components of two releases. `EvidenceInv` follows the installed files
under three processes: `FilesInv` again, where an executing journal takes the
place of a marker that is not yet written or already gone, and that snapshots of
jobs are of one release, while those of an operator need not be. It gives
`MixedHasEvidence`. `FloorInv` says that no component is above the version in
`installed-version.json`, except for the release of a journaled execution
(`Accounted`), that snapshots are not above it either, and what the worker knows
at each control point; `KnownInv` that the worker prepares jobs of the table only,
whose release no longer changes. Together they give `NoDowngrade`.

`BadgeLoginProofs` shows `Spec => []LoginInv` for any number of users, badges,
clients, requests and grants. That a grant opens one session (`OneUse`) is not
inductive: a grant passes from the request to the greeter's file, to the helper
and into a session, and each of them may be abandoned. `LoginInv` therefore says
that a grant is in one of these places only (`PlaceInv`), that requests, grants,
certificates and sessions agree with the audit row of the login (`HandlerInv`,
`GrantInv`, `CertInv`, `OriginInv`), that an unused grant has no certificate
(`FreshInv`), and that the columns of a badge agree (`BadgeInv`): a revoked badge
neither works nor waits, which is why an activation cannot revive it. From it
follow `TypeOK`, `OneUse`, `SessionBacked`, `NoLoginAfterRevocation`,
`ReplacementsExclude` and the action property `RevokedForGood`. A second action
property, `StaysSpent`, says that a grant that left the server's memory
(redeemed, replaced, or lost with a restart) never returns to it and gets no
certificate any more, although the greeter's file or a helper may still present
it.

`MigrationProofs` shows `Spec => []MigrationInv` for any number of grants,
sessions, handlers, users and overlapping runs of the tool. That a grant is
exchanged once (`OneExchange`) is not inductive: its row is copied to the other
database while another import may still commit, and it is looked up in whichever
database is in use. `MigrationInv` therefore says that a snapshot is what SQLite
has as long as anything relies on it (`SnapshotInv`), what the locks of a run
keep from changing until it ends, even when the operator no longer waits for its
commit (`ToolInv`), what holds once import and reconciliation were verified
(`GateInv`), and that logins and revocations are in the rows of the database in
use, with one grant per session (`GrantInv`). From it follow `OneExchange`,
`CutoverComplete`, `NoLockCycle` (a run that waits for its second table waits for
one that has both) and the action property `RevocationHolds`. Two more invariants
stand on it. `UsersDistinct`: identifiers and names of users differ in the database
in use and the next identifier is free, for which `UsersInv` adds the same of
SQLite, to which the server may return; imports that find their tables filled
end before they touch the sequence. `AuditComplete`: the audit
log names exactly the consumed and the revoked grants of the database in use.

`OidcProofs` shows `Spec => []OidcInv` for any number of applications, users,
codes, tokens and requests. A request reads a code in one transaction, asks the
directory, and consumes the code in a later one, so none of the properties is
inductive. `OidcInv` says what a request may still rely on when it commits: the
code is that of its client and redirect URI, was not expired when it was read, and
the user was found in the directory if the request goes on (`RequestInv`); and
that a code with a session or a refusal is closed, which is what the second look
in the transaction tests (`SessionInv`, `RefusedInv`, `OneSession`). An ended
session is no longer valid, or has run out (`EndedInv`): the cleanup of old
rows and the switching of applications do not touch that. From it follow
`OneOutcomePerCode`, `SessionFromCode`, `EndedStaysEnded` and `OneSubjectPerUser`,
and the action property `RowsAdvance`, which is why a request may rely on a row
that an earlier transaction read: no code reopens, no session is revived, and
whose they are never changes.

`SelfServiceProofs` shows `Spec => []SelfServiceInv` for any number of users,
sessions, ceremonies, passkeys and counter values, and any finite number of
requests at a time. It adds to `CeremonyUsedOnce` and `CounterUsedOnce` that the
ceremony of a session or a passkey is used up, that the counter of a session is
not beyond that of its passkey (so the next accepted one is new), and that an open
registration was begun with the password of its user (`RowsInv`); and it counts the
requests whose password is still being checked together with the failures
(`AttemptsInv`), from which the bound `AttemptsBounded` follows by arithmetic on the
size of the set of requests. `PasskeyVouched` follows too, and so does the action
property `RemovalIsFinal`, because only a password and an assertion checked in the
same transaction open a session. `RowsAdvance` says that ceremonies, passkeys,
counters and sessions only go forward.

`DeviceCredentialsProofs` shows `Spec => []DeviceInv` for any number of key pairs,
tokens and faults, and any clock. `OneCredential`, `TokenOnce` and
`LinearHistory` need that a certificate is asked for once (`RequestInv`), and
that a row with a token has used it up and an active row was activated
(`LedgerInv`). That the device has the key of the active certificate (`KeyKept`)
is the hard one: a request for activation may be handled after a crash of the
device or of the server. `KeptInv` says for each step of the command which of
`bundle` and `previous` the server accepts, which certificate may still become
active (`Fallback`), and that a request for activation in flight is for the
certificate in `bundle`, if that is still staged. It holds until the answer to an
activation is lost (`unheard`), through crashes of the device, restarts of the
server before a commit, and lost enrollments and renewals; the run `DeviceLostAnswer` shows what happens then. The
action properties `Retired` (a superseded or revoked certificate never comes back)
and `Succession` (an active one gives way only to a revocation or, in the same
step, to the renewal it asked for) follow from `DeviceInv` as well.

`UpdatePackageProofs` shows `Spec => []PackageInv` for any components, packages,
versions and stage directories: the manifest an updater works with was signed
with the release key, its stage directory is its own and holds only files that
the manifest names with their digest, all of them once staging has ended
(`UpdaterInv`), although the package itself may be replaced meanwhile. From it
follows `InstalledAsSigned`. `AcceptedInv` adds what was verified of architecture
and channel, and gives `Provenance` (every file and version on the client is
the original one or signed for its architecture) and `WorkerInstallsStable`. The
lemmas about versions show that `compareVersions` and `compareSemanticVersions`
agree wherever the numbers of the core fit an int, which gives `SameVerdict`, and
that on plain versions both are the precedence of semver.org, a strict order
(`ComparisonIsAnOrder`), so that no chain of accepted updates leads back.
`WorkerOnlyUpgrades` is not inductive: what holds a worker back may be its own
version, `floor`, `record`, or only the journal of a run that died. `PackageInv`
therefore also says that of everything in `seen` one of these is no earlier
(`FloorInv`), and that a worker holding the update lock has compared with
what is still there (`WorkerInv`). The property is about releases that are plain
and of which no two are written differently for one number (`PlainReleases`, a
premise in its statement): `compareVersions` takes numbers beyond an int for the
largest one and may then find a lower version to be higher.

The assumptions are those named in the modules: releases are positive numbers,
there is a component, versions are such as `validVersion` accepts, the rollback
directories of jobs are not those an operator names, every PAM helper is
configured with the id of some client, grants, certificates and the window for
their activation last a positive time, the bounds on badges, integers and the
clock are natural numbers, however large, PostgreSQL's times are coarser by a
positive factor, the empty `session` column is no session, the requests of
self-service at a time are finitely many, and the word for a missing value is
not a user, a subject, a ceremony, a passkey, a key pair or a token.

Three properties are proved under a hypothesis in addition:
`MixedStaysRecoverable` under `OperatorWaits`, `MixAlwaysHasEvidence` and its
`EvidenceInvariant` under `Careful`, and `WorkerOnlyRaises` and its
`FloorInvariant` under `ManualDirs = {}`. The code does not enforce them, and TLC
finds a violation of each of these properties when its hypothesis is dropped. The runs that check the properties
satisfy the hypotheses.

Only model-checked: liveness (`EveryJobEnds`, `PendingIsRecovered`), which is out
of the prover's reach.

The proof modules name Zenon as the prover of their leaves (`USE ZenonT(100)`);
a leaf with arithmetic or sequences names SMT and then Z3. The default, SMT first,
translates each leaf under a limit of real time, and whether a leaf with large
definitions is proved then depends on the machine. Every proof can be checked with
`tlapm`, one module at a time; `UpdateStepProofs` and `ClientUpdateProofs` take a
quarter of an hour or more each.

## Not modelled

The bytes of archives, signatures and certificates: digests and signatures are
values that are compared. Directory lookups, configuration, metrics, diagnostics
and web pages are I/O or reporting, and the table of permissions per route has
no state.

The automaton of the greeters (scan, PIN, reset): it keeps its state on one
screen, and what it hands over is a grant, which `BadgeLogin` follows from there
on. A late answer may still be shown on a screen that it does not belong to.

The PostgreSQL stores other than that of the emergency grants repeat the SQLite
transactions statement by statement; one model stands for both.

The values of PINs: no document says from when a new PIN counts, and a login that
was checked with the old one just before the change is recorded. The limits on
passkey requests. `acceptance.go`, which compares an installation with its
manifest and changes nothing.
