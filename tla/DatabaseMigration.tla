-------------------------- MODULE DatabaseMigration --------------------------
(***************************************************************************)
(* Moving the store from SQLite to PostgreSQL with identity-db-migrate:    *)
(* the server is stopped, a snapshot is imported and reconciled, and the   *)
(* server is started on the database it was copied to.  Runs of the tool   *)
(* overlap, lose their connection and are repeated; a commit whose answer  *)
(* was lost may still happen.                                              *)
(*                                                                         *)
(* Two of the imported tables are kept: users, whose identifiers the two   *)
(* databases count, and emergency_admin_grants, whose rows the server and  *)
(* identity-admin of EmergencyAdmin read and write on either database.     *)
(* The locks of a run are taken one by one; what it does under all its     *)
(* locks is one step.                                                      *)
(***************************************************************************)
EXTENDS EmergencyAdmin, Sequences, FiniteSetsExt

CONSTANTS
    Names,        \* usernames
    Fold(_),      \* postgresFoldUsername
    Runs,         \* runs of identity-db-migrate that overlap
    MaximumRows,  \* --max-rows
    MaxUsers      \* bound on the users created in one database

VARIABLES
    users,     \* users[b]: rows of the table, [id, username]
    sequence,  \* sequence[b]: the last identifier given out
    snapshot,  \* the file that the operator copied
    verified,  \* actions that reported "verified" for this snapshot and target
    tool       \* tool[p]: a run of identity-db-migrate

migrationVars == <<users, sequence, snapshot, verified, tool>>

vars == <<emergencyVars, migrationVars>>

importTables == <<"users", "emergency_admin_grants">>

NoSnapshot == [users |-> {}]

NoGrants == [g \in Grants |-> NoRow]

NoData == [users |-> {}, grants |-> NoGrants]

(* rows: what an import has inserted and not yet committed.                *)
Idle == [action |-> "none", pc |-> "idle", at |-> 0, rows |-> NoData]

Data(b) == [users |-> users[b], grants |-> grants[b]]

Live(p) == tool[p].pc \in {"lock", "work", "commit"}

(* Faulty variant: a reconciliation starts with the last table.            *)
LockBackwards(action) ==
    IF action = "reconcile" THEN <<"emergency_admin_grants", "users">> ELSE importTables

LockOrder(action) == importTables

Locked(p) == {LockOrder(tool[p].action)[i] : i \in 1 .. tool[p].at}

(* ACCESS EXCLUSIVE of an import against SHARE of a reconciliation.        *)
Blocked(p, table) ==
    \E q \in Runs \ {p} :
        table \in Locked(q) /\ "import" \in {tool[p].action, tool[q].action}

-----------------------------------------------------------------------------
(* The store *)

(* An identifier that PostgreSQL gives twice would be refused by the key.  *)
CreateUserWithAudit(name) ==
    LET id == sequence[backend] + 1 IN
    /\ running /\ id <= MaxUsers
    /\ \A u \in users[backend] : u.username # name /\ u.id # id
    /\ users' = [users EXCEPT ![backend] = @ \cup {[id |-> id, username |-> name]}]
    /\ sequence' = [sequence EXCEPT ![backend] = id]
    /\ UNCHANGED <<emergencyVars, snapshot, verified, tool>>

(* A user is removed by hand; sqlite_sequence remembers the identifier.    *)
RemoveUser(u) ==
    /\ running /\ backend = "sqlite"
    /\ users' = [users EXCEPT !["sqlite"] = @ \ {u}]
    /\ UNCHANGED <<emergencyVars, sequence, snapshot, verified, tool>>

-----------------------------------------------------------------------------
(* The operator, after docs/postgresql-migration.md *)

Quiet == \A p \in Runs : ~Live(p)

StopServer ==
    /\ running /\ running' = FALSE
    /\ request' = [h \in Handlers |-> NoRequest]
    /\ UNCHANGED <<backend, configured, enabled, grants, cookies, audit, now, migrationVars>>

TakeSnapshot ==
    /\ ~running /\ backend = "sqlite" /\ Quiet
    /\ snapshot' = [users |-> users["sqlite"], grants |-> grants["sqlite"],
                    watermark |-> sequence["sqlite"]]
    /\ verified' = {}
    /\ UNCHANGED <<emergencyVars, users, sequence, tool>>

(* An empty database with the schema replaces the target.  What the old    *)
(* one still does is of no interest any more.                              *)
MigratePostgres ==
    /\ backend = "sqlite" /\ Quiet
    /\ users' = [users EXCEPT !["postgres"] = {}]
    /\ grants' = [grants EXCEPT !["postgres"] = NoGrants]
    /\ sequence' = [sequence EXCEPT !["postgres"] = 0]
    /\ tool' = [p \in Runs |-> Idle] /\ verified' = {}
    /\ UNCHANGED <<running, backend, configured, enabled, cookies, request, audit, now, snapshot>>

(* The move is given up or has not begun.                                  *)
StartOnSQLite ==
    /\ ~running /\ backend = "sqlite" /\ Quiet
    /\ running' = TRUE /\ enabled' = configured
    /\ snapshot' = NoSnapshot /\ verified' = {}
    /\ UNCHANGED <<backend, configured, grants, cookies, request, audit, now,
                   users, sequence, tool>>

(* All gates are passed, or the server is on PostgreSQL already.           *)
StartOnPostgres ==
    /\ ~running /\ Quiet
    /\ backend = "postgres" \/ verified = {"import", "reconcile"}
    /\ backend' = "postgres" /\ running' = TRUE /\ enabled' = configured
    /\ UNCHANGED <<configured, grants, cookies, request, audit, now, migrationVars>>

importRow(row) ==
    IF row = NoRow THEN NoRow
    ELSE [row EXCEPT !.expires = Stored("postgres", @)]

Normalised == [users |-> snapshot.users,
               grants |-> [g \in Grants |-> importRow(snapshot.grants[g])]]

(* Only the configuration is changed back, and only as long as PostgreSQL  *)
(* accepted no write.                                                      *)
RollBackToSQLite ==
    /\ ~running /\ backend = "postgres"
    /\ Data("postgres") = Normalised /\ sequence["postgres"] = snapshot.watermark
    /\ backend' = "sqlite"
    /\ UNCHANGED <<running, configured, enabled, grants, cookies, request, audit, now,
                   migrationVars>>

-----------------------------------------------------------------------------
(* identity-db-migrate *)

Begin(p, action) ==
    /\ ~running /\ backend = "sqlite" /\ snapshot # NoSnapshot /\ tool[p] = Idle
    /\ tool' = [tool EXCEPT ![p] = [action |-> action, pc |-> "lock", at |-> 0, rows |-> NoData]]
    /\ UNCHANGED <<emergencyVars, users, sequence, snapshot, verified>>

(* The transaction of the run goes on.                                     *)
GoTo(p, pc, at, rows) ==
    tool' = [tool EXCEPT ![p] = [action |-> @.action, pc |-> pc, at |-> at, rows |-> rows]]

(* The run ends, with its transaction.                                     *)
End(p) == tool' = [tool EXCEPT ![p] = Idle]

NextTable(p) == LockOrder(tool[p].action)[tool[p].at + 1]

LockTable(p) ==
    /\ ~Blocked(p, NextTable(p))
    /\ LET at == tool[p].at + 1
       IN  GoTo(p, IF at = Len(importTables) THEN "work" ELSE "lock", at, NoData)

Empty(table) ==
    IF table = "users" THEN users["postgres"] = {} ELSE grants["postgres"] = NoGrants

ImportLock(p) ==
    /\ tool[p].action = "import" /\ tool[p].pc = "lock" /\ ~Blocked(p, NextTable(p))
    /\ IF Empty(NextTable(p)) THEN LockTable(p) ELSE End(p)
    /\ UNCHANGED <<emergencyVars, users, sequence, snapshot, verified>>

WithinLimits ==
    Cardinality(snapshot.users) + Cardinality({g \in Grants : snapshot.grants[g] # NoRow})
        <= MaximumRows

Ambiguous == \E u, v \in snapshot.users : u # v /\ Fold(u.username) = Fold(v.username)

(* Faulty variant: the identifiers of removed users are forgotten.         *)
setvalOfRows == Max({0} \cup {u.id : u \in snapshot.users})

setval == Max({0, snapshot.watermark} \cup {u.id : u \in snapshot.users})

(* The sequence is set although the transaction may still be rolled back.  *)
ImportSQLite(p) ==
    /\ tool[p].action = "import" /\ tool[p].pc = "work"
    /\ IF WithinLimits /\ ~Ambiguous
         THEN /\ sequence' = [sequence EXCEPT !["postgres"] = setval]
              /\ GoTo(p, "commit", tool[p].at, Normalised)
         ELSE End(p) /\ UNCHANGED sequence
    /\ UNCHANGED <<emergencyVars, users, snapshot, verified>>

CommitRows(p) ==
    LET rows == tool[p].rows IN
    /\ users' = [users EXCEPT !["postgres"] = @ \cup rows.users]
    /\ grants' = [grants EXCEPT !["postgres"] =
           [g \in Grants |-> IF rows.grants[g] = NoRow THEN @[g] ELSE rows.grants[g]]]

(* The commit is answered.                                                 *)
ImportVerified(p) ==
    /\ tool[p].pc = "commit"
    /\ CommitRows(p) /\ End(p) /\ verified' = verified \cup {"import"}
    /\ UNCHANGED <<running, backend, configured, enabled, cookies, request, audit, now,
                   sequence, snapshot>>

ReconcileLock(p) ==
    /\ tool[p].action = "reconcile" /\ tool[p].pc = "lock" /\ LockTable(p)
    /\ UNCHANGED <<emergencyVars, users, sequence, snapshot, verified>>

ReconcileSQLite(p) ==
    /\ tool[p].action = "reconcile" /\ tool[p].pc = "work" /\ End(p)
    /\ verified' = IF WithinLimits /\ Data("postgres") = Normalised
                     THEN verified \cup {"reconcile"} ELSE verified
    /\ UNCHANGED <<emergencyVars, users, sequence, snapshot>>

(* The time limit, or a lost connection.  The run reports a failure.  An   *)
(* import that was about to commit leaves its transaction to the database. *)
GiveUp(p) ==
    /\ Live(p)
    /\ IF tool[p].pc = "commit" THEN GoTo(p, "orphan", tool[p].at, tool[p].rows) ELSE End(p)
    /\ UNCHANGED <<emergencyVars, users, sequence, snapshot, verified>>

(* PostgreSQL commits what it had received, or notices that nobody asks.   *)
OrphanEnds(p) ==
    /\ tool[p].pc = "orphan" /\ End(p)
    /\ CommitRows(p) \/ UNCHANGED <<users, grants>>
    /\ UNCHANGED <<running, backend, configured, enabled, cookies, request, audit, now,
                   sequence, snapshot, verified>>

-----------------------------------------------------------------------------
Init ==
    /\ EmergencyInit
    /\ users = [b \in Backends |-> {}] /\ sequence = [b \in Backends |-> 0]
    /\ snapshot = NoSnapshot /\ verified = {} /\ tool = [p \in Runs |-> Idle]

(* Queries of the server wait for the locks of a run.                      *)
Application ==
    /\ backend = "postgres" => \A p \in Runs : tool[p] = Idle
    /\ \/ EmergencyNext /\ UNCHANGED migrationVars
       \/ \E name \in Names : CreateUserWithAudit(name)
       \/ \E u \in users["sqlite"] : RemoveUser(u)

Operator ==
    \/ StopServer \/ TakeSnapshot \/ MigratePostgres
    \/ StartOnSQLite \/ StartOnPostgres \/ RollBackToSQLite
    \/ \E p \in Runs, action \in {"import", "reconcile"} : Begin(p, action)

ToolStep(p) ==
    \/ ImportLock(p) \/ ImportSQLite(p) \/ ImportVerified(p)
    \/ ReconcileLock(p) \/ ReconcileSQLite(p) \/ OrphanEnds(p)

Next == Application \/ Operator \/ \E p \in Runs : ToolStep(p) \/ GiveUp(p)

Spec == Init /\ [][Next]_vars

-----------------------------------------------------------------------------
(* A server on PostgreSQL has all that SQLite had when it was left: every  *)
(* user under their identifier, no identifier that SQLite gave to somebody *)
(* else, and no grant that can be exchanged again or is valid again.       *)
CutoverComplete ==
    backend = "postgres" =>
        /\ users["sqlite"] \subseteq users["postgres"]
        /\ \A u \in users["postgres"] \ users["sqlite"] : u.id > sequence["sqlite"]
        /\ \A g \in Grants : LET old == grants["sqlite"][g]
                               new == grants["postgres"][g]
                           IN  old # NoRow =>
                                   /\ new # NoRow /\ new.expires <= old.expires
                                   /\ old.session \in {NoSession, new.session}
                                   /\ old.revoked => new.revoked

Waiting(p) == tool[p].pc = "lock" /\ Blocked(p, NextTable(p))

(* Overlapping runs of identity-db-migrate never wait for each other in a  *)
(* circle until a time limit ends one of them: the locks are taken in the  *)
(* same order by an import and by a reconciliation.                        *)
NoLockCycle ==
    (\E p \in Runs : Live(p)) => \E p \in Runs : tool[p] # Idle /\ ~Waiting(p)
=============================================================================
