--------------------------- MODULE MigrationProofs ---------------------------
(***************************************************************************)
(* The properties of DatabaseMigration for any number of grants, sessions, *)
(* users and overlapping runs of identity-db-migrate.                      *)
(*                                                                         *)
(* That a grant is exchanged once is not inductive: it moves with the      *)
(* store from one database to the other and back.  MigrationInv says that  *)
(* a snapshot is what SQLite has as long as it is used (SnapshotInv), what *)
(* the locks of a run keep from changing (ToolInv), what the two gates in  *)
(* front of the cutover guarantee (GateInv), and that the audited logins   *)
(* and revocations are in the rows of the database in use (GrantInv).      *)
(***************************************************************************)
EXTENDS DatabaseMigration, TLAPS

(* Leaves are proved by Zenon, unless they name their provers: SMT, and    *)
(* then Z3, where arithmetic or sequences matter; PTL for temporal steps.  *)
USE ZenonT(100)

User == [id : Nat, username : Names]

GrantRows == [Grants -> GrantRow \cup {NoRow}]

TypeInv ==
    /\ running \in BOOLEAN /\ backend \in Backends /\ now \in Nat
    /\ grants \in [Backends -> GrantRows]
    /\ cookies \subseteq Cookie
    /\ request \in [Handlers -> Cookie \cup {NoRequest}]
    /\ audit \in [logins : [Grants -> Nat], revoked : SUBSET Grants]
    /\ users \in [Backends -> SUBSET User] /\ sequence \in [Backends -> Nat]
    /\ verified \subseteq {"import", "reconcile"}
    /\ tool \in [Runs -> [action : {"none", "import", "reconcile"},
                          pc : {"idle", "lock", "work", "commit", "orphan"},
                          at : 0 .. 2, rows : [users : SUBSET User, grants : GrantRows]]]

(* The snapshot is what SQLite has, and identifiers are not beyond its     *)
(* sequence.                                                               *)
SnapshotInv ==
    /\ snapshot # NoSnapshot => snapshot = [users |-> users["sqlite"], grants |-> grants["sqlite"],
                                            watermark |-> sequence["sqlite"]]
    /\ snapshot = NoSnapshot => verified = {} /\ Quiet
    /\ \A u \in users["sqlite"] : u.id <= sequence["sqlite"]
    /\ running /\ backend = "sqlite" => snapshot = NoSnapshot
    /\ running \/ backend = "postgres" => Quiet
    /\ ~running => request = [h \in Handlers |-> NoRequest]

(* Where a run may be, and what its locks keep from changing.              *)
RunInv(p) ==
    LET t == tool[p] IN
    /\ (t = Idle) <=> (t.pc = "idle")
    /\ t.pc # "idle" => t.action # "none"
    /\ t.pc = "lock" => t.at \in {0, 1}
    /\ t.pc \in {"work", "commit", "orphan"} => t.at = 2
    /\ t.pc \in {"commit", "orphan"} => t.action = "import"
    /\ t.action = "import" /\ t.at # 0 => users["postgres"] = {}
    /\ t.action = "import" /\ t.at = 2 => grants["postgres"] = NoGrants
    /\ t.action = "import" /\ t.at # 0 => \A q \in Runs \ {p} : tool[q].at = 0
    /\ t.pc = "commit" => t.rows = Normalised /\ sequence["postgres"] = snapshot.watermark
    /\ t.pc = "orphan" /\ verified # {} => t.rows = Normalised

ToolInv == \A p \in Runs : RunInv(p)

(* What a server may rely on that is started on PostgreSQL.                *)
GateInv ==
    IF backend = "sqlite"
      THEN /\ "reconcile" \in verified => Data("postgres") = Normalised
           /\ "import" \in verified => sequence["postgres"] = snapshot.watermark
      ELSE /\ verified = {"import", "reconcile"}
           /\ sequence["sqlite"] <= sequence["postgres"]

(* Logins and revocations are in the rows of the database in use, and a    *)
(* session is that of one grant.                                           *)
GrantInv ==
    /\ \A g \in Grants :
          /\ audit.logins[g] # 0 =>
                 audit.logins[g] = 1 /\ Row(g) # NoRow /\ Row(g).session # NoSession
          /\ g \in audit.revoked => Row(g) # NoRow /\ Row(g).revoked
    /\ \A s \in Sessions : \A g, h \in GrantsOf(s) : g = h

MigrationInv ==
    TypeInv /\ SnapshotInv /\ ToolInv /\ GateInv /\ GrantInv /\ CutoverComplete

-----------------------------------------------------------------------------
(* Rows and times *)

(* A row of the table is not the absence of one.                           *)
LEMMA RowIsSome == \A row \in GrantRow : row # NoRow
  BY SMT, Z3 DEF GrantRow, NoRow

(* What PostgreSQL keeps of a time is not after it.                        *)
LEMMA StoredBounds == \A b \in Backends, t \in Nat : Stored(b, t) \in Nat /\ Stored(b, t) <= t
  BY SMT, Z3, EmergencyBounds DEF Stored, Floor

(* The import changes only the time of a row.                              *)
LEMMA ImportedRow ==
    ASSUME NEW row \in GrantRow \cup {NoRow}
    PROVE  /\ importRow(row) \in GrantRow \cup {NoRow}
           /\ (importRow(row) = NoRow) <=> (row = NoRow)
           /\ row # NoRow => /\ importRow(row).expires <= row.expires
                             /\ importRow(row).session = row.session
                             /\ importRow(row).revoked = row.revoked
<1>1. CASE row = NoRow
  BY <1>1 DEF importRow
<1>2. CASE row \in GrantRow
  <2>1. "postgres" \in Backends /\ row.expires \in Nat
    BY <1>2 DEF Backends, GrantRow
  <2>2. importRow(row) = [row EXCEPT !.expires = Stored("postgres", row.expires)]
    BY <1>2, RowIsSome DEF importRow
  <2>3. Stored("postgres", row.expires) \in Nat /\ Stored("postgres", row.expires) <= row.expires
    BY <2>1, StoredBounds
  <2> HIDE DEF importRow
  <2>4. importRow(row) \in GrantRow
    BY <1>2, <2>2, <2>3 DEF GrantRow
  <2>5. /\ importRow(row).expires = Stored("postgres", row.expires)
        /\ importRow(row).session = row.session
        /\ importRow(row).revoked = row.revoked
    BY <1>2, <2>2 DEF GrantRow
  <2> QED
    BY <1>2, <2>3, <2>4, <2>5, RowIsSome
<1> QED
  BY <1>1, <1>2

(* The snapshot, as long as there is one.                                  *)
LEMMA SnapshotIs ==
    ASSUME TypeInv, SnapshotInv, snapshot # NoSnapshot
    PROVE  /\ snapshot.users = users["sqlite"] /\ snapshot.grants = grants["sqlite"]
           /\ snapshot.watermark = sequence["sqlite"]
           /\ Normalised \in [users : SUBSET User, grants : GrantRows]
           /\ Normalised.users = users["sqlite"]
           /\ \A g \in Grants : Normalised.grants[g] = importRow(grants["sqlite"][g])
           /\ setval = snapshot.watermark
<1>1. /\ snapshot.users = users["sqlite"] /\ snapshot.grants = grants["sqlite"]
      /\ snapshot.watermark = sequence["sqlite"]
  BY SMT, Z3 DEF SnapshotInv
<1>2. /\ users["sqlite"] \in SUBSET User /\ grants["sqlite"] \in GrantRows
      /\ sequence["sqlite"] \in Nat
  BY DEF TypeInv, Backends
<1>3. /\ Normalised.users = users["sqlite"]
      /\ Normalised.grants = [g \in Grants |-> importRow(grants["sqlite"][g])]
  BY <1>1 DEF Normalised
<1>4. \A g \in Grants : importRow(grants["sqlite"][g]) \in GrantRow \cup {NoRow}
  BY <1>2, ImportedRow DEF GrantRows
<1>5. Normalised \in [users : SUBSET User, grants : GrantRows]
  BY <1>1, <1>2, <1>4 DEF Normalised, GrantRows
<1>6. setval = snapshot.watermark
  <2> DEFINE ids == {0, sequence["sqlite"]} \cup {u.id : u \in users["sqlite"]}
  <2>1. sequence["sqlite"] \in ids /\ \A n \in ids : n \in Nat /\ n <= sequence["sqlite"]
    BY SMT, Z3, <1>2 DEF SnapshotInv, User
  <2>2. setval = Max(ids)
    BY <1>1 DEF setval
  <2> HIDE DEF ids
  <2>3. Max(ids) = sequence["sqlite"]
    BY SMT, Z3, <1>2, <2>1 DEF Max
  <2> QED
    BY <1>1, <2>2, <2>3
<1> QED
  BY <1>1, <1>3, <1>4, <1>5, <1>6

-----------------------------------------------------------------------------
(* The server *)

(* A row is only used or revoked, and keeps its time.                      *)
RowGrows(old, new) ==
    old # NoRow => /\ new # NoRow /\ new.expires = old.expires
                   /\ old.session \in {NoSession, new.session}
                   /\ old.revoked => new.revoked

(* The rows of the database in use stay.                                   *)
LEMMA GrantsStay ==
    ASSUME GrantInv, audit' = audit, \A g \in Grants : Row(g)' = Row(g)
    PROVE  GrantInv'
<1>1. \A s \in Sessions : GrantsOf(s)' = GrantsOf(s)
  BY DEF GrantsOf
<1> QED
  BY <1>1 DEF GrantInv

(* A step of the server or of identity-admin on the database in use: the   *)
(* other database stays, and so does what the migration relies on.         *)
LEMMA ServerKeeps ==
    ASSUME MigrationInv, TypeInv', running,
           UNCHANGED <<running, backend, migrationVars>>,
           backend = "postgres" => \A p \in Runs : tool[p] = Idle,
           \A b \in Backends \ {backend} : grants'[b] = grants[b],
           \A g \in Grants : RowGrows(Row(g), Row(g)')
    PROVE  SnapshotInv' /\ ToolInv' /\ GateInv' /\ CutoverComplete'
<1>1. /\ backend \in Backends /\ Backends = {"sqlite", "postgres"}
      /\ UNCHANGED <<users, sequence, snapshot, verified, tool>>
  BY DEF MigrationInv, TypeInv, migrationVars, Backends
<1>2. Normalised' = Normalised /\ (Quiet' <=> Quiet)
  BY <1>1 DEF Normalised, Quiet, Live
<1>3. CASE backend = "sqlite"
  <2>1. snapshot = NoSnapshot /\ verified = {} /\ grants'["postgres"] = grants["postgres"]
    BY <1>1, <1>3 DEF MigrationInv, SnapshotInv
  <2>2. SnapshotInv'
    BY <1>1, <1>2, <1>3, <2>1 DEF MigrationInv, SnapshotInv
  <2>3. ToolInv'
    BY <1>1, <1>2, <2>1 DEF MigrationInv, ToolInv, RunInv
  <2>4. GateInv'
    BY <1>1, <1>3, <2>1 DEF MigrationInv, GateInv
  <2>5. CutoverComplete'
    BY <1>1, <1>3 DEF CutoverComplete
  <2> QED
    BY <2>2, <2>3, <2>4, <2>5
<1>4. CASE backend = "postgres"
  <2>1. grants'["sqlite"] = grants["sqlite"]
    BY <1>1, <1>4
  <2>2. SnapshotInv'
    BY <1>1, <1>2, <1>4, <2>1 DEF MigrationInv, SnapshotInv
  <2>3. ToolInv'
    BY SMT, Z3, <1>1, <1>4 DEF ToolInv, RunInv, Idle
  <2>4. GateInv'
    BY <1>1, <1>4 DEF MigrationInv, GateInv
  <2>5. CutoverComplete'
    <3>1. \A g \in Grants : RowGrows(grants["postgres"][g], grants'["postgres"][g])
      BY <1>1, <1>4 DEF Row
    <3>2. \A g \in Grants : grants["sqlite"][g] # NoRow =>
              /\ grants["postgres"][g] # NoRow
              /\ grants["postgres"][g].expires <= grants["sqlite"][g].expires
              /\ grants["sqlite"][g].session \in {NoSession, grants["postgres"][g].session}
              /\ grants["sqlite"][g].revoked => grants["postgres"][g].revoked
      BY <1>4 DEF MigrationInv, CutoverComplete
    <3> QED
      BY SMT, Z3, <1>1, <1>4, <2>1, <3>1, <3>2 DEF MigrationInv, CutoverComplete, RowGrows
  <2> QED
    BY <2>2, <2>3, <2>4, <2>5
<1> QED
  BY <1>1, <1>3, <1>4

(* A revocation.                                                           *)
LEMMA RevocationKeeps ==
    ASSUME MigrationInv, NEW g \in Grants, revokeEmergencyAdminWithAudit(g), UNCHANGED backend
    PROVE  /\ grants' \in [Backends -> GrantRows]
           /\ audit' \in [logins : [Grants -> Nat], revoked : SUBSET Grants]
           /\ \A b \in Backends \ {backend} : grants'[b] = grants[b]
           /\ \A h \in Grants : RowGrows(Row(h), Row(h)')
           /\ GrantInv'
<1> DEFINE row == grants[backend][g]
<1>1. /\ backend \in Backends /\ grants \in [Backends -> GrantRows]
      /\ audit \in [logins : [Grants -> Nat], revoked : SUBSET Grants]
  BY DEF MigrationInv, TypeInv
<1>2. row \in GrantRow
  BY <1>1 DEF revokeEmergencyAdminWithAudit, Revocable, Row, GrantRows
<1>3. /\ grants' \in [Backends -> GrantRows]
      /\ \A b \in Backends \ {backend} : grants'[b] = grants[b]
      /\ \A h \in Grants \ {g} : grants'[backend][h] = grants[backend][h]
  BY <1>1, <1>2 DEF revokeEmergencyAdminWithAudit, GrantRows, GrantRow
<1>4. /\ grants'[backend][g] \in GrantRow /\ grants'[backend][g].revoked = TRUE
      /\ grants'[backend][g].session = row.session /\ grants'[backend][g].expires = row.expires
  BY <1>1, <1>2 DEF revokeEmergencyAdminWithAudit, GrantRows, GrantRow
<1>5. /\ audit' \in [logins : [Grants -> Nat], revoked : SUBSET Grants]
      /\ audit'.logins = audit.logins /\ audit'.revoked = audit.revoked \cup {g}
  BY <1>1 DEF revokeEmergencyAdminWithAudit
<1> HIDE DEF row
<1>6. grants'[backend][g] # NoRow /\ row # NoRow
  BY <1>2, <1>4, RowIsSome
<1>7. \A h \in Grants : RowGrows(Row(h), Row(h)')
  BY <1>3, <1>4, <1>6 DEF RowGrows, Row, row
<1>8. \A h \in Grants : (Row(h)' = NoRow <=> Row(h) = NoRow) /\ Row(h)'.session = Row(h).session
  BY <1>3, <1>4, <1>6 DEF Row, row
<1>9. GrantInv'
  <2>1. \A s \in Sessions : GrantsOf(s)' = GrantsOf(s)
    BY <1>8 DEF GrantsOf
  <2>2. \A h \in Grants : audit'.logins[h] # 0 =>
            audit'.logins[h] = 1 /\ Row(h)' # NoRow /\ Row(h)'.session # NoSession
    BY <1>5, <1>8 DEF MigrationInv, GrantInv
  <2>3. \A h \in Grants : h \in audit'.revoked => Row(h)' # NoRow /\ Row(h)'.revoked
    BY <1>3, <1>4, <1>5, <1>6 DEF MigrationInv, GrantInv, Row
  <2> QED
    BY <2>1, <2>2, <2>3 DEF MigrationInv, GrantInv
<1> QED
  BY <1>3, <1>5, <1>7, <1>9

(* A step that leaves both databases and the tool alone.                   *)
LEMMA RowsStay ==
    ASSUME MigrationInv, TypeInv', UNCHANGED <<running, backend, grants, audit, migrationVars>>,
           ~running => request' = request
    PROVE  MigrationInv'
<1>1. UNCHANGED <<users, sequence, snapshot, verified, tool>>
  BY DEF migrationVars
<1>2. Normalised' = Normalised /\ (Quiet' <=> Quiet) /\ (Data("postgres"))' = Data("postgres")
  BY <1>1 DEF Normalised, Quiet, Live, Data
<1>3. SnapshotInv'
  BY <1>1, <1>2 DEF MigrationInv, SnapshotInv
<1>4. ToolInv'
  BY <1>1, <1>2 DEF MigrationInv, ToolInv, RunInv
<1>5. GateInv'
  BY <1>1, <1>2 DEF MigrationInv, GateInv
<1>6. GrantInv'
  BY GrantsStay DEF MigrationInv, Row
<1>7. CutoverComplete'
  BY <1>1 DEF MigrationInv, CutoverComplete
<1> QED
  BY <1>3, <1>4, <1>5, <1>6, <1>7 DEF MigrationInv

(* A new grant.                                                            *)
LEMMA CreateKeeps ==
    ASSUME MigrationInv, NEW g \in Grants, NEW lifetime \in Lifetimes,
           CreateEmergencyAdminGrantWithAudit(g, lifetime), UNCHANGED migrationVars,
           backend = "postgres" => \A p \in Runs : tool[p] = Idle
    PROVE  MigrationInv'
<1> DEFINE row == [expires |-> Stored(backend, now + lifetime), session |-> NoSession,
                   revoked |-> FALSE]
<1>1. /\ backend \in Backends /\ grants \in [Backends -> GrantRows] /\ now + lifetime \in Nat
  BY SMT, Z3, EmergencyBounds DEF MigrationInv, TypeInv
<1>2. /\ running /\ grants[backend][g] = NoRow /\ grants' = [grants EXCEPT ![backend][g] = row]
      /\ UNCHANGED <<running, backend, cookies, request, audit, now>>
  BY <1>1 DEF CreateEmergencyAdminGrantWithAudit
<1>3. row \in GrantRow /\ row.session = NoSession
  BY <1>1, StoredBounds DEF GrantRow
<1> HIDE DEF row
<1>4. /\ grants' \in [Backends -> GrantRows]
      /\ \A b \in Backends \ {backend} : grants'[b] = grants[b]
      /\ grants'[backend][g] = row
      /\ \A h \in Grants \ {g} : grants'[backend][h] = grants[backend][h]
  BY <1>1, <1>2, <1>3 DEF GrantRows
<1>5. TypeInv'
  BY <1>2, <1>4 DEF MigrationInv, TypeInv, migrationVars
<1>6. \A h \in Grants : RowGrows(Row(h), Row(h)')
  <2>1. \A h \in Grants : h # g => Row(h)' = Row(h)
    BY <1>2, <1>4 DEF Row
  <2>2. Row(g) = NoRow
    BY <1>2 DEF Row
  <2> QED
    BY <2>1, <2>2 DEF RowGrows
<1>7. GrantInv'
  <2>1. \A h \in Grants : h # g => Row(h)' = Row(h)
    BY <1>2, <1>4 DEF Row
  <2>2. Row(g) = NoRow /\ Row(g)' = row
    BY <1>2, <1>4 DEF Row
  <2>3. \A s \in Sessions : GrantsOf(s)' \subseteq GrantsOf(s)
    BY <1>3, <2>1, <2>2, EmergencyBounds DEF GrantsOf, NoSession
  <2> QED
    BY SMT, Z3, <1>2, <2>1, <2>2, <2>3 DEF MigrationInv, GrantInv
<1> QED
  BY <1>2, <1>4, <1>5, <1>6, <1>7, ServerKeeps DEF MigrationInv

(* A grant is exchanged for a session.                                     *)
LEMMA LoginKeeps ==
    ASSUME MigrationInv, NEW g \in Grants, NEW s \in Sessions, NEW heard \in BOOLEAN,
           emergencyLogin(g, s, heard), UNCHANGED migrationVars,
           backend = "postgres" => \A p \in Runs : tool[p] = Idle
    PROVE  MigrationInv'
<1> DEFINE row == grants[backend][g]
<1>1. /\ backend \in Backends /\ grants \in [Backends -> GrantRows]
      /\ audit \in [logins : [Grants -> Nat], revoked : SUBSET Grants]
  BY DEF MigrationInv, TypeInv
<1>2. /\ running /\ row \in GrantRow /\ row.session = NoSession
      /\ grants' = [grants EXCEPT ![backend][g].session = s]
      /\ audit' = [audit EXCEPT !.logins[g] = @ + 1]
      /\ UNCHANGED <<running, backend, request, now>>
  BY <1>1
  DEF emergencyLogin, ConsumeEmergencyAdminGrantWithAudit, Consumable, Active, Row, GrantRows
<1>3. /\ grants' \in [Backends -> GrantRows]
      /\ \A b \in Backends \ {backend} : grants'[b] = grants[b]
      /\ \A h \in Grants \ {g} : grants'[backend][h] = grants[backend][h]
  BY <1>1, <1>2 DEF GrantRows, GrantRow
<1>4. /\ grants'[backend][g] \in GrantRow /\ grants'[backend][g].session = s
      /\ grants'[backend][g].revoked = row.revoked /\ grants'[backend][g].expires = row.expires
  BY <1>1, <1>2 DEF GrantRows, GrantRow
<1>5. /\ audit' \in [logins : [Grants -> Nat], revoked : SUBSET Grants]
      /\ audit'.logins[g] = audit.logins[g] + 1 /\ audit'.revoked = audit.revoked
      /\ \A h \in Grants \ {g} : audit'.logins[h] = audit.logins[h]
  BY SMT, Z3, <1>1, <1>2
<1>6. cookies' \subseteq Cookie
  <2>1. row.expires \in Nat /\ row.expires \div Second \in Nat
    BY SMT, Z3, <1>2, EmergencyBounds DEF GrantRow
  <2> QED
    BY SMT, Z3, <2>1 DEF emergencyLogin, MigrationInv, TypeInv, Cookie, Row
<1> HIDE DEF row
<1>7. grants'[backend][g] # NoRow /\ row # NoRow /\ s # NoSession
  BY <1>2, <1>4, RowIsSome, EmergencyBounds DEF NoSession
<1>8. TypeInv'
  BY <1>2, <1>3, <1>5, <1>6 DEF MigrationInv, TypeInv, migrationVars
<1>9. \A h \in Grants : RowGrows(Row(h), Row(h)')
  BY <1>2, <1>3, <1>4, <1>7 DEF RowGrows, Row, row
<1>10. GrantInv'
  <2>1. \A h \in Grants : h # g => Row(h)' = Row(h)
    BY <1>2, <1>3 DEF Row
  <2>2. Row(g) = row /\ Row(g)' = grants'[backend][g]
    BY <1>2 DEF Row, row
  <2>3. audit.logins[g] = 0
    BY <1>2, <2>2 DEF MigrationInv, GrantInv
  <2>4. \A h \in Grants : Row(h) # NoRow => Row(h).session # s
    BY <1>1 DEF emergencyLogin, Unused, Row
  <2>5. GrantsOf(s)' \subseteq {g}
    BY <2>1, <2>4 DEF GrantsOf
  <2>6. \A t \in Sessions \ {s} : GrantsOf(t)' \subseteq GrantsOf(t)
    BY <1>4, <2>1, <2>2 DEF GrantsOf
  <2>7. \A h \in Grants : audit'.logins[h] # 0 =>
            audit'.logins[h] = 1 /\ Row(h)' # NoRow /\ Row(h)'.session # NoSession
    BY SMT, Z3, <1>4, <1>5, <1>7, <2>1, <2>2, <2>3 DEF MigrationInv, GrantInv
  <2>8. \A h \in Grants : h \in audit'.revoked => Row(h)' # NoRow /\ Row(h)'.revoked
    BY <1>4, <1>5, <1>7, <2>1, <2>2 DEF MigrationInv, GrantInv
  <2> QED
    BY SMT, Z3, <2>5, <2>6, <2>7, <2>8 DEF MigrationInv, GrantInv
<1> QED
  BY <1>2, <1>3, <1>8, <1>9, <1>10, ServerKeeps DEF MigrationInv

(* Every step of the server and of identity-admin.                         *)
LEMMA EmergencyKeeps ==
    ASSUME MigrationInv, EmergencyNext, UNCHANGED migrationVars,
           backend = "postgres" => \A p \in Runs : tool[p] = Idle
    PROVE  MigrationInv'
<1>1. ASSUME NEW g \in Grants, RevokeEmergencyAdminGrantWithAudit(g)
      PROVE  MigrationInv'
  <2>1. /\ running /\ revokeEmergencyAdminWithAudit(g)
        /\ UNCHANGED <<running, backend, cookies, request, now>>
    BY <1>1 DEF RevokeEmergencyAdminGrantWithAudit
  <2>2. TypeInv'
    BY <2>1, RevocationKeeps DEF MigrationInv, TypeInv, migrationVars
  <2> QED
    BY <2>1, <2>2, RevocationKeeps, ServerKeeps DEF MigrationInv
<1>2. ASSUME NEW c \in cookies, NEW h \in Handlers, adminGuard(h, c)
      PROVE  MigrationInv'
  <2>1. running /\ UNCHANGED <<running, backend, grants, audit, now, cookies>>
    BY <1>2 DEF adminGuard
  <2>2. TypeInv'
    BY <1>2, <2>1 DEF adminGuard, MigrationInv, TypeInv, migrationVars
  <2> QED
    BY <2>1, <2>2, RowsStay
<1>3. ASSUME NEW h \in Handlers, ServeHTTP(h)
      PROVE  MigrationInv'
  <2>1. UNCHANGED <<running, backend, grants, audit, now, cookies>>
    BY <1>3 DEF ServeHTTP
  <2>2. TypeInv'
    BY <1>3, <2>1 DEF ServeHTTP, MigrationInv, TypeInv, migrationVars
  <2>3. running
    BY <1>3 DEF ServeHTTP, MigrationInv, TypeInv, SnapshotInv
  <2> QED
    BY <2>1, <2>2, <2>3, RowsStay
<1>4. ASSUME NEW h \in Handlers, logout(h)
      PROVE  MigrationInv'
  <2>1. /\ UNCHANGED <<running, backend, now>> /\ cookies' \subseteq cookies
        /\ request' = [request EXCEPT ![h] = NoRequest]
    BY <1>4 DEF logout
  <2>2. running
    BY <1>4 DEF logout, MigrationInv, TypeInv, SnapshotInv
  <2>3. CASE UNCHANGED <<grants, audit>>
    <3>1. TypeInv'
      BY <2>1, <2>3 DEF MigrationInv, TypeInv, migrationVars
    <3> QED
      BY <2>1, <2>2, <2>3, <3>1, RowsStay
  <2>4. ASSUME NEW g \in Grants, revokeEmergencyAdminWithAudit(g)
        PROVE  MigrationInv'
    <3>1. TypeInv'
      BY <2>1, <2>4, RevocationKeeps DEF MigrationInv, TypeInv, migrationVars
    <3> QED
      BY <2>1, <2>2, <2>4, <3>1, RevocationKeeps, ServerKeeps DEF MigrationInv
  <2> QED
    BY <1>4, <2>3, <2>4 DEF logout, GrantsOf
<1>5. CASE EditConfiguration \/ ConfigureEmergencyAdmin
  <2>1. running /\ UNCHANGED <<running, backend, grants, audit, now, cookies>>
    BY <1>5 DEF EditConfiguration, ConfigureEmergencyAdmin
  <2>2. TypeInv'
    BY <1>5, <2>1
    DEF EditConfiguration, ConfigureEmergencyAdmin, MigrationInv, TypeInv, migrationVars
  <2> QED
    BY <2>1, <2>2, RowsStay
<1>6. CASE Tick
  <2>1. UNCHANGED <<running, backend, grants, audit, request, cookies>> /\ now' = now + 1
    BY <1>6 DEF Tick
  <2>2. TypeInv'
    BY SMT, Z3, <2>1 DEF MigrationInv, TypeInv, migrationVars
  <2> QED
    BY <2>1, <2>2, RowsStay
<1> QED
  BY <1>1, <1>2, <1>3, <1>4, <1>5, <1>6, CreateKeeps, LoginKeeps DEF EmergencyNext

(* Users are created in the database in use, and removed from SQLite.      *)
LEMMA UsersKeep ==
    ASSUME MigrationInv, backend = "postgres" => \A p \in Runs : tool[p] = Idle,
           \/ \E name \in Names : CreateUserWithAudit(name)
           \/ \E u \in users["sqlite"] : RemoveUser(u)
    PROVE  MigrationInv'
<1>1. /\ running /\ UNCHANGED <<emergencyVars, snapshot, verified, tool>>
      /\ UNCHANGED <<running, backend, grants, cookies, request, audit, now>>
  BY DEF CreateUserWithAudit, RemoveUser, emergencyVars
<1>2. /\ backend \in Backends /\ users \in [Backends -> SUBSET User]
      /\ sequence \in [Backends -> Nat] /\ Backends = {"sqlite", "postgres"}
  BY DEF MigrationInv, TypeInv, Backends
<1> DEFINE UserStep ==
        /\ users' \in [Backends -> SUBSET User] /\ sequence' \in [Backends -> Nat]
        /\ \A b \in Backends \ {backend} : users'[b] = users[b] /\ sequence'[b] = sequence[b]
        /\ sequence[backend] <= sequence'[backend]
        /\ \A u \in users'[backend] \ users[backend] :
               u.id = sequence[backend] + 1 /\ u.id = sequence'[backend]
        /\ backend = "postgres" => users[backend] \subseteq users'[backend]
<1>3. UserStep
  <2>1. ASSUME NEW name \in Names, CreateUserWithAudit(name)
        PROVE  UserStep
    <3> DEFINE id == sequence[backend] + 1
               new == [id |-> id, username |-> name]
    <3>1. /\ users' = [users EXCEPT ![backend] = @ \cup {new}]
          /\ sequence' = [sequence EXCEPT ![backend] = id]
      BY <2>1 DEF CreateUserWithAudit
    <3>2. id \in Nat /\ new \in User /\ new.id = id
      BY SMT, Z3, <1>2 DEF User
    <3> HIDE DEF new
    <3> QED
      BY SMT, Z3, <1>2, <3>1, <3>2
  <2>2. ASSUME NEW u \in users["sqlite"], RemoveUser(u)
        PROVE  UserStep
    BY SMT, Z3, <1>2, <2>2 DEF RemoveUser
  <2> QED
    BY <2>1, <2>2
<1>4. TypeInv'
  BY <1>1, <1>3 DEF MigrationInv, TypeInv
<1>5. Normalised' = Normalised /\ (Quiet' <=> Quiet)
  BY <1>1 DEF Normalised, Quiet, Live
<1>6. GrantInv'
  BY <1>1, GrantsStay DEF MigrationInv, Row
<1>7. CASE backend = "sqlite"
  <2>1. /\ snapshot = NoSnapshot /\ verified = {} /\ users'["postgres"] = users["postgres"]
        /\ sequence'["postgres"] = sequence["postgres"]
    BY <1>1, <1>2, <1>3, <1>7 DEF MigrationInv, SnapshotInv
  <2>2. SnapshotInv'
    <3>1. \A u \in users'["sqlite"] : u.id <= sequence'["sqlite"]
      <4>1. \A u \in users["sqlite"] : u.id \in Nat /\ u.id <= sequence["sqlite"]
        BY <1>2 DEF MigrationInv, SnapshotInv, User
      <4>2. sequence["sqlite"] \in Nat /\ sequence'["sqlite"] \in Nat
        BY <1>2, <1>3
      <4> QED
        BY SMT, Z3, <1>3, <1>7, <4>1, <4>2
    <3> QED
      BY <1>1, <1>5, <2>1, <3>1 DEF MigrationInv, SnapshotInv
  <2>3. ToolInv'
    BY <1>1, <1>5, <2>1 DEF MigrationInv, ToolInv, RunInv
  <2>4. GateInv'
    BY <1>1, <1>7, <2>1 DEF GateInv
  <2>5. CutoverComplete'
    BY <1>1, <1>7 DEF CutoverComplete
  <2> QED
    BY <1>4, <1>6, <2>2, <2>3, <2>4, <2>5 DEF MigrationInv
<1>8. CASE backend = "postgres"
  <2>1. /\ users'["sqlite"] = users["sqlite"] /\ sequence'["sqlite"] = sequence["sqlite"]
        /\ sequence["sqlite"] \in Nat /\ sequence["postgres"] \in Nat
        /\ sequence'["postgres"] \in Nat /\ sequence["postgres"] <= sequence'["postgres"]
        /\ sequence["sqlite"] <= sequence["postgres"]
    BY <1>2, <1>3, <1>8 DEF MigrationInv, GateInv
  <2>2. SnapshotInv'
    BY <1>1, <1>5, <1>8, <2>1 DEF MigrationInv, SnapshotInv
  <2>3. ToolInv'
    BY SMT, Z3, <1>1, <1>8 DEF ToolInv, RunInv, Idle
  <2>4. GateInv'
    BY SMT, Z3, <1>1, <1>8, <2>1 DEF MigrationInv, GateInv
  <2>5. CutoverComplete'
    <3>1. users["sqlite"] \subseteq users'["postgres"]
      BY <1>3, <1>8 DEF MigrationInv, CutoverComplete
    <3>2. \A u \in users'["postgres"] \ users["sqlite"] : u.id > sequence["sqlite"]
      BY SMT, Z3, <1>3, <1>8, <2>1 DEF MigrationInv, CutoverComplete
    <3> QED
      BY <1>1, <1>8, <2>1, <3>1, <3>2 DEF MigrationInv, CutoverComplete
  <2> QED
    BY <1>4, <1>6, <2>2, <2>3, <2>4, <2>5 DEF MigrationInv
<1> QED
  BY <1>2, <1>7, <1>8

-----------------------------------------------------------------------------
(* The operator *)

(* An idle run keeps nothing.                                              *)
LEMMA IdleRun ==
    /\ Idle \in [action : {"none", "import", "reconcile"},
                 pc : {"idle", "lock", "work", "commit", "orphan"},
                 at : 0 .. 2, rows : [users : SUBSET User, grants : GrantRows]]
    /\ Idle.pc = "idle" /\ Idle.at = 0 /\ Idle.action = "none"
    /\ NoData \in [users : SUBSET User, grants : GrantRows]
    /\ NoGrants \in GrantRows
  BY SMT, Z3 DEF Idle, NoData, NoGrants, GrantRows

(* The server is stopped, started on the database it had, or rolled back.  *)
LEMMA StopKeeps ==
    ASSUME MigrationInv, StopServer
    PROVE  MigrationInv'
<1>1. /\ running /\ running' = FALSE /\ request' = [h \in Handlers |-> NoRequest]
      /\ UNCHANGED <<backend, grants, cookies, audit, now>>
      /\ UNCHANGED <<users, sequence, snapshot, verified, tool>>
  BY DEF StopServer, migrationVars
<1>2. /\ Normalised' = Normalised /\ (Quiet' <=> Quiet)
      /\ (Data("postgres"))' = Data("postgres")
  BY <1>1 DEF Normalised, Quiet, Live, Data
<1>3. TypeInv'
  BY <1>1 DEF MigrationInv, TypeInv
<1>4. SnapshotInv'
  BY <1>1, <1>2 DEF MigrationInv, SnapshotInv
<1>5. ToolInv'
  BY <1>1, <1>2 DEF MigrationInv, ToolInv, RunInv
<1>6. GateInv'
  BY <1>1, <1>2 DEF MigrationInv, GateInv
<1>7. GrantInv'
  BY <1>1, GrantsStay DEF MigrationInv, Row
<1>8. CutoverComplete'
  BY <1>1 DEF MigrationInv, CutoverComplete
<1> QED
  BY <1>3, <1>4, <1>5, <1>6, <1>7, <1>8 DEF MigrationInv

(* A snapshot is taken, or the move is given up: nothing was verified with *)
(* the new snapshot, and no run is under way.                              *)
LEMMA NewSnapshotKeeps ==
    ASSUME MigrationInv, TakeSnapshot \/ StartOnSQLite
    PROVE  MigrationInv'
<1>1. /\ backend = "sqlite" /\ Quiet /\ ~running /\ verified' = {}
      /\ UNCHANGED <<backend, grants, cookies, request, audit, now, users, sequence, tool>>
  BY DEF TakeSnapshot, StartOnSQLite, emergencyVars
<1>2. /\ running' \in BOOLEAN
      /\ running' => snapshot' = NoSnapshot
      /\ \/ snapshot' = NoSnapshot
         \/ snapshot' = [users |-> users["sqlite"], grants |-> grants["sqlite"],
                         watermark |-> sequence["sqlite"]]
  <2>1. CASE TakeSnapshot
    BY <1>1, <2>1 DEF TakeSnapshot, emergencyVars, MigrationInv, TypeInv
  <2>2. CASE StartOnSQLite
    BY <2>2 DEF StartOnSQLite
  <2> QED
    BY <2>1, <2>2
<1>3. Quiet'
  BY <1>1 DEF Quiet, Live
<1>4. TypeInv'
  BY <1>1, <1>2 DEF MigrationInv, TypeInv
<1>5. SnapshotInv'
  BY <1>1, <1>2, <1>3 DEF MigrationInv, SnapshotInv
<1>6. ToolInv'
  <2>1. \A p \in Runs : tool[p].pc # "commit"
    BY <1>1 DEF Quiet, Live
  <2> QED
    BY <1>1, <2>1 DEF MigrationInv, ToolInv, RunInv
<1>7. GateInv' /\ CutoverComplete'
  BY <1>1 DEF GateInv, CutoverComplete
<1>8. GrantInv'
  BY <1>1, GrantsStay DEF MigrationInv, Row
<1> QED
  BY <1>4, <1>5, <1>6, <1>7, <1>8 DEF MigrationInv

(* The target is replaced by an empty database.                            *)
LEMMA NewTargetKeeps ==
    ASSUME MigrationInv, MigratePostgres
    PROVE  MigrationInv'
<1>1. /\ backend = "sqlite" /\ Quiet /\ verified' = {} /\ tool' = [p \in Runs |-> Idle]
      /\ users' = [users EXCEPT !["postgres"] = {}]
      /\ grants' = [grants EXCEPT !["postgres"] = NoGrants]
      /\ sequence' = [sequence EXCEPT !["postgres"] = 0]
      /\ UNCHANGED <<running, backend, cookies, request, audit, now, snapshot>>
  BY DEF MigratePostgres
<1>2. TypeInv'
  BY <1>1, IdleRun DEF MigrationInv, TypeInv
<1>3. /\ users'["sqlite"] = users["sqlite"] /\ grants'["sqlite"] = grants["sqlite"]
      /\ sequence'["sqlite"] = sequence["sqlite"]
  BY <1>1 DEF MigrationInv, TypeInv, Backends
<1>4. Quiet'
  BY <1>1, IdleRun DEF Quiet, Live
<1>5. SnapshotInv'
  BY <1>1, <1>3, <1>4 DEF MigrationInv, SnapshotInv
<1>6. ToolInv'
  BY <1>1, IdleRun DEF ToolInv, RunInv
<1>7. GateInv' /\ CutoverComplete'
  BY <1>1 DEF GateInv, CutoverComplete
<1>8. GrantInv'
  BY <1>1, <1>3, GrantsStay DEF MigrationInv, Row
<1> QED
  BY <1>2, <1>5, <1>6, <1>7, <1>8 DEF MigrationInv

(* The rows of the database that is used next say the same of logins and   *)
(* revocations.                                                            *)
LEMMA GrantsMove ==
    ASSUME GrantInv, audit' = audit,
           \A g \in Grants : /\ (Row(g)' = NoRow) <=> (Row(g) = NoRow)
                             /\ Row(g) # NoRow => /\ Row(g)'.session = Row(g).session
                                                  /\ Row(g)'.revoked = Row(g).revoked
    PROVE  GrantInv'
<1>1. \A s \in Sessions : GrantsOf(s)' = GrantsOf(s)
  BY DEF GrantsOf
<1> QED
  BY <1>1 DEF GrantInv

(* PostgreSQL has what was imported: its rows are those of SQLite with     *)
(* rounded times.                                                          *)
LEMMA ImportedGrants ==
    ASSUME TypeInv, SnapshotInv, snapshot # NoSnapshot, Data("postgres") = Normalised
    PROVE  /\ users["postgres"] = users["sqlite"]
           /\ \A g \in Grants :
                 LET old == grants["sqlite"][g]
                     new == grants["postgres"][g]
                 IN  /\ (new = NoRow) <=> (old = NoRow)
                     /\ old # NoRow => /\ new.expires <= old.expires
                                       /\ new.session = old.session /\ new.revoked = old.revoked
<1>1. users["postgres"] = Normalised.users /\ grants["postgres"] = Normalised.grants
  BY DEF Data
<1>2. /\ users["postgres"] = users["sqlite"]
      /\ \A g \in Grants : grants["postgres"][g] = importRow(grants["sqlite"][g])
  BY <1>1, SnapshotIs
<1>3. \A g \in Grants : grants["sqlite"][g] \in GrantRow \cup {NoRow}
  BY DEF TypeInv, Backends, GrantRows
<1> QED
  BY <1>2, <1>3, ImportedRow

(* The server is started on PostgreSQL: the gates let it rely on the rows  *)
(* and on the sequence.                                                    *)
LEMMA CutoverKeeps ==
    ASSUME MigrationInv, StartOnPostgres
    PROVE  MigrationInv'
<1>1. /\ ~running /\ Quiet /\ backend' = "postgres" /\ running' = TRUE
      /\ UNCHANGED <<grants, cookies, request, audit, now>>
      /\ UNCHANGED <<users, sequence, snapshot, verified, tool>>
  BY DEF StartOnPostgres, migrationVars
<1>2. Normalised' = Normalised /\ (Quiet' <=> Quiet)
  BY <1>1 DEF Normalised, Quiet, Live
<1>3. TypeInv'
  BY <1>1 DEF MigrationInv, TypeInv, Backends
<1>4. SnapshotInv'
  BY <1>1, <1>2 DEF MigrationInv, SnapshotInv
<1>5. ToolInv'
  BY <1>1, <1>2 DEF MigrationInv, ToolInv, RunInv
<1>6. CASE backend = "postgres"
  <2>1. GrantInv'
    BY <1>1, <1>6, GrantsStay DEF MigrationInv, Row
  <2>2. GateInv'
    BY <1>1, <1>6 DEF MigrationInv, GateInv
  <2>3. CutoverComplete'
    BY <1>1, <1>6 DEF MigrationInv, CutoverComplete
  <2> QED
    BY <1>3, <1>4, <1>5, <2>1, <2>2, <2>3 DEF MigrationInv
<1>7. CASE backend # "postgres"
  <2>1. backend = "sqlite" /\ verified = {"import", "reconcile"}
    BY <1>7 DEF StartOnPostgres, MigrationInv, TypeInv, Backends
  <2>2. /\ snapshot # NoSnapshot /\ Data("postgres") = Normalised
        /\ sequence["postgres"] = snapshot.watermark
    BY <2>1 DEF MigrationInv, SnapshotInv, GateInv
  <2>3. sequence["postgres"] = sequence["sqlite"] /\ sequence["sqlite"] \in Nat
    BY <2>2, SnapshotIs DEF MigrationInv, TypeInv, Backends
  <2>4. /\ users["postgres"] = users["sqlite"]
        /\ \A g \in Grants :
              LET old == grants["sqlite"][g]
                  new == grants["postgres"][g]
              IN  /\ (new = NoRow) <=> (old = NoRow)
                  /\ old # NoRow => /\ new.expires <= old.expires
                                    /\ new.session = old.session /\ new.revoked = old.revoked
    BY <2>2, ImportedGrants DEF MigrationInv
  <2>5. GrantInv'
    BY <1>1, <2>1, <2>4, GrantsMove DEF MigrationInv, Row
  <2>6. GateInv'
    BY SMT, Z3, <1>1, <2>1, <2>3 DEF GateInv
  <2>7. CutoverComplete'
    BY <1>1, <2>4 DEF CutoverComplete
  <2> QED
    BY <1>3, <1>4, <1>5, <2>5, <2>6, <2>7 DEF MigrationInv
<1> QED
  BY <1>6, <1>7

(* Back to SQLite, as long as PostgreSQL has only what was imported.       *)
LEMMA RollBackKeeps ==
    ASSUME MigrationInv, RollBackToSQLite
    PROVE  MigrationInv'
<1>1. /\ ~running /\ backend = "postgres" /\ backend' = "sqlite" /\ UNCHANGED running
      /\ Data("postgres") = Normalised /\ sequence["postgres"] = snapshot.watermark
      /\ UNCHANGED <<grants, cookies, request, audit, now>>
      /\ UNCHANGED <<users, sequence, snapshot, verified, tool>>
  BY DEF RollBackToSQLite, migrationVars
<1>2. /\ Normalised' = Normalised /\ (Quiet' <=> Quiet)
      /\ (Data("postgres"))' = Data("postgres")
  BY <1>1 DEF Normalised, Quiet, Live, Data
<1>3. TypeInv'
  BY <1>1 DEF MigrationInv, TypeInv, Backends
<1>4. SnapshotInv'
  BY <1>1, <1>2 DEF MigrationInv, SnapshotInv
<1>5. ToolInv'
  BY <1>1, <1>2 DEF MigrationInv, ToolInv, RunInv
<1>6. GateInv' /\ CutoverComplete'
  BY <1>1, <1>2 DEF GateInv, CutoverComplete
<1>7. GrantInv'
  <2>1. snapshot # NoSnapshot
    BY <1>1 DEF MigrationInv, SnapshotInv, GateInv
  <2>2. \A g \in Grants :
            LET old == grants["sqlite"][g]
                new == grants["postgres"][g]
            IN  /\ (new = NoRow) <=> (old = NoRow)
                /\ old # NoRow => new.session = old.session /\ new.revoked = old.revoked
    BY <1>1, <2>1, ImportedGrants DEF MigrationInv
  <2> QED
    BY <1>1, <2>2, GrantsMove DEF MigrationInv, Row
<1> QED
  BY <1>3, <1>4, <1>5, <1>6, <1>7 DEF MigrationInv

-----------------------------------------------------------------------------
(* identity-db-migrate *)

(* A run changes its own state and nothing that the others look at.        *)
LEMMA RunChanges ==
    ASSUME MigrationInv, NEW p \in Runs, NEW new, tool' = [tool EXCEPT ![p] = new],
           UNCHANGED <<users, grants, snapshot>>,
           sequence'["postgres"] \in {sequence["postgres"], snapshot.watermark},
           verified' = verified \/ \A q \in Runs \ {p} : tool[q].pc # "orphan",
           new.at # 0 => \A q \in Runs \ {p} :
                             tool[q].at # 0 => "import" \notin {tool[q].action, new.action},
           RunInv(p)'
    PROVE  ToolInv'
<1>1. tool'[p] = new /\ \A q \in Runs \ {p} : tool'[q] = tool[q]
  BY DEF MigrationInv, TypeInv
<1>2. Normalised' = Normalised
  BY DEF Normalised
<1>3. ASSUME NEW q \in Runs, q # p
      PROVE  RunInv(q)'
  <2>1. RunInv(q) /\ tool'[q] = tool[q]
    BY <1>1, <1>3 DEF MigrationInv, ToolInv
  <2>2. tool[q].action = "import" /\ tool[q].at # 0 => \A r \in Runs \ {q} : tool'[r].at = 0
    BY SMT, Z3, <1>1, <1>3, <2>1 DEF RunInv
  <2>3. tool[q].pc = "commit" => sequence'["postgres"] = snapshot.watermark
    BY SMT, Z3, <2>1 DEF RunInv
  <2>4. tool[q].pc = "orphan" /\ verified' # {} => tool[q].rows = Normalised
    BY <1>3, <2>1 DEF RunInv
  <2> QED
    BY <1>2, <2>1, <2>2, <2>3, <2>4 DEF RunInv
<1> QED
  BY <1>3 DEF ToolInv

(* A step of a run that is under way, as long as it commits nothing.       *)
LEMMA LiveStep ==
    ASSUME MigrationInv, ~running, backend = "sqlite", snapshot # NoSnapshot,
           UNCHANGED <<emergencyVars, users, snapshot>>,
           sequence'["sqlite"] = sequence["sqlite"], TypeInv', ToolInv',
           "reconcile" \in verified' => Data("postgres") = Normalised,
           "import" \in verified' => sequence'["postgres"] = snapshot.watermark
    PROVE  MigrationInv'
<1>1. UNCHANGED <<running, backend, grants, request, audit>>
  BY DEF emergencyVars
<1>2. Normalised' = Normalised /\ (Data("postgres"))' = Data("postgres")
  BY <1>1 DEF Normalised, Data
<1>3. SnapshotInv'
  BY <1>1 DEF MigrationInv, SnapshotInv
<1>4. GateInv' /\ CutoverComplete'
  BY <1>1, <1>2 DEF GateInv, CutoverComplete
<1>5. GrantInv'
  BY <1>1, GrantsStay DEF MigrationInv, Row
<1> QED
  BY <1>3, <1>4, <1>5 DEF MigrationInv

(* A run is under way only while the server stands still.                  *)
LEMMA LiveRun ==
    ASSUME MigrationInv, NEW p \in Runs, Live(p)
    PROVE  ~running /\ backend = "sqlite" /\ snapshot # NoSnapshot
<1>1. ~Quiet
  BY DEF Quiet
<1> QED
  BY <1>1 DEF MigrationInv, SnapshotInv, TypeInv, Backends

(* A run whose next table is free.                                         *)
LEMMA FreeTable ==
    ASSUME MigrationInv, NEW p \in Runs, tool[p].pc = "lock", ~Blocked(p, NextTable(p))
    PROVE  \A q \in Runs \ {p} : tool[q].at # 0 => "import" \notin {tool[q].action, tool[p].action}
<1> SUFFICES ASSUME NEW q \in Runs \ {p}, tool[q].at # 0
             PROVE  "import" \notin {tool[q].action, tool[p].action}
  OBVIOUS
<1>1. RunInv(p) /\ RunInv(q) /\ tool[p].at \in {0, 1} /\ tool[q].at \in 1 .. 2
  BY SMT, Z3 DEF MigrationInv, ToolInv, RunInv, TypeInv
<1>2. CASE tool[p].at = 0
  <2>1. NextTable(p) = "users"
    BY SMT, Z3, <1>2 DEF NextTable, LockOrder, importTables
  <2>2. "users" \in Locked(q)
    <3>1. importTables[1] = "users" /\ 1 \in 1 .. tool[q].at
      BY SMT, Z3, <1>1 DEF importTables
    <3> QED
      BY <3>1 DEF Locked, LockOrder
  <2> QED
    BY <2>1, <2>2 DEF Blocked
<1>3. CASE tool[p].at = 1
  BY SMT, Z3, <1>1, <1>3 DEF RunInv
<1> QED
  BY <1>1, <1>2, <1>3

(* A run ends without having committed anything.                           *)
LEMMA EndKeeps ==
    ASSUME MigrationInv, NEW p \in Runs, End(p), UNCHANGED <<users, grants, snapshot>>,
           sequence'["postgres"] = sequence["postgres"],
           verified' = verified \/ \A q \in Runs \ {p} : tool[q].pc # "orphan"
    PROVE  ToolInv' /\ tool' \in [Runs -> [action : {"none", "import", "reconcile"},
                                           pc : {"idle", "lock", "work", "commit", "orphan"},
                                           at : 0 .. 2,
                                           rows : [users : SUBSET User, grants : GrantRows]]]
<1>1. tool' = [tool EXCEPT ![p] = Idle] /\ tool'[p] = Idle
  BY DEF End, MigrationInv, TypeInv
<1>2. RunInv(p)'
  BY <1>1, IdleRun DEF RunInv
<1>3. ToolInv'
  BY <1>1, <1>2, IdleRun, RunChanges
<1> QED
  BY <1>1, <1>3, IdleRun DEF MigrationInv, TypeInv

(* A run goes on.                                                          *)
LEMMA GoToKeeps ==
    ASSUME MigrationInv, NEW p \in Runs,
           NEW pc \in {"lock", "work", "commit", "orphan"}, NEW at \in 0 .. 2,
           NEW rows \in [users : SUBSET User, grants : GrantRows],
           GoTo(p, pc, at, rows)
    PROVE  /\ tool' \in [Runs -> [action : {"none", "import", "reconcile"},
                                  pc : {"idle", "lock", "work", "commit", "orphan"},
                                  at : 0 .. 2,
                                  rows : [users : SUBSET User, grants : GrantRows]]]
           /\ \E new : /\ tool' = [tool EXCEPT ![p] = new] /\ new = tool'[p]
                       /\ new.action = tool[p].action /\ new.pc = pc /\ new.at = at
                       /\ new.rows = rows /\ new # Idle
           /\ \A q \in Runs \ {p} : tool'[q] = tool[q]
<1> DEFINE new == [action |-> tool[p].action, pc |-> pc, at |-> at, rows |-> rows]
<1>1. /\ tool' = [tool EXCEPT ![p] = new] /\ tool'[p] = new
      /\ \A q \in Runs \ {p} : tool'[q] = tool[q]
  BY DEF GoTo, MigrationInv, TypeInv
<1>2. new \in [action : {"none", "import", "reconcile"},
               pc : {"idle", "lock", "work", "commit", "orphan"},
               at : 0 .. 2, rows : [users : SUBSET User, grants : GrantRows]]
  BY DEF MigrationInv, TypeInv
<1>3. new.action = tool[p].action /\ new.pc = pc /\ new.at = at /\ new.rows = rows
  OBVIOUS
<1> HIDE DEF new
<1>4. new # Idle
  BY <1>3, IdleRun
<1>5. tool' \in [Runs -> [action : {"none", "import", "reconcile"},
                          pc : {"idle", "lock", "work", "commit", "orphan"},
                          at : 0 .. 2, rows : [users : SUBSET User, grants : GrantRows]]]
  BY <1>1, <1>2 DEF MigrationInv, TypeInv
<1> QED
  BY <1>1, <1>3, <1>4, <1>5

(* A run begins.                                                           *)
LEMMA BeginKeeps ==
    ASSUME MigrationInv, NEW p \in Runs, NEW action \in {"import", "reconcile"}, Begin(p, action)
    PROVE  MigrationInv'
<1> DEFINE new == [action |-> action, pc |-> "lock", at |-> 0, rows |-> NoData]
<1>1. /\ ~running /\ backend = "sqlite" /\ snapshot # NoSnapshot
      /\ tool' = [tool EXCEPT ![p] = new]
      /\ UNCHANGED <<emergencyVars, users, sequence, snapshot, verified>>
  BY DEF Begin
<1>2. /\ new.action = action /\ new.pc = "lock" /\ new.at = 0 /\ tool'[p] = new
      /\ new \in [action : {"none", "import", "reconcile"},
                  pc : {"idle", "lock", "work", "commit", "orphan"},
                  at : 0 .. 2, rows : [users : SUBSET User, grants : GrantRows]]
  BY <1>1, IdleRun DEF MigrationInv, TypeInv
<1> HIDE DEF new
<1>3. UNCHANGED <<grants, cookies, request, audit, now, running, backend>>
  BY <1>1 DEF emergencyVars
<1>4. TypeInv'
  BY <1>1, <1>2, <1>3 DEF MigrationInv, TypeInv
<1>5. RunInv(p)'
  BY SMT, Z3, <1>2, IdleRun DEF RunInv
<1>6. ToolInv'
  BY <1>1, <1>2, <1>3, <1>5, RunChanges
<1> QED
  BY <1>1, <1>4, <1>6, LiveStep DEF MigrationInv, GateInv

(* A run takes a lock, or ends because a table is not empty.               *)
LEMMA LockKeeps ==
    ASSUME MigrationInv, NEW p \in Runs, ImportLock(p) \/ ReconcileLock(p)
    PROVE  MigrationInv'
<1>1. /\ tool[p].pc = "lock" /\ ~Blocked(p, NextTable(p)) /\ (LockTable(p) \/ End(p))
      /\ tool[p].action = "import" => Empty(NextTable(p)) \/ End(p)
      /\ UNCHANGED <<emergencyVars, users, sequence, snapshot, verified>>
  BY DEF ImportLock, ReconcileLock, LockTable
<1>2. UNCHANGED <<grants, cookies, request, audit, now, running, backend>>
  BY <1>1 DEF emergencyVars
<1>3. ~running /\ backend = "sqlite" /\ snapshot # NoSnapshot
  BY <1>1, LiveRun DEF Live
<1>4. CASE End(p)
  <2>1. TypeInv' /\ ToolInv'
    BY <1>1, <1>2, <1>4, EndKeeps DEF MigrationInv, TypeInv
  <2> QED
    BY <1>1, <1>3, <2>1, LiveStep DEF MigrationInv, GateInv
<1>5. CASE LockTable(p) /\ (tool[p].action = "import" => Empty(NextTable(p)))
  <2> DEFINE at == tool[p].at + 1
             pc == IF at = 2 THEN "work" ELSE "lock"
  <2>1. /\ RunInv(p) /\ tool[p].at \in {0, 1} /\ tool[p].action \in {"import", "reconcile"}
        /\ at \in 1 .. 2 /\ pc \in {"lock", "work"}
    BY SMT, Z3, <1>1 DEF MigrationInv, ToolInv, RunInv, TypeInv
  <2>2. GoTo(p, pc, at, NoData)
    BY <1>5 DEF LockTable, importTables
  <2> HIDE DEF at, pc
  <2>3. PICK new : /\ tool' = [tool EXCEPT ![p] = new] /\ new = tool'[p]
                   /\ new.action = tool[p].action /\ new.pc = pc /\ new.at = at /\ new # Idle
    BY SMT, Z3, <2>1, <2>2, IdleRun, GoToKeeps
  <2>4. TypeInv'
    BY SMT, Z3, <1>1, <1>2, <2>1, <2>2, IdleRun, GoToKeeps DEF MigrationInv, TypeInv
  <2>5. \A q \in Runs \ {p} : tool'[q] = tool[q]
    BY SMT, Z3, <2>1, <2>2, IdleRun, GoToKeeps
  <2>6. new.at # 0 => \A q \in Runs \ {p} :
                          tool[q].at # 0 => "import" \notin {tool[q].action, new.action}
    BY <1>1, <2>3, FreeTable
  <2>7. tool[p].action = "import" => users["postgres"] = {}
                                  /\ (at = 2 => grants["postgres"] = NoGrants)
    <3>1. CASE tool[p].at = 0
      BY SMT, Z3, <1>5, <3>1 DEF at, NextTable, LockOrder, importTables, Empty
    <3>2. CASE tool[p].at = 1
      BY SMT, Z3, <1>5, <2>1, <3>2 DEF at, NextTable, LockOrder, importTables, Empty, RunInv
    <3> QED
      BY <2>1, <3>1, <3>2
  <2>8. new.action = "import" => \A q \in Runs \ {p} : tool'[q].at = 0
    BY SMT, Z3, <2>1, <2>3, <2>5, <2>6 DEF at
  <2>9. pc = "lock" => at \in {0, 1}
    BY SMT, Z3, <2>1 DEF at, pc
  <2>10. pc = "work" => at = 2
    BY <2>1 DEF at, pc
  <2>11. RunInv(p)'
    BY <1>1, <1>2, <2>1, <2>3, <2>7, <2>8, <2>9, <2>10, IdleRun DEF RunInv
  <2>12. ToolInv'
    BY <1>1, <1>2, <2>3, <2>6, <2>11, RunChanges
  <2> QED
    BY <1>1, <1>3, <2>4, <2>12, LiveStep DEF MigrationInv, GateInv
<1> QED
  BY <1>1, <1>4, <1>5

(* The rows are inserted and the sequence is set, or the run ends.         *)
LEMMA ImportKeeps ==
    ASSUME MigrationInv, NEW p \in Runs, ImportSQLite(p)
    PROVE  MigrationInv'
<1>1. /\ tool[p].pc = "work" /\ tool[p].action = "import" /\ RunInv(p) /\ tool[p].at = 2
      /\ UNCHANGED <<emergencyVars, users, snapshot, verified>>
  BY DEF ImportSQLite, MigrationInv, ToolInv, RunInv
<1>2. UNCHANGED <<grants, cookies, request, audit, now, running, backend>>
  BY <1>1 DEF emergencyVars
<1>3. ~running /\ backend = "sqlite" /\ snapshot # NoSnapshot
  BY <1>1, LiveRun DEF Live
<1>4. CASE End(p) /\ UNCHANGED sequence
  <2>1. TypeInv' /\ ToolInv'
    BY <1>1, <1>2, <1>4, EndKeeps DEF MigrationInv, TypeInv
  <2> QED
    BY <1>1, <1>3, <1>4, <2>1, LiveStep DEF MigrationInv, GateInv
<1>5. CASE /\ sequence' = [sequence EXCEPT !["postgres"] = setval]
           /\ GoTo(p, "commit", tool[p].at, Normalised)
  <2>1. /\ Normalised \in [users : SUBSET User, grants : GrantRows]
        /\ setval = snapshot.watermark /\ snapshot.watermark \in Nat
    BY <1>3, SnapshotIs DEF MigrationInv, TypeInv, Backends
  <2>2. /\ sequence' \in [Backends -> Nat] /\ sequence'["postgres"] = snapshot.watermark
        /\ sequence'["sqlite"] = sequence["sqlite"]
    BY <1>5, <2>1 DEF MigrationInv, TypeInv, Backends
  <2>3. PICK new : /\ tool' = [tool EXCEPT ![p] = new] /\ new = tool'[p]
                   /\ new.action = "import" /\ new.pc = "commit" /\ new.at = 2
                   /\ new.rows = Normalised /\ new # Idle
    BY SMT, Z3, <1>1, <1>5, <2>1, GoToKeeps
  <2>4. TypeInv'
    BY <1>1, <1>2, <1>5, <2>1, <2>2, GoToKeeps DEF MigrationInv, TypeInv
  <2>5. \A q \in Runs \ {p} : tool'[q] = tool[q] /\ tool[q].at = 0
    BY SMT, Z3, <1>1, <1>5, <2>1, GoToKeeps DEF RunInv
  <2>6. Normalised' = Normalised
    BY <1>1 DEF Normalised
  <2>7. RunInv(p)'
    BY <1>1, <1>2, <2>2, <2>3, <2>5, <2>6 DEF RunInv
  <2>8. ToolInv'
    BY <1>1, <1>2, <2>2, <2>3, <2>5, <2>7, RunChanges
  <2> QED
    BY <1>1, <1>3, <2>2, <2>4, <2>8, LiveStep DEF MigrationInv, GateInv
<1> QED
  BY <1>4, <1>5 DEF ImportSQLite

(* A reconciliation ends.  Under its locks no import is about to commit.   *)
LEMMA ReconcileKeeps ==
    ASSUME MigrationInv, NEW p \in Runs, ReconcileSQLite(p)
    PROVE  MigrationInv'
<1>1. /\ tool[p].pc = "work" /\ RunInv(p) /\ tool[p].at = 2 /\ End(p)
      /\ verified' \in {verified, verified \cup {"reconcile"}}
      /\ "reconcile" \in verified' => "reconcile" \in verified \/ Data("postgres") = Normalised
      /\ "import" \in verified' => "import" \in verified
      /\ UNCHANGED <<emergencyVars, users, sequence, snapshot>>
  BY DEF ReconcileSQLite, MigrationInv, ToolInv, RunInv
<1>2. UNCHANGED <<grants, cookies, request, audit, now, running, backend>>
  BY <1>1 DEF emergencyVars
<1>3. ~running /\ backend = "sqlite" /\ snapshot # NoSnapshot
  BY <1>1, LiveRun DEF Live
<1>4. \A q \in Runs \ {p} : tool[q].pc # "orphan"
  BY SMT, Z3, <1>1 DEF MigrationInv, ToolInv, RunInv
<1>5. TypeInv' /\ ToolInv'
  BY <1>1, <1>2, <1>4, EndKeeps DEF MigrationInv, TypeInv
<1> QED
  BY <1>1, <1>3, <1>5, LiveStep DEF MigrationInv, GateInv

(* A run is given up, and may leave a commit behind.                       *)
LEMMA GiveUpKeeps ==
    ASSUME MigrationInv, NEW p \in Runs, GiveUp(p)
    PROVE  MigrationInv'
<1>1. /\ Live(p) /\ RunInv(p)
      /\ UNCHANGED <<emergencyVars, users, sequence, snapshot, verified>>
  BY DEF GiveUp, MigrationInv, ToolInv
<1>2. UNCHANGED <<grants, cookies, request, audit, now, running, backend>>
  BY <1>1 DEF emergencyVars
<1>3. ~running /\ backend = "sqlite" /\ snapshot # NoSnapshot
  BY <1>1, LiveRun
<1>4. CASE End(p)
  <2>1. TypeInv' /\ ToolInv'
    BY <1>1, <1>2, <1>4, EndKeeps DEF MigrationInv, TypeInv
  <2> QED
    BY <1>1, <1>3, <2>1, LiveStep DEF MigrationInv, GateInv
<1>5. CASE tool[p].pc = "commit" /\ GoTo(p, "orphan", tool[p].at, tool[p].rows)
  <2>1. /\ tool[p].at = 2 /\ tool[p].action = "import" /\ tool[p].rows = Normalised
        /\ tool[p].rows \in [users : SUBSET User, grants : GrantRows]
    BY <1>1, <1>5 DEF RunInv, MigrationInv, TypeInv
  <2>2. PICK new : /\ tool' = [tool EXCEPT ![p] = new] /\ new = tool'[p]
                   /\ new.action = "import" /\ new.pc = "orphan" /\ new.at = 2
                   /\ new.rows = Normalised /\ new # Idle
    BY SMT, Z3, <1>5, <2>1, GoToKeeps
  <2>3. TypeInv'
    BY <1>1, <1>2, <1>5, <2>1, GoToKeeps DEF MigrationInv, TypeInv
  <2>4. \A q \in Runs \ {p} : tool'[q] = tool[q] /\ tool[q].at = 0
    BY SMT, Z3, <1>1, <1>5, <2>1, GoToKeeps DEF RunInv
  <2>5. Normalised' = Normalised
    BY <1>1 DEF Normalised
  <2>6. RunInv(p)'
    BY <1>1, <1>2, <2>1, <2>2, <2>4, <2>5 DEF RunInv
  <2>7. ToolInv'
    BY <1>1, <1>2, <2>2, <2>4, <2>6, RunChanges
  <2> QED
    BY <1>1, <1>3, <2>3, <2>7, LiveStep DEF MigrationInv, GateInv
<1> QED
  BY <1>4, <1>5 DEF GiveUp

(* A commit: the target was empty and has the rows of the run.             *)
LEMMA CommitKeeps ==
    ASSUME MigrationInv, NEW p \in Runs, tool[p].pc \in {"commit", "orphan"},
           CommitRows(p), End(p), UNCHANGED snapshot
    PROVE  /\ users' \in [Backends -> SUBSET User] /\ grants' \in [Backends -> GrantRows]
           /\ users'["sqlite"] = users["sqlite"] /\ grants'["sqlite"] = grants["sqlite"]
           /\ (Data("postgres"))' = tool[p].rows
           /\ tool' \in [Runs -> [action : {"none", "import", "reconcile"},
                                  pc : {"idle", "lock", "work", "commit", "orphan"},
                                  at : 0 .. 2, rows : [users : SUBSET User, grants : GrantRows]]]
           /\ ToolInv'
<1> DEFINE rows == tool[p].rows
<1>1. /\ RunInv(p) /\ tool[p].at = 2 /\ tool[p].action = "import"
      /\ users["postgres"] = {} /\ grants["postgres"] = NoGrants
      /\ \A q \in Runs \ {p} : tool[q].at = 0 /\ RunInv(q)
      /\ rows \in [users : SUBSET User, grants : GrantRows]
  BY SMT, Z3 DEF MigrationInv, ToolInv, RunInv, TypeInv
<1>2. /\ users \in [Backends -> SUBSET User] /\ grants \in [Backends -> GrantRows]
      /\ Backends = {"sqlite", "postgres"}
  BY DEF MigrationInv, TypeInv, Backends
<1>3. rows = [users |-> rows.users, grants |-> rows.grants]
  BY <1>1
<1>4. /\ users' = [users EXCEPT !["postgres"] = users["postgres"] \cup rows.users]
      /\ grants' = [grants EXCEPT !["postgres"] =
             [g \in Grants |-> IF rows.grants[g] = NoRow THEN grants["postgres"][g] ELSE rows.grants[g]]]
  BY DEF CommitRows
<1> HIDE DEF rows
<1>5. /\ users'["postgres"] = rows.users /\ users'["sqlite"] = users["sqlite"]
      /\ users' \in [Backends -> SUBSET User]
  BY <1>1, <1>2, <1>4
<1>6. [g \in Grants |-> IF rows.grants[g] = NoRow THEN grants["postgres"][g] ELSE rows.grants[g]]
          = rows.grants
  BY <1>1 DEF NoGrants, GrantRows
<1>7. /\ grants'["postgres"] = rows.grants /\ grants'["sqlite"] = grants["sqlite"]
      /\ grants' \in [Backends -> GrantRows]
  BY <1>1, <1>2, <1>4, <1>6
<1>8. (Data("postgres"))' = rows
  BY <1>3, <1>5, <1>7 DEF Data
<1>9. tool' = [tool EXCEPT ![p] = Idle] /\ tool'[p] = Idle
  BY DEF End, MigrationInv, TypeInv
<1>10. tool' \in [Runs -> [action : {"none", "import", "reconcile"},
                           pc : {"idle", "lock", "work", "commit", "orphan"},
                           at : 0 .. 2, rows : [users : SUBSET User, grants : GrantRows]]]
  BY <1>9, IdleRun DEF MigrationInv, TypeInv
<1>11. RunInv(p)'
  BY <1>9, IdleRun DEF RunInv
<1>12. ASSUME NEW q \in Runs, q # p
       PROVE  RunInv(q)'
  <2>1. tool'[q] = tool[q] /\ tool[q].at = 0 /\ RunInv(q)
    BY <1>1, <1>9, <1>12 DEF MigrationInv, TypeInv
  <2> QED
    BY SMT, Z3, <2>1 DEF RunInv
<1> QED
  BY <1>5, <1>7, <1>8, <1>10, <1>11, <1>12 DEF ToolInv, rows

(* The commit of an import is answered.                                    *)
LEMMA ImportVerifiedKeeps ==
    ASSUME MigrationInv, NEW p \in Runs, ImportVerified(p)
    PROVE  MigrationInv'
<1>1. /\ tool[p].pc = "commit" /\ CommitRows(p) /\ End(p)
      /\ verified' = verified \cup {"import"} /\ tool[p].rows = Normalised
      /\ sequence["postgres"] = snapshot.watermark
      /\ UNCHANGED <<running, backend, cookies, request, audit, now, sequence, snapshot>>
  BY DEF ImportVerified, MigrationInv, ToolInv, RunInv
<1>2. ~running /\ backend = "sqlite" /\ snapshot # NoSnapshot
  BY <1>1, LiveRun DEF Live
<1>3. /\ users'["sqlite"] = users["sqlite"] /\ grants'["sqlite"] = grants["sqlite"]
      /\ (Data("postgres"))' = Normalised /\ ToolInv' /\ TypeInv'
  BY <1>1, CommitKeeps DEF MigrationInv, TypeInv
<1>4. Normalised' = Normalised
  BY <1>1 DEF Normalised
<1>5. SnapshotInv'
  BY <1>1, <1>2, <1>3 DEF MigrationInv, SnapshotInv
<1>6. GateInv' /\ CutoverComplete'
  BY <1>1, <1>2, <1>3, <1>4 DEF GateInv, CutoverComplete
<1>7. GrantInv'
  BY <1>1, <1>2, <1>3, GrantsStay DEF MigrationInv, Row
<1> QED
  BY <1>3, <1>5, <1>6, <1>7 DEF MigrationInv

(* A transaction without its run found the target empty and has it locked. *)
LEMMA OrphanIs ==
    ASSUME MigrationInv, NEW p \in Runs, OrphanEnds(p)
    PROVE  /\ tool[p].pc = "orphan" /\ End(p) /\ RunInv(p)
           /\ UNCHANGED <<running, backend, cookies, request, audit, now, sequence, snapshot, verified>>
           /\ tool[p].at = 2 /\ tool[p].action = "import"
           /\ users["postgres"] = {} /\ grants["postgres"] = NoGrants
           /\ verified # {} => tool[p].rows = Normalised
<1>1. /\ tool[p].pc = "orphan" /\ End(p)
      /\ UNCHANGED <<running, backend, cookies, request, audit, now, sequence, snapshot, verified>>
  BY DEF OrphanEnds
<1>2. RunInv(p)
  BY DEF MigrationInv, ToolInv
<1>3. tool[p].at = 2 /\ tool[p].action = "import" /\ (verified # {} => tool[p].rows = Normalised)
  BY <1>1, <1>2 DEF RunInv
<1>4. tool[p].at # 0
  BY SMT, Z3, <1>3
<1> QED
  BY <1>1, <1>2, <1>3, <1>4 DEF RunInv

(* It adds nothing to a PostgreSQL on which the server was started: what   *)
(* SQLite had is there, and the target is still empty.                     *)
LEMMA LateCommit ==
    ASSUME MigrationInv, NEW p \in Runs, OrphanEnds(p), backend = "postgres"
    PROVE  /\ users["sqlite"] = {} /\ \A g \in Grants : grants["sqlite"][g] = NoRow
           /\ users'["postgres"] = users["postgres"] /\ grants'["postgres"] = grants["postgres"]
<1>1. /\ tool[p].pc = "orphan" /\ End(p) /\ UNCHANGED snapshot
      /\ users["postgres"] = {} /\ grants["postgres"] = NoGrants
      /\ verified # {} => tool[p].rows = Normalised
  BY OrphanIs
<1>2. /\ verified = {"import", "reconcile"} /\ snapshot # NoSnapshot
      /\ tool[p].rows = Normalised
  BY <1>1 DEF MigrationInv, GateInv, SnapshotInv
<1>3. users["sqlite"] = {} /\ \A g \in Grants : grants["sqlite"][g] = NoRow
  BY <1>1 DEF MigrationInv, CutoverComplete, NoGrants
<1>4. /\ Normalised.users = {} /\ Normalised.grants \in GrantRows
      /\ \A g \in Grants : Normalised.grants[g] = NoRow
  BY <1>2, <1>3, SnapshotIs DEF MigrationInv, importRow
<1>5. Normalised.grants = NoGrants
  BY <1>4 DEF NoGrants, GrantRows
<1>6. CASE CommitRows(p)
  <2>1. (Data("postgres"))' = Normalised
    BY <1>1, <1>2, <1>6, CommitKeeps
  <2>2. /\ (Data("postgres"))'.users = users'["postgres"]
        /\ (Data("postgres"))'.grants = grants'["postgres"]
    BY DEF Data
  <2> QED
    BY <1>1, <1>3, <1>4, <1>5, <2>1, <2>2
<1> QED
  BY <1>3, <1>6 DEF OrphanEnds

(* PostgreSQL ends the transaction of a run that is gone, possibly after   *)
(* the server was started on it: then there was nothing to import.         *)
LEMMA OrphanKeeps ==
    ASSUME MigrationInv, NEW p \in Runs, OrphanEnds(p)
    PROVE  MigrationInv'
<1>1. /\ tool[p].pc = "orphan" /\ End(p) /\ RunInv(p)
      /\ UNCHANGED <<running, backend, cookies, request, audit, now, sequence, snapshot, verified>>
      /\ tool[p].at = 2 /\ tool[p].action = "import"
      /\ users["postgres"] = {} /\ grants["postgres"] = NoGrants
      /\ verified # {} => tool[p].rows = Normalised
  BY OrphanIs
<1>2. Normalised' = Normalised
  BY <1>1 DEF Normalised
<1>3. Quiet => Quiet'
  BY <1>1, IdleRun DEF Quiet, Live, End, MigrationInv, TypeInv
<1>4. CASE UNCHANGED <<users, grants>>
  <2>1. TypeInv' /\ ToolInv'
    BY <1>1, <1>4, EndKeeps DEF MigrationInv, TypeInv
  <2>2. (Data("postgres"))' = Data("postgres")
    BY <1>4 DEF Data
  <2>3. SnapshotInv'
    BY <1>1, <1>3, <1>4 DEF MigrationInv, SnapshotInv
  <2>4. GateInv'
    BY <1>1, <1>2, <2>2 DEF MigrationInv, GateInv
  <2>5. CutoverComplete'
    BY <1>1, <1>4 DEF MigrationInv, CutoverComplete
  <2>6. GrantInv'
    BY <1>1, <1>4, GrantsStay DEF MigrationInv, Row
  <2> QED
    BY <2>1, <2>3, <2>4, <2>5, <2>6 DEF MigrationInv
<1>5. CASE CommitRows(p)
  <2>1. /\ users'["sqlite"] = users["sqlite"] /\ grants'["sqlite"] = grants["sqlite"]
        /\ (Data("postgres"))' = tool[p].rows /\ ToolInv' /\ TypeInv'
    BY <1>1, <1>5, CommitKeeps DEF MigrationInv, TypeInv
  <2>2. SnapshotInv'
    BY <1>1, <1>3, <2>1 DEF MigrationInv, SnapshotInv
  <2>3. CASE backend = "sqlite"
    <3>1. GateInv'
      BY <1>1, <1>2, <2>1, <2>3 DEF MigrationInv, GateInv
    <3>2. CutoverComplete' /\ GrantInv'
      BY <1>1, <2>1, <2>3, GrantsStay DEF MigrationInv, CutoverComplete, Row
    <3> QED
      BY <2>1, <2>2, <3>1, <3>2 DEF MigrationInv
  <2>4. CASE backend = "postgres"
    <3>1. /\ users["sqlite"] = {} /\ \A g \in Grants : grants["sqlite"][g] = NoRow
          /\ users'["postgres"] = users["postgres"] /\ grants'["postgres"] = grants["postgres"]
      BY <2>4, LateCommit
    <3>2. GateInv'
      BY <1>1, <2>4 DEF MigrationInv, GateInv
    <3>3. CutoverComplete'
      BY <1>1, <2>1, <3>1 DEF MigrationInv, CutoverComplete
    <3>4. GrantInv'
      BY <1>1, <2>4, <3>1, GrantsStay DEF MigrationInv, Row
    <3> QED
      BY <2>1, <2>2, <3>2, <3>3, <3>4 DEF MigrationInv
  <2> QED
    BY <2>3, <2>4 DEF MigrationInv, TypeInv, Backends
<1> QED
  BY <1>4, <1>5 DEF OrphanEnds

-----------------------------------------------------------------------------
(* The system *)

LEMMA InitHolds == Init => MigrationInv
<1> SUFFICES ASSUME Init PROVE MigrationInv
  OBVIOUS
<1>1. /\ running = TRUE /\ backend = "sqlite" /\ now = 0 /\ cookies = {}
      /\ request = [h \in Handlers |-> NoRequest] /\ grants = [b \in Backends |-> NoGrants]
      /\ audit = [logins |-> [g \in Grants |-> 0], revoked |-> {}]
      /\ users = [b \in Backends |-> {}] /\ sequence = [b \in Backends |-> 0]
      /\ snapshot = NoSnapshot /\ verified = {} /\ tool = [p \in Runs |-> Idle]
  BY DEF Init, EmergencyInit, NoGrants
<1>2. TypeInv
  <2>1. /\ running \in BOOLEAN /\ backend \in Backends /\ now \in Nat
        /\ grants \in [Backends -> GrantRows] /\ cookies \subseteq Cookie
        /\ request \in [Handlers -> Cookie \cup {NoRequest}]
    BY <1>1, IdleRun DEF Backends
  <2>2. audit \in [logins : [Grants -> Nat], revoked : SUBSET Grants]
    BY <1>1
  <2>3. /\ users \in [Backends -> SUBSET User] /\ sequence \in [Backends -> Nat]
        /\ verified \subseteq {"import", "reconcile"}
        /\ tool \in [Runs -> [action : {"none", "import", "reconcile"},
                              pc : {"idle", "lock", "work", "commit", "orphan"},
                              at : 0 .. 2, rows : [users : SUBSET User, grants : GrantRows]]]
    BY <1>1, IdleRun
  <2> QED
    BY <2>1, <2>2, <2>3 DEF TypeInv
<1>3. Quiet
  BY <1>1, IdleRun DEF Quiet, Live
<1>4. SnapshotInv
  BY <1>1, <1>3 DEF SnapshotInv, Backends
<1>5. ToolInv
  BY <1>1, IdleRun DEF ToolInv, RunInv
<1>6. GateInv /\ CutoverComplete
  BY <1>1 DEF GateInv, CutoverComplete
<1>7. GrantInv
  BY <1>1 DEF GrantInv, GrantsOf, Row, NoGrants, Backends
<1> QED
  BY <1>2, <1>4, <1>5, <1>6, <1>7 DEF MigrationInv

LEMMA NextKeeps == MigrationInv /\ [Next]_vars => MigrationInv'
<1> SUFFICES ASSUME MigrationInv, [Next]_vars PROVE MigrationInv'
  OBVIOUS
<1>1. CASE Application
  BY <1>1, EmergencyKeeps, UsersKeep DEF Application
<1>2. CASE Operator
  BY <1>2, StopKeeps, NewSnapshotKeeps, NewTargetKeeps, CutoverKeeps, RollBackKeeps, BeginKeeps
  DEF Operator
<1>3. ASSUME NEW p \in Runs, ToolStep(p)
      PROVE  MigrationInv'
  BY <1>3, LockKeeps, ImportKeeps, ImportVerifiedKeeps, ReconcileKeeps, OrphanKeeps
  DEF ToolStep
<1>4. CASE UNCHANGED vars
  <2>1. TypeInv'
    BY <1>4 DEF vars, emergencyVars, migrationVars, MigrationInv, TypeInv
  <2>2. UNCHANGED <<running, backend, grants, audit, request, migrationVars>>
    BY <1>4 DEF vars, emergencyVars
  <2> QED
    BY <2>1, <2>2, RowsStay
<1> QED
  BY <1>1, <1>2, <1>3, <1>4, GiveUpKeeps DEF Next

(* The invariant of the move, of the server and of the tool.               *)
THEOREM MigrationInvariant == Spec => []MigrationInv
BY InitHolds, NextKeeps, PTL DEF Spec

(* A grant is exchanged for a session once, whichever of the two databases *)
(* the server uses, however often it moves from one to the other and back. *)
THEOREM ExchangedOnce == Spec => []OneExchange
<1>1. MigrationInv => OneExchange
  <2> SUFFICES ASSUME MigrationInv, NEW g \in Grants PROVE audit.logins[g] <= 1
    BY DEF OneExchange
  <2>1. audit.logins[g] = 0 \/ audit.logins[g] = 1
    BY DEF MigrationInv, GrantInv
  <2> QED
    BY SMT, Z3, <2>1
<1> QED
  BY <1>1, MigrationInvariant, PTL

(* A server on PostgreSQL has all that SQLite had when it was left,        *)
(* whatever runs of the tool were repeated, overlapped or were cut off.    *)
THEOREM NothingIsLost == Spec => []CutoverComplete
<1>1. MigrationInv => CutoverComplete
  BY DEF MigrationInv
<1> QED
  BY <1>1, MigrationInvariant, PTL

(* Runs of the tool, any number of them, never wait for each other in a    *)
(* circle: one that waits for its second table waits for one that has      *)
(* both.                                                                   *)
THEOREM RunsDoNotDeadlock == Spec => []NoLockCycle
<1>1. MigrationInv => NoLockCycle
  <2> SUFFICES ASSUME MigrationInv, NEW p \in Runs, Live(p),
                      \A q \in Runs : tool[q] # Idle => Waiting(q)
               PROVE  FALSE
    BY DEF NoLockCycle
  <2>1. ASSUME NEW q \in Runs, tool[q] # Idle
        PROVE  \E r \in Runs : tool[r] # Idle /\ tool[q].at < tool[r].at
    <3>1. /\ tool[q].pc = "lock" /\ tool[q].at \in {0, 1}
          /\ Blocked(q, NextTable(q))
      BY <2>1 DEF Waiting, MigrationInv, ToolInv, RunInv
    <3>2. PICK r \in Runs : NextTable(q) \in Locked(r)
      BY <3>1 DEF Blocked
    <3>3. PICK i \in 1 .. tool[r].at : importTables[i] = importTables[tool[q].at + 1]
      BY <3>2 DEF Locked, NextTable, LockOrder
    <3>4. tool[r].at \in 0 .. 2 /\ tool[r].at # 0
      BY SMT, Z3, <3>3 DEF MigrationInv, TypeInv
    <3>5. i = tool[q].at + 1
      BY SMT, Z3, <3>1, <3>3, <3>4 DEF importTables
    <3>6. tool[r] # Idle
      BY <3>4, IdleRun
    <3> QED
      BY SMT, Z3, <3>1, <3>3, <3>4, <3>5, <3>6
  <2>2. \A q \in Runs : tool[q].at \in 0 .. 2
    BY DEF MigrationInv, TypeInv
  <2>3. tool[p] # Idle
    BY IdleRun DEF Live
  <2> QED
    BY SMT, Z3, <2>1, <2>2, <2>3
<1> QED
  BY <1>1, MigrationInvariant, PTL

(* No request passes the guard with a session whose grant was revoked,     *)
(* before or after the server moved to the other database.                 *)
THEOREM RevokedIsRefused == Spec => RevocationHolds
<1>1. MigrationInv /\ [Next]_vars =>
          [\A h \in Handlers :
               request'[h] \notin {NoRequest, request[h]} =>
                   /\ GrantsOf(request'[h].session) # {}
                   /\ GrantsOf(request'[h].session) \cap audit.revoked = {}]_request
  <2> SUFFICES ASSUME MigrationInv, Next, NEW h \in Handlers,
                      request'[h] \notin {NoRequest, request[h]}
               PROVE  /\ GrantsOf(request'[h].session) # {}
                      /\ GrantsOf(request'[h].session) \cap audit.revoked = {}
    BY DEF vars, emergencyVars
  <2>1. request \in [Handlers -> Cookie \cup {NoRequest}]
    BY DEF MigrationInv, TypeInv
  <2>2. EmergencyNext
    BY DEF Next, Application, Operator, ToolStep, CreateUserWithAudit, RemoveUser, StopServer,
           TakeSnapshot, MigratePostgres, StartOnSQLite, StartOnPostgres, RollBackToSQLite,
           Begin, ImportLock, ImportSQLite, ImportVerified, ReconcileLock, ReconcileSQLite,
           OrphanEnds, GiveUp, emergencyVars
  <2>3. PICK c \in cookies, k \in Handlers : adminGuard(k, c)
    BY <2>1, <2>2 DEF EmergencyNext, CreateEmergencyAdminGrantWithAudit,
           RevokeEmergencyAdminGrantWithAudit, emergencyLogin, ServeHTTP, logout,
           EditConfiguration, ConfigureEmergencyAdmin, Tick
  <2>4. request'[h] = c /\ c.session \in Sessions
    BY <2>1, <2>3 DEF adminGuard, MigrationInv, TypeInv, Cookie
  <2>5. PICK g \in GrantsOf(c.session) : Active(Row(g))
    BY <2>3 DEF adminGuard, ActiveEmergencyAdminSession
  <2>6. GrantsOf(c.session) = {g} /\ g \notin audit.revoked
    BY <2>4, <2>5 DEF MigrationInv, GrantInv, Active, GrantsOf
  <2> QED
    BY <2>4, <2>6
<1> QED
  BY <1>1, MigrationInvariant, PTL DEF Spec, RevocationHolds
-----------------------------------------------------------------------------
(* The users of the database in use *)

(* Users differ in identifier and username, and no identifier is beyond    *)
(* what the sequence has given out.                                        *)
Distinct(rows, last) ==
    /\ \A u, v \in rows : u.id = v.id \/ u.username = v.username => u = v
    /\ \A u \in rows : u.id <= last

UsersDistinct == Distinct(users[backend], sequence[backend])

(* SQLite is left as it was, for the way back.                             *)
UsersInv == UsersDistinct /\ Distinct(users["sqlite"], sequence["sqlite"])

(* A user with the next identifier and a new name.                         *)
LEMMA UserAdded ==
    ASSUME NEW rows \in SUBSET User, NEW last \in Nat, NEW name, Distinct(rows, last),
           \A u \in rows : u.username # name
    PROVE  Distinct(rows \cup {[id |-> last + 1, username |-> name]}, last + 1)
<1> DEFINE new == [id |-> last + 1, username |-> name]
<1>1. \A u \in rows : u.id \in Nat
  BY DEF User
<1>2. \A u \in rows : u.id <= last + 1 /\ u.id # last + 1
  BY SMT, Z3, <1>1 DEF Distinct
<1>3. last + 1 <= last + 1
  BY SMT, Z3
<1>4. new.id = last + 1 /\ new.username = name
  OBVIOUS
<1> HIDE DEF new
<1>5. \A u, v \in rows \cup {new} : u.id = v.id \/ u.username = v.username => u = v
  BY <1>2, <1>4 DEF Distinct
<1>6. \A u \in rows \cup {new} : u.id <= last + 1
  BY <1>2, <1>3, <1>4
<1> QED
  BY <1>5, <1>6 DEF Distinct, new

(* A user is created or removed.                                           *)
LEMMA UsersStep ==
    ASSUME MigrationInv, UsersInv,
           \/ \E name \in Names : CreateUserWithAudit(name)
           \/ \E u \in users["sqlite"] : RemoveUser(u)
    PROVE  UsersInv'
<1>1. /\ backend \in Backends /\ users \in [Backends -> SUBSET User]
      /\ sequence \in [Backends -> Nat] /\ Backends = {"sqlite", "postgres"}
  BY DEF MigrationInv, TypeInv, Backends
<1>2. ASSUME NEW name \in Names, CreateUserWithAudit(name)
      PROVE  UsersInv'
  <2>1. /\ users' = [users EXCEPT ![backend] =
                        @ \cup {[id |-> sequence[backend] + 1, username |-> name]}]
        /\ sequence' = [sequence EXCEPT ![backend] = sequence[backend] + 1]
        /\ backend' = backend
        /\ \A u \in users[backend] : u.username # name
    BY <1>2 DEF CreateUserWithAudit, emergencyVars
  <2>2. /\ users'[backend] = users[backend]
                                 \cup {[id |-> sequence[backend] + 1, username |-> name]}
        /\ sequence'[backend] = sequence[backend] + 1
        /\ \A b \in Backends \ {backend} : users'[b] = users[b] /\ sequence'[b] = sequence[b]
    BY <1>1, <2>1
  <2>3. users[backend] \in SUBSET User /\ sequence[backend] \in Nat
    BY <1>1
  <2>4. Distinct(users'[backend], sequence'[backend])
    <3>1. Distinct(users[backend], sequence[backend]) /\ \A u \in users[backend] : u.username # name
      BY <2>1 DEF UsersInv, UsersDistinct
    <3> DEFINE rows == users[backend]
               last == sequence[backend]
    <3>2. rows \in SUBSET User /\ last \in Nat /\ Distinct(rows, last)
          /\ \A u \in rows : u.username # name
      BY <2>3, <3>1
    <3> HIDE DEF rows, last
    <3>3. Distinct(rows \cup {[id |-> last + 1, username |-> name]}, last + 1)
      BY <3>2, UserAdded
    <3> QED
      BY <2>2, <3>3 DEF rows, last
  <2>5. backend = "sqlite" \/ (users'["sqlite"] = users["sqlite"]
                                  /\ sequence'["sqlite"] = sequence["sqlite"])
    BY <1>1, <2>2
  <2> QED
    BY <2>1, <2>4, <2>5 DEF UsersInv, UsersDistinct
<1>3. ASSUME NEW u \in users["sqlite"], RemoveUser(u)
      PROVE  UsersInv'
  <2>1. /\ backend = "sqlite" /\ backend' = backend /\ sequence' = sequence
        /\ users'["sqlite"] = users["sqlite"] \ {u}
    BY <1>1, <1>3 DEF RemoveUser, emergencyVars
  <2> QED
    BY <2>1 DEF UsersInv, UsersDistinct, Distinct
<1> QED
  BY <1>2, <1>3

(* A server that is started on PostgreSQL finds the users of the snapshot, *)
(* and one that goes back those that it had left.                          *)
LEMMA MovedUsers ==
    ASSUME MigrationInv, UsersInv, StartOnPostgres \/ RollBackToSQLite
    PROVE  UsersInv'
<1>1. UNCHANGED <<users, sequence>>
  BY DEF StartOnPostgres, RollBackToSQLite, migrationVars
<1>2. CASE RollBackToSQLite
  <2>1. backend' = "sqlite"
    BY <1>2 DEF RollBackToSQLite
  <2> QED
    BY <1>1, <2>1 DEF UsersInv, UsersDistinct
<1>3. CASE StartOnPostgres /\ backend = "postgres"
  <2>1. backend' = backend
    BY <1>3 DEF StartOnPostgres
  <2> QED
    BY <1>1, <2>1 DEF UsersInv, UsersDistinct
<1>4. CASE StartOnPostgres /\ backend # "postgres"
  <2>1. backend' = "postgres" /\ verified = {"import", "reconcile"}
    BY <1>4 DEF StartOnPostgres
  <2>2. backend = "sqlite"
    BY <1>4 DEF MigrationInv, TypeInv, Backends
  <2>3. snapshot = [users |-> users["sqlite"], grants |-> grants["sqlite"],
                    watermark |-> sequence["sqlite"]]
    BY <2>1 DEF MigrationInv, SnapshotInv
  <2>4. Data("postgres") = Normalised /\ sequence["postgres"] = snapshot.watermark
    BY <2>1, <2>2 DEF MigrationInv, GateInv
  <2>5. users["postgres"] = users["sqlite"] /\ sequence["postgres"] = sequence["sqlite"]
    <3>1. Data("postgres").users = users["postgres"]
      BY DEF Data
    <3>2. Normalised.users = snapshot.users
      BY DEF Normalised
    <3> QED
      BY <2>3, <2>4, <3>1, <3>2
  <2> QED
    BY <1>1, <2>1, <2>5 DEF UsersInv, UsersDistinct
<1> QED
  BY <1>2, <1>3, <1>4

(* The tool writes to PostgreSQL.  When the server is there already, a     *)
(* commit that comes late adds nothing.                                    *)
LEMMA ToolUsers ==
    ASSUME MigrationInv, UsersInv, NEW p \in Runs, ToolStep(p)
    PROVE  UsersInv'
<1>1. backend' = backend /\ users \in [Backends -> SUBSET User] /\ sequence \in [Backends -> Nat]
      /\ "sqlite" \in Backends /\ "postgres" \in Backends /\ backend \in {"sqlite", "postgres"}
  BY DEF ToolStep, ImportLock, ImportSQLite, ImportVerified, ReconcileLock, ReconcileSQLite,
         OrphanEnds, emergencyVars, MigrationInv, TypeInv, Backends
<1>2. users'["sqlite"] = users["sqlite"] /\ sequence'["sqlite"] = sequence["sqlite"]
  BY <1>1 DEF ToolStep, ImportLock, ImportSQLite, ImportVerified, ReconcileLock,
              ReconcileSQLite, OrphanEnds, CommitRows
<1>3. CASE backend = "sqlite"
  BY <1>1, <1>2, <1>3 DEF UsersInv, UsersDistinct
<1>4. CASE backend = "postgres"
  <2>1. tool[p].pc \notin {"lock", "work", "commit"}
    BY <1>4 DEF MigrationInv, SnapshotInv, Quiet, Live
  <2>2. OrphanEnds(p)
    BY <2>1 DEF ToolStep, ImportLock, ImportSQLite, ImportVerified, ReconcileLock, ReconcileSQLite
  <2>3. sequence' = sequence /\ users'["postgres"] = users["postgres"]
    BY <1>4, <2>2, LateCommit DEF OrphanEnds
  <2> QED
    BY <1>1, <1>2, <1>4, <2>3 DEF UsersInv, UsersDistinct
<1> QED
  BY <1>1, <1>3, <1>4

LEMMA UsersNext == MigrationInv /\ UsersInv /\ [Next]_vars => UsersInv'
<1> SUFFICES ASSUME MigrationInv, UsersInv, [Next]_vars PROVE UsersInv'
  OBVIOUS
<1>1. ASSUME UNCHANGED <<users, sequence, backend>> PROVE UsersInv'
  BY <1>1 DEF UsersInv, UsersDistinct
<1>2. CASE MigratePostgres
  <2>1. backend = "sqlite" /\ backend' = backend
        /\ users'["sqlite"] = users["sqlite"] /\ sequence'["sqlite"] = sequence["sqlite"]
    BY <1>2 DEF MigratePostgres, MigrationInv, TypeInv, Backends
  <2> QED
    BY <2>1 DEF UsersInv, UsersDistinct
<1>3. CASE EmergencyNext /\ UNCHANGED migrationVars
  <2>1. backend' = backend
    BY <1>3 DEF EmergencyNext, CreateEmergencyAdminGrantWithAudit,
                RevokeEmergencyAdminGrantWithAudit, emergencyLogin, adminGuard, ServeHTTP,
                logout, EditConfiguration, ConfigureEmergencyAdmin, Tick
  <2> QED
    BY <1>1, <1>3, <2>1 DEF migrationVars
<1>4. CASE Application
  BY <1>3, <1>4, UsersStep DEF Application
<1>5. CASE Operator
  <2>1. CASE \/ StopServer \/ TakeSnapshot \/ StartOnSQLite
             \/ \E p \in Runs, action \in {"import", "reconcile"} : Begin(p, action)
    BY <1>1, <2>1 DEF StopServer, TakeSnapshot, StartOnSQLite, Begin, emergencyVars, migrationVars
  <2> QED
    BY <1>2, <1>5, <2>1, MovedUsers DEF Operator
<1>6. ASSUME NEW p \in Runs, GiveUp(p) PROVE UsersInv'
  BY <1>1, <1>6 DEF GiveUp, emergencyVars
<1>7. CASE UNCHANGED vars
  BY <1>1, <1>7 DEF vars, emergencyVars, migrationVars
<1> QED
  BY <1>4, <1>5, <1>6, <1>7, ToolUsers DEF Next

(* In the database in use every user has an identifier and a username of   *)
(* their own, and the next identifier of CreateUserWithAudit is free: the  *)
(* primary key never refuses a new user, although the import sets the      *)
(* sequence outside its transaction and imports overlap, are repeated or   *)
(* commit after the server was started.                                    *)
THEOREM IdentifiersStayFree == Spec => []UsersDistinct
<1>1. Init => UsersInv
  BY DEF Init, EmergencyInit, UsersInv, UsersDistinct, Distinct, Backends
<1>2. UsersInv => UsersDistinct
  BY DEF UsersInv
<1> QED
  BY <1>1, <1>2, UsersNext, MigrationInvariant, PTL DEF Spec
-----------------------------------------------------------------------------
(* The audit log and the grants of the database in use *)

AuditComplete ==
    \A g \in Grants :
        /\ audit.logins[g] = 1 <=> (Row(g) # NoRow /\ Row(g).session # NoSession)
        /\ g \in audit.revoked <=> (Row(g) # NoRow /\ Row(g).revoked)

(* The rows in use say the same of logins and revocations as before.       *)
LEMMA AuditStays ==
    ASSUME AuditComplete, audit' = audit,
           \A g \in Grants : /\ (Row(g)' = NoRow) <=> (Row(g) = NoRow)
                             /\ Row(g) # NoRow => /\ Row(g)'.session = Row(g).session
                                                  /\ Row(g)'.revoked = Row(g).revoked
    PROVE  AuditComplete'
  BY DEF AuditComplete

(* What changes one row also writes the audit log.                         *)
LEMMA AuditOfOne ==
    ASSUME AuditComplete, NEW g \in Grants,
           \A h \in Grants \ {g} : /\ Row(h)' = Row(h) /\ audit'.logins[h] = audit.logins[h]
                                   /\ h \in audit'.revoked <=> h \in audit.revoked,
           audit'.logins[g] = 1 <=> (Row(g)' # NoRow /\ Row(g)'.session # NoSession),
           g \in audit'.revoked <=> (Row(g)' # NoRow /\ Row(g)'.revoked)
    PROVE  AuditComplete'
<1> SUFFICES ASSUME NEW h \in Grants
             PROVE  /\ audit'.logins[h] = 1 <=> (Row(h)' # NoRow /\ Row(h)'.session # NoSession)
                    /\ h \in audit'.revoked <=> (Row(h)' # NoRow /\ Row(h)'.revoked)
  BY DEF AuditComplete
<1>1. CASE h = g
  BY <1>1
<1>2. CASE h # g
  BY <1>2 DEF AuditComplete
<1> QED
  BY <1>1, <1>2

LEMMA AuditOfRevocation ==
    ASSUME MigrationInv, AuditComplete, NEW g \in Grants, revokeEmergencyAdminWithAudit(g),
           UNCHANGED backend
    PROVE  AuditComplete'
<1>1. /\ backend \in Backends /\ grants \in [Backends -> GrantRows]
      /\ audit \in [logins : [Grants -> Nat], revoked : SUBSET Grants]
  BY DEF MigrationInv, TypeInv
<1>2. grants[backend][g] \in GrantRow
  BY <1>1 DEF revokeEmergencyAdminWithAudit, Revocable, Row, GrantRows
<1>3. \A h \in Grants \ {g} : Row(h)' = Row(h)
  BY <1>1 DEF revokeEmergencyAdminWithAudit, Row, GrantRows
<1>4. Row(g)' \in GrantRow /\ Row(g)'.revoked /\ Row(g)'.session = Row(g).session
  BY <1>1, <1>2 DEF revokeEmergencyAdminWithAudit, Row, GrantRows, GrantRow
<1>5. audit'.logins = audit.logins /\ audit'.revoked = audit.revoked \cup {g}
  BY <1>1 DEF revokeEmergencyAdminWithAudit
<1>6. Row(g)' # NoRow /\ Row(g) # NoRow
  BY <1>2, <1>4, RowIsSome DEF Row
<1>7. audit.logins[g] = 1 <=> Row(g).session # NoSession
  BY <1>6 DEF AuditComplete
<1> QED
  BY <1>3, <1>4, <1>5, <1>6, <1>7, AuditOfOne

(* A new grant has no history: it would be in its row.                     *)
LEMMA AuditOfCreation ==
    ASSUME MigrationInv, AuditComplete, NEW g \in Grants, NEW lifetime \in Lifetimes,
           CreateEmergencyAdminGrantWithAudit(g, lifetime)
    PROVE  AuditComplete'
<1> DEFINE row == [expires |-> Stored(backend, now + lifetime), session |-> NoSession,
                   revoked |-> FALSE]
<1>1. backend \in Backends /\ grants \in [Backends -> GrantRows]
  BY DEF MigrationInv, TypeInv
<1>2. /\ grants[backend][g] = NoRow /\ grants' = [grants EXCEPT ![backend][g] = row]
      /\ UNCHANGED <<backend, audit>>
  BY <1>1 DEF CreateEmergencyAdminGrantWithAudit
<1>3. row.session = NoSession /\ row.revoked = FALSE
  OBVIOUS
<1> HIDE DEF row
<1>4. Row(g) = NoRow /\ Row(g)' = row /\ \A h \in Grants \ {g} : Row(h)' = Row(h)
  BY <1>1, <1>2 DEF Row, GrantRows
<1>5. audit.logins[g] # 1 /\ g \notin audit.revoked
  BY <1>4 DEF AuditComplete
<1> QED
  BY <1>2, <1>3, <1>4, <1>5, AuditOfOne

(* A grant that is exchanged was not exchanged before.                     *)
LEMMA AuditOfLogin ==
    ASSUME MigrationInv, AuditComplete, NEW g \in Grants, NEW s \in Sessions, NEW heard \in BOOLEAN,
           emergencyLogin(g, s, heard)
    PROVE  AuditComplete'
<1>1. /\ backend \in Backends /\ grants \in [Backends -> GrantRows]
      /\ audit \in [logins : [Grants -> Nat], revoked : SUBSET Grants]
  BY DEF MigrationInv, TypeInv
<1>2. /\ Row(g) # NoRow /\ Row(g).session = NoSession
      /\ grants' = [grants EXCEPT ![backend][g].session = s]
      /\ audit' = [audit EXCEPT !.logins[g] = @ + 1]
      /\ UNCHANGED backend
  BY DEF emergencyLogin, ConsumeEmergencyAdminGrantWithAudit, Consumable, Active
<1>3. grants[backend][g] \in GrantRow
  BY <1>1, <1>2 DEF Row, GrantRows
<1>4. \A h \in Grants \ {g} : Row(h)' = Row(h)
  BY <1>1, <1>2 DEF Row, GrantRows
<1>5. Row(g)' \in GrantRow /\ Row(g)'.revoked = Row(g).revoked /\ Row(g)'.session = s
  BY <1>1, <1>2, <1>3 DEF Row, GrantRows, GrantRow
<1>6. Row(g)' # NoRow /\ s # NoSession
  BY <1>5, RowIsSome, EmergencyBounds DEF NoSession
<1>7. /\ audit'.logins[g] = audit.logins[g] + 1 /\ audit'.revoked = audit.revoked
      /\ \A h \in Grants \ {g} : audit'.logins[h] = audit.logins[h]
  BY <1>1, <1>2
<1>8. audit.logins[g] = 0
  BY <1>2 DEF AuditComplete, MigrationInv, GrantInv
<1>9. audit'.logins[g] = 1
  BY SMT, Z3, <1>7, <1>8
<1>10. g \in audit.revoked <=> Row(g).revoked
  BY <1>2 DEF AuditComplete
<1> QED
  BY <1>4, <1>5, <1>6, <1>7, <1>9, <1>10, AuditOfOne

LEMMA AuditOfServer ==
    ASSUME MigrationInv, AuditComplete, EmergencyNext
    PROVE  AuditComplete'
<1>1. ASSUME UNCHANGED <<backend, grants, audit>> PROVE AuditComplete'
  BY <1>1, AuditStays DEF Row
<1>2. CASE \/ \E c \in cookies, h \in Handlers : adminGuard(h, c)
           \/ \E h \in Handlers : ServeHTTP(h)
           \/ EditConfiguration \/ ConfigureEmergencyAdmin \/ Tick
  BY <1>1, <1>2 DEF adminGuard, ServeHTTP, EditConfiguration, ConfigureEmergencyAdmin, Tick
<1>3. ASSUME NEW h \in Handlers, logout(h) PROVE AuditComplete'
  <2>1. UNCHANGED backend
    BY <1>3 DEF logout
  <2>2. \/ UNCHANGED <<grants, audit>>
        \/ \E g \in Grants : revokeEmergencyAdminWithAudit(g)
    BY <1>3 DEF logout, GrantsOf
  <2> QED
    BY <1>1, <2>1, <2>2, AuditOfRevocation
<1>4. ASSUME NEW g \in Grants, RevokeEmergencyAdminGrantWithAudit(g) PROVE AuditComplete'
  BY <1>4, AuditOfRevocation DEF RevokeEmergencyAdminGrantWithAudit
<1> QED
  BY <1>2, <1>3, <1>4, AuditOfCreation, AuditOfLogin DEF EmergencyNext

(* The rows that are found after a move say what those that are left said. *)
LEMMA AuditOfMove ==
    ASSUME MigrationInv, AuditComplete, StartOnPostgres \/ RollBackToSQLite
    PROVE  AuditComplete'
<1>1. UNCHANGED <<grants, audit>>
  BY DEF StartOnPostgres, RollBackToSQLite
<1>2. CASE StartOnPostgres /\ backend = "postgres"
  <2>1. backend' = backend
    BY <1>2 DEF StartOnPostgres
  <2> QED
    BY <1>1, <2>1, AuditStays DEF Row
<1>3. ASSUME snapshot # NoSnapshot, Data("postgres") = Normalised,
             {backend, backend'} = {"sqlite", "postgres"}
      PROVE  AuditComplete'
  <2>1. \A g \in Grants :
            LET old == grants["sqlite"][g]
                new == grants["postgres"][g]
            IN  /\ (new = NoRow) <=> (old = NoRow)
                /\ old # NoRow => new.session = old.session /\ new.revoked = old.revoked
    BY <1>3, ImportedGrants DEF MigrationInv
  <2>2. \/ backend = "sqlite" /\ backend' = "postgres"
        \/ backend = "postgres" /\ backend' = "sqlite"
    BY <1>3
  <2> QED
    BY <1>1, <2>1, <2>2, AuditStays DEF Row
<1>4. CASE StartOnPostgres /\ backend # "postgres"
  <2>1. backend = "sqlite" /\ backend' = "postgres" /\ verified = {"import", "reconcile"}
    BY <1>4 DEF StartOnPostgres, MigrationInv, TypeInv, Backends
  <2>2. snapshot # NoSnapshot /\ Data("postgres") = Normalised
    BY <2>1 DEF MigrationInv, SnapshotInv, GateInv
  <2> QED
    BY <1>3, <2>1, <2>2
<1>5. CASE RollBackToSQLite
  <2>1. /\ backend = "postgres" /\ backend' = "sqlite" /\ Data("postgres") = Normalised
    BY <1>5 DEF RollBackToSQLite
  <2>2. snapshot # NoSnapshot
    BY <2>1 DEF MigrationInv, SnapshotInv, GateInv
  <2> QED
    BY <1>3, <2>1, <2>2
<1> QED
  BY <1>2, <1>4, <1>5

(* The tool leaves the rows in use alone.                                  *)
LEMMA AuditOfTool ==
    ASSUME MigrationInv, AuditComplete, NEW p \in Runs, ToolStep(p)
    PROVE  AuditComplete'
<1>1. /\ UNCHANGED <<backend, audit>> /\ grants \in [Backends -> GrantRows]
      /\ "sqlite" \in Backends /\ "postgres" \in Backends /\ backend \in {"sqlite", "postgres"}
  BY DEF ToolStep, ImportLock, ImportSQLite, ImportVerified, ReconcileLock, ReconcileSQLite,
         OrphanEnds, emergencyVars, MigrationInv, TypeInv, Backends
<1>2. CASE backend = "sqlite"
  <2>1. grants'["sqlite"] = grants["sqlite"]
    BY <1>1 DEF ToolStep, ImportLock, ImportSQLite, ImportVerified, ReconcileLock,
                ReconcileSQLite, OrphanEnds, CommitRows, emergencyVars
  <2> QED
    BY <1>1, <1>2, <2>1, AuditStays DEF Row
<1>3. CASE backend = "postgres"
  <2>1. tool[p].pc \notin {"lock", "work", "commit"}
    BY <1>3 DEF MigrationInv, SnapshotInv, Quiet, Live
  <2>2. OrphanEnds(p)
    BY <2>1 DEF ToolStep, ImportLock, ImportSQLite, ImportVerified, ReconcileLock, ReconcileSQLite
  <2>3. grants'["postgres"] = grants["postgres"]
    BY <1>3, <2>2, LateCommit
  <2> QED
    BY <1>1, <1>3, <2>3, AuditStays DEF Row
<1> QED
  BY <1>1, <1>2, <1>3

LEMMA AuditNext == MigrationInv /\ AuditComplete /\ [Next]_vars => AuditComplete'
<1> SUFFICES ASSUME MigrationInv, AuditComplete, [Next]_vars PROVE AuditComplete'
  OBVIOUS
<1>1. ASSUME UNCHANGED <<backend, grants, audit>> PROVE AuditComplete'
  BY <1>1, AuditStays DEF Row
<1>2. CASE Application
  <2>1. CASE \/ \E name \in Names : CreateUserWithAudit(name)
             \/ \E u \in users["sqlite"] : RemoveUser(u)
    BY <1>1, <2>1 DEF CreateUserWithAudit, RemoveUser, emergencyVars
  <2> QED
    BY <1>2, <2>1, AuditOfServer DEF Application
<1>3. CASE MigratePostgres
  <2>1. backend = "sqlite" /\ UNCHANGED <<backend, audit>> /\ grants'["sqlite"] = grants["sqlite"]
    BY <1>3 DEF MigratePostgres, MigrationInv, TypeInv, Backends
  <2> QED
    BY <2>1, AuditStays DEF Row
<1>4. CASE Operator
  <2>1. CASE \/ StopServer \/ TakeSnapshot \/ StartOnSQLite
             \/ \E p \in Runs, action \in {"import", "reconcile"} : Begin(p, action)
    BY <1>1, <2>1 DEF StopServer, TakeSnapshot, StartOnSQLite, Begin, emergencyVars
  <2> QED
    BY <1>3, <1>4, <2>1, AuditOfMove DEF Operator
<1>5. ASSUME NEW p \in Runs, GiveUp(p) PROVE AuditComplete'
  BY <1>1, <1>5 DEF GiveUp, emergencyVars
<1>6. CASE UNCHANGED vars
  BY <1>1, <1>6 DEF vars, emergencyVars
<1> QED
  BY <1>2, <1>4, <1>5, <1>6, AuditOfTool DEF Next

(* The audit log is complete: it names the login of exactly the grants     *)
(* that are consumed in the database in use, and the revocation of exactly *)
(* those that are revoked there, whoever revoked them.  A move between the *)
(* databases, in either direction, loses neither.                          *)
THEOREM AuditIsComplete == Spec => []AuditComplete
<1>1. Init => AuditComplete
  <2> SUFFICES ASSUME Init, NEW g \in Grants
               PROVE  Row(g) = NoRow /\ audit.logins[g] # 1 /\ g \notin audit.revoked
    BY DEF AuditComplete
  <2>1. Row(g) = NoRow /\ audit.logins[g] = 0 /\ g \notin audit.revoked
    BY DEF Init, EmergencyInit, Row, Backends
  <2> QED
    BY SMT, Z3, <2>1
<1> QED
  BY <1>1, AuditNext, MigrationInvariant, PTL DEF Spec
=============================================================================
