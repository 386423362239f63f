--------------------------- MODULE EmergencyAdmin ---------------------------
(***************************************************************************)
(* Emergency administration: identity-admin issues and revokes grants, the *)
(* server exchanges one for a session, and the guard in front of the       *)
(* administration looks the session up for every request.                  *)
(*                                                                         *)
(* The rows are in the database that the configuration names, SQLite or    *)
(* PostgreSQL.  Time is counted in parts of a microsecond, because the two *)
(* databases and the cookie keep it with different precision.  A refused   *)
(* login changes only the counter of failed attempts, which SelfService    *)
(* models.                                                                 *)
(***************************************************************************)
EXTENDS Naturals

CONSTANTS
    Grants,     \* grants that newSecret may name
    Sessions,   \* session identifiers
    Lifetimes,  \* lifetimes that identity-admin accepts
    Handlers,   \* administrative requests handled at the same time
    Micro,      \* a microsecond, the precision of PostgreSQL
    Second,     \* a second, the precision of cookies and of CURRENT_TIMESTAMP in SQLite
    MaxTime     \* bound on the clock

ASSUME EmergencyBounds ==
    /\ MaxTime \in Nat /\ Micro \in Nat \ {0} /\ Second \in Nat \ {0}
    /\ Lifetimes \subseteq Nat \ {0}
    /\ "none" \notin Sessions

VARIABLES
    running,     \* the server is up, and identity-admin may be used
    backend,     \* database.backend of the configuration
    configured,  \* emergency_admin.enabled of the configuration file
    enabled,     \* emergencyAdminEnabled of the server, read when it started
    grants,      \* grants[b][g]: the row of g in emergency_admin_grants of b
    cookies,     \* swbadge_emergency_admin cookies in browsers
    request,     \* request[h]: the cookie of a request that passed the guard
    audit,       \* what audit_log says: logins[g], and the revoked grants
    now          \* the clock

emergencyVars ==
    <<running, backend, configured, enabled, grants, cookies, request, audit, now>>

Backends == {"sqlite", "postgres"}

NoRow == [expires |-> 0]

NoSession == "none"

(* consumed_at is set together with session_hash.                          *)
GrantRow == [expires : Nat, session : Sessions \cup {NoSession}, revoked : BOOLEAN]

Cookie == [session : Sessions, expires : Nat]

NoRequest == [session |-> NoSession, expires |-> 0]

Row(g) == grants[backend][g]

Floor(t, unit) == t - (t % unit)

(* A time as a column of database b keeps it.                              *)
Stored(b, t) == IF b = "postgres" THEN Floor(t, Micro) ELSE t

Active(row) == row # NoRow /\ ~row.revoked /\ row.expires > Stored(backend, now)

(* Revoking compares with CURRENT_TIMESTAMP.  In SQLite that is a text up  *)
(* to the seconds, which is before every time within its second.           *)
AfterCurrentTimestamp(expires) ==
    IF backend = "postgres" THEN expires > Floor(now, Micro) ELSE expires >= Floor(now, Second)

GrantsOf(s) == {g \in Grants : Row(g) # NoRow /\ Row(g).session = s}

Unused(s) == \A b \in Backends, g \in Grants : grants[b][g] # NoRow => grants[b][g].session # s

-----------------------------------------------------------------------------
(* identity-admin reads the configuration file each time it is called.     *)

CreateEmergencyAdminGrantWithAudit(g, lifetime) ==
    /\ running /\ configured /\ \A b \in Backends : grants[b][g] = NoRow
    /\ grants' = [grants EXCEPT ![backend][g] =
           [expires |-> Stored(backend, now + lifetime), session |-> NoSession, revoked |-> FALSE]]
    /\ UNCHANGED <<running, backend, configured, enabled, cookies, request, audit, now>>

Revocable(g) == Row(g) # NoRow /\ ~Row(g).revoked /\ AfterCurrentTimestamp(Row(g).expires)

revokeEmergencyAdminWithAudit(g) ==
    /\ Revocable(g)
    /\ grants' = [grants EXCEPT ![backend][g].revoked = TRUE]
    /\ audit' = [audit EXCEPT !.revoked = @ \cup {g}]

(* Refused while emergency access is switched off.                         *)
RevokeEmergencyAdminGrantWithAudit(g) ==
    /\ running /\ configured
    /\ revokeEmergencyAdminWithAudit(g)
    /\ UNCHANGED <<running, backend, configured, enabled, cookies, request, now>>

-----------------------------------------------------------------------------
(* The server *)

(* Faulty variant: consumed_at is not looked at.                           *)
ConsumableAgain(g) == Active(Row(g))

Consumable(g) == Active(Row(g)) /\ Row(g).session = NoSession

ConsumeEmergencyAdminGrantWithAudit(g, s) ==
    /\ Consumable(g)
    /\ grants' = [grants EXCEPT ![backend][g].session = s]
    /\ audit' = [audit EXCEPT !.logins[g] = @ + 1]

(* The answer with the cookie may be lost: then nobody has the session.    *)
emergencyLogin(g, s, heard) ==
    /\ running /\ enabled /\ Unused(s) /\ ConsumeEmergencyAdminGrantWithAudit(g, s)
    /\ cookies' = IF heard
                    THEN cookies \cup {[session |-> s, expires |-> Row(g).expires \div Second]}
                    ELSE cookies
    /\ UNCHANGED <<running, backend, configured, enabled, request, now>>

VerifyFor(c) == now \div Second <= c.expires

ActiveEmergencyAdminSession(c) == \E g \in GrantsOf(c.session) : Active(Row(g))

(* Faulty variant: the signature and the lifetime of the cookie suffice.   *)
adminGuardOfCookie(h, c) ==
    /\ running /\ request[h] = NoRequest
    /\ VerifyFor(c)
    /\ request' = [request EXCEPT ![h] = c]
    /\ UNCHANGED <<running, backend, configured, enabled, grants, cookies, audit, now>>

(* The flag is not asked here: a session ends with its row.                *)
adminGuard(h, c) ==
    /\ running /\ request[h] = NoRequest
    /\ VerifyFor(c) /\ ActiveEmergencyAdminSession(c)
    /\ request' = [request EXCEPT ![h] = c]
    /\ UNCHANGED <<running, backend, configured, enabled, grants, cookies, audit, now>>

(* The handler behind the guard is done; what it writes is elsewhere.      *)
ServeHTTP(h) ==
    /\ request[h] # NoRequest
    /\ request' = [request EXCEPT ![h] = NoRequest]
    /\ UNCHANGED <<running, backend, configured, enabled, grants, cookies, audit, now>>

(* The handler behind the guard is /logout.  The session may have been     *)
(* revoked or have run out since the guard: then there is no row to        *)
(* revoke, and the cookie is erased all the same.                          *)
logout(h) ==
    /\ request[h] # NoRequest
    /\ LET open == {g \in GrantsOf(request[h].session) : Revocable(g)}
       IN  IF VerifyFor(request[h]) /\ open # {}
             THEN \E g \in open : revokeEmergencyAdminWithAudit(g)
             ELSE UNCHANGED <<grants, audit>>
    /\ cookies' = cookies \ {request[h]}
    /\ request' = [request EXCEPT ![h] = NoRequest]
    /\ UNCHANGED <<running, backend, configured, enabled, now>>

(* The operator edits emergency_admin.enabled.                             *)
EditConfiguration ==
    /\ running /\ configured' = ~configured
    /\ UNCHANGED <<running, backend, enabled, grants, cookies, request, audit, now>>

(* The server is restarted: requests are cut off, the flag is read again.  *)
ConfigureEmergencyAdmin ==
    /\ running /\ enabled' = configured
    /\ request' = [h \in Handlers |-> NoRequest]
    /\ UNCHANGED <<running, backend, configured, grants, cookies, audit, now>>

Tick ==
    /\ now < MaxTime /\ now' = now + 1
    /\ UNCHANGED <<running, backend, configured, enabled, grants, cookies, request, audit>>

EmergencyInit ==
    /\ running = TRUE /\ backend = "sqlite" /\ configured = TRUE /\ enabled = TRUE /\ now = 0
    /\ grants = [b \in Backends |-> [g \in Grants |-> NoRow]]
    /\ cookies = {} /\ request = [h \in Handlers |-> NoRequest]
    /\ audit = [logins |-> [g \in Grants |-> 0], revoked |-> {}]

EmergencyNext ==
    \/ \E g \in Grants :
          \/ \E lifetime \in Lifetimes : CreateEmergencyAdminGrantWithAudit(g, lifetime)
          \/ RevokeEmergencyAdminGrantWithAudit(g)
          \/ \E s \in Sessions, heard \in BOOLEAN : emergencyLogin(g, s, heard)
    \/ \E c \in cookies, h \in Handlers : adminGuard(h, c)
    \/ \E h \in Handlers : ServeHTTP(h) \/ logout(h)
    \/ EditConfiguration \/ ConfigureEmergencyAdmin \/ Tick

-----------------------------------------------------------------------------
(* A grant is exchanged for a session once, whichever database was in use  *)
(* when it was issued and when it is presented again.                      *)
OneExchange == \A g \in Grants : audit.logins[g] <= 1

(* No request passes the guard with a session whose grant was revoked      *)
(* before, by identity-admin or by signing out, in either database.        *)
RevocationHolds ==
    [][\A h \in Handlers :
           request'[h] \notin {NoRequest, request[h]} =>
               /\ GrantsOf(request'[h].session) # {}
               /\ GrantsOf(request'[h].session) \cap audit.revoked = {}]_request
=============================================================================
