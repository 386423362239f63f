---------------------------- MODULE SelfService -----------------------------
(***************************************************************************)
(* The sessions of self-service: login with a directory password or a      *)
(* passkey, registration and removal of passkeys, logout.                  *)
(*                                                                         *)
(* A handler reads in one query and acts in a later transaction, so most   *)
(* requests are two steps.  Time passes in ticks longer than a ceremony    *)
(* lives.  Of the attempt counters in memory, the one of the password      *)
(* login is kept; those of the passkey handlers only refuse requests.      *)
(* Pages, PINs and the badge handlers (see Badges) are left out.           *)
(***************************************************************************)
EXTENDS Naturals, FiniteSets

CONSTANTS
    Users,             \* directory accounts
    Sessions,          \* session ids GenerateToken may return
    Ceremonies,        \* ceremony ids GenerateToken may return
    Passkeys,          \* credential ids
    Handlers,          \* requests handled at the same time
    SessionLifetime,   \* 15 minutes
    CeremonyLifetime,  \* 5 minutes
    LoginLimit,        \* 5 failed logins in ten minutes
    MaxCount,          \* bound on signature counters
    MaxTime            \* bound on the clock

ASSUME SelfServiceBounds ==
    /\ SessionLifetime \in Nat /\ CeremonyLifetime \in Nat
    /\ LoginLimit \in Nat \ {0} /\ MaxCount \in Nat /\ MaxTime \in Nat
    /\ IsFiniteSet(Handlers)
ASSUME SelfServiceNames == "none" \notin Users \cup Ceremonies \cup Passkeys

VARIABLES
    attempts,  \* failed password logins of one address in the window
    session,   \* session[s]: a row of self_service_sessions
    ceremony,  \* ceremony[m]: a row of webauthn_ceremonies
    passkey,   \* passkey[k]: a row of webauthn_credentials
    vouched,   \* history: registrations that began with the user's password
    handler,   \* handler[h]: a request being handled
    now        \* the clock

vars == <<attempts, session, ceremony, passkey, vouched, handler, now>>

Time == 0 .. MaxTime + SessionLifetime + CeremonyLifetime

Absent == [state |-> "absent"]

Idle == [pc |-> "idle"]

Assertion == [ceremony : Ceremonies, key : Passkeys, count : 0 .. MaxCount]

(* A session notes the ceremony, passkey and counter that opened it, if    *)
(* any.                                                                    *)
Session == [state : {"open", "revoked"}, user : Users, expires : Time,
            ceremony : Ceremonies \cup {"none"}, key : Passkeys \cup {"none"},
            count : 0 .. MaxCount]

Ceremony == [state : {"open", "used"}, kind : {"registration", "authentication"},
             user : Users \cup {"none"}, expires : Time]

Passkey == [state : {"valid", "removed"}, user : Users, count : 0 .. MaxCount,
            ceremony : Ceremonies \cup {"none"}]

Handler == [pc : {"password"}]
    \cup [pc : {"create"}, user : Users]
    \cup [pc : {"assert"}, by : Assertion, at : 0 .. MaxTime]
    \cup [pc : {"others", "logout", "begin"}, session : Sessions]
    \cup [pc : {"remove"}, session : Sessions, key : Passkeys]
    \cup [pc : {"register"}, session : Sessions, key : Passkeys,
          ceremony : Ceremonies, at : 0 .. MaxTime]

SessionActive(s, t) == session[s].state = "open" /\ session[s].expires >= t

Goto(h, to) == handler' = [handler EXCEPT ![h] = to]

-----------------------------------------------------------------------------
(* POST /self-service/login *)

(* Faulty variant: one failure too many is allowed.                        *)
AllowedOnceMore(h) ==
    /\ handler[h] = Idle /\ attempts <= LoginLimit
    /\ Goto(h, [pc |-> "password"])
    /\ UNCHANGED <<attempts, session, ceremony, passkey, vouched, now>>

loginAllowed(h) ==
    /\ handler[h] = Idle /\ attempts < LoginLimit
    /\ Goto(h, [pc |-> "password"])
    /\ UNCHANGED <<attempts, session, ceremony, passkey, vouched, now>>

(* The directory accepts the password of u, whose row in users is then     *)
(* found or made, or it does not.                                          *)
AuthenticateUser(h, u, right) ==
    /\ handler[h].pc = "password"
    /\ IF right
         THEN attempts' = 0 /\ Goto(h, [pc |-> "create", user |-> u])
         ELSE attempts' = attempts + 1 /\ Goto(h, Idle)
    /\ UNCHANGED <<session, ceremony, passkey, vouched, now>>

(* The user's row is neither found nor made: of two first logins at a time *)
(* one fails on the unique username.                                       *)
ProvisioningFails(h) ==
    /\ handler[h].pc = "create"
    /\ Goto(h, Idle)
    /\ UNCHANGED <<attempts, session, ceremony, passkey, vouched, now>>

NewSession(u, t, m, k, n) ==
    [state |-> "open", user |-> u, expires |-> t + SessionLifetime,
     ceremony |-> m, key |-> k, count |-> n]

CreateSelfServiceSessionWithAudit(h, s) ==
    /\ handler[h].pc = "create" /\ session[s] = Absent
    /\ session' = [session EXCEPT ![s] = NewSession(handler[h].user, now, "none", "none", 0)]
    /\ Goto(h, Idle)
    /\ UNCHANGED <<attempts, ceremony, passkey, vouched, now>>

(* The failed logins leave the window one after the other.                 *)
WindowPasses ==
    /\ attempts > 0 /\ attempts' = attempts - 1
    /\ UNCHANGED <<session, ceremony, passkey, vouched, handler, now>>

-----------------------------------------------------------------------------
(* Login with a passkey *)

CreateWebAuthnCeremony(m, kind, u) ==
    /\ ceremony[m] = Absent
    /\ ceremony' = [ceremony EXCEPT ![m] =
           [state |-> "open", kind |-> kind, user |-> u,
            expires |-> now + CeremonyLifetime]]

CeremonyActive(m, kind, t) ==
    /\ ceremony[m].state = "open"
    /\ ceremony[m].kind = kind /\ ceremony[m].expires >= t

passkeyLoginBegin(m) ==
    /\ CreateWebAuthnCeremony(m, "authentication", "none")
    /\ UNCHANGED <<attempts, session, passkey, vouched, handler, now>>

(* Faulty variant: the counter may stand still.                            *)
CountMayStand(previous, next) == next >= previous

validWebAuthnSignCount(previous, next) ==
    (previous = 0 /\ next = 0) \/ next > previous

Usable(a, t) ==
    /\ CeremonyActive(a.ceremony, "authentication", t)
    /\ passkey[a.key].state = "valid"
    /\ validWebAuthnSignCount(passkey[a.key].count, a.count)

(* An authenticator, or a copy of it with another counter, has signed the  *)
(* challenge: the assertion is verified against what the handler reads.    *)
passkeyLoginComplete(h, a) ==
    /\ handler[h] = Idle
    /\ Usable(a, now)
    /\ Goto(h, [pc |-> "assert", by |-> a, at |-> now])
    /\ UNCHANGED <<attempts, session, ceremony, passkey, vouched, now>>

Open(a, s, t) ==
    /\ session' = [session EXCEPT ![s] =
           NewSession(passkey[a.key].user, t, a.ceremony, a.key, a.count)]
    /\ passkey' = [passkey EXCEPT ![a.key].count = a.count]
    /\ ceremony' = [ceremony EXCEPT ![a.ceremony].state = "used"]

(* Faulty variant: the transaction trusts what was read before.            *)
CompleteUnchecked(h, s) ==
    /\ handler[h].pc = "assert" /\ session[s] = Absent
    /\ Open(handler[h].by, s, handler[h].at)
    /\ Goto(h, Idle)
    /\ UNCHANGED <<attempts, vouched, now>>

(* Faulty variant: a removed passkey still opens a session.                *)
CompleteRemoved(h, s) ==
    LET a == handler[h].by IN
    /\ handler[h].pc = "assert" /\ session[s] = Absent
    /\ CeremonyActive(a.ceremony, "authentication", handler[h].at)
    /\ validWebAuthnSignCount(passkey[a.key].count, a.count)
    /\ Open(a, s, handler[h].at)
    /\ Goto(h, Idle)
    /\ UNCHANGED <<attempts, vouched, now>>

(* Ceremony, passkey and counter are checked again in the transaction.     *)
CompleteWebAuthnAuthentication(h, s) ==
    /\ handler[h].pc = "assert"
    /\ IF Usable(handler[h].by, handler[h].at)
         THEN session[s] = Absent /\ Open(handler[h].by, s, handler[h].at)
         ELSE UNCHANGED <<session, passkey, ceremony>>
    /\ Goto(h, Idle)
    /\ UNCHANGED <<attempts, vouched, now>>

-----------------------------------------------------------------------------
(* Handlers behind a session *)

Owner(h) == session[handler[h].session].user

(* selfServiceSession; where a password is asked for, the directory then   *)
(* accepts it.                                                             *)
CheckSession(h, s, to) ==
    /\ handler[h] = Idle /\ SessionActive(s, now)
    /\ Goto(h, to)
    /\ UNCHANGED <<attempts, session, ceremony, passkey, vouched, now>>

(* The current session is not looked at again.                             *)
RevokeOtherSelfServiceSessionsWithAudit(h) ==
    /\ handler[h].pc = "others"
    /\ session' = [s \in Sessions |->
           IF /\ SessionActive(s, now) /\ s # handler[h].session
              /\ session[s].user = Owner(h)
             THEN [session[s] EXCEPT !.state = "revoked"] ELSE session[s]]
    /\ Goto(h, Idle)
    /\ UNCHANGED <<attempts, ceremony, passkey, vouched, now>>

RevokeSelfServiceSessionWithAudit(h) ==
    /\ handler[h].pc = "logout"
    /\ session' = [session EXCEPT ![handler[h].session].state = "revoked"]
    /\ Goto(h, Idle)
    /\ UNCHANGED <<attempts, ceremony, passkey, vouched, now>>

passkeyRegistrationBegin(h, m) ==
    /\ handler[h].pc = "begin"
    /\ CreateWebAuthnCeremony(m, "registration", Owner(h))
    /\ vouched' = vouched \cup {[ceremony |-> m, user |-> Owner(h)]}
    /\ Goto(h, Idle)
    /\ UNCHANGED <<attempts, session, passkey, now>>

(* Faulty variant: any open registration will do.                          *)
RegistrationOfAnyone(m, u, t) == CeremonyActive(m, "registration", t)

RegistrationOf(m, u, t) == CeremonyActive(m, "registration", t) /\ ceremony[m].user = u

(* A credential id is the primary key of its table.                        *)
CompleteWebAuthnRegistration(h, n) ==
    LET m == handler[h].ceremony
        k == handler[h].key IN
    /\ handler[h].pc = "register"
    /\ IF RegistrationOf(m, Owner(h), handler[h].at) /\ passkey[k] = Absent
         THEN /\ passkey' = [passkey EXCEPT ![k] =
                     [state |-> "valid", user |-> Owner(h), count |-> n, ceremony |-> m]]
              /\ ceremony' = [ceremony EXCEPT ![m].state = "used"]
         ELSE UNCHANGED <<passkey, ceremony>>
    /\ Goto(h, Idle)
    /\ UNCHANGED <<attempts, session, vouched, now>>

RevokeWebAuthnCredentialWithAudit(h) ==
    LET k == handler[h].key IN
    /\ handler[h].pc = "remove"
    /\ passkey' = IF passkey[k].state = "valid" /\ passkey[k].user = Owner(h)
                    THEN [passkey EXCEPT ![k].state = "removed"] ELSE passkey
    /\ Goto(h, Idle)
    /\ UNCHANGED <<attempts, session, ceremony, vouched, now>>

-----------------------------------------------------------------------------
Tick ==
    /\ now < MaxTime /\ now' = now + 1
    /\ UNCHANGED <<attempts, session, ceremony, passkey, vouched, handler>>

PasswordLogin(h) ==
    \/ loginAllowed(h)
    \/ \E u \in Users, right \in BOOLEAN : AuthenticateUser(h, u, right)
    \/ ProvisioningFails(h)
    \/ \E s \in Sessions : CreateSelfServiceSessionWithAudit(h, s)

PasskeyLogin(h) ==
    \/ \E a \in Assertion : passkeyLoginComplete(h, a)
    \/ \E s \in Sessions : CompleteWebAuthnAuthentication(h, s)

Request(h, s) ==
    \/ \E op \in {"others", "logout", "begin"} :
           CheckSession(h, s, [pc |-> op, session |-> s])
    \/ \E k \in Passkeys : CheckSession(h, s, [pc |-> "remove", session |-> s, key |-> k])
    \/ \E m \in Ceremonies, k \in Passkeys :
           /\ RegistrationOf(m, session[s].user, now)
           /\ CheckSession(h, s, [pc |-> "register", session |-> s, key |-> k,
                                  ceremony |-> m, at |-> now])

Act(h) ==
    \/ RevokeOtherSelfServiceSessionsWithAudit(h)
    \/ RevokeSelfServiceSessionWithAudit(h)
    \/ \E m \in Ceremonies : passkeyRegistrationBegin(h, m)
    \/ \E n \in 0 .. MaxCount : CompleteWebAuthnRegistration(h, n)
    \/ RevokeWebAuthnCredentialWithAudit(h)

(* A passkey may have been registered earlier.                             *)
Init ==
    /\ session = [s \in Sessions |-> Absent]
    /\ ceremony = [m \in Ceremonies |-> Absent]
    /\ passkey \in [Passkeys -> [state : {"valid"}, user : Users, count : {0},
                                 ceremony : {"none"}] \cup {Absent}]
    /\ attempts = 0 /\ vouched = {}
    /\ handler = [h \in Handlers |-> Idle]
    /\ now = 0

Next ==
    \/ \E h \in Handlers : PasswordLogin(h) \/ PasskeyLogin(h) \/ Act(h)
    \/ \E h \in Handlers, s \in Sessions : session[s] # Absent /\ Request(h, s)
    \/ \E m \in Ceremonies : passkeyLoginBegin(m)
    \/ WindowPasses \/ Tick

Spec == Init /\ [][Next]_vars

-----------------------------------------------------------------------------
(* Rows, requests being handled and the clock keep their types.            *)
TypeOK ==
    /\ attempts \in Nat
    /\ session \in [Sessions -> Session \cup {Absent}]
    /\ ceremony \in [Ceremonies -> Ceremony \cup {Absent}]
    /\ passkey \in [Passkeys -> Passkey \cup {Absent}]
    /\ vouched \in SUBSET [ceremony : Ceremonies, user : Users]
    /\ handler \in [Handlers -> Handler \cup {Idle}]
    /\ now \in 0 .. MaxTime

Rows == {s \in Sessions : session[s] # Absent}

(* A ceremony is used once: two completions that both found it open yield  *)
(* one session, or one passkey.                                            *)
CeremonyUsedOnce ==
    /\ \A s, t \in Rows :
           session[s].ceremony # "none" /\ session[s].ceremony = session[t].ceremony => s = t
    /\ \A k, l \in Passkeys :
           /\ passkey[k] # Absent /\ passkey[l] # Absent
           /\ passkey[k].ceremony # "none" /\ passkey[k].ceremony = passkey[l].ceremony
           => k = l

(* A counter value of a passkey opens one session, even when a copy of the *)
(* authenticator signs at the same time; zero means there is no counter.   *)
CounterUsedOnce ==
    \A s, t \in Rows :
        /\ s # t /\ session[s].key # "none" /\ session[s].key = session[t].key
        => session[s].count # session[t].count \/ session[s].count = 0

(* Removing a passkey takes effect at once: a login that was verified      *)
(* before the removal does not open a session after it.                    *)
RemovalIsFinal ==
    [][\A s \in Sessions :
           /\ session[s] = Absent /\ session'[s] # Absent
           /\ session'[s].key # "none"
           => passkey[session'[s].key].state = "valid"]_vars

(* A passkey belongs to the user whose password began its registration,    *)
(* and opens only that user's sessions.                                    *)
PasskeyVouched ==
    /\ \A k \in Passkeys :
           passkey[k] # Absent /\ passkey[k].ceremony # "none" =>
               [ceremony |-> passkey[k].ceremony, user |-> passkey[k].user] \in vouched
    /\ \A s \in Rows : session[s].key # "none" => passkey[session[s].key].user = session[s].user

(* loginAllowed looks and loginFailed counts later, so concurrent requests *)
(* pass the limit, but by less than the requests handled at a time.        *)
AttemptsBounded == attempts <= LoginLimit + Cardinality(Handlers) - 1
=============================================================================
