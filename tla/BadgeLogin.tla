----------------------------- MODULE BadgeLogin -----------------------------
(***************************************************************************)
(* A login with a badge: the greeter presents badge and PIN, the server    *)
(* answers with a one-time grant, the greeter leaves it in a file for the  *)
(* PAM helper, and the helper exchanges it for a Kerberos certificate.     *)
(*                                                                         *)
(* A handler reads the badge in one transaction and records the success in *)
(* another one; grants live in memory, behind a mutex.  Requests that are  *)
(* refused (unknown badge, wrong token, wrong PIN) change only the counter *)
(* of wrong PINs, and are left out.                                        *)
(***************************************************************************)
EXTENDS Badges

CONSTANTS
    Clients,       \* client ids
    HelperClient,  \* HelperClient[c]: the client id the PAM helper of c sends
    Handlers,      \* requests handled at the same time
    Grants,        \* grants generateLoginGrantToken may return
    GrantLifetime  \* 30 seconds

ASSUME HelperAssumption == HelperClient \in [Clients -> Clients]
ASSUME LoginAssumption == GrantLifetime \in Nat \ {0}
ASSUME NoGrantName == "none" \notin Grants

VARIABLES
    handler,   \* handler[h]: an authentication request being handled
    grants,    \* grants[g]: the login grant, or NoGrant
    origin,    \* origin[g]: the audit row auth_success of the login behind g
    file,      \* file[c]: user and grant in /run/swbadge/login-grant
    pam,       \* pam[c]: the PAM helper of c
    posted,    \* certificate requests the server has not handled yet
    certs,     \* certs[g]: certificates issued for g
    sessions   \* desktop sessions that were opened with a badge

serverVars == <<handler, grants, origin, certs>>

clientVars == <<file, pam, posted, sessions>>

vars == <<badges, now, serverVars, clientVars>>

NoGrant == [user |-> "none"]

Grant == [user : Users, client : Clients, expires : 0 .. MaxTime + GrantLifetime]

NoOrigin == [badge |-> 0]

Origin == [badge : 1 .. MaxBadges, user : Users, client : Clients, at : 0 .. MaxTime]

Idle == [pc |-> "idle"]

Handler == [pc : {"checked", "recorded", "saved"}, badge : 1 .. MaxBadges,
            user : Users, client : Clients, grant : Grants \cup {"none"}]

Helper == [pc : {"wait"}, user : Users, grant : Grants]
    \cup [pc : {"issued"}, user : Users, grant : Grants, name : Users]

Fresh(g) == origin[g] = NoOrigin

-----------------------------------------------------------------------------
(* POST /api/v1/auth/badge *)

(* The badge is enabled, and its token and the PIN, if there is one, are   *)
(* right.                                                                  *)
AuthRead(h, b, c) ==
    /\ handler[h] = Idle
    /\ badges[b].enabled
    /\ handler' = [handler EXCEPT ![h] =
           [pc |-> "checked", badge |-> b, user |-> badges[b].owner, client |-> c,
            grant |-> "none"]]
    /\ UNCHANGED <<badges, now, grants, origin, certs, clientVars>>

Row(h) == [badge |-> handler[h].badge, user |-> handler[h].user,
           client |-> handler[h].client, at |-> now]

Accept(h, g) ==
    /\ handler' = [handler EXCEPT ![h].pc = "recorded", ![h].grant = g]
    /\ origin' = [origin EXCEPT ![g] = Row(h)]

(* Faulty variant: the badge is not looked at again.                       *)
RecordUnchecked(h, g) ==
    /\ handler[h].pc = "checked" /\ Fresh(g)
    /\ Accept(h, g)
    /\ UNCHANGED <<badges, now, grants, certs, clientVars>>

(* A grant is generated; a badge that was revoked meanwhile is refused.    *)
RecordBadgeAuthenticationSuccess(h, g) ==
    /\ handler[h].pc = "checked" /\ Fresh(g)
    /\ IF badges[handler[h].badge].enabled
         THEN Accept(h, g)
         ELSE handler' = [handler EXCEPT ![h] = Idle] /\ UNCHANGED origin
    /\ UNCHANGED <<badges, now, grants, certs, clientVars>>

Expired(g) == grants[g] # NoGrant /\ grants[g].expires <= now

(* Grants that have expired are removed with the next one.                 *)
saveLoginGrant(h) ==
    /\ handler[h].pc = "recorded"
    /\ grants' = [g \in Grants |->
           IF g = handler[h].grant
             THEN [user |-> handler[h].user, client |-> handler[h].client,
                   expires |-> now + GrantLifetime]
             ELSE IF Expired(g) THEN NoGrant ELSE grants[g]]
    /\ handler' = [handler EXCEPT ![h].pc = "saved"]
    /\ UNCHANGED <<badges, now, origin, certs, clientVars>>

-----------------------------------------------------------------------------
(* The client *)

(* The greeter hears of the grant and replaces the file, or never does.    *)
GreeterAnswer(h, heard) ==
    /\ handler[h].pc = "saved"
    /\ file' = IF heard
                 THEN [file EXCEPT ![handler[h].client] =
                          [user |-> handler[h].user, grant |-> handler[h].grant]]
                 ELSE file
    /\ handler' = [handler EXCEPT ![h] = Idle]
    /\ UNCHANGED <<badges, now, grants, origin, certs, pam, posted, sessions>>

NoFile == [user |-> "none"]

(* LightDM authenticates u, whom the greeter or a keyboard named.  The     *)
(* file is gone even when it names another user.                           *)
HelperStart(c, u) ==
    /\ pam[c] = Idle /\ file[c] # NoFile
    /\ file' = [file EXCEPT ![c] = NoFile]
    /\ IF file[c].user = u
         THEN /\ pam' = [pam EXCEPT ![c] = [pc |-> "wait", user |-> u, grant |-> file[c].grant]]
              /\ posted' = posted \cup {[client |-> HelperClient[c], grant |-> file[c].grant]}
         ELSE UNCHANGED <<pam, posted>>
    /\ UNCHANGED <<badges, now, serverVars, sessions>>

(* Faulty variant: the client is not compared.                             *)
RedeemableAnywhere(m) ==
    grants[m.grant] # NoGrant /\ grants[m.grant].expires > now

Redeemable(m) ==
    /\ grants[m.grant] # NoGrant
    /\ grants[m.grant].client = m.client
    /\ grants[m.grant].expires > now

Waiting(m) ==
    {c \in Clients : pam[c].pc = "wait" /\ pam[c].grant = m.grant /\ HelperClient[c] = m.client}

(* The helpers that wait for the answer to m, if any, hear of it.          *)
Answer(m, helper) ==
    pam' = [c \in Clients |-> IF c \in Waiting(m) THEN helper[c] ELSE pam[c]]

(* Faulty variant: a grant may be used again.                              *)
IssueAgain(m) ==
    LET Issued == [c \in Waiting(m) |->
            [pc |-> "issued", user |-> pam[c].user, grant |-> m.grant,
             name |-> grants[m.grant].user]] IN
    /\ Redeemable(m)
    /\ certs' = [certs EXCEPT ![m.grant] = @ + 1]
    /\ Answer(m, Issued)
    /\ UNCHANGED <<badges, now, handler, grants, origin, file, sessions, posted>>

(* issuePKINIT: the grant is gone whether or not it was good; a malformed  *)
(* request or an audit row that cannot be written denies the certificate.  *)
IssuePKINIT(m) ==
    LET Issued == [c \in Waiting(m) |->
            [pc |-> "issued", user |-> pam[c].user, grant |-> m.grant,
             name |-> grants[m.grant].user]]
        Denied == [c \in Waiting(m) |-> Idle]
    IN  /\ posted' = posted \ {m}
        /\ grants' = [grants EXCEPT ![m.grant] = NoGrant]
        /\ \/ /\ Redeemable(m)
              /\ certs' = [certs EXCEPT ![m.grant] = @ + 1]
              /\ Answer(m, Issued)
           \/ UNCHANGED certs /\ Answer(m, Denied)
        /\ UNCHANGED <<badges, now, handler, origin, file, sessions>>

(* The certificate must name the user that logs in; then kinit runs.       *)
HelperDone(c) ==
    /\ pam[c].pc = "issued"
    /\ sessions' = IF pam[c].name = pam[c].user
                     THEN sessions \cup {[client |-> c, user |-> pam[c].user,
                                          grant |-> pam[c].grant]}
                     ELSE sessions
    /\ pam' = [pam EXCEPT ![c] = Idle]
    /\ UNCHANGED <<badges, now, serverVars, file, posted>>

(* The connection breaks, the helper is killed or kinit fails.             *)
HelperFails(c) ==
    /\ pam[c] # Idle
    /\ pam' = [pam EXCEPT ![c] = Idle]
    /\ UNCHANGED <<badges, now, serverVars, file, posted, sessions>>

-----------------------------------------------------------------------------
ServerRestart ==
    /\ grants' = [g \in Grants |-> NoGrant]
    /\ handler' = [h \in Handlers |-> Idle]
    /\ posted' = {}
    /\ UNCHANGED <<badges, now, origin, certs, file, pam, sessions>>

Tick ==
    /\ now < MaxTime /\ now' = now + 1
    /\ UNCHANGED <<badges, serverVars, clientVars>>

(* Administrators, and owners in self-service, change badges meanwhile.    *)
BadgeStep ==
    /\ \/ AdministerBadges
       \/ \E b \in BadgeIds, u \in Users :
              \/ RevokeActiveBadgeForUserWithAudit(b, u)
              \/ ActivatePendingBadgeForUserWithAudit(b, u)
    /\ UNCHANGED <<now, serverVars, clientVars>>

AuthStep(h) ==
    \/ \E b \in BadgeIds, c \in Clients : AuthRead(h, b, c)
    \/ \E g \in Grants : RecordBadgeAuthenticationSuccess(h, g)
    \/ saveLoginGrant(h)
    \/ \E heard \in BOOLEAN : GreeterAnswer(h, heard)

HelperStep(c) ==
    \/ \E u \in Users : HelperStart(c, u)
    \/ HelperDone(c) \/ HelperFails(c)

Init ==
    /\ BadgesInit
    /\ handler = [h \in Handlers |-> Idle]
    /\ grants = [g \in Grants |-> NoGrant] /\ origin = [g \in Grants |-> NoOrigin]
    /\ certs = [g \in Grants |-> 0]
    /\ file = [c \in Clients |-> NoFile] /\ pam = [c \in Clients |-> Idle]
    /\ posted = {} /\ sessions = {}

Next ==
    \/ \E h \in Handlers : AuthStep(h)
    \/ \E c \in Clients : HelperStep(c)
    \/ \E m \in posted : IssuePKINIT(m)
    \/ BadgeStep \/ ServerRestart \/ Tick

Spec == Init /\ [][Next]_vars

-----------------------------------------------------------------------------
TypeOK ==
    /\ BadgesTypeOK
    /\ handler \in [Handlers -> Handler \cup {Idle}]
    /\ grants \in [Grants -> Grant \cup {NoGrant}]
    /\ origin \in [Grants -> Origin \cup {NoOrigin}]
    /\ certs \in [Grants -> Nat]
    /\ file \in [Clients -> [user : Users, grant : Grants] \cup {NoFile}]
    /\ pam \in [Clients -> Helper \cup {Idle}]
    /\ posted \in SUBSET [client : Clients, grant : Grants]
    /\ sessions \in SUBSET [client : Clients, user : Users, grant : Grants]

(* A grant yields one certificate and one session, though requests may     *)
(* linger after their helper gave up and files may be left behind.         *)
OneUse ==
    /\ \A g \in Grants : certs[g] <= 1
    /\ \A s, t \in sessions : s.grant = t.grant => s = t

(* A session was opened by the owner of the badge that was presented, at   *)
(* the client it was presented to, and is in the audit log.                *)
SessionBacked ==
    \A s \in sessions :
        /\ origin[s.grant] # NoOrigin
        /\ badges[origin[s.grant].badge].owner = s.user
        /\ origin[s.grant].client = HelperClient[s.client]
        /\ certs[s.grant] = 1

(* No login is accepted after the badge was revoked, although the request  *)
(* read the badge before: the audit row is not younger than revoked_at.    *)
NoLoginAfterRevocation ==
    \A g \in Grants :
        origin[g] # NoOrigin => origin[g].at <= badges[origin[g].badge].revokedAt
=============================================================================
