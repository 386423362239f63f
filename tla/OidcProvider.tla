---------------------------- MODULE OidcProvider ----------------------------
(***************************************************************************)
(* The OIDC provider: authorization with a directory password, exchange of *)
(* a one-time code for an ID token and an opaque access token, central     *)
(* revocation, and the administration of the registered applications.      *)
(*                                                                         *)
(* Each request is handled by a goroutine h; a handler runs several        *)
(* transactions, and requests interleave between them.  A handler that     *)
(* fails answers with an error and changes nothing.  Scopes are vouched    *)
(* and copied as redirect URIs are and are left out; so are audit rows,    *)
(* which share the transactions, and the rate limit in front of each       *)
(* endpoint.                                                               *)
(***************************************************************************)
EXTENDS Naturals

CONSTANTS
    Clients,        \* client ids
    Users,          \* directory accounts
    Uris,           \* redirect URIs
    Codes,          \* authorization codes rand.Read may return
    Tokens,         \* access tokens rand.Read may return
    Subjects,       \* subject identifiers rand.Read may return
    Handlers,       \* requests handled at the same time
    CodeLifetime,   \* 90 seconds
    TokenLifetime,  \* 5 minutes
    Retention,      \* 7 days
    MaxSecret,      \* bound on secret rotations
    MaxTime         \* bound on the clock

ASSUME LifetimeAssumption ==
    CodeLifetime \in Nat \ {0} /\ TokenLifetime \in Nat \ {0} /\ Retention \in Nat
ASSUME BoundAssumption == MaxSecret \in Nat /\ MaxTime \in Nat
ASSUME SubjectAssumption == "none" \notin Subjects

VARIABLES
    client,   \* client[c]: the row of a registered application
    row,      \* users with a row in the users table
    subject,  \* subject[u]: oidc_subject, "none" when empty
    code,     \* code[k]: the row of an authorization code
    session,  \* session[t]: the row of an access token
    active,   \* accounts that the directory accepts
    handler,  \* handler[h]: a request being handled
    now,      \* the clock
    vouched,  \* history: codes whose user the directory accepted in an exchange
    refused,  \* history: codes of exchanges that were refused before any succeeded
    ended     \* history: sessions that an administrator or a client ended

tableVars == <<client, row, subject, code, session>>

vars == <<tableVars, active, handler, now, vouched, refused, ended>>

Time == 0 .. MaxTime + CodeLifetime + TokenLifetime

Client == [state : {"absent", "enabled", "disabled"}, uris : SUBSET Uris,
           secret : 0 .. MaxSecret]

CodeRow == [state : {"absent"}]
    \cup [state : {"open", "used", "denied", "deleted"}, client : Clients,
          user : Users, uri : Uris, expires : Time]

SessionRow == [state : {"absent"}]
    \cup [state : {"valid", "revoked", "deleted"}, client : Clients, user : Users,
          code : Codes, sub : Subjects, issued : Time, expires : Time]

Handler == [pc : {"idle"}]
    \cup [pc : {"login", "lookup", "provision", "subject", "issue"},
          client : Clients, user : Users, uri : Uris]
    \cup [pc : {"read"}, client : Clients, code : Codes, uri : Uris, pkce : BOOLEAN]
    \cup [pc : {"directory", "link", "deny"}, client : Clients, code : Codes,
          uri : Uris, at : Time]
    \cup [pc : {"commit"}, client : Clients, code : Codes, uri : Uris, at : Time,
          sub : Subjects, expires : Time]
    \cup [pc : {"revoke"}, client : Clients, token : Tokens]

Absent == [state |-> "absent"]

Idle == [pc |-> "idle"]

Enabled(c) == client[c].state = "enabled"

(* The condition of every statement that redeems a code.                   *)
Redeemable(k, c, uri, at) ==
    /\ code[k].state = "open"
    /\ code[k].client = c /\ code[k].uri = uri
    /\ code[k].expires >= at

(* What introspection answers to client c.                                 *)
IntrospectActive(c, t) ==
    /\ session[t].state = "valid"
    /\ session[t].client = c /\ session[t].expires > now
    /\ Enabled(c)

Existing == {t \in Tokens : session[t].state # "absent"}

Go(h, pc) == handler' = [handler EXCEPT ![h].pc = pc]

Done(h) == handler' = [handler EXCEPT ![h] = Idle]

-----------------------------------------------------------------------------
(* POST /oauth2/authorize *)

Authorize(h, c, u, uri) ==
    /\ handler[h] = Idle
    /\ Enabled(c) /\ uri \in client[c].uris
    /\ handler' = [handler EXCEPT ![h] = [pc |-> "login", client |-> c, user |-> u,
                                          uri |-> uri]]
    /\ UNCHANGED <<tableVars, active, now, vouched, refused, ended>>

AuthenticateUser(h) ==
    /\ handler[h].pc = "login"
    /\ \/ handler[h].user \in active /\ Go(h, "lookup")
       \/ handler[h].user \notin active /\ Done(h)
    /\ UNCHANGED <<tableVars, active, now, vouched, refused, ended>>

UserByUsername(h) ==
    /\ handler[h].pc = "lookup"
    /\ Go(h, IF handler[h].user \in row THEN "subject" ELSE "provision")
    /\ UNCHANGED <<tableVars, active, now, vouched, refused, ended>>

(* The username is unique: the second of two first logins fails here.      *)
CreateUser(h) ==
    /\ handler[h].pc = "provision"
    /\ \/ /\ handler[h].user \notin row
          /\ row' = row \cup {handler[h].user}
          /\ Go(h, "subject")
       \/ handler[h].user \in row /\ Done(h) /\ UNCHANGED row
    /\ UNCHANGED <<client, subject, code, session, active, now, vouched, refused, ended>>

(* Faulty variant: the subject is written without looking for one.         *)
EnsureSubjectAlways(u, s) ==
    s \notin {subject[v] : v \in Users} /\ subject' = [subject EXCEPT ![u] = s]

(* The user's subject is s afterwards; random subjects do not collide.     *)
EnsureSubject(u, s) ==
    \/ subject[u] = s /\ UNCHANGED subject
    \/ /\ subject[u] = "none" /\ s \notin {subject[v] : v \in Users}
       /\ subject' = [subject EXCEPT ![u] = s]

LinkUser(h) ==
    /\ handler[h].pc = "subject"
    /\ \E s \in Subjects : EnsureSubject(handler[h].user, s)
    /\ Go(h, "issue")
    /\ UNCHANGED <<client, row, code, session, active, now, vouched, refused, ended>>

(* CreateOIDCCodeWithAudit also deletes codes that have expired.           *)
CreateCode(h, k) ==
    LET r == handler[h] IN
    /\ r.pc = "issue" /\ code[k].state = "absent"
    /\ code' = [x \in Codes |->
            IF x = k THEN [state |-> "open", client |-> r.client, user |-> r.user,
                           uri |-> r.uri, expires |-> now + CodeLifetime]
            ELSE IF code[x].state # "absent" /\ code[x].expires < now
                 THEN [code[x] EXCEPT !.state = "deleted"]
            ELSE code[x]]
    /\ Done(h)
    /\ UNCHANGED <<client, row, subject, session, active, now, vouched, refused, ended>>

-----------------------------------------------------------------------------
(* POST /oauth2/token *)

(* authenticateClient: the secret is current when it is checked.           *)
Token(h, c, secret, k, uri, pkce) ==
    /\ handler[h] = Idle
    /\ Enabled(c) /\ client[c].secret = secret
    /\ handler' = [handler EXCEPT ![h] = [pc |-> "read", client |-> c, code |-> k,
                                          uri |-> uri, pkce |-> pkce]]
    /\ UNCHANGED <<tableVars, active, now, vouched, refused, ended>>

(* The exchange time is taken here and used by all later statements.       *)
OIDCCodeForExchange(h) ==
    LET r == handler[h] IN
    /\ r.pc = "read"
    /\ \/ /\ Redeemable(r.code, r.client, r.uri, now)
          /\ handler' = [handler EXCEPT ![h] =
                [pc |-> IF r.pkce THEN "directory" ELSE "deny", client |-> r.client,
                 code |-> r.code, uri |-> r.uri, at |-> now]]
       \/ ~Redeemable(r.code, r.client, r.uri, now) /\ Done(h)
    /\ UNCHANGED <<tableVars, active, now, vouched, refused, ended>>

(* Faulty variant: an account that was deactivated is not noticed.         *)
DirectoryNotAsked(h) ==
    /\ handler[h].pc = "directory" /\ Go(h, "link")
    /\ UNCHANGED <<tableVars, active, now, vouched, refused, ended>>

DirectoryGetUser(h) ==
    LET k == handler[h].code IN
    /\ handler[h].pc = "directory"
    /\ \/ code[k].user \in active /\ Go(h, "link") /\ vouched' = vouched \cup {k}
       \/ code[k].user \notin active /\ Go(h, "deny") /\ UNCHANGED vouched
    /\ UNCHANGED <<tableVars, active, now, refused, ended>>

(* The subject goes into the ID token, which is signed before the commit.  *)
PrepareTokens(h) ==
    LET r == handler[h] IN
    /\ r.pc = "link"
    /\ \E s \in Subjects :
          /\ EnsureSubject(code[r.code].user, s)
          /\ handler' = [handler EXCEPT ![h] =
                [pc |-> "commit", client |-> r.client, code |-> r.code, uri |-> r.uri,
                 at |-> r.at, sub |-> s, expires |-> now + TokenLifetime]]
    /\ UNCHANGED <<client, row, code, session, active, now, vouched, refused, ended>>

Issue(r, t) ==
    session' = [x \in Tokens |->
        IF x = t THEN [state |-> "valid", client |-> r.client,
                       user |-> code[r.code].user, code |-> r.code, sub |-> r.sub,
                       issued |-> r.at, expires |-> r.expires]
        ELSE IF session[x].state # "absent" /\ session[x].expires + Retention < r.at
             THEN [session[x] EXCEPT !.state = "deleted"]
        ELSE session[x]]

(* Faulty variant: a token issued while another request consumed the code  *)
(* is not withheld.                                                        *)
CommitUnchecked(h, t) ==
    LET r == handler[h] IN
    /\ r.pc = "commit" /\ session[t].state = "absent"
    /\ code[r.code].state # "denied"
    /\ code' = [code EXCEPT ![r.code].state = "used"] /\ Issue(r, t)
    /\ Done(h)
    /\ UNCHANGED <<client, row, subject, active, now, vouched, refused, ended>>

(* Consumption, session and audit are one transaction; a code that another *)
(* request has consumed in the meantime yields no token.                   *)
ConsumeCodeWithSession(h, t) ==
    LET r == handler[h] IN
    /\ r.pc = "commit" /\ session[t].state = "absent"
    /\ \/ /\ Redeemable(r.code, r.client, r.uri, r.at)
          /\ code' = [code EXCEPT ![r.code].state = "used"] /\ Issue(r, t)
       \/ /\ ~Redeemable(r.code, r.client, r.uri, r.at)
          /\ UNCHANGED <<code, session>>
    /\ Done(h)
    /\ UNCHANGED <<client, row, subject, active, now, vouched, refused, ended>>

Refuse(k) ==
    refused' = IF \E t \in Existing : session[t].code = k THEN refused
               ELSE refused \cup {k}

ConsumeDeniedCode(h) ==
    LET r == handler[h] IN
    /\ r.pc = "deny"
    /\ code' = IF Redeemable(r.code, r.client, r.uri, r.at)
               THEN [code EXCEPT ![r.code].state = "denied"] ELSE code
    /\ Refuse(r.code) /\ Done(h)
    /\ UNCHANGED <<client, row, subject, session, active, now, vouched, ended>>

-----------------------------------------------------------------------------
(* POST /oauth2/revoke, and the pages of administrators *)

Revoke(h, c, secret, t) ==
    /\ handler[h] = Idle
    /\ Enabled(c) /\ client[c].secret = secret
    /\ handler' = [handler EXCEPT ![h] = [pc |-> "revoke", client |-> c, token |-> t]]
    /\ UNCHANGED <<tableVars, active, now, vouched, refused, ended>>

(* The sessions in S are revoked unless they are already.                  *)
RevokeSessions(S) ==
    session' = [t \in Tokens |-> IF t \in S /\ session[t].state = "valid"
                                 THEN [session[t] EXCEPT !.state = "revoked"]
                                 ELSE session[t]]

RevokeByTokenHash(h) ==
    LET mine == {t \in Existing : t = handler[h].token
                                  /\ session[t].client = handler[h].client}
    IN /\ handler[h].pc = "revoke"
       /\ RevokeSessions(mine) /\ ended' = ended \cup mine
       /\ Done(h)
       /\ UNCHANGED <<client, row, subject, code, active, now, vouched, refused>>

RevokeOIDCSession(t) ==
    /\ t \in Existing
    /\ RevokeSessions({t}) /\ ended' = ended \cup {t}
    /\ UNCHANGED <<client, row, subject, code, active, handler, now, vouched, refused>>

(* Bulk revocation skips sessions that have expired.                       *)
RevokeBulk(S) ==
    /\ RevokeSessions({t \in S : session[t].expires > now}) /\ ended' = ended \cup S
    /\ UNCHANGED <<client, row, subject, code, active, handler, now, vouched, refused>>

RevokeOIDCSessionsByUser(u) == RevokeBulk({t \in Existing : session[t].user = u})

RevokeOIDCSessionsByClient(c) == RevokeBulk({t \in Existing : session[t].client = c})

RevokeAllOIDCSessions == RevokeBulk(Existing)

CreateOIDCClient(c, uris) ==
    /\ client[c].state = "absent" /\ uris # {}
    /\ client' = [client EXCEPT ![c] = [state |-> "enabled", uris |-> uris, secret |-> 0]]
    /\ UNCHANGED <<row, subject, code, session, active, handler, now, vouched, refused, ended>>

RotateOIDCClientSecret(c) ==
    /\ client[c].state # "absent" /\ client[c].secret < MaxSecret
    /\ client' = [client EXCEPT ![c].secret = @ + 1]
    /\ UNCHANGED <<row, subject, code, session, active, handler, now, vouched, refused, ended>>

UpdateOIDCClientConfiguration(c, uris) ==
    /\ client[c].state # "absent" /\ uris # {}
    /\ client' = [client EXCEPT ![c].uris = uris]
    /\ UNCHANGED <<row, subject, code, session, active, handler, now, vouched, refused, ended>>

EnableOIDCClient(c) ==
    /\ client[c].state # "absent"
    /\ client' = [client EXCEPT ![c].state = "enabled"]
    /\ UNCHANGED <<row, subject, code, session, active, handler, now, vouched, refused, ended>>

(* Faulty variant: the sessions of a disabled client are only hidden.      *)
DisableHides(c) ==
    /\ client[c].state # "absent"
    /\ client' = [client EXCEPT ![c].state = "disabled"]
    /\ ended' = ended \cup {t \in Existing : session[t].client = c}
    /\ UNCHANGED <<row, subject, code, session, active, handler, now, vouched, refused>>

(* Disabling a client also revokes its sessions, in one transaction.       *)
DisableOIDCClient(c) ==
    LET its == {t \in Existing : session[t].client = c} IN
    /\ client[c].state # "absent"
    /\ client' = [client EXCEPT ![c].state = "disabled"]
    /\ RevokeSessions(its) /\ ended' = ended \cup its
    /\ UNCHANGED <<row, subject, code, active, handler, now, vouched, refused>>

-----------------------------------------------------------------------------
(* The directory and the clock *)

DirectoryChange(u) ==
    /\ active' = IF u \in active THEN active \ {u} ELSE active \cup {u}
    /\ UNCHANGED <<tableVars, handler, now, vouched, refused, ended>>

Tick ==
    /\ now < MaxTime /\ now' = now + 1
    /\ UNCHANGED <<tableVars, active, handler, vouched, refused, ended>>

-----------------------------------------------------------------------------
Init ==
    /\ client = [c \in Clients |-> [state |-> "absent", uris |-> {}, secret |-> 0]]
    /\ row = {} /\ subject = [u \in Users |-> "none"]
    /\ code = [k \in Codes |-> Absent] /\ session = [t \in Tokens |-> Absent]
    /\ active = Users /\ handler = [h \in Handlers |-> Idle]
    /\ now = 0 /\ vouched = {} /\ refused = {} /\ ended = {}

AuthorizeStep(h) ==
    \/ \E c \in Clients, u \in Users, uri \in Uris : Authorize(h, c, u, uri)
    \/ AuthenticateUser(h)
    \/ UserByUsername(h)
    \/ CreateUser(h)
    \/ LinkUser(h)
    \/ \E k \in Codes : CreateCode(h, k)

TokenStep(h) ==
    \/ \E c \in Clients, secret \in 0 .. MaxSecret, k \in Codes, uri \in Uris,
          pkce \in BOOLEAN : Token(h, c, secret, k, uri, pkce)
    \/ OIDCCodeForExchange(h)
    \/ DirectoryGetUser(h)
    \/ PrepareTokens(h)
    \/ \E t \in Tokens : ConsumeCodeWithSession(h, t)
    \/ ConsumeDeniedCode(h)

RevokeStep(h) ==
    \/ \E c \in Clients, secret \in 0 .. MaxSecret, t \in Tokens : Revoke(h, c, secret, t)
    \/ RevokeByTokenHash(h)

Administration ==
    \/ \E t \in Tokens : RevokeOIDCSession(t)
    \/ \E u \in Users : RevokeOIDCSessionsByUser(u)
    \/ \E c \in Clients : RevokeOIDCSessionsByClient(c)
    \/ RevokeAllOIDCSessions
    \/ \E c \in Clients, uris \in SUBSET Uris :
          CreateOIDCClient(c, uris) \/ UpdateOIDCClientConfiguration(c, uris)
    \/ \E c \in Clients :
          RotateOIDCClientSecret(c) \/ EnableOIDCClient(c) \/ DisableOIDCClient(c)

Next ==
    \/ \E h \in Handlers : AuthorizeStep(h) \/ TokenStep(h) \/ RevokeStep(h)
    \/ Administration
    \/ \E u \in Users : DirectoryChange(u)
    \/ Tick

Spec == Init /\ [][Next]_vars

-----------------------------------------------------------------------------
(* Rows, requests in flight and the clock keep their types.                *)
TypeOK ==
    /\ client \in [Clients -> Client]
    /\ row \subseteq Users /\ subject \in [Users -> Subjects \cup {"none"}]
    /\ code \in [Codes -> CodeRow] /\ session \in [Tokens -> SessionRow]
    /\ active \subseteq Users /\ handler \in [Handlers -> Handler]
    /\ now \in 0 .. MaxTime
    /\ vouched \subseteq Codes /\ refused \subseteq Codes /\ ended \subseteq Tokens

(* Requests that exchange the same code at the same time get one session   *)
(* between them, although token reads the code long before it consumes it; *)
(* and a code that failed the proof of possession or the directory check   *)
(* once is spent, also for an exchange that had read it before.            *)
OneOutcomePerCode ==
    \A t1, t2 \in Existing :
        /\ session[t1].code = session[t2].code => t1 = t2
        /\ session[t1].code \notin refused

(* A session belongs to the client and the user of its code, was requested *)
(* before the code expired, and the directory accepted the user during an  *)
(* exchange of that code.                                                  *)
SessionFromCode ==
    \A t \in Existing :
        LET s == session[t] IN
        /\ s.client = code[s.code].client /\ s.user = code[s.code].user
        /\ s.issued <= code[s.code].expires
        /\ s.code \in vouched

(* A session that was revoked, by its client, by an administrator or by    *)
(* disabling its client, is never introspected as active again, not even   *)
(* after the client is enabled again.                                      *)
EndedStaysEnded ==
    \A t \in ended, c \in Clients : ~IntrospectActive(c, t)

(* Applications identify a user by one subject for good: the subject of an *)
(* ID token is the one introspection reports, though both endpoints may    *)
(* create it at the same time (EnsureOIDCSubject).                         *)
OneSubjectPerUser == \A t \in Existing : session[t].sub = subject[session[t].user]
=============================================================================
