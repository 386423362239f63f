----------------------------- MODULE OidcProofs -----------------------------
(***************************************************************************)
(* The properties of OidcProvider for any number of applications, users,   *)
(* codes, tokens and requests at a time.                                   *)
(*                                                                         *)
(* They are not inductive: a request reads a code in one transaction and   *)
(* consumes it in a later one.  OidcInv adds what such a request may still *)
(* rely on (RequestInv), and that a code with a session or a refusal is    *)
(* not open any more (SessionInv, RefusedInv).                             *)
(***************************************************************************)
EXTENDS OidcProvider, TLAPS

(* Leaves are proved by Zenon, unless they name their provers: SMT, and    *)
(* then Z3, where arithmetic or sequences matter; PTL for temporal steps.  *)
USE ZenonT(100)

(* A request past the first look at its code.                              *)
Exchanging == {"directory", "link", "deny", "commit"}

Closed(k) == code[k].state \notin {"absent", "open"}

RequestOK(h) ==
    LET r == handler[h] IN
    /\ r.pc \in Exchanging =>
           /\ code[r.code].state # "absent"
           /\ code[r.code].client = r.client /\ code[r.code].uri = r.uri
           /\ r.at <= code[r.code].expires
    /\ r.pc \in {"link", "commit"} => r.code \in vouched
    /\ r.pc = "commit" => subject[code[r.code].user] = r.sub

RequestInv == \A h \in Handlers : RequestOK(h)

RefusedInv == \A k \in refused : Closed(k)

SessionOK(t) ==
    LET s == session[t] IN
    s.state # "absent" =>
        /\ Closed(s.code) /\ s.code \notin refused /\ s.code \in vouched
        /\ s.client = code[s.code].client /\ s.user = code[s.code].user
        /\ s.issued <= code[s.code].expires
        /\ s.sub = subject[s.user]

SessionInv == \A t \in Tokens : SessionOK(t)

OneSession ==
    \A t1, t2 \in Tokens :
        /\ session[t1].state # "absent" /\ session[t2].state # "absent"
        /\ session[t1].code = session[t2].code
        => t1 = t2

(* An ended session is not valid any more, or it has run out.              *)
EndedOK(t) ==
    /\ session[t].state # "absent"
    /\ session[t].state # "valid" \/ session[t].expires <= now

EndedInv == \A t \in ended : EndedOK(t)

OidcInv ==
    TypeOK /\ RequestInv /\ RefusedInv /\ SessionInv /\ OneSession /\ EndedInv

-----------------------------------------------------------------------------
(* Rows and requests *)

CodeWritten == [state : {"open", "used", "denied", "deleted"}, client : Clients,
                user : Users, uri : Uris, expires : Time]

SessionWritten == [state : {"valid", "revoked", "deleted"}, client : Clients,
                   user : Users, code : Codes, sub : Subjects, issued : Time,
                   expires : Time]

AuthorizeRequest == [pc : {"login", "lookup", "provision", "subject", "issue"},
                     client : Clients, user : Users, uri : Uris]

ReadRequest == [pc : {"read"}, client : Clients, code : Codes, uri : Uris, pkce : BOOLEAN]

ExchangeRequest == [pc : {"directory", "link", "deny"}, client : Clients, code : Codes,
                    uri : Uris, at : Time]

CommitRequest == [pc : {"commit"}, client : Clients, code : Codes, uri : Uris, at : Time,
                  sub : Subjects, expires : Time]

RevokeRequest == [pc : {"revoke"}, client : Clients, token : Tokens]

LEMMA CodeIsWritten ==
    ASSUME NEW c \in CodeRow, c.state # "absent"
    PROVE  c \in CodeWritten
  BY DEF CodeRow, CodeWritten

LEMMA SessionIsWritten ==
    ASSUME NEW s \in SessionRow, s.state # "absent"
    PROVE  s \in SessionWritten
  BY DEF SessionRow, SessionWritten

(* The rows of a table are absent or written.                              *)
LEMMA RowKinds ==
    /\ Absent \in CodeRow /\ Absent \in SessionRow /\ Absent.state = "absent"
    /\ CodeWritten \subseteq CodeRow /\ SessionWritten \subseteq SessionRow
    /\ \A c \in CodeWritten : c.state # "absent"
    /\ \A s \in SessionWritten : s.state # "absent"
  BY DEF Absent, CodeRow, SessionRow, CodeWritten, SessionWritten

(* The step of a request says what it carries.                             *)
LEMMA RequestKinds ==
    ASSUME NEW r \in Handler
    PROVE  /\ r.pc \in {"login", "lookup", "provision", "subject", "issue"} =>
                  r \in AuthorizeRequest
           /\ r.pc = "read" => r \in ReadRequest
           /\ r.pc \in {"directory", "link", "deny"} => r \in ExchangeRequest
           /\ r.pc = "commit" => r \in CommitRequest
           /\ r.pc = "revoke" => r \in RevokeRequest
  BY DEF Handler, AuthorizeRequest, ReadRequest, ExchangeRequest, CommitRequest, RevokeRequest

LEMMA Requests ==
    /\ Idle \in Handler /\ Idle.pc = "idle"
    /\ AuthorizeRequest \subseteq Handler /\ ReadRequest \subseteq Handler
    /\ ExchangeRequest \subseteq Handler /\ CommitRequest \subseteq Handler
    /\ RevokeRequest \subseteq Handler
  BY DEF Idle, Handler, AuthorizeRequest, ReadRequest, ExchangeRequest, CommitRequest,
         RevokeRequest

-----------------------------------------------------------------------------
(* What no step does to rows that others rely on *)

CodesKept ==
    \A k \in Codes : code[k].state # "absent" =>
        /\ code'[k].state # "absent" /\ (code[k].state # "open" => code'[k].state # "open")
        /\ code'[k].client = code[k].client /\ code'[k].user = code[k].user
        /\ code'[k].uri = code[k].uri /\ code'[k].expires = code[k].expires

SubjectsKept == \A u \in Users : subject[u] # "none" => subject'[u] = subject[u]

SessionKept(t) ==
    /\ (session'[t].state = "absent") <=> (session[t].state = "absent")
    /\ session'[t].state = "valid" => session[t].state = "valid"
    /\ session[t].state # "absent" =>
           /\ session'[t].client = session[t].client /\ session'[t].user = session[t].user
           /\ session'[t].code = session[t].code /\ session'[t].sub = session[t].sub
           /\ session'[t].issued = session[t].issued
           /\ session'[t].expires = session[t].expires

SessionsKept == \A t \in Tokens : SessionKept(t)

Kept == CodesKept /\ SubjectsKept /\ vouched \subseteq vouched' /\ now <= now'

(* A code that is spent or deleted never opens again, a session that was   *)
(* revoked or deleted is never valid again, the columns that say whose     *)
(* they are and until when never change, and nor does a user's subject.    *)
RowsAdvance ==
    CodesKept /\ SubjectsKept /\ \A t \in Tokens : session[t].state # "absent" => SessionKept(t)

(* A refusal is new only for a code without a session.                     *)
RefusalsKept ==
    \A k \in refused' :
        \/ k \in refused
        \/ Closed(k)' /\ \A t \in Tokens : session[t].state # "absent" => session[t].code # k

(* A request whose handler does not move.                                  *)
LEMMA RequestKept ==
    ASSUME TypeOK, Kept, NEW h \in Handlers, RequestOK(h), handler'[h] = handler[h]
    PROVE  RequestOK(h)'
<1> DEFINE r == handler[h]
<1>1. CASE r.pc \in Exchanging
  <2>1. r.pc \in {"directory", "link", "deny"} => r \in ExchangeRequest
    BY RequestKinds DEF TypeOK
  <2>2. r.pc = "commit" => r \in CommitRequest
    BY RequestKinds DEF TypeOK
  <2>3. r.code \in Codes
    BY <1>1, <2>1, <2>2 DEF Exchanging, ExchangeRequest, CommitRequest
  <2>4. r.pc = "commit" => r.sub \in Subjects
    BY <2>2 DEF CommitRequest
  <2>5. /\ code[r.code].state # "absent" /\ code[r.code].client = r.client
        /\ code[r.code].uri = r.uri /\ r.at <= code[r.code].expires
    BY <1>1 DEF RequestOK
  <2>6. /\ code'[r.code].state # "absent" /\ code'[r.code].client = r.client
        /\ code'[r.code].uri = r.uri /\ r.at <= code'[r.code].expires
        /\ code'[r.code].user = code[r.code].user
    BY <2>3, <2>5 DEF Kept, CodesKept
  <2>7. code[r.code].user \in Users
    <3>1. code[r.code] \in CodeRow
      BY <2>3 DEF TypeOK
    <3> QED
      BY <3>1, <2>5, CodeIsWritten DEF CodeWritten
  <2>8. r.pc = "commit" => subject'[code'[r.code].user] = r.sub
    <3> SUFFICES ASSUME r.pc = "commit" PROVE subject'[code'[r.code].user] = r.sub
      OBVIOUS
    <3>1. subject[code[r.code].user] = r.sub
      BY DEF RequestOK
    <3>2. r.sub # "none"
      BY <2>4, SubjectAssumption
    <3> QED
      BY <3>1, <3>2, <2>6, <2>7 DEF Kept, SubjectsKept
  <2>9. r.pc \in {"link", "commit"} => r.code \in vouched'
    BY DEF RequestOK, Kept
  <2> QED
    BY <2>6, <2>8, <2>9 DEF RequestOK
<1>2. CASE r.pc \notin Exchanging
  BY <1>2 DEF RequestOK, Exchanging
<1> QED
  BY <1>1, <1>2

(* A session whose row is kept.                                            *)
LEMMA SessionOKKept ==
    ASSUME TypeOK, Kept, RefusalsKept, NEW t \in Tokens, SessionKept(t), SessionOK(t)
    PROVE  SessionOK(t)'
<1> SUFFICES ASSUME session'[t].state # "absent" PROVE SessionOK(t)'
  BY DEF SessionOK
<1> DEFINE s == session[t]
<1>1. s.state # "absent" /\ s \in SessionWritten
  <2>1. s.state # "absent"
    BY DEF SessionKept
  <2>2. s \in SessionRow
    BY DEF TypeOK
  <2> QED
    BY <2>1, <2>2, SessionIsWritten
<1>2. s.code \in Codes /\ s.user \in Users /\ s.sub \in Subjects
  BY <1>1 DEF SessionWritten
<1>3. /\ session'[t].client = s.client /\ session'[t].user = s.user
      /\ session'[t].code = s.code /\ session'[t].sub = s.sub /\ session'[t].issued = s.issued
  BY <1>1 DEF SessionKept
<1>4. /\ Closed(s.code) /\ s.code \notin refused /\ s.code \in vouched
      /\ s.client = code[s.code].client /\ s.user = code[s.code].user
      /\ s.issued <= code[s.code].expires /\ s.sub = subject[s.user]
  BY <1>1 DEF SessionOK
<1>5. /\ code'[s.code].state \notin {"absent", "open"}
      /\ code'[s.code].client = s.client /\ code'[s.code].user = s.user
      /\ s.issued <= code'[s.code].expires
  BY <1>2, <1>4 DEF Kept, CodesKept, Closed
<1>6. s.code \notin refused'
  BY <1>1, <1>4 DEF RefusalsKept
<1>7. subject'[s.user] = s.sub
  BY <1>2, <1>4, SubjectAssumption DEF Kept, SubjectsKept
<1>8. s.code \in vouched'
  BY <1>4 DEF Kept
<1> QED
  BY <1>3, <1>5, <1>6, <1>7, <1>8 DEF SessionOK, Closed

(* A step that opens no session keeps the invariant.                       *)
LEMMA StepKeeps ==
    ASSUME OidcInv, TypeOK', Kept, SessionsKept, RefusalsKept,
           \A h \in Handlers : handler'[h] = handler[h] \/ RequestOK(h)',
           \A t \in ended' : t \in ended \/ EndedOK(t)'
    PROVE  OidcInv' /\ RowsAdvance
<1>1. RequestInv'
  BY RequestKept DEF OidcInv, RequestInv
<1>2. RefusedInv'
  <2> SUFFICES ASSUME NEW k \in refused' PROVE Closed(k)'
    BY DEF RefusedInv
  <2>1. CASE k \in refused
    BY <2>1 DEF OidcInv, TypeOK, RefusedInv, Closed, Kept, CodesKept
  <2> QED
    BY <2>1 DEF RefusalsKept
<1>3. SessionInv'
  BY SessionOKKept DEF OidcInv, SessionInv, SessionsKept
<1>4. OneSession'
  BY DEF OidcInv, OneSession, SessionsKept, SessionKept
<1>5. EndedInv'
  <2> SUFFICES ASSUME NEW t \in ended' PROVE EndedOK(t)'
    BY DEF EndedInv
  <2>1. CASE t \in ended
    <3>1. t \in Tokens /\ SessionKept(t) /\ EndedOK(t)
      BY <2>1 DEF OidcInv, TypeOK, EndedInv, SessionsKept
    <3>2. session[t] \in SessionWritten
      BY <3>1, SessionIsWritten DEF OidcInv, TypeOK, EndedOK
    <3>3. session[t].expires \in Nat /\ now \in Nat /\ now' \in Nat /\ now <= now'
      BY SMT, Z3, <3>2, BoundAssumption, LifetimeAssumption DEF SessionWritten, Time, OidcInv, TypeOK, Kept
    <3>4. session[t].expires <= now => session[t].expires <= now'
      BY SMT, Z3, <3>3
    <3> QED
      BY <3>1, <3>4 DEF EndedOK, SessionKept
  <2> QED
    BY <2>1
<1>6. RowsAdvance
  BY DEF Kept, SessionsKept, RowsAdvance
<1> QED
  BY <1>1, <1>2, <1>3, <1>4, <1>5, <1>6 DEF OidcInv

-----------------------------------------------------------------------------
(* The steps of requests *)

(* Nothing is done to the tables.                                          *)
LEMMA TablesKept ==
    ASSUME TypeOK, UNCHANGED <<code, subject>>, vouched \subseteq vouched', now' = now
    PROVE  Kept
<1>1. now <= now'
  BY SMT, Z3 DEF TypeOK
<1> QED
  BY <1>1 DEF Kept, CodesKept, SubjectsKept

LEMMA SessionsUnchanged ==
    ASSUME UNCHANGED session PROVE SessionsKept
  BY DEF SessionsKept, SessionKept

(* A request goes on to r and changes no table.                            *)
LEMMA RequestGoesOn ==
    ASSUME OidcInv, NEW h \in Handlers, NEW r \in Handler,
           handler' = [handler EXCEPT ![h] = r],
           UNCHANGED <<tableVars, active, now, refused, ended>>,
           vouched \subseteq vouched', vouched' \subseteq Codes, RequestOK(h)'
    PROVE  OidcInv' /\ RowsAdvance
<1>1. UNCHANGED <<client, row, subject, code, session, active, now, refused, ended>>
  BY DEF tableVars
<1>2. TypeOK'
  BY <1>1 DEF OidcInv, TypeOK
<1>3. Kept
  BY <1>1, TablesKept DEF OidcInv
<1>4. SessionsKept
  BY <1>1, SessionsUnchanged
<1>5. RefusalsKept
  BY <1>1 DEF RefusalsKept
<1>6. \A i \in Handlers : handler'[i] = handler[i] \/ RequestOK(i)'
  BY DEF OidcInv, TypeOK
<1> QED
  BY <1>1, <1>2, <1>3, <1>4, <1>5, <1>6, StepKeeps

(* The request is at r afterwards.                                         *)
LEMMA NextRequest ==
    ASSUME TypeOK, NEW h \in Handlers, NEW r, handler' = [handler EXCEPT ![h] = r]
    PROVE  handler'[h] = r
  BY DEF TypeOK

(* A request that does not exchange a code relies on nothing.              *)
LEMMA OtherRequest ==
    ASSUME NEW h \in Handlers, handler'[h].pc \notin Exchanging
    PROVE  RequestOK(h)'
  BY DEF RequestOK, Exchanging

LEMMA RequestEnds ==
    ASSUME TypeOK, NEW h \in Handlers, Done(h)
    PROVE  /\ handler' = [handler EXCEPT ![h] = Idle] /\ Idle \in Handler
           /\ handler' \in [Handlers -> Handler] /\ RequestOK(h)'
           /\ \A i \in Handlers : handler'[i] = handler[i] \/ RequestOK(i)'
<1>1. handler' = [handler EXCEPT ![h] = Idle] /\ Idle \in Handler
  BY Requests DEF Done
<1>2. handler'[h] = Idle
  BY <1>1, NextRequest
<1>3. RequestOK(h)'
  BY <1>2, OtherRequest, Requests DEF Exchanging
<1> QED
  BY <1>1, <1>3 DEF TypeOK

(* The steps of an authorization.                                          *)
LEMMA AuthorizeMoves ==
    ASSUME TypeOK, NEW h \in Handlers, NEW to \in {"login", "lookup", "provision", "subject", "issue"},
           handler[h].pc \in {"login", "lookup", "provision", "subject", "issue"}, Go(h, to)
    PROVE  /\ \E r \in Handler : handler' = [handler EXCEPT ![h] = r]
           /\ handler' \in [Handlers -> Handler] /\ RequestOK(h)'
           /\ \A i \in Handlers : handler'[i] = handler[i] \/ RequestOK(i)'
<1> DEFINE r == [handler[h] EXCEPT !.pc = to]
<1>1. handler[h] \in AuthorizeRequest
  BY RequestKinds DEF TypeOK
<1>2. r \in AuthorizeRequest /\ r.pc = to
  BY <1>1 DEF AuthorizeRequest
<1>3. handler' = [handler EXCEPT ![h] = r]
  BY DEF Go
<1>4. r \in Handler
  BY <1>2, Requests
<1> HIDE DEF r
<1>5. handler'[h] = r
  BY <1>3, NextRequest
<1>6. RequestOK(h)'
  BY <1>2, <1>5, OtherRequest DEF Exchanging
<1> QED
  BY <1>3, <1>4, <1>6 DEF TypeOK

LEMMA AuthorizeKeeps ==
    ASSUME OidcInv, NEW h \in Handlers, NEW c \in Clients, NEW u \in Users, NEW uri \in Uris,
           Authorize(h, c, u, uri)
    PROVE  OidcInv' /\ RowsAdvance
<1> DEFINE r == [pc |-> "login", client |-> c, user |-> u, uri |-> uri]
<1>1. r \in AuthorizeRequest /\ r.pc = "login"
  BY DEF AuthorizeRequest
<1>2. /\ handler' = [handler EXCEPT ![h] = r]
      /\ UNCHANGED <<tableVars, active, now, vouched, refused, ended>>
  BY DEF Authorize
<1>3. r \in Handler
  BY <1>1, Requests
<1> HIDE DEF r
<1>4. handler'[h] = r
  BY <1>2, NextRequest DEF OidcInv
<1>5. RequestOK(h)'
  BY <1>1, <1>4, OtherRequest DEF Exchanging
<1> QED
  BY <1>2, <1>3, <1>5, RequestGoesOn DEF OidcInv, TypeOK

LEMMA AuthenticateUserKeeps ==
    ASSUME OidcInv, NEW h \in Handlers, AuthenticateUser(h)
    PROVE  OidcInv' /\ RowsAdvance
<1>1. UNCHANGED <<tableVars, active, now, vouched, refused, ended>> /\ handler[h].pc = "login"
  BY DEF AuthenticateUser
<1>2. CASE Go(h, "lookup")
  BY <1>1, <1>2, AuthorizeMoves, RequestGoesOn DEF OidcInv, TypeOK
<1>3. CASE Done(h)
  BY <1>1, <1>3, RequestEnds, RequestGoesOn DEF OidcInv, TypeOK
<1> QED
  BY <1>2, <1>3 DEF AuthenticateUser

LEMMA UserByUsernameKeeps ==
    ASSUME OidcInv, NEW h \in Handlers, UserByUsername(h)
    PROVE  OidcInv' /\ RowsAdvance
<1>1. UNCHANGED <<tableVars, active, now, vouched, refused, ended>> /\ handler[h].pc = "lookup"
  BY DEF UserByUsername
<1>2. Go(h, "subject") \/ Go(h, "provision")
  BY DEF UserByUsername
<1> QED
  BY <1>1, <1>2, AuthorizeMoves, RequestGoesOn DEF OidcInv, TypeOK

LEMMA CreateUserKeeps ==
    ASSUME OidcInv, NEW h \in Handlers, CreateUser(h)
    PROVE  OidcInv' /\ RowsAdvance
<1>1. /\ UNCHANGED <<client, subject, code, session, active, now, vouched, refused, ended>>
      /\ handler[h].pc = "provision"
  BY DEF CreateUser
<1>2. /\ handler' \in [Handlers -> Handler]
      /\ \A i \in Handlers : handler'[i] = handler[i] \/ RequestOK(i)'
  BY <1>1, AuthorizeMoves, RequestEnds DEF CreateUser, OidcInv
<1>3. row' \subseteq Users
  <2>1. handler[h] \in AuthorizeRequest
    BY <1>1, RequestKinds DEF OidcInv, TypeOK
  <2> QED
    BY <2>1 DEF CreateUser, AuthorizeRequest, OidcInv, TypeOK
<1>4. TypeOK'
  BY <1>1, <1>2, <1>3 DEF OidcInv, TypeOK
<1>5. Kept /\ SessionsKept /\ RefusalsKept
  BY <1>1, TablesKept, SessionsUnchanged DEF OidcInv, RefusalsKept
<1> QED
  BY <1>1, <1>2, <1>4, <1>5, StepKeeps

(* A subject is given once, to one user.                                   *)
LEMMA SubjectGiven ==
    ASSUME TypeOK, NEW u \in Users, NEW s \in Subjects, EnsureSubject(u, s)
    PROVE  /\ subject' \in [Users -> Subjects \cup {"none"}]
           /\ SubjectsKept /\ subject'[u] = s
<1>1. CASE UNCHANGED subject /\ subject[u] = s
  BY <1>1 DEF SubjectsKept, TypeOK
<1>2. CASE subject[u] = "none" /\ subject' = [subject EXCEPT ![u] = s]
  BY <1>2 DEF SubjectsKept, TypeOK
<1> QED
  BY <1>1, <1>2 DEF EnsureSubject

LEMMA LinkUserKeeps ==
    ASSUME OidcInv, NEW h \in Handlers, LinkUser(h)
    PROVE  OidcInv' /\ RowsAdvance
<1>1. /\ UNCHANGED <<client, row, code, session, active, now, vouched, refused, ended>>
      /\ handler[h].pc = "subject" /\ Go(h, "issue")
  BY DEF LinkUser
<1>2. PICK s \in Subjects : EnsureSubject(handler[h].user, s)
  BY DEF LinkUser
<1>3. handler[h].user \in Users
  <2>1. handler[h] \in AuthorizeRequest
    BY <1>1, RequestKinds DEF OidcInv, TypeOK
  <2> QED
    BY <2>1 DEF AuthorizeRequest
<1>4. subject' \in [Users -> Subjects \cup {"none"}] /\ SubjectsKept
  BY <1>2, <1>3, SubjectGiven DEF OidcInv
<1>5. /\ handler' \in [Handlers -> Handler]
      /\ \A i \in Handlers : handler'[i] = handler[i] \/ RequestOK(i)'
  BY <1>1, AuthorizeMoves DEF OidcInv
<1>6. TypeOK'
  BY <1>1, <1>4, <1>5 DEF OidcInv, TypeOK
<1>7. now <= now'
  BY SMT, Z3, <1>1 DEF OidcInv, TypeOK
<1>8. Kept /\ SessionsKept /\ RefusalsKept
  BY <1>1, <1>4, <1>7, SessionsUnchanged DEF Kept, CodesKept, RefusalsKept
<1> QED
  BY <1>1, <1>5, <1>6, <1>8, StepKeeps


(* CreateOIDCCodeWithAudit writes one row and deletes expired ones.        *)
LEMMA CreateCodeKeeps ==
    ASSUME OidcInv, NEW h \in Handlers, NEW k \in Codes, CreateCode(h, k)
    PROVE  OidcInv' /\ RowsAdvance
<1> DEFINE r == handler[h]
           new == [state |-> "open", client |-> r.client, user |-> r.user,
                   uri |-> r.uri, expires |-> now + CodeLifetime]
<1>1. /\ UNCHANGED <<client, row, subject, session, active, now, vouched, refused, ended>>
      /\ r.pc = "issue" /\ code[k].state = "absent" /\ Done(h)
      /\ code' = [x \in Codes |->
            IF x = k THEN new
            ELSE IF code[x].state # "absent" /\ code[x].expires < now
                 THEN [code[x] EXCEPT !.state = "deleted"]
            ELSE code[x]]
  BY DEF CreateCode
<1>2. r \in AuthorizeRequest
  BY <1>1, RequestKinds DEF OidcInv, TypeOK
<1>3. now + CodeLifetime \in Time
  BY SMT, Z3, LifetimeAssumption, BoundAssumption DEF OidcInv, TypeOK, Time
<1>4. new \in CodeWritten
  BY <1>2, <1>3 DEF AuthorizeRequest, CodeWritten
<1> HIDE DEF new
<1>5. ASSUME NEW x \in Codes, code[x].state # "absent"
      PROVE  /\ [code[x] EXCEPT !.state = "deleted"] \in CodeWritten
             /\ [code[x] EXCEPT !.state = "deleted"].state = "deleted"
             /\ [code[x] EXCEPT !.state = "deleted"].client = code[x].client
             /\ [code[x] EXCEPT !.state = "deleted"].user = code[x].user
             /\ [code[x] EXCEPT !.state = "deleted"].uri = code[x].uri
             /\ [code[x] EXCEPT !.state = "deleted"].expires = code[x].expires
  <2>1. code[x] \in CodeWritten
    BY <1>5, CodeIsWritten DEF OidcInv, TypeOK
  <2> QED
    BY <2>1 DEF CodeWritten
<1>6. code' \in [Codes -> CodeRow]
  <2>1. \A x \in Codes : code'[x] \in CodeRow
    BY <1>1, <1>4, <1>5, RowKinds DEF OidcInv, TypeOK
  <2> QED
    BY <1>1, <2>1
<1>7. CodesKept
  <2> SUFFICES ASSUME NEW x \in Codes, code[x].state # "absent"
               PROVE  /\ code'[x].state # "absent"
                      /\ code[x].state # "open" => code'[x].state # "open"
                      /\ code'[x].client = code[x].client /\ code'[x].user = code[x].user
                      /\ code'[x].uri = code[x].uri /\ code'[x].expires = code[x].expires
    BY DEF CodesKept
  <2>1. code'[x] = code[x] \/ code'[x] = [code[x] EXCEPT !.state = "deleted"]
    BY <1>1
  <2> QED
    BY <1>5, <2>1
<1>8. now <= now'
  BY SMT, Z3, <1>1 DEF OidcInv, TypeOK
<1>9. Kept /\ SessionsKept /\ RefusalsKept
  BY <1>1, <1>7, <1>8, SessionsUnchanged DEF Kept, SubjectsKept, RefusalsKept
<1>10. /\ handler' \in [Handlers -> Handler]
       /\ \A i \in Handlers : handler'[i] = handler[i] \/ RequestOK(i)'
  BY <1>1, RequestEnds DEF OidcInv
<1>11. TypeOK'
  BY <1>1, <1>6, <1>10 DEF OidcInv, TypeOK
<1> QED
  BY <1>1, <1>9, <1>10, <1>11, StepKeeps

LEMMA TokenKeeps ==
    ASSUME OidcInv, NEW h \in Handlers, NEW c \in Clients, NEW secret \in 0 .. MaxSecret,
           NEW k \in Codes, NEW uri \in Uris, NEW pkce \in BOOLEAN,
           Token(h, c, secret, k, uri, pkce)
    PROVE  OidcInv' /\ RowsAdvance
<1> DEFINE r == [pc |-> "read", client |-> c, code |-> k, uri |-> uri, pkce |-> pkce]
<1>1. r \in ReadRequest /\ r.pc = "read"
  BY DEF ReadRequest
<1>2. /\ handler' = [handler EXCEPT ![h] = r]
      /\ UNCHANGED <<tableVars, active, now, vouched, refused, ended>>
  BY DEF Token
<1>3. r \in Handler
  BY <1>1, Requests
<1> HIDE DEF r
<1>4. handler'[h] = r
  BY <1>2, NextRequest DEF OidcInv
<1>5. RequestOK(h)'
  BY <1>1, <1>4, OtherRequest DEF Exchanging
<1> QED
  BY <1>2, <1>3, <1>5, RequestGoesOn DEF OidcInv, TypeOK

(* The first look at the code: it is there, is the client's and is valid   *)
(* at the time of the exchange.                                            *)
LEMMA OIDCCodeForExchangeKeeps ==
    ASSUME OidcInv, NEW h \in Handlers, OIDCCodeForExchange(h)
    PROVE  OidcInv' /\ RowsAdvance
<1> DEFINE r == handler[h]
           n == [pc |-> IF r.pkce THEN "directory" ELSE "deny", client |-> r.client,
                 code |-> r.code, uri |-> r.uri, at |-> now]
<1>1. UNCHANGED <<tableVars, active, now, vouched, refused, ended>> /\ r.pc = "read"
  BY DEF OIDCCodeForExchange
<1>2. CASE Done(h)
  BY <1>1, <1>2, RequestEnds, RequestGoesOn DEF OidcInv, TypeOK
<1>3. CASE /\ Redeemable(r.code, r.client, r.uri, now)
           /\ handler' = [handler EXCEPT ![h] = n]
  <2>1. r \in ReadRequest
    BY <1>1, RequestKinds DEF OidcInv, TypeOK
  <2>2. now \in Time /\ now \in Nat
    BY SMT, Z3, LifetimeAssumption, BoundAssumption DEF OidcInv, TypeOK, Time
  <2>3. n.pc = "directory" \/ n.pc = "deny"
    OBVIOUS
  <2>4. n \in ExchangeRequest
    BY <2>1, <2>2, <2>3 DEF ReadRequest, ExchangeRequest
  <2>5. n \in Handler
    BY <2>4, Requests
  <2>6. /\ code[r.code].state # "absent" /\ code[r.code].client = r.client
        /\ code[r.code].uri = r.uri /\ code[r.code].expires >= now
    BY <1>3 DEF Redeemable
  <2>7. code[r.code].expires \in Nat
    <3>1. r.code \in Codes
      BY <2>1 DEF ReadRequest
    <3>2. code[r.code] \in CodeWritten
      BY <2>6, <3>1, CodeIsWritten DEF OidcInv, TypeOK
    <3> QED
      BY SMT, Z3, <3>2, LifetimeAssumption, BoundAssumption DEF CodeWritten, Time
  <2>8. now <= code[r.code].expires
    BY <2>2, <2>6, <2>7
  <2>9. n.code = r.code /\ n.client = r.client /\ n.uri = r.uri /\ n.at = now
    OBVIOUS
  <2> HIDE DEF n
  <2>10. handler'[h] = n
    BY <1>3, NextRequest DEF OidcInv
  <2>11. RequestOK(h)'
    BY <1>1, <2>3, <2>6, <2>8, <2>9, <2>10 DEF RequestOK, tableVars
  <2> QED
    BY <1>1, <1>3, <2>5, <2>11, RequestGoesOn DEF OidcInv, TypeOK
<1> QED
  BY <1>2, <1>3 DEF OIDCCodeForExchange

(* The request of an exchange goes from one step to another.               *)
LEMMA ExchangeMoves ==
    ASSUME TypeOK, NEW h \in Handlers, NEW to \in {"directory", "link", "deny"},
           handler[h].pc \in {"directory", "link", "deny"}, Go(h, to)
    PROVE  \E r \in Handler :
               /\ handler' = [handler EXCEPT ![h] = r] /\ handler'[h] = r
               /\ r.pc = to /\ r.client = handler[h].client /\ r.code = handler[h].code
               /\ r.uri = handler[h].uri /\ r.at = handler[h].at
<1> DEFINE r == [handler[h] EXCEPT !.pc = to]
<1>1. handler[h] \in ExchangeRequest
  BY RequestKinds DEF TypeOK
<1>2. /\ r \in ExchangeRequest /\ r.pc = to
      /\ r.client = handler[h].client /\ r.code = handler[h].code
      /\ r.uri = handler[h].uri /\ r.at = handler[h].at
  BY <1>1 DEF ExchangeRequest
<1>3. handler' = [handler EXCEPT ![h] = r]
  BY DEF Go
<1>4. r \in Handler
  BY <1>2, Requests
<1> HIDE DEF r
<1>5. handler'[h] = r
  BY <1>3, NextRequest
<1> QED
  BY <1>2, <1>3, <1>4, <1>5

LEMMA DirectoryGetUserKeeps ==
    ASSUME OidcInv, NEW h \in Handlers, DirectoryGetUser(h)
    PROVE  OidcInv' /\ RowsAdvance
<1> DEFINE k == handler[h].code
<1>1. UNCHANGED <<tableVars, active, now, refused, ended>> /\ handler[h].pc = "directory"
  BY DEF DirectoryGetUser
<1>2. /\ code[k].state # "absent" /\ code[k].client = handler[h].client
      /\ code[k].uri = handler[h].uri /\ handler[h].at <= code[k].expires
  BY <1>1 DEF OidcInv, RequestInv, RequestOK, Exchanging
<1>3. k \in Codes
  <2>1. handler[h] \in ExchangeRequest
    BY <1>1, RequestKinds DEF OidcInv, TypeOK
  <2> QED
    BY <2>1 DEF ExchangeRequest
<1>4. CASE Go(h, "link") /\ vouched' = vouched \cup {k}
  <2>1. PICK r \in Handler :
            /\ handler' = [handler EXCEPT ![h] = r] /\ handler'[h] = r
            /\ r.pc = "link" /\ r.client = handler[h].client /\ r.code = k
            /\ r.uri = handler[h].uri /\ r.at = handler[h].at
    BY <1>1, <1>4, ExchangeMoves DEF OidcInv
  <2>2. RequestOK(h)'
    <3>1. k \in vouched' /\ code' = code
      BY <1>1, <1>4 DEF tableVars
    <3> QED
      BY <1>2, <2>1, <3>1 DEF RequestOK
  <2>3. vouched' \subseteq Codes /\ vouched \subseteq vouched'
    BY <1>3, <1>4 DEF OidcInv, TypeOK
  <2> QED
    BY <1>1, <2>1, <2>2, <2>3, RequestGoesOn
<1>5. CASE Go(h, "deny") /\ UNCHANGED vouched
  <2>1. PICK r \in Handler :
            /\ handler' = [handler EXCEPT ![h] = r] /\ handler'[h] = r
            /\ r.pc = "deny" /\ r.client = handler[h].client /\ r.code = k
            /\ r.uri = handler[h].uri /\ r.at = handler[h].at
    BY <1>1, <1>5, ExchangeMoves DEF OidcInv
  <2>2. RequestOK(h)'
    BY <1>1, <1>2, <1>5, <2>1 DEF RequestOK, tableVars
  <2>3. vouched' \subseteq Codes /\ vouched \subseteq vouched'
    BY <1>5 DEF OidcInv, TypeOK
  <2> QED
    BY <1>1, <2>1, <2>2, <2>3, RequestGoesOn
<1> QED
  BY <1>4, <1>5 DEF DirectoryGetUser


LEMMA PrepareTokensKeeps ==
    ASSUME OidcInv, NEW h \in Handlers, PrepareTokens(h)
    PROVE  OidcInv' /\ RowsAdvance
<1> DEFINE r == handler[h]
           n(s) == [pc |-> "commit", client |-> r.client, code |-> r.code, uri |-> r.uri,
                    at |-> r.at, sub |-> s, expires |-> now + TokenLifetime]
<1>1. /\ UNCHANGED <<client, row, code, session, active, now, vouched, refused, ended>>
      /\ r.pc = "link"
  BY DEF PrepareTokens
<1>2. PICK s \in Subjects : EnsureSubject(code[r.code].user, s)
                            /\ handler' = [handler EXCEPT ![h] = n(s)]
  BY DEF PrepareTokens
<1>3. /\ code[r.code].state # "absent" /\ code[r.code].client = r.client
      /\ code[r.code].uri = r.uri /\ r.at <= code[r.code].expires /\ r.code \in vouched
  BY <1>1 DEF OidcInv, RequestInv, RequestOK, Exchanging
<1>4. r \in ExchangeRequest
  BY <1>1, RequestKinds DEF OidcInv, TypeOK
<1>5. code[r.code].user \in Users
  <2>1. r.code \in Codes
    BY <1>4 DEF ExchangeRequest
  <2>2. code[r.code] \in CodeWritten
    BY <1>3, <2>1, CodeIsWritten DEF OidcInv, TypeOK
  <2> QED
    BY <2>2 DEF CodeWritten
<1>6. /\ subject' \in [Users -> Subjects \cup {"none"}]
      /\ SubjectsKept /\ subject'[code[r.code].user] = s
  BY <1>2, <1>5, SubjectGiven DEF OidcInv
<1>7. now + TokenLifetime \in Time
  BY SMT, Z3, LifetimeAssumption, BoundAssumption DEF OidcInv, TypeOK, Time
<1>8. n(s) \in CommitRequest
  BY <1>4, <1>7 DEF ExchangeRequest, CommitRequest
<1>9. /\ n(s).pc = "commit" /\ n(s).client = r.client /\ n(s).code = r.code
      /\ n(s).uri = r.uri /\ n(s).at = r.at /\ n(s).sub = s /\ n(s) \in Handler
  BY <1>8, Requests
<1> HIDE DEF n
<1>10. handler'[h] = n(s)
  BY <1>2, NextRequest DEF OidcInv
<1>11. RequestOK(h)'
  BY <1>1, <1>3, <1>6, <1>9, <1>10 DEF RequestOK
<1>12. /\ handler' \in [Handlers -> Handler]
       /\ \A i \in Handlers : handler'[i] = handler[i] \/ RequestOK(i)'
  BY <1>2, <1>9, <1>11 DEF OidcInv, TypeOK
<1>13. TypeOK'
  BY <1>1, <1>6, <1>12 DEF OidcInv, TypeOK
<1>14. now <= now'
  BY SMT, Z3, <1>1 DEF OidcInv, TypeOK
<1>15. Kept /\ SessionsKept /\ RefusalsKept
  BY <1>1, <1>6, <1>14, SessionsUnchanged DEF Kept, CodesKept, RefusalsKept
<1> QED
  BY <1>1, <1>12, <1>13, <1>15, StepKeeps

(* An open code is closed.                                                 *)
LEMMA CodeCloses ==
    ASSUME TypeOK, NEW k \in Codes, code[k].state = "open", NEW to \in {"used", "denied"},
           code' = [code EXCEPT ![k].state = to]
    PROVE  /\ code' \in [Codes -> CodeRow] /\ CodesKept /\ Closed(k)'
           /\ \A x \in Codes \ {k} : code'[x] = code[x]
<1> DEFINE n == [code[k] EXCEPT !.state = to]
<1>1. code[k] \in CodeWritten
  BY CodeIsWritten DEF TypeOK
<1>2. /\ n \in CodeWritten /\ n.state = to /\ n.client = code[k].client
      /\ n.user = code[k].user /\ n.uri = code[k].uri /\ n.expires = code[k].expires
  BY <1>1 DEF CodeWritten
<1>3. code' = [code EXCEPT ![k] = n]
  OBVIOUS
<1> HIDE DEF n
<1>4. code'[k] = n /\ \A x \in Codes \ {k} : code'[x] = code[x]
  BY <1>3 DEF TypeOK
<1>5. code' \in [Codes -> CodeRow]
  BY <1>2, <1>3, RowKinds DEF TypeOK
<1>6. CodesKept
  BY <1>2, <1>4 DEF CodesKept
<1>7. Closed(k)'
  BY <1>2, <1>4 DEF Closed
<1> QED
  BY <1>4, <1>5, <1>6, <1>7

(* A refused exchange spends the code, unless another request has.         *)
LEMMA ConsumeDeniedCodeKeeps ==
    ASSUME OidcInv, NEW h \in Handlers, ConsumeDeniedCode(h)
    PROVE  OidcInv' /\ RowsAdvance
<1> DEFINE r == handler[h]
<1>1. /\ UNCHANGED <<client, row, subject, session, active, now, vouched, ended>>
      /\ r.pc = "deny" /\ Refuse(r.code) /\ Done(h)
  BY DEF ConsumeDeniedCode
<1>2. /\ code[r.code].state # "absent" /\ code[r.code].client = r.client
      /\ code[r.code].uri = r.uri /\ r.at <= code[r.code].expires
  BY <1>1 DEF OidcInv, RequestInv, RequestOK, Exchanging
<1>3. r \in ExchangeRequest /\ r.code \in Codes
  <2>1. r \in ExchangeRequest
    BY <1>1, RequestKinds DEF OidcInv, TypeOK
  <2> QED
    BY <2>1 DEF ExchangeRequest
<1> PICK k \in Codes : k = r.code
  BY <1>3
<1>4. code[r.code].expires >= r.at
  <2>1. code[r.code] \in CodeWritten
    BY <1>2, <1>3, CodeIsWritten DEF OidcInv, TypeOK
  <2>2. code[r.code].expires \in Nat /\ r.at \in Nat
    BY SMT, Z3, <1>3, <2>1, LifetimeAssumption, BoundAssumption DEF CodeWritten, ExchangeRequest, Time
  <2> QED
    BY <1>2, <2>2
<1>5. code' \in [Codes -> CodeRow] /\ CodesKept /\ Closed(k)'
  <2>1. CASE code[r.code].state = "open"
    <3>1. code' = [code EXCEPT ![r.code].state = "denied"]
      BY <1>2, <1>4, <2>1 DEF ConsumeDeniedCode, Redeemable
    <3> QED
      BY <1>3, <2>1, <3>1, CodeCloses DEF OidcInv
  <2>2. CASE code[r.code].state # "open"
    <3>1. code' = code
      BY <2>2 DEF ConsumeDeniedCode, Redeemable
    <3> QED
      BY <1>2, <2>2, <3>1 DEF OidcInv, TypeOK, CodesKept, Closed
  <2> QED
    BY <2>1, <2>2
<1>6. refused' \subseteq Codes /\ RefusalsKept
  <2>1. CASE refused' = refused
    BY <2>1 DEF OidcInv, TypeOK, RefusalsKept
  <2>2. CASE /\ refused' = refused \cup {r.code}
             /\ ~ \E t \in Existing : session[t].code = r.code
    <3>1. \A t \in Tokens : session[t].state # "absent" => session[t].code # r.code
      BY <2>2 DEF Existing
    <3> QED
      BY <1>3, <1>5, <2>2, <3>1 DEF OidcInv, TypeOK, RefusalsKept
  <2> QED
    BY <1>1, <2>1, <2>2 DEF Refuse
<1>7. /\ handler' \in [Handlers -> Handler]
      /\ \A i \in Handlers : handler'[i] = handler[i] \/ RequestOK(i)'
  BY <1>1, RequestEnds DEF OidcInv
<1>8. TypeOK'
  BY <1>1, <1>5, <1>6, <1>7 DEF OidcInv, TypeOK
<1>9. now <= now'
  BY SMT, Z3, <1>1 DEF OidcInv, TypeOK
<1>10. Kept /\ SessionsKept
  BY <1>1, <1>5, <1>9, SessionsUnchanged DEF Kept, SubjectsKept
<1> QED
  BY <1>1, <1>6, <1>7, <1>8, <1>10, StepKeeps


(* What Issue writes: one session, and the mark on those long expired.     *)
LEMMA IssuedRows ==
    ASSUME TypeOK, NEW r \in CommitRequest, NEW t \in Tokens,
           code[r.code].state # "absent", Issue(r, t)
    PROVE  /\ session' \in [Tokens -> SessionRow]
           /\ session'[t] = [state |-> "valid", client |-> r.client,
                             user |-> code[r.code].user, code |-> r.code, sub |-> r.sub,
                             issued |-> r.at, expires |-> r.expires]
           /\ \A x \in Tokens \ {t} : SessionKept(x)
<1> DEFINE new == [state |-> "valid", client |-> r.client,
                   user |-> code[r.code].user, code |-> r.code, sub |-> r.sub,
                   issued |-> r.at, expires |-> r.expires]
           gone(x) == [session[x] EXCEPT !.state = "deleted"]
<1>1. session' = [x \in Tokens |->
        IF x = t THEN new
        ELSE IF session[x].state # "absent" /\ session[x].expires + Retention < r.at
             THEN gone(x)
        ELSE session[x]]
  BY DEF Issue
<1>2. new \in SessionWritten
  <2>1. code[r.code] \in CodeWritten
    BY CodeIsWritten DEF TypeOK, CommitRequest
  <2> QED
    BY <2>1 DEF CodeWritten, CommitRequest, SessionWritten
<1>3. ASSUME NEW x \in Tokens, session[x].state # "absent"
      PROVE  /\ gone(x) \in SessionWritten /\ gone(x).state = "deleted"
             /\ gone(x).client = session[x].client /\ gone(x).user = session[x].user
             /\ gone(x).code = session[x].code /\ gone(x).sub = session[x].sub
             /\ gone(x).issued = session[x].issued /\ gone(x).expires = session[x].expires
  <2>1. session[x] \in SessionWritten
    BY <1>3, SessionIsWritten DEF TypeOK
  <2> QED
    BY <2>1 DEF SessionWritten
<1> HIDE DEF new, gone
<1>4. \A x \in Tokens : session'[x] \in SessionRow
  BY <1>1, <1>2, <1>3, RowKinds DEF TypeOK
<1>5. \A x \in Tokens \ {t} : SessionKept(x)
  <2> SUFFICES ASSUME NEW x \in Tokens \ {t} PROVE SessionKept(x)
    OBVIOUS
  <2>1. session'[x] = session[x] \/ (session[x].state # "absent" /\ session'[x] = gone(x))
    BY <1>1
  <2> QED
    BY <1>3, <2>1 DEF SessionKept
<1>6. session'[t] = new
  BY <1>1
<1> QED
  BY <1>1, <1>4, <1>5, <1>6 DEF new

(* An exchange that still finds its code open closes it and opens the only *)
(* session of that code.                                                   *)
LEMMA SessionOpens ==
    ASSUME OidcInv, NEW h \in Handlers, NEW t \in Tokens, handler[h].pc = "commit",
           session[t].state = "absent", code[handler[h].code].state = "open",
           code' = [code EXCEPT ![handler[h].code].state = "used"], Issue(handler[h], t),
           Done(h), UNCHANGED <<client, row, subject, active, now, vouched, refused, ended>>
    PROVE  OidcInv' /\ RowsAdvance
<1> DEFINE r == handler[h]
<1>1. r \in CommitRequest
  BY RequestKinds DEF OidcInv, TypeOK
<1>2. PICK k \in Codes : k = r.code
  BY <1>1 DEF CommitRequest
<1>3. /\ code' \in [Codes -> CodeRow] /\ CodesKept /\ Closed(k)'
  BY <1>2, CodeCloses DEF OidcInv
<1>4. /\ session' \in [Tokens -> SessionRow]
      /\ session'[t] = [state |-> "valid", client |-> r.client, user |-> code[k].user,
                        code |-> k, sub |-> r.sub, issued |-> r.at, expires |-> r.expires]
      /\ \A x \in Tokens \ {t} : SessionKept(x)
  BY <1>1, <1>2, IssuedRows DEF OidcInv
<1>5. /\ session'[t].state = "valid" /\ session'[t].client = r.client
      /\ session'[t].user = code[k].user /\ session'[t].code = k /\ session'[t].sub = r.sub
      /\ session'[t].issued = r.at
  BY SMT, Z3, <1>4
<1>6. /\ handler' \in [Handlers -> Handler]
      /\ \A i \in Handlers : handler'[i] = handler[i] \/ RequestOK(i)'
  BY RequestEnds DEF OidcInv
<1>7. TypeOK'
  BY <1>3, <1>4, <1>6 DEF OidcInv, TypeOK
<1>8. now <= now'
  BY SMT, Z3 DEF OidcInv, TypeOK
<1>9. Kept /\ RefusalsKept
  BY <1>3, <1>8 DEF Kept, SubjectsKept, RefusalsKept
<1>10. RequestInv'
  BY <1>6, <1>9, RequestKept DEF OidcInv, RequestInv
<1>11. RefusedInv'
  BY <1>3 DEF OidcInv, TypeOK, RefusedInv, Closed, CodesKept
<1>12. /\ code[k].client = r.client /\ r.at <= code[k].expires /\ k \in vouched
       /\ subject[code[k].user] = r.sub /\ k \notin refused
  BY <1>2 DEF OidcInv, RequestInv, RequestOK, Exchanging, RefusedInv, Closed
<1>13. /\ code'[k].client = code[k].client /\ code'[k].user = code[k].user
       /\ code'[k].expires = code[k].expires
  BY <1>2, <1>3 DEF CodesKept
<1>14. SessionOK(t)'
  BY <1>3, <1>5, <1>12, <1>13 DEF SessionOK
<1>15. SessionInv'
  <2> SUFFICES ASSUME NEW x \in Tokens \ {t} PROVE SessionOK(x)'
    BY <1>14 DEF SessionInv
  <2> QED
    BY <1>4, <1>9, SessionOKKept DEF OidcInv, SessionInv
<1>16. \A x \in Tokens \ {t} : session'[x].state # "absent" =>
           session[x].state # "absent" /\ session'[x].code = session[x].code /\ session[x].code # k
  <2> SUFFICES ASSUME NEW x \in Tokens \ {t}, session'[x].state # "absent"
               PROVE  /\ session[x].state # "absent" /\ session'[x].code = session[x].code
                      /\ session[x].code # k
    OBVIOUS
  <2>1. session[x].state # "absent" /\ session'[x].code = session[x].code
    BY <1>4 DEF SessionKept
  <2>2. Closed(session[x].code)
    BY <2>1 DEF OidcInv, SessionInv, SessionOK
  <2> QED
    BY <1>2, <2>1, <2>2 DEF Closed
<1>17. OneSession'
  <2> SUFFICES ASSUME NEW x \in Tokens, NEW y \in Tokens, session'[x].state # "absent",
                      session'[y].state # "absent", session'[x].code = session'[y].code
               PROVE  x = y
    BY DEF OneSession
  <2>1. CASE x = t \/ y = t
    BY <1>5, <1>16, <2>1
  <2>2. CASE x # t /\ y # t
    BY <1>16, <2>2 DEF OidcInv, OneSession
  <2> QED
    BY <2>1, <2>2
<1>18. EndedInv'
  <2> SUFFICES ASSUME NEW x \in ended PROVE EndedOK(x)'
    BY DEF EndedInv
  <2>1. x \in Tokens /\ EndedOK(x)
    BY DEF OidcInv, TypeOK, EndedInv
  <2>2. SessionKept(x)
    BY <1>4, <2>1 DEF EndedOK
  <2> QED
    BY <2>1, <2>2 DEF EndedOK, SessionKept
<1>19. RowsAdvance
  BY <1>4, <1>9 DEF Kept, RowsAdvance
<1> QED
  BY <1>7, <1>10, <1>11, <1>15, <1>17, <1>18, <1>19 DEF OidcInv

LEMMA ConsumeCodeWithSessionKeeps ==
    ASSUME OidcInv, NEW h \in Handlers, NEW t \in Tokens, ConsumeCodeWithSession(h, t)
    PROVE  OidcInv' /\ RowsAdvance
<1> DEFINE r == handler[h]
<1>1. /\ UNCHANGED <<client, row, subject, active, now, vouched, refused, ended>>
      /\ r.pc = "commit" /\ session[t].state = "absent" /\ Done(h)
  BY DEF ConsumeCodeWithSession
<1>2. CASE /\ Redeemable(r.code, r.client, r.uri, r.at)
           /\ code' = [code EXCEPT ![r.code].state = "used"] /\ Issue(r, t)
  BY <1>1, <1>2, SessionOpens DEF Redeemable
<1>3. CASE UNCHANGED <<code, session>>
  BY <1>1, <1>3, RequestEnds, RequestGoesOn DEF OidcInv, TypeOK, tableVars
<1> QED
  BY <1>2, <1>3 DEF ConsumeCodeWithSession

-----------------------------------------------------------------------------
(* Revocation *)

LEMMA RevokeKeeps ==
    ASSUME OidcInv, NEW h \in Handlers, NEW c \in Clients, NEW secret \in 0 .. MaxSecret,
           NEW t \in Tokens, Revoke(h, c, secret, t)
    PROVE  OidcInv' /\ RowsAdvance
<1> DEFINE r == [pc |-> "revoke", client |-> c, token |-> t]
<1>1. r \in RevokeRequest /\ r.pc = "revoke"
  BY DEF RevokeRequest
<1>2. /\ handler' = [handler EXCEPT ![h] = r]
      /\ UNCHANGED <<tableVars, active, now, vouched, refused, ended>>
  BY DEF Revoke
<1>3. r \in Handler
  BY <1>1, Requests
<1> HIDE DEF r
<1>4. handler'[h] = r
  BY <1>2, NextRequest DEF OidcInv
<1>5. RequestOK(h)'
  BY <1>1, <1>4, OtherRequest DEF Exchanging
<1> QED
  BY <1>2, <1>3, <1>5, RequestGoesOn DEF OidcInv, TypeOK

(* Revoked sessions keep their columns but for the time of revocation.     *)
LEMMA RevokedRows ==
    ASSUME TypeOK, NEW S, RevokeSessions(S)
    PROVE  /\ session' \in [Tokens -> SessionRow] /\ SessionsKept
           /\ \A t \in Tokens \cap S : session'[t].state # "valid"
<1> DEFINE out(t) == [session[t] EXCEPT !.state = "revoked"]
<1>1. session' = [t \in Tokens |-> IF t \in S /\ session[t].state = "valid"
                                   THEN out(t) ELSE session[t]]
  BY DEF RevokeSessions
<1>2. ASSUME NEW t \in Tokens, session[t].state = "valid"
      PROVE  /\ out(t) \in SessionWritten /\ out(t).state = "revoked"
             /\ out(t).client = session[t].client /\ out(t).user = session[t].user
             /\ out(t).code = session[t].code /\ out(t).sub = session[t].sub
             /\ out(t).issued = session[t].issued /\ out(t).expires = session[t].expires
  <2>1. session[t] \in SessionWritten
    BY <1>2, SessionIsWritten DEF TypeOK
  <2> QED
    BY <2>1 DEF SessionWritten
<1> HIDE DEF out
<1>3. \A t \in Tokens : session'[t] \in SessionRow
  BY <1>1, <1>2, RowKinds DEF TypeOK
<1>4. SessionsKept
  <2> SUFFICES ASSUME NEW t \in Tokens PROVE SessionKept(t)
    BY DEF SessionsKept
  <2>1. session'[t] = session[t] \/ (session[t].state = "valid" /\ session'[t] = out(t))
    BY <1>1
  <2> QED
    BY <1>2, <2>1 DEF SessionKept
<1>5. \A t \in Tokens \cap S : session'[t].state # "valid"
  BY <1>1, <1>2
<1> QED
  BY <1>1, <1>3, <1>4, <1>5

(* Every revocation ends sessions of E: those it revokes, and those that   *)
(* had run out.                                                            *)
LEMMA RevocationKeeps ==
    ASSUME OidcInv, NEW S, NEW E, E \subseteq Existing, RevokeSessions(S), ended' = ended \cup E,
           \A t \in E : t \in S \/ session[t].expires <= now,
           client' \in [Clients -> Client], handler' \in [Handlers -> Handler],
           \A i \in Handlers : handler'[i] = handler[i] \/ RequestOK(i)',
           UNCHANGED <<row, subject, code, active, now, vouched, refused>>
    PROVE  OidcInv' /\ RowsAdvance
<1>1. /\ session' \in [Tokens -> SessionRow] /\ SessionsKept
      /\ \A t \in Tokens \cap S : session'[t].state # "valid"
  BY RevokedRows DEF OidcInv
<1>2. TypeOK'
  BY <1>1 DEF OidcInv, TypeOK, Existing
<1>3. Kept /\ RefusalsKept
  BY TablesKept DEF OidcInv, RefusalsKept
<1>4. \A t \in ended' : t \in ended \/ EndedOK(t)'
  BY <1>1 DEF Existing, EndedOK, SessionsKept, SessionKept
<1> QED
  BY <1>1, <1>2, <1>3, <1>4, StepKeeps


LEMMA RevokeByTokenHashKeeps ==
    ASSUME OidcInv, NEW h \in Handlers, RevokeByTokenHash(h)
    PROVE  OidcInv' /\ RowsAdvance
<1> DEFINE mine == {t \in Existing : t = handler[h].token
                                     /\ session[t].client = handler[h].client}
<1>1. /\ RevokeSessions(mine) /\ ended' = ended \cup mine /\ Done(h)
      /\ UNCHANGED <<client, row, subject, code, active, now, vouched, refused>>
  BY DEF RevokeByTokenHash
<1>2. mine \subseteq Existing /\ \A t \in mine : t \in mine \/ session[t].expires <= now
  OBVIOUS
<1> HIDE DEF mine
<1>3. /\ handler' \in [Handlers -> Handler]
      /\ \A i \in Handlers : handler'[i] = handler[i] \/ RequestOK(i)'
  BY <1>1, RequestEnds DEF OidcInv
<1> QED
  BY <1>1, <1>2, <1>3, RevocationKeeps DEF OidcInv, TypeOK

LEMMA RevokeOIDCSessionKeeps ==
    ASSUME OidcInv, NEW t \in Tokens, RevokeOIDCSession(t)
    PROVE  OidcInv' /\ RowsAdvance
<1>1. /\ t \in Existing /\ RevokeSessions({t}) /\ ended' = ended \cup {t}
      /\ UNCHANGED <<client, row, subject, code, active, handler, now, vouched, refused>>
  BY DEF RevokeOIDCSession
<1>2. {t} \subseteq Existing /\ \A x \in {t} : x \in {t} \/ session[x].expires <= now
  BY <1>1
<1> QED
  BY <1>1, <1>2, RevocationKeeps DEF OidcInv, TypeOK

(* A bulk revocation passes over sessions that have run out.               *)
LEMMA RevokeBulkKeeps ==
    ASSUME OidcInv, NEW S \in SUBSET Existing, RevokeBulk(S)
    PROVE  OidcInv' /\ RowsAdvance
<1> DEFINE R == {t \in S : session[t].expires > now}
<1>1. /\ RevokeSessions(R) /\ ended' = ended \cup S
      /\ UNCHANGED <<client, row, subject, code, active, handler, now, vouched, refused>>
  BY DEF RevokeBulk
<1>2. \A t \in S : t \in R \/ session[t].expires <= now
  <2> SUFFICES ASSUME NEW t \in S PROVE session[t].expires > now \/ session[t].expires <= now
    OBVIOUS
  <2>1. session[t] \in SessionWritten
    BY SessionIsWritten DEF OidcInv, TypeOK, Existing
  <2> QED
    BY SMT, Z3, <2>1, LifetimeAssumption, BoundAssumption DEF SessionWritten, Time, OidcInv, TypeOK
<1> HIDE DEF R
<1> QED
  BY <1>1, <1>2, RevocationKeeps DEF OidcInv, TypeOK

(* The steps of administrators on the clients table.                       *)
LEMMA ClientRows ==
    ASSUME TypeOK, NEW c \in Clients
    PROVE  /\ client[c] \in Client /\ client[c].secret \in 0 .. MaxSecret
           /\ \A uris \in SUBSET Uris : [client[c] EXCEPT !.uris = uris] \in Client
           /\ \A to \in {"enabled", "disabled"} : [client[c] EXCEPT !.state = to] \in Client
           /\ \A n \in 0 .. MaxSecret : [client[c] EXCEPT !.secret = n] \in Client
           /\ \A uris \in SUBSET Uris :
                  [state |-> "enabled", uris |-> uris, secret |-> 0] \in Client
<1>1. client[c] \in Client
  BY DEF TypeOK
<1>2. 0 \in 0 .. MaxSecret
  BY SMT, Z3, BoundAssumption
<1> QED
  BY <1>1, <1>2 DEF Client

LEMMA ClientsChange ==
    ASSUME OidcInv, client' \in [Clients -> Client],
           UNCHANGED <<row, subject, code, session, active, handler, now, vouched, refused, ended>>
    PROVE  OidcInv' /\ RowsAdvance
<1>1. TypeOK'
  BY DEF OidcInv, TypeOK
<1>2. Kept /\ SessionsKept /\ RefusalsKept
  BY TablesKept, SessionsUnchanged DEF OidcInv, RefusalsKept
<1> QED
  BY <1>1, <1>2, StepKeeps

LEMMA ClientAdministrationKeeps ==
    ASSUME OidcInv, NEW c \in Clients, NEW uris \in SUBSET Uris,
           \/ CreateOIDCClient(c, uris) \/ UpdateOIDCClientConfiguration(c, uris)
           \/ RotateOIDCClientSecret(c) \/ EnableOIDCClient(c)
    PROVE  OidcInv' /\ RowsAdvance
<1>1. client \in [Clients -> Client]
  BY DEF OidcInv, TypeOK
<1>2. UNCHANGED <<row, subject, code, session, active, handler, now, vouched, refused, ended>>
  BY DEF CreateOIDCClient, UpdateOIDCClientConfiguration, RotateOIDCClientSecret,
               EnableOIDCClient
<1>3. CASE CreateOIDCClient(c, uris)
  <2>1. client' = [client EXCEPT ![c] = [state |-> "enabled", uris |-> uris, secret |-> 0]]
    BY <1>3 DEF CreateOIDCClient
  <2>2. client' \in [Clients -> Client]
    BY <1>1, <2>1, ClientRows DEF OidcInv
  <2> QED
    BY <1>2, <2>2, ClientsChange
<1>4. CASE UpdateOIDCClientConfiguration(c, uris)
  <2>1. client' = [client EXCEPT ![c] = [client[c] EXCEPT !.uris = uris]]
    BY <1>4 DEF UpdateOIDCClientConfiguration
  <2>2. client' \in [Clients -> Client]
    BY <1>1, <2>1, ClientRows DEF OidcInv
  <2> QED
    BY <1>2, <2>2, ClientsChange
<1>5. CASE RotateOIDCClientSecret(c)
  <2>1. client' = [client EXCEPT ![c] = [client[c] EXCEPT !.secret = client[c].secret + 1]]
    BY <1>5 DEF RotateOIDCClientSecret
  <2>2. client[c].secret \in 0 .. MaxSecret /\ client[c].secret < MaxSecret
    BY <1>5, ClientRows DEF OidcInv, RotateOIDCClientSecret
  <2>3. client[c].secret + 1 \in 0 .. MaxSecret
    BY SMT, Z3, <2>2, BoundAssumption
  <2>4. client' \in [Clients -> Client]
    BY <1>1, <2>1, <2>3, ClientRows DEF OidcInv
  <2> QED
    BY <1>2, <2>4, ClientsChange
<1>6. CASE EnableOIDCClient(c)
  <2>1. client' = [client EXCEPT ![c] = [client[c] EXCEPT !.state = "enabled"]]
    BY <1>6 DEF EnableOIDCClient
  <2>2. client' \in [Clients -> Client]
    BY <1>1, <2>1, ClientRows DEF OidcInv
  <2> QED
    BY <1>2, <2>2, ClientsChange
<1> QED
  BY <1>3, <1>4, <1>5, <1>6

LEMMA DisableOIDCClientKeeps ==
    ASSUME OidcInv, NEW c \in Clients, DisableOIDCClient(c)
    PROVE  OidcInv' /\ RowsAdvance
<1> DEFINE its == {t \in Existing : session[t].client = c}
<1>1. /\ RevokeSessions(its) /\ ended' = ended \cup its
      /\ client' = [client EXCEPT ![c] = [client[c] EXCEPT !.state = "disabled"]]
      /\ UNCHANGED <<row, subject, code, active, handler, now, vouched, refused>>
  BY DEF DisableOIDCClient
<1>2. its \subseteq Existing /\ \A t \in its : t \in its \/ session[t].expires <= now
  OBVIOUS
<1> HIDE DEF its
<1>3. client' \in [Clients -> Client]
  BY <1>1, ClientRows DEF OidcInv, TypeOK
<1> QED
  BY <1>1, <1>2, <1>3, RevocationKeeps DEF OidcInv, TypeOK

LEMMA AdministrationKeeps ==
    ASSUME OidcInv, Administration PROVE OidcInv' /\ RowsAdvance
<1>1. ASSUME NEW u \in Users, RevokeOIDCSessionsByUser(u) PROVE OidcInv' /\ RowsAdvance
  <2>1. {t \in Existing : session[t].user = u} \in SUBSET Existing
    OBVIOUS
  <2> QED
    BY <1>1, <2>1, RevokeBulkKeeps DEF RevokeOIDCSessionsByUser
<1>2. ASSUME NEW c \in Clients, RevokeOIDCSessionsByClient(c) PROVE OidcInv' /\ RowsAdvance
  <2>1. {t \in Existing : session[t].client = c} \in SUBSET Existing
    OBVIOUS
  <2> QED
    BY <1>2, <2>1, RevokeBulkKeeps DEF RevokeOIDCSessionsByClient
<1>3. ASSUME RevokeAllOIDCSessions PROVE OidcInv' /\ RowsAdvance
  <2>1. Existing \in SUBSET Existing
    OBVIOUS
  <2> QED
    BY <1>3, <2>1, RevokeBulkKeeps DEF RevokeAllOIDCSessions
<1>4. {} \in SUBSET Uris
  OBVIOUS
<1> QED
  BY <1>1, <1>2, <1>3, <1>4, RevokeOIDCSessionKeeps, ClientAdministrationKeeps,
     DisableOIDCClientKeeps DEF Administration

-----------------------------------------------------------------------------
(* The invariant and what follows from it *)

LEMMA SurroundingsKeep ==
    ASSUME OidcInv, (\E u \in Users : DirectoryChange(u)) \/ Tick
    PROVE  OidcInv' /\ RowsAdvance
<1>1. /\ UNCHANGED <<client, row, subject, code, session, handler, vouched, refused, ended>>
      /\ active' \subseteq Users
  BY DEF DirectoryChange, Tick, tableVars, OidcInv, TypeOK
<1>2. now' \in 0 .. MaxTime /\ now <= now'
  BY SMT, Z3, BoundAssumption DEF DirectoryChange, Tick, OidcInv, TypeOK
<1>3. TypeOK'
  BY <1>1, <1>2 DEF OidcInv, TypeOK
<1>4. Kept /\ SessionsKept /\ RefusalsKept
  BY <1>1, <1>2, SessionsUnchanged DEF Kept, CodesKept, SubjectsKept, RefusalsKept
<1> QED
  BY <1>1, <1>3, <1>4, StepKeeps

LEMMA NextKeeps ==
    ASSUME OidcInv, [Next]_vars PROVE OidcInv' /\ RowsAdvance
<1>1. CASE UNCHANGED vars
  <2>1. UNCHANGED <<client, row, subject, code, session, active, handler, now, vouched,
                    refused, ended>>
    BY <1>1 DEF vars, tableVars
  <2>2. client' \in [Clients -> Client]
    BY <2>1 DEF OidcInv, TypeOK
  <2> QED
    BY <2>1, <2>2, ClientsChange
<1>2. ASSUME NEW h \in Handlers, AuthorizeStep(h) PROVE OidcInv' /\ RowsAdvance
  BY <1>2, AuthorizeKeeps, AuthenticateUserKeeps, UserByUsernameKeeps, CreateUserKeeps,
     LinkUserKeeps, CreateCodeKeeps DEF AuthorizeStep
<1>3. ASSUME NEW h \in Handlers, TokenStep(h) PROVE OidcInv' /\ RowsAdvance
  BY <1>3, TokenKeeps, OIDCCodeForExchangeKeeps, DirectoryGetUserKeeps,
     PrepareTokensKeeps, ConsumeCodeWithSessionKeeps, ConsumeDeniedCodeKeeps DEF TokenStep
<1>4. ASSUME NEW h \in Handlers, RevokeStep(h) PROVE OidcInv' /\ RowsAdvance
  BY <1>4, RevokeKeeps, RevokeByTokenHashKeeps DEF RevokeStep
<1> QED
  BY <1>1, <1>2, <1>3, <1>4, AdministrationKeeps, SurroundingsKeep DEF Next

LEMMA InitHolds ==
    ASSUME Init PROVE OidcInv
<1>1. TypeOK
  <2>1. 0 \in 0 .. MaxTime /\ 0 \in 0 .. MaxSecret
    BY SMT, Z3, BoundAssumption
  <2>2. [state |-> "absent", uris |-> {}, secret |-> 0] \in Client
    BY <2>1 DEF Client
  <2> QED
    BY <2>1, <2>2, RowKinds, Requests DEF Init, TypeOK
<1>2. \A h \in Handlers : handler[h].pc = "idle"
  BY Requests DEF Init
<1>3. RequestInv
  BY <1>2 DEF RequestInv, RequestOK, Exchanging
<1>4. \A t \in Tokens : session[t].state = "absent"
  BY RowKinds DEF Init
<1> QED
  BY <1>1, <1>3, <1>4
     DEF Init, OidcInv, RefusedInv, SessionInv, SessionOK, OneSession, EndedInv

(* The invariant of codes, sessions and the requests between them.         *)
THEOREM OidcInvariant == Spec => []OidcInv
<1>1. OidcInv /\ [Next]_vars => OidcInv'
  BY NextKeeps
<1> QED
  BY <1>1, InitHolds, PTL DEF Spec

(* Requests that race for a code get one session between them, and a       *)
(* refused code yields none, although token reads it in one transaction    *)
(* and ConsumeOIDCCodeWithSession consumes it in another.                  *)
THEOREM CodesHaveOneOutcome == Spec => []OneOutcomePerCode
<1>1. OidcInv => OneOutcomePerCode
  BY DEF OidcInv, SessionInv, SessionOK, OneSession, OneOutcomePerCode, Existing
<1> QED
  BY <1>1, OidcInvariant, PTL

(* A session is that of the client and the user of its code, exchanged in  *)
(* time and after the directory was asked.                                 *)
THEOREM SessionsComeFromCodes == Spec => []SessionFromCode
<1>1. OidcInv => SessionFromCode
  BY DEF OidcInv, SessionInv, SessionOK, SessionFromCode, Existing
<1> QED
  BY <1>1, OidcInvariant, PTL

(* A revoked session is never introspected as active again, whatever is    *)
(* done to its client.                                                     *)
THEOREM RevocationLasts == Spec => []EndedStaysEnded
<1>1. OidcInv => EndedStaysEnded
  <2> SUFFICES ASSUME OidcInv, NEW t \in ended, NEW c \in Clients PROVE ~IntrospectActive(c, t)
    BY DEF EndedStaysEnded
  <2>1. t \in Tokens /\ EndedOK(t)
    BY DEF OidcInv, TypeOK, EndedInv
  <2>2. session[t].expires \in Nat /\ now \in Nat
    <3>1. session[t] \in SessionWritten
      BY <2>1, SessionIsWritten DEF OidcInv, TypeOK, EndedOK
    <3> QED
      BY SMT, Z3, <3>1, LifetimeAssumption, BoundAssumption DEF SessionWritten, Time, OidcInv, TypeOK
  <2>3. session[t].expires <= now => ~(session[t].expires > now)
    BY SMT, Z3, <2>2
  <2> QED
    BY <2>1, <2>3 DEF EndedOK, IntrospectActive
<1> QED
  BY <1>1, OidcInvariant, PTL

(* EnsureOIDCSubject gives a user one subject for good, whichever endpoint *)
(* comes first.                                                            *)
THEOREM SubjectsStay == Spec => []OneSubjectPerUser
<1>1. OidcInv => OneSubjectPerUser
  BY DEF OidcInv, SessionInv, SessionOK, OneSubjectPerUser, Existing
<1> QED
  BY <1>1, OidcInvariant, PTL

(* The rows of codes, sessions and subjects only advance, whatever         *)
(* requests, administrators and the deletion of old rows do between the    *)
(* transactions of an exchange: what a handler read of a code it redeems   *)
(* is still true when it redeems it.                                       *)
THEOREM RowsOnlyAdvance == Spec => [][RowsAdvance]_vars
<1>1. OidcInv /\ [Next]_vars => [RowsAdvance]_vars
  BY NextKeeps
<1> QED
  BY <1>1, OidcInvariant, PTL DEF Spec
=============================================================================
