------------------------- MODULE SelfServiceProofs --------------------------
(***************************************************************************)
(* The properties of SelfService for any number of users, sessions,        *)
(* ceremonies and passkeys, and any finite number of requests at a time.   *)
(*                                                                         *)
(* They are not inductive: SelfServiceInv adds that a session or a passkey *)
(* has used up its ceremony, that a session's counter is not beyond that   *)
(* of its passkey, that a registration was begun with a password, and that *)
(* the requests which may still fail are counted with the failures.        *)
(***************************************************************************)
EXTENDS SelfService, FiniteSetTheorems, TLAPS

(* Leaves are proved by Zenon, unless they name their provers: SMT, and    *)
(* then Z3, where arithmetic or sequences matter; PTL for temporal steps.  *)
USE ZenonT(100)

OnSession == {"others", "logout", "begin", "remove", "register"}

Used(m, kind) == ceremony[m].state = "used" /\ ceremony[m].kind = kind

Begun(m, u) == [ceremony |-> m, user |-> u] \in vouched

(* A request behind a session: the row of the session stays.               *)
RequestOK(h) == handler[h].pc \in OnSession => session[handler[h].session] # Absent

CeremonyOK(m) ==
    ceremony[m] # Absent /\ ceremony[m].kind = "registration" => Begun(m, ceremony[m].user)

PasskeyOK(k) ==
    passkey[k] # Absent /\ passkey[k].ceremony # "none" =>
        Used(passkey[k].ceremony, "registration") /\ Begun(passkey[k].ceremony, passkey[k].user)

SessionOK(s) ==
    session[s] # Absent =>
        /\ session[s].ceremony # "none" => Used(session[s].ceremony, "authentication")
        /\ session[s].key # "none" =>
               /\ passkey[session[s].key] # Absent
               /\ passkey[session[s].key].user = session[s].user
               /\ session[s].count <= passkey[session[s].key].count

RowsInv ==
    /\ \A h \in Handlers : RequestOK(h)
    /\ \A m \in Ceremonies : CeremonyOK(m)
    /\ \A k \in Passkeys : PasskeyOK(k)
    /\ \A s \in Sessions : SessionOK(s)

(* Requests that were let in and whose password is still being checked.    *)
Trying == {h \in Handlers : handler[h].pc = "password"}

AttemptsInv == attempts + Cardinality(Trying) <= LoginLimit + Cardinality(Handlers) - 1

SelfServiceInv ==
    TypeOK /\ RowsInv /\ AttemptsInv /\ CeremonyUsedOnce /\ CounterUsedOnce

-----------------------------------------------------------------------------
(* Rows and requests *)

LEMMA RowKinds ==
    /\ \A s \in Session : s # Absent
    /\ \A m \in Ceremony : m # Absent
    /\ \A k \in Passkey : k # Absent
    /\ Absent.state = "absent"
    /\ Idle.pc = "idle"
<1>1. Absent.state = "absent" /\ Idle.pc = "idle"
  BY DEF Absent, Idle
<1>2. \A s \in Session : s.state # "absent"
  BY DEF Session
<1>3. \A m \in Ceremony : m.state # "absent"
  BY DEF Ceremony
<1>4. \A k \in Passkey : k.state # "absent"
  BY DEF Passkey
<1> QED
  BY <1>1, <1>2, <1>3, <1>4

(* The step of a request says what it carries.                             *)
LEMMA RequestKinds ==
    ASSUME NEW r \in Handler \cup {Idle}
    PROVE  /\ r.pc = "create" => r.user \in Users
           /\ r.pc = "assert" => r.by \in Assertion /\ r.at \in 0 .. MaxTime
           /\ r.pc \in OnSession => r.session \in Sessions
           /\ r.pc \in {"remove", "register"} => r.key \in Passkeys
           /\ r.pc = "register" => r.ceremony \in Ceremonies /\ r.at \in 0 .. MaxTime
<1>1. CASE r = Idle
  BY <1>1, RowKinds DEF OnSession
<1>2. CASE r \in Handler
  <2>1. r.pc = "create" => r.user \in Users
    BY <1>2 DEF Handler
  <2>2. r.pc = "assert" => r.by \in Assertion /\ r.at \in 0 .. MaxTime
    BY <1>2 DEF Handler
  <2>3. r.pc \in OnSession => r.session \in Sessions
    BY <1>2 DEF Handler, OnSession
  <2>4. r.pc \in {"remove", "register"} => r.key \in Passkeys
    BY <1>2 DEF Handler
  <2>5. r.pc = "register" => r.ceremony \in Ceremonies /\ r.at \in 0 .. MaxTime
    BY <1>2 DEF Handler
  <2> QED
    BY <2>1, <2>2, <2>3, <2>4, <2>5
<1> QED
  BY <1>1, <1>2

LEMMA TimeBounds ==
    ASSUME NEW t \in 0 .. MaxTime
    PROVE  t \in Time /\ t + SessionLifetime \in Time /\ t + CeremonyLifetime \in Time
  BY SMT, Z3, SelfServiceBounds DEF Time

-----------------------------------------------------------------------------
(* What no step does to rows that others rely on *)

CeremonyKept(m) ==
    ceremony[m] # Absent =>
        /\ ceremony'[m] # Absent
        /\ ceremony'[m].kind = ceremony[m].kind /\ ceremony'[m].user = ceremony[m].user
        /\ ceremony'[m].expires = ceremony[m].expires
        /\ ceremony[m].state = "used" => ceremony'[m].state = "used"

PasskeyKept(k) ==
    passkey[k] # Absent =>
        /\ passkey'[k] # Absent
        /\ passkey'[k].user = passkey[k].user
        /\ passkey'[k].ceremony = passkey[k].ceremony
        /\ passkey[k].count <= passkey'[k].count
        /\ passkey[k].state = "removed" => passkey'[k].state = "removed"

SessionKept(s) ==
    /\ session'[s] = Absent <=> session[s] = Absent
    /\ session[s] # Absent =>
           /\ session'[s].user = session[s].user /\ session'[s].ceremony = session[s].ceremony
           /\ session'[s].key = session[s].key /\ session'[s].count = session[s].count
           /\ session'[s].expires = session[s].expires
           /\ session[s].state = "revoked" => session'[s].state = "revoked"

Kept ==
    /\ \A m \in Ceremonies : CeremonyKept(m)
    /\ \A k \in Passkeys : PasskeyKept(k)
    /\ vouched \subseteq vouched'

(* A used ceremony is never open again, a removed passkey never valid and  *)
(* a revoked session never active; the counter of a passkey never goes     *)
(* back, and what says whose a row is and until when never changes.        *)
RowsAdvance ==
    /\ \A m \in Ceremonies : CeremonyKept(m)
    /\ \A k \in Passkeys : PasskeyKept(k)
    /\ \A s \in Sessions : session[s] # Absent => SessionKept(s)

(* A session that a password opened.                                       *)
PasswordSession(s) ==
    /\ session[s] = Absent /\ session'[s] # Absent
    /\ session'[s].ceremony = "none" /\ session'[s].key = "none"

LEMMA UsedKept ==
    ASSUME Kept, NEW m \in Ceremonies, NEW kind, Used(m, kind)
    PROVE  Used(m, kind)'
<1>1. ceremony[m] # Absent
  BY RowKinds DEF Used
<1> QED
  BY <1>1 DEF Kept, CeremonyKept, Used

LEMMA CeremonyOKKept ==
    ASSUME Kept, NEW m \in Ceremonies, CeremonyOK(m), ceremony[m] # Absent
    PROVE  CeremonyOK(m)'
<1>1. /\ ceremony'[m].kind = ceremony[m].kind /\ ceremony'[m].user = ceremony[m].user
      /\ vouched \subseteq vouched'
  BY DEF Kept, CeremonyKept
<1> QED
  BY <1>1 DEF CeremonyOK, Begun

LEMMA PasskeyOKKept ==
    ASSUME TypeOK, Kept, NEW k \in Passkeys, PasskeyOK(k), passkey[k] # Absent
    PROVE  PasskeyOK(k)'
<1>1. passkey'[k].ceremony = passkey[k].ceremony /\ passkey'[k].user = passkey[k].user
  BY DEF Kept, PasskeyKept
<1>2. passkey[k].ceremony \in Ceremonies \cup {"none"}
  BY DEF TypeOK, Passkey
<1>3. CASE passkey[k].ceremony = "none"
  BY <1>1, <1>3 DEF PasskeyOK
<1>4. CASE passkey[k].ceremony # "none"
  <2>1. PICK m \in Ceremonies : m = passkey[k].ceremony
    BY <1>2, <1>4
  <2>2. Used(m, "registration") /\ [ceremony |-> m, user |-> passkey[k].user] \in vouched
    BY <1>4, <2>1 DEF PasskeyOK, Begun
  <2>3. Used(m, "registration")' /\ [ceremony |-> m, user |-> passkey[k].user] \in vouched'
    BY <2>2, UsedKept DEF Kept
  <2> QED
    BY <1>1, <2>1, <2>3 DEF PasskeyOK, Used, Begun
<1> QED
  BY <1>3, <1>4

LEMMA SessionOKKept ==
    ASSUME TypeOK, TypeOK', Kept, NEW s \in Sessions, SessionOK(s), SessionKept(s)
    PROVE  SessionOK(s)'
<1> SUFFICES ASSUME session'[s] # Absent PROVE SessionOK(s)'
  BY DEF SessionOK
<1>1. /\ session[s] # Absent /\ session'[s].user = session[s].user
      /\ session'[s].ceremony = session[s].ceremony
      /\ session'[s].key = session[s].key /\ session'[s].count = session[s].count
  BY DEF SessionKept
<1>2. /\ session[s].ceremony \in Ceremonies \cup {"none"}
      /\ session[s].key \in Passkeys \cup {"none"} /\ session[s].count \in 0 .. MaxCount
  BY <1>1 DEF TypeOK, Session
<1>3. session[s].ceremony # "none" =>
          ceremony'[session[s].ceremony].state = "used"
          /\ ceremony'[session[s].ceremony].kind = "authentication"
  <2> SUFFICES ASSUME NEW m \in Ceremonies, m = session[s].ceremony,
                      session[s].ceremony # "none"
               PROVE  Used(m, "authentication")'
    BY <1>2 DEF Used
  <2> QED
    BY <1>1, UsedKept DEF SessionOK
<1>4. session[s].key # "none" =>
          /\ passkey'[session[s].key] # Absent
          /\ passkey'[session[s].key].user = session[s].user
          /\ session[s].count <= passkey'[session[s].key].count
  <2> SUFFICES ASSUME NEW k \in Passkeys, k = session[s].key, session[s].key # "none"
               PROVE  /\ passkey'[k] # Absent /\ passkey'[k].user = session[s].user
                      /\ session[s].count <= passkey'[k].count
    BY <1>2
  <2>1. /\ passkey[k] # Absent /\ passkey[k].user = session[s].user
        /\ session[s].count <= passkey[k].count
    BY <1>1 DEF SessionOK
  <2>2. /\ passkey'[k] # Absent /\ passkey'[k].user = passkey[k].user
        /\ passkey[k].count <= passkey'[k].count
    BY <2>1 DEF Kept, PasskeyKept
  <2>3. passkey[k].count \in 0 .. MaxCount /\ passkey'[k].count \in 0 .. MaxCount
    BY <2>1, <2>2 DEF TypeOK, Passkey
  <2>4. session[s].count <= passkey'[k].count
    BY SMT, Z3, <1>2, <2>1, <2>2, <2>3, SelfServiceBounds
  <2> QED
    BY <2>1, <2>2, <2>4
<1> QED
  BY <1>1, <1>3, <1>4 DEF SessionOK, Used

(* A request that does not move, or is not behind a session.               *)
LEMMA RequestKept ==
    ASSUME TypeOK, \A s \in Sessions : session[s] # Absent => session'[s] # Absent,
           NEW h \in Handlers, RequestOK(h), handler'[h] = handler[h]
    PROVE  RequestOK(h)'
<1>1. handler[h] \in Handler \cup {Idle}
  BY DEF TypeOK
<1>2. handler[h].pc \in OnSession => handler[h].session \in Sessions
  BY <1>1, RequestKinds
<1> QED
  BY <1>2 DEF RequestOK

(* A step that uses up no ceremony keeps the invariant.                    *)
LEMMA StepKeeps ==
    ASSUME SelfServiceInv, TypeOK', AttemptsInv', Kept,
           \A s \in Sessions : SessionKept(s) \/ PasswordSession(s),
           \A h \in Handlers : handler'[h] = handler[h] \/ RequestOK(h)',
           \A m \in Ceremonies : ceremony[m] # Absent \/ CeremonyOK(m)',
           \A k \in Passkeys : passkey[k] = Absent => passkey'[k] = Absent
    PROVE  SelfServiceInv' /\ RowsAdvance
<1>1. \A s \in Sessions : SessionOK(s)'
  <2> SUFFICES ASSUME NEW s \in Sessions PROVE SessionOK(s)'
    OBVIOUS
  <2>1. CASE SessionKept(s)
    BY <2>1, SessionOKKept DEF SelfServiceInv, RowsInv
  <2>2. CASE PasswordSession(s)
    BY <2>2 DEF PasswordSession, SessionOK
  <2> QED
    BY <2>1, <2>2
<1>2. \A k \in Passkeys : PasskeyOK(k)'
  <2> SUFFICES ASSUME NEW k \in Passkeys PROVE PasskeyOK(k)'
    OBVIOUS
  <2>1. CASE passkey[k] = Absent
    BY <2>1 DEF PasskeyOK
  <2>2. CASE passkey[k] # Absent
    BY <2>2, PasskeyOKKept DEF SelfServiceInv, RowsInv
  <2> QED
    BY <2>1, <2>2
<1>3. \A m \in Ceremonies : CeremonyOK(m)'
  BY CeremonyOKKept DEF SelfServiceInv, RowsInv
<1>4. \A s \in Sessions : session[s] # Absent => session'[s] # Absent
  BY DEF SessionKept, PasswordSession
<1>5. \A h \in Handlers : RequestOK(h)'
  BY <1>4, RequestKept DEF SelfServiceInv, RowsInv
<1>6. ASSUME NEW s \in Sessions, session'[s] # Absent,
             session'[s].ceremony # "none" \/ session'[s].key # "none"
      PROVE  /\ session[s] # Absent /\ session'[s].ceremony = session[s].ceremony
             /\ session'[s].key = session[s].key /\ session'[s].count = session[s].count
  BY <1>6 DEF SessionKept, PasswordSession
<1>7. CeremonyUsedOnce'
  <2>1. ASSUME NEW s \in Sessions, NEW t \in Sessions, session'[s] # Absent,
               session'[t] # Absent, session'[s].ceremony # "none",
               session'[s].ceremony = session'[t].ceremony
        PROVE  s = t
    <3>1. session'[t].ceremony # "none"
      BY <2>1
    <3>2. session[s] # Absent /\ session'[s].ceremony = session[s].ceremony
      BY <1>6, <2>1
    <3>3. session[t] # Absent /\ session'[t].ceremony = session[t].ceremony
      BY <1>6, <2>1, <3>1
    <3> QED
      BY <2>1, <3>2, <3>3 DEF SelfServiceInv, CeremonyUsedOnce, Rows
  <2>2. ASSUME NEW k \in Passkeys, NEW l \in Passkeys, passkey'[k] # Absent,
               passkey'[l] # Absent, passkey'[k].ceremony # "none",
               passkey'[k].ceremony = passkey'[l].ceremony
        PROVE  k = l
    <3>1. /\ passkey[k] # Absent /\ passkey[l] # Absent
          /\ passkey'[k].ceremony = passkey[k].ceremony
          /\ passkey'[l].ceremony = passkey[l].ceremony
      BY <2>2 DEF Kept, PasskeyKept
    <3> QED
      BY <2>2, <3>1 DEF SelfServiceInv, CeremonyUsedOnce
  <2> QED
    BY <2>1, <2>2 DEF CeremonyUsedOnce, Rows
<1>8. CounterUsedOnce'
  <2> SUFFICES ASSUME NEW s \in Sessions, NEW t \in Sessions, session'[s] # Absent,
                      session'[t] # Absent, s # t, session'[s].key # "none",
                      session'[s].key = session'[t].key
               PROVE  session'[s].count # session'[t].count \/ session'[s].count = 0
    BY DEF CounterUsedOnce, Rows
  <2>1. session'[t].key # "none"
    OBVIOUS
  <2>2. /\ session[s] # Absent /\ session'[s].key = session[s].key
        /\ session'[s].count = session[s].count
    BY <1>6
  <2>3. /\ session[t] # Absent /\ session'[t].key = session[t].key
        /\ session'[t].count = session[t].count
    BY <1>6, <2>1
  <2> QED
    BY <2>2, <2>3 DEF SelfServiceInv, CounterUsedOnce, Rows
<1>9. RowsAdvance
  BY DEF Kept, PasswordSession, RowsAdvance
<1> QED
  BY <1>1, <1>2, <1>3, <1>5, <1>7, <1>8, <1>9 DEF SelfServiceInv, RowsInv

-----------------------------------------------------------------------------
(* Counting failed logins *)

LEMMA Counting ==
    /\ Cardinality(Handlers) \in Nat
    /\ Trying \subseteq Handlers /\ IsFiniteSet(Trying)
    /\ Cardinality(Trying) \in Nat /\ Cardinality(Trying) <= Cardinality(Handlers)
<1>1. Trying \subseteq Handlers /\ IsFiniteSet(Handlers)
  BY SelfServiceBounds DEF Trying
<1>2. IsFiniteSet(Trying) /\ Cardinality(Trying) <= Cardinality(Handlers)
  BY <1>1, FS_Subset
<1>3. Cardinality(Handlers) \in Nat /\ Cardinality(Trying) \in Nat
  BY <1>1, <1>2, FS_CardinalityType
<1> QED
  BY <1>1, <1>2, <1>3

(* The count is unchanged unless a request enters or leaves the check.     *)
LEMMA AttemptsKept ==
    ASSUME AttemptsInv, UNCHANGED attempts,
           \A h \in Handlers : handler'[h].pc = "password" <=> handler[h].pc = "password"
    PROVE  AttemptsInv'
<1>1. Trying' = Trying
  BY DEF Trying
<1> QED
  BY <1>1 DEF AttemptsInv


(* The handler of h is r afterwards.                                       *)
LEMMA NextRequest ==
    ASSUME TypeOK, NEW h \in Handlers, NEW r \in Handler \cup {Idle}, Goto(h, r)
    PROVE  /\ handler' \in [Handlers -> Handler \cup {Idle}] /\ handler'[h] = r
           /\ \A i \in Handlers \ {h} : handler'[i] = handler[i]
  BY DEF TypeOK, Goto

(* A request ends that did not check a password.                           *)
LEMMA RequestEnds ==
    ASSUME SelfServiceInv, NEW h \in Handlers, Goto(h, Idle), handler[h].pc # "password",
           UNCHANGED attempts
    PROVE  /\ handler' \in [Handlers -> Handler \cup {Idle}] /\ AttemptsInv'
           /\ \A i \in Handlers : handler'[i] = handler[i] \/ RequestOK(i)'
<1>1. /\ handler' \in [Handlers -> Handler \cup {Idle}] /\ handler'[h] = Idle
      /\ \A i \in Handlers \ {h} : handler'[i] = handler[i]
  BY NextRequest DEF SelfServiceInv
<1>2. handler'[h].pc = "idle"
  BY <1>1, RowKinds
<1>3. RequestOK(h)'
  BY <1>2 DEF RequestOK, OnSession
<1>4. \A i \in Handlers : handler'[i].pc = "password" <=> handler[i].pc = "password"
  BY <1>1, <1>2
<1>5. AttemptsInv'
  BY <1>4, AttemptsKept DEF SelfServiceInv
<1> QED
  BY <1>1, <1>3, <1>5

(* Tables that are not touched.                                            *)
LEMMA CeremoniesUnchanged ==
    ASSUME UNCHANGED ceremony PROVE \A m \in Ceremonies : CeremonyKept(m)
  BY DEF CeremonyKept

LEMMA PasskeysUnchanged ==
    ASSUME TypeOK, UNCHANGED passkey PROVE \A k \in Passkeys : PasskeyKept(k)
<1> SUFFICES ASSUME NEW k \in Passkeys, passkey[k] # Absent PROVE passkey[k].count <= passkey[k].count
  BY DEF PasskeyKept
<1>1. passkey[k].count \in 0 .. MaxCount
  BY DEF TypeOK, Passkey
<1> QED
  BY SMT, Z3, <1>1, SelfServiceBounds

LEMMA SessionsUnchanged ==
    ASSUME UNCHANGED session PROVE \A s \in Sessions : SessionKept(s)
  BY DEF SessionKept

(* No table is touched, and only handler and counter change.               *)
LEMMA OnlyRequests ==
    ASSUME SelfServiceInv, UNCHANGED <<session, ceremony, passkey, vouched>>,
           attempts' \in Nat, now' \in 0 .. MaxTime, AttemptsInv',
           handler' \in [Handlers -> Handler \cup {Idle}],
           \A h \in Handlers : handler'[h] = handler[h] \/ RequestOK(h)'
    PROVE  SelfServiceInv' /\ RowsAdvance
<1>1. TypeOK'
  BY DEF SelfServiceInv, TypeOK
<1>2. Kept
  BY CeremoniesUnchanged, PasskeysUnchanged DEF SelfServiceInv, Kept
<1>3. \A m \in Ceremonies : ceremony[m] # Absent \/ CeremonyOK(m)'
  BY DEF CeremonyOK
<1> QED
  BY <1>1, <1>2, <1>3, SessionsUnchanged, StepKeeps

-----------------------------------------------------------------------------
(* Login with a password *)

(* Below the limit, even with every handler at work.                       *)
LEMMA loginAllowedKeeps ==
    ASSUME SelfServiceInv, NEW h \in Handlers, loginAllowed(h)
    PROVE  SelfServiceInv' /\ RowsAdvance
<1> DEFINE r == [pc |-> "password"]
<1>1. /\ attempts < LoginLimit /\ Goto(h, r)
      /\ UNCHANGED <<attempts, session, ceremony, passkey, vouched, now>>
  BY DEF loginAllowed
<1>2. r \in Handler \cup {Idle} /\ r.pc = "password"
  BY DEF Handler
<1> HIDE DEF r
<1>3. /\ handler' \in [Handlers -> Handler \cup {Idle}] /\ handler'[h] = r
      /\ \A i \in Handlers \ {h} : handler'[i] = handler[i]
  BY <1>1, <1>2, NextRequest DEF SelfServiceInv
<1>4. RequestOK(h)'
  BY <1>2, <1>3 DEF RequestOK, OnSession
<1>5. Cardinality(Trying)' \in Nat /\ Cardinality(Trying)' <= Cardinality(Handlers)
  <2>1. Trying' \subseteq Handlers /\ IsFiniteSet(Handlers)
    BY SelfServiceBounds DEF Trying
  <2>2. IsFiniteSet(Trying') /\ Cardinality(Trying') <= Cardinality(Handlers)
    BY <2>1, FS_Subset
  <2> QED
    BY <2>2, FS_CardinalityType
<1>6. attempts' \in Nat /\ now' \in 0 .. MaxTime
  BY <1>1 DEF SelfServiceInv, TypeOK
<1>7. AttemptsInv'
  BY SMT, Z3, <1>1, <1>5, <1>6, Counting, SelfServiceBounds DEF AttemptsInv
<1> QED
  BY <1>1, <1>3, <1>4, <1>6, <1>7, OnlyRequests

(* A failure counts, but its request is no longer under way; a success     *)
(* clears the count.                                                       *)
LEMMA AuthenticateUserKeeps ==
    ASSUME SelfServiceInv, NEW h \in Handlers, NEW u \in Users, NEW right \in BOOLEAN,
           AuthenticateUser(h, u, right)
    PROVE  SelfServiceInv' /\ RowsAdvance
<1> DEFINE r == IF right THEN [pc |-> "create", user |-> u] ELSE Idle
<1>1. /\ UNCHANGED <<session, ceremony, passkey, vouched, now>> /\ handler[h].pc = "password"
      /\ attempts' = (IF right THEN 0 ELSE attempts + 1) /\ Goto(h, r)
  BY DEF AuthenticateUser
<1>2. r \in Handler \cup {Idle} /\ r.pc \in {"create", "idle"}
  <2>1. [pc |-> "create", user |-> u] \in Handler
    BY DEF Handler
  <2> QED
    BY <2>1, RowKinds
<1> HIDE DEF r
<1>3. /\ handler' \in [Handlers -> Handler \cup {Idle}] /\ handler'[h] = r
      /\ \A i \in Handlers \ {h} : handler'[i] = handler[i]
  BY <1>1, <1>2, NextRequest DEF SelfServiceInv
<1>4. RequestOK(h)'
  BY <1>2, <1>3 DEF RequestOK, OnSession
<1>5. attempts \in Nat /\ attempts' \in Nat /\ now' \in 0 .. MaxTime
  BY SMT, Z3, <1>1 DEF SelfServiceInv, TypeOK
<1>6. Trying' = Trying \ {h} /\ h \in Trying
  BY <1>1, <1>2, <1>3 DEF Trying
<1>7. Cardinality(Trying') = Cardinality(Trying) - 1
  BY <1>6, Counting, FS_RemoveElement
<1>8. AttemptsInv'
  BY SMT, Z3, <1>1, <1>5, <1>7, Counting, SelfServiceBounds DEF AttemptsInv, SelfServiceInv
<1> QED
  BY <1>1, <1>3, <1>4, <1>5, <1>8, OnlyRequests

LEMMA ProvisioningFailsKeeps ==
    ASSUME SelfServiceInv, NEW h \in Handlers, ProvisioningFails(h)
    PROVE  SelfServiceInv' /\ RowsAdvance
<1>1. /\ UNCHANGED <<attempts, session, ceremony, passkey, vouched, now>>
      /\ handler[h].pc = "create" /\ Goto(h, Idle)
  BY DEF ProvisioningFails
<1>2. attempts' \in Nat /\ now' \in 0 .. MaxTime
  BY <1>1 DEF SelfServiceInv, TypeOK
<1>3. handler[h].pc # "password"
  BY <1>1
<1> QED
  BY <1>1, <1>2, <1>3, RequestEnds, OnlyRequests


(* The row of a new session.                                               *)
LEMMA NewSessionRow ==
    ASSUME NEW u \in Users, NEW t \in 0 .. MaxTime, NEW m \in Ceremonies \cup {"none"},
           NEW k \in Passkeys \cup {"none"}, NEW n \in 0 .. MaxCount
    PROVE  /\ NewSession(u, t, m, k, n) \in Session
           /\ NewSession(u, t, m, k, n).user = u /\ NewSession(u, t, m, k, n).ceremony = m
           /\ NewSession(u, t, m, k, n).key = k /\ NewSession(u, t, m, k, n).count = n
<1>1. t + SessionLifetime \in Time
  BY TimeBounds
<1> QED
  BY <1>1 DEF NewSession, Session

LEMMA CreateSelfServiceSessionWithAuditKeeps ==
    ASSUME SelfServiceInv, NEW h \in Handlers, NEW s \in Sessions,
           CreateSelfServiceSessionWithAudit(h, s)
    PROVE  SelfServiceInv' /\ RowsAdvance
<1> DEFINE row == NewSession(handler[h].user, now, "none", "none", 0)
<1>1. /\ UNCHANGED <<attempts, ceremony, passkey, vouched, now>>
      /\ handler[h].pc = "create" /\ session[s] = Absent /\ Goto(h, Idle)
      /\ session' = [session EXCEPT ![s] = row]
  BY DEF CreateSelfServiceSessionWithAudit
<1>2. handler[h].user \in Users /\ now \in 0 .. MaxTime
  <2>1. handler[h] \in Handler \cup {Idle} /\ now \in 0 .. MaxTime
    BY DEF SelfServiceInv, TypeOK
  <2> QED
    BY <1>1, <2>1, RequestKinds
<1>3. 0 \in 0 .. MaxCount
  BY SMT, Z3, SelfServiceBounds
<1>4. row \in Session /\ row.ceremony = "none" /\ row.key = "none"
  <2>1. "none" \in Ceremonies \cup {"none"} /\ "none" \in Passkeys \cup {"none"}
    OBVIOUS
  <2> QED
    BY SMT, Z3, <1>2, <1>3, <2>1, NewSessionRow
<1> HIDE DEF row
<1>5. /\ session'[s] = row /\ \A x \in Sessions \ {s} : session'[x] = session[x]
      /\ session' \in [Sessions -> Session \cup {Absent}]
  BY <1>1, <1>4 DEF SelfServiceInv, TypeOK
<1>6. PasswordSession(s)
  BY <1>1, <1>4, <1>5, RowKinds DEF PasswordSession
<1>7. \A x \in Sessions : SessionKept(x) \/ PasswordSession(x)
  BY <1>5, <1>6 DEF SessionKept
<1>8. handler[h].pc # "password"
  BY <1>1
<1>9. /\ handler' \in [Handlers -> Handler \cup {Idle}] /\ AttemptsInv'
      /\ \A i \in Handlers : handler'[i] = handler[i] \/ RequestOK(i)'
  BY <1>1, <1>8, RequestEnds
<1>10. TypeOK'
  BY <1>1, <1>5, <1>9 DEF SelfServiceInv, TypeOK
<1>11. Kept
  BY <1>1, CeremoniesUnchanged, PasskeysUnchanged DEF SelfServiceInv, Kept
<1>12. \A m \in Ceremonies : ceremony[m] # Absent \/ CeremonyOK(m)'
  BY <1>1 DEF CeremonyOK
<1> QED
  BY <1>1, <1>7, <1>9, <1>10, <1>11, <1>12, StepKeeps

LEMMA SurroundingsKeep ==
    ASSUME SelfServiceInv, WindowPasses \/ Tick
    PROVE  SelfServiceInv' /\ RowsAdvance
<1>1. UNCHANGED <<session, ceremony, passkey, vouched, handler>>
  BY DEF WindowPasses, Tick
<1>2. attempts \in Nat /\ now \in 0 .. MaxTime
  BY DEF SelfServiceInv, TypeOK
<1>3. attempts' \in Nat /\ attempts' <= attempts /\ now' \in 0 .. MaxTime
  BY SMT, Z3, <1>2, SelfServiceBounds DEF WindowPasses, Tick
<1>4. Trying' = Trying
  BY <1>1 DEF Trying
<1>5. AttemptsInv'
  BY SMT, Z3, <1>2, <1>3, <1>4, Counting, SelfServiceBounds DEF AttemptsInv, SelfServiceInv
<1>6. handler' \in [Handlers -> Handler \cup {Idle}]
  BY <1>1 DEF SelfServiceInv, TypeOK
<1> QED
  BY <1>1, <1>3, <1>5, <1>6, OnlyRequests

-----------------------------------------------------------------------------
(* Login with a passkey *)

(* A ceremony is created under a name that was not in use.                 *)
LEMMA CeremonyCreated ==
    ASSUME TypeOK, NEW m \in Ceremonies, NEW kind \in {"registration", "authentication"},
           NEW u \in Users \cup {"none"}, CreateWebAuthnCeremony(m, kind, u)
    PROVE  /\ ceremony' \in [Ceremonies -> Ceremony \cup {Absent}]
           /\ \A x \in Ceremonies : CeremonyKept(x)
           /\ ceremony'[m].kind = kind /\ ceremony'[m].user = u
           /\ \A x \in Ceremonies \ {m} : ceremony'[x] = ceremony[x]
<1> DEFINE row == [state |-> "open", kind |-> kind, user |-> u,
                   expires |-> now + CeremonyLifetime]
<1>1. ceremony[m] = Absent /\ ceremony' = [ceremony EXCEPT ![m] = row]
  BY DEF CreateWebAuthnCeremony
<1>2. now + CeremonyLifetime \in Time
  BY TimeBounds DEF TypeOK
<1>3. row \in Ceremony /\ row.kind = kind /\ row.user = u
  BY <1>2 DEF Ceremony
<1> HIDE DEF row
<1>4. ceremony'[m] = row /\ \A x \in Ceremonies \ {m} : ceremony'[x] = ceremony[x]
  BY <1>1 DEF TypeOK
<1>5. ceremony' \in [Ceremonies -> Ceremony \cup {Absent}]
  BY <1>1, <1>3 DEF TypeOK
<1>6. \A x \in Ceremonies : CeremonyKept(x)
  BY <1>1, <1>4 DEF CeremonyKept
<1> QED
  BY <1>3, <1>4, <1>5, <1>6

LEMMA passkeyLoginBeginKeeps ==
    ASSUME SelfServiceInv, NEW m \in Ceremonies, passkeyLoginBegin(m)
    PROVE  SelfServiceInv' /\ RowsAdvance
<1>1. /\ CreateWebAuthnCeremony(m, "authentication", "none")
      /\ UNCHANGED <<attempts, session, passkey, vouched, handler, now>>
  BY DEF passkeyLoginBegin
<1>2. /\ ceremony' \in [Ceremonies -> Ceremony \cup {Absent}]
      /\ \A x \in Ceremonies : CeremonyKept(x)
      /\ ceremony'[m].kind = "authentication"
      /\ \A x \in Ceremonies \ {m} : ceremony'[x] = ceremony[x]
  BY <1>1, CeremonyCreated DEF SelfServiceInv
<1>3. TypeOK'
  BY <1>1, <1>2 DEF SelfServiceInv, TypeOK
<1>4. Kept
  BY <1>1, <1>2, PasskeysUnchanged DEF SelfServiceInv, Kept
<1>5. \A x \in Ceremonies : ceremony[x] # Absent \/ CeremonyOK(x)'
  BY <1>2 DEF CeremonyOK
<1>6. AttemptsInv'
  BY <1>1, AttemptsKept DEF SelfServiceInv
<1> QED
  BY <1>1, <1>3, <1>4, <1>5, <1>6, SessionsUnchanged, StepKeeps

(* A request is let in that checks no password.                            *)
LEMMA RequestStarts ==
    ASSUME SelfServiceInv, NEW h \in Handlers, NEW r \in Handler, handler[h] = Idle, Goto(h, r),
           r.pc # "password", r.pc \in OnSession => session[r.session] # Absent,
           UNCHANGED <<attempts, session, ceremony, passkey, vouched, now>>
    PROVE  SelfServiceInv' /\ RowsAdvance
<1>1. /\ handler' \in [Handlers -> Handler \cup {Idle}] /\ handler'[h] = r
      /\ \A i \in Handlers \ {h} : handler'[i] = handler[i]
  BY NextRequest DEF SelfServiceInv
<1>2. RequestOK(h)'
  BY <1>1 DEF RequestOK
<1>3. \A i \in Handlers : handler'[i].pc = "password" <=> handler[i].pc = "password"
  BY <1>1, RowKinds
<1>4. AttemptsInv'
  BY <1>3, AttemptsKept DEF SelfServiceInv
<1>5. attempts' \in Nat /\ now' \in 0 .. MaxTime
  BY DEF SelfServiceInv, TypeOK
<1> QED
  BY <1>1, <1>2, <1>4, <1>5, OnlyRequests

LEMMA passkeyLoginCompleteKeeps ==
    ASSUME SelfServiceInv, NEW h \in Handlers, NEW a \in Assertion, passkeyLoginComplete(h, a)
    PROVE  SelfServiceInv' /\ RowsAdvance
<1> DEFINE r == [pc |-> "assert", by |-> a, at |-> now]
<1>1. /\ handler[h] = Idle /\ Goto(h, r)
      /\ UNCHANGED <<attempts, session, ceremony, passkey, vouched, now>>
  BY DEF passkeyLoginComplete
<1>2. now \in 0 .. MaxTime
  BY DEF SelfServiceInv, TypeOK
<1>3. r \in Handler /\ r.pc = "assert"
  BY <1>2 DEF Handler
<1>4. r.pc # "password" /\ r.pc \notin OnSession
  BY <1>3 DEF OnSession
<1> HIDE DEF r
<1> QED
  BY <1>1, <1>3, <1>4, RequestStarts

(* The session uses up its ceremony and moves the counter of its passkey.  *)
LEMMA OpenedRows ==
    ASSUME SelfServiceInv, NEW a \in Assertion, NEW s \in Sessions, NEW t \in 0 .. MaxTime,
           Usable(a, t), session[s] = Absent, Open(a, s, t)
    PROVE  /\ session' \in [Sessions -> Session \cup {Absent}]
           /\ \A x \in Sessions \ {s} : session'[x] = session[x]
           /\ session'[s] # Absent /\ session'[s].user = passkey[a.key].user
           /\ session'[s].ceremony = a.ceremony /\ session'[s].key = a.key
           /\ session'[s].count = a.count
           /\ passkey' \in [Passkeys -> Passkey \cup {Absent}]
           /\ \A k \in Passkeys : PasskeyKept(k)
           /\ \A k \in Passkeys : passkey[k] = Absent => passkey'[k] = Absent
           /\ passkey[a.key] # Absent /\ passkey'[a.key].count = a.count
           /\ ceremony' \in [Ceremonies -> Ceremony \cup {Absent}]
           /\ \A m \in Ceremonies : CeremonyKept(m)
           /\ \A m \in Ceremonies : ceremony[m] # Absent \/ ceremony'[m] = ceremony[m]
           /\ Used(a.ceremony, "authentication")'
<1>1. a.ceremony \in Ceremonies /\ a.key \in Passkeys /\ a.count \in 0 .. MaxCount
  BY DEF Assertion
<1>2. /\ ceremony[a.ceremony].state = "open" /\ ceremony[a.ceremony].kind = "authentication"
      /\ passkey[a.key].state = "valid"
      /\ validWebAuthnSignCount(passkey[a.key].count, a.count)
  BY DEF Usable, CeremonyActive
<1>3. ceremony[a.ceremony] \in Ceremony /\ passkey[a.key] \in Passkey
  BY <1>1, <1>2, RowKinds DEF SelfServiceInv, TypeOK
<1> DEFINE row == NewSession(passkey[a.key].user, t, a.ceremony, a.key, a.count)
           key == [passkey[a.key] EXCEPT !.count = a.count]
           done == [ceremony[a.ceremony] EXCEPT !.state = "used"]
<1>4. /\ session' = [session EXCEPT ![s] = row] /\ passkey' = [passkey EXCEPT ![a.key] = key]
      /\ ceremony' = [ceremony EXCEPT ![a.ceremony] = done]
  BY DEF Open
<1>5. passkey[a.key].user \in Users
  BY <1>3 DEF Passkey
<1>6. /\ row \in Session /\ row.user = passkey[a.key].user /\ row.ceremony = a.ceremony
      /\ row.key = a.key /\ row.count = a.count
  <2>1. a.ceremony \in Ceremonies \cup {"none"} /\ a.key \in Passkeys \cup {"none"}
    BY <1>1
  <2> QED
    BY SMT, Z3, <1>1, <1>5, <2>1, NewSessionRow
<1>7. /\ key \in Passkey /\ key.user = passkey[a.key].user
      /\ key.ceremony = passkey[a.key].ceremony /\ key.count = a.count
  BY <1>1, <1>3 DEF Passkey
<1>8. /\ done \in Ceremony /\ done.state = "used" /\ done.kind = "authentication"
      /\ done.user = ceremony[a.ceremony].user /\ done.expires = ceremony[a.ceremony].expires
  BY <1>2, <1>3 DEF Ceremony
<1> HIDE DEF row, key, done
<1>9. /\ session' \in [Sessions -> Session \cup {Absent}] /\ session'[s] = row
      /\ \A x \in Sessions \ {s} : session'[x] = session[x]
  BY <1>4, <1>6 DEF SelfServiceInv, TypeOK
<1>10. /\ passkey' \in [Passkeys -> Passkey \cup {Absent}] /\ passkey'[a.key] = key
       /\ \A x \in Passkeys \ {a.key} : passkey'[x] = passkey[x]
  BY <1>1, <1>4, <1>7 DEF SelfServiceInv, TypeOK
<1>11. /\ ceremony' \in [Ceremonies -> Ceremony \cup {Absent}] /\ ceremony'[a.ceremony] = done
       /\ \A x \in Ceremonies \ {a.ceremony} : ceremony'[x] = ceremony[x]
  BY <1>1, <1>4, <1>8 DEF SelfServiceInv, TypeOK
<1>12. passkey[a.key].count <= a.count
  <2>1. passkey[a.key].count \in 0 .. MaxCount
    BY <1>3 DEF Passkey
  <2> QED
    BY SMT, Z3, <1>1, <1>2, <2>1, SelfServiceBounds DEF validWebAuthnSignCount
<1>13. \A k \in Passkeys : PasskeyKept(k)
  <2> SUFFICES ASSUME NEW k \in Passkeys, passkey[k] # Absent PROVE PasskeyKept(k)
    BY DEF PasskeyKept
  <2>1. CASE k = a.key
    BY <1>2, <1>7, <1>10, <1>12, <2>1, RowKinds DEF PasskeyKept
  <2>2. CASE k # a.key
    <3>1. passkey'[k] = passkey[k] /\ passkey[k].count \in 0 .. MaxCount
      BY <1>10, <2>2 DEF SelfServiceInv, TypeOK, Passkey
    <3>2. passkey[k].count <= passkey'[k].count
      BY SMT, Z3, <3>1, SelfServiceBounds
    <3> QED
      BY <3>1, <3>2 DEF PasskeyKept
  <2> QED
    BY <2>1, <2>2
<1>14. \A m \in Ceremonies : CeremonyKept(m)
  BY <1>2, <1>8, <1>11, RowKinds DEF CeremonyKept
<1>15. Used(a.ceremony, "authentication")'
  BY <1>8, <1>11 DEF Used
<1> QED
  BY <1>3, <1>6, <1>7, <1>9, <1>10, <1>11, <1>13, <1>14, <1>15, RowKinds


(* The ceremony was open, so no other session has it; the counter has      *)
(* moved past those of earlier sessions, or there is none.                 *)
LEMMA SessionOpens ==
    ASSUME SelfServiceInv, NEW h \in Handlers, NEW a \in Assertion, NEW s \in Sessions,
           NEW t \in 0 .. MaxTime, Usable(a, t), session[s] = Absent, Open(a, s, t),
           handler[h].pc = "assert", Goto(h, Idle), UNCHANGED <<attempts, vouched, now>>
    PROVE  SelfServiceInv' /\ RowsAdvance
<1>1. /\ session' \in [Sessions -> Session \cup {Absent}]
      /\ \A x \in Sessions \ {s} : session'[x] = session[x]
      /\ session'[s] # Absent /\ session'[s].user = passkey[a.key].user
      /\ session'[s].ceremony = a.ceremony /\ session'[s].key = a.key
      /\ session'[s].count = a.count
      /\ passkey' \in [Passkeys -> Passkey \cup {Absent}]
      /\ \A k \in Passkeys : PasskeyKept(k)
      /\ \A k \in Passkeys : passkey[k] = Absent => passkey'[k] = Absent
      /\ passkey[a.key] # Absent /\ passkey'[a.key].count = a.count
      /\ ceremony' \in [Ceremonies -> Ceremony \cup {Absent}]
      /\ \A m \in Ceremonies : CeremonyKept(m)
      /\ \A m \in Ceremonies : ceremony[m] # Absent \/ ceremony'[m] = ceremony[m]
      /\ Used(a.ceremony, "authentication")'
  BY OpenedRows
<1>2. a.ceremony \in Ceremonies /\ a.key \in Passkeys /\ a.count \in 0 .. MaxCount
  BY DEF Assertion
<1>3. handler[h].pc # "password"
  OBVIOUS
<1>4. /\ handler' \in [Handlers -> Handler \cup {Idle}] /\ AttemptsInv'
      /\ \A i \in Handlers : handler'[i] = handler[i] \/ RequestOK(i)'
  BY <1>3, RequestEnds
<1>5. TypeOK'
  BY <1>1, <1>4 DEF SelfServiceInv, TypeOK
<1>6. Kept
  BY <1>1 DEF Kept
<1>7. \A x \in Sessions \ {s} : SessionKept(x)
  BY <1>1 DEF SessionKept
<1>8. SessionOK(s)'
  <2>1. passkey'[a.key] # Absent /\ passkey'[a.key].user = passkey[a.key].user
    BY <1>1, <1>2 DEF PasskeyKept
  <2>2. a.count <= a.count
    BY SMT, Z3, <1>2, SelfServiceBounds
  <2> QED
    BY <1>1, <2>1, <2>2 DEF SessionOK
<1>9. \A x \in Sessions : SessionOK(x)'
  <2> SUFFICES ASSUME NEW x \in Sessions \ {s} PROVE SessionOK(x)'
    BY <1>8
  <2> QED
    BY <1>5, <1>6, <1>7, SessionOKKept DEF SelfServiceInv, RowsInv
<1>10. \A k \in Passkeys : PasskeyOK(k)'
  <2> SUFFICES ASSUME NEW k \in Passkeys, passkey[k] # Absent PROVE PasskeyOK(k)'
    BY <1>1 DEF PasskeyOK
  <2> QED
    BY <1>6, PasskeyOKKept DEF SelfServiceInv, RowsInv
<1>11. \A m \in Ceremonies : CeremonyOK(m)'
  <2> SUFFICES ASSUME NEW m \in Ceremonies PROVE CeremonyOK(m)'
    OBVIOUS
  <2>1. CASE ceremony[m] # Absent
    BY <1>6, <2>1, CeremonyOKKept DEF SelfServiceInv, RowsInv
  <2>2. CASE ceremony[m] = Absent
    BY <1>1, <2>2 DEF CeremonyOK
  <2> QED
    BY <2>1, <2>2
<1>12. \A x \in Sessions : session[x] # Absent => session'[x] # Absent
  BY <1>1
<1>13. \A i \in Handlers : RequestOK(i)'
  BY <1>4, <1>12, RequestKept DEF SelfServiceInv, RowsInv
<1>14. ASSUME NEW x \in Sessions \ {s}, session[x] # Absent
       PROVE  session[x].ceremony # a.ceremony
  <2>1. a.ceremony # "none" /\ ceremony[a.ceremony].state = "open"
    BY <1>2, SelfServiceNames DEF Usable, CeremonyActive
  <2> QED
    BY <1>14, <2>1 DEF SelfServiceInv, RowsInv, SessionOK, Used
<1>15. ASSUME NEW x \in Sessions \ {s}, session[x] # Absent, session[x].key = a.key
       PROVE  session[x].count # a.count \/ a.count = 0
  <2>1. a.key # "none"
    BY <1>2, SelfServiceNames
  <2>2. session[x].count <= passkey[a.key].count
    BY <1>15, <2>1 DEF SelfServiceInv, RowsInv, SessionOK
  <2>3. session[x].count \in 0 .. MaxCount /\ passkey[a.key].count \in 0 .. MaxCount
    BY <1>1, <1>2, <1>15 DEF SelfServiceInv, TypeOK, Session, Passkey
  <2>4. validWebAuthnSignCount(passkey[a.key].count, a.count)
    BY DEF Usable
  <2> QED
    BY SMT, Z3, <1>2, <2>2, <2>3, <2>4, SelfServiceBounds DEF validWebAuthnSignCount
<1>16. CeremonyUsedOnce'
  <2>1. ASSUME NEW x \in Sessions, NEW y \in Sessions, session'[x] # Absent,
               session'[y] # Absent, session'[x].ceremony # "none",
               session'[x].ceremony = session'[y].ceremony
        PROVE  x = y
    <3>1. \A z \in Sessions \ {s} : session'[z] = session[z]
      BY <1>1
    <3>2. session'[s].ceremony = a.ceremony
      BY <1>1
    <3>3. CASE x = s
      BY <1>14, <2>1, <3>1, <3>2, <3>3
    <3>4. CASE y = s
      BY <1>14, <2>1, <3>1, <3>2, <3>4
    <3>5. CASE x # s /\ y # s
      <4>1. session'[x] = session[x] /\ session'[y] = session[y]
        BY <3>1, <3>5
      <4>2. x \in Rows /\ y \in Rows
        BY <2>1, <4>1 DEF Rows
      <4>3. session[x].ceremony # "none" /\ session[x].ceremony = session[y].ceremony
        BY <2>1, <4>1
      <4> QED
        BY <4>2, <4>3 DEF SelfServiceInv, CeremonyUsedOnce
    <3> QED
      BY <3>3, <3>4, <3>5
  <2>2. ASSUME NEW k \in Passkeys, NEW l \in Passkeys, passkey'[k] # Absent,
               passkey'[l] # Absent, passkey'[k].ceremony # "none",
               passkey'[k].ceremony = passkey'[l].ceremony
        PROVE  k = l
    <3>1. /\ passkey[k] # Absent /\ passkey[l] # Absent
          /\ passkey'[k].ceremony = passkey[k].ceremony
          /\ passkey'[l].ceremony = passkey[l].ceremony
      BY <1>1, <2>2 DEF PasskeyKept
    <3> QED
      BY <2>2, <3>1 DEF SelfServiceInv, CeremonyUsedOnce
  <2> QED
    BY <2>1, <2>2 DEF CeremonyUsedOnce, Rows
<1>17. CounterUsedOnce'
  <2> SUFFICES ASSUME NEW x \in Sessions, NEW y \in Sessions, session'[x] # Absent,
                      session'[y] # Absent, x # y, session'[x].key # "none",
                      session'[x].key = session'[y].key, session'[x].count = session'[y].count
               PROVE  session'[x].count = 0
    BY DEF CounterUsedOnce, Rows
  <2>1. CASE x = s
    <3>1. session'[y] = session[y] /\ y \in Sessions \ {s}
      BY <1>1, <2>1
    <3> QED
      BY <1>1, <1>15, <2>1, <3>1
  <2>2. CASE y = s
    <3>1. session'[x] = session[x] /\ x \in Sessions \ {s}
      BY <1>1, <2>2
    <3> QED
      BY <1>1, <1>15, <2>2, <3>1
  <2>3. CASE x # s /\ y # s
    <3>1. session'[x] = session[x] /\ session'[y] = session[y]
      BY <1>1, <2>3
    <3> QED
      BY <3>1 DEF SelfServiceInv, CounterUsedOnce, Rows
  <2> QED
    BY <2>1, <2>2, <2>3
<1>18. RowsAdvance
  BY <1>6, <1>7 DEF Kept, RowsAdvance
<1> QED
  BY <1>4, <1>5, <1>9, <1>10, <1>11, <1>13, <1>16, <1>17, <1>18 DEF SelfServiceInv, RowsInv

LEMMA CompleteWebAuthnAuthenticationKeeps ==
    ASSUME SelfServiceInv, NEW h \in Handlers, NEW s \in Sessions,
           CompleteWebAuthnAuthentication(h, s)
    PROVE  SelfServiceInv' /\ RowsAdvance
<1>1. handler[h].pc = "assert" /\ Goto(h, Idle) /\ UNCHANGED <<attempts, vouched, now>>
  BY DEF CompleteWebAuthnAuthentication
<1>2. handler[h].by \in Assertion /\ handler[h].at \in 0 .. MaxTime
  <2>1. handler[h] \in Handler \cup {Idle}
    BY DEF SelfServiceInv, TypeOK
  <2> QED
    BY <1>1, <2>1, RequestKinds
<1>3. CASE Usable(handler[h].by, handler[h].at)
  <2>1. session[s] = Absent /\ Open(handler[h].by, s, handler[h].at)
    BY <1>3 DEF CompleteWebAuthnAuthentication
  <2> QED
    BY <1>1, <1>2, <1>3, <2>1, SessionOpens
<1>4. CASE UNCHANGED <<session, passkey, ceremony>>
  <2>1. attempts' \in Nat /\ now' \in 0 .. MaxTime
    BY <1>1 DEF SelfServiceInv, TypeOK
  <2>2. handler[h].pc # "password"
    BY <1>1
  <2> QED
    BY <1>1, <1>4, <2>1, <2>2, RequestEnds, OnlyRequests
<1> QED
  BY <1>3, <1>4 DEF CompleteWebAuthnAuthentication

-----------------------------------------------------------------------------
(* Requests behind a session *)

LEMMA CheckSessionKeeps ==
    ASSUME SelfServiceInv, NEW h \in Handlers, NEW s \in Sessions, NEW r \in Handler,
           r.pc \in OnSession, r.session = s, CheckSession(h, s, r)
    PROVE  SelfServiceInv' /\ RowsAdvance
<1>1. /\ handler[h] = Idle /\ SessionActive(s, now) /\ Goto(h, r)
      /\ UNCHANGED <<attempts, session, ceremony, passkey, vouched, now>>
  BY DEF CheckSession
<1>2. session[s] # Absent
  BY <1>1, RowKinds DEF SessionActive
<1>3. r.pc # "password"
  BY DEF OnSession
<1> QED
  BY <1>1, <1>2, <1>3, RequestStarts

LEMMA RequestKeeps ==
    ASSUME SelfServiceInv, NEW h \in Handlers, NEW s \in Sessions, Request(h, s)
    PROVE  SelfServiceInv' /\ RowsAdvance
<1>1. ASSUME NEW op \in {"others", "logout", "begin"},
             CheckSession(h, s, [pc |-> op, session |-> s])
      PROVE  SelfServiceInv' /\ RowsAdvance
  <2> DEFINE r == [pc |-> op, session |-> s]
  <2>1. r \in Handler /\ r.pc \in OnSession /\ r.session = s
    BY DEF Handler, OnSession
  <2> HIDE DEF r
  <2> QED
    BY <1>1, <2>1, CheckSessionKeeps DEF r
<1>2. ASSUME NEW k \in Passkeys, CheckSession(h, s, [pc |-> "remove", session |-> s, key |-> k])
      PROVE  SelfServiceInv' /\ RowsAdvance
  <2> DEFINE r == [pc |-> "remove", session |-> s, key |-> k]
  <2>1. r \in Handler /\ r.pc \in OnSession /\ r.session = s
    BY DEF Handler, OnSession
  <2> HIDE DEF r
  <2> QED
    BY <1>2, <2>1, CheckSessionKeeps DEF r
<1>3. ASSUME NEW m \in Ceremonies, NEW k \in Passkeys,
             CheckSession(h, s, [pc |-> "register", session |-> s, key |-> k,
                                 ceremony |-> m, at |-> now])
      PROVE  SelfServiceInv' /\ RowsAdvance
  <2> DEFINE r == [pc |-> "register", session |-> s, key |-> k, ceremony |-> m, at |-> now]
  <2>1. now \in 0 .. MaxTime
    BY DEF SelfServiceInv, TypeOK
  <2>2. r \in Handler /\ r.pc \in OnSession /\ r.session = s
    BY <2>1 DEF Handler, OnSession
  <2> HIDE DEF r
  <2> QED
    BY <1>3, <2>2, CheckSessionKeeps DEF r
<1> QED
  BY <1>1, <1>2, <1>3 DEF Request


(* The session behind a request has an owner.                              *)
LEMMA OwnerIsUser ==
    ASSUME SelfServiceInv, NEW h \in Handlers, handler[h].pc \in OnSession
    PROVE  handler[h].session \in Sessions /\ Owner(h) \in Users
<1>1. handler[h] \in Handler \cup {Idle}
  BY DEF SelfServiceInv, TypeOK
<1>2. handler[h].session \in Sessions
  BY <1>1, RequestKinds
<1>3. session[handler[h].session] \in Session
  BY <1>2 DEF SelfServiceInv, TypeOK, RowsInv, RequestOK
<1> QED
  BY <1>2, <1>3 DEF Owner, Session

(* A session is revoked, and keeps all else.                               *)
LEMMA RevokedSession ==
    ASSUME NEW row \in Session
    PROVE  LET r == [row EXCEPT !.state = "revoked"]
           IN  /\ r \in Session /\ r.user = row.user /\ r.ceremony = row.ceremony
               /\ r.key = row.key /\ r.count = row.count
               /\ r.expires = row.expires /\ r.state = "revoked"
  BY DEF Session

(* A request that revokes sessions.                                        *)
LEMMA RevocationKeeps ==
    ASSUME SelfServiceInv, NEW h \in Handlers, handler[h].pc \in OnSession, Goto(h, Idle),
           session' \in [Sessions -> Session \cup {Absent}],
           \A s \in Sessions : \/ session'[s] = session[s]
                               \/ /\ session[s] \in Session
                                  /\ session'[s] = [session[s] EXCEPT !.state = "revoked"],
           UNCHANGED <<attempts, ceremony, passkey, vouched, now>>
    PROVE  SelfServiceInv' /\ RowsAdvance
<1>1. \A s \in Sessions : SessionKept(s)
  <2> SUFFICES ASSUME NEW s \in Sessions PROVE SessionKept(s)
    OBVIOUS
  <2>1. CASE session'[s] = session[s]
    BY <2>1 DEF SessionKept
  <2>2. CASE /\ session[s] \in Session
             /\ session'[s] = [session[s] EXCEPT !.state = "revoked"]
    <3>1. /\ session'[s] \in Session /\ session'[s].user = session[s].user
          /\ session'[s].ceremony = session[s].ceremony
          /\ session'[s].key = session[s].key /\ session'[s].count = session[s].count
          /\ session'[s].expires = session[s].expires /\ session'[s].state = "revoked"
      BY <2>2, RevokedSession
    <3> QED
      BY <2>2, <3>1, RowKinds DEF SessionKept
  <2> QED
    BY <2>1, <2>2
<1>2. handler[h].pc # "password"
  BY DEF OnSession
<1>3. /\ handler' \in [Handlers -> Handler \cup {Idle}] /\ AttemptsInv'
      /\ \A i \in Handlers : handler'[i] = handler[i] \/ RequestOK(i)'
  BY <1>2, RequestEnds
<1>4. TypeOK'
  BY <1>3 DEF SelfServiceInv, TypeOK
<1>5. Kept
  BY CeremoniesUnchanged, PasskeysUnchanged DEF SelfServiceInv, Kept
<1>6. \A m \in Ceremonies : ceremony[m] # Absent \/ CeremonyOK(m)'
  BY DEF CeremonyOK
<1> QED
  BY <1>1, <1>3, <1>4, <1>5, <1>6, StepKeeps

LEMMA RevokeOtherSelfServiceSessionsKeeps ==
    ASSUME SelfServiceInv, NEW h \in Handlers, RevokeOtherSelfServiceSessionsWithAudit(h)
    PROVE  SelfServiceInv' /\ RowsAdvance
<1> DEFINE Ends(s) == /\ SessionActive(s, now) /\ s # handler[h].session
                      /\ session[s].user = Owner(h)
<1>1. /\ handler[h].pc = "others" /\ Goto(h, Idle)
      /\ session' = [s \in Sessions |->
             IF Ends(s) THEN [session[s] EXCEPT !.state = "revoked"] ELSE session[s]]
      /\ UNCHANGED <<attempts, ceremony, passkey, vouched, now>>
  BY DEF RevokeOtherSelfServiceSessionsWithAudit
<1>2. \A s \in Sessions : Ends(s) => session[s] \in Session
  BY RowKinds DEF SelfServiceInv, TypeOK, SessionActive
<1> HIDE DEF Ends
<1>3. \A s \in Sessions : \/ session'[s] = session[s]
                          \/ /\ session[s] \in Session
                             /\ session'[s] = [session[s] EXCEPT !.state = "revoked"]
  BY <1>1, <1>2
<1>4. \A s \in Sessions : session'[s] \in Session \cup {Absent}
  <2> SUFFICES ASSUME NEW s \in Sessions PROVE session'[s] \in Session \cup {Absent}
    OBVIOUS
  <2>1. CASE session'[s] = session[s]
    BY <2>1 DEF SelfServiceInv, TypeOK
  <2>2. CASE /\ session[s] \in Session
             /\ session'[s] = [session[s] EXCEPT !.state = "revoked"]
    BY <2>2, RevokedSession
  <2> QED
    BY <1>3, <2>1, <2>2
<1>5. session' \in [Sessions -> Session \cup {Absent}]
  BY <1>1, <1>4
<1>6. handler[h].pc \in OnSession
  BY <1>1 DEF OnSession
<1> QED
  BY <1>1, <1>3, <1>5, <1>6, RevocationKeeps

LEMMA RevokeSelfServiceSessionKeeps ==
    ASSUME SelfServiceInv, NEW h \in Handlers, RevokeSelfServiceSessionWithAudit(h)
    PROVE  SelfServiceInv' /\ RowsAdvance
<1> DEFINE c == handler[h].session
           out == [session[c] EXCEPT !.state = "revoked"]
<1>1. /\ handler[h].pc = "logout" /\ Goto(h, Idle)
      /\ session' = [session EXCEPT ![c] = out]
      /\ UNCHANGED <<attempts, ceremony, passkey, vouched, now>>
  BY DEF RevokeSelfServiceSessionWithAudit
<1>2. handler[h].pc \in OnSession
  BY <1>1 DEF OnSession
<1>3. c \in Sessions /\ session[c] \in Session
  BY <1>2, OwnerIsUser DEF SelfServiceInv, TypeOK, RowsInv, RequestOK
<1>4. out \in Session
  BY <1>3, RevokedSession
<1>5. /\ session' \in [Sessions -> Session \cup {Absent}] /\ session'[c] = out
      /\ \A s \in Sessions \ {c} : session'[s] = session[s]
  BY <1>1, <1>3, <1>4 DEF SelfServiceInv, TypeOK
<1>6. \A s \in Sessions : \/ session'[s] = session[s]
                          \/ /\ session[s] \in Session
                             /\ session'[s] = [session[s] EXCEPT !.state = "revoked"]
  BY <1>3, <1>5
<1> QED
  BY <1>1, <1>2, <1>5, <1>6, RevocationKeeps

LEMMA passkeyRegistrationBeginKeeps ==
    ASSUME SelfServiceInv, NEW h \in Handlers, NEW m \in Ceremonies,
           passkeyRegistrationBegin(h, m)
    PROVE  SelfServiceInv' /\ RowsAdvance
<1>1. /\ handler[h].pc = "begin" /\ CreateWebAuthnCeremony(m, "registration", Owner(h))
      /\ vouched' = vouched \cup {[ceremony |-> m, user |-> Owner(h)]} /\ Goto(h, Idle)
      /\ UNCHANGED <<attempts, session, passkey, now>>
  BY DEF passkeyRegistrationBegin
<1>2. handler[h].pc \in OnSession /\ handler[h].pc # "password"
  BY <1>1 DEF OnSession
<1>3. PICK u \in Users : u = Owner(h)
  BY <1>2, OwnerIsUser
<1>4. u \in Users \cup {"none"} /\ CreateWebAuthnCeremony(m, "registration", u)
  BY <1>1, <1>3
<1>5. /\ ceremony' \in [Ceremonies -> Ceremony \cup {Absent}]
      /\ \A x \in Ceremonies : CeremonyKept(x)
      /\ ceremony'[m].kind = "registration" /\ ceremony'[m].user = u
      /\ \A x \in Ceremonies \ {m} : ceremony'[x] = ceremony[x]
  BY <1>4, CeremonyCreated DEF SelfServiceInv
<1>6. /\ handler' \in [Handlers -> Handler \cup {Idle}] /\ AttemptsInv'
      /\ \A i \in Handlers : handler'[i] = handler[i] \/ RequestOK(i)'
  BY <1>1, <1>2, RequestEnds
<1>7. [ceremony |-> m, user |-> u] \in [ceremony : Ceremonies, user : Users]
  OBVIOUS
<1>8. TypeOK'
  BY <1>1, <1>3, <1>5, <1>6, <1>7 DEF SelfServiceInv, TypeOK
<1>9. Kept
  BY <1>1, <1>5, PasskeysUnchanged DEF SelfServiceInv, Kept
<1>10. \A x \in Ceremonies : ceremony[x] # Absent \/ CeremonyOK(x)'
  <2>1. CeremonyOK(m)'
    BY <1>1, <1>3, <1>5 DEF CeremonyOK, Begun
  <2> QED
    BY <1>5, <2>1 DEF CeremonyOK
<1> QED
  BY <1>1, <1>6, <1>8, <1>9, <1>10, SessionsUnchanged, StepKeeps


(* The passkey uses up its ceremony, which its owner began.                *)
LEMMA PasskeyRegistered ==
    ASSUME SelfServiceInv, NEW h \in Handlers, NEW n \in 0 .. MaxCount, NEW m \in Ceremonies,
           NEW k \in Passkeys, NEW u \in Users, NEW t, handler[h].pc \in OnSession,
           RegistrationOf(m, u, t), passkey[k] = Absent,
           passkey' = [passkey EXCEPT ![k] =
               [state |-> "valid", user |-> u, count |-> n, ceremony |-> m]],
           ceremony' = [ceremony EXCEPT ![m].state = "used"],
           Goto(h, Idle), UNCHANGED <<attempts, session, vouched, now>>
    PROVE  SelfServiceInv' /\ RowsAdvance
<1> DEFINE key == [state |-> "valid", user |-> u, count |-> n, ceremony |-> m]
           done == [ceremony[m] EXCEPT !.state = "used"]
<1>1. /\ ceremony[m].state = "open" /\ ceremony[m].kind = "registration"
      /\ ceremony[m].user = u
  BY DEF RegistrationOf, CeremonyActive
<1>2. ceremony[m] \in Ceremony /\ ceremony[m] # Absent
  BY <1>1, RowKinds DEF SelfServiceInv, TypeOK
<1>3. /\ done \in Ceremony /\ done.state = "used" /\ done.kind = "registration"
      /\ done.user = ceremony[m].user /\ done.expires = ceremony[m].expires
  BY <1>1, <1>2 DEF Ceremony
<1>4. key \in Passkey /\ key.ceremony = m /\ key.user = u
  <2>1. m \in Ceremonies \cup {"none"}
    OBVIOUS
  <2> QED
    BY <2>1 DEF Passkey
<1>5. passkey' = [passkey EXCEPT ![k] = key] /\ ceremony' = [ceremony EXCEPT ![m] = done]
  OBVIOUS
<1> HIDE DEF key, done
<1>6. /\ passkey' \in [Passkeys -> Passkey \cup {Absent}] /\ passkey'[k] = key
      /\ \A x \in Passkeys \ {k} : passkey'[x] = passkey[x]
  <2>1. passkey \in [Passkeys -> Passkey \cup {Absent}] /\ key \in Passkey \cup {Absent}
    BY <1>4 DEF SelfServiceInv, TypeOK
  <2>2. passkey' = [passkey EXCEPT ![k] = key]
    BY <1>5
  <2> QED
    BY <2>1, <2>2
<1>7. /\ ceremony' \in [Ceremonies -> Ceremony \cup {Absent}] /\ ceremony'[m] = done
      /\ \A x \in Ceremonies \ {m} : ceremony'[x] = ceremony[x]
  BY SMT, Z3, <1>3, <1>5 DEF SelfServiceInv, TypeOK
<1>8. \A x \in Passkeys : PasskeyKept(x)
  <2> SUFFICES ASSUME NEW x \in Passkeys, passkey[x] # Absent PROVE PasskeyKept(x)
    BY DEF PasskeyKept
  <2>1. passkey'[x] = passkey[x] /\ passkey[x].count \in 0 .. MaxCount
    BY <1>6 DEF SelfServiceInv, TypeOK, Passkey
  <2>2. passkey[x].count <= passkey'[x].count
    BY SMT, Z3, <2>1, SelfServiceBounds
  <2> QED
    BY <2>1, <2>2 DEF PasskeyKept
<1>9. \A x \in Ceremonies : CeremonyKept(x)
  <2> SUFFICES ASSUME NEW x \in Ceremonies PROVE CeremonyKept(x)
    OBVIOUS
  <2>1. CASE x = m
    BY <1>1, <1>3, <1>7, <2>1, RowKinds DEF CeremonyKept
  <2>2. CASE x # m
    BY <1>7, <2>2 DEF CeremonyKept
  <2> QED
    BY <2>1, <2>2
<1>10. handler[h].pc # "password"
  BY DEF OnSession
<1>11. /\ handler' \in [Handlers -> Handler \cup {Idle}] /\ AttemptsInv'
       /\ \A i \in Handlers : handler'[i] = handler[i] \/ RequestOK(i)'
  BY <1>10, RequestEnds
<1>12. TypeOK'
  BY <1>6, <1>7, <1>11 DEF SelfServiceInv, TypeOK
<1>13. Kept
  BY <1>8, <1>9 DEF Kept
<1>14. \A s \in Sessions : SessionOK(s)'
  BY <1>12, <1>13, SessionsUnchanged, SessionOKKept DEF SelfServiceInv, RowsInv
<1>15. \A x \in Ceremonies : CeremonyOK(x)'
  <2> SUFFICES ASSUME NEW x \in Ceremonies PROVE CeremonyOK(x)'
    OBVIOUS
  <2>1. CASE ceremony[x] # Absent
    BY <1>13, <2>1, CeremonyOKKept DEF SelfServiceInv, RowsInv
  <2>2. CASE ceremony[x] = Absent
    BY <1>2, <1>7, <2>2 DEF CeremonyOK
  <2> QED
    BY <2>1, <2>2
<1>16. [ceremony |-> m, user |-> u] \in vouched'
  BY <1>1, <1>2 DEF SelfServiceInv, RowsInv, CeremonyOK, Begun
<1>17. PasskeyOK(k)'
  BY <1>3, <1>4, <1>6, <1>7, <1>16 DEF PasskeyOK, Used, Begun
<1>18. \A x \in Passkeys : PasskeyOK(x)'
  <2> SUFFICES ASSUME NEW x \in Passkeys \ {k} PROVE PasskeyOK(x)'
    BY <1>17
  <2>1. CASE passkey[x] # Absent
    BY <1>13, <2>1, PasskeyOKKept DEF SelfServiceInv, RowsInv
  <2>2. CASE passkey[x] = Absent
    BY <1>6, <2>2 DEF PasskeyOK
  <2> QED
    BY <2>1, <2>2
<1>19. \A i \in Handlers : RequestOK(i)'
  BY <1>11, RequestKept DEF SelfServiceInv, RowsInv
<1>20. ASSUME NEW x \in Passkeys \ {k}, passkey[x] # Absent PROVE passkey[x].ceremony # m
  <2>1. m # "none"
    BY SelfServiceNames
  <2> QED
    BY <1>1, <1>20, <2>1 DEF SelfServiceInv, RowsInv, PasskeyOK, Used
<1>21. CeremonyUsedOnce'
  <2>1. ASSUME NEW x \in Passkeys, NEW y \in Passkeys, passkey'[x] # Absent,
               passkey'[y] # Absent, passkey'[x].ceremony # "none",
               passkey'[x].ceremony = passkey'[y].ceremony
        PROVE  x = y
    <3>1. CASE x = k
      BY <1>4, <1>6, <1>20, <2>1, <3>1
    <3>2. CASE y = k
      BY <1>4, <1>6, <1>20, <2>1, <3>2
    <3>3. CASE x # k /\ y # k
      BY <1>6, <2>1, <3>3 DEF SelfServiceInv, CeremonyUsedOnce
    <3> QED
      BY <3>1, <3>2, <3>3
  <2> QED
    BY <2>1 DEF SelfServiceInv, CeremonyUsedOnce, Rows
<1>22. CounterUsedOnce'
  BY DEF SelfServiceInv, CounterUsedOnce, Rows
<1>23. RowsAdvance
  BY <1>13, SessionsUnchanged DEF Kept, RowsAdvance
<1> QED
  BY <1>11, <1>12, <1>14, <1>15, <1>18, <1>19, <1>21, <1>22, <1>23 DEF SelfServiceInv, RowsInv

LEMMA CompleteWebAuthnRegistrationKeeps ==
    ASSUME SelfServiceInv, NEW h \in Handlers, NEW n \in 0 .. MaxCount,
           CompleteWebAuthnRegistration(h, n)
    PROVE  SelfServiceInv' /\ RowsAdvance
<1> DEFINE m == handler[h].ceremony  k == handler[h].key
<1>1. /\ handler[h].pc = "register" /\ Goto(h, Idle)
      /\ UNCHANGED <<attempts, session, vouched, now>>
  BY DEF CompleteWebAuthnRegistration
<1>2. handler[h].pc \in OnSession /\ handler[h].pc # "password"
  BY <1>1 DEF OnSession
<1>3. m \in Ceremonies /\ k \in Passkeys /\ Owner(h) \in Users
  <2>1. handler[h] \in Handler \cup {Idle}
    BY DEF SelfServiceInv, TypeOK
  <2> QED
    BY <1>1, <1>2, <2>1, RequestKinds, OwnerIsUser
<1>4. CASE RegistrationOf(m, Owner(h), handler[h].at) /\ passkey[k] = Absent
  <2>1. /\ passkey' = [passkey EXCEPT ![k] =
               [state |-> "valid", user |-> Owner(h), count |-> n, ceremony |-> m]]
        /\ ceremony' = [ceremony EXCEPT ![m].state = "used"]
    BY <1>4 DEF CompleteWebAuthnRegistration
  <2> QED
    BY <1>1, <1>2, <1>3, <1>4, <2>1, PasskeyRegistered
<1>5. CASE UNCHANGED <<passkey, ceremony>>
  <2>1. attempts' \in Nat /\ now' \in 0 .. MaxTime
    BY <1>1 DEF SelfServiceInv, TypeOK
  <2> QED
    BY <1>1, <1>2, <1>5, <2>1, RequestEnds, OnlyRequests
<1> QED
  BY <1>4, <1>5 DEF CompleteWebAuthnRegistration

LEMMA RevokeWebAuthnCredentialKeeps ==
    ASSUME SelfServiceInv, NEW h \in Handlers, RevokeWebAuthnCredentialWithAudit(h)
    PROVE  SelfServiceInv' /\ RowsAdvance
<1> DEFINE k == handler[h].key
           out == [passkey[k] EXCEPT !.state = "removed"]
<1>1. /\ handler[h].pc = "remove" /\ Goto(h, Idle)
      /\ UNCHANGED <<attempts, session, ceremony, vouched, now>>
      /\ \/ passkey' = passkey
         \/ passkey[k].state = "valid" /\ passkey' = [passkey EXCEPT ![k] = out]
  BY DEF RevokeWebAuthnCredentialWithAudit
<1>2. handler[h].pc # "password"
  BY <1>1
<1>3. /\ handler' \in [Handlers -> Handler \cup {Idle}] /\ AttemptsInv'
      /\ \A i \in Handlers : handler'[i] = handler[i] \/ RequestOK(i)'
  BY <1>1, <1>2, RequestEnds
<1>4. CASE passkey' = passkey
  <2>1. attempts' \in Nat /\ now' \in 0 .. MaxTime
    BY <1>1 DEF SelfServiceInv, TypeOK
  <2> QED
    BY <1>1, <1>3, <1>4, <2>1, OnlyRequests
<1>5. CASE passkey[k].state = "valid" /\ passkey' = [passkey EXCEPT ![k] = out]
  <2>1. k \in Passkeys
    <3>1. handler[h] \in Handler \cup {Idle}
      BY DEF SelfServiceInv, TypeOK
    <3> QED
      BY <1>1, <3>1, RequestKinds
  <2>2. passkey[k] \in Passkey
    BY <1>5, <2>1, RowKinds DEF SelfServiceInv, TypeOK
  <2>3. /\ out \in Passkey /\ out.user = passkey[k].user /\ out.count = passkey[k].count
        /\ out.ceremony = passkey[k].ceremony /\ out.state = "removed"
    BY <2>2 DEF Passkey
  <2> HIDE DEF out
  <2>4. /\ passkey' \in [Passkeys -> Passkey \cup {Absent}] /\ passkey'[k] = out
        /\ \A x \in Passkeys \ {k} : passkey'[x] = passkey[x]
    BY <1>5, <2>1, <2>3 DEF SelfServiceInv, TypeOK
  <2>5. ASSUME NEW x \in Passkeys, passkey[x] # Absent
        PROVE  /\ passkey'[x] # Absent /\ passkey'[x].user = passkey[x].user
               /\ passkey'[x].count = passkey[x].count
               /\ passkey'[x].ceremony = passkey[x].ceremony
               /\ passkey[x].state = "removed" => passkey'[x].state = "removed"
    BY <2>3, <2>4, <2>5, RowKinds
  <2>6. \A x \in Passkeys : PasskeyKept(x)
    <3> SUFFICES ASSUME NEW x \in Passkeys, passkey[x] # Absent PROVE PasskeyKept(x)
      BY DEF PasskeyKept
    <3>1. passkey[x].count \in 0 .. MaxCount
      BY DEF SelfServiceInv, TypeOK, Passkey
    <3>2. passkey[x].count <= passkey'[x].count
      BY SMT, Z3, <2>5, <3>1, SelfServiceBounds
    <3> QED
      BY <2>5, <3>2 DEF PasskeyKept
  <2>7. TypeOK'
    BY <1>1, <1>3, <2>4 DEF SelfServiceInv, TypeOK
  <2>8. Kept
    BY <1>1, <2>6, CeremoniesUnchanged DEF Kept
  <2>9. \A m \in Ceremonies : ceremony[m] # Absent \/ CeremonyOK(m)'
    BY <1>1 DEF CeremonyOK
  <2>10. \A x \in Passkeys : passkey[x] = Absent => passkey'[x] = Absent
    BY <2>2, <2>4, RowKinds
  <2> QED
    BY <1>1, <1>3, <2>7, <2>8, <2>9, <2>10, SessionsUnchanged, StepKeeps
<1> QED
  BY <1>1, <1>4, <1>5

-----------------------------------------------------------------------------
(* The invariant and what follows from it *)

LEMMA NextKeeps ==
    ASSUME SelfServiceInv, [Next]_vars PROVE SelfServiceInv' /\ RowsAdvance
<1>1. CASE UNCHANGED vars
  <2>1. UNCHANGED <<attempts, session, ceremony, passkey, vouched, handler, now>>
    BY <1>1 DEF vars
  <2>2. /\ attempts' \in Nat /\ now' \in 0 .. MaxTime
        /\ handler' \in [Handlers -> Handler \cup {Idle}]
    BY <2>1 DEF SelfServiceInv, TypeOK
  <2>3. AttemptsInv'
    BY <2>1, AttemptsKept DEF SelfServiceInv
  <2> QED
    BY <2>1, <2>2, <2>3, OnlyRequests
<1>2. ASSUME NEW h \in Handlers, PasswordLogin(h) \/ PasskeyLogin(h) PROVE SelfServiceInv' /\ RowsAdvance
  BY <1>2, loginAllowedKeeps, AuthenticateUserKeeps, ProvisioningFailsKeeps,
     CreateSelfServiceSessionWithAuditKeeps, passkeyLoginCompleteKeeps,
     CompleteWebAuthnAuthenticationKeeps DEF PasswordLogin, PasskeyLogin
<1>3. ASSUME NEW h \in Handlers, Act(h) PROVE SelfServiceInv' /\ RowsAdvance
  BY <1>3, RevokeOtherSelfServiceSessionsKeeps, RevokeSelfServiceSessionKeeps,
     passkeyRegistrationBeginKeeps, CompleteWebAuthnRegistrationKeeps,
     RevokeWebAuthnCredentialKeeps DEF Act
<1> QED
  BY <1>1, <1>2, <1>3, RequestKeeps, passkeyLoginBeginKeeps, SurroundingsKeep DEF Next

LEMMA InitHolds ==
    ASSUME Init PROVE SelfServiceInv
<1>1. 0 \in 0 .. MaxTime /\ 0 \in 0 .. MaxCount /\ 0 \in Nat
  BY SMT, Z3, SelfServiceBounds
<1>2. [state : {"valid"}, user : Users, count : {0}, ceremony : {"none"}] \subseteq Passkey
  BY <1>1 DEF Passkey
<1>3. TypeOK
  BY <1>1, <1>2 DEF Init, TypeOK
<1>4. \A h \in Handlers : handler[h].pc = "idle"
  BY RowKinds DEF Init
<1>5. \A k \in Passkeys : passkey[k] = Absent \/ passkey[k].ceremony = "none"
  BY DEF Init
<1>6. RowsInv
  BY <1>4, <1>5
     DEF Init, RowsInv, RequestOK, OnSession, CeremonyOK, PasskeyOK, SessionOK
<1>7. CeremonyUsedOnce /\ CounterUsedOnce
  BY <1>5 DEF Init, CeremonyUsedOnce, CounterUsedOnce, Rows
<1>8. Trying = {}
  BY <1>4 DEF Trying
<1>9. Cardinality(Trying) = 0
  BY <1>8, FS_EmptySet
<1>10. AttemptsInv
  BY SMT, Z3, <1>9, Counting, SelfServiceBounds DEF Init, AttemptsInv
<1> QED
  BY <1>3, <1>6, <1>7, <1>10 DEF SelfServiceInv

(* The invariant of sessions, ceremonies, passkeys and requests.           *)
THEOREM SelfServiceInvariant == Spec => []SelfServiceInv
<1>1. SelfServiceInv /\ [Next]_vars => SelfServiceInv'
  BY NextKeeps
<1> QED
  BY <1>1, InitHolds, PTL DEF Spec

(* Completions that race for a ceremony yield one session or one passkey.  *)
THEOREM CeremoniesUsedOnce == Spec => []CeremonyUsedOnce
<1>1. SelfServiceInv => CeremonyUsedOnce
  BY DEF SelfServiceInv
<1> QED
  BY <1>1, SelfServiceInvariant, PTL

(* A value of a signature counter opens one session, also when a copy of   *)
(* the authenticator answers at the same time.                             *)
THEOREM CountersUsedOnce == Spec => []CounterUsedOnce
<1>1. SelfServiceInv => CounterUsedOnce
  BY DEF SelfServiceInv
<1> QED
  BY <1>1, SelfServiceInvariant, PTL

(* A passkey is that of the user whose password began its registration,    *)
(* and so are the sessions it opens.                                       *)
THEOREM PasskeysVouched == Spec => []PasskeyVouched
<1>1. SelfServiceInv => PasskeyVouched
  BY DEF SelfServiceInv, RowsInv, PasskeyOK, SessionOK, PasskeyVouched, Begun, Rows
<1> QED
  BY <1>1, SelfServiceInvariant, PTL

(* The limit on failed logins is passed by less than the number of         *)
(* requests handled at a time, however these interleave.                   *)
THEOREM FailuresBounded == Spec => []AttemptsBounded
<1>1. SelfServiceInv => AttemptsBounded
  BY SMT, Z3, Counting, SelfServiceBounds DEF SelfServiceInv, TypeOK, AttemptsInv, AttemptsBounded
<1> QED
  BY <1>1, SelfServiceInvariant, PTL

(* Only a password login and an accepted assertion open a session.         *)
LEMMA Opening ==
    ASSUME SelfServiceInv, Next, NEW s \in Sessions, session[s] = Absent, session'[s] # Absent
    PROVE  \E h \in Handlers, t \in Sessions :
               \/ CreateSelfServiceSessionWithAudit(h, t)
               \/ CompleteWebAuthnAuthentication(h, t) /\ Usable(handler[h].by, handler[h].at)
<1>1. session' # session
  OBVIOUS
<1>2. \A h \in Handlers : ~ RevokeOtherSelfServiceSessionsWithAudit(h)
  BY RowKinds DEF RevokeOtherSelfServiceSessionsWithAudit, SessionActive
<1>3. ASSUME NEW h \in Handlers, RevokeSelfServiceSessionWithAudit(h) PROVE FALSE
  <2>1. handler[h].pc \in OnSession
    BY <1>3 DEF RevokeSelfServiceSessionWithAudit, OnSession
  <2>2. session[handler[h].session] # Absent
    BY <2>1 DEF SelfServiceInv, RowsInv, RequestOK
  <2>3. session'[s] = session[s]
    <3>1. session \in [Sessions -> Session \cup {Absent}]
      BY DEF SelfServiceInv, TypeOK
    <3> QED
      BY <1>3, <2>2, <3>1 DEF RevokeSelfServiceSessionWithAudit
  <2> QED
    BY <2>3
<1>4. \A h \in Handlers : ~ Act(h)
  BY <1>1, <1>2, <1>3 DEF Act, passkeyRegistrationBegin, CompleteWebAuthnRegistration,
     RevokeWebAuthnCredentialWithAudit
<1>5. \A h \in Handlers, t \in Sessions : ~ Request(h, t)
  BY <1>1 DEF Request, CheckSession
<1>6. ASSUME NEW h \in Handlers, PasswordLogin(h)
      PROVE  \E t \in Sessions : CreateSelfServiceSessionWithAudit(h, t)
  BY <1>1, <1>6 DEF PasswordLogin, loginAllowed, AuthenticateUser, ProvisioningFails
<1>7. ASSUME NEW h \in Handlers, PasskeyLogin(h)
      PROVE  \E t \in Sessions : /\ CompleteWebAuthnAuthentication(h, t)
                                 /\ Usable(handler[h].by, handler[h].at)
  <2>1. \A a \in Assertion : ~ passkeyLoginComplete(h, a)
    BY <1>1 DEF passkeyLoginComplete
  <2>2. \A t \in Sessions : CompleteWebAuthnAuthentication(h, t) =>
            Usable(handler[h].by, handler[h].at)
    BY <1>1 DEF CompleteWebAuthnAuthentication
  <2> QED
    BY <1>7, <2>1, <2>2 DEF PasskeyLogin
<1>8. \A m \in Ceremonies : ~ passkeyLoginBegin(m)
  BY <1>1 DEF passkeyLoginBegin
<1>9. ~ WindowPasses /\ ~ Tick
  BY <1>1 DEF WindowPasses, Tick
<1> QED
  BY <1>4, <1>5, <1>6, <1>7, <1>8, <1>9 DEF Next

LEMMA OpenedByValid ==
    ASSUME SelfServiceInv, Next, NEW s \in Sessions, session[s] = Absent,
           session'[s] # Absent, session'[s].key # "none"
    PROVE  passkey[session'[s].key].state = "valid"
<1>1. PICK h \in Handlers, t \in Sessions :
          \/ CreateSelfServiceSessionWithAudit(h, t)
          \/ CompleteWebAuthnAuthentication(h, t) /\ Usable(handler[h].by, handler[h].at)
  BY Opening
<1>2. session \in [Sessions -> Session \cup {Absent}]
  BY DEF SelfServiceInv, TypeOK
<1>3. CASE CreateSelfServiceSessionWithAudit(h, t)
  <2>1. session' = [session EXCEPT ![t] = NewSession(handler[h].user, now, "none", "none", 0)]
    BY <1>3 DEF CreateSelfServiceSessionWithAudit
  <2>2. session'[s] = NewSession(handler[h].user, now, "none", "none", 0)
    BY <1>2, <2>1
  <2>3. session'[s].key = "none"
    BY SMT, Z3, <2>2 DEF NewSession
  <2> QED
    BY <2>3
<1>4. CASE CompleteWebAuthnAuthentication(h, t) /\ Usable(handler[h].by, handler[h].at)
  <2> DEFINE a == handler[h].by
             row == NewSession(passkey[a.key].user, handler[h].at, a.ceremony, a.key, a.count)
  <2>1. session' = [session EXCEPT ![t] = row]
    BY <1>4 DEF CompleteWebAuthnAuthentication, Open
  <2>2. row.key = a.key
    BY DEF NewSession
  <2>3. passkey[a.key].state = "valid"
    BY <1>4 DEF Usable
  <2> HIDE DEF row
  <2>4. session'[s] = row
    BY <1>2, <2>1
  <2> QED
    BY <2>2, <2>3, <2>4
<1> QED
  BY <1>1, <1>3, <1>4

(* A login that was verified before its passkey was removed opens no       *)
(* session afterwards.                                                     *)
THEOREM RemovalHolds == Spec => RemovalIsFinal
<1>1. SelfServiceInv /\ [Next]_vars =>
          [\A s \in Sessions :
               /\ session[s] = Absent /\ session'[s] # Absent
               /\ session'[s].key # "none"
               => passkey[session'[s].key].state = "valid"]_vars
  BY OpenedByValid
<1> QED
  BY <1>1, SelfServiceInvariant, PTL DEF Spec, RemovalIsFinal

(* The rows of ceremonies, passkeys and sessions only advance, however     *)
(* logins, registrations, removals and sign-outs meet between a handler's  *)
(* query and its transaction; in particular no login that was verified     *)
(* earlier moves the counter of a passkey back.                            *)
THEOREM RowsOnlyAdvance == Spec => [][RowsAdvance]_vars
<1>1. SelfServiceInv /\ [Next]_vars => [RowsAdvance]_vars
  BY NextKeeps
<1> QED
  BY <1>1, SelfServiceInvariant, PTL DEF Spec
=============================================================================
