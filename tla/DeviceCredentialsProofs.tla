---------------------- MODULE DeviceCredentialsProofs -----------------------
(***************************************************************************)
(* The properties of DeviceCredentials for any number of key pairs, tokens *)
(* and faults, and any clock.                                              *)
(*                                                                         *)
(* They are not inductive.  DeviceInv adds that a request for a            *)
(* certificate is the only one for its key (RequestInv), that the device   *)
(* hears only the answer to its last request (LiveInv), where its command  *)
(* is (CommandInv), what the tables tell about tokens and activations      *)
(* (LedgerInv), and, unless the answer to an activation never reached the  *)
(* device, that at each step of its command the bundle or its predecessor  *)
(* is the certificate that the server accepts (KeptInv).                   *)
(***************************************************************************)
EXTENDS DeviceCredentials, TLAPS

(* Leaves are proved by Zenon, unless they name their provers: SMT, and    *)
(* then Z3, where arithmetic or sequences matter; PTL for temporal steps.  *)
USE ZenonT(100)

Asking == {"enroll", "renew"}

(* A certificate is asked for once; until then there is no row for it.     *)
RequestInv ==
    /\ \A k \in Keys \ keys : status[k] = "absent"
    /\ \A m \in msgs : m.op \in Asking => m.key \in keys /\ status[m.key] = "absent"
    /\ \A m, n \in msgs : m.op \in Asking /\ n.op \in Asking /\ m.key = n.key => m = n

LiveInv ==
    /\ \A m, n \in msgs : m.live /\ n.live => m = n
    /\ reply # "none" => \A m \in msgs : ~m.live
    /\ dev.step \notin {"wait", "activateWait"} => reply = "none" /\ \A m \in msgs : ~m.live
    /\ \A m \in msgs : m.live =>
           /\ m.op \in Asking => dev.step = "wait" /\ m.key = dev.key /\ m.op = dev.action
           /\ m.op = "renew" => m.cert = bundle
           /\ m.op = "activate" => dev.step = "activateWait" /\ m.cert = dev.key

Activating == {"activate", "activateWait"}

CommandInv ==
    /\ dev.step # "off" => dev.key \in keys /\ dev.action \in Asking /\ dev.outcome = "none"
    /\ dev.step \in {"removeBundle", "removeCA"} => dev.action = "enroll"
    /\ dev.step \in {"keep", "restore"} => dev.action = "renew"
    /\ dev.step \in Activating => bundle = dev.key

LedgerInv ==
    /\ \A k \in Keys : status[k] = "active" => k \in activated
    /\ \A k \in activated : status[k] \in {"active", "superseded", "revoked"}
    /\ \A k \in Keys : info[k].token # "none" => token[info[k].token].state = "consumed"

Accepted == {"active", "revoked"}

Issued == {"pending", "superseded"}

(* No other certificate than k is active.                                  *)
OnlyActive(k) == \A l \in Keys : status[l] = "active" => l = k

(* Certificate k is the one the server last accepted.                      *)
Current(k) == status[k] \in Accepted /\ OnlyActive(k)

(* What the device may fall back to while dev.key is not activated.        *)
Fallback ==
    /\ status[dev.key] \in Issued
    /\ IF dev.action = "enroll"
         THEN previous = "none" /\ OnlyActive("none")
         ELSE previous # "none" /\ Current(previous)

NotRequested == \A m \in msgs : m.op = "activate" => m.cert # dev.key

KeptInv ==
    /\ OnlyActive(bundle) \/ OnlyActive(previous)
    /\ bundle = "none" => previous = "none"
    /\ \A m \in msgs : m.op = "activate" =>
           status[m.cert] # "absent" /\ (status[m.cert] = "pending" => m.cert = bundle)
    /\ dev.step = "wait" /\ reply = "ok" =>
           IF dev.action = "renew"
             THEN status[dev.key] \in Issued /\ bundle # "none" /\ Current(bundle)
             ELSE bundle = "none" => status[dev.key] \in Issued
    /\ dev.step = "keep" => status[dev.key] \in Issued /\ bundle # "none" /\ Current(bundle)
    /\ dev.step \in {"ca", "bundle"} => Fallback /\ bundle = previous
    /\ dev.step \notin {"off", "activateWait"} => NotRequested
    /\ dev.step = "activate" => Fallback
    /\ dev.step = "activateWait" /\ reply # "ok" =>
           Fallback /\ \A m \in msgs : m.op = "activate" /\ m.cert = dev.key => m.live
    /\ dev.step \in {"removeBundle", "restore"} => Fallback /\ bundle = dev.key
    /\ dev.step = "removeCA" => bundle = "none" /\ OnlyActive("none")
    /\ dev.outcome = "rolledBack" /\ bundle # "none" => Current(bundle)

DeviceInv ==
    /\ TypeOK /\ RequestInv /\ LiveInv /\ CommandInv /\ LedgerInv
    /\ OneCredential /\ TokenOnce /\ LinearHistory
    /\ ~unheard => KeptInv

-----------------------------------------------------------------------------
(* Messages *)

EnrollMessage == [op : {"enroll"}, key : Keys, token : Tokens, stage : {"new", "checked"},
                  at : Nat, live : BOOLEAN]

RenewMessage == [op : {"renew"}, key : Keys, cert : Keys, stage : {"new", "checked"},
                 live : BOOLEAN]

ActivateMessage == [op : {"activate"}, cert : Keys, stage : {"new", "found", "checked"},
                    at : Nat, live : BOOLEAN]

(* The operation of a message says what it carries.                        *)
LEMMA MessageKinds ==
    /\ \A m \in Message :
           /\ m.op \in {"enroll", "renew", "activate"} /\ m.live \in BOOLEAN
           /\ m.op = "enroll" => m \in EnrollMessage
           /\ m.op = "renew" => m \in RenewMessage
           /\ m.op = "activate" => m \in ActivateMessage
    /\ EnrollMessage \subseteq Message /\ RenewMessage \subseteq Message
    /\ ActivateMessage \subseteq Message
  BY DEF Message, EnrollMessage, RenewMessage, ActivateMessage

LEMMA MessageFields ==
    ASSUME NEW m \in Message
    PROVE  /\ m.op \in Asking => m.key \in Keys
           /\ m.op \in {"renew", "activate"} => m.cert \in Keys
           /\ m.op = "enroll" => m.token \in Tokens
           /\ m.op \in {"enroll", "activate"} => m.at \in Nat
<1>1. m.op = "enroll" => m.key \in Keys /\ m.token \in Tokens /\ m.at \in Nat
  BY MessageKinds DEF EnrollMessage
<1>2. m.op = "renew" => m.key \in Keys /\ m.cert \in Keys
  BY MessageKinds DEF RenewMessage
<1>3. m.op = "activate" => m.cert \in Keys /\ m.at \in Nat
  BY MessageKinds DEF ActivateMessage
<1> QED BY <1>1, <1>2, <1>3 DEF Asking

(* Message n is message m at a later stage, or abandoned.                  *)
Same(n, m) ==
    /\ n \in Message /\ n.op = m.op
    /\ m.op \in Asking => n.key = m.key
    /\ m.op \in {"renew", "activate"} => n.cert = m.cert

LEMMA LaterEnroll ==
    ASSUME NEW m \in EnrollMessage, NEW t \in Nat
    PROVE  LET n == [m EXCEPT !.stage = "checked", !.at = t]
           IN  Same(n, m) /\ n.live = m.live
<1> DEFINE n == [m EXCEPT !.stage = "checked", !.at = t]
<1>1. n \in EnrollMessage /\ n.op = "enroll" /\ m.op = "enroll" /\ n.key = m.key
      /\ n.live = m.live
  BY DEF EnrollMessage
<1> QED BY <1>1, MessageKinds DEF Same

LEMMA LaterRenew ==
    ASSUME NEW m \in RenewMessage
    PROVE  LET n == [m EXCEPT !.stage = "checked"]
           IN  Same(n, m) /\ n.live = m.live
<1> DEFINE n == [m EXCEPT !.stage = "checked"]
<1>1. n \in RenewMessage /\ n.op = "renew" /\ m.op = "renew" /\ n.key = m.key
      /\ n.cert = m.cert /\ n.live = m.live
  BY DEF RenewMessage
<1> QED BY <1>1, MessageKinds DEF Same

LEMMA LaterActivate ==
    ASSUME NEW m \in ActivateMessage, NEW t \in Nat
    PROVE  LET n == [m EXCEPT !.stage = "found", !.at = t]
               o == [m EXCEPT !.stage = "checked"]
           IN  /\ Same(n, m) /\ n.live = m.live
               /\ Same(o, m) /\ o.live = m.live
<1> DEFINE n == [m EXCEPT !.stage = "found", !.at = t]
           o == [m EXCEPT !.stage = "checked"]
<1>1. n \in ActivateMessage /\ n.op = "activate" /\ m.op = "activate" /\ n.cert = m.cert
      /\ n.live = m.live
  BY DEF ActivateMessage
<1>2. o \in ActivateMessage /\ o.op = "activate" /\ o.cert = m.cert /\ o.live = m.live
  BY DEF ActivateMessage
<1> QED BY <1>1, <1>2, MessageKinds DEF Same, Asking

LEMMA AbandonedMessage ==
    ASSUME NEW m \in Message
    PROVE  LET n == [m EXCEPT !.live = FALSE]
           IN  Same(n, m) /\ n.live = FALSE
<1> DEFINE n == [m EXCEPT !.live = FALSE]
<1>1. CASE m.op = "enroll"
  <2>1. m \in EnrollMessage
    BY <1>1, MessageKinds
  <2>2. n \in EnrollMessage /\ n.op = "enroll" /\ n.key = m.key /\ n.live = FALSE
    BY <2>1 DEF EnrollMessage
  <2> QED BY <1>1, <2>2, MessageKinds DEF Same
<1>2. CASE m.op = "renew"
  <2>1. m \in RenewMessage
    BY <1>2, MessageKinds
  <2>2. n \in RenewMessage /\ n.op = "renew" /\ n.key = m.key /\ n.cert = m.cert
        /\ n.live = FALSE
    BY <2>1 DEF RenewMessage
  <2> QED BY <1>2, <2>2, MessageKinds DEF Same
<1>3. CASE m.op = "activate"
  <2>1. m \in ActivateMessage
    BY <1>3, MessageKinds
  <2>2. n \in ActivateMessage /\ n.op = "activate" /\ n.cert = m.cert /\ n.live = FALSE
    BY <2>1 DEF ActivateMessage
  <2> QED BY <1>3, <2>2, MessageKinds DEF Same, Asking
<1> QED BY <1>1, <1>2, <1>3, MessageKinds

-----------------------------------------------------------------------------
(* What a handler does with a message *)

HandlerAdvances(m, n) ==
    /\ Same(n, m) /\ n.live = m.live
    /\ Advance(m, n) /\ UNCHANGED tableVars

HandlerRefuses(m) == Answer(m, "error") /\ UNCHANGED tableVars

HandlerStages(m, pred, t, at) ==
    /\ m.op \in Asking /\ (m.op = "renew" => status[m.cert] = "active")
    /\ pred \in Keys \cup {"none"} /\ t \in Tokens \cup {"none"} /\ at \in Nat
    /\ Stage(m.key, pred, t, at)
    /\ t = "none" => UNCHANGED token
    /\ t # "none" => /\ token[t].state = "open"
                     /\ token' = [token EXCEPT ![t].state = "consumed"]
    /\ UNCHANGED <<mode, enabled, activated>>
    /\ Answer(m, "ok")

HandlerActivates(m, at) ==
    /\ m.op = "activate" /\ at \in Nat
    /\ ActivateCredential(m.cert, at)
    /\ Answer(m, "ok")

LEMMA HandlerCases ==
    ASSUME TypeOK, NEW m \in msgs, Handle(m)
    PROVE  \/ \E n \in Message : HandlerAdvances(m, n)
           \/ HandlerRefuses(m)
           \/ \E pred \in Keys \cup {"none"}, t \in Tokens \cup {"none"}, at \in Nat :
                  HandlerStages(m, pred, t, at)
           \/ \E at \in Nat : HandlerActivates(m, at)
<1>1. m \in Message /\ now \in Nat
  BY SMT, Z3, BoundsAssumption DEF TypeOK
<1>2. CASE EnrollClientDeviceCertificate(m)
  <2>0. m.op = "enroll" /\ m \in EnrollMessage /\ m.at \in Nat /\ m.token \in Tokens
    BY <1>1, <1>2, MessageKinds, MessageFields DEF EnrollClientDeviceCertificate
  <2>1. CASE Advance(m, [m EXCEPT !.stage = "checked", !.at = now]) /\ UNCHANGED tableVars
    BY <1>1, <2>0, <2>1, LaterEnroll DEF HandlerAdvances, Same
  <2>2. CASE Answer(m, "error") /\ UNCHANGED tableVars
    BY <2>2 DEF HandlerRefuses
  <2>3. CASE EnrollCredential(m.key, m.token, m.at) /\ Answer(m, "ok")
    <3>1. m.token # "none" /\ m.op # "renew"
      BY <2>0, NamesAssumption
    <3> HIDE <2>0
    <3>2. HandlerStages(m, "none", m.token, m.at)
      BY <2>0, <2>3, <3>1
         DEF HandlerStages, EnrollCredential, TokenValid, Asking
    <3> QED BY <2>0, <3>2
  <2> QED BY <1>2, <2>1, <2>2, <2>3 DEF EnrollClientDeviceCertificate
<1>3. CASE RenewClientDeviceCertificate(m)
  <2>0. m.op = "renew" /\ m \in RenewMessage /\ m.cert \in Keys
    BY <1>1, <1>3, MessageKinds, MessageFields DEF RenewClientDeviceCertificate
  <2>1. CASE Advance(m, [m EXCEPT !.stage = "checked"]) /\ UNCHANGED tableVars
    BY <1>1, <2>0, <2>1, LaterRenew DEF HandlerAdvances, Same
  <2>2. CASE Answer(m, "error") /\ UNCHANGED tableVars
    BY <2>2 DEF HandlerRefuses
  <2>3. CASE StageRenewal(m.key, m.cert, now) /\ Answer(m, "ok")
    <3>1. HandlerStages(m, m.cert, "none", now)
      BY <1>1, <2>0, <2>3 DEF HandlerStages, StageRenewal, Active, Asking
    <3> QED BY <1>1, <2>0, <3>1
  <2> QED BY <1>3, <2>1, <2>2, <2>3 DEF RenewClientDeviceCertificate
<1>4. CASE ActivateClientDeviceCertificate(m)
  <2>0. m.op = "activate" /\ m \in ActivateMessage /\ m.cert \in Keys /\ m.at \in Nat
    BY <1>1, <1>4, MessageKinds, MessageFields DEF ActivateClientDeviceCertificate
  <2>1. CASE Advance(m, [m EXCEPT !.stage = "found", !.at = now]) /\ UNCHANGED tableVars
    BY <1>1, <2>0, <2>1, LaterActivate DEF HandlerAdvances, Same
  <2>2. CASE Advance(m, [m EXCEPT !.stage = "checked"]) /\ UNCHANGED tableVars
    BY <1>1, <2>0, <2>2, LaterActivate DEF HandlerAdvances, Same
  <2>3. CASE Answer(m, "error") /\ UNCHANGED tableVars
    BY <2>3 DEF HandlerRefuses
  <2>4. CASE ActivateCredential(m.cert, m.at) /\ Answer(m, "ok")
    BY <2>0, <2>4 DEF HandlerActivates
  <2> QED BY <1>4, <2>1, <2>2, <2>3, <2>4 DEF ActivateClientDeviceCertificate
<1> QED BY <1>2, <1>3, <1>4 DEF Handle

(* A staged certificate is new; others may be given up.                    *)
LEMMA StageEffect ==
    ASSUME TypeOK, NEW k \in Keys, NEW pred, NEW t, NEW at \in Nat, Stage(k, pred, t, at)
    PROVE  /\ status' \in [Keys -> Status] /\ status'[k] = "pending"
           /\ \A p \in Keys : p # k =>
                  /\ status'[p] = status[p] \/ (status[p] = "pending" /\ status'[p] = "superseded")
                  /\ status'[p] # "pending"
<1>1. \A p \in Keys : status[p] \in Status
  BY DEF TypeOK
<1>2. \A p \in Keys : status'[p] = IF p = k THEN "pending"
                                   ELSE IF p \in Stale(at) THEN "superseded"
                                   ELSE status[p]
  BY DEF Stage
<1>3. DOMAIN status' = Keys /\ status' = [p \in Keys |-> status'[p]]
  BY DEF Stage
<1>4. \A p \in Stale(at) : status[p] = "pending"
  BY DEF Stale
<1>5. \A p \in Keys : status[p] = "pending" => p \in Stale(at)
  BY DEF Stage, CanStage
<1>6. \A p \in Keys : status'[p] \in Status
  BY <1>1, <1>2 DEF Status
<1>7. status' \in [Keys -> Status]
  BY <1>3, <1>6
<1> QED BY <1>2, <1>4, <1>5, <1>7

(* An activated certificate was staged and replaces the only active one.   *)
LEMMA ActivateEffect ==
    ASSUME TypeOK, OneCredential, NEW k \in Keys, NEW at \in Nat, ActivateCredential(k, at)
    PROVE  /\ status' \in [Keys -> Status]
           /\ status[k] = "pending" /\ status'[k] = "active"
           /\ \A p \in Keys : p # k =>
                  /\ p # info[k].pred => status'[p] = status[p]
                  /\ p = info[k].pred => status[p] = "active" /\ status'[p] = "superseded"
                  /\ status'[p] # "active"
           /\ info[k].pred # k
<1>0. info[k].pred \in Keys \cup {"none"} /\ status[k] = "pending"
  BY DEF TypeOK, Info, ActivateCredential, CanActivate, Fresh
<1>1. \A p \in Keys : status[p] \in Status
  BY DEF TypeOK
<1>2. \A p \in Keys : status'[p] = IF p = k THEN "active"
                                   ELSE IF p = info[k].pred THEN "superseded"
                                   ELSE status[p]
  BY DEF ActivateCredential
<1>3. status' = [p \in Keys |-> status'[p]]
  BY DEF ActivateCredential
<1>4. \A p \in Keys : status'[p] \in Status
  BY <1>1, <1>2 DEF Status
<1>5. status' \in [Keys -> Status]
  BY <1>3, <1>4
<1>6. \A p \in Keys : p = info[k].pred => status[p] = "active"
  BY NamesAssumption DEF ActivateCredential, CanActivate
<1>7. \A p \in Keys : status[p] = "active" => p = info[k].pred
  <2> SUFFICES ASSUME NEW p \in Keys, status[p] = "active" PROVE p = info[k].pred
    OBVIOUS
  <2>1. info[k].pred # "none" /\ status[info[k].pred] = "active"
    BY DEF ActivateCredential, CanActivate
  <2>2. info[k].pred \in Keys
    BY <1>0, <2>1
  <2> QED BY <2>1, <2>2 DEF OneCredential
<1>8. info[k].pred # k
  BY <1>0, <1>6
<1> QED BY <1>0, <1>2, <1>5, <1>6, <1>7, <1>8

-----------------------------------------------------------------------------
(* Steps of the server *)

(* A message that is answered is gone, and its sender is told if it still  *)
(* listens.                                                                *)
LEMMA AnswerStep ==
    ASSUME DeviceInv, NEW m \in msgs, NEW r \in {"ok", "error"}, Answer(m, r),
           UNCHANGED deviceVars
    PROVE  /\ msgs' \in SUBSET Message /\ reply' \in {"none", "ok", "error"}
           /\ msgs' \subseteq msgs /\ m \notin msgs'
           /\ reply' = IF m.live THEN r ELSE reply
           /\ LiveInv' /\ CommandInv'
<1>1. /\ msgs' \subseteq msgs /\ m \notin msgs'
      /\ reply' = IF m.live THEN r ELSE reply
  BY DEF Answer
<1>2. msgs' \in SUBSET Message /\ reply' \in {"none", "ok", "error"}
  BY <1>1 DEF DeviceInv, TypeOK
<1>3. dev' = dev /\ bundle' = bundle /\ keys' = keys
  BY DEF deviceVars
<1>4. CommandInv'
  BY <1>3 DEF DeviceInv, CommandInv
<1>5. LiveInv'
  <2>1. m.live => \A n \in msgs' : ~n.live
    BY <1>1 DEF DeviceInv, LiveInv
  <2>2. ~m.live => reply' = reply
    BY <1>1
  <2>3. \A n, o \in msgs' : n.live /\ o.live => n = o
    BY <1>1 DEF DeviceInv, LiveInv
  <2>4. reply' # "none" => \A n \in msgs' : ~n.live
    BY <1>1, <2>1, <2>2 DEF DeviceInv, LiveInv
  <2>5. dev.step \notin {"wait", "activateWait"} => reply' = "none" /\ \A n \in msgs' : ~n.live
    BY <1>1, <2>2 DEF DeviceInv, LiveInv
  <2>6. \A n \in msgs' : n.live =>
           /\ n.op \in Asking => dev.step = "wait" /\ n.key = dev.key /\ n.op = dev.action
           /\ n.op = "renew" => n.cert = bundle
           /\ n.op = "activate" => dev.step = "activateWait" /\ n.cert = dev.key
    BY <1>1 DEF DeviceInv, LiveInv
  <2> QED BY <1>3, <2>3, <2>4, <2>5, <2>6 DEF LiveInv
<1> QED BY <1>1, <1>2, <1>4, <1>5

(* The rows of the tables that an unanswered request speaks of are kept    *)
(* when msgs only loses messages and none of them is staged.               *)
LEMMA RequestsKept ==
    ASSUME DeviceInv, msgs' \subseteq msgs, UNCHANGED <<status, keys>>
    PROVE  RequestInv'
  BY DEF DeviceInv, RequestInv

(* The tables are as before.                                               *)
LEMMA TablesKept ==
    ASSUME DeviceInv, UNCHANGED tableVars
    PROVE  /\ UNCHANGED <<status, info, token, mode, enabled, activated>>
           /\ LedgerInv' /\ OneCredential' /\ TokenOnce' /\ LinearHistory'
<1>1. UNCHANGED <<status, info, token, mode, enabled, activated>>
  BY DEF tableVars
<1>2. LedgerInv'
  BY <1>1 DEF DeviceInv, LedgerInv
<1>3. OneCredential' /\ TokenOnce' /\ LinearHistory'
  BY SMT, Z3, <1>1 DEF DeviceInv, OneCredential, TokenOnce, LinearHistory
<1> QED BY <1>1, <1>2, <1>3

(* Certificates are staged, given up or revoked, but not activated.        *)
Quiet ==
    \A k \in Keys :
        \/ status'[k] = status[k]
        \/ status[k] = "absent" /\ status'[k] = "pending"
        \/ status[k] = "pending" /\ status'[k] = "superseded"
        \/ status[k] = "active" /\ status'[k] = "revoked"

LEMMA QuietKeeps ==
    ASSUME Quiet
    PROVE  /\ \A k \in Keys : OnlyActive(k) => OnlyActive(k)'
           /\ OnlyActive("none") => OnlyActive("none")'
           /\ \A k \in Keys : Current(k) => Current(k)'
           /\ \A k \in Keys : status[k] \in Issued => status'[k] \in Issued
           /\ \A k \in Keys : status[k] # "absent" =>
                  status'[k] # "absent" /\ (status'[k] = "pending" => status[k] = "pending")
<1>1. \A k \in Keys : status'[k] = "active" => status[k] = "active"
  BY DEF Quiet
<1>2. \A k \in Keys : status[k] \in Accepted => status'[k] \in Accepted
  BY DEF Quiet, Accepted
<1>3. \A k \in Keys : status[k] \in Issued => status'[k] \in Issued
  BY DEF Quiet, Issued
<1>4. \A k \in Keys : status[k] # "absent" =>
          status'[k] # "absent" /\ (status'[k] = "pending" => status[k] = "pending")
  BY DEF Quiet
<1>5. OnlyActive("none") => OnlyActive("none")'
  BY <1>1 DEF OnlyActive
<1>6. \A k \in Keys : OnlyActive(k) => (\A l \in Keys : status'[l] = "active" => l = k)
  BY <1>1 DEF OnlyActive
<1> QED BY <1>2, <1>3, <1>4, <1>5, <1>6 DEF Current, OnlyActive

AtWait(r) ==
    dev.step = "wait" /\ r = "ok" =>
        IF dev.action = "renew"
          THEN status[dev.key] \in Issued /\ bundle # "none" /\ Current(bundle)
          ELSE bundle = "none" => status[dev.key] \in Issued

(* KeptInv outlives any step of the tables that activates nothing.         *)
LEMMA KeptQuiet ==
    ASSUME TypeOK, CommandInv, KeptInv, Quiet, UNCHANGED <<dev, bundle, previous>>,
           \A n \in msgs' : n.op = "activate" =>
               \E m \in msgs : m.op = "activate" /\ n.cert = m.cert /\ n.live = m.live,
           reply # "ok" => AtWait(reply)',
           dev.step = "activateWait" /\ reply' # "ok" => reply # "ok",
           reply = "ok" => reply' \in {"ok", "none"}
    PROVE  KeptInv'
<1>1. dev' = dev /\ bundle' = bundle /\ previous' = previous
  OBVIOUS
<1>2. bundle \in Keys \cup {"none"} /\ previous \in Keys \cup {"none"}
      /\ (dev.step # "off" => dev.key \in Keys)
  BY DEF TypeOK, CommandInv
<1>3. /\ OnlyActive(bundle) => OnlyActive(bundle)'
      /\ OnlyActive(previous) => OnlyActive(previous)'
      /\ OnlyActive("none") => OnlyActive("none")'
  BY <1>1, <1>2, QuietKeeps DEF OnlyActive
<1>4. /\ bundle # "none" /\ Current(bundle) => Current(bundle)'
      /\ previous # "none" /\ Current(previous) => Current(previous)'
  <2>1. \A k \in Keys : status[k] \in Accepted => status'[k] \in Accepted
    BY DEF Quiet, Accepted
  <2> QED BY <1>1, <1>2, <1>3, <2>1 DEF Current
<1>5. dev.step # "off" /\ status[dev.key] \in Issued => status'[dev'.key] \in Issued
  BY <1>1, <1>2, QuietKeeps
<1>6. dev.step # "off" /\ Fallback => Fallback'
  BY <1>1, <1>3, <1>4, <1>5 DEF Fallback
<1>7. NotRequested => NotRequested'
  BY <1>1 DEF NotRequested
<1>8. \A n \in msgs' : n.op = "activate" =>
          status'[n.cert] # "absent" /\ (status'[n.cert] = "pending" => n.cert = bundle')
  <2> SUFFICES ASSUME NEW n \in msgs', n.op = "activate"
               PROVE  status'[n.cert] # "absent" /\ (status'[n.cert] = "pending" => n.cert = bundle')
    OBVIOUS
  <2>1. PICK m \in msgs : m.op = "activate" /\ n.cert = m.cert
    OBVIOUS
  <2>2. m.cert \in Keys
    BY <2>1, MessageFields DEF TypeOK
  <2>3. status[m.cert] # "absent" /\ (status[m.cert] = "pending" => m.cert = bundle)
    BY <2>1 DEF KeptInv
  <2> QED BY <1>1, <2>1, <2>2, <2>3, QuietKeeps
<1>9. AtWait(reply)'
  <2>1. CASE reply = "ok"
    <3>1. AtWait(reply)
      BY DEF KeptInv, AtWait
    <3> QED BY <1>1, <1>4, <1>5, <2>1, <3>1 DEF AtWait
  <2> QED BY <2>1
<1>10. dev.step = "activateWait" /\ reply' # "ok" =>
           Fallback' /\ \A n \in msgs' : n.op = "activate" /\ n.cert = dev.key => n.live
  <2>1. dev.step = "activateWait" /\ reply' # "ok" =>
            Fallback /\ \A m \in msgs : m.op = "activate" /\ m.cert = dev.key => m.live
    BY DEF KeptInv
  <2> QED BY <1>6, <2>1
<1>11. /\ OnlyActive(bundle)' \/ OnlyActive(previous)'
       /\ bundle' = "none" => previous' = "none"
  BY <1>1, <1>3 DEF KeptInv
<1>12. /\ dev.step = "keep" => status'[dev'.key] \in Issued /\ bundle' # "none" /\ Current(bundle)'
       /\ dev.step \in {"ca", "bundle"} => Fallback' /\ bundle' = previous'
       /\ dev.step \notin {"off", "activateWait"} => NotRequested'
       /\ dev.step = "activate" => Fallback'
       /\ dev.step \in {"removeBundle", "restore"} => Fallback' /\ bundle' = dev'.key
       /\ dev.step = "removeCA" => bundle' = "none" /\ OnlyActive("none")'
       /\ dev.outcome = "rolledBack" /\ bundle' # "none" => Current(bundle)'
  <2>1. dev.step = "keep" => status'[dev'.key] \in Issued /\ bundle' # "none" /\ Current(bundle)'
    BY <1>1, <1>4, <1>5 DEF KeptInv
  <2>2. /\ dev.step \in {"ca", "bundle"} => Fallback' /\ bundle' = previous'
        /\ dev.step \notin {"off", "activateWait"} => NotRequested'
        /\ dev.step = "activate" => Fallback'
    BY <1>1, <1>6, <1>7 DEF KeptInv
  <2>3. dev.step \in {"removeBundle", "restore"} => Fallback' /\ bundle' = dev'.key
    BY <1>1, <1>6 DEF KeptInv
  <2>4. /\ dev.step = "removeCA" => bundle' = "none" /\ OnlyActive("none")'
        /\ dev.outcome = "rolledBack" /\ bundle' # "none" => Current(bundle)'
    BY <1>1, <1>3, <1>4 DEF KeptInv
  <2> QED BY <2>1, <2>2, <2>3, <2>4
<1> QED BY <1>1, <1>8, <1>9, <1>10, <1>11, <1>12 DEF KeptInv, AtWait

Elsewhere == UNCHANGED <<deviceVars, now, unheard, faults>>

LEMMA ElsewhereKept ==
    ASSUME DeviceInv, Elsewhere
    PROVE  /\ UNCHANGED <<dev, bundle, previous, ca, keys, now, unheard, faults>>
           /\ UNCHANGED deviceVars
           /\ now' \in 0..MaxTime
           /\ dev' \in [step : Steps, action : {"none", "enroll", "renew"},
                        key : Keys \cup {"none"},
                        outcome : {"none", "refused", "activated", "rolledBack", "crashed"}]
           /\ bundle' \in Keys \cup {"none"} /\ previous' \in Keys \cup {"none"}
           /\ ca' \in BOOLEAN /\ keys' \in SUBSET Keys
           /\ unheard' \in BOOLEAN /\ faults' \in 0..MaxFaults
<1>1. UNCHANGED <<dev, bundle, previous, ca, keys, now, unheard, faults>> /\ UNCHANGED deviceVars
  BY DEF Elsewhere, deviceVars
<1> QED BY <1>1 DEF DeviceInv, TypeOK

LEMMA RefuseStep ==
    ASSUME DeviceInv, NEW m \in msgs, HandlerRefuses(m), Elsewhere
    PROVE  DeviceInv'
<1>1. Answer(m, "error") /\ UNCHANGED tableVars
  BY DEF HandlerRefuses
<1>2. /\ UNCHANGED <<status, info, token, mode, enabled, activated>>
      /\ LedgerInv' /\ OneCredential' /\ TokenOnce' /\ LinearHistory'
  BY <1>1, TablesKept
<1>3. /\ msgs' \in SUBSET Message /\ reply' \in {"none", "ok", "error"}
      /\ msgs' \subseteq msgs
      /\ reply' = IF m.live THEN "error" ELSE reply
      /\ LiveInv' /\ CommandInv'
  BY <1>1, AnswerStep, ElsewhereKept
<1>4. TypeOK'
  BY <1>2, <1>3, ElsewhereKept DEF DeviceInv, TypeOK
<1>5. RequestInv'
  BY <1>2, <1>3, RequestsKept, ElsewhereKept
<1>6. ~unheard' => KeptInv'
  <2> SUFFICES ASSUME ~unheard PROVE KeptInv'
    BY ElsewhereKept
  <2>1. Quiet
    BY <1>2 DEF Quiet
  <2>2. UNCHANGED <<dev, bundle, previous>>
    BY ElsewhereKept
  <2>3. reply # "ok" => reply' # "ok"
    BY <1>3
  <2>4. reply = "ok" => reply' = "ok"
    BY <1>3 DEF DeviceInv, LiveInv
  <2>5. reply # "ok" => AtWait(reply)'
    BY <2>3 DEF AtWait
  <2> QED BY <1>3, <2>1, <2>2, <2>3, <2>4, <2>5, KeptQuiet DEF DeviceInv
<1> QED BY <1>2, <1>3, <1>4, <1>5, <1>6 DEF DeviceInv

LEMMA AdvanceStep ==
    ASSUME DeviceInv, NEW m \in msgs, NEW n \in Message, HandlerAdvances(m, n), Elsewhere
    PROVE  DeviceInv'
<1>1. msgs' = (msgs \ {m}) \cup {n} /\ reply' = reply /\ n.live = m.live /\ Same(n, m)
      /\ UNCHANGED tableVars
  BY DEF HandlerAdvances, Advance
<1>2. /\ UNCHANGED <<status, info, token, mode, enabled, activated>>
      /\ LedgerInv' /\ OneCredential' /\ TokenOnce' /\ LinearHistory'
  BY <1>1, TablesKept
<1>3. UNCHANGED <<dev, bundle, previous, keys>>
  BY ElsewhereKept
<1>4. /\ n.op = m.op /\ (n.op \in Asking => n.key = m.key)
      /\ (n.op \in {"renew", "activate"} => n.cert = m.cert)
  BY <1>1 DEF Same
<1>5. TypeOK'
  <2>1. msgs' \in SUBSET Message /\ reply' \in {"none", "ok", "error"}
    BY <1>1 DEF DeviceInv, TypeOK
  <2> QED BY <1>2, <2>1, ElsewhereKept DEF DeviceInv, TypeOK
<1>6. RequestInv'
  <2>1. \A k \in Keys \ keys' : status'[k] = "absent"
    BY <1>2, <1>3 DEF DeviceInv, RequestInv
  <2>2. \A o \in msgs' : o.op \in Asking => o.key \in keys' /\ status'[o.key] = "absent"
    BY <1>1, <1>2, <1>3, <1>4 DEF DeviceInv, RequestInv
  <2>3. \A o, p \in msgs' : o.op \in Asking /\ p.op \in Asking /\ o.key = p.key => o = p
    <3>1. \A o \in msgs \ {m} : ~(o.op \in Asking /\ n.op \in Asking /\ o.key = n.key)
      BY <1>4 DEF DeviceInv, RequestInv
    <3> QED BY <1>1, <3>1 DEF DeviceInv, RequestInv
  <2> QED BY <2>1, <2>2, <2>3 DEF RequestInv
<1>7. LiveInv'
  <2>1. \A o, p \in msgs' : o.live /\ p.live => o = p
    <3>1. \A o \in msgs \ {m} : ~(o.live /\ n.live)
      BY <1>1 DEF DeviceInv, LiveInv
    <3> QED BY <1>1, <3>1 DEF DeviceInv, LiveInv
  <2>2. /\ reply' # "none" => \A o \in msgs' : ~o.live
        /\ dev.step \notin {"wait", "activateWait"} => reply' = "none" /\ \A o \in msgs' : ~o.live
    BY <1>1 DEF DeviceInv, LiveInv
  <2>3. \A o \in msgs' : o.live =>
           /\ o.op \in Asking => dev.step = "wait" /\ o.key = dev.key /\ o.op = dev.action
           /\ o.op = "renew" => o.cert = bundle
           /\ o.op = "activate" => dev.step = "activateWait" /\ o.cert = dev.key
    BY <1>1, <1>4 DEF DeviceInv, LiveInv
  <2> QED BY <1>3, <2>1, <2>2, <2>3 DEF LiveInv
<1>8. CommandInv'
  BY <1>3 DEF DeviceInv, CommandInv
<1>9. ~unheard' => KeptInv'
  <2> SUFFICES ASSUME ~unheard PROVE KeptInv'
    BY ElsewhereKept
  <2>1. Quiet
    BY <1>2 DEF Quiet
  <2>2. reply # "ok" => AtWait(reply)'
    BY <1>1 DEF AtWait
  <2>3. \A o \in msgs' : o.op = "activate" =>
            \E p \in msgs : p.op = "activate" /\ o.cert = p.cert /\ o.live = p.live
    BY <1>1, <1>4
  <2> QED BY <1>1, <1>3, <2>1, <2>2, <2>3, KeptQuiet DEF DeviceInv
<1> QED BY <1>2, <1>5, <1>6, <1>7, <1>8, <1>9 DEF DeviceInv

(* A staging transaction: an enrollment spends its token, a renewal has    *)
(* found its certificate active.                                           *)
LEMMA StageStep ==
    ASSUME DeviceInv, NEW m \in msgs, NEW pred \in Keys \cup {"none"},
           NEW t \in Tokens \cup {"none"}, NEW at \in Nat,
           HandlerStages(m, pred, t, at), Elsewhere
    PROVE  DeviceInv'
<1> DEFINE k == m.key
           row == [pred |-> pred, token |-> t, created |-> at, expires |-> at + Lifetime]
<1>0. m \in Message /\ k \in Keys /\ m.op \in Asking /\ status[k] = "absent" /\ k \in keys
  BY MessageFields DEF DeviceInv, TypeOK, RequestInv, HandlerStages
<1>1. /\ Stage(k, pred, t, at) /\ Answer(m, "ok") /\ activated' = activated
      /\ mode' = mode /\ enabled' = enabled
      /\ m.op = "renew" => status[m.cert] = "active"
  BY DEF HandlerStages
<1>2. /\ status' \in [Keys -> Status] /\ status'[k] = "pending"
      /\ \A p \in Keys : p # k =>
             /\ status'[p] = status[p] \/ (status[p] = "pending" /\ status'[p] = "superseded")
             /\ status'[p] # "pending"
  BY <1>0, <1>1, StageEffect DEF DeviceInv
<1>3. /\ msgs' \in SUBSET Message /\ reply' \in {"none", "ok", "error"}
      /\ msgs' \subseteq msgs /\ m \notin msgs'
      /\ reply' = IF m.live THEN "ok" ELSE reply
      /\ LiveInv' /\ CommandInv'
  BY <1>1, AnswerStep, ElsewhereKept
<1>4. UNCHANGED <<dev, bundle, previous, keys>>
  BY ElsewhereKept
<1>5. row \in Info /\ row.pred = pred /\ row.token = t
  BY SMT, Z3, LifetimeAssumption DEF Info
<1>6. info \in [Keys -> Info] /\ info' = [info EXCEPT ![k] = row]
  BY <1>1 DEF Stage, DeviceInv, TypeOK
<1> HIDE DEF row
<1>7. /\ info' \in [Keys -> Info] /\ info'[k] = row
      /\ \A p \in Keys : p # k => info'[p] = info[p]
  BY <1>0, <1>5, <1>6
<1>8. /\ token' \in [Tokens -> [state : {"absent", "open", "consumed"}, expires : Nat]]
      /\ \A u \in Tokens : token[u].state = "consumed" => token'[u].state = "consumed"
      /\ t # "none" => token[t].state = "open" /\ token'[t].state = "consumed"
  <2>1. token \in [Tokens -> [state : {"absent", "open", "consumed"}, expires : Nat]]
    BY DEF DeviceInv, TypeOK
  <2>2. CASE t = "none"
    BY <2>1, <2>2 DEF HandlerStages
  <2>3. CASE t # "none"
    <3>1. /\ t \in Tokens /\ token[t].state = "open"
          /\ token' = [token EXCEPT ![t].state = "consumed"]
      BY <2>3 DEF HandlerStages
    <3> QED BY <2>1, <3>1
  <2> QED BY <2>2, <2>3
<1>9. TypeOK'
  BY <1>1, <1>2, <1>3, <1>7, <1>8, ElsewhereKept DEF DeviceInv, TypeOK
<1>10. RequestInv'
  <2>1. \A l \in Keys \ keys' : status'[l] = "absent"
    BY <1>0, <1>2, <1>4 DEF DeviceInv, RequestInv
  <2>2. \A n \in msgs' : n.op \in Asking => n.key # k
    BY <1>0, <1>3 DEF DeviceInv, RequestInv
  <2>3. \A n \in msgs' : n.op \in Asking => n.key \in Keys /\ n.key \in keys /\ status[n.key] = "absent"
    BY <1>3, MessageFields DEF DeviceInv, RequestInv
  <2>4. \A n \in msgs' : n.op \in Asking => n.key \in keys' /\ status'[n.key] = "absent"
    BY <1>2, <1>4, <2>2, <2>3
  <2>5. \A n, o \in msgs' : n.op \in Asking /\ o.op \in Asking /\ n.key = o.key => n = o
    BY <1>3 DEF DeviceInv, RequestInv
  <2> QED BY <2>1, <2>4, <2>5 DEF RequestInv
<1>11. k \notin activated
  BY <1>0 DEF DeviceInv, LedgerInv
<1>12. LedgerInv'
  <2>1. \A l \in Keys : status'[l] = "active" => l \in activated'
    BY <1>1, <1>2 DEF DeviceInv, LedgerInv
  <2>2. \A l \in activated' : status'[l] \in {"active", "superseded", "revoked"}
    <3>1. \A l \in activated : l \in Keys /\ l # k /\ status[l] \in {"active", "superseded", "revoked"}
      BY <1>11 DEF DeviceInv, LedgerInv, TypeOK
    <3> QED BY <1>1, <1>2, <3>1
  <2>3. \A l \in Keys : info'[l].token # "none" => token'[info'[l].token].state = "consumed"
    <3> SUFFICES ASSUME NEW l \in Keys, info'[l].token # "none"
                 PROVE  token'[info'[l].token].state = "consumed"
      OBVIOUS
    <3>1. CASE l = k
      BY <1>5, <1>7, <1>8, <3>1
    <3>2. CASE l # k
      <4>1. info'[l] = info[l] /\ info[l].token \in Tokens \cup {"none"}
        BY <1>6, <1>7, <3>2 DEF Info
      <4>2. info[l].token \in Tokens /\ token[info[l].token].state = "consumed"
        BY <4>1 DEF DeviceInv, LedgerInv
      <4> QED BY <1>8, <4>1, <4>2
    <3> QED BY <3>1, <3>2
  <2> QED BY <2>1, <2>2, <2>3 DEF LedgerInv
<1>13. OneCredential'
  <2> SUFFICES ASSUME NEW p \in Keys, NEW l \in Keys, p # l, status'[p] \in {"active", "pending"}
               PROVE  status'[l] # status'[p]
    BY DEF OneCredential
  <2>1. CASE status'[p] = "pending"
    BY <1>2, <2>1
  <2>2. CASE status'[p] = "active"
    BY <1>2, <2>2 DEF DeviceInv, OneCredential
  <2> QED BY <2>1, <2>2
<1>14. TokenOnce'
  <2>1. \A l \in Keys : l # k /\ info'[l].token # "none" => info'[l].token # t
    <3> SUFFICES ASSUME NEW l \in Keys, l # k, info'[l].token # "none", info'[l].token = t
                 PROVE  FALSE
      OBVIOUS
    <3>1. token[t].state = "consumed"
      BY <1>7 DEF DeviceInv, LedgerInv
    <3> QED BY <1>8, <3>1
  <2>2. info'[k].token = t
    BY <1>5, <1>7
  <2> QED BY SMT, Z3, <1>7, <2>1, <2>2 DEF DeviceInv, TokenOnce
<1>15. LinearHistory'
  <2> SUFFICES ASSUME NEW l \in activated, info'[l].pred # "none"
               PROVE  /\ info'[l].pred \in activated /\ status'[info'[l].pred] = "superseded"
                      /\ \A o \in activated : info'[o].pred = info'[l].pred => o = l
    BY <1>1 DEF LinearHistory
  <2>1. \A o \in activated : o \in Keys /\ info'[o] = info[o]
    BY <1>7, <1>11 DEF DeviceInv, TypeOK
  <2>2. /\ info[l].pred \in activated /\ status[info[l].pred] = "superseded"
        /\ \A o \in activated : info[o].pred = info[l].pred => o = l
    BY <2>1 DEF DeviceInv, LinearHistory
  <2>3. info[l].pred \in Keys /\ info[l].pred # k
    BY <1>11, <2>1, <2>2
  <2> QED BY <1>2, <2>1, <2>2, <2>3
<1>16. ~unheard' => KeptInv'
  <2> SUFFICES ASSUME ~unheard PROVE KeptInv'
    BY ElsewhereKept
  <2>1. Quiet
    BY <1>0, <1>2 DEF Quiet
  <2>2. reply # "ok" => AtWait(reply)'
    <3> SUFFICES ASSUME reply # "ok", dev.step = "wait", reply' = "ok"
                 PROVE  AtWait(reply)'
      BY <1>4 DEF AtWait
    <3>1. m.live /\ k = dev.key /\ m.op = dev.action /\ (m.op = "renew" => m.cert = bundle)
      BY <1>0, <1>3 DEF DeviceInv, LiveInv
    <3>2. status'[dev'.key] \in Issued
      BY <1>2, <1>4, <3>1 DEF Issued
    <3>3. dev.action = "renew" => bundle \in Keys /\ bundle # "none" /\ status[bundle] = "active"
      <4>1. m.op = "renew" => m.cert \in Keys
        BY <1>0, MessageFields
      <4> QED BY <1>1, <3>1, <4>1, NamesAssumption
    <3>4. dev.action = "renew" => Current(bundle)
      BY <3>3 DEF Current, OnlyActive, Accepted, DeviceInv, OneCredential
    <3>5. dev.action = "renew" => bundle' # "none" /\ Current(bundle)'
      <4>1. \A l \in Keys : status[l] \in Accepted => status'[l] \in Accepted
        BY <2>1 DEF Quiet, Accepted
      <4>2. \A l \in Keys : status'[l] = "active" => status[l] = "active"
        BY <2>1 DEF Quiet
      <4> QED BY <1>4, <3>3, <3>4, <4>1, <4>2 DEF Current, OnlyActive
    <3> QED BY <1>4, <3>2, <3>5 DEF AtWait
  <2>3. dev.step = "activateWait" /\ reply' # "ok" => reply # "ok"
    BY <1>3
  <2>4. reply = "ok" => reply' = "ok"
    BY <1>3
  <2> QED BY <1>3, <1>4, <2>1, <2>2, <2>3, <2>4, KeptQuiet DEF DeviceInv
<1> QED BY <1>3, <1>9, <1>10, <1>12, <1>13, <1>14, <1>15, <1>16 DEF DeviceInv

(* An activation: the certificate is the device's bundle, which the device *)
(* cannot give up before it hears the answer.                              *)
LEMMA ActivateKeeps ==
    ASSUME DeviceInv, ~unheard, NEW m \in msgs, NEW at \in Nat,
           HandlerActivates(m, at), Elsewhere
    PROVE  KeptInv'
<1> DEFINE k == m.cert
<1>0. m \in Message /\ k \in Keys /\ m.op = "activate" /\ k # "none"
  BY MessageFields, NamesAssumption DEF DeviceInv, TypeOK, HandlerActivates
<1>1. ActivateCredential(k, at) /\ Answer(m, "ok")
  BY DEF HandlerActivates
<1>2. /\ status[k] = "pending" /\ status'[k] = "active"
      /\ \A p \in Keys : p # k =>
             /\ p # info[k].pred => status'[p] = status[p]
             /\ p = info[k].pred => status[p] = "active" /\ status'[p] = "superseded"
             /\ status'[p] # "active"
  BY <1>0, <1>1, ActivateEffect DEF DeviceInv
<1>3. /\ msgs' \subseteq msgs /\ m \notin msgs'
      /\ reply' = IF m.live THEN "ok" ELSE reply
  BY <1>1, AnswerStep, ElsewhereKept
<1>4. UNCHANGED <<dev, bundle, previous, keys>>
  BY ElsewhereKept
<1>5. k = bundle /\ bundle # "none"
  BY <1>0, <1>2 DEF DeviceInv, KeptInv
<1>6. ~Current(bundle)
  BY <1>2, <1>5 DEF Current, Accepted
<1>7. OnlyActive(bundle)'
  BY <1>2, <1>4, <1>5 DEF OnlyActive
<1>8. \A n \in msgs' : n.op = "activate" =>
          status'[n.cert] # "absent" /\ (status'[n.cert] = "pending" => n.cert = bundle)
  <2> SUFFICES ASSUME NEW n \in msgs', n.op = "activate"
               PROVE  status'[n.cert] # "absent" /\ (status'[n.cert] = "pending" => n.cert = bundle)
    OBVIOUS
  <2>1. n.cert \in Keys
    BY <1>3, MessageFields DEF DeviceInv, TypeOK
  <2>2. status[n.cert] # "absent" /\ (status[n.cert] = "pending" => n.cert = bundle)
    BY <1>3 DEF DeviceInv, KeptInv
  <2> QED BY <1>2, <2>1, <2>2
<1>9. dev.step = "wait" /\ reply = "ok" => dev.action # "renew"
  BY <1>6 DEF DeviceInv, KeptInv
<1>10. dev.step \notin {"keep", "ca", "bundle", "removeCA"}
  <2>1. dev.step \notin {"keep", "removeCA"}
    BY <1>5, <1>6 DEF DeviceInv, KeptInv
  <2>2. dev.step \notin {"ca", "bundle"}
    BY <1>5, <1>6 DEF DeviceInv, KeptInv, Fallback
  <2> QED BY <2>1, <2>2
<1>11. dev.step \notin {"activate", "removeBundle", "restore"}
  BY <1>0, <1>5 DEF DeviceInv, KeptInv, NotRequested, CommandInv, Activating
<1>12. dev.step = "activateWait" => reply' = "ok"
  <2> SUFFICES ASSUME dev.step = "activateWait", reply # "ok" PROVE m.live
    BY <1>3
  <2>1. bundle = dev.key
    BY DEF DeviceInv, CommandInv, Activating
  <2> QED BY <1>0, <1>5, <2>1 DEF DeviceInv, KeptInv
<1>13. dev.outcome # "rolledBack"
  BY <1>5, <1>6 DEF DeviceInv, KeptInv
<1>14. dev.step = "wait" /\ reply' = "ok" => reply = "ok"
  BY <1>0, <1>3 DEF DeviceInv, LiveInv
<1>15. dev.step \notin {"off", "activateWait"} => NotRequested'
  BY <1>3, <1>4 DEF DeviceInv, KeptInv, NotRequested
<1> QED BY <1>4, <1>5, <1>7, <1>8, <1>9, <1>10, <1>11, <1>12, <1>13, <1>14, <1>15
        DEF KeptInv

LEMMA ActivateStep ==
    ASSUME DeviceInv, NEW m \in msgs, NEW at \in Nat, HandlerActivates(m, at), Elsewhere
    PROVE  DeviceInv'
<1> DEFINE k == m.cert
<1>0. m \in Message /\ k \in Keys /\ m.op = "activate"
  BY MessageFields DEF DeviceInv, TypeOK, HandlerActivates
<1>1. /\ ActivateCredential(k, at) /\ Answer(m, "ok")
      /\ activated' = activated \cup {k} /\ UNCHANGED <<info, token, mode, enabled>>
  BY DEF HandlerActivates, ActivateCredential
<1>2. /\ status' \in [Keys -> Status]
      /\ status[k] = "pending" /\ status'[k] = "active"
      /\ \A p \in Keys : p # k =>
             /\ p # info[k].pred => status'[p] = status[p]
             /\ p = info[k].pred => status[p] = "active" /\ status'[p] = "superseded"
             /\ status'[p] # "active"
      /\ info[k].pred # k
  BY <1>0, <1>1, ActivateEffect DEF DeviceInv
<1>3. /\ msgs' \in SUBSET Message /\ reply' \in {"none", "ok", "error"}
      /\ msgs' \subseteq msgs /\ LiveInv' /\ CommandInv'
  BY <1>1, AnswerStep, ElsewhereKept
<1>4. UNCHANGED <<dev, bundle, previous, keys>>
  BY ElsewhereKept
<1>5. TypeOK'
  <2>1. activated' \in SUBSET Keys
    BY <1>0, <1>1 DEF DeviceInv, TypeOK
  <2> QED BY <1>1, <1>2, <1>3, <2>1, ElsewhereKept DEF DeviceInv, TypeOK
<1>6. \A l \in Keys : status[l] = "absent" => status'[l] = "absent"
  BY <1>2
<1>7. RequestInv'
  <2>1. \A l \in Keys \ keys' : status'[l] = "absent"
    BY <1>4, <1>6 DEF DeviceInv, RequestInv
  <2>2. \A n \in msgs' : n.op \in Asking => n.key \in Keys /\ n.key \in keys /\ status[n.key] = "absent"
    BY <1>3, MessageFields DEF DeviceInv, RequestInv
  <2>3. \A n \in msgs' : n.op \in Asking => n.key \in keys' /\ status'[n.key] = "absent"
    BY <1>4, <1>6, <2>2
  <2>4. \A n, o \in msgs' : n.op \in Asking /\ o.op \in Asking /\ n.key = o.key => n = o
    BY <1>3 DEF DeviceInv, RequestInv
  <2> QED BY <2>1, <2>3, <2>4 DEF RequestInv
<1>8. \A l \in activated : l \in Keys /\ l # k /\ status[l] \in {"active", "superseded", "revoked"}
  BY <1>2 DEF DeviceInv, LedgerInv, TypeOK
<1>9. LedgerInv'
  <2>1. \A l \in Keys : status'[l] = "active" => l \in activated'
    BY <1>1, <1>2
  <2>2. \A l \in activated' : status'[l] \in {"active", "superseded", "revoked"}
    BY <1>1, <1>2, <1>8
  <2>3. \A l \in Keys : info'[l].token # "none" => token'[info'[l].token].state = "consumed"
    BY <1>1 DEF DeviceInv, LedgerInv
  <2> QED BY <2>1, <2>2, <2>3 DEF LedgerInv
<1>10. OneCredential'
  <2> SUFFICES ASSUME NEW p \in Keys, NEW l \in Keys, p # l, status'[p] \in {"active", "pending"}
               PROVE  status'[l] # status'[p]
    BY DEF OneCredential
  <2>1. CASE status'[p] = "active"
    BY <1>2, <2>1
  <2>2. CASE status'[p] = "pending"
    <3>1. \A q \in Keys : status'[q] = "pending" => status[q] = "pending"
      BY <1>2
    <3> QED BY <2>2, <3>1 DEF DeviceInv, OneCredential
  <2> QED BY <2>1, <2>2
<1>11. TokenOnce'
  BY <1>1 DEF DeviceInv, TokenOnce
<1>12. LinearHistory'
  <2>0. \A l \in Keys : status[l] = "superseded" => status'[l] = "superseded"
    BY <1>2
  <2>1. \A l \in activated : info[l].pred # "none" =>
            /\ info[l].pred \in activated /\ status[info[l].pred] = "superseded"
            /\ \A o \in activated : info[o].pred = info[l].pred => o = l
    BY DEF DeviceInv, LinearHistory
  <2>2. info[k].pred # "none" =>
            /\ info[k].pred \in activated /\ status[info[k].pred] = "active"
            /\ status'[info[k].pred] = "superseded"
    <3>1. info[k].pred # "none" => info[k].pred \in Keys
      BY <1>0 DEF DeviceInv, TypeOK, Info
    <3> QED BY <1>2, <3>1 DEF DeviceInv, LedgerInv
  <2>3. \A l \in activated : info[k].pred # "none" => info[l].pred # info[k].pred
    BY <2>1, <2>2
  <2>4. \A l \in activated' : l \in activated \/ l = k
    BY <1>1
  <2> SUFFICES ASSUME NEW l \in activated', info[l].pred # "none"
               PROVE  /\ info[l].pred \in activated' /\ status'[info[l].pred] = "superseded"
                      /\ \A o \in activated' : info[o].pred = info[l].pred => o = l
    BY <1>1 DEF LinearHistory
  <2>5. CASE l = k
    BY <1>1, <2>2, <2>3, <2>4, <2>5
  <2>6. CASE l \in activated
    <3>1. info[l].pred \in activated /\ info[l].pred \in Keys /\ status[info[l].pred] = "superseded"
      BY <1>8, <2>1, <2>6
    <3>2. info[k].pred # info[l].pred
      BY <2>3, <2>6
    <3> QED BY <1>1, <2>0, <2>1, <2>4, <2>6, <3>1, <3>2
  <2> QED BY <2>4, <2>5, <2>6
<1>13. ~unheard' => KeptInv'
  BY ActivateKeeps, ElsewhereKept
<1> QED BY <1>3, <1>5, <1>7, <1>9, <1>10, <1>11, <1>12, <1>13 DEF DeviceInv

LEMMA HandleStep ==
    ASSUME DeviceInv, NEW m \in msgs, Handle(m)
    PROVE  DeviceInv'
<1>1. Elsewhere
  BY DEF Handle, Elsewhere
<1>2. TypeOK
  BY DEF DeviceInv
<1> QED BY <1>1, <1>2, HandlerCases, RefuseStep, AdvanceStep, StageStep, ActivateStep

LEMMA AdministrationStep ==
    ASSUME DeviceInv, Administration
    PROVE  DeviceInv'
<1>1. /\ UNCHANGED <<dev, bundle, previous, ca, keys, now, msgs, reply, unheard, faults>>
      /\ Elsewhere
  BY DEF Administration, deviceVars, Elsewhere
<1>2. LiveInv' /\ CommandInv'
  BY <1>1 DEF DeviceInv, LiveInv, CommandInv
<1>3. msgs' \in SUBSET Message /\ reply' \in {"none", "ok", "error"}
  BY <1>1 DEF DeviceInv, TypeOK
<1>4. UNCHANGED status => RequestInv' /\ OneCredential'
  BY <1>1 DEF DeviceInv, RequestInv, OneCredential
<1>5. UNCHANGED info => TokenOnce'
  BY DEF DeviceInv, TokenOnce
<1>6. UNCHANGED <<status, info, activated>> => LinearHistory'
  BY DEF DeviceInv, LinearHistory
<1>7. Quiet => (~unheard' => KeptInv')
  <2> SUFFICES ASSUME Quiet, ~unheard PROVE KeptInv'
    BY <1>1
  <2>1. reply # "ok" => AtWait(reply)'
    BY <1>1 DEF AtWait
  <2> QED BY <1>1, <2>1, KeptQuiet DEF DeviceInv
<1>8. UNCHANGED status => Quiet
  BY DEF Quiet
<1>9. CASE \E t \in Tokens, e \in 1..MaxTime : CreateEnrollmentToken(t, e)
  <2>1. PICK t \in Tokens, e \in 1..MaxTime : CreateEnrollmentToken(t, e)
    BY <1>9
  <2>2. /\ token[t].state = "absent"
        /\ token' = [token EXCEPT ![t] = [state |-> "open", expires |-> e]]
        /\ UNCHANGED <<status, info, mode, enabled, activated>>
    BY <2>1 DEF CreateEnrollmentToken
  <2>3. token \in [Tokens -> [state : {"absent", "open", "consumed"}, expires : Nat]]
    BY DEF DeviceInv, TypeOK
  <2>4. /\ token' \in [Tokens -> [state : {"absent", "open", "consumed"}, expires : Nat]]
        /\ \A u \in Tokens : token[u].state = "consumed" => token'[u].state = "consumed"
    BY SMT, Z3, <2>2, <2>3
  <2>5. TypeOK'
    BY <1>3, <2>2, <2>4, <1>1, ElsewhereKept DEF DeviceInv, TypeOK
  <2>6. LedgerInv'
    <3>1. \A l \in Keys : info'[l].token # "none" => token'[info'[l].token].state = "consumed"
      <4>1. \A l \in Keys : info[l].token \in Tokens \cup {"none"}
        BY DEF DeviceInv, TypeOK, Info
      <4> QED BY <2>2, <2>4, <4>1 DEF DeviceInv, LedgerInv
    <3> QED BY <2>2, <3>1 DEF DeviceInv, LedgerInv
  <2> QED BY <1>2, <1>4, <1>5, <1>6, <1>7, <1>8, <2>2, <2>5, <2>6 DEF DeviceInv
<1>10. CASE \E k \in Keys : RevokeCredential(k)
  <2>1. PICK k \in Keys : RevokeCredential(k)
    BY <1>10
  <2>2. /\ status[k] = "active" /\ status' = [status EXCEPT ![k] = "revoked"]
        /\ UNCHANGED <<info, token, mode, enabled, activated>>
    BY <2>1 DEF RevokeCredential
  <2>3. status \in [Keys -> Status]
    BY DEF DeviceInv, TypeOK
  <2>4. /\ status' \in [Keys -> Status] /\ status'[k] = "revoked"
        /\ \A p \in Keys : p # k => status'[p] = status[p]
    BY <2>2, <2>3 DEF Status
  <2>5. TypeOK'
    BY <1>1, <1>3, <2>2, <2>4, ElsewhereKept DEF DeviceInv, TypeOK
  <2>6. Quiet
    BY <2>2, <2>4 DEF Quiet
  <2>7. RequestInv'
    <3>1. \A p \in Keys : status[p] = "absent" => status'[p] = "absent"
      BY <2>2, <2>4
    <3>2. \A m \in msgs : m.op \in Asking => m.key \in Keys
      BY MessageFields DEF DeviceInv, TypeOK
    <3> QED BY <1>1, <3>1, <3>2 DEF DeviceInv, RequestInv
  <2>8. OneCredential'
    BY <2>2, <2>4 DEF DeviceInv, OneCredential
  <2>9. activated \subseteq Keys
    BY DEF DeviceInv, TypeOK
  <2>10. LedgerInv'
    BY <2>2, <2>4, <2>9 DEF DeviceInv, LedgerInv
  <2>11. LinearHistory'
    <3>1. \A p \in Keys : status[p] = "superseded" => status'[p] = "superseded"
      BY <2>2, <2>4
    <3> QED BY <2>2, <2>9, <3>1 DEF DeviceInv, LinearHistory
  <2> QED BY <1>2, <1>5, <1>7, <2>2, <2>5, <2>6, <2>7, <2>8, <2>10, <2>11 DEF DeviceInv
<1>11. CASE (\E to \in Modes : SetClientAuthenticationMode(to)) \/ SetClientEnabled
  <2>1. UNCHANGED <<status, info, token, activated>> /\ mode' \in Modes /\ enabled' \in BOOLEAN
    BY <1>11 DEF SetClientAuthenticationMode, SetClientEnabled, DeviceInv, TypeOK
  <2>2. TypeOK'
    BY <1>1, <1>3, <2>1, ElsewhereKept DEF DeviceInv, TypeOK
  <2>3. LedgerInv'
    BY <2>1 DEF DeviceInv, LedgerInv
  <2> QED BY <1>2, <1>4, <1>5, <1>6, <1>7, <1>8, <2>1, <2>2, <2>3 DEF DeviceInv
<1> QED BY <1>9, <1>10, <1>11 DEF Administration

(* The clock moves, or the server restarts and forgets its requests, and   *)
(* perhaps an answer.                                                      *)
LEMMA ServerEvents ==
    ASSUME DeviceInv, Tick \/ ServerRestart
    PROVE  DeviceInv'
<1>1. /\ UNCHANGED tableVars /\ UNCHANGED <<dev, bundle, previous, ca, keys>>
      /\ msgs' \subseteq msgs /\ reply' \in {reply, "none"}
  BY DEF Tick, ServerRestart, deviceVars
<1>9. /\ unheard' \in BOOLEAN /\ reply' \in {"none", "ok", "error"}
      /\ ~unheard' => ~unheard /\ (dev.step = "activateWait" /\ reply = "ok" => reply' = "ok")
  <2>1. unheard \in BOOLEAN /\ reply \in {"none", "ok", "error"}
    BY DEF DeviceInv, TypeOK
  <2>2. CASE Tick
    BY <2>1, <2>2 DEF Tick
  <2>3. CASE ServerRestart
    BY <1>1, <2>1, <2>3 DEF ServerRestart
  <2> QED BY <2>2, <2>3
<1>2. now' \in 0..MaxTime /\ faults' \in 0..MaxFaults
  <2>1. now \in 0..MaxTime /\ faults \in 0..MaxFaults
    BY DEF DeviceInv, TypeOK
  <2> QED BY SMT, Z3, <2>1, BoundsAssumption DEF Tick, ServerRestart
<1>3. /\ UNCHANGED <<status, info, token, mode, enabled, activated>>
      /\ LedgerInv' /\ OneCredential' /\ TokenOnce' /\ LinearHistory'
  BY <1>1, TablesKept
<1>4. TypeOK'
  <2>1. msgs' \in SUBSET Message
    BY <1>1 DEF DeviceInv, TypeOK
  <2>2. TypeOK
    BY DEF DeviceInv
  <2> QED BY SMT, Z3, <1>1, <1>2, <1>3, <1>9, <2>1, <2>2 DEF TypeOK
<1>5. RequestInv'
  BY <1>1, <1>3, RequestsKept
<1>6. LiveInv'
  BY <1>1 DEF DeviceInv, LiveInv
<1>7. CommandInv'
  BY <1>1 DEF DeviceInv, CommandInv
<1>8. ~unheard' => KeptInv'
  <2> SUFFICES ASSUME ~unheard' PROVE KeptInv'
    OBVIOUS
  <2>1. Quiet
    BY <1>3 DEF Quiet
  <2>2. reply # "ok" => AtWait(reply)'
    BY <1>1 DEF AtWait
  <2>3. /\ dev.step = "activateWait" /\ reply' # "ok" => reply # "ok"
        /\ reply = "ok" => reply' \in {"ok", "none"}
    BY <1>1, <1>9
  <2>4. TypeOK /\ CommandInv /\ KeptInv
    BY <1>9 DEF DeviceInv
  <2> QED BY <1>1, <2>1, <2>2, <2>3, <2>4, KeptQuiet
<1> QED BY <1>3, <1>4, <1>5, <1>6, <1>7, <1>8 DEF DeviceInv

-----------------------------------------------------------------------------
(* Steps of the device *)

Outcomes == {"none", "refused", "activated", "rolledBack", "crashed"}

Device == [step : Steps, action : {"none", "enroll", "renew"}, key : Keys \cup {"none"},
           outcome : Outcomes]

LEMMA GotoEffect ==
    ASSUME dev \in Device, NEW s \in Steps, Goto(s)
    PROVE  /\ dev' \in Device /\ dev'.step = s
           /\ dev'.action = dev.action /\ dev'.key = dev.key /\ dev'.outcome = dev.outcome
  BY DEF Device, Goto

LEMMA EndEffect ==
    ASSUME NEW o \in Outcomes, End(o)
    PROVE  dev' \in Device /\ dev'.step = "off" /\ dev'.outcome = o
  BY DEF Device, End, Idle, Steps, Outcomes

(* What a step of the device leaves alone.                                 *)
LEMMA DeviceKept ==
    ASSUME DeviceInv, UNCHANGED tableVars, dev' \in Device, now' = now,
           bundle' \in Keys \cup {"none"}, previous' \in Keys \cup {"none"},
           ca' \in BOOLEAN, keys' \in SUBSET Keys, msgs' \in SUBSET Message,
           reply' \in {"none", "ok", "error"}, unheard' \in BOOLEAN, faults' \in 0..MaxFaults,
           RequestInv', LiveInv', CommandInv', ~unheard' => KeptInv'
    PROVE  DeviceInv'
<1>1. /\ UNCHANGED <<status, info, token, mode, enabled, activated>>
      /\ LedgerInv' /\ OneCredential' /\ TokenOnce' /\ LinearHistory'
  BY TablesKept
<1>2. TypeOK'
  <2>1. /\ status \in [Keys -> Status] /\ info \in [Keys -> Info]
        /\ token \in [Tokens -> [state : {"absent", "open", "consumed"}, expires : Nat]]
        /\ mode \in Modes /\ enabled \in BOOLEAN /\ now \in 0..MaxTime
        /\ activated \in SUBSET Keys
    BY DEF DeviceInv, TypeOK
  <2> QED BY <1>1, <2>1 DEF TypeOK, Device, Outcomes
<1> QED BY <1>1, <1>2 DEF DeviceInv

LEMMA DeviceTypes ==
    ASSUME DeviceInv
    PROVE  /\ dev \in Device /\ bundle \in Keys \cup {"none"}
           /\ previous \in Keys \cup {"none"} /\ ca \in BOOLEAN
           /\ keys \in SUBSET Keys /\ msgs \in SUBSET Message
           /\ reply \in {"none", "ok", "error"}
           /\ unheard \in BOOLEAN /\ faults \in 0..MaxFaults
           /\ dev.step # "off" => dev.key \in Keys
<1>1. dev.step # "off" => dev.key \in Keys
  BY DEF DeviceInv, TypeOK, CommandInv
<1> QED BY <1>1 DEF DeviceInv, TypeOK, Device, Outcomes

(* The last request of the device is the only one it listens to.           *)
LEMMA SendEffect ==
    ASSUME DeviceInv, NEW m \in Message, dev.step \notin {"wait", "activateWait"}, m.live,
           Send(m),
           m.op \in Asking => dev'.step = "wait" /\ m.key = dev'.key /\ m.op = dev'.action,
           m.op = "renew" => m.cert = bundle',
           m.op = "activate" => dev'.step = "activateWait" /\ m.cert = dev'.key,
           dev'.step \in {"wait", "activateWait"}
    PROVE  /\ LiveInv' /\ msgs' \in SUBSET Message /\ reply' = "none"
           /\ msgs' = msgs \cup {m} /\ \A n \in msgs : ~n.live
<1>1. reply' = "none" /\ msgs' = msgs \cup {m}
  BY DEF Send
<1>2. \A n \in msgs : ~n.live
  BY DEF DeviceInv, LiveInv
<1>3. \A n \in msgs' : n.live => n = m
  BY <1>1, <1>2
<1>4. msgs' \in SUBSET Message
  BY <1>1, DeviceTypes
<1> QED BY <1>1, <1>2, <1>3, <1>4 DEF LiveInv

(* With the tables and the files as before, and no new activation asked    *)
(* for, the clauses of KeptInv that hold at every step hold again.         *)
LEMMA Carried ==
    ASSUME KeptInv, status' = status, UNCHANGED <<bundle, previous>>,
           \A n \in msgs' : n.op = "activate" =>
               \E m \in msgs : m.op = "activate" /\ n.cert = m.cert
    PROVE  /\ OnlyActive(bundle)' \/ OnlyActive(previous)'
           /\ bundle' = "none" => previous' = "none"
           /\ \A n \in msgs' : n.op = "activate" =>
                  status'[n.cert] # "absent" /\ (status'[n.cert] = "pending" => n.cert = bundle')
<1>1. \A m \in msgs : m.op = "activate" =>
          status[m.cert] # "absent" /\ (status[m.cert] = "pending" => m.cert = bundle)
  BY DEF KeptInv
<1>2. OnlyActive(bundle)' \/ OnlyActive(previous)'
  BY DEF OnlyActive, KeptInv
<1>3. bundle' = "none" => previous' = "none"
  BY DEF KeptInv
<1> QED BY <1>1, <1>2, <1>3

(* KeptInv when a command starts: nothing on the device or in the tables   *)
(* has changed, and no activation is asked for.                            *)
LEMMA CommandKept ==
    ASSUME DeviceInv, ~unheard, UNCHANGED <<status, bundle, previous>>,
           dev.step = "off", dev'.step = "wait", dev'.outcome = "none", reply' = "none",
           \A n \in msgs' : n.op = "activate" => n \in msgs, status[dev'.key] = "absent"
    PROVE  KeptInv'
<1>1. KeptInv
  BY DEF DeviceInv
<1>2. \A n \in msgs' : n.op = "activate" =>
          \E m \in msgs : m.op = "activate" /\ n.cert = m.cert
  OBVIOUS
<1>3. /\ OnlyActive(bundle)' \/ OnlyActive(previous)'
      /\ bundle' = "none" => previous' = "none"
      /\ \A n \in msgs' : n.op = "activate" =>
             status'[n.cert] # "absent" /\ (status'[n.cert] = "pending" => n.cert = bundle')
  BY <1>1, <1>2, Carried
<1>4. NotRequested'
  BY <1>3 DEF NotRequested
<1> QED BY <1>3, <1>4 DEF KeptInv

(* A request for a key pair that was just made is the only one for it.     *)
LEMMA NewRequest ==
    ASSUME DeviceInv, NEW k \in Keys, k \notin keys, NEW m, m.op \in Asking, m.key = k,
           keys' = keys \cup {k}, msgs' = msgs \cup {m}, status' = status
    PROVE  RequestInv' /\ keys' \in SUBSET Keys
<1>1. status[k] = "absent" /\ \A n \in msgs : n.op \in Asking => n.key # k
  BY DEF DeviceInv, RequestInv
<1>2. \A l \in Keys \ keys' : status'[l] = "absent"
  BY DEF DeviceInv, RequestInv
<1>3. \A n \in msgs' : n.op \in Asking => n.key \in keys' /\ status'[n.key] = "absent"
  BY <1>1 DEF DeviceInv, RequestInv
<1>4. \A n, o \in msgs' : n.op \in Asking /\ o.op \in Asking /\ n.key = o.key => n = o
  BY <1>1 DEF DeviceInv, RequestInv
<1>5. keys' \in SUBSET Keys
  BY DeviceTypes
<1> QED BY <1>2, <1>3, <1>4, <1>5 DEF RequestInv

LEMMA EnrollStep ==
    ASSUME DeviceInv, NEW k \in Keys, NEW t \in Tokens, Enroll(k, t)
    PROVE  DeviceInv'
<1> DEFINE m == [op |-> "enroll", key |-> k, token |-> t, stage |-> "new", at |-> 0,
                 live |-> TRUE]
<1>1. /\ dev.step = "off" /\ k \notin keys /\ keys' = keys \cup {k} /\ Send(m)
      /\ UNCHANGED tableVars /\ UNCHANGED <<now, unheard, bundle, previous, ca, faults>>
  BY DEF Enroll, environment, files
<1>2. m \in EnrollMessage /\ m.op = "enroll" /\ m.key = k /\ m.live = TRUE
  BY DEF EnrollMessage
<1>3. /\ dev' \in Device /\ dev'.step = "wait" /\ dev'.action = "enroll" /\ dev'.key = k
      /\ dev'.outcome = "none"
  BY DEF Enroll, Device, Steps, Outcomes
<1> HIDE DEF m
<1>4. m \in Message
  BY <1>2, MessageKinds
<1>5. /\ LiveInv' /\ msgs' \in SUBSET Message /\ reply' = "none" /\ msgs' = msgs \cup {m}
  BY <1>1, <1>2, <1>3, <1>4, SendEffect
<1>6. status' = status
  BY <1>1 DEF tableVars
<1>7. RequestInv' /\ keys' \in SUBSET Keys
  <2>1. m.op \in Asking
    BY <1>2 DEF Asking
  <2> QED BY <1>1, <1>2, <1>5, <1>6, <2>1, NewRequest
<1>8. CommandInv'
  <2>1. dev'.key \in keys' /\ dev'.action \in Asking
    BY <1>1, <1>3 DEF Asking
  <2> QED BY <1>3, <2>1 DEF CommandInv, Activating
<1>9. ~unheard' => KeptInv'
  <2>1. \A n \in msgs' : n.op = "activate" => n \in msgs
    BY <1>2, <1>5
  <2>2. status[dev'.key] = "absent"
    BY <1>1, <1>3 DEF DeviceInv, RequestInv
  <2> QED BY <1>1, <1>3, <1>5, <1>6, <2>1, <2>2, CommandKept
<1> QED BY <1>1, <1>3, <1>5, <1>7, <1>8, <1>9, DeviceKept, DeviceTypes

LEMMA RenewStep ==
    ASSUME DeviceInv, NEW k \in Keys, Renew(k)
    PROVE  DeviceInv'
<1> DEFINE m == [op |-> "renew", key |-> k, cert |-> bundle, stage |-> "new", live |-> TRUE]
<1>1. /\ dev.step = "off" /\ k \notin keys /\ keys' = keys \cup {k} /\ Send(m) /\ bundle # "none"
      /\ UNCHANGED tableVars /\ UNCHANGED <<now, unheard, bundle, previous, ca, faults>>
  BY DEF Renew, environment, files
<1>2. m \in RenewMessage /\ m.op = "renew" /\ m.key = k /\ m.cert = bundle /\ m.live = TRUE
  <2>1. bundle \in Keys
    BY <1>1, DeviceTypes
  <2> QED BY <2>1 DEF RenewMessage
<1>3. /\ dev' \in Device /\ dev'.step = "wait" /\ dev'.action = "renew" /\ dev'.key = k
      /\ dev'.outcome = "none"
  BY DEF Renew, Device, Steps, Outcomes
<1> HIDE DEF m
<1>4. m \in Message
  BY <1>2, MessageKinds
<1>5. /\ LiveInv' /\ msgs' \in SUBSET Message /\ reply' = "none" /\ msgs' = msgs \cup {m}
  BY <1>1, <1>2, <1>3, <1>4, SendEffect
<1>6. status' = status
  BY <1>1 DEF tableVars
<1>7. RequestInv' /\ keys' \in SUBSET Keys
  <2>1. m.op \in Asking
    BY <1>2 DEF Asking
  <2> QED BY <1>1, <1>2, <1>5, <1>6, <2>1, NewRequest
<1>8. CommandInv'
  <2>1. dev'.key \in keys' /\ dev'.action \in Asking
    BY <1>1, <1>3 DEF Asking
  <2> QED BY <1>3, <2>1 DEF CommandInv, Activating
<1>9. ~unheard' => KeptInv'
  <2>1. \A n \in msgs' : n.op = "activate" => n \in msgs
    BY <1>2, <1>5
  <2>2. status[dev'.key] = "absent"
    BY <1>1, <1>3 DEF DeviceInv, RequestInv
  <2> QED BY <1>1, <1>3, <1>5, <1>6, <2>1, <2>2, CommandKept
<1> QED BY <1>1, <1>3, <1>5, <1>7, <1>8, <1>9, DeviceKept, DeviceTypes

(* A step of the device between its requests.                              *)
LocalStep ==
    /\ UNCHANGED tableVars /\ UNCHANGED <<now, unheard, keys, msgs, faults>>
    /\ reply' = "none" /\ (reply = "none" => dev.step \notin {"wait", "activateWait"})
    /\ dev.step # "off" /\ dev' \in Device /\ dev'.step \notin {"wait", "activateWait"}

LEMMA LocalKept ==
    ASSUME DeviceInv, LocalStep, CommandInv', ~unheard => KeptInv',
           bundle' \in Keys \cup {"none"}, previous' \in Keys \cup {"none"}, ca' \in BOOLEAN
    PROVE  DeviceInv'
<1>1. status' = status /\ msgs' = msgs /\ keys' = keys /\ unheard' = unheard
  BY DEF LocalStep, tableVars
<1>2. RequestInv'
  BY <1>1, RequestsKept
<1>3. \A m \in msgs : ~m.live
  BY DEF LocalStep, DeviceInv, LiveInv
<1>4. LiveInv'
  BY <1>1, <1>3 DEF LocalStep, LiveInv
<1>5. /\ UNCHANGED tableVars /\ now' = now /\ faults' = faults /\ dev' \in Device
      /\ reply' = "none"
  BY DEF LocalStep
<1>6. /\ keys' \in SUBSET Keys /\ msgs' \in SUBSET Message
      /\ reply' \in {"none", "ok", "error"}
      /\ unheard' \in BOOLEAN /\ faults' \in 0..MaxFaults
  BY <1>1, <1>5, DeviceTypes
<1> QED BY <1>1, <1>2, <1>4, <1>5, <1>6, DeviceKept

(* The command ends, by itself or with the device.                         *)
LEMMA EndKept ==
    ASSUME DeviceInv, ~unheard, status' = status, UNCHANGED <<bundle, previous>>,
           dev'.step = "off", dev'.outcome # "rolledBack",
           \A n \in msgs' : n.op = "activate" =>
               \E m \in msgs : m.op = "activate" /\ n.cert = m.cert
    PROVE  KeptInv'
<1>1. KeptInv
  BY DEF DeviceInv
<1> QED BY <1>1, Carried DEF KeptInv

LEMMA OffCommand ==
    ASSUME dev'.step = "off"
    PROVE  CommandInv'
  BY DEF CommandInv, Activating

LEMMA ReceiveCertificateStep ==
    ASSUME DeviceInv, ReceiveCertificate
    PROVE  DeviceInv'
<1>1. /\ dev.step = "wait" /\ reply # "none" /\ reply' = "none"
      /\ UNCHANGED tableVars
      /\ UNCHANGED <<now, unheard, bundle, previous, ca, keys, msgs, faults>>
  BY DEF ReceiveCertificate, environment, files
<1>2. status' = status
  BY <1>1 DEF tableVars
<1>3. /\ dev \in Device /\ bundle' \in Keys \cup {"none"}
      /\ previous' \in Keys \cup {"none"} /\ ca' \in BOOLEAN
  BY <1>1, DeviceTypes
<1>4. CASE End("refused")
  <2>1. dev' \in Device /\ dev'.step = "off" /\ dev'.outcome = "refused"
    BY <1>4, EndEffect DEF Outcomes
  <2>2. LocalStep
    BY <1>1, <2>1 DEF LocalStep
  <2>3. ~unheard => KeptInv'
    BY <1>1, <1>2, <2>1, EndKept
  <2> QED BY <1>3, <2>1, <2>2, <2>3, LocalKept, OffCommand
<1>5. CASE /\ reply = "ok" /\ (dev.action = "enroll" => bundle = "none")
           /\ Goto(IF dev.action = "enroll" THEN "ca" ELSE "keep")
  <2> DEFINE s == IF dev.action = "enroll" THEN "ca" ELSE "keep"
  <2>1. s \in Steps /\ s \in {"ca", "keep"} /\ (s = "ca" <=> dev.action = "enroll")
    BY DEF Steps
  <2>2. Goto(s)
    BY <1>5
  <2> HIDE DEF s
  <2>3. /\ dev' \in Device /\ dev'.step = s /\ dev'.action = dev.action
        /\ dev'.key = dev.key /\ dev'.outcome = dev.outcome
    BY <1>3, <2>1, <2>2, GotoEffect
  <2>4. LocalStep
    BY <1>1, <2>1, <2>3 DEF LocalStep
  <2>5. dev.key \in keys /\ dev.action \in Asking /\ dev.outcome = "none"
    BY <1>1 DEF DeviceInv, CommandInv
  <2>6. CommandInv'
    BY <1>1, <2>1, <2>3, <2>5 DEF CommandInv, Activating, Asking
  <2>7. ~unheard => KeptInv'
    <3> SUFFICES ASSUME ~unheard PROVE KeptInv'
      OBVIOUS
    <3>1. KeptInv
      BY DEF DeviceInv
    <3>2. /\ OnlyActive(bundle)' \/ OnlyActive(previous)'
          /\ \A m \in msgs' : m.op = "activate" =>
                 status'[m.cert] # "absent" /\ (status'[m.cert] = "pending" => m.cert = bundle')
          /\ bundle' = "none" => previous' = "none"
          /\ NotRequested'
      BY <1>1, <1>2, <2>3, <3>1 DEF KeptInv, OnlyActive, NotRequested
    <3>3. CASE s = "keep"
      <4>1. dev.action = "renew"
        BY <2>1, <2>5, <3>3 DEF Asking
      <4>2. status[dev.key] \in Issued /\ bundle # "none" /\ Current(bundle)
        BY <1>1, <1>5, <3>1, <4>1 DEF KeptInv
      <4>3. status'[dev'.key] \in Issued /\ bundle' # "none" /\ Current(bundle)'
        BY <1>1, <1>2, <2>3, <4>2 DEF Current, OnlyActive
      <4> QED BY <2>3, <2>5, <3>2, <3>3, <4>3 DEF KeptInv
    <3>4. CASE s = "ca"
      <4>1. dev.action = "enroll" /\ bundle = "none" /\ previous = "none"
        BY <1>5, <2>1, <3>1, <3>4 DEF KeptInv
      <4>2. status[dev.key] \in Issued /\ OnlyActive("none")
        BY <1>1, <1>5, <3>1, <4>1 DEF KeptInv
      <4>3. Fallback' /\ bundle' = previous'
        BY <1>1, <1>2, <2>3, <4>1, <4>2 DEF Fallback, OnlyActive
      <4> QED BY <2>3, <2>5, <3>2, <3>4, <4>3 DEF KeptInv
    <3> QED BY <2>1, <3>3, <3>4
  <2> QED BY <1>3, <2>4, <2>6, <2>7, LocalKept
<1> QED BY <1>4, <1>5 DEF ReceiveCertificate

(* WriteBundle writes the old bundle, the CA and then the new bundle.      *)
LEMMA WritePreviousStep ==
    ASSUME DeviceInv, WritePrevious
    PROVE  DeviceInv'
<1>1. /\ dev.step = "keep" /\ previous' = bundle /\ Goto("ca")
      /\ UNCHANGED tableVars /\ UNCHANGED <<now, unheard, bundle, ca, keys, msgs, reply, faults>>
  BY DEF WritePrevious, environment
<1>2. status' = status
  BY <1>1 DEF tableVars
<1>3. /\ dev' \in Device /\ dev'.step = "ca" /\ dev'.action = dev.action
      /\ dev'.key = dev.key /\ dev'.outcome = dev.outcome
  BY <1>1, GotoEffect, DeviceTypes DEF Steps
<1>4. reply = "none"
  BY <1>1 DEF DeviceInv, LiveInv
<1>5. LocalStep
  BY <1>1, <1>3, <1>4 DEF LocalStep
<1>6. dev.key \in keys /\ dev.action = "renew" /\ dev.outcome = "none"
  BY <1>1 DEF DeviceInv, CommandInv
<1>7. CommandInv'
  BY <1>1, <1>3, <1>6 DEF CommandInv, Activating, Asking
<1>8. ~unheard => KeptInv'
  <2> SUFFICES ASSUME ~unheard PROVE KeptInv'
    OBVIOUS
  <2>1. KeptInv
    BY DEF DeviceInv
  <2>2. status[dev.key] \in Issued /\ bundle # "none" /\ Current(bundle)
    BY <1>1, <2>1 DEF KeptInv
  <2>3. Fallback' /\ bundle' = previous' /\ OnlyActive(bundle)' /\ bundle' # "none"
    BY <1>1, <1>2, <1>3, <1>6, <2>2 DEF Fallback, Current, OnlyActive
  <2>4. /\ NotRequested'
        /\ \A m \in msgs' : m.op = "activate" =>
               status'[m.cert] # "absent" /\ (status'[m.cert] = "pending" => m.cert = bundle')
    BY <1>1, <1>2, <1>3, <2>1 DEF KeptInv, NotRequested
  <2> QED BY <1>3, <1>6, <2>3, <2>4 DEF KeptInv
<1>9. /\ bundle' \in Keys \cup {"none"} /\ previous' \in Keys \cup {"none"} /\ ca' \in BOOLEAN
  BY <1>1, DeviceTypes
<1> QED BY <1>5, <1>7, <1>8, <1>9, LocalKept

LEMMA WriteCAStep ==
    ASSUME DeviceInv, WriteCA
    PROVE  DeviceInv'
<1>1. /\ dev.step = "ca" /\ ca' = TRUE /\ Goto("bundle")
      /\ UNCHANGED tableVars
      /\ UNCHANGED <<now, unheard, bundle, previous, keys, msgs, reply, faults>>
  BY DEF WriteCA, environment
<1>2. status' = status
  BY <1>1 DEF tableVars
<1>3. /\ dev' \in Device /\ dev'.step = "bundle" /\ dev'.action = dev.action
      /\ dev'.key = dev.key /\ dev'.outcome = dev.outcome
  BY <1>1, GotoEffect, DeviceTypes DEF Steps
<1>4. reply = "none"
  BY <1>1 DEF DeviceInv, LiveInv
<1>5. LocalStep
  BY <1>1, <1>3, <1>4 DEF LocalStep
<1>6. dev.key \in keys /\ dev.action \in Asking /\ dev.outcome = "none"
  BY <1>1 DEF DeviceInv, CommandInv
<1>7. CommandInv'
  BY <1>1, <1>3, <1>6 DEF CommandInv, Activating
<1>8. ~unheard => KeptInv'
  <2> SUFFICES ASSUME ~unheard PROVE KeptInv'
    OBVIOUS
  <2>1. KeptInv
    BY DEF DeviceInv
  <2>2. Fallback /\ bundle = previous
    BY <1>1, <2>1 DEF KeptInv
  <2>3. Fallback' /\ bundle' = previous'
    BY <1>1, <1>2, <1>3, <2>2 DEF Fallback, Current, OnlyActive
  <2>4. /\ OnlyActive(bundle)' \/ OnlyActive(previous)'
        /\ \A m \in msgs' : m.op = "activate" =>
               status'[m.cert] # "absent" /\ (status'[m.cert] = "pending" => m.cert = bundle')
        /\ bundle' = "none" => previous' = "none"
        /\ NotRequested'
    BY <1>1, <1>2, <1>3, <2>1 DEF KeptInv, OnlyActive, NotRequested
  <2> QED BY <1>3, <1>6, <2>3, <2>4 DEF KeptInv
<1>9. /\ bundle' \in Keys \cup {"none"} /\ previous' \in Keys \cup {"none"} /\ ca' \in BOOLEAN
  BY <1>1, DeviceTypes
<1> QED BY <1>5, <1>7, <1>8, <1>9, LocalKept

(* The certificate that was the bundle is not pending, so no activation    *)
(* that is still on its way can succeed.                                   *)
LEMMA WriteBundleStep ==
    ASSUME DeviceInv, WriteBundle
    PROVE  DeviceInv'
<1>1. /\ dev.step = "bundle" /\ bundle' = dev.key /\ Goto("activate")
      /\ UNCHANGED tableVars
      /\ UNCHANGED <<now, unheard, previous, ca, keys, msgs, reply, faults>>
  BY DEF WriteBundle, environment
<1>2. status' = status
  BY <1>1 DEF tableVars
<1>3. /\ dev' \in Device /\ dev'.step = "activate" /\ dev'.action = dev.action
      /\ dev'.key = dev.key /\ dev'.outcome = dev.outcome
  BY <1>1, GotoEffect, DeviceTypes DEF Steps
<1>4. reply = "none"
  BY <1>1 DEF DeviceInv, LiveInv
<1>5. LocalStep
  BY <1>1, <1>3, <1>4 DEF LocalStep
<1>6. dev.key \in keys /\ dev.key \in Keys /\ dev.action \in Asking /\ dev.outcome = "none"
  BY <1>1, DeviceTypes DEF DeviceInv, CommandInv
<1>7. CommandInv'
  BY <1>1, <1>3, <1>6 DEF CommandInv, Activating
<1>8. ~unheard => KeptInv'
  <2> SUFFICES ASSUME ~unheard PROVE KeptInv'
    OBVIOUS
  <2>1. KeptInv
    BY DEF DeviceInv
  <2>2. Fallback /\ bundle = previous
    BY <1>1, <2>1 DEF KeptInv
  <2>3. Fallback'
    BY <1>1, <1>2, <1>3, <2>2 DEF Fallback, Current, OnlyActive
  <2>4. status[bundle] # "pending" \/ bundle = "none"
    BY <2>2 DEF Fallback, Current, Accepted
  <2>5. \A m \in msgs : m.op = "activate" => status[m.cert] # "absent" /\ status[m.cert] # "pending"
    <3>1. \A m \in msgs : m.op = "activate" => m.cert \in Keys
      BY MessageFields, DeviceTypes
    <3> QED BY <2>1, <2>4, <3>1, NamesAssumption DEF KeptInv
  <2>6. NotRequested'
    BY <1>1, <1>3, <2>1 DEF KeptInv, NotRequested
  <2>7. OnlyActive(previous)' /\ bundle' # "none"
    <3>1. OnlyActive(previous)
      BY <2>2 DEF Fallback, Current
    <3> QED BY <1>1, <1>2, <1>6, <3>1, NamesAssumption DEF OnlyActive
  <2> QED BY <1>1, <1>2, <1>3, <1>6, <2>3, <2>5, <2>6, <2>7 DEF KeptInv
<1>9. /\ bundle' \in Keys \cup {"none"} /\ previous' \in Keys \cup {"none"} /\ ca' \in BOOLEAN
  BY <1>1, <1>6, DeviceTypes
<1> QED BY <1>5, <1>7, <1>8, <1>9, LocalKept

LEMMA SendActivationStep ==
    ASSUME DeviceInv, Activate
    PROVE  DeviceInv'
<1> DEFINE m == [op |-> "activate", cert |-> bundle, stage |-> "new", at |-> 0, live |-> TRUE]
<1>1. /\ dev.step = "activate" /\ Goto("activateWait") /\ Send(m)
      /\ UNCHANGED tableVars
      /\ UNCHANGED <<now, unheard, bundle, previous, ca, keys, faults>>
  BY DEF Activate, environment, files
<1>2. status' = status
  BY <1>1 DEF tableVars
<1>3. /\ dev' \in Device /\ dev'.step = "activateWait" /\ dev'.action = dev.action
      /\ dev'.key = dev.key /\ dev'.outcome = dev.outcome
  BY <1>1, GotoEffect, DeviceTypes DEF Steps
<1>4. /\ dev.key \in keys /\ dev.key \in Keys /\ dev.action \in Asking /\ dev.outcome = "none"
      /\ bundle = dev.key
  BY <1>1, DeviceTypes DEF DeviceInv, CommandInv, Activating
<1>5. m \in ActivateMessage /\ m.op = "activate" /\ m.cert = bundle /\ m.live = TRUE
  BY <1>4 DEF ActivateMessage
<1> HIDE DEF m
<1>6. m \in Message /\ m.op \notin Asking
  BY <1>5, MessageKinds DEF Asking
<1>7. /\ LiveInv' /\ msgs' \in SUBSET Message /\ reply' = "none" /\ msgs' = msgs \cup {m}
  BY <1>1, <1>3, <1>4, <1>5, <1>6, SendEffect
<1>8. RequestInv'
  BY <1>1, <1>2, <1>6, <1>7 DEF DeviceInv, RequestInv
<1>9. CommandInv'
  BY <1>1, <1>3, <1>4 DEF CommandInv, Activating
<1>10. ~unheard' => KeptInv'
  <2> SUFFICES ASSUME ~unheard PROVE KeptInv'
    BY <1>1
  <2>1. KeptInv
    BY DEF DeviceInv
  <2>2. Fallback /\ NotRequested
    BY <1>1, <2>1 DEF KeptInv
  <2>3. Fallback'
    BY <1>1, <1>2, <1>3, <2>2 DEF Fallback, Current, OnlyActive
  <2>4. \A n \in msgs' : n.op = "activate" /\ n.cert = dev'.key => n.live
    BY <1>3, <1>5, <1>7, <2>2 DEF NotRequested
  <2>5. /\ OnlyActive(bundle)' \/ OnlyActive(previous)'
        /\ bundle' = "none" => previous' = "none"
    BY <1>1, <1>2, <2>1 DEF KeptInv, OnlyActive
  <2>6. \A n \in msgs' : n.op = "activate" =>
            status'[n.cert] # "absent" /\ (status'[n.cert] = "pending" => n.cert = bundle')
    <3>1. status[m.cert] # "absent"
      BY <1>4, <1>5, <2>2 DEF Fallback, Issued
    <3>2. \A n \in msgs : n.op = "activate" =>
              status[n.cert] # "absent" /\ (status[n.cert] = "pending" => n.cert = bundle)
      BY <2>1 DEF KeptInv
    <3> QED BY <1>1, <1>2, <1>5, <1>7, <3>1, <3>2
  <2> QED BY <1>3, <1>4, <1>7, <2>3, <2>4, <2>5, <2>6 DEF KeptInv
<1> QED BY <1>1, <1>3, <1>7, <1>8, <1>9, <1>10, DeviceKept, DeviceTypes

(* The rollback begins, with the activation refused or lost.               *)
LEMMA RollbackBegins ==
    ASSUME DeviceInv, dev.step = "activateWait", StartRollback
    PROVE  /\ dev' \in Device /\ dev'.step \in {"removeBundle", "restore"}
           /\ dev'.key = dev.key /\ dev'.action = dev.action /\ dev'.outcome = "none"
           /\ keys' = keys => CommandInv'
<1> DEFINE s == IF dev.action = "enroll" THEN "removeBundle" ELSE "restore"
<1>1. /\ s \in Steps /\ s \in {"removeBundle", "restore"}
      /\ s = "removeBundle" <=> dev.action = "enroll"
  BY DEF Steps
<1>2. Goto(s)
  BY DEF StartRollback
<1> HIDE DEF s
<1>3. /\ dev' \in Device /\ dev'.step = s /\ dev'.action = dev.action
      /\ dev'.key = dev.key /\ dev'.outcome = dev.outcome
  BY <1>1, <1>2, GotoEffect, DeviceTypes
<1>4. dev.key \in keys /\ dev.action \in Asking /\ dev.outcome = "none"
  BY DEF DeviceInv, CommandInv
<1>5. keys' = keys => CommandInv'
  BY <1>1, <1>3, <1>4 DEF CommandInv, Activating, Asking
<1> QED BY <1>1, <1>3, <1>4, <1>5

LEMMA RollbackKept ==
    ASSUME DeviceInv, ~unheard, dev.step = "activateWait", reply # "ok", StartRollback,
           status' = status, UNCHANGED <<bundle, previous>>, \A m \in msgs : ~m.live,
           \A n \in msgs' : n.op = "activate" =>
               \E m \in msgs : m.op = "activate" /\ n.cert = m.cert
    PROVE  KeptInv'
<1>1. KeptInv
  BY DEF DeviceInv
<1>2. /\ dev'.step \in {"removeBundle", "restore"}
      /\ dev'.key = dev.key /\ dev'.action = dev.action /\ dev'.outcome = "none"
  BY RollbackBegins
<1>3. /\ Fallback /\ \A m \in msgs : m.op = "activate" => m.cert # dev.key
      /\ bundle = dev.key
  BY <1>1 DEF KeptInv, DeviceInv, CommandInv, Activating
<1>4. Fallback' /\ NotRequested' /\ bundle' = dev'.key
  BY <1>2, <1>3 DEF Fallback, NotRequested, Current, OnlyActive
<1> QED BY <1>1, <1>2, <1>4, Carried DEF KeptInv

LEMMA ReceiveActivationStep ==
    ASSUME DeviceInv, ReceiveActivation
    PROVE  DeviceInv'
<1>1. /\ dev.step = "activateWait" /\ reply # "none" /\ reply' = "none"
      /\ UNCHANGED tableVars
      /\ UNCHANGED <<now, unheard, bundle, previous, ca, keys, msgs, faults>>
  BY DEF ReceiveActivation, environment, files
<1>2. status' = status
  BY <1>1 DEF tableVars
<1>3. /\ bundle' \in Keys \cup {"none"} /\ previous' \in Keys \cup {"none"} /\ ca' \in BOOLEAN
  BY <1>1, DeviceTypes
<1>4. CASE End("activated")
  <2>1. dev' \in Device /\ dev'.step = "off" /\ dev'.outcome = "activated"
    BY <1>4, EndEffect DEF Outcomes
  <2>2. LocalStep
    BY <1>1, <2>1 DEF LocalStep
  <2>3. ~unheard => KeptInv'
    BY <1>1, <1>2, <2>1, EndKept
  <2> QED BY <1>3, <2>1, <2>2, <2>3, LocalKept, OffCommand
<1>5. CASE reply # "ok" /\ StartRollback
  <2>1. dev' \in Device /\ dev'.step \in {"removeBundle", "restore"} /\ CommandInv'
    BY <1>1, <1>5, RollbackBegins
  <2>2. LocalStep
    BY <1>1, <2>1 DEF LocalStep
  <2>3. \A m \in msgs : ~m.live
    BY <1>1 DEF DeviceInv, LiveInv
  <2>4. ~unheard => KeptInv'
    BY <1>1, <1>2, <1>5, <2>3, RollbackKept
  <2> QED BY <1>3, <2>1, <2>2, <2>4, LocalKept
<1> QED BY <1>4, <1>5 DEF ReceiveActivation

LEMMA RollbackBundleStep ==
    ASSUME DeviceInv, RollbackBundle
    PROVE  DeviceInv'
<1>1. /\ UNCHANGED tableVars /\ UNCHANGED <<now, unheard, previous, keys, msgs, reply, faults>>
      /\ dev.step \in {"removeBundle", "removeCA", "restore"}
  BY DEF RollbackBundle, environment
<1>2. status' = status
  BY <1>1 DEF tableVars
<1>3. reply = "none"
  BY <1>1 DEF DeviceInv, LiveInv
<1>4. previous' \in Keys \cup {"none"}
  BY <1>1, DeviceTypes
<1>5. ~unheard =>
          /\ KeptInv /\ NotRequested
          /\ \A m \in msgs : m.op = "activate" =>
                 status[m.cert] # "absent" /\ (status[m.cert] = "pending" => m.cert = bundle)
  BY <1>1 DEF DeviceInv, KeptInv
<1>6. \A m \in msgs : m.op = "activate" => m.cert \in Keys
  BY MessageFields, DeviceTypes
<1>7. CASE /\ dev.step = "removeBundle" /\ Goto("removeCA") /\ bundle' = "none" /\ UNCHANGED ca
  <2>1. /\ dev' \in Device /\ dev'.step = "removeCA" /\ dev'.action = dev.action
        /\ dev'.key = dev.key /\ dev'.outcome = dev.outcome
    BY <1>7, GotoEffect, DeviceTypes DEF Steps
  <2>2. dev.key \in keys /\ dev.action = "enroll" /\ dev.outcome = "none"
    BY <1>7 DEF DeviceInv, CommandInv
  <2>3. CommandInv'
    BY <1>1, <2>1, <2>2 DEF CommandInv, Activating, Asking
  <2>4. LocalStep
    BY <1>1, <1>3, <2>1 DEF LocalStep
  <2>5. ~unheard => KeptInv'
    <3> SUFFICES ASSUME ~unheard PROVE KeptInv'
      OBVIOUS
    <3>1. Fallback /\ bundle = dev.key
      BY <1>5, <1>7 DEF KeptInv
    <3>2. previous' = "none" /\ OnlyActive("none")' /\ OnlyActive(bundle)'
      BY <1>1, <1>2, <1>7, <2>2, <3>1 DEF Fallback, OnlyActive
    <3>3. NotRequested'
      BY <1>1, <1>5, <2>1 DEF NotRequested
    <3>4. \A m \in msgs' : m.op = "activate" =>
              status'[m.cert] # "absent" /\ status'[m.cert] # "pending"
      BY <1>1, <1>2, <1>5, <3>1 DEF NotRequested
    <3> QED BY <1>7, <2>1, <2>2, <3>2, <3>3, <3>4 DEF KeptInv
  <2>6. bundle' \in Keys \cup {"none"} /\ ca' \in BOOLEAN
    BY <1>7, DeviceTypes
  <2> QED BY <1>4, <2>3, <2>4, <2>5, <2>6, LocalKept
<1>8. CASE /\ dev.step = "removeCA" /\ End("rolledBack") /\ ca' = FALSE /\ UNCHANGED bundle
  <2>1. dev' \in Device /\ dev'.step = "off" /\ dev'.outcome = "rolledBack"
    BY <1>8, EndEffect DEF Outcomes
  <2>2. LocalStep
    BY <1>1, <1>3, <2>1 DEF LocalStep
  <2>3. ~unheard => KeptInv'
    <3> SUFFICES ASSUME ~unheard PROVE KeptInv'
      OBVIOUS
    <3>1. /\ OnlyActive(bundle)' \/ OnlyActive(previous)'
          /\ bundle' = "none" => previous' = "none"
          /\ \A n \in msgs' : n.op = "activate" =>
                 status'[n.cert] # "absent" /\ (status'[n.cert] = "pending" => n.cert = bundle')
      BY <1>1, <1>2, <1>5, <1>8, Carried
    <3>2. bundle' = "none"
      BY <1>5, <1>8 DEF KeptInv
    <3> QED BY <2>1, <3>1, <3>2 DEF KeptInv
  <2>4. bundle' \in Keys \cup {"none"} /\ ca' \in BOOLEAN
    BY <1>8, DeviceTypes
  <2> QED BY <1>4, <2>1, <2>2, <2>3, <2>4, LocalKept, OffCommand
<1>9. CASE /\ dev.step = "restore" /\ End("rolledBack") /\ bundle' = previous /\ UNCHANGED ca
  <2>1. dev' \in Device /\ dev'.step = "off" /\ dev'.outcome = "rolledBack"
    BY <1>9, EndEffect DEF Outcomes
  <2>2. LocalStep
    BY <1>1, <1>3, <2>1 DEF LocalStep
  <2>3. ~unheard => KeptInv'
    <3> SUFFICES ASSUME ~unheard PROVE KeptInv'
      OBVIOUS
    <3>1. Fallback /\ bundle = dev.key /\ dev.action # "enroll"
      BY <1>5, <1>9 DEF KeptInv, DeviceInv, CommandInv
    <3>2. previous # "none" /\ Current(previous)
      BY <3>1 DEF Fallback
    <3>3. Current(bundle)' /\ OnlyActive(bundle)' /\ bundle' # "none"
      BY <1>2, <1>9, <3>2 DEF Current, OnlyActive
    <3>4. \A m \in msgs' : m.op = "activate" =>
              status'[m.cert] # "absent" /\ status'[m.cert] # "pending"
      BY <1>1, <1>2, <1>5, <3>1 DEF NotRequested
    <3> QED BY <2>1, <3>3, <3>4 DEF KeptInv
  <2>4. bundle' \in Keys \cup {"none"} /\ ca' \in BOOLEAN
    BY <1>9, DeviceTypes
  <2> QED BY <1>4, <2>1, <2>2, <2>3, <2>4, LocalKept, OffCommand
<1> QED BY <1>7, <1>8, <1>9 DEF RollbackBundle

(* A device that stops listening leaves its requests behind.               *)
LEMMA AbandonEffect ==
    ASSUME DeviceInv, Abandon, UNCHANGED tableVars, keys' = keys
    PROVE  /\ msgs' \in SUBSET Message /\ reply' = "none"
           /\ RequestInv' /\ LiveInv'
           /\ \A n \in msgs' : n.op = "activate" =>
                  \E m \in msgs : m.op = "activate" /\ n.cert = m.cert
<1>1. msgs' = {[m EXCEPT !.live = FALSE] : m \in msgs} /\ reply' = "none"
  BY DEF Abandon
<1>2. \A m \in msgs : m \in Message
  BY DeviceTypes
<1>3. \A n \in msgs' : \E m \in msgs :
          n = [m EXCEPT !.live = FALSE] /\ Same(n, m) /\ n.live = FALSE
  BY <1>1, <1>2, AbandonedMessage
<1>4. msgs' \in SUBSET Message
  BY <1>3 DEF Same
<1>5. LiveInv'
  BY <1>1, <1>3 DEF LiveInv
<1>6. status' = status
  BY DEF tableVars
<1>7. RequestInv'
  <2>1. \A k \in Keys \ keys' : status'[k] = "absent"
    BY <1>6 DEF DeviceInv, RequestInv
  <2>2. \A n \in msgs' : n.op \in Asking => n.key \in keys' /\ status'[n.key] = "absent"
    <3>1. \A m \in msgs : m.op \in Asking => m.key \in keys /\ status[m.key] = "absent"
      BY DEF DeviceInv, RequestInv
    <3>2. \A n \in msgs' : \E m \in msgs : n.op = m.op /\ (m.op \in Asking => n.key = m.key)
      BY <1>3 DEF Same
    <3> QED BY <1>6, <3>1, <3>2
  <2>3. ASSUME NEW n \in msgs', NEW o \in msgs', n.op \in Asking, o.op \in Asking, n.key = o.key
        PROVE  n = o
    <3>1. PICK m \in msgs : n = [m EXCEPT !.live = FALSE] /\ Same(n, m)
      BY <1>3
    <3>2. PICK p \in msgs : o = [p EXCEPT !.live = FALSE] /\ Same(o, p)
      BY <1>3
    <3>3. m.op \in Asking /\ p.op \in Asking /\ m.key = p.key
      BY <2>3, <3>1, <3>2 DEF Same
    <3>4. m = p
      BY <3>3 DEF DeviceInv, RequestInv
    <3> QED BY <3>1, <3>2, <3>4
  <2> QED BY <2>1, <2>2, <2>3 DEF RequestInv
<1>8. \A n \in msgs' : n.op = "activate" =>
          \E m \in msgs : m.op = "activate" /\ n.cert = m.cert
  BY <1>3 DEF Same
<1> QED BY <1>1, <1>4, <1>5, <1>7, <1>8

LEMMA GiveUpStep ==
    ASSUME DeviceInv, GiveUp
    PROVE  DeviceInv'
<1>1. /\ dev.step \in {"wait", "activateWait"} /\ Abandon
      /\ UNCHANGED tableVars /\ UNCHANGED <<now, bundle, previous, ca, keys>>
  BY DEF GiveUp, files
<1>2. status' = status
  BY <1>1 DEF tableVars
<1>3. /\ unheard' \in BOOLEAN /\ (~unheard' => ~unheard)
      /\ ~unheard' /\ dev.step = "activateWait" => reply = "none" /\ \A m \in msgs : ~m.live
  <2>1. unheard \in BOOLEAN
    BY DeviceTypes
  <2>2. \/ reply = "none" /\ (\A m \in msgs : ~m.live) /\ unheard' = unheard
        \/ unheard' = (unheard \/ dev.step = "activateWait")
    BY DEF GiveUp
  <2> QED BY <2>1, <2>2
<1>4. faults' \in 0..MaxFaults
  <2>1. faults \in 0..MaxFaults
    BY DeviceTypes
  <2> QED BY SMT, Z3, <2>1, BoundsAssumption DEF GiveUp
<1>5. /\ msgs' \in SUBSET Message /\ reply' = "none" /\ RequestInv' /\ LiveInv'
      /\ \A n \in msgs' : n.op = "activate" =>
             \E m \in msgs : m.op = "activate" /\ n.cert = m.cert
  BY <1>1, AbandonEffect
<1>6. CASE dev.step = "wait"
  <2>1. dev' \in Device /\ dev'.step = "off" /\ dev'.outcome = "refused"
    BY <1>6, EndEffect DEF GiveUp, Outcomes
  <2>2. ~unheard' => KeptInv'
    BY <1>1, <1>2, <1>3, <1>5, <2>1, EndKept
  <2> QED BY <1>1, <1>3, <1>4, <1>5, <2>1, <2>2, OffCommand, DeviceKept, DeviceTypes
<1>7. CASE dev.step = "activateWait"
  <2>1. StartRollback
    BY <1>7 DEF GiveUp
  <2>2. dev' \in Device /\ CommandInv'
    BY <1>1, <1>7, <2>1, RollbackBegins
  <2>3. ~unheard' => KeptInv'
    BY <1>1, <1>2, <1>3, <1>5, <1>7, <2>1, RollbackKept
  <2> QED BY <1>1, <1>3, <1>4, <1>5, <2>2, <2>3, DeviceKept, DeviceTypes
<1> QED BY <1>1, <1>6, <1>7

LEMMA CrashStep ==
    ASSUME DeviceInv, Crash
    PROVE  DeviceInv'
<1>1. /\ Abandon /\ End("crashed") /\ UNCHANGED tableVars
      /\ UNCHANGED <<now, unheard, bundle, previous, ca, keys>>
  BY DEF Crash, files, environment
<1>2. status' = status
  BY <1>1 DEF tableVars
<1>3. faults' \in 0..MaxFaults
  <2>1. faults \in 0..MaxFaults
    BY DeviceTypes
  <2> QED BY SMT, Z3, <2>1, BoundsAssumption DEF Crash
<1>4. /\ msgs' \in SUBSET Message /\ reply' = "none" /\ RequestInv' /\ LiveInv'
      /\ \A n \in msgs' : n.op = "activate" =>
             \E m \in msgs : m.op = "activate" /\ n.cert = m.cert
  BY <1>1, AbandonEffect
<1>5. dev' \in Device /\ dev'.step = "off" /\ dev'.outcome = "crashed"
  BY <1>1, EndEffect DEF Outcomes
<1>6. ~unheard' => KeptInv'
  BY <1>1, <1>2, <1>4, <1>5, EndKept
<1> QED BY <1>1, <1>3, <1>4, <1>5, <1>6, OffCommand, DeviceKept, DeviceTypes

-----------------------------------------------------------------------------
(* The theorems *)

LEMMA DeviceInit ==
    ASSUME Init
    PROVE  DeviceInv
<1>1. /\ \A k \in Keys : status[k] = "absent" /\ info[k] = NoInfo
      /\ status \in [Keys -> Status]
  BY DEF Init, Status
<1>2. /\ NoInfo \in Info /\ NoInfo.token = "none" /\ NoInfo.pred = "none"
  BY DEF NoInfo, Info
<1>3. info \in [Keys -> Info]
  BY <1>2 DEF Init
<1>4. token \in [Tokens -> [state : {"absent", "open", "consumed"}, expires : Nat]]
  BY DEF Init
<1>5. /\ dev = Idle /\ Idle \in Device /\ Idle.step = "off" /\ Idle.outcome = "none"
      /\ Idle.key = "none" /\ Idle.action = "none"
  BY DEF Init, Idle, Device, Steps, Outcomes
<1>6. /\ now = 0 /\ faults = 0 /\ 0 \in 0..MaxTime /\ 0 \in 0..MaxFaults
  BY SMT, Z3, BoundsAssumption DEF Init
<1>7. /\ msgs = {} /\ reply = "none" /\ bundle = "none" /\ previous = "none" /\ ca = FALSE
      /\ keys = {} /\ activated = {} /\ unheard = FALSE /\ mode = "token_only" /\ enabled = TRUE
  BY DEF Init
<1>8. TypeOK
  BY <1>1, <1>3, <1>4, <1>5, <1>6, <1>7 DEF TypeOK, Modes, Device, Outcomes
<1>9. RequestInv /\ LiveInv /\ CommandInv /\ LedgerInv
  BY <1>1, <1>2, <1>5, <1>7 DEF RequestInv, LiveInv, CommandInv, LedgerInv, Activating
<1>10. OneCredential /\ TokenOnce /\ LinearHistory
  BY <1>1, <1>2, <1>7 DEF OneCredential, TokenOnce, LinearHistory
<1>11. KeptInv
  BY <1>1, <1>5, <1>7 DEF KeptInv, OnlyActive
<1> QED BY <1>8, <1>9, <1>10, <1>11 DEF DeviceInv

LEMMA DeviceNext ==
    ASSUME DeviceInv, [Next]_vars
    PROVE  DeviceInv'
<1>1. CASE \E m \in msgs : Handle(m)
  BY <1>1, HandleStep
<1>2. CASE Administration
  BY <1>2, AdministrationStep
<1>3. CASE Tick \/ ServerRestart
  BY <1>3, ServerEvents
<1>4. CASE \E k \in Keys, t \in Tokens : Enroll(k, t)
  BY <1>4, EnrollStep
<1>5. CASE \E k \in Keys : Renew(k)
  BY <1>5, RenewStep
<1>6. CASE DeviceStep
  BY <1>6, ReceiveCertificateStep, WritePreviousStep, WriteCAStep, WriteBundleStep,
     SendActivationStep, ReceiveActivationStep, RollbackBundleStep, GiveUpStep
     DEF DeviceStep
<1>7. CASE Crash
  BY <1>7, CrashStep
<1>8. CASE UNCHANGED vars
  <2>1. /\ UNCHANGED tableVars /\ UNCHANGED deviceVars
        /\ UNCHANGED <<now, msgs, reply, unheard, faults>>
    BY <1>8 DEF vars
  <2>2. UNCHANGED <<dev, bundle, previous, ca, keys>>
    BY <2>1 DEF deviceVars
  <2>3. UNCHANGED <<status, info, token, mode, enabled, activated>>
    BY <2>1 DEF tableVars
  <2>4. RequestInv' /\ LiveInv' /\ CommandInv'
    BY <2>1, <2>2, <2>3 DEF DeviceInv, RequestInv, LiveInv, CommandInv
  <2>5. ~unheard' => KeptInv'
    <3> SUFFICES ASSUME ~unheard PROVE KeptInv'
      BY <2>1
    <3>1. Quiet
      BY <2>3 DEF Quiet
    <3>2. reply # "ok" => AtWait(reply)'
      BY <2>1 DEF AtWait
    <3> QED BY <2>1, <2>2, <3>1, <3>2, KeptQuiet DEF DeviceInv
  <2> QED BY <2>1, <2>2, <2>4, <2>5, DeviceKept, DeviceTypes
<1> QED BY <1>1, <1>2, <1>3, <1>4, <1>5, <1>6, <1>7, <1>8 DEF Next

(* Every reachable state of the tables, the device and the requests        *)
(* between them satisfies DeviceInv.                                       *)
THEOREM CredentialsInvariant == Spec => []DeviceInv
  BY PTL, DeviceInit, DeviceNext DEF Spec

(* EnrollCredential, StageRenewal and ActivateCredential leave the client  *)
(* with one active and one staged certificate at most.                     *)
THEOREM CredentialsStaySingle == Spec => []OneCredential
<1>1. DeviceInv => OneCredential
  BY DEF DeviceInv
<1> QED BY PTL, <1>1, CredentialsInvariant

(* Two requests with one enrollment token never both stage a certificate.  *)
THEOREM TokensBuyOneCertificate == Spec => []TokenOnce
<1>1. DeviceInv => TokenOnce
  BY DEF DeviceInv
<1> QED BY PTL, <1>1, CredentialsInvariant

(* Activated renewals form a line of certificates, each activated before   *)
(* the next.                                                               *)
THEOREM RenewalsFormALine == Spec => []LinearHistory
<1>1. DeviceInv => LinearHistory
  BY DEF DeviceInv
<1> QED BY PTL, <1>1, CredentialsInvariant

(* Unless the answer to an activation never reached it, by a restart of    *)
(* the server after the commit or by its own timeout, the device holds the *)
(* key of the active certificate, and a rollback leaves it with one the    *)
(* server accepted.                                                        *)
THEOREM ActiveKeyIsOnDevice == Spec => []KeyKept
<1>1. DeviceInv => KeyKept
  <2> SUFFICES ASSUME DeviceInv, ~unheard
               PROVE  /\ \A k \in Keys : status[k] = "active" => k \in {bundle, previous}
                      /\ RolledBackAccepted
    BY DEF KeyKept
  <2>1. \A k \in Keys : status[k] = "active" => k \in {bundle, previous}
    BY DEF DeviceInv, KeptInv, OnlyActive
  <2>2. RolledBackAccepted
    BY DEF DeviceInv, KeptInv, Current, Accepted, RolledBackAccepted
  <2> QED BY <2>1, <2>2
<1> QED BY PTL, <1>1, CredentialsInvariant

-----------------------------------------------------------------------------
(* What the rows of certificates go through *)

StageChanges(k) ==
    /\ status[k] = "absent" /\ status'[k] = "pending"
    /\ \A p \in Keys \ {k} :
           status'[p] = status[p] \/ (status[p] = "pending" /\ status'[p] = "superseded")

ActivateChanges(k) ==
    /\ status[k] = "pending" /\ status'[k] = "active"
    /\ \A p \in Keys \ {k} :
          /\ p # info[k].pred => status'[p] = status[p]
          /\ p = info[k].pred => status[p] = "active" /\ status'[p] = "superseded"

RevokeChanges(k) ==
    /\ status[k] = "active" /\ status'[k] = "revoked"
    /\ \A p \in Keys \ {k} : status'[p] = status[p]

(* The steps that change the status of a certificate.                      *)
LEMMA StatusChanges ==
    ASSUME DeviceInv, Next
    PROVE  \/ UNCHANGED status
           \/ \E k \in Keys : StageChanges(k) \/ ActivateChanges(k) \/ RevokeChanges(k)
<1>1. CASE \E m \in msgs : Handle(m)
  <2>1. PICK m \in msgs : Handle(m)
    BY <1>1
  <2>2. ASSUME NEW pred \in Keys \cup {"none"}, NEW t \in Tokens \cup {"none"}, NEW at \in Nat,
               HandlerStages(m, pred, t, at)
        PROVE  m.key \in Keys /\ StageChanges(m.key)
    <3>1. m.key \in Keys /\ status[m.key] = "absent" /\ Stage(m.key, pred, t, at) /\ TypeOK
      BY <2>2, MessageFields DEF DeviceInv, TypeOK, RequestInv, HandlerStages
    <3>2. /\ status'[m.key] = "pending"
          /\ \A p \in Keys : p # m.key =>
                status'[p] = status[p] \/ (status[p] = "pending" /\ status'[p] = "superseded")
      BY <3>1, StageEffect
    <3> QED BY <3>1, <3>2 DEF StageChanges
  <2>3. ASSUME NEW at \in Nat, HandlerActivates(m, at)
        PROVE  m.cert \in Keys /\ ActivateChanges(m.cert)
    <3>1. m.cert \in Keys /\ ActivateCredential(m.cert, at) /\ TypeOK /\ OneCredential
      BY <2>3, MessageFields DEF DeviceInv, TypeOK, HandlerActivates
    <3>2. /\ status[m.cert] = "pending" /\ status'[m.cert] = "active"
          /\ \A p \in Keys : p # m.cert =>
                /\ p # info[m.cert].pred => status'[p] = status[p]
                /\ p = info[m.cert].pred => status[p] = "active" /\ status'[p] = "superseded"
      BY SMT, Z3, <3>1, ActivateEffect
    <3> QED BY <3>1, <3>2 DEF ActivateChanges
  <2>4. TypeOK
    BY DEF DeviceInv
  <2> QED BY <2>1, <2>2, <2>3, <2>4, HandlerCases
          DEF HandlerAdvances, HandlerRefuses, tableVars
<1>2. CASE Administration
  <2>1. ASSUME NEW k \in Keys, RevokeCredential(k) PROVE RevokeChanges(k)
    <3>1. /\ status[k] = "active" /\ status' = [status EXCEPT ![k] = "revoked"]
          /\ status \in [Keys -> Status]
      BY <2>1 DEF RevokeCredential, DeviceInv, TypeOK
    <3> QED BY <3>1 DEF RevokeChanges
  <2> QED BY <1>2, <2>1
          DEF Administration, CreateEnrollmentToken, SetClientAuthenticationMode, SetClientEnabled
<1>3. Tick \/ ServerRestart \/ Crash => UNCHANGED tableVars
  BY DEF Tick, ServerRestart, Crash, environment
<1>4. (\E k \in Keys, t \in Tokens : Enroll(k, t)) \/ (\E k \in Keys : Renew(k))
          => UNCHANGED tableVars
  BY DEF Enroll, Renew, environment
<1>5. DeviceStep => UNCHANGED tableVars
  BY DEF DeviceStep, ReceiveCertificate, WritePrevious, WriteCA, WriteBundle, Activate,
     ReceiveActivation, RollbackBundle, GiveUp, environment
<1> QED BY <1>1, <1>2, <1>3, <1>4, <1>5 DEF Next, tableVars

(* A certificate that was replaced, given up or revoked never comes back.  *)
Retired == \A k \in Keys : status[k] \in {"superseded", "revoked"} => status'[k] = status[k]

(* No transaction of the credential store changes the row of a superseded  *)
(* or revoked certificate.                                                 *)
THEOREM RetiredStaysRetired == Spec => [][Retired]_vars
<1>1. ASSUME DeviceInv, Next PROVE Retired
  <2>1. ASSUME NEW k \in Keys, StageChanges(k) \/ ActivateChanges(k) \/ RevokeChanges(k)
        PROVE  Retired
    BY <2>1 DEF StageChanges, ActivateChanges, RevokeChanges, Retired
  <2> QED BY <1>1, <2>1, StatusChanges DEF Retired
<1> QED BY PTL, <1>1, CredentialsInvariant DEF Spec

(* A certificate stops to be active only because it is revoked, or because *)
(* the renewal that it asked for takes its place.                          *)
Succession ==
    \A k \in Keys : status[k] = "active" /\ status'[k] # "active" =>
        \/ status'[k] = "revoked"
        \/ \E l \in Keys : info[l].pred = k /\ status[l] = "pending" /\ status'[l] = "active"

(* No enrollment, abandoned renewal, late activation or restart leaves a   *)
(* client that had an active certificate without one: ActivateCredential   *)
(* supersedes the old one in the transaction that activates its successor. *)
THEOREM RenewalLeavesNoGap == Spec => [][Succession]_vars
<1>1. ASSUME DeviceInv, Next PROVE Succession
  <2>1. ASSUME NEW k \in Keys, StageChanges(k) PROVE Succession
    BY <2>1 DEF StageChanges, Succession
  <2>2. ASSUME NEW k \in Keys, ActivateChanges(k) PROVE Succession
    BY <2>2 DEF ActivateChanges, Succession
  <2>3. ASSUME NEW k \in Keys, RevokeChanges(k) PROVE Succession
    BY <2>3 DEF RevokeChanges, Succession
  <2> QED BY <1>1, <2>1, <2>2, <2>3, StatusChanges DEF Succession
<1> QED BY PTL, <1>1, CredentialsInvariant DEF Spec
=============================================================================
