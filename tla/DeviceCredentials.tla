------------------------- MODULE DeviceCredentials --------------------------
(***************************************************************************)
(* The certificate of one managed client: enrollment with a one-time       *)
(* token, renewal with the current certificate, activation of a staged     *)
(* certificate over mTLS, revocation and the authentication mode.          *)
(*                                                                         *)
(* A certificate is named by the key that sw-badge-client-device made for  *)
(* it.  A handler runs several transactions, so a request moves through    *)
(* stages in msgs; a device that gives up leaves its request behind.  An   *)
(* answer is in reply from the commit of its transaction until the device  *)
(* hears it: a restart of the server or a timeout may come in between.     *)
(* The audit row of each transaction is left out: no property here reads   *)
(* it.                                                                     *)
(***************************************************************************)
EXTENDS Naturals

CONSTANTS
    Keys,       \* key pairs the device may generate
    Tokens,     \* enrollment tokens an operator may issue
    Window,     \* ClientDeviceActivationWindow
    Lifetime,   \* validity of an issued certificate
    MaxTime,    \* bound on the clock
    MaxFaults   \* bound on crashes, restarts and timeouts

ASSUME WindowAssumption == Window \in Nat \ {0}
ASSUME LifetimeAssumption == Lifetime \in Nat \ {0}
ASSUME BoundsAssumption == MaxTime \in Nat /\ MaxFaults \in Nat
ASSUME NamesAssumption == "none" \notin Keys /\ "none" \notin Tokens

VARIABLES
    status,     \* status[k]: the status column, "absent" without a row
    info,       \* info[k]: predecessor, token, creation and expiry of k
    token,      \* token[t]: consumed or not, and its expiry
    mode,       \* auth_mode of the client
    enabled,    \* the client is enabled
    now,        \* the clock
    msgs,       \* requests that are not answered yet
    reply,      \* the answer to the device's request, until it is heard
    dev,        \* the running device command: its step, action and key
    bundle,     \* device-credential.pem: the key it holds
    previous,   \* device-credential.pem.previous
    ca,         \* device-ca.pem exists
    keys,       \* keys generated so far
    activated,  \* history: credentials that were activated
    unheard,    \* history: the answer to an activation never arrived
    faults      \* faults so far

tableVars == <<status, info, token, mode, enabled, activated>>

deviceVars == <<dev, bundle, previous, ca, keys>>

vars == <<tableVars, deviceVars, now, msgs, reply, unheard, faults>>

Status == {"absent", "pending", "active", "superseded", "revoked"}

Modes == {"token_only", "certificate_preferred", "certificate_required"}

Info == [pred : Keys \cup {"none"}, token : Tokens \cup {"none"},
         created : Nat, expires : Nat]

NoInfo == [pred |-> "none", token |-> "none", created |-> 0, expires |-> 0]

Message == [op : {"enroll"}, key : Keys, token : Tokens, stage : {"new", "checked"},
            at : Nat, live : BOOLEAN]
    \cup [op : {"renew"}, key : Keys, cert : Keys, stage : {"new", "checked"},
          live : BOOLEAN]
    \cup [op : {"activate"}, cert : Keys, stage : {"new", "found", "checked"},
          at : Nat, live : BOOLEAN]

Steps == {"off", "wait", "keep", "ca", "bundle", "activate", "activateWait",
          "removeBundle", "removeCA", "restore"}

Idle == [step |-> "off", action |-> "none", key |-> "none", outcome |-> "none"]

Unexpired(k, t) == info[k].expires > t

Active(k, t) == status[k] = "active" /\ Unexpired(k, t)

(* Staged less than a window before t. *)
Fresh(k, t) ==
    status[k] = "pending" /\ info[k].created + Window > t /\ Unexpired(k, t)

Stale(t) == {k \in Keys : status[k] = "pending" /\ info[k].created + Window <= t}

-----------------------------------------------------------------------------
(* The transactions *)

TokenValid(t, at) ==
    token[t].state = "open" /\ token[t].expires >= at /\ enabled

CanStage(at) == \A p \in Keys : status[p] = "pending" => p \in Stale(at)

(* Stale staged certificates are given up; a fresh one blocks another.     *)
Stage(k, pred, t, at) ==
    /\ CanStage(at)
    /\ status' = [p \in Keys |-> IF p = k THEN "pending"
                                 ELSE IF p \in Stale(at) THEN "superseded"
                                 ELSE status[p]]
    /\ info' = [info EXCEPT ![k] = [pred |-> pred, token |-> t, created |-> at,
                                    expires |-> at + Lifetime]]

(* Faulty variant: the token is not consumed.                              *)
EnrollAgain(k, t, at) ==
    /\ TokenValid(t, at)
    /\ Stage(k, "none", t, at)
    /\ UNCHANGED <<token, mode, enabled, activated>>

EnrollCredential(k, t, at) ==
    /\ TokenValid(t, at)
    /\ token' = [token EXCEPT ![t].state = "consumed"]
    /\ Stage(k, "none", t, at)
    /\ UNCHANGED <<mode, enabled, activated>>

StageRenewal(k, current, at) ==
    /\ Active(current, at)
    /\ Stage(k, current, "none", at)
    /\ UNCHANGED <<token, mode, enabled, activated>>

(* Faulty variant: an enrollment does not look for an active certificate.  *)
CanActivateBeside(k, at) ==
    /\ Fresh(k, at)
    /\ info[k].pred # "none" => status[info[k].pred] = "active"

(* A renewal replaces the certificate that asked for it, an enrollment     *)
(* needs a client without one.                                             *)
CanActivate(k, at) ==
    /\ Fresh(k, at)
    /\ IF info[k].pred = "none"
         THEN \A p \in Keys : status[p] # "active"
         ELSE status[info[k].pred] = "active"

(* Faulty variant: a renewal outlives the revocation of its predecessor.   *)
ActivateRevived(k, at) ==
    /\ Fresh(k, at)
    /\ info[k].pred = "none" => \A p \in Keys : status[p] # "active"
    /\ status' = [p \in Keys |-> IF p = k THEN "active"
                                 ELSE IF p = info[k].pred /\ status[p] = "active"
                                        THEN "superseded"
                                 ELSE status[p]]
    /\ activated' = activated \cup {k}
    /\ UNCHANGED <<info, token, mode, enabled>>

ActivateCredential(k, at) ==
    /\ CanActivate(k, at)
    /\ status' = [p \in Keys |-> IF p = k THEN "active"
                                 ELSE IF p = info[k].pred THEN "superseded"
                                 ELSE status[p]]
    /\ activated' = activated \cup {k}
    /\ UNCHANGED <<info, token, mode, enabled>>

-----------------------------------------------------------------------------
(* The server *)

Answer(m, r) ==
    /\ msgs' = msgs \ {m}
    /\ reply' = IF m.live THEN r ELSE reply

Advance(m, n) == msgs' = (msgs \ {m}) \cup {n} /\ UNCHANGED reply

EnrollClientDeviceCertificate(m) ==
    /\ m.op = "enroll"
    /\ \/ /\ m.stage = "new" /\ TokenValid(m.token, now)
          /\ Advance(m, [m EXCEPT !.stage = "checked", !.at = now])
          /\ UNCHANGED tableVars
       \/ /\ m.stage = "new" /\ ~TokenValid(m.token, now)
          /\ Answer(m, "error") /\ UNCHANGED tableVars
       \/ /\ m.stage = "checked" /\ EnrollCredential(m.key, m.token, m.at)
          /\ Answer(m, "ok")
       \/ /\ m.stage = "checked"
          /\ ~(TokenValid(m.token, m.at) /\ CanStage(m.at))
          /\ Answer(m, "error") /\ UNCHANGED tableVars

RenewClientDeviceCertificate(m) ==
    /\ m.op = "renew"
    /\ \/ /\ m.stage = "new" /\ Active(m.cert, now)
          /\ Advance(m, [m EXCEPT !.stage = "checked"])
          /\ UNCHANGED tableVars
       \/ /\ m.stage = "new" /\ ~Active(m.cert, now)
          /\ Answer(m, "error") /\ UNCHANGED tableVars
       \/ /\ m.stage = "checked" /\ StageRenewal(m.key, m.cert, now)
          /\ Answer(m, "ok")
       \/ /\ m.stage = "checked" /\ ~(Active(m.cert, now) /\ CanStage(now))
          /\ Answer(m, "error") /\ UNCHANGED tableVars

(* The client is looked up in a transaction of its own.  The last stage    *)
(* commits and leaves its answer in reply, where it may still be lost.     *)
ActivateClientDeviceCertificate(m) ==
    /\ m.op = "activate"
    /\ \/ /\ m.stage = "new" /\ Fresh(m.cert, now)
          /\ Advance(m, [m EXCEPT !.stage = "found", !.at = now])
          /\ UNCHANGED tableVars
       \/ /\ m.stage = "new" /\ ~Fresh(m.cert, now)
          /\ Answer(m, "error") /\ UNCHANGED tableVars
       \/ /\ m.stage = "found" /\ enabled
          /\ Advance(m, [m EXCEPT !.stage = "checked"])
          /\ UNCHANGED tableVars
       \/ /\ m.stage = "found" /\ ~enabled
          /\ Answer(m, "error") /\ UNCHANGED tableVars
       \/ /\ m.stage = "checked" /\ ActivateCredential(m.cert, m.at)
          /\ Answer(m, "ok")
       \/ /\ m.stage = "checked" /\ ~CanActivate(m.cert, m.at)
          /\ Answer(m, "error") /\ UNCHANGED tableVars

Handle(m) ==
    /\ \/ EnrollClientDeviceCertificate(m)
       \/ RenewClientDeviceCertificate(m)
       \/ ActivateClientDeviceCertificate(m)
    /\ UNCHANGED <<deviceVars, now, unheard, faults>>

(* identity-admin client-enrollment issue *)
CreateEnrollmentToken(t, expires) ==
    /\ enabled /\ token[t].state = "absent" /\ expires > now
    /\ token' = [token EXCEPT ![t] = [state |-> "open", expires |-> expires]]
    /\ UNCHANGED <<status, info, mode, enabled, activated>>

RevokeCredential(k) ==
    /\ status[k] = "active"
    /\ status' = [status EXCEPT ![k] = "revoked"]
    /\ UNCHANGED <<info, token, mode, enabled, activated>>

(* identity-admin client-auth-mode set *)
SetClientAuthenticationMode(to) ==
    /\ to # "token_only" => \E k \in Keys : Active(k, now)
    /\ mode' = to
    /\ UNCHANGED <<status, info, token, enabled, activated>>

SetClientEnabled ==
    /\ enabled' = ~enabled
    /\ UNCHANGED <<status, info, token, mode, activated>>

Administration ==
    /\ \/ \E t \in Tokens, e \in 1..MaxTime : CreateEnrollmentToken(t, e)
       \/ \E k \in Keys : RevokeCredential(k)
       \/ \E to \in Modes : SetClientAuthenticationMode(to)
       \/ SetClientEnabled
    /\ UNCHANGED <<deviceVars, now, msgs, reply, unheard, faults>>

Tick ==
    /\ now < MaxTime /\ now' = now + 1
    /\ UNCHANGED <<tableVars, deviceVars, msgs, reply, unheard, faults>>

(* Handlers end where they are, also between their commit and the answer.  *)
ServerRestart ==
    /\ faults < MaxFaults /\ faults' = faults + 1
    /\ msgs' = {} /\ reply' \in {reply, "none"}
    /\ unheard' = (unheard \/ (dev.step = "activateWait" /\ reply = "ok" /\ reply' = "none"))
    /\ UNCHANGED <<tableVars, deviceVars, now>>

-----------------------------------------------------------------------------
(* The device *)

Goto(s) == dev' = [dev EXCEPT !.step = s]

End(outcome) == dev' = [Idle EXCEPT !.outcome = outcome]

Send(m) == msgs' = msgs \cup {m} /\ reply' = "none"

Abandon ==
    /\ msgs' = {[m EXCEPT !.live = FALSE] : m \in msgs}
    /\ reply' = "none"

files == <<bundle, previous, ca>>

environment == <<tableVars, now, unheard>>

(* sw-badge-client-device enroll *)
Enroll(k, t) ==
    /\ dev.step = "off" /\ k \notin keys /\ token[t].state # "absent"
    /\ keys' = keys \cup {k}
    /\ dev' = [step |-> "wait", action |-> "enroll", key |-> k, outcome |-> "none"]
    /\ Send([op |-> "enroll", key |-> k, token |-> t, stage |-> "new", at |-> 0,
             live |-> TRUE])
    /\ UNCHANGED <<environment, files, faults>>

(* sw-badge-client-device renew: the certificate of the bundle signs.      *)
Renew(k) ==
    /\ dev.step = "off" /\ k \notin keys /\ ca /\ bundle # "none"
    /\ keys' = keys \cup {k}
    /\ dev' = [step |-> "wait", action |-> "renew", key |-> k, outcome |-> "none"]
    /\ Send([op |-> "renew", key |-> k, cert |-> bundle, stage |-> "new",
             live |-> TRUE])
    /\ UNCHANGED <<environment, files, faults>>

(* WriteBundle: an enrollment overwrites nothing, a renewal keeps the old  *)
(* bundle; then come the CA and, last, the bundle.                         *)
ReceiveCertificate ==
    /\ dev.step = "wait" /\ reply # "none"
    /\ IF reply = "ok" /\ (dev.action = "enroll" => bundle = "none" /\ ~ca)
         THEN Goto(IF dev.action = "enroll" THEN "ca" ELSE "keep")
         ELSE End("refused")
    /\ reply' = "none"
    /\ UNCHANGED <<environment, files, keys, msgs, faults>>

(* Faulty variant: the old bundle is not kept.                             *)
SkipPrevious ==
    /\ dev.step = "keep" /\ Goto("ca")
    /\ UNCHANGED <<environment, files, keys, msgs, reply, faults>>

WritePrevious ==
    /\ dev.step = "keep" /\ Goto("ca")
    /\ previous' = bundle
    /\ UNCHANGED <<environment, bundle, ca, keys, msgs, reply, faults>>

WriteCA ==
    /\ dev.step = "ca" /\ Goto("bundle")
    /\ ca' = TRUE
    /\ UNCHANGED <<environment, bundle, previous, keys, msgs, reply, faults>>

WriteBundle ==
    /\ dev.step = "bundle" /\ Goto("activate")
    /\ bundle' = dev.key
    /\ UNCHANGED <<environment, previous, ca, keys, msgs, reply, faults>>

Activate ==
    /\ dev.step = "activate" /\ Goto("activateWait")
    /\ Send([op |-> "activate", cert |-> bundle, stage |-> "new", at |-> 0,
             live |-> TRUE])
    /\ UNCHANGED <<environment, files, keys, faults>>

StartRollback == Goto(IF dev.action = "enroll" THEN "removeBundle" ELSE "restore")

ReceiveActivation ==
    /\ dev.step = "activateWait" /\ reply # "none"
    /\ IF reply = "ok" THEN End("activated") ELSE StartRollback
    /\ reply' = "none"
    /\ UNCHANGED <<environment, files, keys, msgs, faults>>

RollbackBundle ==
    /\ \/ /\ dev.step = "removeBundle" /\ Goto("removeCA")
          /\ bundle' = "none" /\ UNCHANGED ca
       \/ /\ dev.step = "removeCA" /\ End("rolledBack")
          /\ ca' = FALSE /\ UNCHANGED bundle
       \/ /\ dev.step = "restore" /\ End("rolledBack")
          /\ bundle' = previous /\ UNCHANGED ca
    /\ UNCHANGED <<environment, previous, keys, msgs, reply, faults>>

(* The request fails: the connection broke with the server or the answer   *)
(* did not come in time.                                                   *)
GiveUp ==
    /\ dev.step \in {"wait", "activateWait"}
    /\ \/ /\ reply = "none" /\ \A m \in msgs : ~m.live
          /\ UNCHANGED <<unheard, faults>>
       \/ /\ reply # "none" \/ \E m \in msgs : m.live
          /\ unheard' = (unheard \/ dev.step = "activateWait")
          /\ faults < MaxFaults /\ faults' = faults + 1
    /\ IF dev.step = "wait" THEN End("refused") ELSE StartRollback
    /\ Abandon
    /\ UNCHANGED <<tableVars, now, files, keys>>

Crash ==
    /\ dev.step # "off"
    /\ faults < MaxFaults /\ faults' = faults + 1
    /\ End("crashed") /\ Abandon
    /\ UNCHANGED <<environment, files, keys>>

DeviceStep ==
    \/ ReceiveCertificate \/ WritePrevious \/ WriteCA \/ WriteBundle
    \/ Activate \/ ReceiveActivation \/ RollbackBundle \/ GiveUp

Init ==
    /\ status = [k \in Keys |-> "absent"]
    /\ info = [k \in Keys |-> NoInfo]
    /\ token = [t \in Tokens |-> [state |-> "absent", expires |-> 0]]
    /\ mode = "token_only" /\ enabled = TRUE
    /\ now = 0
    /\ msgs = {} /\ reply = "none"
    /\ dev = Idle
    /\ bundle = "none" /\ previous = "none" /\ ca = FALSE
    /\ keys = {} /\ activated = {}
    /\ unheard = FALSE /\ faults = 0

Next ==
    \/ \E m \in msgs : Handle(m)
    \/ Administration \/ Tick \/ ServerRestart
    \/ \E k \in Keys, t \in Tokens : Enroll(k, t)
    \/ \E k \in Keys : Renew(k)
    \/ DeviceStep \/ Crash

Spec == Init /\ [][Next]_vars

-----------------------------------------------------------------------------
TypeOK ==
    /\ status \in [Keys -> Status]
    /\ info \in [Keys -> Info]
    /\ token \in [Tokens -> [state : {"absent", "open", "consumed"}, expires : Nat]]
    /\ mode \in Modes /\ enabled \in BOOLEAN
    /\ now \in 0..MaxTime
    /\ msgs \in SUBSET Message
    /\ reply \in {"none", "ok", "error"}
    /\ dev \in [step : Steps, action : {"none", "enroll", "renew"},
                key : Keys \cup {"none"},
                outcome : {"none", "refused", "activated", "rolledBack", "crashed"}]
    /\ bundle \in Keys \cup {"none"} /\ previous \in Keys \cup {"none"}
    /\ ca \in BOOLEAN
    /\ keys \in SUBSET Keys /\ activated \in SUBSET Keys
    /\ unheard \in BOOLEAN /\ faults \in 0..MaxFaults

(* One active and one staged certificate at most, whatever handlers meet:  *)
(* the checks of the transactions suffice, and the unique indexes          *)
(* idx_client_credentials_one_active and _one_pending never refuse a row.  *)
OneCredential ==
    \A k, l \in Keys :
        k # l /\ status[k] \in {"active", "pending"} => status[l] # status[k]

(* An enrollment token yields one certificate, though two requests may     *)
(* both have found it valid (ValidClientEnrollmentToken comes first).      *)
TokenOnce ==
    \A k, l \in Keys :
        info[k].token # "none" /\ info[k].token = info[l].token => k = l

(* Renewals form a line: an activated renewal replaced the certificate     *)
(* that asked for it, which was active until then, and was the only one to *)
(* do so; the heir of a revoked certificate is never activated.            *)
LinearHistory ==
    \A k \in activated :
        info[k].pred # "none" =>
            /\ info[k].pred \in activated /\ status[info[k].pred] = "superseded"
            /\ \A l \in activated : info[l].pred = info[k].pred => l = k

(* After a failed activation the device is back at a certificate that the  *)
(* server accepts, unless that one was revoked or has expired.             *)
RolledBackAccepted ==
    dev.outcome = "rolledBack" /\ bundle # "none" =>
        status[bundle] \in {"active", "revoked"}

(* This is so, and the key of the active certificate stays on the device,  *)
(* in the bundle or its predecessor, unless the answer to an activation    *)
(* never reached the device: a restart of the server after the commit took *)
(* it (activateClientDeviceCertificate) or the device gave up waiting      *)
(* (execute).  Nothing else loses the key: not a crash of the device       *)
(* between two writes, not a restart that ends a request before its        *)
(* commit, not a refused activation, not a lost enrollment or renewal.     *)
KeyKept ==
    ~unheard =>
        /\ \A k \in Keys : status[k] = "active" => k \in {bundle, previous}
        /\ RolledBackAccepted
=============================================================================
