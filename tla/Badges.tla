------------------------------- MODULE Badges -------------------------------
(***************************************************************************)
(* The badges table and the transactions that change it.                   *)
(* Rows are never deleted and nextCode numbers them, so a badge is its     *)
(* position in the sequence.                                               *)
(***************************************************************************)
EXTENDS Naturals, Sequences

CONSTANTS
    Users,      \* rows of the users table
    MaxBadges,  \* bound on the badges ever issued
    MaxTime     \* bound on the clock

ASSUME BadgeBounds == MaxBadges \in Nat /\ MaxTime \in Nat

VARIABLES
    badges,  \* the rows of the badges table, in the order of their ids
    now      \* the clock

Never == MaxTime + 1

(* revokedAt is Never while revoked_at is NULL; replaces is the badge that *)
(* the audit row of the replacement names, 0 without one.                  *)
Badge == [owner : Users, enabled : BOOLEAN, pending : BOOLEAN,
          revokedAt : 0 .. Never, replaces : Nat]

BadgeIds == 1 .. Len(badges)

NewBadge(u) == [owner |-> u, enabled |-> TRUE, pending |-> FALSE,
                revokedAt |-> Never, replaces |-> 0]

Revoked(row) == [row EXCEPT !.enabled = FALSE, !.pending = FALSE, !.revokedAt = now]

CreateBadgeWithAudit(u) ==
    /\ Len(badges) < MaxBadges
    /\ badges' = Append(badges, NewBadge(u))

(* A badge that waits for its activation is not enabled and stays as it is.*)
RevokeBadgeWithAudit(b) ==
    /\ badges[b].enabled
    /\ badges' = [badges EXCEPT ![b] = Revoked(@)]

Replacement(b) == [owner |-> badges[b].owner, enabled |-> FALSE, pending |-> TRUE,
                   revokedAt |-> Never, replaces |-> b]

(* Faulty variant: the old badge is left alone until its replacement is    *)
(* activated.                                                              *)
ReplaceKeepsOld(b) ==
    /\ badges[b].enabled /\ Len(badges) < MaxBadges
    /\ badges' = Append(badges, Replacement(b))

ReplaceBadgePendingWithAudit(b) ==
    /\ badges[b].enabled /\ Len(badges) < MaxBadges
    /\ badges' = Append([badges EXCEPT ![b] = Revoked(@)], Replacement(b))

(* The only revocation that leaves activation_pending alone.               *)
RevokeActiveBadgeForUserWithAudit(b, u) ==
    /\ badges[b].owner = u /\ badges[b].enabled
    /\ badges' = [badges EXCEPT ![b].enabled = FALSE, ![b].revokedAt = now]

(* Faulty variant: activation_pending stays set.                           *)
ActivateStillPending(b, u) ==
    /\ badges[b].owner = u /\ ~badges[b].enabled /\ badges[b].pending
    /\ badges' = [badges EXCEPT ![b].enabled = TRUE, ![b].revokedAt = Never]

ActivatePendingBadgeForUserWithAudit(b, u) ==
    /\ badges[b].owner = u /\ ~badges[b].enabled /\ badges[b].pending
    /\ badges' = [badges EXCEPT ![b].enabled = TRUE, ![b].pending = FALSE,
                                ![b].revokedAt = Never]

(* The administrator's pages: createBadge, revoke and replace.             *)
AdministerBadges ==
    \/ \E u \in Users : CreateBadgeWithAudit(u)
    \/ \E b \in BadgeIds : RevokeBadgeWithAudit(b) \/ ReplaceBadgePendingWithAudit(b)

BadgesInit == badges = <<>> /\ now = 0

BadgesTypeOK ==
    /\ badges \in Seq(Badge)
    /\ now \in 0 .. MaxTime

-----------------------------------------------------------------------------
(* A replaced badge is revoked, whatever becomes of the badge that         *)
(* replaces it, and is replaced once: a user never holds two working       *)
(* badges of one replacement.                                              *)
ReplacementsExclude ==
    \A b \in BadgeIds :
        badges[b].replaces # 0 =>
            /\ badges[b].replaces < b
            /\ badges[badges[b].replaces].owner = badges[b].owner
            /\ ~badges[badges[b].replaces].enabled
            /\ \A c \in BadgeIds : badges[c].replaces = badges[b].replaces => c = b

(* A badge that was once revoked never works again: activation serves only *)
(* badges that wait for it, and none of the three revocations leaves one   *)
(* waiting.                                                                *)
RevokedForGood ==
    [][\A b \in BadgeIds :
           badges[b].revokedAt # Never =>
               badges'[b].revokedAt # Never /\ ~badges'[b].enabled]_badges
=============================================================================
