-------------------------- MODULE BadgeLoginProofs --------------------------
(***************************************************************************)
(* Proofs about badges and badge logins, for any number of users, badges,  *)
(* clients, requests and grants and any clock.                             *)
(*                                                                         *)
(* That a grant opens one session is not inductive.  The invariant follows *)
(* a grant on its way: it is with one request, then in one file, then with *)
(* one helper, then in one session, and what it says agrees with the audit *)
(* row of its login everywhere.                                            *)
(***************************************************************************)
EXTENDS BadgeLogin, TLAPS

(* Leaves are proved by Zenon, unless they name their provers: SMT, and    *)
(* then Z3, where arithmetic or sequences matter; PTL for temporal steps.  *)
USE ZenonT(100)

-----------------------------------------------------------------------------
(* The transactions on badges *)

(* The columns of a badge agree: none works and waits, or was revoked and  *)
(* still works or waits; a replaced badge was revoked.                     *)
BadgeInv ==
    /\ Len(badges) <= MaxBadges
    /\ \A b \in BadgeIds :
           /\ badges[b].enabled => ~badges[b].pending
           /\ badges[b].revokedAt # Never => ~badges[b].enabled /\ ~badges[b].pending
           /\ badges[b].replaces # 0 => badges[badges[b].replaces].revokedAt # Never

RowsInv == BadgesTypeOK /\ BadgeInv /\ ReplacementsExclude

-----------------------------------------------------------------------------
(* What the type invariant says of one row.                                *)
LEMMA RowType ==
    ASSUME BadgesTypeOK, NEW b \in BadgeIds
    PROVE  /\ badges[b] \in Badge /\ b \in Nat \ {0} /\ b <= Len(badges) /\ Len(badges) \in Nat
           /\ badges[b].owner \in Users /\ badges[b].revokedAt \in Nat
           /\ badges[b].replaces \in Nat
<1>1. badges[b] \in Badge /\ b \in Nat \ {0} /\ b <= Len(badges) /\ Len(badges) \in Nat
  BY SMT, Z3 DEF BadgesTypeOK, BadgeIds
<1> QED
  BY SMT, Z3, <1>1, BadgeBounds DEF Badge, Never

(* What every transaction on badges keeps: owners stay, a badge that was   *)
(* revoked stays so, and revoked_at is set to the present or cleared.      *)
RowsKept ==
    /\ BadgesTypeOK' /\ BadgeInv' /\ ReplacementsExclude'
    /\ Len(badges) <= Len(badges')
    /\ \A b \in BadgeIds :
           /\ badges'[b].owner = badges[b].owner
           /\ badges'[b].revokedAt \in {badges[b].revokedAt, now, Never}
           /\ badges[b].revokedAt # Never => badges'[b] = badges[b]

(* The rows that a revocation and the activation write.                    *)
LEMMA RevokedRow ==
    ASSUME NEW row \in Badge, now \in 0 .. Never
    PROVE  /\ Revoked(row) \in Badge /\ Revoked(row).owner = row.owner
           /\ Revoked(row).replaces = row.replaces /\ Revoked(row).revokedAt = now
           /\ ~Revoked(row).enabled /\ ~Revoked(row).pending
<1> DEFINE r1 == [row EXCEPT !.enabled = FALSE]
           r2 == [r1 EXCEPT !.pending = FALSE]
           r3 == [r2 EXCEPT !.revokedAt = now]
<1>1. r1 \in Badge /\ r1.owner = row.owner /\ r1.replaces = row.replaces /\ r1.enabled = FALSE
  BY DEF Badge
<1> HIDE DEF r1
<1>2. r2 \in Badge /\ r2.owner = row.owner /\ r2.replaces = row.replaces /\ r2.enabled = FALSE
      /\ r2.pending = FALSE
  BY <1>1 DEF Badge
<1> HIDE DEF r2
<1>3. r3 \in Badge /\ r3.owner = row.owner /\ r3.replaces = row.replaces /\ r3.enabled = FALSE
      /\ r3.pending = FALSE /\ r3.revokedAt = now
  BY <1>2 DEF Badge
<1>4. r3 = Revoked(row)
  BY DEF Revoked, r1, r2
<1> HIDE DEF r3
<1> QED
  BY <1>3, <1>4

Activated(row) == [row EXCEPT !.enabled = TRUE, !.pending = FALSE, !.revokedAt = Never]

LEMMA ActivatedRow ==
    ASSUME NEW row \in Badge, Never \in 0 .. Never
    PROVE  /\ Activated(row) \in Badge /\ Activated(row).owner = row.owner
           /\ Activated(row).replaces = row.replaces /\ Activated(row).revokedAt = Never
           /\ Activated(row).enabled /\ ~Activated(row).pending
<1> DEFINE r1 == [row EXCEPT !.enabled = TRUE]
           r2 == [r1 EXCEPT !.pending = FALSE]
           r3 == [r2 EXCEPT !.revokedAt = Never]
<1>1. r1 \in Badge /\ r1.owner = row.owner /\ r1.replaces = row.replaces /\ r1.enabled = TRUE
  BY DEF Badge
<1> HIDE DEF r1
<1>2. r2 \in Badge /\ r2.owner = row.owner /\ r2.replaces = row.replaces /\ r2.enabled = TRUE
      /\ r2.pending = FALSE
  BY <1>1 DEF Badge
<1> HIDE DEF r2
<1>3. r3 \in Badge /\ r3.owner = row.owner /\ r3.replaces = row.replaces /\ r3.enabled = TRUE
      /\ r3.pending = FALSE /\ r3.revokedAt = Never
  BY <1>2 DEF Badge
<1>4. r3 = Activated(row)
  BY DEF Activated, r1, r2
<1> HIDE DEF r3
<1> QED
  BY <1>3, <1>4

(* A table with one row replaced.                                          *)
LEMMA ElementReplaced ==
    ASSUME NEW S, NEW rows \in Seq(S), NEW i \in 1 .. Len(rows), NEW row \in S
    PROVE  /\ [rows EXCEPT ![i] = row] \in Seq(S)
           /\ Len([rows EXCEPT ![i] = row]) = Len(rows)
           /\ \A j \in 1 .. Len(rows) :
                 [rows EXCEPT ![i] = row][j] = IF j = i THEN row ELSE rows[j]
BY SMT, Z3

(* A table with one row more.                                              *)
LEMMA ElementAdded ==
    ASSUME NEW S, NEW rows \in Seq(S), NEW row \in S
    PROVE  /\ Append(rows, row) \in Seq(S)
           /\ Len(Append(rows, row)) = Len(rows) + 1
           /\ \A j \in 1 .. Len(rows) : Append(rows, row)[j] = rows[j]
           /\ Append(rows, row)[Len(rows) + 1] = row
BY SMT, Z3

(* A row is changed in place.                                              *)
LEMMA RowChanged ==
    ASSUME RowsInv, UNCHANGED now, NEW b \in BadgeIds, NEW row \in Badge,
           badges' = [badges EXCEPT ![b] = row],
           row.owner = badges[b].owner, row.replaces = badges[b].replaces,
           row.revokedAt \in {now, Never}, ~row.pending,
           row.revokedAt = now => ~row.enabled,
           badges[b].revokedAt = Never
    PROVE  RowsKept
<1> USE DEF RowsInv
<1>1. badges \in Seq(Badge) /\ now \in Nat /\ now # Never /\ Len(badges) \in Nat
  BY SMT, Z3, BadgeBounds DEF BadgesTypeOK, Never
<1>2. /\ badges' \in Seq(Badge) /\ Len(badges') = Len(badges)
      /\ \A c \in BadgeIds : badges'[c] = IF c = b THEN row ELSE badges[c]
  BY SMT, Z3, <1>1, ElementReplaced DEF BadgeIds
<1>3. BadgesTypeOK' /\ BadgeIds' = BadgeIds
  BY <1>2 DEF BadgesTypeOK, BadgeIds
<1>4. \A c \in BadgeIds : badges'[c].replaces = badges[c].replaces /\ badges'[c].owner = badges[c].owner
  BY <1>2
<1>5. \A c \in BadgeIds : badges[c].replaces # 0 =>
          badges[c].replaces \in BadgeIds /\ badges[c].replaces # b
  <2>1. \A c \in BadgeIds : c \in Nat /\ c <= Len(badges) /\ badges[c].replaces \in Nat
    BY RowType DEF BadgesTypeOK
  <2> QED
    BY SMT, Z3, <1>1, <2>1 DEF ReplacementsExclude, BadgeInv, BadgeIds
<1>6. BadgeInv'
  BY SMT, Z3, <1>1, <1>2, <1>3, <1>4, <1>5 DEF BadgeInv
<1>7. ReplacementsExclude'
  BY SMT, Z3, <1>2, <1>3, <1>4, <1>5 DEF ReplacementsExclude
<1> QED
  BY SMT, Z3, <1>1, <1>2, <1>3, <1>4, <1>6, <1>7 DEF RowsKept

(* A row is added for a new badge.                                         *)
LEMMA CreateKeepsRows ==
    ASSUME RowsInv, UNCHANGED now, NEW u \in Users, CreateBadgeWithAudit(u)
    PROVE  RowsKept
<1> USE DEF RowsInv
<1>1. badges \in Seq(Badge) /\ now \in Nat /\ Len(badges) \in Nat
  BY SMT, Z3, BadgeBounds DEF BadgesTypeOK
<1>2. NewBadge(u) \in Badge /\ NewBadge(u).replaces = 0 /\ NewBadge(u).enabled
      /\ ~NewBadge(u).pending /\ NewBadge(u).revokedAt = Never
  BY SMT, Z3, BadgeBounds DEF NewBadge, Badge, Never
<1> DEFINE n == Len(badges) + 1
<1>3. /\ badges' \in Seq(Badge) /\ Len(badges') = n /\ n <= MaxBadges
      /\ \A c \in BadgeIds : badges'[c] = badges[c]
      /\ badges'[n] = NewBadge(u)
  <2>1. badges' = Append(badges, NewBadge(u)) /\ Len(badges) < MaxBadges
    BY DEF CreateBadgeWithAudit
  <2> QED
    BY SMT, Z3, <1>1, <1>2, <2>1, ElementAdded, BadgeBounds DEF BadgeIds
<1>4. BadgesTypeOK' /\ BadgeIds' = BadgeIds \cup {n}
  BY SMT, Z3, <1>1, <1>3 DEF BadgesTypeOK, BadgeIds
<1>5. \A c \in BadgeIds : badges[c].replaces # 0 => badges[c].replaces \in BadgeIds
  <2>1. \A c \in BadgeIds : c \in Nat /\ c <= Len(badges) /\ badges[c].replaces \in Nat
    BY RowType DEF BadgesTypeOK
  <2> QED
    BY SMT, Z3, <1>1, <2>1 DEF ReplacementsExclude, BadgeIds
<1>6. BadgeInv'
  BY SMT, Z3, <1>2, <1>3, <1>4, <1>5 DEF BadgeInv
<1>7. ReplacementsExclude'
  BY SMT, Z3, <1>2, <1>3, <1>4, <1>5 DEF ReplacementsExclude
<1> QED
  BY SMT, Z3, <1>1, <1>3, <1>4, <1>6, <1>7 DEF RowsKept

(* A badge is revoked and a row is added for its replacement.              *)
LEMMA ReplaceKeepsRows ==
    ASSUME RowsInv, UNCHANGED now, NEW b \in BadgeIds, ReplaceBadgePendingWithAudit(b)
    PROVE  RowsKept
<1> USE DEF RowsInv
<1>1. badges \in Seq(Badge) /\ now \in Nat /\ now # Never /\ Len(badges) \in Nat
      /\ badges[b] \in Badge /\ badges[b].enabled /\ badges[b].revokedAt = Never /\ b \in Nat \ {0}
      /\ b <= Len(badges)
  BY SMT, Z3, BadgeBounds, RowType DEF BadgesTypeOK, Never, ReplaceBadgePendingWithAudit, BadgeInv
<1> DEFINE n == Len(badges) + 1
           old == Revoked(badges[b])
           new == Replacement(b)
<1>2. old \in Badge /\ old.owner = badges[b].owner /\ old.replaces = badges[b].replaces
      /\ old.revokedAt = now /\ ~old.enabled /\ ~old.pending
  <2>1. now \in 0 .. Never
    BY SMT, Z3, BadgeBounds DEF BadgesTypeOK, Never
  <2> QED
    BY <1>1, <2>1, RevokedRow
<1>3. new \in Badge /\ new.owner = badges[b].owner /\ new.replaces = b
      /\ new.revokedAt = Never /\ ~new.enabled
  BY <1>1, RowType, BadgeBounds DEF Replacement, Badge, Never, BadgesTypeOK
<1> HIDE DEF old, new
<1>4. /\ badges' \in Seq(Badge) /\ Len(badges') = n /\ n <= MaxBadges
      /\ \A c \in BadgeIds : badges'[c] = IF c = b THEN old ELSE badges[c]
      /\ badges'[n] = new
  <2>1. badges' = Append([badges EXCEPT ![b] = old], new) /\ Len(badges) < MaxBadges
    BY DEF ReplaceBadgePendingWithAudit, old, new
  <2>2. /\ [badges EXCEPT ![b] = old] \in Seq(Badge)
        /\ Len([badges EXCEPT ![b] = old]) = Len(badges)
        /\ \A c \in BadgeIds : [badges EXCEPT ![b] = old][c] = IF c = b THEN old ELSE badges[c]
    BY SMT, Z3, <1>1, <1>2, ElementReplaced DEF BadgeIds
  <2> QED
    <3> DEFINE changed == [badges EXCEPT ![b] = old]
    <3> HIDE DEF changed
    <3>1. /\ changed \in Seq(Badge) /\ Len(changed) = Len(badges)
          /\ \A c \in BadgeIds : changed[c] = IF c = b THEN old ELSE badges[c]
          /\ badges' = Append(changed, new)
      BY <2>1, <2>2 DEF changed
    <3>2. changed \in Seq(Badge) /\ new \in Badge
      BY <1>3, <3>1
    <3>3. /\ Append(changed, new) \in Seq(Badge)
          /\ Len(Append(changed, new)) = Len(changed) + 1
          /\ \A c \in 1 .. Len(changed) : Append(changed, new)[c] = changed[c]
          /\ Append(changed, new)[Len(changed) + 1] = new
      BY <3>2, ElementAdded
    <3>4. Len(badges) + 1 <= MaxBadges
      BY SMT, Z3, <1>1, <2>1, BadgeBounds
    <3> QED
      BY <3>1, <3>3, <3>4 DEF BadgeIds
<1>5. BadgesTypeOK' /\ BadgeIds' = BadgeIds \cup {n}
  BY SMT, Z3, <1>1, <1>4 DEF BadgesTypeOK, BadgeIds
<1>6. \A c \in BadgeIds : badges[c].replaces # 0 =>
          badges[c].replaces \in BadgeIds /\ badges[c].replaces # b
  <2>1. \A c \in BadgeIds : c \in Nat /\ c <= Len(badges) /\ badges[c].replaces \in Nat
    BY RowType DEF BadgesTypeOK
  <2> QED
    BY SMT, Z3, <1>1, <2>1 DEF ReplacementsExclude, BadgeIds
<1>7. \A c \in BadgeIds : badges'[c].replaces = badges[c].replaces /\ badges'[c].owner = badges[c].owner
  BY <1>2, <1>4
<1>8. b # n /\ b < n /\ n \notin BadgeIds
  BY SMT, Z3, <1>1 DEF BadgeIds
<1>9. BadgeInv'
  <2>1. \A c \in BadgeIds :
            /\ badges'[c].enabled => ~badges'[c].pending
            /\ badges'[c].revokedAt # Never => ~badges'[c].enabled /\ ~badges'[c].pending
    BY <1>2, <1>4 DEF BadgeInv
  <2>2. badges'[b].revokedAt # Never
    BY <1>1, <1>2, <1>4
  <2>3. \A c \in BadgeIds : badges[c].replaces # 0 =>
            badges'[badges[c].replaces].revokedAt # Never
    BY <1>4, <1>6 DEF BadgeInv
  <2>4. ASSUME NEW c \in BadgeIds
        PROVE  /\ badges'[c].enabled => ~badges'[c].pending
               /\ badges'[c].revokedAt # Never => ~badges'[c].enabled /\ ~badges'[c].pending
               /\ badges'[c].replaces # 0 => badges'[badges'[c].replaces].revokedAt # Never
    BY <1>7, <2>1, <2>3
  <2>5. /\ badges'[n].enabled => ~badges'[n].pending
        /\ badges'[n].revokedAt # Never => ~badges'[n].enabled /\ ~badges'[n].pending
        /\ badges'[n].replaces # 0 => badges'[badges'[n].replaces].revokedAt # Never
    BY <1>3, <1>4, <2>2
  <2> QED
    BY <1>4, <1>5, <2>4, <2>5 DEF BadgeInv
<1>10. ReplacementsExclude'
  <2>1. ~badges'[b].enabled /\ badges'[b].owner = badges[b].owner
    BY <1>2, <1>4
  <2>2. \A c \in BadgeIds : badges[c].replaces # 0 =>
            /\ badges[c].replaces < c
            /\ badges'[badges[c].replaces].owner = badges[c].owner
            /\ ~badges'[badges[c].replaces].enabled
            /\ badges[c].replaces # b
            /\ \A d \in BadgeIds : badges[d].replaces = badges[c].replaces => d = c
    BY <1>2, <1>4, <1>6 DEF ReplacementsExclude
  <2>3. \A c \in BadgeIds : badges'[c].replaces # b
    BY <1>1, <1>6, <1>7
  <2> QED
    <3>1. ASSUME NEW c \in BadgeIds, badges'[c].replaces # 0
          PROVE  /\ badges'[c].replaces < c
                 /\ badges'[badges'[c].replaces].owner = badges'[c].owner
                 /\ ~badges'[badges'[c].replaces].enabled
                 /\ \A d \in BadgeIds \cup {n} : badges'[d].replaces = badges'[c].replaces => d = c
      <4>1. badges[c].replaces # 0 /\ badges'[c].replaces = badges[c].replaces
            /\ badges'[c].owner = badges[c].owner
        BY <1>7, <3>1
      <4>2. badges'[n].replaces # badges'[c].replaces
        BY <1>3, <1>4, <2>3
      <4>3. \A d \in BadgeIds : badges'[d].replaces = badges'[c].replaces => d = c
        BY <1>7, <2>2, <4>1
      <4> QED
        BY <2>2, <4>1, <4>2, <4>3
    <3>2. /\ badges'[n].replaces < n
          /\ badges'[badges'[n].replaces].owner = badges'[n].owner
          /\ ~badges'[badges'[n].replaces].enabled
          /\ \A d \in BadgeIds \cup {n} : badges'[d].replaces = badges'[n].replaces => d = n
      BY <1>3, <1>4, <1>8, <2>1, <2>3
    <3> QED
      BY <1>5, <3>1, <3>2 DEF ReplacementsExclude
<1> QED
  BY SMT, Z3, <1>1, <1>2, <1>4, <1>5, <1>9, <1>10 DEF RowsKept

(* Revocations and the activation change one row.                          *)
LEMMA ChangeKeepsRows ==
    ASSUME RowsInv, UNCHANGED now, NEW b \in BadgeIds, NEW u \in Users,
           \/ RevokeBadgeWithAudit(b)
           \/ RevokeActiveBadgeForUserWithAudit(b, u)
           \/ ActivatePendingBadgeForUserWithAudit(b, u)
    PROVE  RowsKept
<1> USE DEF RowsInv
<1>1. /\ badges[b] \in Badge /\ now \in 0 .. Never /\ Never \in 0 .. Never /\ now # Never
      /\ badges[b].enabled \in BOOLEAN /\ badges[b].pending \in BOOLEAN
  BY SMT, Z3, BadgeBounds, RowType DEF BadgesTypeOK, Never, Badge
<1>2. CASE RevokeBadgeWithAudit(b)
  <2> DEFINE row == Revoked(badges[b])
  <2>1. row \in Badge /\ row.owner = badges[b].owner /\ row.replaces = badges[b].replaces
        /\ ~row.enabled /\ ~row.pending /\ row.revokedAt = now
    BY <1>1, RevokedRow
  <2>2. badges' = [badges EXCEPT ![b] = row] /\ badges[b].revokedAt = Never
    BY <1>2 DEF RevokeBadgeWithAudit, BadgeInv
  <2> HIDE DEF row
  <2> QED
    BY <1>1, <2>1, <2>2, RowChanged
<1>3. CASE RevokeActiveBadgeForUserWithAudit(b, u)
  <2> DEFINE row == [badges[b] EXCEPT !.enabled = FALSE, !.revokedAt = now]
  <2>1. badges[b].enabled /\ ~badges[b].pending /\ badges[b].revokedAt = Never
    BY <1>3 DEF RevokeActiveBadgeForUserWithAudit, BadgeInv
  <2>2. row \in Badge /\ row.owner = badges[b].owner /\ row.replaces = badges[b].replaces
        /\ ~row.enabled /\ ~row.pending /\ row.revokedAt = now
    BY <1>1, <2>1 DEF Badge
  <2>3. badges' = [badges EXCEPT ![b] = row]
    BY <1>3 DEF RevokeActiveBadgeForUserWithAudit
  <2> HIDE DEF row
  <2> QED
    BY <1>1, <2>1, <2>2, <2>3, RowChanged
<1>4. CASE ActivatePendingBadgeForUserWithAudit(b, u)
  <2> DEFINE row == Activated(badges[b])
  <2>1. badges[b].pending /\ badges[b].revokedAt = Never
    BY <1>4 DEF ActivatePendingBadgeForUserWithAudit, BadgeInv
  <2>2. row \in Badge /\ row.owner = badges[b].owner /\ row.replaces = badges[b].replaces
        /\ row.enabled /\ ~row.pending /\ row.revokedAt = Never
    BY <1>1, ActivatedRow
  <2>3. badges' = [badges EXCEPT ![b] = row]
    BY <1>4 DEF ActivatePendingBadgeForUserWithAudit, Activated
  <2> HIDE DEF row
  <2> QED
    BY <1>1, <2>1, <2>2, <2>3, RowChanged
<1> QED
  BY <1>2, <1>3, <1>4

-----------------------------------------------------------------------------
(* A grant on its way *)

(* The audit row of a login names a badge, its owner and a past time.      *)
OriginInv ==
    \A g \in Grants :
        origin[g] # NoOrigin =>
            /\ origin[g].badge \in BadgeIds /\ origin[g].at <= now
            /\ origin[g].user = badges[origin[g].badge].owner
            /\ origin[g].at <= badges[origin[g].badge].revokedAt

(* The grant that a request has generated.                                 *)
Carries(h, g) == handler[h].pc \in {"recorded", "saved"} /\ handler[h].grant = g

HandlerInv ==
    /\ \A h \in Handlers :
           handler[h].pc # "idle" =>
               /\ handler[h].badge \in BadgeIds
               /\ handler[h].user = badges[handler[h].badge].owner
               /\ handler[h].pc # "checked" => handler[h].grant \in Grants
    /\ \A h \in Handlers, g \in Grants :
           Carries(h, g) =>
               /\ origin[g] # NoOrigin
               /\ origin[g].user = handler[h].user /\ origin[g].client = handler[h].client
               /\ handler[h].pc = "recorded" => grants[g] = NoGrant /\ certs[g] = 0
    /\ \A h, i \in Handlers, g \in Grants : Carries(h, g) /\ Carries(i, g) => h = i

(* A grant that can be redeemed says what its audit row says.              *)
GrantInv ==
    \A g \in Grants :
        grants[g] # NoGrant =>
            /\ origin[g] # NoOrigin /\ certs[g] = 0
            /\ grants[g].user = origin[g].user /\ grants[g].client = origin[g].client

InFile(c, g) == file[c] # NoFile /\ file[c].grant = g

InHelper(c, g) == pam[c].pc \in {"wait", "issued"} /\ pam[c].grant = g

InSession(g) == \E s \in sessions : s.grant = g

(* A grant is in one place.                                                *)
PlaceInv ==
    \A g \in Grants :
        /\ \A c \in Clients : InFile(c, g) \/ InHelper(c, g) => origin[g] # NoOrigin
        /\ InSession(g) => origin[g] # NoOrigin
        /\ \A h \in Handlers : Carries(h, g) =>
               ~InSession(g) /\ \A c \in Clients : ~InFile(c, g) /\ ~InHelper(c, g)
        /\ \A c, d \in Clients : ~(InFile(c, g) /\ InHelper(d, g))
        /\ \A c, d \in Clients : InFile(c, g) /\ InFile(d, g) => c = d
        /\ \A c, d \in Clients : InHelper(c, g) /\ InHelper(d, g) => c = d
        /\ \A c \in Clients : InFile(c, g) \/ InHelper(c, g) => ~InSession(g)

(* A helper with a certificate, and a session, stand for the login in the  *)
(* audit row.                                                              *)
CertInv ==
    /\ \A g \in Grants : certs[g] <= 1
    /\ \A c \in Clients :
           pam[c].pc = "issued" =>
               /\ certs[pam[c].grant] = 1
               /\ pam[c].name = origin[pam[c].grant].user
               /\ origin[pam[c].grant].client = HelperClient[c]
    /\ \A s \in sessions :
           /\ certs[s.grant] = 1 /\ origin[s.grant].user = s.user
           /\ origin[s.grant].client = HelperClient[s.client]
    /\ \A s, t \in sessions : s.grant = t.grant => s = t

(* A grant that no request has generated yet is nowhere.                   *)
FreshInv == \A g \in Grants : origin[g] = NoOrigin => certs[g] = 0

LoginInv ==
    /\ TypeOK /\ BadgeInv /\ ReplacementsExclude /\ OriginInv /\ HandlerInv /\ GrantInv
    /\ PlaceInv /\ CertInv /\ FreshInv

-----------------------------------------------------------------------------
(* Steps that leave the badges and the clock alone.                        *)
LEMMA BadgesUntouched ==
    ASSUME LoginInv, UNCHANGED <<badges, now>>
    PROVE  BadgesTypeOK' /\ BadgeInv' /\ ReplacementsExclude'
BY DEF LoginInv, TypeOK, BadgesTypeOK, BadgeInv, ReplacementsExclude, BadgeIds

(* Steps of the server leave a grant where the clients have it, and give a *)
(* request only what it had or what is new.                                *)
LEMMA PlacesUntouched ==
    ASSUME PlaceInv, UNCHANGED <<file, pam, sessions>>,
           \A g \in Grants : origin[g] # NoOrigin => origin'[g] # NoOrigin,
           \A h \in Handlers, g \in Grants :
               Carries(h, g)' => Carries(h, g) \/ origin[g] = NoOrigin
    PROVE  PlaceInv'
<1>1. \A c \in Clients, g \in Grants : InFile(c, g)' = InFile(c, g) /\ InHelper(c, g)' = InHelper(c, g)
  BY DEF InFile, InHelper
<1>2. \A g \in Grants : InSession(g)' = InSession(g)
  BY DEF InSession
<1> QED
  BY SMT, Z3, <1>1, <1>2 DEF PlaceInv

(* The authentication handler reads the badge.                             *)
LEMMA AuthReadKeeps ==
    ASSUME LoginInv, NEW h \in Handlers, NEW b \in BadgeIds, NEW c \in Clients,
           AuthRead(h, b, c)
    PROVE  LoginInv'
<1> USE DEF LoginInv
<1>1. UNCHANGED <<badges, now, grants, origin, certs, file, pam, posted, sessions>>
  BY DEF AuthRead, clientVars
<1>2. BadgesTypeOK' /\ BadgeInv' /\ ReplacementsExclude'
  BY <1>1, BadgesUntouched
<1>3. b \in 1 .. MaxBadges /\ badges[b] \in Badge /\ badges[b].owner \in Users
  BY SMT, Z3, BadgeBounds, RowType DEF TypeOK, BadgeInv
<1>4. handler' = [handler EXCEPT ![h] =
          [pc |-> "checked", badge |-> b, user |-> badges[b].owner, client |-> c,
           grant |-> "none"]]
  BY DEF AuthRead
<1>5. TypeOK'
  BY <1>1, <1>2, <1>3, <1>4 DEF TypeOK, Handler
<1>6. \A i \in Handlers, g \in Grants : Carries(i, g)' => Carries(i, g) /\ handler'[i] = handler[i]
  BY <1>4 DEF Carries, TypeOK
<1>7. OriginInv' /\ GrantInv' /\ CertInv' /\ FreshInv'
  BY <1>1 DEF OriginInv, GrantInv, CertInv, FreshInv, BadgeIds
<1>8. HandlerInv'
  BY SMT, Z3, <1>1, <1>4, <1>6 DEF HandlerInv, BadgeIds, TypeOK
<1>9. PlaceInv'
  BY <1>1, <1>6, PlacesUntouched
<1> QED
  BY <1>2, <1>5, <1>7, <1>8, <1>9

(* The login is recorded, or refused because the badge is gone.            *)
LEMMA RecordKeeps ==
    ASSUME LoginInv, NEW h \in Handlers, NEW g \in Grants,
           RecordBadgeAuthenticationSuccess(h, g)
    PROVE  LoginInv'
<1> USE DEF LoginInv
<1>1. UNCHANGED <<badges, now, grants, certs, file, pam, posted, sessions>>
  BY DEF RecordBadgeAuthenticationSuccess, clientVars
<1>2. BadgesTypeOK' /\ BadgeInv' /\ ReplacementsExclude'
  BY <1>1, BadgesUntouched
<1>3. handler[h] \in Handler /\ handler[h].pc = "checked" /\ origin[g] = NoOrigin
  BY SMT, Z3 DEF RecordBadgeAuthenticationSuccess, Fresh, TypeOK, Idle
<1>4. CASE ~badges[handler[h].badge].enabled
  <2>1. UNCHANGED origin /\ handler' = [handler EXCEPT ![h] = Idle]
    BY <1>4 DEF RecordBadgeAuthenticationSuccess
  <2>2. TypeOK'
    BY <1>1, <1>2, <2>1 DEF TypeOK
  <2>3. \A i \in Handlers, e \in Grants : Carries(i, e)' => Carries(i, e) /\ handler'[i] = handler[i]
    BY <2>1 DEF Carries, TypeOK, Idle
  <2>4. OriginInv' /\ GrantInv' /\ CertInv' /\ FreshInv'
    BY <1>1, <2>1 DEF OriginInv, GrantInv, CertInv, FreshInv, BadgeIds
  <2>5. HandlerInv'
    BY SMT, Z3, <1>1, <2>1, <2>3 DEF HandlerInv, BadgeIds, TypeOK, Idle
  <2>6. PlaceInv'
    BY <1>1, <2>1, <2>3, PlacesUntouched
  <2> QED
    BY <1>2, <2>2, <2>4, <2>5, <2>6
<1>5. CASE badges[handler[h].badge].enabled
  <2>1. /\ handler' = [handler EXCEPT ![h].pc = "recorded", ![h].grant = g]
        /\ origin' = [origin EXCEPT ![g] = Row(h)]
    BY <1>5 DEF RecordBadgeAuthenticationSuccess, Accept
  <2>2. /\ handler[h].badge \in BadgeIds /\ handler[h].badge \in 1 .. MaxBadges
        /\ handler[h].user = badges[handler[h].badge].owner
        /\ badges[handler[h].badge].revokedAt = Never
    BY <1>3, <1>5 DEF HandlerInv, BadgeInv, Handler
  <2>3. Row(h) \in Origin
    BY <1>3 DEF Row, Origin, Handler, TypeOK, BadgesTypeOK
  <2>4. Row(h) # NoOrigin
    BY <1>3 DEF Row, NoOrigin, Handler
  <2>5. handler'[h] \in Handler
    BY <1>3, <2>1 DEF TypeOK, Handler
  <2>6. TypeOK'
    BY <1>1, <1>2, <2>1, <2>3, <2>5 DEF TypeOK
  <2>7. OriginInv'
    <3>1. Row(h).badge = handler[h].badge /\ Row(h).at = now /\ Row(h).user = handler[h].user
      BY DEF Row
    <3>2. now <= Never
      BY SMT, Z3, BadgeBounds DEF TypeOK, BadgesTypeOK, Never
    <3>3. now \in Nat
      BY SMT, Z3, BadgeBounds DEF TypeOK, BadgesTypeOK
    <3> QED
      <4>1. origin'[g] = Row(h) /\ \A e \in Grants \ {g} : origin'[e] = origin[e]
        BY <2>1 DEF TypeOK
      <4>2. now <= now
        BY SMT, Z3, <3>3
      <4> QED
        BY <1>1, <2>2, <3>1, <3>2, <4>1, <4>2 DEF OriginInv, BadgeIds
  <2>8. grants[g] = NoGrant /\ certs[g] = 0
    BY <1>3 DEF GrantInv, FreshInv
  <2>9. \A i \in Handlers, e \in Grants :
            Carries(i, e)' => \/ i = h /\ e = g
                              \/ i # h /\ e # g /\ Carries(i, e) /\ handler'[i] = handler[i]
    <3>1. \A i \in Handlers : ~Carries(i, g)
      BY <1>3 DEF HandlerInv
    <3>2. handler'[h].grant = g /\ \A i \in Handlers \ {h} : handler'[i] = handler[i]
      BY <1>3, <2>1 DEF TypeOK, Handler
    <3> QED
      BY <3>1, <3>2 DEF Carries
  <2>10. HandlerInv'
    <3>1. handler'[h].pc = "recorded" /\ handler'[h].badge = handler[h].badge
          /\ handler'[h].grant = g
          /\ handler'[h].user = handler[h].user /\ handler'[h].client = handler[h].client
          /\ \A i \in Handlers \ {h} : handler'[i] = handler[i]
      BY <1>3, <2>1 DEF TypeOK, Handler
    <3>2. origin'[g] # NoOrigin /\ origin'[g].user = handler[h].user
          /\ origin'[g].client = handler[h].client
          /\ \A e \in Grants \ {g} : origin'[e] = origin[e]
      BY <2>1, <2>4 DEF TypeOK, Row
    <3> QED
      <4>1. ASSUME NEW i \in Handlers, handler'[i].pc # "idle"
            PROVE  /\ handler'[i].badge \in BadgeIds'
                   /\ handler'[i].user = badges'[handler'[i].badge].owner
                   /\ handler'[i].pc # "checked" => handler'[i].grant \in Grants
        <5>1. CASE i = h
          BY <1>1, <2>2, <3>1, <5>1 DEF BadgeIds
        <5>2. CASE i # h
          <6>1. handler'[i] = handler[i]
            BY <3>1, <5>2
          <6> QED
            BY <1>1, <4>1, <6>1 DEF HandlerInv, BadgeIds
        <5> QED
          BY <5>1, <5>2
      <4>2. ASSUME NEW i \in Handlers, NEW e \in Grants, Carries(i, e)'
            PROVE  /\ origin'[e] # NoOrigin
                   /\ origin'[e].user = handler'[i].user /\ origin'[e].client = handler'[i].client
                   /\ handler'[i].pc = "recorded" => grants'[e] = NoGrant /\ certs'[e] = 0
        <5>1. CASE i = h /\ e = g
          BY <1>1, <2>8, <3>1, <3>2, <5>1
        <5>2. CASE e # g /\ Carries(i, e) /\ handler'[i] = handler[i]
          <6>1. origin'[e] = origin[e]
            BY <3>2, <5>2
          <6>2. /\ origin[e] # NoOrigin
                /\ origin[e].user = handler[i].user /\ origin[e].client = handler[i].client
                /\ handler[i].pc = "recorded" => grants[e] = NoGrant /\ certs[e] = 0
            BY <5>2 DEF HandlerInv
          <6> QED
            BY <1>1, <5>2, <6>1, <6>2
        <5> QED
          BY <2>9, <4>2, <5>1, <5>2
      <4>3. \A i, k \in Handlers, e \in Grants : Carries(i, e)' /\ Carries(k, e)' => i = k
        BY <2>9 DEF HandlerInv
      <4> QED
        BY <4>1, <4>2, <4>3 DEF HandlerInv
  <2>11. GrantInv'
    BY <1>1, <2>1, <2>8 DEF GrantInv, TypeOK
  <2>12. PlaceInv'
    <3>1. \A e \in Grants : origin[e] # NoOrigin => origin'[e] # NoOrigin
      BY <2>1, <2>4 DEF TypeOK
    <3> QED
      BY <1>1, <1>3, <2>9, <3>1, PlacesUntouched
  <2>13. CertInv'
    <3>1. \A e \in Grants : certs[e] = 1 => origin'[e] = origin[e]
      BY SMT, Z3, <1>3, <2>1, <2>8 DEF TypeOK
    <3>2. \A c \in Clients : pam[c].pc = "issued" => pam[c].grant \in Grants
      BY SMT, Z3 DEF TypeOK, Helper, Idle
    <3>3. \A t \in sessions : t.grant \in Grants
      BY DEF TypeOK
    <3> QED
      BY SMT, Z3, <1>1, <3>1, <3>2, <3>3 DEF CertInv
  <2>14. FreshInv'
    BY <1>1, <2>1, <2>8 DEF FreshInv, TypeOK
  <2> QED
    BY <1>2, <2>6, <2>7, <2>10, <2>11, <2>12, <2>13, <2>14
<1> QED
  BY <1>4, <1>5

(* The grant is saved, and expired ones are removed.                       *)
LEMMA SaveKeeps ==
    ASSUME LoginInv, NEW h \in Handlers, saveLoginGrant(h)
    PROVE  LoginInv'
<1> USE DEF LoginInv
<1>1. UNCHANGED <<badges, now, origin, certs, file, pam, posted, sessions>>
  BY DEF saveLoginGrant, clientVars
<1>2. BadgesTypeOK' /\ BadgeInv' /\ ReplacementsExclude'
  BY <1>1, BadgesUntouched
<1>3. handler[h] \in Handler /\ handler[h].pc = "recorded" /\ handler[h].grant \in Grants
  BY SMT, Z3 DEF saveLoginGrant, TypeOK, Idle, HandlerInv
<1> DEFINE g == handler[h].grant
           saved == [user |-> handler[h].user, client |-> handler[h].client,
                     expires |-> now + GrantLifetime]
<1>4. /\ grants' \in [Grants -> {grants'[e] : e \in Grants}] /\ grants'[g] = saved
      /\ \A e \in Grants \ {g} : grants'[e] \in {grants[e], NoGrant}
  BY <1>3 DEF saveLoginGrant
<1>5. saved \in Grant /\ saved.user = handler[h].user /\ saved.client = handler[h].client
  BY SMT, Z3, <1>3, LoginAssumption, BadgeBounds DEF Handler, Grant, TypeOK, BadgesTypeOK
<1>6. /\ handler' = [handler EXCEPT ![h].pc = "saved"]
      /\ handler'[h] \in Handler /\ handler'[h].pc = "saved"
      /\ handler'[h].badge = handler[h].badge /\ handler'[h].user = handler[h].user
      /\ handler'[h].client = handler[h].client /\ handler'[h].grant = handler[h].grant
      /\ \A i \in Handlers \ {h} : handler'[i] = handler[i]
  BY <1>3 DEF saveLoginGrant, TypeOK, Handler
<1>7. TypeOK'
  <2>1. grants' \in [Grants -> Grant \cup {NoGrant}]
    <3> HIDE DEF saved
    <3> QED
      BY <1>4, <1>5 DEF TypeOK
  <2> QED
    BY <1>1, <1>2, <1>6, <2>1 DEF TypeOK
<1>8. \A i \in Handlers, e \in Grants :
          /\ Carries(i, e)' => Carries(i, e)
          /\ Carries(i, e)' /\ i # h => e # g
  <2>1. \A i \in Handlers, e \in Grants : Carries(i, e)' => Carries(i, e)
    BY <1>3, <1>6 DEF Carries
  <2>2. Carries(h, g)
    BY <1>3 DEF Carries
  <2> QED
    BY <1>3, <2>1, <2>2 DEF HandlerInv
<1>9. origin[g] # NoOrigin /\ origin[g].user = handler[h].user
      /\ origin[g].client = handler[h].client /\ certs[g] = 0
  BY <1>3 DEF HandlerInv, Carries
<1>10. HandlerInv'
  <2>1. \A i \in Handlers : handler'[i].pc # "idle" =>
            /\ handler'[i].badge \in BadgeIds
            /\ handler'[i].user = badges[handler'[i].badge].owner
            /\ handler'[i].pc # "checked" => handler'[i].grant \in Grants
    BY SMT, Z3, <1>3, <1>6 DEF HandlerInv
  <2>2. \A i \in Handlers, e \in Grants : Carries(i, e)' =>
            /\ origin[e] # NoOrigin
            /\ origin[e].user = handler'[i].user /\ origin[e].client = handler'[i].client
            /\ handler'[i].pc = "recorded" => grants'[e] = NoGrant /\ certs[e] = 0
    BY SMT, Z3, <1>3, <1>4, <1>6, <1>8 DEF HandlerInv
  <2> QED
    BY <1>1, <1>8, <2>1, <2>2 DEF HandlerInv, BadgeIds
<1>11. GrantInv'
  <2>1. \A e \in Grants \ {g} : grants'[e] # NoGrant => grants'[e] = grants[e]
    BY <1>4
  <2> QED
    BY <1>1, <1>3, <1>4, <1>5, <1>9, <2>1 DEF GrantInv
<1>12. PlaceInv' /\ OriginInv' /\ CertInv' /\ FreshInv'
  BY <1>1, <1>8, PlacesUntouched DEF OriginInv, CertInv, FreshInv, BadgeIds
<1> QED
  BY <1>2, <1>7, <1>10, <1>11, <1>12

(* A restart forgets grants and requests.                                  *)
LEMMA RestartKeeps ==
    ASSUME LoginInv, ServerRestart
    PROVE  LoginInv'
<1> USE DEF LoginInv
<1>1. UNCHANGED <<badges, now, origin, certs, file, pam, sessions>>
  BY DEF ServerRestart
<1>2. BadgesTypeOK' /\ BadgeInv' /\ ReplacementsExclude'
  BY <1>1, BadgesUntouched
<1>3. TypeOK'
  BY <1>1, <1>2 DEF TypeOK, ServerRestart
<1>4. \A h \in Handlers : handler'[h] = Idle
  BY DEF ServerRestart
<1>5. \A h \in Handlers, g \in Grants : ~Carries(h, g)'
  BY SMT, Z3, <1>4 DEF Carries, Idle
<1>6. HandlerInv' /\ GrantInv'
  BY <1>4, <1>5 DEF HandlerInv, GrantInv, ServerRestart, Idle
<1>7. PlaceInv' /\ OriginInv' /\ CertInv' /\ FreshInv'
  BY <1>1, <1>5, PlacesUntouched DEF OriginInv, CertInv, FreshInv, BadgeIds
<1> QED
  BY <1>2, <1>3, <1>6, <1>7

LEMMA TickKeeps ==
    ASSUME LoginInv, Tick
    PROVE  LoginInv'
<1> USE DEF LoginInv
<1>1. UNCHANGED <<badges, handler, grants, origin, certs, file, pam, posted, sessions>>
  BY DEF Tick, serverVars, clientVars
<1>2. now' \in 0 .. MaxTime /\ now' = now + 1
  BY SMT, Z3, BadgeBounds DEF Tick, TypeOK, BadgesTypeOK
<1>3. TypeOK'
  BY <1>1, <1>2 DEF TypeOK, BadgesTypeOK
<1>4. BadgeInv' /\ ReplacementsExclude'
  BY <1>1 DEF BadgeInv, ReplacementsExclude, BadgeIds
<1>5. OriginInv'
  <2>1. \A g \in Grants : origin[g] # NoOrigin => origin[g].at \in Nat
    BY SMT, Z3, BadgeBounds DEF TypeOK, Origin
  <2> QED
    <3>1. now \in Nat
      BY SMT, Z3, BadgeBounds DEF TypeOK, BadgesTypeOK
    <3>2. \A t \in Nat : t <= now => t <= now'
      BY SMT, Z3, <1>2, <3>1
    <3> QED
      BY <1>1, <2>1, <3>2 DEF OriginInv, BadgeIds
<1>6. HandlerInv' /\ GrantInv' /\ PlaceInv' /\ CertInv' /\ FreshInv'
  BY SMT, Z3, <1>1
  DEF HandlerInv, GrantInv, PlaceInv, CertInv, FreshInv, Carries, InFile, InHelper,
      InSession, BadgeIds
<1> QED
  BY <1>3, <1>4, <1>5, <1>6

(* Steps of the clients leave the server alone.                            *)
LEMMA ServerUntouched ==
    ASSUME LoginInv, UNCHANGED <<badges, now, handler, grants, origin, certs>>
    PROVE  /\ BadgesTypeOK' /\ BadgeInv' /\ ReplacementsExclude'
           /\ OriginInv' /\ HandlerInv' /\ GrantInv' /\ FreshInv'
           /\ \A h \in Handlers, g \in Grants : Carries(h, g)' = Carries(h, g)
<1>1. \A h \in Handlers, g \in Grants : Carries(h, g)' = Carries(h, g)
  BY DEF Carries
<1>2. HandlerInv'
  BY <1>1 DEF HandlerInv, BadgeIds, LoginInv
<1> QED
  BY <1>1, <1>2, BadgesUntouched
     DEF OriginInv, GrantInv, FreshInv, BadgeIds, LoginInv

(* The greeter takes the grant over from the request.                      *)
LEMMA GreeterKeeps ==
    ASSUME LoginInv, NEW h \in Handlers, NEW heard \in BOOLEAN, GreeterAnswer(h, heard)
    PROVE  LoginInv'
<1> USE DEF LoginInv
<1>1. UNCHANGED <<badges, now, grants, origin, certs, pam, posted, sessions>>
      /\ handler' = [handler EXCEPT ![h] = Idle]
  BY DEF GreeterAnswer
<1>2. BadgesTypeOK' /\ BadgeInv' /\ ReplacementsExclude'
  BY <1>1, BadgesUntouched
<1>3. handler[h] \in Handler /\ handler[h].pc = "saved" /\ handler[h].grant \in Grants
      /\ handler[h].client \in Clients /\ handler[h].user \in Users
  BY SMT, Z3 DEF GreeterAnswer, TypeOK, Idle, HandlerInv, Handler
<1> DEFINE g == handler[h].grant
           left == [user |-> handler[h].user, grant |-> g]
<1>4. file' = IF heard THEN [file EXCEPT ![handler[h].client] = left] ELSE file
  BY DEF GreeterAnswer
<1>5. TypeOK'
  BY <1>1, <1>2, <1>3, <1>4 DEF TypeOK
<1>6. \A i \in Handlers, e \in Grants :
          Carries(i, e)' => i # h /\ e # g /\ Carries(i, e) /\ handler'[i] = handler[i]
  <2>1. \A i \in Handlers, e \in Grants :
            Carries(i, e)' => i # h /\ Carries(i, e) /\ handler'[i] = handler[i]
    BY <1>1 DEF Carries, TypeOK, Idle
  <2>2. Carries(h, g)
    BY <1>3 DEF Carries
  <2> QED
    BY SMT, Z3, <1>3, <2>1, <2>2 DEF HandlerInv
<1>7. HandlerInv'
  <2>1. \A i \in Handlers : handler'[i].pc # "idle" => handler'[i] = handler[i]
    BY <1>1 DEF TypeOK, Idle
  <2>2. ASSUME NEW i \in Handlers, handler'[i].pc # "idle"
        PROVE  /\ handler'[i].badge \in BadgeIds'
               /\ handler'[i].user = badges'[handler'[i].badge].owner
               /\ handler'[i].pc # "checked" => handler'[i].grant \in Grants
    BY <1>1, <2>1, <2>2 DEF HandlerInv, BadgeIds
  <2>3. ASSUME NEW i \in Handlers, NEW e \in Grants, Carries(i, e)'
        PROVE  /\ origin'[e] # NoOrigin
               /\ origin'[e].user = handler'[i].user /\ origin'[e].client = handler'[i].client
               /\ handler'[i].pc = "recorded" => grants'[e] = NoGrant /\ certs'[e] = 0
    <3>1. Carries(i, e) /\ handler'[i] = handler[i] /\ origin'[e] = origin[e]
      BY <1>1, <1>6, <2>3
    <3>2. /\ origin[e] # NoOrigin
          /\ origin[e].user = handler[i].user /\ origin[e].client = handler[i].client
          /\ handler[i].pc = "recorded" => grants[e] = NoGrant /\ certs[e] = 0
      BY <3>1 DEF HandlerInv
    <3> QED
      BY <1>1, <3>1, <3>2
  <2>4. \A i, k \in Handlers, e \in Grants : Carries(i, e)' /\ Carries(k, e)' => i = k
    BY <1>6 DEF HandlerInv
  <2> QED
    BY <2>2, <2>3, <2>4 DEF HandlerInv
<1>8. OriginInv' /\ GrantInv' /\ CertInv' /\ FreshInv'
  BY <1>1 DEF OriginInv, GrantInv, CertInv, FreshInv, BadgeIds
<1>9. PlaceInv'
  <2>1. \A c \in Clients, e \in Grants : InFile(c, e)' =>
            \/ c = handler[h].client /\ e = g
            \/ e # g /\ InFile(c, e)
    <3>1. \A c \in Clients : ~InFile(c, g)
      BY <1>3 DEF PlaceInv, Carries
    <3>2. \A c \in Clients : file'[c] = file[c] \/ (c = handler[h].client /\ file'[c] = left)
      <4> HIDE DEF left
      <4> QED
        BY <1>3, <1>4 DEF TypeOK
    <3> QED
      BY SMT, Z3, <3>1, <3>2 DEF InFile
  <2>2. \A c \in Clients, e \in Grants : InHelper(c, e)' = InHelper(c, e)
    BY <1>1 DEF InHelper
  <2>3. \A e \in Grants : InSession(e)' = InSession(e)
    BY <1>1 DEF InSession
  <2>4. origin[g] # NoOrigin /\ ~InSession(g) /\ \A c \in Clients : ~InHelper(c, g)
    <3>1. Carries(h, g)
      BY <1>3 DEF Carries
    <3> QED
      BY <1>3, <3>1 DEF PlaceInv, HandlerInv
  <2> HIDE DEF g
  <2> QED
    BY SMT, Z3, <1>1, <1>6, <2>1, <2>2, <2>3, <2>4 DEF PlaceInv
<1> QED
  BY <1>2, <1>5, <1>7, <1>8, <1>9

(* The helper takes the grant over from the file.                          *)
LEMMA HelperStartKeeps ==
    ASSUME LoginInv, NEW c \in Clients, NEW u \in Users, HelperStart(c, u)
    PROVE  LoginInv'
<1> USE DEF LoginInv
<1>1. UNCHANGED <<badges, now, handler, grants, origin, certs, sessions>>
      /\ file' = [file EXCEPT ![c] = NoFile]
  BY DEF HelperStart, serverVars
<1>2. pam[c] = Idle /\ file[c] # NoFile /\ file[c] \in [user : Users, grant : Grants]
  BY DEF HelperStart, TypeOK
<1> DEFINE g == file[c].grant
           wait == [pc |-> "wait", user |-> u, grant |-> g]
<1>3. \/ pam' = [pam EXCEPT ![c] = wait]
         /\ posted' = posted \cup {[client |-> HelperClient[c], grant |-> g]}
      \/ UNCHANGED <<pam, posted>>
  BY DEF HelperStart
<1>4. wait \in Helper
  BY <1>2 DEF Helper
<1>5. /\ BadgesTypeOK' /\ BadgeInv' /\ ReplacementsExclude'
      /\ OriginInv' /\ HandlerInv' /\ GrantInv' /\ FreshInv'
      /\ \A h \in Handlers, e \in Grants : Carries(h, e)' = Carries(h, e)
  BY <1>1, ServerUntouched
<1>6. TypeOK'
  <2>1. [client |-> HelperClient[c], grant |-> g] \in [client : Clients, grant : Grants]
    BY <1>2, HelperAssumption
  <2>2. file' \in [Clients -> [user : Users, grant : Grants] \cup {NoFile}]
    BY <1>1 DEF TypeOK
  <2> HIDE DEF wait
  <2> QED
    BY SMT, Z3, <1>1, <1>3, <1>4, <1>5, <2>1, <2>2 DEF TypeOK
<1>7. \A d \in Clients : pam'[d] = pam[d] \/ (d = c /\ pam'[d] = wait)
  <2> HIDE DEF wait
  <2> QED
    BY <1>3 DEF TypeOK
<1>8. CertInv'
  BY SMT, Z3, <1>1, <1>7 DEF CertInv
<1>9. PlaceInv'
  <2>1. \A d \in Clients, e \in Grants : InFile(d, e)' => InFile(d, e) /\ d # c
    BY <1>1 DEF InFile, TypeOK, NoFile
  <2>2. \A d \in Clients, e \in Grants :
            InHelper(d, e)' => InHelper(d, e) \/ (d = c /\ e = g)
    BY SMT, Z3, <1>7 DEF InHelper
  <2>3. \A e \in Grants : InSession(e)' = InSession(e)
    BY <1>1 DEF InSession
  <2>4. InFile(c, g) /\ g \in Grants
    BY <1>2 DEF InFile
  <2> HIDE DEF g
  <2> QED
    BY SMT, Z3, <1>1, <1>5, <2>1, <2>2, <2>3, <2>4 DEF PlaceInv
<1> QED
  BY <1>5, <1>6, <1>8, <1>9

(* What the server's answer does to the helpers that wait for it.          *)
LEMMA IssueStep ==
    ASSUME LoginInv, NEW m \in posted, IssuePKINIT(m)
    PROVE  /\ m.grant \in Grants /\ m.client \in Clients
           /\ UNCHANGED <<badges, now, handler, origin, file, sessions>>
           /\ posted' = posted \ {m} /\ grants' = [grants EXCEPT ![m.grant] = NoGrant]
           /\ \/ /\ Redeemable(m) /\ certs' = [certs EXCEPT ![m.grant] = @ + 1]
                 /\ pam' = [c \in Clients |->
                        IF c \in Waiting(m)
                          THEN [pc |-> "issued", user |-> pam[c].user, grant |-> m.grant,
                                name |-> grants[m.grant].user]
                          ELSE pam[c]]
              \/ /\ UNCHANGED certs
                 /\ pam' = [c \in Clients |-> IF c \in Waiting(m) THEN Idle ELSE pam[c]]
<1>1. m.grant \in Grants /\ m.client \in Clients
  BY DEF LoginInv, TypeOK
<1> QED
  BY <1>1 DEF IssuePKINIT, Answer

(* The grant is redeemed, or refused and gone.                             *)
LEMMA IssueKeeps ==
    ASSUME LoginInv, NEW m \in posted, IssuePKINIT(m)
    PROVE  LoginInv'
<1> USE DEF LoginInv
<1> DEFINE g == m.grant
<1>1. /\ g \in Grants /\ m.client \in Clients
      /\ UNCHANGED <<badges, now, handler, origin, file, sessions>>
      /\ posted' = posted \ {m} /\ grants' = [grants EXCEPT ![g] = NoGrant]
  BY IssueStep
<1>2. BadgesTypeOK' /\ BadgeInv' /\ ReplacementsExclude'
  BY <1>1, BadgesUntouched
<1>3. \A c \in Waiting(m) : c \in Clients /\ pam[c].pc = "wait" /\ pam[c].grant = g
                            /\ HelperClient[c] = m.client /\ pam[c].user \in Users
  BY SMT, Z3 DEF Waiting, TypeOK, Helper, Idle
<1>4. \A h \in Handlers, e \in Grants : Carries(h, e)' = Carries(h, e)
  BY <1>1 DEF Carries
<1>5. \A e \in Grants : InSession(e)' = InSession(e) /\ \A c \in Clients : InFile(c, e)' = InFile(c, e)
  BY <1>1 DEF InSession, InFile
<1>6. grants' \in [Grants -> Grant \cup {NoGrant}] /\ posted' \in SUBSET [client : Clients, grant : Grants]
  BY <1>1 DEF TypeOK
<1>7. GrantInv' /\ OriginInv'
  <2>1. certs' = certs \/ \A e \in Grants \ {g} : certs'[e] = certs[e]
    BY IssueStep DEF TypeOK
  <2>2. \A e \in Grants : grants'[e] # NoGrant => e # g /\ grants'[e] = grants[e]
    BY <1>1 DEF TypeOK
  <2> QED
    BY <1>1, <2>1, <2>2 DEF GrantInv, OriginInv, BadgeIds
<1>8. ASSUME UNCHANGED certs,
             pam' = [c \in Clients |-> IF c \in Waiting(m) THEN Idle ELSE pam[c]]
      PROVE  LoginInv'
  <2>1. TypeOK'
    BY <1>1, <1>2, <1>6, <1>8 DEF TypeOK
  <2>2. \A c \in Clients : pam'[c] = pam[c] \/ pam'[c] = Idle
    BY <1>8
  <2>3. \A c \in Clients, e \in Grants : InHelper(c, e)' => InHelper(c, e)
    BY SMT, Z3, <2>2 DEF InHelper, Idle
  <2>4. PlaceInv'
    BY <1>1, <1>4, <1>5, <2>3 DEF PlaceInv
  <2>5. CertInv' /\ FreshInv'
    BY <1>1, <1>8, <2>2 DEF CertInv, FreshInv, Idle
  <2>6. HandlerInv'
    <3>1. \A e \in Grants : grants[e] = NoGrant => grants'[e] = NoGrant
      BY <1>1 DEF TypeOK
    <3> QED
      BY <1>1, <1>4, <1>8, <3>1 DEF HandlerInv, BadgeIds
  <2> QED
    BY <1>2, <1>7, <2>1, <2>4, <2>5, <2>6
<1>9. ASSUME Redeemable(m), certs' = [certs EXCEPT ![g] = @ + 1],
             pam' = [c \in Clients |->
                 IF c \in Waiting(m)
                   THEN [pc |-> "issued", user |-> pam[c].user, grant |-> g,
                         name |-> grants[g].user]
                   ELSE pam[c]]
      PROVE  LoginInv'
  <2>1. /\ grants[g] # NoGrant /\ grants[g].client = m.client /\ grants[g] \in Grant
        /\ origin[g] # NoOrigin /\ certs[g] = 0 /\ grants[g].user \in Users
        /\ grants[g].user = origin[g].user /\ grants[g].client = origin[g].client
    BY <1>1, <1>9 DEF Redeemable, GrantInv, TypeOK, Grant
  <2>2. certs' \in [Grants -> Nat] /\ certs'[g] = 1 /\ \A e \in Grants \ {g} : certs'[e] = certs[e]
    BY SMT, Z3, <1>1, <1>9, <2>1 DEF TypeOK
  <2>3. \A c \in Waiting(m) : /\ pam'[c] \in Helper /\ pam'[c].pc = "issued" /\ pam'[c].grant = g
                              /\ pam'[c].name = grants[g].user
    BY <1>1, <1>3, <1>9, <2>1 DEF Helper
  <2>4. pam' \in [Clients -> Helper \cup {Idle}] /\ \A c \in Clients \ Waiting(m) : pam'[c] = pam[c]
    BY <1>3, <1>9, <2>3 DEF TypeOK
  <2>5. TypeOK'
    BY <1>1, <1>2, <1>6, <2>2, <2>4 DEF TypeOK
  <2>6. \A c \in Clients, e \in Grants : InHelper(c, e)' => InHelper(c, e)
    BY <1>3, <2>3, <2>4 DEF InHelper
  <2>7. PlaceInv'
    BY <1>1, <1>4, <1>5, <2>6 DEF PlaceInv
  <2>8. FreshInv'
    BY <1>1, <2>1, <2>2 DEF FreshInv
  <2>9. HandlerInv'
    <3>1. \A e \in Grants : grants[e] = NoGrant /\ certs[e] = 0 =>
                                grants'[e] = NoGrant /\ certs'[e] = 0
      BY <1>1, <2>1, <2>2 DEF TypeOK
    <3> QED
      BY <1>1, <1>4, <3>1 DEF HandlerInv, BadgeIds
  <2>10. CertInv'
    <3>1. \A e \in Grants : certs'[e] <= 1
      BY SMT, Z3, <2>2 DEF CertInv
    <3>2. ASSUME NEW c \in Clients, pam'[c].pc = "issued"
          PROVE  /\ certs'[pam'[c].grant] = 1 /\ pam'[c].name = origin[pam'[c].grant].user
                 /\ origin[pam'[c].grant].client = HelperClient[c]
      <4>1. CASE c \in Waiting(m)
        BY <1>3, <2>1, <2>2, <2>3, <4>1
      <4>2. CASE c \notin Waiting(m)
        <5>1. pam'[c] = pam[c] /\ pam[c].grant \in Grants
          BY SMT, Z3, <2>4, <3>2, <4>2 DEF TypeOK, Helper, Idle
        <5> QED
          BY SMT, Z3, <2>1, <2>2, <3>2, <5>1 DEF CertInv
      <4> QED
        BY <4>1, <4>2
    <3>3. \A s \in sessions : s.grant \in Grants /\ certs[s.grant] = 1
      BY DEF TypeOK, CertInv
    <3> QED
      BY SMT, Z3, <1>1, <2>1, <2>2, <3>1, <3>2, <3>3 DEF CertInv
  <2> QED
    BY <1>2, <1>7, <2>5, <2>7, <2>8, <2>9, <2>10
<1> QED
  BY <1>8, <1>9, IssueStep

(* The helper turns the certificate into a session.                        *)
LEMMA HelperDoneKeeps ==
    ASSUME LoginInv, NEW c \in Clients, HelperDone(c)
    PROVE  LoginInv'
<1> USE DEF LoginInv
<1>1. UNCHANGED <<badges, now, handler, grants, origin, certs, file, posted>>
      /\ pam' = [pam EXCEPT ![c] = Idle]
  BY DEF HelperDone, serverVars
<1>2. /\ pam[c].pc = "issued" /\ pam[c].grant \in Grants /\ pam[c].user \in Users
  BY SMT, Z3 DEF HelperDone, TypeOK, Helper, Idle
<1> DEFINE g == pam[c].grant
           new == [client |-> c, user |-> pam[c].user, grant |-> g]
<1>3. sessions' = sessions \/ (pam[c].name = pam[c].user /\ sessions' = sessions \cup {new})
  BY DEF HelperDone
<1>4. new \in [client : Clients, user : Users, grant : Grants]
  BY <1>2
<1>5. /\ BadgesTypeOK' /\ BadgeInv' /\ ReplacementsExclude'
      /\ OriginInv' /\ HandlerInv' /\ GrantInv' /\ FreshInv'
      /\ \A h \in Handlers, e \in Grants : Carries(h, e)' = Carries(h, e)
  BY <1>1, ServerUntouched
<1>6. TypeOK'
  <2> HIDE DEF new
  <2> QED
    BY <1>1, <1>3, <1>4, <1>5 DEF TypeOK
<1>7. \A d \in Clients : (d # c /\ pam'[d] = pam[d]) \/ (d = c /\ pam'[d] = Idle)
  BY <1>1 DEF TypeOK
<1>8. InHelper(c, g) /\ ~InSession(g) /\ origin[g] # NoOrigin
  BY <1>2 DEF InHelper, PlaceInv
<1>9. CertInv'
  <2>1. \A s \in sessions : s.grant # g
    BY <1>8 DEF InSession
  <2>2. certs[g] = 1 /\ origin[g].client = HelperClient[c] /\ pam[c].name = origin[g].user
    BY <1>2 DEF CertInv
  <2>3. \A d \in Clients : pam'[d].pc = "issued" => pam'[d] = pam[d]
    BY SMT, Z3, <1>7 DEF Idle
  <2> QED
    BY SMT, Z3, <1>1, <1>3, <2>1, <2>2, <2>3 DEF CertInv
<1>10. PlaceInv'
  <2>1. \A d \in Clients, e \in Grants : InHelper(d, e)' => InHelper(d, e) /\ d # c
    BY SMT, Z3, <1>7 DEF InHelper, Idle
  <2>2. \A d \in Clients, e \in Grants : InFile(d, e)' = InFile(d, e)
    BY <1>1 DEF InFile
  <2>3. \A e \in Grants : InSession(e)' => InSession(e) \/ e = g
    BY SMT, Z3, <1>3 DEF InSession
  <2>4. g \in Grants
    BY <1>2
  <2> HIDE DEF g
  <2> QED
    BY SMT, Z3, <1>1, <1>5, <1>8, <2>1, <2>2, <2>3, <2>4 DEF PlaceInv
<1> QED
  BY <1>5, <1>6, <1>9, <1>10

LEMMA HelperFailsKeeps ==
    ASSUME LoginInv, NEW c \in Clients, HelperFails(c)
    PROVE  LoginInv'
<1> USE DEF LoginInv
<1>1. UNCHANGED <<badges, now, handler, grants, origin, certs, file, posted, sessions>>
      /\ pam' = [pam EXCEPT ![c] = Idle]
  BY DEF HelperFails, serverVars
<1>2. /\ BadgesTypeOK' /\ BadgeInv' /\ ReplacementsExclude'
      /\ OriginInv' /\ HandlerInv' /\ GrantInv' /\ FreshInv'
      /\ \A h \in Handlers, e \in Grants : Carries(h, e)' = Carries(h, e)
  BY <1>1, ServerUntouched
<1>3. TypeOK'
  BY <1>1, <1>2 DEF TypeOK
<1>4. \A d \in Clients : pam'[d] = pam[d] \/ pam'[d] = Idle
  BY <1>1 DEF TypeOK
<1>5. \A d \in Clients, e \in Grants : InHelper(d, e)' => InHelper(d, e)
  BY SMT, Z3, <1>4 DEF InHelper, Idle
<1>6. \A e \in Grants : InSession(e)' = InSession(e) /\ \A d \in Clients : InFile(d, e)' = InFile(d, e)
  BY <1>1 DEF InSession, InFile
<1>7. PlaceInv'
  BY <1>1, <1>2, <1>5, <1>6 DEF PlaceInv
<1>8. CertInv'
  BY SMT, Z3, <1>1, <1>4 DEF CertInv, Idle
<1> QED
  BY <1>2, <1>3, <1>7, <1>8

(* The transactions on badges that the server runs.                        *)
LEMMA BadgeStepRows ==
    ASSUME LoginInv, BadgeStep
    PROVE  RowsKept
<1>1. UNCHANGED now /\ RowsInv
  BY DEF BadgeStep, LoginInv, TypeOK, RowsInv
<1>2. ASSUME NEW b \in BadgeIds, RevokeBadgeWithAudit(b)
      PROVE  RowsKept
  <2>1. badges[b].owner \in Users
    BY RowType DEF LoginInv, TypeOK
  <2> QED
    BY <1>1, <1>2, <2>1, ChangeKeepsRows
<1> QED
  BY <1>1, <1>2, CreateKeepsRows, ReplaceKeepsRows, ChangeKeepsRows
     DEF BadgeStep, AdministerBadges

(* Badges change under the requests and grants that refer to them.         *)
LEMMA BadgeStepKeeps ==
    ASSUME LoginInv, BadgeStep
    PROVE  LoginInv'
<1> USE DEF LoginInv
<1>1. UNCHANGED <<now, handler, grants, origin, certs, file, pam, posted, sessions>>
  BY DEF BadgeStep, serverVars, clientVars
<1>2. RowsKept
  BY BadgeStepRows
<1>3. TypeOK'
  BY <1>1, <1>2 DEF TypeOK, RowsKept
<1>4. BadgeIds \subseteq BadgeIds'
  <2>1. Len(badges) \in Nat /\ Len(badges') \in Nat
    BY SMT, Z3, <1>2 DEF RowsKept, TypeOK, BadgesTypeOK
  <2> QED
    BY SMT, Z3, <1>2, <2>1 DEF RowsKept, BadgeIds
<1>5. OriginInv'
  <2>1. now \in Nat /\ now <= Never
    BY SMT, Z3, BadgeBounds DEF TypeOK, BadgesTypeOK, Never
  <2>2. \A g \in Grants : origin[g] # NoOrigin => origin[g].at \in Nat
    BY SMT, Z3, BadgeBounds DEF TypeOK, Origin
  <2>3. Never \in Nat
    BY SMT, Z3, BadgeBounds DEF Never
  <2>4. ASSUME NEW g \in Grants, origin[g] # NoOrigin
        PROVE  /\ origin[g].badge \in BadgeIds' /\ origin[g].at <= now
               /\ origin[g].user = badges'[origin[g].badge].owner
               /\ origin[g].at <= badges'[origin[g].badge].revokedAt
    <3>1. origin[g].badge \in BadgeIds /\ origin[g].at <= now
          /\ origin[g].user = badges[origin[g].badge].owner
          /\ origin[g].at <= badges[origin[g].badge].revokedAt
      BY <2>4 DEF OriginInv
    <3>2. origin[g].at <= Never
      BY SMT, Z3, <2>1, <2>2, <2>3, <2>4, <3>1
    <3> QED
      BY <1>2, <1>4, <3>1, <3>2 DEF RowsKept
  <2> QED
    BY <1>1, <2>4 DEF OriginInv
<1>6. HandlerInv'
  <2>1. \A h \in Handlers, g \in Grants : Carries(h, g)' = Carries(h, g)
    BY <1>1 DEF Carries
  <2> QED
    BY <1>1, <1>2, <1>4, <2>1 DEF HandlerInv, RowsKept
<1>7. GrantInv' /\ CertInv' /\ FreshInv' /\ PlaceInv'
  BY <1>1, PlacesUntouched DEF GrantInv, CertInv, FreshInv, Carries
<1> QED
  BY <1>2, <1>3, <1>5, <1>6, <1>7 DEF RowsKept

-----------------------------------------------------------------------------
LEMMA InitHolds == Init => LoginInv
<1> SUFFICES ASSUME Init PROVE LoginInv
  OBVIOUS
<1>1. badges = <<>> /\ now = 0 /\ BadgeIds = {}
  BY SMT, Z3 DEF Init, BadgesInit, BadgeIds
<1>2. TypeOK
  BY SMT, Z3, <1>1, BadgeBounds DEF Init, TypeOK, BadgesTypeOK
<1>3. BadgeInv /\ ReplacementsExclude
  BY SMT, Z3, <1>1, BadgeBounds DEF BadgeInv, ReplacementsExclude
<1>4. \A h \in Handlers, g \in Grants : ~Carries(h, g)
  BY DEF Init, Carries, Idle
<1>5. \A c \in Clients, g \in Grants : ~InFile(c, g) /\ ~InHelper(c, g)
  BY DEF Init, InFile, InHelper, Idle
<1>6. \A g \in Grants : ~InSession(g)
  BY DEF Init, InSession
<1>7. HandlerInv /\ PlaceInv
  BY <1>4, <1>5, <1>6 DEF HandlerInv, PlaceInv, Init, Idle
<1>8. OriginInv /\ GrantInv /\ CertInv /\ FreshInv
  BY SMT, Z3 DEF Init, OriginInv, GrantInv, CertInv, FreshInv, Idle
<1> QED
  BY <1>2, <1>3, <1>7, <1>8 DEF LoginInv

LEMMA NextKeeps == LoginInv /\ [Next]_vars => LoginInv'
<1> SUFFICES ASSUME LoginInv, [Next]_vars PROVE LoginInv'
  OBVIOUS
<1>1. ASSUME NEW h \in Handlers, AuthStep(h) PROVE LoginInv'
  BY <1>1, AuthReadKeeps, RecordKeeps, SaveKeeps, GreeterKeeps DEF AuthStep
<1>2. ASSUME NEW c \in Clients, HelperStep(c) PROVE LoginInv'
  BY <1>2, HelperStartKeeps, HelperDoneKeeps, HelperFailsKeeps DEF HelperStep
<1>3. CASE UNCHANGED vars
  <2>1. UNCHANGED <<badges, now, handler, grants, origin, certs, file, pam, posted, sessions>>
    BY <1>3 DEF vars, serverVars, clientVars
  <2>2. TypeOK'
    BY <2>1 DEF LoginInv, TypeOK, BadgesTypeOK
  <2>3. CertInv'
    BY <2>1 DEF LoginInv, CertInv
  <2> QED
    BY <2>1, <2>2, <2>3, ServerUntouched, PlacesUntouched DEF LoginInv
<1> QED
  BY <1>1, <1>2, <1>3, IssueKeeps, BadgeStepKeeps, RestartKeeps, TickKeeps
     DEF Next

(* The inductive invariant: on its way a grant is in one place, and agrees *)
(* with the audit row of its login.                                        *)
THEOREM LoginInvariant == Spec => []LoginInv
BY InitHolds, NextKeeps, PTL DEF Spec

(* Rows, files and requests stay of their types through logins, restarts   *)
(* and administration.                                                     *)
THEOREM LoginTypes == Spec => []TypeOK
<1>1. LoginInv => TypeOK
  BY DEF LoginInv
<1> QED
  BY <1>1, LoginInvariant, PTL

(* A replaced badge stays revoked and is replaced once, whichever of the   *)
(* badge transactions run in whichever order.                              *)
THEOREM ReplacedOnce == Spec => []ReplacementsExclude
<1>1. LoginInv => ReplacementsExclude
  BY DEF LoginInv
<1> QED
  BY <1>1, LoginInvariant, PTL

(* saveLoginGrant, the greeter's file, the helper and issuePKINIT together *)
(* turn a grant into at most one certificate and one session.              *)
THEOREM GrantUsedOnce == Spec => []OneUse
<1>1. LoginInv => OneUse
  BY DEF LoginInv, CertInv, OneUse
<1> QED
  BY <1>1, LoginInvariant, PTL

(* Behind every session is the audit row of a badge of its user, presented *)
(* at its client.                                                          *)
THEOREM SessionsBacked == Spec => []SessionBacked
<1>1. LoginInv => SessionBacked
  <2> SUFFICES ASSUME LoginInv, NEW s \in sessions
               PROVE  /\ origin[s.grant] # NoOrigin
                      /\ badges[origin[s.grant].badge].owner = s.user
                      /\ origin[s.grant].client = HelperClient[s.client]
                      /\ certs[s.grant] = 1
    BY DEF SessionBacked
  <2>1. s.grant \in Grants /\ InSession(s.grant)
    BY DEF LoginInv, TypeOK, InSession
  <2>2. origin[s.grant] # NoOrigin
    BY <2>1 DEF LoginInv, PlaceInv
  <2> QED
    BY <2>1, <2>2 DEF LoginInv, CertInv, OriginInv
<1> QED
  BY <1>1, LoginInvariant, PTL

(* RecordBadgeAuthenticationSuccess refuses the badge that was revoked     *)
(* after the handler had read it.                                          *)
THEOREM NoLateLogin == Spec => []NoLoginAfterRevocation
<1>1. LoginInv => NoLoginAfterRevocation
  BY DEF LoginInv, OriginInv, NoLoginAfterRevocation
<1> QED
  BY <1>1, LoginInvariant, PTL

(* No transaction revives a badge that was revoked.                        *)
THEOREM RevocationIsFinal == Spec => RevokedForGood
<1>1. LoginInv /\ [Next]_vars =>
          [\A b \in BadgeIds : badges[b].revokedAt # Never =>
               badges'[b].revokedAt # Never /\ ~badges'[b].enabled]_badges
  <2> SUFFICES ASSUME LoginInv, [Next]_vars, badges' # badges,
                      NEW b \in BadgeIds, badges[b].revokedAt # Never
               PROVE  badges'[b].revokedAt # Never /\ ~badges'[b].enabled
    OBVIOUS
  <2>1. BadgeStep
    BY DEF Next, vars, AuthStep, HelperStep, AuthRead, RecordBadgeAuthenticationSuccess,
           saveLoginGrant, GreeterAnswer, HelperStart, HelperDone, HelperFails, IssuePKINIT,
           ServerRestart, Tick
  <2>2. badges'[b] = badges[b]
    BY <2>1, BadgeStepRows DEF RowsKept
  <2> QED
    BY <2>2 DEF LoginInv, BadgeInv
<1> QED
  BY <1>1, LoginInvariant, PTL DEF Spec, RevokedForGood

-----------------------------------------------------------------------------
(* The end of a grant *)

(* A grant that was given out and is no longer in the server's memory: it  *)
(* was redeemed, refused or removed, or the server was started again.      *)
Spent(g) ==
    /\ origin[g] # NoOrigin /\ grants[g] = NoGrant
    /\ \A h \in Handlers : ~(handler[h].pc = "recorded" /\ handler[h].grant = g)

StaysSpent(g) == Spent(g) => Spent(g)' /\ UNCHANGED <<certs[g], origin[g]>>

(* A request that changes while the grants stay.                           *)
LEMMA RequestLeavesSpent ==
    ASSUME LoginInv, NEW g \in Grants, Spent(g), NEW h \in Handlers, NEW r,
           handler' = [handler EXCEPT ![h] = r], r.pc = "recorded" => r.grant # g,
           grants'[g] = NoGrant, certs'[g] = certs[g], origin'[g] = origin[g]
    PROVE  Spent(g)' /\ UNCHANGED <<certs[g], origin[g]>>
<1>1. handler'[h] = r /\ \A i \in Handlers : i # h => handler'[i] = handler[i]
  BY DEF LoginInv, TypeOK
<1> QED
  BY <1>1 DEF Spent

LEMMA AuthLeavesSpent ==
    ASSUME LoginInv, NEW g \in Grants, Spent(g), NEW h \in Handlers, AuthStep(h)
    PROVE  Spent(g)' /\ UNCHANGED <<certs[g], origin[g]>>
<1>1. /\ handler[h] \in Handler \cup {Idle} /\ Idle.pc = "idle"
      /\ handler \in [Handlers -> Handler \cup {Idle}]
      /\ origin \in [Grants -> Origin \cup {NoOrigin}]
      /\ origin[g] # NoOrigin /\ grants[g] = NoGrant
  BY DEF LoginInv, TypeOK, Idle, Spent
<1>2. ASSUME NEW b \in BadgeIds, NEW c \in Clients, AuthRead(h, b, c)
      PROVE  Spent(g)' /\ UNCHANGED <<certs[g], origin[g]>>
  <2> DEFINE r == [pc |-> "checked", badge |-> b, user |-> badges[b].owner, client |-> c,
                   grant |-> "none"]
  <2>1. handler' = [handler EXCEPT ![h] = r] /\ UNCHANGED <<grants, certs, origin>>
    BY <1>2 DEF AuthRead
  <2>2. r.pc # "recorded"
    OBVIOUS
  <2> HIDE DEF r
  <2> QED BY <1>1, <2>1, <2>2, RequestLeavesSpent
<1>3. ASSUME NEW f \in Grants, RecordBadgeAuthenticationSuccess(h, f)
      PROVE  Spent(g)' /\ UNCHANGED <<certs[g], origin[g]>>
  <2>1. f # g /\ handler[h] \in Handler /\ UNCHANGED <<grants, certs>>
    BY <1>1, <1>3 DEF RecordBadgeAuthenticationSuccess, Fresh
  <2>2. CASE handler' = [handler EXCEPT ![h] = Idle] /\ UNCHANGED origin
    BY <1>1, <2>1, <2>2, RequestLeavesSpent
  <2>3. CASE Accept(h, f)
    <3> DEFINE r == [[handler[h] EXCEPT !.pc = "recorded"] EXCEPT !.grant = f]
    <3>1. /\ handler' = [handler EXCEPT ![h].pc = "recorded", ![h].grant = f]
          /\ origin' = [origin EXCEPT ![f] = Row(h)]
      BY <2>3 DEF Accept
    <3>2. r.grant = f
      BY <2>1 DEF Handler
    <3>3. handler' = [handler EXCEPT ![h] = r]
      BY <1>1, <3>1
    <3>4. origin'[g] = origin[g]
      BY <1>1, <2>1, <3>1
    <3> HIDE DEF r
    <3> QED BY <1>1, <2>1, <3>2, <3>3, <3>4, RequestLeavesSpent
  <2> QED BY <1>3, <2>2, <2>3 DEF RecordBadgeAuthenticationSuccess
<1>4. ASSUME saveLoginGrant(h)
      PROVE  Spent(g)' /\ UNCHANGED <<certs[g], origin[g]>>
  <2> DEFINE r == [handler[h] EXCEPT !.pc = "saved"]
  <2>1. handler[h].pc = "recorded" /\ handler' = [handler EXCEPT ![h].pc = "saved"]
        /\ UNCHANGED <<certs, origin>>
    BY <1>4 DEF saveLoginGrant
  <2>2. handler[h].grant # g
    BY <2>1 DEF Spent
  <2>3. grants'[g] = NoGrant
    BY <1>1, <1>4, <2>2 DEF saveLoginGrant
  <2>4. handler' = [handler EXCEPT ![h] = r] /\ handler[h] \in Handler
    BY <1>1, <2>1
  <2>5. r.pc = "saved"
    BY <2>4 DEF Handler
  <2> HIDE DEF r
  <2> QED BY <2>1, <2>3, <2>4, <2>5, RequestLeavesSpent
<1>5. ASSUME NEW heard \in BOOLEAN, GreeterAnswer(h, heard)
      PROVE  Spent(g)' /\ UNCHANGED <<certs[g], origin[g]>>
  <2>1. handler' = [handler EXCEPT ![h] = Idle] /\ UNCHANGED <<grants, certs, origin>>
    BY <1>5 DEF GreeterAnswer
  <2> QED BY <1>1, <2>1, RequestLeavesSpent
<1> QED
  BY <1>2, <1>3, <1>4, <1>5 DEF AuthStep

LEMMA NextLeavesSpent ==
    ASSUME LoginInv, NEW g \in Grants, [Next]_vars
    PROVE  StaysSpent(g)
<1> SUFFICES ASSUME Spent(g)
             PROVE  Spent(g)' /\ UNCHANGED <<certs[g], origin[g]>>
  BY DEF StaysSpent
<1>1. CASE UNCHANGED serverVars
  BY <1>1 DEF Spent, serverVars
<1>2. ASSUME NEW m \in posted, IssuePKINIT(m)
      PROVE  Spent(g)' /\ UNCHANGED <<certs[g], origin[g]>>
  <2>1. /\ m.grant \in Grants /\ UNCHANGED <<handler, origin>>
        /\ grants' = [grants EXCEPT ![m.grant] = NoGrant]
        /\ \/ Redeemable(m) /\ certs' = [certs EXCEPT ![m.grant] = @ + 1]
           \/ UNCHANGED certs
    BY <1>2, IssueStep
  <2>2. grants'[g] = NoGrant
    BY <2>1 DEF Spent, LoginInv, TypeOK
  <2>3. CASE m.grant = g
    BY <2>1, <2>2, <2>3 DEF Spent, Redeemable
  <2>4. CASE m.grant # g
    <3>1. certs'[g] = certs[g]
      BY <2>1, <2>4 DEF LoginInv, TypeOK
    <3> QED BY <2>1, <2>2, <3>1 DEF Spent
  <2> QED BY <2>3, <2>4
<1>3. CASE ServerRestart
  <2>1. /\ grants'[g] = NoGrant /\ UNCHANGED <<origin, certs>>
        /\ \A h \in Handlers : handler'[h].pc = "idle"
    BY <1>3 DEF ServerRestart, Idle
  <2> QED BY <2>1 DEF Spent
<1>4. CASE BadgeStep \/ Tick \/ (\E c \in Clients : HelperStep(c)) \/ UNCHANGED vars
  BY <1>1, <1>4 DEF BadgeStep, Tick, HelperStep, HelperStart, HelperDone, HelperFails, vars
<1> QED
  BY <1>2, <1>3, <1>4, AuthLeavesSpent DEF Next

(* Once issuePKINIT has taken a grant out of the memory of the server, or  *)
(* a later login or a restart of the server has removed it, it is never    *)
(* there again: whatever requests linger, whatever files were left behind, *)
(* no certificate is issued for it any more.                               *)
THEOREM SpentGrantsStaySpent == Spec => [][\A g \in Grants : StaysSpent(g)]_vars
<1>1. LoginInv /\ [Next]_vars => [\A g \in Grants : StaysSpent(g)]_vars
  BY NextLeavesSpent
<1> QED
  BY <1>1, LoginInvariant, PTL DEF Spec
=============================================================================
