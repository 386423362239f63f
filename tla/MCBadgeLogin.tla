---------------------------- MODULE MCBadgeLogin ----------------------------
(* Two clients, one of them with a PAM helper that sends the other's id.   *)
EXTENDS BadgeLogin, TLC

CONSTANTS c1, c2

MCHelperClient == [c \in Clients |-> c1]

Symmetry == Permutations(Grants) \cup Permutations(Handlers) \cup Permutations(Users)
=============================================================================
