--------------------------- MODULE MCSelfService ----------------------------
(* SelfService for TLC.  All names are interchangeable.                    *)
EXTENDS SelfService, TLC

Symmetry == Permutations(Users) \cup Permutations(Sessions) \cup Permutations(Handlers)
    \cup Permutations(Ceremonies) \cup Permutations(Passkeys)
=============================================================================
