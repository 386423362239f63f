--------------------------- MODULE MCClientUpdate ---------------------------
(* One device with up to two components, and up to two jobs and releases.  *)
EXTENDS ClientUpdate, TLC

CONSTANTS j1, j2, ca, cb

MCReleases == {1, 2}
MCOneRelease == {1}
MCNewerRelease == {2}
MCNoReleases == {}

(* No order of jobs or components is used; only for runs without liveness. *)
Symmetry == Permutations({j1, j2}) \cup Permutations({ca, cb})
ComponentSymmetry == Permutations({ca, cb})
=============================================================================
