------------------------- MODULE MCUpdateInstaller --------------------------
(* A client on which an operator may run the guarded updater three times,  *)
(* with two components and two releases.                                   *)
EXTENDS UpdateInstaller

MCReleases == {1, 2}
=============================================================================
