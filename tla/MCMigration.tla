---------------------------- MODULE MCMigration ----------------------------
(* DatabaseMigration with one grant, two spellings of one username and two *)
(* overlapping runs of the tool.                                           *)
EXTENDS DatabaseMigration, TLC

CONSTANTS p1, p2, s1, s2

MCFold(name) == IF name = "Anna" THEN "anna" ELSE name

MCNames == {"anna", "Anna"}

Symmetry == Permutations({p1, p2}) \cup Permutations({s1, s2})
============================================================================
