--------------------------- MODULE MCOidcProvider ---------------------------
(* Two requests at a time against the OIDC provider.                       *)
EXTENDS OidcProvider, TLC

Symmetry == Permutations(Codes) \cup Permutations(Tokens) \cup Permutations(Subjects)
    \cup Permutations(Handlers) \cup Permutations(Users)
    \cup Permutations(Clients) \cup Permutations(Uris)
=============================================================================
