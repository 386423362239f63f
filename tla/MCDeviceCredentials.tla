------------------------ MODULE MCDeviceCredentials -------------------------
(* DeviceCredentials for TLC.  Keys and tokens are interchangeable.        *)
EXTENDS DeviceCredentials, TLC

Symmetry == Permutations(Keys) \cup Permutations(Tokens)
=============================================================================
