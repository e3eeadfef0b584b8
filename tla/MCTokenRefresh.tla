--------------------------- MODULE MCTokenRefresh ---------------------------
(* Small instances of TokenRefresh for TLC. *)
EXTENDS TokenRefreshProps, TLC

Symmetric == Permutations(Pollers)
=============================================================================
