---------------------------- MODULE MCVaultStore ----------------------------
(* Small instances of VaultStore for TLC. *)
EXTENDS VaultStoreProps

CONSTANTS w1, w2, r, a, l1, k1, k2

\* w1 and a are calls of one process, w2 of another and r of a third.
Process == [c \in Calls |-> CASE c \in {w1, a} -> "p" [] c = w2 -> "q" [] c = r -> "s"]

\* p has only the first secret, q has moved to the second and still reads the
\* first, and s is in production with the second.
Ring == [x \in {"p", "q", "s"} |-> IF x = "p" THEN {k1} ELSE {k1, k2}]
RingAllowed ==
    [x \in {"p", "q", "s"} |-> CASE x = "p" -> {k1} [] x = "q" -> {k1, k2} [] x = "s" -> {k2}]
Own == [x \in {"p", "q", "s"} |-> IF x = "p" THEN k1 ELSE k2]
=============================================================================
