--------------------------- MODULE MCLocalFileLock ---------------------------
(* Small instances of LocalFileLock for TLC. *)
EXTENDS LocalFileLockProps, TLC

CONSTANTS c1, c2, c3, c4

\* One process per call, all on one host.
OwnProcess == [c \in Calls |-> c]
OneHost == [c \in Calls |-> "here"]

\* c4 runs on another machine that shares the directory.
OneAway == [c \in Calls |-> IF c = c4 THEN "there" ELSE "here"]

\* No trouble, what every promise of the lock survives, all of it, and failing
\* reads of owner.json alone.
Survived == ErrorKinds \ {"stall", "releaseRename", "readOwner", "readIntent"}

NoErrors == {{}}
Mixed == {{}, Survived, ErrorKinds}
Unreadable == {{"readOwner"}}

\* c4 takes part only in behaviours without trouble.
FourUntroubled == errors = {} \/ UNCHANGED pc[c4]

Symmetric == Permutations(Calls)
LocalSymmetric == Permutations(Calls \ {c4})
=============================================================================
