--------------------------- MODULE GenerationLock ---------------------------
(* What withLocalFileLock (src/lib/local-file-lock.ts) promises, with the    *)
(* file system taken away.  Each call of withLocalFileLock makes one         *)
(* generation of the lock, named by the call (the random fencing token).  A  *)
(* generation ends by its own release; when the process of its owner has     *)
(* died it may instead be reclaimed by somebody on the SAME host.  Nothing   *)
(* else may end it, so two generations never overlap.                        *)
EXTENDS Naturals

CONSTANTS
    Calls,          \* calls of withLocalFileLock on one lock path
    ReclaimersOf,   \* ReclaimersOf[c]: the calls that may reclaim the generation of c
    None            \* no generation

VARIABLES
    holder,         \* the call whose generation exists, or None
    dead            \* the calls whose process has died

vars == <<holder, dead>>

Init ==
    /\ holder = None
    /\ dead = {}

Acquire(c) ==
    /\ holder = None
    /\ c \notin dead
    /\ holder' = c
    /\ UNCHANGED dead

Release(c) ==
    /\ holder = c
    /\ c \notin dead
    /\ holder' = None
    /\ UNCHANGED dead

Die(D) ==
    /\ dead' = dead \cup D
    /\ UNCHANGED holder

Reclaim(c) ==
    /\ holder # None
    /\ holder \in dead
    /\ c \in ReclaimersOf[holder] \ dead
    /\ holder' = None
    /\ UNCHANGED dead

Next ==
    \/ \E c \in Calls : Acquire(c) \/ Release(c) \/ Reclaim(c)
    \/ \E D \in SUBSET Calls : Die(D)

Spec == Init /\ [][Next]_vars

=============================================================================
