-------------------------- MODULE LocalFileLockProps --------------------------
(* What is checked and proved of LocalFileLock: fairness, properties and the  *)
(* inductive invariant.                                                       *)
EXTENDS LocalFileLock

\* No intent of the other kind exists.
Clear(c) == \A d \in Calls : intent[d] = "absent" \/ role[d] = role[c]

\* Fairness for liveness: live calls keep running and time passes.  A reaper
\* that polls sleeps a random time (line 317), so it does not for ever wake up
\* and look just while an acquirer's short-lived intent exists.
FairSpec ==
    /\ Spec
    /\ \A c \in Calls : /\ WF_vars(Step(c))
                         /\ SF_vars(Clear(c) /\ PollAgain(c))
                         /\ SF_vars(Clear(c) /\ Snapshot(c))
    /\ WF_vars(LockAges) /\ \A c \in Calls : WF_vars(IntentAges(c))

-----------------------------------------------------------------------------
(* Properties *)

Kinds == {"acquire", "reap"}

\* An intent is empty from its exclusive create to its complete write; it is
\* stale when it has been empty, and aged when it has been complete, for longer
\* than orphanGraceMs.
IntentStates == {"absent", "empty", "stale", "full", "aged"}

Outcomes == {"none", "acquired", "collided", "blocked", "failed",
             "reaped", "kept", "timeout"}

PCs == {"create", "fill", "snapshot", "examine", "mkdir", "writeOwner",
        "discard", "removeIntent", "critical", "release", "rename", "recheck",
        "unlink", "rmdir", "lstat", "readOwner", "quarantine", "retry", "done", "dead"}

Locks == [by : Calls \cup {NoCall}, full : BOOLEAN, old : BOOLEAN]

\* Every variable has its type; every outcome withLocalFileLock computes has a next step.
TypeOK ==
    /\ pc \in [Calls -> PCs]
    /\ role \in [Calls -> Kinds]
    /\ intent \in [Calls -> IntentStates]
    /\ scan \in [Calls -> SUBSET Calls]
    /\ found \in [Calls -> BOOLEAN]
    /\ lock \in Locks
    /\ sawOld \in [Calls -> BOOLEAN]
    /\ out \in [Calls -> Outcomes]
    /\ deadProcs \subseteq Procs
    /\ reusedPids \subseteq deadProcs
    /\ errors \subseteq ErrorKinds

\* Which errors a promise of the lock survives.  An intent of a live process is
\* removed by others only after a stall or after a read that fails ...
IntentsStay == errors \cap {"stall", "readIntent"} = {}

\* ... a live owner is taken for none only when its owner.json cannot be read ...
OwnersSeen == IntentsStay /\ "readOwner" \notin errors

\* ... and only a release whose rename fails empties a directory under its name.
Steady == OwnersSeen /\ "releaseRename" \notin errors

\* Two calls never run their operation at the same time, whatever processes
\* die, wait, reap or release around them and whatever writes, removals and
\* reads of the own token fail.
MutualExclusion ==
    Steady => \A c, d \in Calls : pc[c] = "critical" /\ pc[d] = "critical" => c = d

\* A call in its operation is the owner owner.json names: the lock of a running
\* call is never reaped, released or emptied by somebody else.
HolderOwnsLock ==
    Steady => \A c \in Calls : pc[c] = "critical" => OwnedBy(c)

\* What lines 4-5 promise of a waiter: it reaps a lock only when the process of
\* its owner no longer exists.
OnlyDeadReaped ==
    \A c \in Calls : pc[c] = "quarantine" /\ lock.full => ~Alive(lock.by)

\* A rename that reapDeadSameHostOwner decided on can only meet the generation
\* that was inspected or nothing, never a newly acquired live lock (the comment
\* at lines 303-307), releases by direct removal included.
ReapedIsDead == OwnersSeen => OnlyDeadReaped

\* The fence that makes it so: no reaper inspects the directory while an
\* acquirer is between its look for reapers and the end of its owner.json,
\* unless one of the two has lost its intent; and with any error but a stall
\* and a failing read of an intent, none loses it.
Fence ==
    \A c, d \in Calls :
        pc[c] \in {"lstat", "readOwner", "quarantine"} /\ pc[d] \in {"mkdir", "writeOwner", "discard"} =>
            ~IntentsStay /\ "absent" \in {intent[c], intent[d]}

\* Generations of the lock as withLocalFileLock promises them while Steady.
Generations == INSTANCE GenerationLock WITH
    None <- NoCall,
    ReclaimersOf <- [c \in Calls |-> {d \in Calls : HostOf[d] = HostOf[c]}],
    holder <- IF Steady /\ lock.full THEN lock.by ELSE NoCall,
    dead <- {c \in Calls : ProcOf[c] \in deadProcs}

\* Every generation ends by the release of its own owner or, after the death of
\* its owner's process, by a reaper on the owner's host; a delayed finally block
\* removes no successor and another host guesses nothing stale.
ImplementsGenerations == Generations!Spec

\* Every call whose process lives gets the lock, whatever locks and intents the
\* processes that die around it leave behind (where no behaviour meets an error
\* or a deadline).
EveryCallEnters ==
    \A c \in Calls : pc[c] = "create" ~> pc[c] \in {"critical", "dead"}

-----------------------------------------------------------------------------
(* The inductive invariant: what holds whatever goes wrong, then what needs  *)
(* the errors to be of some kinds only.                                       *)

\* The points of a call at which its scan is behind it and trusted.
MayMake == {"mkdir", "writeOwner", "discard"}
MayReap == {"lstat", "readOwner", "quarantine"}

\* A call is dead with its process; its role is that of the steps it takes;
\* owner.json names a call.
ControlInv ==
    /\ lock.full => lock.by \in Calls
    /\ \A c \in Calls :
        /\ pc[c] = "dead" <=> ~Alive(c)
        /\ pc[c] = "removeIntent" => out[c] # "none"
        /\ pc[c] = "discard" => out[c] # "none" /\ out[c] # "acquired"
        /\ pc[c] \in MayMake => role[c] = "acquire"
        /\ pc[c] \in MayReap => role[c] = "reap"

\* c has read the directory and will not see, or has not seen, the intent of d.
Missed(c, d) ==
    /\ intent[c] # "absent"
    /\ \/ pc[c] = "examine" /\ ~found[c] /\ d \notin scan[c]
       \/ pc[c] \in MayMake \cup MayReap

\* An acquirer and a reaper that keep their intents never miss each other: each
\* publishes, then looks.
FenceInv ==
    \A c, d \in Calls : role[c] # role[d] => ~(Missed(c, d) /\ Missed(d, c))

\* The intent of a live call is there from its create to its removal.
IntentInv ==
    \A c \in Calls :
        /\ pc[c] = "fill" => intent[c] = "empty"
        /\ pc[c] \in MayMake \cup MayReap \cup {"snapshot", "examine"} =>
               intent[c] \in {"full", "aged"}

\* What a reaper is about to rename away is a lock of a dead process of its host.
ReapInv ==
    \A c \in Calls : pc[c] = "quarantine" /\ lock.full =>
        ~Alive(lock.by) /\ HostOf[lock.by] = HostOf[c]

\* c owns the directory, from its owner.json to its release.
Holds(c) ==
    \/ pc[c] \in {"critical", "release", "rename"}
    \/ pc[c] = "removeIntent" /\ out[c] = "acquired"

\* Who acts on the directory knows what it is.
LockInv ==
    \A c \in Calls :
        /\ pc[c] \notin {"recheck", "unlink", "rmdir"}
        /\ Holds(c) => OwnedBy(c)
        /\ pc[c] = "writeOwner" => lock.by = c /\ ~lock.full
        /\ pc[c] = "discard" => lock.by = c

IInv ==
    /\ TypeOK /\ ControlInv /\ FenceInv
    /\ IntentsStay => IntentInv
    /\ OwnersSeen => ReapInv
    /\ Steady => LockInv
=============================================================================
