---------------------------- MODULE LocalFileLock ----------------------------
(* The cross-process lock of the local-file backend, one lock path           *)
(* (src/lib/local-file-lock.ts).  A call of withLocalFileLock runs in a      *)
(* process of a host; a process may run several calls at once and may die    *)
(* between any two of its file-system steps.  The lock is a directory made   *)
(* by mkdir and owned by the owner.json written into it; "intent" files      *)
(* beside it keep those who may make the directory (kind "acquire") apart    *)
(* from those who may rename a dead one away (kind "reap").                  *)
(*                                                                           *)
(* One action is one file-system call, so that every interleaving of two     *)
(* processes between a look and the step that trusts it is explored.  File   *)
(* names hold never-reused random tokens: an intent is named here by the     *)
(* call that made it and the lock generation by the call that owns it.       *)
EXTENDS Naturals

CONSTANTS
    Calls,      \* calls of withLocalFileLock; a retry of an application is another call
    ProcOf,     \* ProcOf[c]: the process (pid) that runs call c
    HostOf,     \* HostOf[c]: the host of that process
    NoCall,     \* nobody
    ErrorSets   \* the sets of kinds of trouble a behaviour may meet

\* What may go wrong besides a death: the deadline of a call passes; the pid of
\* a dead process is given to another one; a live process pauses longer than
\* orphanGraceMs between two steps; a call throws (step), the write of owner.json,
\* the rename of a dead directory, the unlink of the own intent or the rename of
\* a release fails; the read of an owner record fails, which readOwnerRecord
\* takes for no owner: of the own lock at its release, of the lock a reaper
\* inspects, of an intent somebody examines.
ErrorKinds == {"deadline", "reusedPid", "stall", "step", "ownerWrite", "quarantine",
               "removeIntent", "releaseRename", "readToken", "readOwner", "readIntent"}

Procs == {ProcOf[c] : c \in Calls}

ASSUME CallsAssumption ==
    /\ NoCall \notin Calls
    /\ ErrorSets \subseteq SUBSET ErrorKinds
    /\ \A c, d \in Calls : ProcOf[c] = ProcOf[d] => HostOf[c] = HostOf[d]

VARIABLES
    pc,         \* pc[c]: the next file-system call of call c
    role,       \* role[c]: the kind of intent c makes next or has made
    intent,     \* intent[c]: its file, empty until full; stale or aged after orphanGraceMs
    scan,       \* scan[c]: intents of the other kind readdir named, still to be examined
    found,      \* found[c]: an active intent was among those examined
    lock,       \* the lock directory
    sawOld,     \* sawOld[c]: the mtime c got from lstat is older than orphanGraceMs
    out,        \* out[c]: how the current attempt of c ended
    deadProcs,  \* processes that have died
    reusedPids, \* those of them whose pid another process has now
    errors      \* the kinds of trouble this behaviour may meet

vars == <<pc, role, intent, scan, found, lock, sawOld, out, deadProcs, reusedPids, errors>>

\* The directory: who owns (full) or made (not full) it, whether owner.json is
\* complete, and whether its mtime is older than orphanGraceMs.
NoLock == [by |-> NoCall, full |-> FALSE, old |-> FALSE]

Init ==
    /\ pc = [c \in Calls |-> "create"]
    /\ role = [c \in Calls |-> "acquire"]
    /\ intent = [c \in Calls |-> "absent"]
    /\ scan = [c \in Calls |-> {}]
    /\ found = [c \in Calls |-> FALSE]
    /\ lock = NoLock
    /\ sawOld = [c \in Calls |-> FALSE]
    /\ out = [c \in Calls |-> "none"]
    /\ deadProcs = {}
    /\ reusedPids = {}
    /\ errors \in ErrorSets

(* Helpers *)

Alive(c) == ProcOf[c] \notin deadProcs

\* Mutants of SeemsAlive: the pid is not probed, or the hostname not compared.
SeemsAliveElsewhere(c, owner) == HostOf[c] # HostOf[owner]
SeemsAliveAnyHost(c, owner) == ProcOf[owner] \notin deadProcs \ reusedPids

\* owner.hostname !== os.hostname() || processIsAlive(owner.pid), as c sees it.
SeemsAlive(c, owner) ==
    \/ HostOf[c] # HostOf[owner]
    \/ ProcOf[owner] \notin deadProcs \ reusedPids

Goto(c, label) == pc' = [pc EXCEPT ![c] = label]

\* unlink of the intent of d.  A scan that had listed it now gets ENOENT from
\* lstat and skips it, so it leaves the lists of names still to be examined.
UnlinkIntent(d) ==
    /\ intent' = [intent EXCEPT ![d] = "absent"]
    /\ scan' = [c \in Calls |-> scan[c] \ {d}]

\* The lock path exists and its owner.json names call c.
OwnedBy(c) == lock.full /\ lock.by = c

(* Intents: createIntent, activeIntents, removeIntent *)

\* Where an error that is thrown leads: the finally block of an attempt takes
\* its intent back, and the call ends.
Throws(c) ==
    /\ out' = [out EXCEPT ![c] = "failed"]
    /\ Goto(c, "removeIntent")

\* open(file, "wx"): the file exists and is still empty.
CreateIntent(c) ==
    /\ pc[c] = "create"
    /\ intent' = [intent EXCEPT ![c] = "empty"]
    /\ Goto(c, "fill")
    /\ UNCHANGED <<role, scan, found, lock, sawOld, out, deadProcs, reusedPids, errors>>

\* The content reaches the file, or an inode somebody has unlinked meanwhile.
FillIntent(c) ==
    /\ pc[c] = "fill"
    /\ intent' = [intent EXCEPT ![c] = IF @ = "absent" THEN "absent" ELSE "full"]
    /\ Goto(c, "snapshot")
    /\ UNCHANGED <<role, scan, found, lock, sawOld, out, deadProcs, reusedPids, errors>>

\* Either step of the writeFile fails.  What it made stays behind, for nobody
\* has a name for it yet.
CreateIntentFails(c) ==
    /\ "step" \in errors
    /\ pc[c] \in {"create", "fill"}
    /\ Goto(c, "done")
    /\ UNCHANGED <<role, intent, scan, found, lock, sawOld, out, deadProcs, reusedPids, errors>>

\* readdir: the names of the intents of the other kind, as of now.
Snapshot(c) ==
    /\ pc[c] = "snapshot"
    /\ scan' = [scan EXCEPT ![c] = {d \in Calls : intent[d] # "absent" /\ role[d] # role[c]}]
    /\ found' = [found EXCEPT ![c] = FALSE]
    /\ Goto(c, "examine")
    /\ UNCHANGED <<role, intent, lock, sawOld, out, deadProcs, reusedPids, errors>>

\* Mutants of IntentActive: no grace for an empty intent, no probe of the pid.
ActiveWithoutGrace(c, d) == intent[d] \in {"full", "aged"} /\ SeemsAlive(c, d)
ActiveUnprobed(c, d) == intent[d] \in {"empty", "full", "aged"}

IntentActive(c, d) ==
    \/ intent[d] = "empty"
    \/ intent[d] \in {"full", "aged"} /\ SeemsAlive(c, d)

\* An active intent counts, an orphan is removed.
Judge(c, d, active) ==
    /\ pc[c] = "examine"
    /\ d \in scan[c]
    /\ IF active
       THEN /\ found' = [found EXCEPT ![c] = TRUE]
            /\ scan' = [scan EXCEPT ![c] = @ \ {d}]
            /\ UNCHANGED intent
       ELSE /\ UnlinkIntent(d)
            /\ UNCHANGED found
    /\ UNCHANGED <<pc, role, lock, sawOld, out, deadProcs, reusedPids, errors>>

\* One round of the loop over the names.
Examine(c, d) == Judge(c, d, IntentActive(c, d))

\* The same when readOwnerRecord cannot read the file: without an owner the
\* age decides, of a complete intent of a live process too.
ExamineUnread(c, d) ==
    /\ "readIntent" \in errors
    /\ Judge(c, d, intent[d] \in {"empty", "full"})

\* readdir, lstat or the unlink of an orphan throws.
ScanFails(c) ==
    /\ "step" \in errors
    /\ pc[c] \in {"snapshot", "examine"}
    /\ Throws(c)
    /\ scan' = [scan EXCEPT ![c] = {}]
    /\ found' = [found EXCEPT ![c] = FALSE]
    /\ UNCHANGED <<role, intent, lock, sawOld, deadProcs, reusedPids, errors>>

\* Nothing active was found: an acquirer may make the directory, a reaper that
\* saw every acquisition intent drain may inspect it.
ScanClear(c) ==
    /\ pc[c] = "examine" /\ scan[c] = {} /\ ~found[c]
    /\ Goto(c, IF role[c] = "acquire" THEN "mkdir" ELSE "lstat")
    /\ UNCHANGED <<role, intent, scan, found, lock, sawOld, out, deadProcs, reusedPids, errors>>

\* blockedByReaper: the acquirer backs off without touching the directory.
BlockedByReaper(c) ==
    /\ pc[c] = "examine" /\ scan[c] = {} /\ found[c]
    /\ role[c] = "acquire"
    /\ Goto(c, "removeIntent")
    /\ out' = [out EXCEPT ![c] = "blocked"]
    /\ UNCHANGED <<role, intent, scan, found, lock, sawOld, deadProcs, reusedPids, errors>>

\* A reaper that found one sleeps and polls again, or its deadline has passed.
PollAgain(c) ==
    /\ pc[c] = "examine" /\ scan[c] = {} /\ found[c]
    /\ role[c] = "reap"
    /\ \/ Goto(c, "snapshot") /\ UNCHANGED out
       \/ "deadline" \in errors /\ Goto(c, "removeIntent") /\ out' = [out EXCEPT ![c] = "timeout"]
    /\ UNCHANGED <<role, intent, scan, found, lock, sawOld, deadProcs, reusedPids, errors>>

\* Where a call goes once its intent is gone: withLocalFileLock's finally
\* blocks and what follows them.
AfterIntent == [acquired |-> "critical", collided |-> "create", blocked |-> "retry",
                failed |-> "done", reaped |-> "create", kept |-> "retry", timeout |-> "done"]

\* A collided acquirer goes on as a reaper; everything else restarts as acquirer.
RoleAfterIntent(c) == IF out[c] = "collided" THEN "reap" ELSE "acquire"

RemoveIntent(c) ==
    /\ pc[c] = "removeIntent"
    /\ UnlinkIntent(c)
    /\ Goto(c, AfterIntent[out[c]])
    /\ role' = [role EXCEPT ![c] = RoleAfterIntent(c)]
    /\ out' = [out EXCEPT ![c] = "none"]
    /\ UNCHANGED <<found, lock, sawOld, deadProcs, reusedPids, errors>>

\* unlink fails: the call never enters its critical section with a live intent
\* left behind, it gives the lock back and throws.
RemoveIntentFails(c) ==
    /\ "removeIntent" \in errors
    /\ pc[c] = "removeIntent"
    /\ Goto(c, IF out[c] = "acquired" THEN "release" ELSE "done")
    /\ out' = [out EXCEPT ![c] = "none"]
    /\ UNCHANGED <<role, intent, scan, found, lock, sawOld, deadProcs, reusedPids, errors>>

(* Acquisition: mkdir and owner.json *)

\* Mutant of Mkdir: mkdir(recursive), which does not fail on what exists.
MkdirRecursive(c) ==
    /\ pc[c] = "mkdir"
    /\ lock' = [by |-> c, full |-> FALSE, old |-> FALSE]
    /\ Goto(c, "writeOwner")
    /\ UNCHANGED <<role, intent, scan, found, out, sawOld, deadProcs, reusedPids, errors>>

Mkdir(c) ==
    /\ pc[c] = "mkdir"
    /\ IF lock.by = NoCall
       THEN /\ lock' = [by |-> c, full |-> FALSE, old |-> FALSE]
            /\ Goto(c, "writeOwner")
            /\ UNCHANGED out
       ELSE /\ out' = [out EXCEPT ![c] = "collided"]
            /\ Goto(c, "removeIntent")
            /\ UNCHANGED lock
    /\ UNCHANGED <<role, intent, scan, found, sawOld, deadProcs, reusedPids, errors>>

\* mkdir throws something else than EEXIST.
MkdirFails(c) ==
    /\ "step" \in errors
    /\ pc[c] = "mkdir"
    /\ Throws(c)
    /\ UNCHANGED <<role, intent, scan, found, lock, sawOld, deadProcs, reusedPids, errors>>

\* writeFile(owner.json, "wx"): ENOENT without the directory, EEXIST when the
\* directory there has an owner.json; the caller takes the latter for a collision.
WriteOwner(c) ==
    /\ pc[c] = "writeOwner"
    /\ IF lock.by # NoCall /\ ~lock.full
       THEN /\ lock' = [by |-> c, full |-> TRUE, old |-> FALSE]
            /\ Goto(c, "removeIntent")
            /\ out' = [out EXCEPT ![c] = "acquired"]
       ELSE /\ Goto(c, "discard")
            /\ out' = [out EXCEPT ![c] = IF lock.full THEN "collided" ELSE "failed"]
            /\ UNCHANGED lock
    /\ UNCHANGED <<role, intent, scan, found, sawOld, deadProcs, reusedPids, errors>>

\* The write is refused, or reports an error after the bytes arrived.
WriteOwnerFails(c) ==
    /\ "ownerWrite" \in errors
    /\ pc[c] = "writeOwner"
    /\ \/ UNCHANGED lock
       \/ /\ lock.by # NoCall /\ ~lock.full
          /\ lock' = [by |-> c, full |-> TRUE, old |-> FALSE]
    /\ Goto(c, "discard")
    /\ out' = [out EXCEPT ![c] = "failed"]
    /\ UNCHANGED <<role, intent, scan, found, sawOld, deadProcs, reusedPids, errors>>

\* quarantineAndRemove of the directory that could not be owned.  A rename that
\* fails is swallowed.
Discard(c) ==
    /\ pc[c] = "discard"
    /\ \/ lock' = NoLock
       \/ "quarantine" \in errors /\ UNCHANGED lock
    /\ Goto(c, "removeIntent")
    /\ UNCHANGED <<role, intent, scan, found, sawOld, out, deadProcs, reusedPids, errors>>

(* reapDeadSameHostOwner *)

Lstat(c) ==
    /\ pc[c] = "lstat"
    /\ IF lock.by = NoCall
       THEN /\ out' = [out EXCEPT ![c] = "reaped"]
            /\ Goto(c, "removeIntent")
            /\ UNCHANGED sawOld
       ELSE /\ sawOld' = [sawOld EXCEPT ![c] = lock.old]
            /\ Goto(c, "readOwner")
            /\ UNCHANGED out
    /\ UNCHANGED <<role, intent, scan, found, lock, deadProcs, reusedPids, errors>>

\* Mutant of Reapable: the age decides whatever owner.json says.
ReapableByAge(c) == sawOld[c]

\* Without a readable owner the age lstat gave decides, with one its pid does.
Reapable(c) ==
    IF lock.full THEN ~SeemsAlive(c, lock.by) ELSE sawOld[c]

Inspect(c, reap) ==
    /\ pc[c] = "readOwner"
    /\ IF reap
       THEN Goto(c, "quarantine") /\ UNCHANGED out
       ELSE Goto(c, "removeIntent") /\ out' = [out EXCEPT ![c] = "kept"]
    /\ sawOld' = [sawOld EXCEPT ![c] = FALSE]
    /\ UNCHANGED <<role, intent, scan, found, lock, deadProcs, reusedPids, errors>>

ReadOwner(c) == Inspect(c, Reapable(c))

\* readOwnerRecord cannot read owner.json: null, as if there were no owner.
ReadOwnerFails(c) == "readOwner" \in errors /\ Inspect(c, sawOld[c])

\* lstat throws; the rename throws, or the removal of what it took away.
ReapFails(c) ==
    /\ "step" \in errors
    /\ pc[c] \in {"lstat", "quarantine"}
    /\ Throws(c)
    /\ lock' \in {lock} \cup (IF pc[c] = "quarantine" THEN {NoLock} ELSE {})
    /\ UNCHANGED <<role, intent, scan, found, sawOld, deadProcs, reusedPids, errors>>

\* rename takes whatever generation has the canonical name now; ENOENT means
\* another reaper was first.
Quarantine(c) ==
    /\ pc[c] = "quarantine"
    /\ \/ /\ lock' = NoLock
          /\ out' = [out EXCEPT ![c] = IF lock.by = NoCall THEN "kept" ELSE "reaped"]
       \/ /\ "quarantine" \in errors
          /\ out' = [out EXCEPT ![c] = "kept"]
          /\ UNCHANGED lock
    /\ Goto(c, "removeIntent")
    /\ UNCHANGED <<role, intent, scan, found, sawOld, deadProcs, reusedPids, errors>>

\* The end of an attempt that did not get the lock: sleep and try again, or throw.
Retry(c) ==
    /\ pc[c] = "retry"
    /\ \/ Goto(c, "create")
       \/ "deadline" \in errors /\ Goto(c, "done")
    /\ UNCHANGED <<role, intent, scan, found, lock, sawOld, out, deadProcs, reusedPids, errors>>

(* The operation and releaseOwnedLock *)

OperationEnds(c) ==
    /\ pc[c] = "critical"
    /\ Goto(c, "release")
    /\ UNCHANGED <<role, intent, scan, found, lock, sawOld, out, deadProcs, reusedPids, errors>>

ReadOwnToken(c) ==
    /\ pc[c] = "release"
    /\ Goto(c, IF OwnedBy(c) THEN "rename" ELSE "done")
    /\ UNCHANGED <<role, intent, scan, found, lock, sawOld, out, deadProcs, reusedPids, errors>>

\* Both looks at the own token take a failing read for a lost lock: the lock
\* stays, in the name of a call that is over.
ReadTokenFails(c) ==
    /\ "readToken" \in errors
    /\ pc[c] \in {"release", "recheck"}
    /\ Goto(c, "done")
    /\ UNCHANGED <<role, intent, scan, found, lock, sawOld, out, deadProcs, reusedPids, errors>>

RenameReleased(c) ==
    /\ pc[c] = "rename"
    /\ \/ lock' = NoLock /\ Goto(c, "done")
       \/ /\ "releaseRename" \in errors /\ lock.by # NoCall
          /\ Goto(c, "recheck")
          /\ UNCHANGED lock
    /\ UNCHANGED <<role, intent, scan, found, sawOld, out, deadProcs, reusedPids, errors>>

RecheckToken(c) ==
    /\ pc[c] = "recheck"
    /\ Goto(c, IF OwnedBy(c) THEN "unlink" ELSE "done")
    /\ UNCHANGED <<role, intent, scan, found, lock, sawOld, out, deadProcs, reusedPids, errors>>

\* fs.rm(lockPath, {recursive}): first owner.json goes, which renews the mtime ...
UnlinkOwner(c) ==
    /\ pc[c] = "unlink"
    /\ lock' = IF lock.by = NoCall THEN lock ELSE [lock EXCEPT !.full = FALSE, !.old = FALSE]
    /\ Goto(c, "rmdir")
    /\ UNCHANGED <<role, intent, scan, found, sawOld, out, deadProcs, reusedPids, errors>>

\* ... then the directory, which rmdir only removes when it is empty.
RmdirReleased(c) ==
    /\ pc[c] = "rmdir"
    /\ lock' = IF lock.full THEN lock ELSE NoLock
    /\ Goto(c, "done")
    /\ UNCHANGED <<role, intent, scan, found, sawOld, out, deadProcs, reusedPids, errors>>

\* fs.rm fails at either step and throws.
RemovalFails(c) ==
    /\ "step" \in errors
    /\ pc[c] \in {"unlink", "rmdir"}
    /\ Goto(c, "done")
    /\ UNCHANGED <<role, intent, scan, found, lock, sawOld, out, deadProcs, reusedPids, errors>>

(* The environment: time and processes *)

\* orphanGraceMs pass.  A call that is between the create and the write of a
\* file, that makes the directory or is about to remove one, is done sooner
\* unless it may stall; a reaper may wait for long with its intent published.
\* The age of a complete intent is looked at only when its read fails.
IntentAges(c) ==
    /\ \/ /\ intent[c] = "empty"
          /\ "stall" \in errors \/ pc[c] # "fill"
          /\ intent' = [intent EXCEPT ![c] = "stale"]
       \/ /\ intent[c] = "full" /\ "readIntent" \in errors
          /\ "stall" \in errors \/ role[c] = "reap" \/ pc[c] \in {"done", "dead"}
          /\ intent' = [intent EXCEPT ![c] = "aged"]
    /\ UNCHANGED <<pc, role, scan, found, lock, sawOld, out, deadProcs, reusedPids, errors>>

LockAges ==
    /\ lock.by # NoCall /\ ~lock.old
    /\ lock.full \/ "stall" \in errors \/ pc[lock.by] \notin {"writeOwner", "discard", "rmdir"}
    /\ lock' = [lock EXCEPT !.old = TRUE]
    /\ UNCHANGED <<pc, role, intent, scan, found, sawOld, out, deadProcs, reusedPids, errors>>

\* The process dies with every call it runs; files stay as they are.
Crash(p) ==
    /\ p \notin deadProcs
    /\ deadProcs' = deadProcs \cup {p}
    /\ LET kept(f, v) == [c \in Calls |-> IF ProcOf[c] = p THEN v ELSE f[c]]
       IN  /\ pc' = kept(pc, "dead")
           /\ scan' = kept(scan, {})
           /\ found' = kept(found, FALSE)
           /\ sawOld' = kept(sawOld, FALSE)
           /\ out' = kept(out, "none")
    /\ UNCHANGED <<role, intent, lock, reusedPids, errors>>

ReusePid(p) ==
    /\ "reusedPid" \in errors
    /\ p \in deadProcs \ reusedPids
    /\ reusedPids' = reusedPids \cup {p}
    /\ UNCHANGED <<pc, role, intent, scan, found, lock, sawOld, out, deadProcs, errors>>

\* The steps of one call that meet no other error than the rename of a dead
\* directory or of a released one that fails.
Step(c) ==
    \/ CreateIntent(c) \/ FillIntent(c) \/ Snapshot(c)
    \/ \E d \in Calls : Examine(c, d)
    \/ ScanClear(c) \/ BlockedByReaper(c) \/ PollAgain(c)
    \/ RemoveIntent(c)
    \/ Mkdir(c) \/ WriteOwner(c) \/ Discard(c)
    \/ Lstat(c) \/ ReadOwner(c) \/ Quarantine(c) \/ Retry(c)
    \/ OperationEnds(c) \/ ReadOwnToken(c) \/ RenameReleased(c)
    \/ RecheckToken(c) \/ UnlinkOwner(c) \/ RmdirReleased(c)

\* The other errors.
Fails(c) ==
    \/ CreateIntentFails(c) \/ ScanFails(c) \/ RemoveIntentFails(c)
    \/ \E d \in Calls : ExamineUnread(c, d)
    \/ MkdirFails(c) \/ WriteOwnerFails(c)
    \/ ReadOwnerFails(c) \/ ReapFails(c)
    \/ ReadTokenFails(c) \/ RemovalFails(c)

Next ==
    \/ \E c \in Calls : Step(c) \/ Fails(c)
    \/ LockAges
    \/ \E c \in Calls : IntentAges(c)
    \/ \E p \in Procs : Crash(p) \/ ReusePid(p)

Spec == Init /\ [][Next]_vars
=============================================================================
