----------------------------- MODULE VaultStore -----------------------------
(* The account vault of one user: one encrypted list of accounts, kept in a  *)
(* main and a last-good copy, as local files under the lock of               *)
(* GenerationLock or as rows of Convex or Redis with a proof of their key    *)
(* (lib/vault.ts, convex/vault.ts).                                          *)
(*                                                                           *)
(* A call is one loadAccounts, mutateAccounts or recoverUnreadableLocalVault *)
(* of a process.  One action is one file operation or one request, and       *)
(* everything else may happen between two of them.                           *)
(*                                                                           *)
(* The list is the set of changes it has gone through, so a removed account  *)
(* is one more change.  Every change is made once: a copy is the set of its  *)
(* changes and the key it is encrypted with.                                 *)
EXTENDS Naturals

CONSTANTS
    Writers,      \* calls of mutateAccounts, each with one change of its own
    Readers,      \* calls of loadAccounts, repeated
    Archivers,    \* calls of recoverUnreadableLocalVault, repeated
    Legacy,       \* writes of app versions from before the tenant proof, to Convex
    Old,          \* what a vault saved before the backup existed holds
    ProcOf,       \* ProcOf[c]: the process of call c
    Keys,         \* encryption secrets
    RingOf,       \* RingOf[p]: decryptionCandidates of process p
    AllowedOf,    \* AllowedOf[p]: those assertCredentialKeyAllowed lets through
    OwnOf,        \* OwnOf[p]: the one p encrypts a new vault with
    None,         \* no file, row or key
    Nobody,       \* no call
    Garbled,      \* a value no key decrypts
    Empty,        \* another one: the empty string
    Backends,     \* a subset of BackendKinds; "remote" is Convex or Redis
    Faults,       \* the failures that may occur, a subset of FaultKinds
    MaxDamage,    \* bound: copies that become unreadable
    ReadAttempts, \* the 3 of readParsedAccounts
    WriteAttempts \* the 12 of mutateAccounts

BackendKinds == {"file", "remote"}
FaultKinds == {"storage", "answer", "crash"}

Calls == Writers \cup Readers \cup Archivers
Processes == {ProcOf[c] : c \in Calls}
Changes == Writers \cup Legacy \cup {Old}
Blobs == [changes : SUBSET Changes, key : Keys]

ASSUME VaultAssumption ==
    /\ Nobody \notin Calls /\ Old \notin Writers \cup Legacy
    /\ Writers \cap Readers = {} /\ Writers \cap Archivers = {} /\ Readers \cap Archivers = {}
    /\ None \notin Keys /\ {None, Garbled, Empty} \cap Blobs = {}
    /\ None \notin {Garbled, Empty} /\ Garbled # Empty
    /\ Backends \subseteq BackendKinds /\ Faults \subseteq FaultKinds
    /\ \A p \in Processes : OwnOf[p] \in AllowedOf[p] /\ AllowedOf[p] \subseteq RingOf[p]
                            /\ RingOf[p] \subseteq Keys
    /\ MaxDamage \in Nat /\ ReadAttempts \in Nat \ {0} /\ WriteAttempts \in Nat \ {0}

VARIABLES
    backend,  \* where this deployment keeps the vault, which never changes
    fenced,   \* the global proof row of the versions before the tenant's exists
    main,     \* vault.enc or the accounts row
    backup,   \* vault.enc.last-good or the accounts-last-good row
    proof,    \* the fingerprint of the key the remote rows are under
    holder,   \* the call that holds the lock of the local vault
    call,     \* call[c]: the locals of call c
    known,    \* the changes some call of this version was told of: saved or read
    damages   \* how many copies have become unreadable

stored == <<main, backup, proof>>
vars == <<backend, fenced, stored, holder, call, known, damages>>

\* The locals of readParsedAccounts and its callers: the main and the backup
\* value read, the attempts made, the key to write with, and what was known when
\* the call began.
Idle == [pc |-> "idle", main |-> None, backup |-> None, reads |-> 0, writes |-> 0,
         key |-> None, floor |-> {}]

Init ==
    /\ backend \in Backends
    /\ main \in {None} \cup {[changes |-> {Old}, key |-> k] : k \in Keys}
    /\ \/ backup = None /\ fenced = FALSE
       \/ backend = "remote" /\ main # None /\ backup = main /\ fenced = TRUE
    /\ proof = None
    /\ holder = Nobody
    /\ call = [c \in Calls |-> Idle]
    /\ known = {}
    /\ damages = 0

(* Helpers *)

At(c, label) == call[c].pc = label
Goto(c, label) == call' = [call EXCEPT ![c].pc = label]

File == backend = "file"
Remote == backend = "remote"

Unreadable == {Garbled, Empty}

\* parseRawAccountsState with the keys of the process of c.
Readable(c, raw) == raw \notin {None} \cup Unreadable /\ raw.key \in RingOf[ProcOf[c]]
Allowed(c, key) == key \in AllowedOf[ProcOf[c]]

ChangesOf(raw) == IF raw \in {None} \cup Unreadable THEN {} ELSE raw.changes

Released(c) == IF holder = c THEN Nobody ELSE holder

\* The call is over, with its answer or an error, and its lock is released.
End(c) ==
    /\ call' = [call EXCEPT ![c] = [Idle EXCEPT !.pc = IF c \in Writers THEN "done" ELSE "idle"]]
    /\ holder' = Released(c)

Throws(c) == End(c) /\ UNCHANGED <<backend, fenced, stored, known, damages>>

\* serializeForUser: the mutations and recoveries of a process go one by one.
QueueFree(c) ==
    \A d \in Writers \cup Archivers :
        ProcOf[d] = ProcOf[c] => call[d].pc \in {"idle", "done"}

\* readParsedAccounts is over: c has the vault raw.  Only a restore by a reader
\* has a lock to release here.
Got(c, raw) ==
    /\ call' = [call EXCEPT ![c].pc = "got", ![c].main = raw, ![c].backup = None, ![c].reads = 0]
    /\ known' = known \cup ChangesOf(raw)
    /\ holder' = IF c \in Readers THEN Released(c) ELSE holder

\* A compare failed: read everything again, at most ReadAttempts times.
ReadAgain(c) ==
    /\ IF call[c].reads + 1 < ReadAttempts
       THEN /\ call' = [call EXCEPT ![c].pc = "main", ![c].main = None, ![c].backup = None,
                                    ![c].reads = @ + 1]
            /\ holder' = IF c \in Readers THEN Released(c) ELSE holder
       ELSE End(c)
    /\ UNCHANGED <<backend, fenced, stored, known, damages>>

\* The proof lets somebody with this key write the remote rows.
ProofAllows(key) == proof \in {None, key}

\* Mutant: the write does not look whether somebody else was faster.
CommitAnyway(expected, blob) ==
    /\ ProofAllows(blob.key)
    /\ main' = blob /\ backup' = blob /\ proof' = blob.key

\* compareAndSet: main, backup and proof in one transaction.
Commit(expected, blob) ==
    /\ main = expected /\ ProofAllows(blob.key)
    /\ main' = blob /\ backup' = blob /\ proof' = blob.key

(* loadAccounts, and the reading part of mutateAccounts *)

Start(c) ==
    /\ At(c, "idle")
    /\ c \notin Readers => QueueFree(c)
    /\ c \in Archivers => File
    /\ call' = [call EXCEPT ![c].pc = IF File /\ c \notin Readers THEN "lock" ELSE "main",
                            ![c].floor = known]
    /\ UNCHANGED <<backend, fenced, stored, holder, known, damages>>

Lock(c) ==
    /\ At(c, "lock") \/ At(c, "lockRestore")
    /\ holder = Nobody
    /\ holder' = c
    /\ Goto(c, IF At(c, "lockRestore") THEN "restore"
               ELSE IF c \in Writers THEN "main" ELSE "inspect")
    /\ UNCHANGED <<backend, fenced, stored, known, damages>>

\* A key the deployment no longer allows ends the call; a main that cannot be
\* read sends it to the backup, as does a missing one.
ReadMain(c) ==
    /\ At(c, "main")
    /\ IF ~Readable(c, main)
       THEN call' = [call EXCEPT ![c].pc = "backup", ![c].main = main]
            /\ UNCHANGED <<holder, known>>
       ELSE IF ~Allowed(c, main.key) THEN End(c) /\ UNCHANGED known
       ELSE IF File THEN Got(c, main)
       ELSE call' = [call EXCEPT ![c].pc = "guard", ![c].main = main]
            /\ UNCHANGED <<holder, known>>
    /\ UNCHANGED <<backend, fenced, stored, damages>>

\* ensureRemoteGenerationGuarded: without a proof, establish it and mirror main.
Guard(c) ==
    /\ At(c, "guard")
    /\ IF proof = call[c].main.key THEN Got(c, call[c].main)
       ELSE Goto(c, IF proof = None THEN "establish" ELSE "backup") /\ UNCHANGED <<holder, known>>
    /\ UNCHANGED <<backend, fenced, stored, damages>>

Establish(c) ==
    /\ At(c, "establish")
    /\ Commit(call[c].main, call[c].main)
    /\ Got(c, call[c].main)
    /\ UNCHANGED <<backend, fenced, damages>>

EstablishRefused(c) ==
    /\ At(c, "establish")
    /\ IF main # call[c].main THEN ReadAgain(c)
       ELSE /\ ~ProofAllows(call[c].main.key)
            /\ Goto(c, "backup") /\ UNCHANGED <<backend, fenced, stored, holder, known, damages>>

\* Whatever goes wrong in the guard counts as a main that cannot be read.
GuardFails(c) ==
    /\ At(c, "guard") \/ At(c, "establish")
    /\ "storage" \in Faults
    /\ Goto(c, "backup")
    /\ UNCHANGED <<backend, fenced, stored, holder, known, damages>>

EstablishUnanswered(c) ==
    /\ At(c, "establish")
    /\ "answer" \in Faults
    /\ Commit(call[c].main, call[c].main)
    /\ Goto(c, "backup")
    /\ UNCHANGED <<backend, fenced, holder, known, damages>>

\* Mutant: a vault whose only copy cannot be read counts as empty.
ReadBackupForgiving(c) ==
    /\ At(c, "backup")
    /\ IF backup = None THEN Got(c, None) /\ UNCHANGED <<backend, fenced, stored, damages>>
       ELSE IF Readable(c, backup) /\ Allowed(c, backup.key)
       THEN /\ call' = [call EXCEPT ![c].backup = backup,
                                    ![c].pc = IF File /\ c \in Readers THEN "lockRestore"
                                              ELSE "restore"]
            /\ UNCHANGED <<backend, fenced, stored, holder, known, damages>>
       ELSE Throws(c)

\* No copy at all is an empty vault, but a main without a readable backup is an
\* error.
ReadBackup(c) ==
    /\ At(c, "backup")
    /\ IF backup = None /\ call[c].main = None
       THEN IF File THEN Got(c, None) /\ UNCHANGED <<backend, fenced, stored, damages>>
            ELSE Goto(c, "empty") /\ UNCHANGED <<backend, fenced, stored, holder, known, damages>>
       ELSE IF Readable(c, backup) /\ Allowed(c, backup.key)
       THEN /\ call' = [call EXCEPT ![c].backup = backup,
                                    ![c].pc = IF File /\ c \in Readers THEN "lockRestore"
                                              ELSE "restore"]
            /\ UNCHANGED <<backend, fenced, stored, holder, known, damages>>
       ELSE Throws(c)

\* assertEmptyRemoteVaultProofAllowed.
EmptyProof(c) ==
    /\ At(c, "empty")
    /\ IF proof = None \/ Allowed(c, proof)
       THEN Got(c, None) /\ UNCHANGED <<backend, fenced, stored, damages>>
       ELSE Throws(c)

\* restoreBackupRaw: both copies are still what was read.
Unmoved(c) == main = call[c].main /\ backup = call[c].backup

Restored(c) ==
    /\ At(c, "restore") /\ Unmoved(c)
    /\ Remote => ProofAllows(backup.key)
    /\ main' = backup
    /\ proof' = IF Remote THEN backup.key ELSE proof
    /\ UNCHANGED backup

Restore(c) ==
    /\ Restored(c)
    /\ Got(c, backup)
    /\ UNCHANGED <<backend, fenced, damages>>

RestoreUnanswered(c) ==
    /\ "answer" \in Faults /\ Remote
    /\ Restored(c)
    /\ End(c)
    /\ UNCHANGED <<backend, fenced, known, damages>>

RestoreRefused(c) ==
    /\ At(c, "restore")
    /\ IF Unmoved(c) THEN Remote /\ ~ProofAllows(backup.key) /\ Throws(c) ELSE ReadAgain(c)

Return(c) ==
    /\ At(c, "got") /\ c \in Readers
    /\ End(c)
    /\ UNCHANGED <<backend, fenced, stored, known, damages>>

(* mutateAccounts *)

\* The callback returns the list it was given.
NoChange(c) ==
    /\ At(c, "got") /\ c \in Writers
    /\ End(c)
    /\ UNCHANGED <<backend, fenced, stored, known, damages>>

\* Remote rows stay under the key that read them; a new one asks the proof.
Mutate(c) ==
    /\ At(c, "got") /\ c \in Writers
    /\ call' = IF Remote /\ call[c].main = None THEN [call EXCEPT ![c].pc = "newKey"]
               ELSE [call EXCEPT ![c].pc = "write",
                                 ![c].key = IF File THEN OwnOf[ProcOf[c]] ELSE call[c].main.key]
    /\ UNCHANGED <<backend, fenced, stored, holder, known, damages>>

\* encryptionSecretForNewVault.
NewKey(c) ==
    /\ At(c, "newKey")
    /\ IF proof = None \/ Allowed(c, proof)
       THEN /\ call' = [call EXCEPT ![c].pc = "write",
                                    ![c].key = IF proof = None THEN OwnOf[ProcOf[c]] ELSE proof]
            /\ UNCHANGED <<backend, fenced, stored, holder, known, damages>>
       ELSE Throws(c)

\* What c saves.
Changed(c) == [changes |-> ChangesOf(call[c].main) \cup {c}, key |-> call[c].key]

Saved(c) == End(c) /\ known' = known \cup Changed(c).changes

WriteRow(c) ==
    /\ At(c, "write") /\ Remote
    /\ Commit(call[c].main, Changed(c))
    /\ Saved(c)
    /\ UNCHANGED <<backend, fenced, damages>>

WriteRowUnanswered(c) ==
    /\ At(c, "write") /\ Remote
    /\ "answer" \in Faults
    /\ Commit(call[c].main, Changed(c))
    /\ End(c)
    /\ UNCHANGED <<backend, fenced, known, damages>>

\* Somebody else was faster: the callback runs again on what they saved.
WriteRowRefused(c) ==
    /\ At(c, "write") /\ Remote
    /\ IF main # call[c].main /\ call[c].writes + 1 < WriteAttempts
       THEN /\ call' = [call EXCEPT ![c] = [Idle EXCEPT !.pc = "main", !.floor = known,
                                                        !.writes = call[c].writes + 1]]
            /\ UNCHANGED <<backend, fenced, stored, holder, known, damages>>
       ELSE (main = call[c].main => ~ProofAllows(call[c].key)) /\ Throws(c)

\* Mutant: the backup keeps the generation before this one.
BackupPredecessor(c) ==
    /\ At(c, "write") /\ File
    /\ IF main = call[c].main
       THEN /\ backup' = main
            /\ Goto(c, "publish")
            /\ UNCHANGED <<backend, fenced, main, proof, holder, known, damages>>
       ELSE Throws(c)

\* The backup first, then main: a crash between leaves main as it was.
WriteBackup(c) ==
    /\ At(c, "write") /\ File
    /\ IF main = call[c].main
       THEN /\ backup' = Changed(c)
            /\ Goto(c, "publish")
            /\ UNCHANGED <<backend, fenced, main, proof, holder, known, damages>>
       ELSE Throws(c)

WriteMain(c) ==
    /\ At(c, "publish")
    /\ main' = Changed(c)
    /\ Saved(c)
    /\ UNCHANGED <<backend, fenced, backup, proof, damages>>

(* recoverUnreadableLocalVault *)

\* Refused for a missing or readable main, or while a readable backup is there.
Inspect(c) ==
    /\ At(c, "inspect")
    /\ IF main = None \/ Readable(c, main) \/ Readable(c, backup) THEN Throws(c)
       ELSE /\ call' = [call EXCEPT ![c].pc = "archive", ![c].main = main, ![c].backup = backup]
            /\ UNCHANGED <<backend, fenced, stored, holder, known, damages>>

\* The backup goes first.  One that is empty gets no archive name and stays.
ArchiveBackup(c) ==
    /\ At(c, "archive")
    /\ IF main = call[c].main /\ (call[c].backup # None => backup = call[c].backup)
       THEN /\ backup' = IF call[c].backup \in {None, Empty} THEN backup ELSE None
            /\ Goto(c, "archiveMain")
            /\ UNCHANGED <<backend, fenced, main, proof, holder, known, damages>>
       ELSE Throws(c)

\* The user has given the vault up: nothing of it is promised any longer.
ArchiveMain(c) ==
    /\ At(c, "archiveMain")
    /\ main' = None
    /\ known' = {}
    /\ call' = [d \in Calls |->
                   IF d = c THEN Idle ELSE [call[d] EXCEPT !.floor = {}]]
    /\ holder' = Released(c)
    /\ UNCHANGED <<backend, fenced, backup, proof, damages>>

\* The backup is moved back, unless that fails too.
ArchiveMainFails(c) ==
    /\ At(c, "archiveMain")
    /\ "storage" \in Faults
    /\ backup' \in {backup, IF call[c].backup \in {None, Empty} THEN backup ELSE call[c].backup}
    /\ End(c)
    /\ UNCHANGED <<backend, fenced, main, proof, known, damages>>

(* The environment *)

\* An operation or request fails and has done nothing, or no lock is to be had.
StorageFails(c) ==
    /\ call[c].pc \in {"lock", "lockRestore", "main", "backup", "empty", "restore", "newKey",
                       "write", "publish", "inspect", "archive"}
    /\ "storage" \in Faults
    /\ Throws(c)

\* A process dies with all its calls.  GenerationLock lets somebody take over
\* its lock at some later time; it is free at once here.
Crash(p) ==
    /\ "crash" \in Faults
    /\ \E c \in Calls : ProcOf[c] = p /\ call[c].pc \notin {"idle", "done"}
    /\ call' = [c \in Calls |->
                   IF ProcOf[c] # p \/ call[c].pc \in {"idle", "done"} THEN call[c]
                   ELSE [Idle EXCEPT !.pc = IF c \in Writers THEN "done" ELSE "idle"]]
    /\ holder' = IF holder # Nobody /\ ProcOf[holder] = p THEN Nobody ELSE holder
    /\ UNCHANGED <<backend, fenced, stored, known, damages>>

\* A copy can no longer be read.  No code tells an empty main from another one.
Damage ==
    /\ damages < MaxDamage
    /\ damages' = damages + 1
    /\ \/ main \notin {None, Garbled} /\ main' = Garbled /\ UNCHANGED backup
       \/ backup # None /\ backup' \in Unreadable \ {backup} /\ UNCHANGED main
    /\ UNCHANGED <<backend, fenced, proof, holder, call, known>>

\* What an older version with some key makes of main.
LegacyBlobs(l) == {[changes |-> ChangesOf(main) \cup {l}, key |-> k] : k \in Keys}

\* Mutant: older versions are not turned away.
LegacyUnfenced(l) ==
    /\ Remote /\ ~fenced
    /\ main \notin Unreadable /\ l \notin ChangesOf(main) \cup ChangesOf(backup)
    /\ main' \in LegacyBlobs(l)
    /\ UNCHANGED <<backend, fenced, backup, proof, holder, call, known, damages>>

\* The four-argument compareAndSet of the oldest versions, under the key they
\* have: assertLegacyWriterNotFenced turns it away once there is a proof.
LegacyWrite(l) ==
    /\ Remote /\ proof = None /\ ~fenced
    /\ main \notin Unreadable /\ l \notin ChangesOf(main) \cup ChangesOf(backup)
    /\ main' \in LegacyBlobs(l)
    /\ UNCHANGED <<backend, fenced, backup, proof, holder, call, known, damages>>

\* The compareAndSet of the versions in between, which writes the backup and the
\* global proof and so turns even its own successors away.
RolloutWrite(l) ==
    /\ Remote /\ proof = None /\ ~fenced
    /\ main \notin Unreadable /\ l \notin ChangesOf(main) \cup ChangesOf(backup)
    /\ main' \in LegacyBlobs(l) /\ backup' = main'
    /\ fenced' = TRUE
    /\ UNCHANGED <<backend, proof, holder, call, known, damages>>

Load(c) ==
    \/ Start(c) \/ Lock(c) \/ ReadMain(c) \/ Guard(c) \/ Establish(c) \/ EstablishRefused(c)
    \/ GuardFails(c) \/ EstablishUnanswered(c) \/ ReadBackup(c) \/ EmptyProof(c)
    \/ Restore(c) \/ RestoreUnanswered(c) \/ RestoreRefused(c) \/ Return(c)

Change(c) ==
    \/ NoChange(c) \/ Mutate(c) \/ NewKey(c) \/ WriteRow(c) \/ WriteRowUnanswered(c)
    \/ WriteRowRefused(c) \/ WriteBackup(c) \/ WriteMain(c)

Archive(c) ==
    \/ Inspect(c) \/ ArchiveBackup(c) \/ ArchiveMain(c) \/ ArchiveMainFails(c)

Next ==
    \/ \E c \in Calls : Load(c) \/ Change(c) \/ Archive(c) \/ StorageFails(c)
    \/ \E p \in Processes : Crash(p)
    \/ Damage
    \/ \E l \in Legacy : LegacyWrite(l) \/ RolloutWrite(l)

Spec == Init /\ [][Next]_vars

=============================================================================
