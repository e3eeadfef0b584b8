--------------------------- MODULE VaultStoreProps ---------------------------
(* What is checked of VaultStore.                                            *)
EXTENDS VaultStore

PCs == {"idle", "done", "lock", "main", "guard", "establish", "backup", "empty", "lockRestore",
        "restore", "got", "newKey", "write", "publish", "inspect", "archive", "archiveMain"}

Values == Blobs \cup Unreadable \cup {None}

CallRecords ==
    [pc : PCs, main : Values, backup : Values, reads : 0..ReadAttempts - 1,
     writes : 0..WriteAttempts - 1, key : Keys \cup {None}, floor : SUBSET Changes]

\* A call that goes on from a value it read has one.
HasRead(l) ==
    /\ l.pc \in {"guard", "establish"} => l.main \in Blobs
    /\ l.pc \in {"lockRestore", "restore"} => l.backup \in Blobs
    /\ l.pc \in {"got", "newKey", "write", "publish"} => l.main \in Blobs \cup {None}
    /\ l.pc \in {"write", "publish"} => l.key \in Keys

\* Every variable has its type.
TypeOK ==
    /\ backend \in Backends /\ fenced \in BOOLEAN
    /\ main \in Values /\ backup \in Values /\ proof \in Keys \cup {None}
    /\ holder \in Calls \cup {Nobody}
    /\ call \in [Calls -> CallRecords]
    /\ known \subseteq Changes
    /\ damages \in 0..MaxDamage
    /\ \A c \in Calls : HasRead(call[c])

Copies == {main, backup}

\* What a caller was told is never undone, whichever copy is used next: a saved
\* change, or one that was read, is in every readable copy, and the vault is only
\* missing when nothing was.  So an unreadable copy never becomes an older list
\* or an empty one, and no writer loses the change of another (vault.ts:1520-1523).
SeenKept ==
    /\ \A raw \in Copies \cap Blobs : known \subseteq raw.changes
    /\ Copies = {None} => known = {}

\* A call never gets a list older than what somebody was told before it began,
\* restored from the backup or not.
ReadsRecent ==
    \A c \in Calls : At(c, "got") => call[c].floor \subseteq ChangesOf(call[c].main)

\* All readable remote copies are under the key the proof names: instances that
\* are configured with different secrets do not take a vault from each other.
OneKey ==
    Remote /\ proof # None => \A raw \in Copies \cap Blobs : raw.key = proof

\* After a recovery the app starts with an empty vault: no backup is left that the
\* next load would trip over (vault.ts:798-799, 870-871).
ArchiveLeavesNothing ==
    [][main # None /\ main' = None => backup' = None]_vars

\* The copy the next load goes by.
Current == IF main \in Blobs THEN main ELSE backup

\* The list of accounts behind the copies, as loadAccounts and mutateAccounts
\* promise it.
List == INSTANCE SharedList WITH
    list <- ChangesOf(Current),
    lost <- Current \notin Blobs /\ Copies # {None}

\* The copies, the keys, the locks and the retries implement the list: every
\* mutation happens in one step to the list that is there, whatever else reads,
\* writes, restores, fails or crashes between its steps (vault.ts:1607-1653).
ImplementsList == List!Spec

-----------------------------------------------------------------------------
(* The inductive invariant behind SeenKept, ReadsRecent and OneKey: what     *)
(* holds of the copies, and of each call c with its locals l.                *)

LocalSteps == {"lock", "lockRestore", "publish", "inspect", "archive", "archiveMain"}
RemoteSteps == {"guard", "establish", "empty", "newKey"}

ReaderSteps ==
    {"idle", "main", "guard", "establish", "backup", "empty", "lockRestore", "restore", "got"}
WriterSteps ==
    {"idle", "done", "lock", "main", "guard", "establish", "backup", "empty", "restore", "got",
     "newKey", "write", "publish"}
ArchiverSteps == {"idle", "lock", "inspect", "archive", "archiveMain"}

\* The steps c takes with the lock of the local vault.
InLock(c, l) == IF c \in Readers THEN l.pc = "restore" ELSE l.pc \notin {"idle", "done", "lock"}

\* Where the call can be; one call at a time has the lock.
Place(c, l) ==
    /\ c \in Readers => l.pc \in ReaderSteps
    /\ c \in Writers => l.pc \in WriterSteps
    /\ c \in Archivers => l.pc \in ArchiverSteps
    /\ Remote => l.pc \notin LocalSteps
    /\ File => l.pc \notin RemoteSteps /\ (InLock(c, l) => holder = c)

Within(s, raw) == raw \in Blobs => s \subseteq raw.changes

\* main is still what the call in the lock has read, or has become unreadable.
Steady(l) == main = l.main \/ (l.main # None /\ main \in Unreadable)

\* What the call in the lock counts on.
Locked(c, l) ==
    File /\ c \notin Readers =>
        /\ l.pc \in {"backup", "restore", "got", "write", "publish", "archive", "archiveMain"}
               => Steady(l)
        /\ l.pc \in {"got", "write", "publish"} => known \subseteq ChangesOf(l.main)
        /\ l.pc = "publish" =>
               backup \in Unreadable
               \/ backup = [changes |-> ChangesOf(l.main) \cup {c}, key |-> l.key]
        /\ l.pc \in {"archive", "archiveMain"} =>
               Within(known, l.backup) /\ (main \in Blobs => Within(main.changes, l.backup))

\* What a call began with is known; what it has read is not older than that, nor
\* newer than the copies.
Recent(l) ==
    /\ l.floor \subseteq known
    /\ l.pc = "empty" \/ (l.pc = "backup" /\ l.main = None) => l.floor = {}
    /\ l.pc = "got" => l.floor \subseteq ChangesOf(l.main)
    /\ l.pc \in {"guard", "establish"} =>
           /\ l.floor \subseteq l.main.changes
           /\ main # None
           /\ Within(l.main.changes, main) /\ Within(l.main.changes, backup)

CallInv(c, l) == Place(c, l) /\ HasRead(l) /\ Locked(c, l) /\ Recent(l)

\* The copies hold what is known, and the backup is not behind main.
CopyInv ==
    /\ Within(known, main) /\ Within(known, backup)
    /\ main \in Blobs => Within(main.changes, backup)
    /\ main = None => known = {}
    /\ Remote /\ backup # None => proof # None \/ fenced

\* raw is at most one change ahead of s.
Near(s, raw) == raw \in Blobs => \E c \in Changes : raw.changes \subseteq s \cup {c}

\* What ImplementsList needs besides IInv.  No backup turns up where a writer saw
\* no vault, nor where an archive found none or took one away, and what an archive
\* may put back is one change ahead of main at most.
Seen(c, l) ==
    /\ c \in Writers /\ File /\ l.pc \in {"got", "write"} /\ l.main = None => backup = None
    /\ c \in Archivers /\ l.pc \in {"archive", "archiveMain"} =>
          /\ l.main # None
          /\ main \in Blobs => Near(main.changes, l.backup)
          /\ l.pc = "archive" /\ l.backup = None => backup = None
          /\ l.pc = "archiveMain" => backup \notin Blobs

\* So a copy that takes the place of main adds one change at most.
ListInv ==
    /\ main \in Blobs => Near(main.changes, backup)
    /\ Remote /\ main = None => backup = None
    /\ \A c \in Calls : Seen(c, call[c])

IInv ==
    /\ TypeOK /\ CopyInv /\ OneKey
    /\ \A c \in Calls : CallInv(c, call[c])
=============================================================================
