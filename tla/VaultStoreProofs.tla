-------------------------- MODULE VaultStoreProofs --------------------------
(* Proofs about VaultStore, for any calls, processes, keys and failures.     *)
EXTENDS VaultStoreProps, TLAPS

Moves(c, l) == call' = [call EXCEPT ![c] = l]

LEMMA BlobFacts ==
    ASSUME NEW raw \in Blobs
    PROVE  /\ raw # None /\ raw \notin Unreadable /\ ChangesOf(raw) = raw.changes
           /\ raw.changes \subseteq Changes /\ raw.key \in Keys
<1>1. raw # None /\ raw \notin Unreadable
  BY VaultAssumption DEF VaultAssumption, Unreadable
<1>2. QED
  BY <1>1 DEF ChangesOf, Blobs

LEMMA BlobIs ==
    ASSUME NEW s \in SUBSET Changes, NEW k \in Keys, NEW raw, raw = [changes |-> s, key |-> k]
    PROVE  raw \in Blobs /\ raw.changes = s /\ raw.key = k
BY DEF Blobs

LEMMA ValueFacts ==
    ASSUME NEW raw \in Values
    PROVE  /\ raw \in Blobs \/ raw \in Unreadable \/ raw = None
           /\ None \notin Unreadable
           /\ \A c \in Calls : Readable(c, raw) => raw \in Blobs
           /\ raw \notin Blobs => ChangesOf(raw) = {}
BY VaultAssumption DEF VaultAssumption, Values, Unreadable, Readable, ChangesOf

LEMMA KeyFacts ==
    ASSUME NEW c \in Calls
    PROVE  /\ OwnOf[ProcOf[c]] \in Keys
           /\ \A k : Allowed(c, k) => k \in Keys
           /\ None \notin Keys /\ Nobody \notin Calls
BY VaultAssumption DEF VaultAssumption, Allowed, Processes

LEMMA Kinds ==
    /\ \A c \in Calls : c \in Readers \/ c \in Writers \/ c \in Archivers
    /\ \A c \in Readers : c \in Calls /\ c \notin Writers /\ c \notin Archivers
    /\ \A c \in Writers : c \in Calls /\ c \in Changes /\ c \notin Readers /\ c \notin Archivers
    /\ \A c \in Archivers : c \in Calls /\ c \notin Readers /\ c \notin Writers
BY VaultAssumption DEF VaultAssumption, Calls, Changes

LEMMA Zeros ==
    None \in Values /\ 0 \in 0..ReadAttempts - 1 /\ 0 \in 0..WriteAttempts - 1
BY VaultAssumption DEF VaultAssumption, Values

LEMMA Backend == ASSUME TypeOK PROVE (File \/ Remote) /\ ~(File /\ Remote)
BY VaultAssumption DEF VaultAssumption, TypeOK, File, Remote, BackendKinds

LEMMA OfCall ==
    ASSUME IInv, NEW c \in Calls
    PROVE  /\ call[c] \in CallRecords /\ call[c].pc \in PCs
           /\ call[c].main \in Values /\ call[c].backup \in Values
           /\ call[c].reads \in 0..ReadAttempts - 1 /\ call[c].writes \in 0..WriteAttempts - 1
           /\ call[c].key \in Keys \cup {None} /\ call[c].floor \in SUBSET Changes
           /\ CallInv(c, call[c])
BY DEF IInv, TypeOK, CallRecords

\* One call moves and the rest is left alone.
LEMMA Others ==
    ASSUME IInv, NEW c \in Calls, NEW l \in CallRecords, Moves(c, l)
    PROVE  /\ call' \in [Calls -> CallRecords] /\ call'[c] = l
           /\ \A d \in Calls \ {c} : call'[d] = call[d]
BY DEF IInv, TypeOK, Moves

LEMMA LocalStep ==
    ASSUME IInv, NEW c \in Calls, NEW l \in CallRecords, Moves(c, l),
           UNCHANGED <<backend, fenced, stored, known, damages>>,
           holder' \in Calls \cup {Nobody},
           \A d \in Calls \ {c} : holder = d => holder' = d,
           CallInv(c, l)'
    PROVE  IInv'
<1>1. /\ call' \in [Calls -> CallRecords] /\ call'[c] = l
      /\ \A d \in Calls \ {c} : call'[d] = call[d]
  BY Others
<1>2. ASSUME NEW d \in Calls PROVE CallInv(d, call[d])'
  <2>1. CASE d = c
    BY <1>1, <2>1
  <2>2. CASE d # c
    <3>1. CallInv(d, call[d]) /\ call'[d] = call[d]
      BY <1>1, <2>2, OfCall
    <3>2. Place(d, call[d])'
      BY <2>2, <3>1 DEF CallInv, Place, File, Remote, InLock, stored
    <3>3. Locked(d, call[d])' /\ Recent(call[d])' /\ HasRead(call[d])'
      BY <3>1 DEF CallInv, Locked, Recent, HasRead, File, Steady, Within, stored
    <3>4. QED
      BY <3>2, <3>3 DEF CallInv
  <2>3. QED
    BY <2>1, <2>2
<1>3. TypeOK'
  BY <1>1, <1>2 DEF IInv, TypeOK, stored, CallInv
<1>4. CopyInv' /\ OneKey'
  BY DEF IInv, CopyInv, OneKey, Copies, stored, Within, Remote
<1>5. QED
  BY <1>2, <1>3, <1>4 DEF IInv

\* A call that is over counts on nothing.
LEMMA Over ==
    ASSUME TypeOK, NEW c \in Calls, NEW l \in CallRecords,
           l.pc = (IF c \in Writers THEN "done" ELSE "idle") \/ l.pc = "idle", l.floor = {},
           backend' = backend
    PROVE  CallInv(c, l)'
<1>1. Place(c, l)'
  BY Kinds DEF Place, ReaderSteps, WriterSteps, ArchiverSteps, LocalSteps, RemoteSteps, InLock
<1>2. HasRead(l)' /\ Locked(c, l)' /\ Recent(l)'
  BY DEF HasRead, Locked, Recent
<1>3. QED
  BY <1>1, <1>2 DEF CallInv

LEMMA Ended ==
    ASSUME TypeOK, NEW c \in Calls, End(c)
    PROVE  \E l \in CallRecords :
               Moves(c, l) /\ l.pc = (IF c \in Writers THEN "done" ELSE "idle") /\ l.floor = {}
<1> DEFINE step == IF c \in Writers THEN "done" ELSE "idle"
<1>1. step \in PCs
  BY DEF PCs
<1>2. call' = [call EXCEPT ![c] = [Idle EXCEPT !.pc = step]]
  BY DEF End
<1>3. /\ [Idle EXCEPT !.pc = step] \in CallRecords
      /\ [Idle EXCEPT !.pc = step].pc = step /\ [Idle EXCEPT !.pc = step].floor = {}
  <2> HIDE DEF step
  <2>1. QED
    BY <1>1, VaultAssumption DEF VaultAssumption, Idle, CallRecords, Values, Changes
<1>4. QED
  BY <1>2, <1>3 DEF Moves

\* Its lock is free; nobody else's is.
LEMMA Unlocks ==
    ASSUME TypeOK, NEW c \in Calls, holder' = Released(c) \/ holder' = holder
    PROVE  /\ holder' \in Calls \cup {Nobody} /\ holder' \in {holder, Nobody}
           /\ \A d \in Calls \ {c} : holder = d => holder' = d
BY DEF TypeOK, Released

LEMMA EndKeeps ==
    ASSUME IInv, NEW c \in Calls, End(c), UNCHANGED <<backend, fenced, stored, known, damages>>
    PROVE  IInv'
<1>1. PICK l \in CallRecords :
         Moves(c, l) /\ l.pc = (IF c \in Writers THEN "done" ELSE "idle") /\ l.floor = {}
  BY Ended DEF IInv
<1>2. CallInv(c, l)'
  BY <1>1, Over DEF IInv
<1>3. /\ holder' \in Calls \cup {Nobody} /\ \A d \in Calls \ {c} : holder = d => holder' = d
  BY Unlocks DEF IInv, End
<1>4. QED
  BY <1>1, <1>2, <1>3, LocalStep

LEMMA ThrowsKeeps == ASSUME IInv, NEW c \in Calls, Throws(c) PROVE IInv'
BY EndKeeps DEF Throws

\* A call that reads everything again has read nothing yet.
LEMMA ReadAgainKeeps ==
    ASSUME IInv, NEW c \in Calls, ReadAgain(c), c \notin Archivers,
           call[c].pc \in {"establish", "restore"}
    PROVE  IInv'
<1>1. UNCHANGED <<backend, fenced, stored, known, damages>>
  BY DEF ReadAgain
<1>2. CASE call[c].reads + 1 < ReadAttempts
  <2>1. PICK l \in CallRecords :
           Moves(c, l) /\ l.pc = "main" /\ l.floor = call[c].floor
    <3>1. [call[c] EXCEPT !.pc = "main", !.main = None, !.backup = None, !.reads = @ + 1]
            \in CallRecords
      <4>1. call[c].reads + 1 \in 0..ReadAttempts - 1
        BY <1>2, OfCall, VaultAssumption DEF VaultAssumption
      <4>2. QED
        BY <4>1, OfCall DEF CallRecords, PCs, Values
    <3>2. call' = [call EXCEPT ![c] = [call[c] EXCEPT !.pc = "main", !.main = None,
                                                    !.backup = None, !.reads = @ + 1]]
      BY <1>2 DEF ReadAgain, IInv, TypeOK
    <3>3. QED
      BY <3>1, <3>2, OfCall DEF CallRecords, Moves
  <2>2. /\ holder' = IF c \in Readers THEN Released(c) ELSE holder
    BY <1>2 DEF ReadAgain
  <2>3. CallInv(c, l)'
    <3>1. Place(c, l)'
      BY <1>1, <2>1, <2>2, OfCall, Kinds, Backend
         DEF Place, CallInv, InLock, ReaderSteps, WriterSteps, LocalSteps, RemoteSteps,
             File, Remote, IInv
    <3>2. HasRead(l)' /\ Locked(c, l)' /\ Recent(l)'
      BY <1>1, <2>1, OfCall DEF HasRead, Locked, Recent, CallInv
    <3>3. QED
      BY <3>1, <3>2 DEF CallInv
  <2>4. holder' \in Calls \cup {Nobody} /\ \A d \in Calls \ {c} : holder = d => holder' = d
    BY <2>2, Unlocks DEF IInv
  <2>5. QED
    BY <1>1, <2>1, <2>3, <2>4, LocalStep
<1>3. CASE ~(call[c].reads + 1 < ReadAttempts)
  BY <1>1, <1>3, EndKeeps DEF ReadAgain
<1>4. QED
  BY <1>2, <1>3

\* What is left of a call after readParsedAccounts.
LEMMA GotLocal ==
    ASSUME IInv, NEW c \in Calls, NEW raw \in Values, Got(c, raw)
    PROVE  \E l \in CallRecords :
               Moves(c, l) /\ l.pc = "got" /\ l.main = raw /\ l.floor = call[c].floor
<1>1. [call[c] EXCEPT !.pc = "got", !.main = raw, !.backup = None, !.reads = 0] \in CallRecords
  BY OfCall, Zeros DEF CallRecords, PCs
<1>2. call' = [call EXCEPT ![c] = [call[c] EXCEPT !.pc = "got", !.main = raw, !.backup = None,
                                                !.reads = 0]]
  BY DEF Got, IInv, TypeOK
<1>3. QED
  BY <1>1, <1>2, OfCall DEF CallRecords, Moves

\* A call is given a list that is no newer than the copies: main itself, none at
\* all, or what it has read of guarded remote rows.
LEMMA GotKeeps ==
    ASSUME IInv, NEW c \in Calls, NEW raw \in Blobs \cup {None}, Got(c, raw),
           UNCHANGED <<backend, fenced, stored, damages>>,
           c \notin Archivers, call[c].pc \in {"main", "guard", "backup", "empty"},
           call[c].floor \subseteq ChangesOf(raw),
           Within(ChangesOf(raw), main), Within(ChangesOf(raw), backup),
           main = None => raw = None,
           File => raw = main \/ (raw = None /\ c \in Readers)
    PROVE  IInv'
<1>1. raw \in Values /\ ChangesOf(raw) \subseteq Changes
  BY BlobFacts DEF Values, ChangesOf
<1>2. PICK l \in CallRecords :
         Moves(c, l) /\ l.pc = "got" /\ l.main = raw /\ l.floor = call[c].floor
  BY <1>1, GotLocal
<1>3. /\ known' = known \cup ChangesOf(raw)
      /\ holder' = IF c \in Readers THEN Released(c) ELSE holder
  BY DEF Got
<1>4. /\ call' \in [Calls -> CallRecords] /\ call'[c] = l
      /\ \A d \in Calls \ {c} : call'[d] = call[d]
  BY <1>2, Others
<1>5. /\ holder' \in Calls \cup {Nobody} /\ \A d \in Calls \ {c} : holder = d => holder' = d
  BY <1>3, Unlocks DEF IInv
<1>6. CallInv(c, call[c]) /\ TypeOK /\ CopyInv /\ (File \/ Remote) /\ ~(File /\ Remote)
  BY OfCall, Backend DEF IInv
<1>7. raw \in Blobs => ChangesOf(raw) = raw.changes /\ raw \notin Unreadable
  BY BlobFacts
<1>8. raw = None => ChangesOf(raw) = {}
  BY DEF ChangesOf
<1>9. CallInv(c, l)'
  <2>1. Place(c, l)'
    BY <1>2, <1>3, <1>6, Kinds
       DEF Place, CallInv, InLock, ReaderSteps, WriterSteps, LocalSteps, RemoteSteps, File, Remote
  <2>2. HasRead(l)'
    BY <1>2 DEF HasRead
  <2>3. Locked(c, l)'
    <3>1. SUFFICES ASSUME File', c \notin Readers
                   PROVE  Steady(l)' /\ known' \subseteq ChangesOf(l.main)
      BY <1>2 DEF Locked
    <3>2. raw = main
      BY <3>1 DEF File
    <3>3. known \subseteq ChangesOf(raw)
      BY <3>2, <1>6, <1>7, <1>8 DEF CopyInv, Within
    <3>4. QED
      BY <1>2, <1>3, <3>2, <3>3 DEF Steady, stored
  <2>4. Recent(l)'
    BY <1>2, <1>3, <1>6 DEF Recent, CallInv
  <2>5. QED
    BY <2>1, <2>2, <2>3, <2>4 DEF CallInv
<1>10. ASSUME NEW d \in Calls, d # c PROVE CallInv(d, call[d])'
  <2>1. CallInv(d, call[d]) /\ call'[d] = call[d]
    BY <1>4, <1>10, OfCall
  <2>2. Place(d, call[d])' /\ HasRead(call[d])'
    BY <1>5, <1>10, <2>1 DEF CallInv, Place, HasRead, File, Remote, InLock
  <2>3. Recent(call[d])'
    BY <1>3, <2>1 DEF CallInv, Recent, Within, stored
  <2>4. Locked(d, call[d])'
    <3>1. CASE raw = None \/ Remote
      BY <1>3, <1>6, <1>8, <2>1, <3>1 DEF CallInv, Locked, Steady, Within, stored, File, Remote
    <3>2. CASE raw \in Blobs /\ raw = main
      <4>1. Steady(call[d]) => main = call[d].main
        BY <3>2, <1>7 DEF Steady
      <4>2. ChangesOf(call[d].main) = ChangesOf(call[d].main)' /\ Steady(call[d])' = Steady(call[d])
        BY <2>1 DEF Steady, stored
      <4>3. QED
        BY <1>3, <1>7, <2>1, <3>2, <4>1, <4>2 DEF CallInv, Locked, Within, stored, File
    <3>3. QED
      BY <1>6, <3>1, <3>2
  <2>5. QED
    BY <2>1, <2>2, <2>3, <2>4 DEF CallInv
<1>11. TypeOK'
  BY <1>1, <1>3, <1>4, <1>5, <1>9, <1>10 DEF IInv, TypeOK, stored, CallInv
<1>12. CopyInv' /\ OneKey'
  BY <1>3, <1>6, <1>8 DEF IInv, CopyInv, OneKey, Copies, stored, Within, Remote
<1>13. QED
  BY <1>4, <1>9, <1>10, <1>11, <1>12 DEF IInv

\* The remote rows get one blob, which contains what main and the backup had.
LEMMA RowsKeep ==
    ASSUME IInv, Remote, NEW c \in Calls, NEW l \in CallRecords, Moves(c, l),
           NEW blob \in Blobs, main' = blob, backup' = blob, proof' = blob.key,
           UNCHANGED <<backend, fenced, damages>>,
           main \in Blobs => main.changes \subseteq blob.changes,
           main \in Unreadable => backup = blob,
           known \subseteq known', known' \subseteq known \cup blob.changes,
           holder' \in Calls \cup {Nobody},
           \A d \in Calls \ {c} : holder = d => holder' = d,
           CallInv(c, l)'
    PROVE  IInv'
<1>1. /\ call' \in [Calls -> CallRecords] /\ call'[c] = l
      /\ \A d \in Calls \ {c} : call'[d] = call[d]
  BY Others
<1>2. TypeOK /\ CopyInv /\ (main \in Blobs \/ main \in Unreadable \/ main = None)
  BY ValueFacts DEF IInv, TypeOK
<1>3. /\ blob # None /\ blob \notin Unreadable /\ blob.changes \subseteq Changes
      /\ blob.key \in Keys /\ blob \in Values
  BY BlobFacts DEF Values
<1>4. known \subseteq blob.changes
  BY <1>2 DEF CopyInv, Within
<1>5. ASSUME NEW d \in Calls, d # c PROVE CallInv(d, call[d])'
  <2>1. CallInv(d, call[d]) /\ call'[d] = call[d]
    BY <1>1, <1>5, OfCall
  <2>2. Place(d, call[d])' /\ HasRead(call[d])' /\ Locked(d, call[d])'
    BY <1>2, <2>1, Backend DEF CallInv, Place, HasRead, Locked, File, Remote
  <2>3. Recent(call[d])'
    <3>1. call[d].pc \in {"guard", "establish"} => call[d].main.changes \subseteq blob.changes
      BY <1>2, <2>1 DEF CallInv, Recent, Within
    <3>2. QED
      BY <1>3, <2>1, <3>1 DEF CallInv, Recent, Within
  <2>4. QED
    BY <2>1, <2>2, <2>3 DEF CallInv
<1>6. ASSUME NEW d \in Calls PROVE CallInv(d, call[d])'
  BY <1>1, <1>5, <1>6
<1>7. TypeOK'
  BY <1>1, <1>2, <1>3, <1>6, KeyFacts DEF TypeOK, CallInv
<1>8. CopyInv' /\ OneKey'
  BY <1>2, <1>3, <1>4, KeyFacts DEF CopyInv, OneKey, Copies, Within, Remote
<1>9. QED
  BY <1>6, <1>7, <1>8 DEF IInv

\* The call in the lock of the local vault writes; the others count on nothing
\* it changes.
LEMMA OthersWait ==
    ASSUME IInv, File, NEW c \in Calls, InLock(c, call[c]), NEW d \in Calls \ {c},
           call'[d] = call[d], UNCHANGED backend, known \subseteq known'
    PROVE  CallInv(d, call[d])'
<1>1. CallInv(d, call[d]) /\ CallInv(c, call[c]) /\ TypeOK
  BY OfCall DEF IInv
<1>2. ~InLock(d, call[d]) /\ File'
  BY <1>1 DEF CallInv, Place, File
<1>3. Place(d, call[d])' /\ HasRead(call[d])'
  BY <1>1, <1>2, Backend DEF CallInv, Place, HasRead, InLock, File, Remote
<1>4. Locked(d, call[d])'
  BY <1>1, <1>2 DEF Locked, InLock
<1>5. Recent(call[d])'
  <2>1. call[d].pc \notin {"guard", "establish"}
    BY <1>1 DEF CallInv, Place, RemoteSteps
  <2>2. QED
    BY <1>1, <2>1 DEF CallInv, Recent
<1>6. QED
  BY <1>3, <1>4, <1>5 DEF CallInv

LEMMA FileKeeps ==
    ASSUME IInv, File, NEW c \in Calls, NEW l \in CallRecords, Moves(c, l),
           InLock(c, call[c]),
           UNCHANGED <<backend, fenced, proof, damages>>,
           main' \in Values, backup' \in Values, known' \subseteq Changes,
           known \subseteq known', CopyInv',
           holder' \in Calls \cup {Nobody},
           CallInv(c, l)'
    PROVE  IInv'
<1>1. /\ call' \in [Calls -> CallRecords] /\ call'[c] = l
      /\ \A d \in Calls \ {c} : call'[d] = call[d]
  BY Others
<1>2. ASSUME NEW d \in Calls PROVE CallInv(d, call[d])'
  <2>1. CASE d = c
    BY <1>1, <2>1
  <2>2. CASE d # c
    BY <1>1, <2>2, OthersWait
  <2>3. QED
    BY <2>1, <2>2
<1>3. TypeOK'
  BY <1>1, <1>2 DEF IInv, TypeOK, CallInv
<1>4. OneKey'
  BY Backend DEF OneKey, IInv, File, Remote
<1>5. QED
  BY <1>2, <1>3, <1>4 DEF IInv

LEMMA GotoLocal ==
    ASSUME IInv, NEW c \in Calls, NEW label \in PCs, Goto(c, label)
    PROVE  \E l \in CallRecords :
               /\ Moves(c, l) /\ l.pc = label
               /\ l.main = call[c].main /\ l.backup = call[c].backup
               /\ l.key = call[c].key /\ l.floor = call[c].floor
<1>1. [call[c] EXCEPT !.pc = label] \in CallRecords
  BY OfCall DEF CallRecords
<1>2. call' = [call EXCEPT ![c] = [call[c] EXCEPT !.pc = label]]
  BY DEF Goto, IInv, TypeOK
<1>3. QED
  BY <1>1, <1>2, OfCall DEF CallRecords, Moves

\* A step that changes nothing but the locals of c.
LEMMA QuietStep ==
    ASSUME IInv, NEW c \in Calls, NEW l \in CallRecords, Moves(c, l),
           UNCHANGED <<backend, fenced, stored, holder, known, damages>>,
           CallInv(c, l)
    PROVE  IInv'
<1>1. CallInv(c, l)'
  BY DEF CallInv, Place, HasRead, Locked, Recent, Steady, Within, InLock, stored, File, Remote
<1>2. holder \in Calls \cup {Nobody}
  BY DEF IInv, TypeOK
<1>3. QED
  BY <1>1, <1>2, LocalStep

LEMMA StartKeeps == ASSUME IInv, NEW c \in Calls, Start(c) PROVE IInv'
<1> DEFINE label == IF File /\ c \notin Readers THEN "lock" ELSE "main"
<1>1. PICK l \in CallRecords : Moves(c, l) /\ l.pc = label /\ l.floor = known
  <2>1. label \in PCs
    BY DEF PCs
  <2>2. call' = [call EXCEPT ![c] = [call[c] EXCEPT !.pc = label, !.floor = known]]
    BY DEF Start, IInv, TypeOK
  <2> HIDE DEF label
  <2>3. [call[c] EXCEPT !.pc = label, !.floor = known] \in CallRecords
    BY <2>1, OfCall DEF CallRecords, IInv, TypeOK
  <2>4. QED
    BY <2>2, <2>3, OfCall DEF CallRecords, Moves
<1>2. Place(c, l)
  BY <1>1, Kinds, Backend
     DEF Start, Place, InLock, ReaderSteps, WriterSteps, ArchiverSteps, LocalSteps, RemoteSteps,
         IInv
<1>3. HasRead(l) /\ Locked(c, l) /\ Recent(l)
  BY <1>1 DEF HasRead, Locked, Recent
<1>4. QED
  BY <1>1, <1>2, <1>3, QuietStep DEF Start, CallInv

LEMMA LockKeeps == ASSUME IInv, NEW c \in Calls, Lock(c) PROVE IInv'
<1> DEFINE label == IF At(c, "lockRestore") THEN "restore"
                    ELSE IF c \in Writers THEN "main" ELSE "inspect"
<1>1. PICK l \in CallRecords :
         /\ Moves(c, l) /\ l.pc = label
         /\ l.main = call[c].main /\ l.backup = call[c].backup
         /\ l.key = call[c].key /\ l.floor = call[c].floor
  <2>1. label \in PCs /\ Goto(c, label)
    BY DEF PCs, Lock
  <2> HIDE DEF label
  <2>2. QED
    BY <2>1, GotoLocal
<1>2. UNCHANGED <<backend, fenced, stored, known, damages>> /\ holder = Nobody /\ holder' = c
  BY DEF Lock
<1>3. CallInv(c, call[c]) /\ call[c].pc \in {"lock", "lockRestore"} /\ TypeOK
  BY OfCall DEF Lock, At, IInv
<1>4. Place(c, l)'
  BY <1>1, <1>2, <1>3, Kinds, Backend
     DEF Place, CallInv, InLock, ReaderSteps, WriterSteps, ArchiverSteps, LocalSteps, RemoteSteps,
         File, Remote, At
<1>5. HasRead(l)' /\ Recent(l)'
  BY <1>1, <1>2, <1>3 DEF HasRead, Recent, CallInv, At
<1>6. Locked(c, l)'
  BY <1>1, <1>3, Kinds DEF Locked, CallInv, Place, WriterSteps, ArchiverSteps, At
<1>7. QED
  BY <1>1, <1>2, <1>4, <1>5, <1>6, KeyFacts, LocalStep DEF CallInv

LEMMA ReadMainKeeps == ASSUME IInv, NEW c \in Calls, ReadMain(c) PROVE IInv'
<1>1. /\ UNCHANGED <<backend, fenced, stored, damages>>
      /\ CallInv(c, call[c]) /\ call[c].pc = "main" /\ TypeOK /\ CopyInv /\ main \in Values
  BY OfCall DEF ReadMain, At, IInv, TypeOK
<1>2. c \notin Archivers
  BY <1>1 DEF CallInv, Place, ArchiverSteps
<1>3. ASSUME NEW label \in {"backup", "guard"}, UNCHANGED <<holder, known>>,
             call' = [call EXCEPT ![c].pc = label, ![c].main = main],
             label = "guard" => Remote /\ main \in Blobs
      PROVE  IInv'
  <2>1. PICK l \in CallRecords :
           Moves(c, l) /\ l.pc = label /\ l.main = main /\ l.floor = call[c].floor
    <3>1. call' = [call EXCEPT ![c] = [call[c] EXCEPT !.pc = label, !.main = main]]
      BY <1>3 DEF IInv, TypeOK
    <3>2. [call[c] EXCEPT !.pc = label, !.main = main] \in CallRecords
      BY <1>1, OfCall DEF CallRecords, PCs
    <3>3. QED
      BY <3>1, <3>2, OfCall DEF CallRecords, Moves
  <2>2. Place(c, l)
    BY <1>1, <1>2, <1>3, <2>1, Kinds, Backend
       DEF Place, CallInv, InLock, ReaderSteps, WriterSteps, LocalSteps, RemoteSteps
  <2>3. HasRead(l) /\ Locked(c, l)
    BY <1>3, <2>1 DEF HasRead, Locked, Steady
  <2>4. Recent(l)
    BY <1>1, <1>3, <2>1, BlobFacts DEF Recent, CallInv, CopyInv, Within
  <2>5. QED
    BY <1>1, <1>3, <2>1, <2>2, <2>3, <2>4, QuietStep DEF CallInv
<1>4. CASE Got(c, main) /\ main \in Blobs
  <2>1. ChangesOf(main) = main.changes
    BY <1>4, BlobFacts
  <2>2. call[c].floor \subseteq main.changes
    BY <1>1, <1>4 DEF CallInv, Recent, CopyInv, Within
  <2>3. QED
    BY <1>1, <1>2, <1>4, <2>1, <2>2, GotKeeps DEF CopyInv, Within
<1>5. CASE End(c) /\ UNCHANGED known
  BY <1>1, <1>5, EndKeeps
<1>6. Readable(c, main) => main \in Blobs
  BY <1>1, ValueFacts
<1>7. QED
  BY <1>1, <1>3, <1>4, <1>5, <1>6, Backend DEF ReadMain

\* A main whose guard fails sends its call to the backup.
LEMMA ToBackupKeeps ==
    ASSUME IInv, NEW c \in Calls, call[c].pc \in {"guard", "establish"}, Goto(c, "backup"),
           UNCHANGED <<backend, fenced, stored, holder, known, damages>>
    PROVE  IInv'
<1>1. PICK l \in CallRecords :
         Moves(c, l) /\ l.pc = "backup" /\ l.main = call[c].main /\ l.floor = call[c].floor
  BY GotoLocal DEF PCs
<1>2. CallInv(c, call[c]) /\ TypeOK
  BY OfCall DEF IInv
<1>3. Place(c, l)
  BY <1>1, <1>2, Kinds, Backend
     DEF Place, CallInv, InLock, ReaderSteps, WriterSteps, ArchiverSteps, LocalSteps, RemoteSteps
<1>4. HasRead(l) /\ Locked(c, l) /\ Recent(l)
  BY <1>1, <1>2, BlobFacts DEF HasRead, Locked, Recent, CallInv, Place, RemoteSteps
<1>5. QED
  BY <1>1, <1>3, <1>4, QuietStep DEF CallInv

LEMMA GuardKeeps == ASSUME IInv, NEW c \in Calls, Guard(c) PROVE IInv'
<1>1. /\ UNCHANGED <<backend, fenced, stored, damages>>
      /\ CallInv(c, call[c]) /\ call[c].pc = "guard" /\ TypeOK
  BY OfCall DEF Guard, At, IInv
<1>2. Remote /\ ~File /\ c \notin Archivers /\ call[c].main \in Blobs
  BY <1>1, Backend DEF CallInv, Place, RemoteSteps, ArchiverSteps, HasRead
<1>3. CASE Got(c, call[c].main)
  <2>1. ChangesOf(call[c].main) = call[c].main.changes
    BY <1>2, BlobFacts
  <2>2. /\ call[c].floor \subseteq call[c].main.changes /\ main # None
        /\ Within(call[c].main.changes, main) /\ Within(call[c].main.changes, backup)
    BY <1>1 DEF CallInv, Recent
  <2>3. QED
    BY <1>1, <1>2, <1>3, <2>1, <2>2, GotKeeps
<1>4. CASE Goto(c, "establish") /\ UNCHANGED <<holder, known>>
  <2>1. PICK l \in CallRecords :
           /\ Moves(c, l) /\ l.pc = "establish"
           /\ l.main = call[c].main /\ l.floor = call[c].floor
    BY <1>4, GotoLocal DEF PCs
  <2>2. Place(c, l)
    BY <1>1, <1>2, <2>1, Kinds
       DEF Place, ReaderSteps, WriterSteps, LocalSteps
  <2>3. HasRead(l) /\ Locked(c, l) /\ Recent(l)
    BY <1>1, <1>2, <2>1 DEF HasRead, Locked, Recent, CallInv
  <2>4. QED
    BY <1>1, <1>4, <2>1, <2>2, <2>3, QuietStep DEF CallInv
<1>5. CASE Goto(c, "backup") /\ UNCHANGED <<holder, known>>
  BY <1>1, <1>5, ToBackupKeeps
<1>6. QED
  BY <1>3, <1>4, <1>5 DEF Guard

LEMMA EstablishKeeps ==
    ASSUME IInv, NEW c \in Calls, Establish(c) \/ EstablishUnanswered(c)
    PROVE  IInv'
<1> DEFINE blob == call[c].main
<1>1. CallInv(c, call[c]) /\ call[c].pc = "establish" /\ TypeOK
  BY OfCall DEF Establish, EstablishUnanswered, At, IInv
<1>2. /\ Remote /\ ~File /\ c \notin Archivers /\ blob \in Blobs
  BY <1>1, Backend DEF CallInv, Place, RemoteSteps, ArchiverSteps, HasRead
<1>3. /\ ChangesOf(blob) = blob.changes /\ blob \in Values /\ blob # None
      /\ blob \notin Unreadable
  BY <1>2, BlobFacts DEF Values
<1>4. /\ main = blob /\ main' = blob /\ backup' = blob /\ proof' = blob.key
      /\ UNCHANGED <<backend, fenced, damages>>
  BY DEF Establish, EstablishUnanswered, Commit
<1>5. Remote' /\ ~File'
  BY <1>2, <1>4 DEF Remote, File
<1>6. call[c].floor \subseteq known /\ call[c].floor \subseteq blob.changes
  BY <1>1 DEF CallInv, Recent
<1>7. CASE Establish(c)
  <2>1. Got(c, blob)
    BY <1>7 DEF Establish
  <2>2. PICK l \in CallRecords :
           Moves(c, l) /\ l.pc = "got" /\ l.main = blob /\ l.floor = call[c].floor
    BY <1>3, <2>1, GotLocal
  <2>3. /\ known' = known \cup blob.changes
        /\ holder' = IF c \in Readers THEN Released(c) ELSE holder
    BY <1>3, <2>1 DEF Got
  <2>4. holder' \in Calls \cup {Nobody} /\ \A d \in Calls \ {c} : holder = d => holder' = d
    BY <1>1, <2>3, Unlocks
  <2>5. CallInv(c, l)'
    <3>1. Place(c, l)'
      BY <1>2, <1>5, <2>2, Kinds DEF Place, ReaderSteps, WriterSteps, LocalSteps
    <3>2. HasRead(l)' /\ Locked(c, l)'
      BY <1>2, <1>5, <2>2 DEF HasRead, Locked
    <3>3. Recent(l)'
      BY <1>3, <1>6, <2>2, <2>3 DEF Recent
    <3>4. QED
      BY <3>1, <3>2, <3>3 DEF CallInv
  <2>6. QED
    BY <1>2, <1>3, <1>4, <2>2, <2>3, <2>4, <2>5, RowsKeep
<1>8. CASE EstablishUnanswered(c)
  <2>1. PICK l \in CallRecords :
           Moves(c, l) /\ l.pc = "backup" /\ l.main = blob /\ l.floor = call[c].floor
    BY <1>8, GotoLocal DEF PCs, EstablishUnanswered
  <2>2. known' = known /\ holder' = holder
    BY <1>8 DEF EstablishUnanswered
  <2>3. CallInv(c, l)'
    <3>1. Place(c, l)'
      BY <1>2, <1>5, <2>1, Kinds DEF Place, ReaderSteps, WriterSteps, LocalSteps
    <3>2. HasRead(l)' /\ Locked(c, l)' /\ Recent(l)'
      BY <1>3, <1>5, <1>6, <2>1, <2>2 DEF HasRead, Locked, Recent
    <3>3. QED
      BY <3>1, <3>2 DEF CallInv
  <2>4. holder \in Calls \cup {Nobody}
    BY <1>1 DEF TypeOK
  <2>5. QED
    BY <1>2, <1>3, <1>4, <2>1, <2>2, <2>3, <2>4, RowsKeep
<1>9. QED
  BY <1>7, <1>8

LEMMA EstablishRefusedKeeps ==
    ASSUME IInv, NEW c \in Calls, EstablishRefused(c) \/ GuardFails(c) PROVE IInv'
<1>1. call[c].pc \in {"guard", "establish"} /\ c \notin Archivers
  BY OfCall DEF EstablishRefused, GuardFails, At, CallInv, Place, ArchiverSteps
<1>2. CASE EstablishRefused(c) /\ main # call[c].main
  BY <1>1, <1>2, ReadAgainKeeps DEF EstablishRefused, At
<1>3. CASE EstablishRefused(c) /\ main = call[c].main
  BY <1>1, <1>3, ToBackupKeeps DEF EstablishRefused
<1>4. CASE GuardFails(c)
  BY <1>1, <1>4, ToBackupKeeps DEF GuardFails
<1>5. QED
  BY <1>2, <1>3, <1>4

LEMMA ReadBackupKeeps == ASSUME IInv, NEW c \in Calls, ReadBackup(c) PROVE IInv'
<1>1. CallInv(c, call[c]) /\ call[c].pc = "backup" /\ TypeOK /\ CopyInv /\ backup \in Values
  BY OfCall DEF ReadBackup, At, IInv, TypeOK
<1>2. c \notin Archivers
  BY <1>1 DEF CallInv, Place, ArchiverSteps
<1>3. CASE /\ call[c].main = None /\ File /\ Got(c, None)
           /\ UNCHANGED <<backend, fenced, stored, damages>>
  <2>1. call[c].floor = {} /\ (c \in Readers \/ main = None)
    BY <1>1, <1>3 DEF CallInv, Recent, Locked, Steady
  <2>2. ChangesOf(None) = {}
    BY DEF ChangesOf
  <2>3. QED
    BY <1>1, <1>2, <1>3, <2>1, <2>2, GotKeeps DEF Within
<1>4. ASSUME call[c].main = None, Remote, Goto(c, "empty"),
             UNCHANGED <<backend, fenced, stored, holder, known, damages>>
      PROVE  IInv'
  <2>1. PICK l \in CallRecords :
           Moves(c, l) /\ l.pc = "empty" /\ l.main = call[c].main /\ l.floor = call[c].floor
    BY <1>4, GotoLocal DEF PCs
  <2>2. Place(c, l)
    BY <1>1, <1>2, <1>4, <2>1, Kinds, Backend DEF Place, ReaderSteps, WriterSteps, LocalSteps
  <2>3. HasRead(l) /\ Locked(c, l) /\ Recent(l)
    BY <1>1, <1>4, <2>1 DEF HasRead, Locked, Recent, CallInv
  <2>4. QED
    BY <1>4, <2>1, <2>2, <2>3, QuietStep DEF CallInv
<1>5. ASSUME NEW label, label = IF File /\ c \in Readers THEN "lockRestore" ELSE "restore",
             call' = [call EXCEPT ![c].backup = backup, ![c].pc = label],
             UNCHANGED <<backend, fenced, stored, holder, known, damages>>, Readable(c, backup)
      PROVE  IInv'
  <2>1. label \in PCs
    BY <1>5 DEF PCs
  <2>2. PICK l \in CallRecords :
           /\ Moves(c, l) /\ l.pc = label /\ l.backup = backup
           /\ l.main = call[c].main /\ l.floor = call[c].floor
    <3>1. call' = [call EXCEPT ![c] = [call[c] EXCEPT !.backup = backup, !.pc = label]]
      BY <1>5 DEF IInv, TypeOK
    <3>2. [call[c] EXCEPT !.backup = backup, !.pc = label] \in CallRecords
      BY <1>1, <2>1, OfCall DEF CallRecords
    <3>3. QED
      BY <3>1, <3>2, OfCall DEF CallRecords, Moves
  <2>3. backup \in Blobs
    BY <1>1, <1>5, ValueFacts
  <2>4. Place(c, l)
    BY <1>1, <1>2, <1>5, <2>2, Kinds, Backend
       DEF Place, CallInv, InLock, ReaderSteps, WriterSteps, LocalSteps, RemoteSteps
  <2>5. HasRead(l) /\ Locked(c, l) /\ Recent(l)
    BY <1>1, <1>5, <2>2, <2>3 DEF HasRead, Locked, Recent, CallInv, Steady
  <2>6. QED
    BY <1>5, <2>2, <2>4, <2>5, QuietStep DEF CallInv
<1>6. CASE Throws(c)
  BY <1>6, ThrowsKeeps
<1>7. QED
  BY <1>1, <1>3, <1>4, <1>5, <1>6, Backend DEF ReadBackup

LEMMA EmptyProofKeeps == ASSUME IInv, NEW c \in Calls, EmptyProof(c) PROVE IInv'
<1>1. CallInv(c, call[c]) /\ call[c].pc = "empty" /\ TypeOK
  BY OfCall DEF EmptyProof, At, IInv
<1>2. ~File /\ c \notin Archivers
  BY <1>1 DEF CallInv, Place, RemoteSteps, ArchiverSteps
<1>3. CASE Got(c, None) /\ UNCHANGED <<backend, fenced, stored, damages>>
  <2>1. call[c].floor = {} /\ ChangesOf(None) = {}
    BY <1>1 DEF CallInv, Recent, ChangesOf
  <2>2. QED
    BY <1>1, <1>2, <1>3, <2>1, GotKeeps DEF Within
<1>4. QED
  BY <1>3, ThrowsKeeps DEF EmptyProof

\* What both ways of a restore share.
LEMMA RestoredFacts ==
    ASSUME IInv, NEW c \in Calls, Restored(c), UNCHANGED <<backend, fenced, damages>>
    PROVE  /\ c \notin Archivers /\ backup \in Blobs /\ ChangesOf(backup) = backup.changes
           /\ backup \in Values /\ backup # None /\ backup \notin Unreadable
           /\ known \subseteq backup.changes /\ call[c].floor \subseteq backup.changes
           /\ main \in Blobs => main.changes \subseteq backup.changes
           /\ main' = backup /\ backup' = backup /\ call[c].pc = "restore"
           /\ InLock(c, call[c])
<1>1. CallInv(c, call[c]) /\ call[c].pc = "restore" /\ TypeOK /\ CopyInv
  BY OfCall DEF Restored, At, IInv
<1>2. backup \in Blobs /\ main' = backup /\ backup' = backup
  BY <1>1 DEF Restored, Unmoved, CallInv, HasRead
<1>3. QED
  BY <1>1, <1>2, BlobFacts
     DEF CallInv, Place, ArchiverSteps, Recent, CopyInv, Within, InLock, Values

LEMMA RestoreKeeps == ASSUME IInv, NEW c \in Calls, Restore(c) PROVE IInv'
<1>1. Restored(c) /\ Got(c, backup) /\ UNCHANGED <<backend, fenced, damages>> /\ TypeOK
  BY DEF Restore, IInv
<1>2. /\ c \notin Archivers /\ backup \in Blobs /\ ChangesOf(backup) = backup.changes
      /\ backup \in Values /\ backup # None /\ backup \notin Unreadable
      /\ known \subseteq backup.changes /\ call[c].floor \subseteq backup.changes
      /\ main \in Blobs => main.changes \subseteq backup.changes
      /\ main' = backup /\ backup' = backup /\ call[c].pc = "restore"
      /\ InLock(c, call[c])
  BY <1>1, RestoredFacts
<1>3. PICK l \in CallRecords :
         Moves(c, l) /\ l.pc = "got" /\ l.main = backup /\ l.floor = call[c].floor
  BY <1>1, <1>2, GotLocal
<1>4. /\ known' = backup.changes
      /\ holder' = IF c \in Readers THEN Released(c) ELSE holder
  BY <1>1, <1>2 DEF Got
<1>5. holder' \in Calls \cup {Nobody} /\ \A d \in Calls \ {c} : holder = d => holder' = d
  BY <1>1, <1>4, Unlocks
<1>6. CallInv(c, l)'
  <2>1. Place(c, l)'
    BY <1>1, <1>2, <1>3, <1>4, OfCall, Kinds, Backend
       DEF Place, CallInv, InLock, ReaderSteps, WriterSteps, LocalSteps, RemoteSteps, File, Remote
  <2>2. HasRead(l)' /\ Locked(c, l)' /\ Recent(l)'
    BY <1>2, <1>3, <1>4 DEF HasRead, Locked, Recent, Steady
  <2>3. QED
    BY <2>1, <2>2 DEF CallInv
<1>7. CASE Remote
  <2>1. proof' = backup.key
    BY <1>1, <1>7 DEF Restored
  <2>2. QED
    BY <1>1, <1>2, <1>3, <1>4, <1>5, <1>6, <1>7, <2>1, RowsKeep
<1>8. CASE File
  <2>1. proof' = proof
    BY <1>1, <1>8, Backend DEF Restored
  <2>2. CopyInv'
    BY <1>1, <1>2, <1>4, <1>8, Backend DEF CopyInv, Within, File, Remote
  <2>3. known' \subseteq Changes
    BY <1>2, <1>4, BlobFacts
  <2>4. QED
    BY <1>1, <1>2, <1>3, <1>4, <1>5, <1>6, <1>8, <2>1, <2>2, <2>3, FileKeeps
<1>9. QED
  BY <1>1, <1>7, <1>8, Backend

LEMMA RestoreUnansweredKeeps ==
    ASSUME IInv, NEW c \in Calls, RestoreUnanswered(c) PROVE IInv'
<1>1. /\ Restored(c) /\ End(c) /\ Remote /\ UNCHANGED <<backend, fenced, known, damages>> /\ TypeOK
      /\ proof' = backup.key
  BY DEF RestoreUnanswered, Restored, IInv
<1>2. PICK l \in CallRecords :
         Moves(c, l) /\ l.pc = (IF c \in Writers THEN "done" ELSE "idle") /\ l.floor = {}
  BY <1>1, Ended
<1>3. CallInv(c, l)'
  BY <1>1, <1>2, Over
<1>4. holder' \in Calls \cup {Nobody} /\ \A d \in Calls \ {c} : holder = d => holder' = d
  BY <1>1, Unlocks DEF End
<1>5. /\ backup \in Blobs /\ main' = backup /\ backup' = backup
      /\ main \in Blobs => main.changes \subseteq backup.changes
  BY <1>1, RestoredFacts
<1>6. QED
  BY <1>1, <1>2, <1>3, <1>4, <1>5, RowsKeep

LEMMA RestoreRefusedKeeps ==
    ASSUME IInv, NEW c \in Calls, RestoreRefused(c) PROVE IInv'
<1>1. call[c].pc = "restore" /\ c \notin Archivers
  BY OfCall DEF RestoreRefused, At, CallInv, Place, ArchiverSteps
<1>2. QED
  BY <1>1, ReadAgainKeeps, ThrowsKeeps DEF RestoreRefused

LEMMA ReturnKeeps == ASSUME IInv, NEW c \in Calls, Return(c) \/ NoChange(c) PROVE IInv'
BY EndKeeps DEF Return, NoChange

(* mutateAccounts *)

LEMMA MutateKeeps == ASSUME IInv, NEW c \in Calls, Mutate(c) PROVE IInv'
<1>1. /\ UNCHANGED <<backend, fenced, stored, holder, known, damages>> /\ c \in Writers
      /\ CallInv(c, call[c]) /\ call[c].pc = "got" /\ TypeOK
  BY OfCall DEF Mutate, At, IInv
<1>2. CASE Remote /\ call[c].main = None
  <2>1. Goto(c, "newKey")
    BY <1>2 DEF Mutate, Goto
  <2>2. PICK l \in CallRecords :
           Moves(c, l) /\ l.pc = "newKey" /\ l.main = call[c].main /\ l.floor = call[c].floor
    BY <2>1, GotoLocal DEF PCs
  <2>3. Place(c, l) /\ HasRead(l) /\ Locked(c, l) /\ Recent(l)
    BY <1>1, <1>2, <2>2, Kinds, Backend
       DEF Place, WriterSteps, LocalSteps, HasRead, Locked, Recent, CallInv
  <2>4. QED
    BY <1>1, <2>2, <2>3, QuietStep DEF CallInv
<1>3. CASE ~(Remote /\ call[c].main = None)
  <2> DEFINE key == IF File THEN OwnOf[ProcOf[c]] ELSE call[c].main.key
  <2>1. key \in Keys
    BY <1>1, <1>3, BlobFacts, KeyFacts, Backend DEF CallInv, HasRead
  <2>2. call' = [call EXCEPT ![c] = [call[c] EXCEPT !.pc = "write", !.key = key]]
    BY <1>3 DEF Mutate, IInv, TypeOK
  <2> HIDE DEF key
  <2>3. PICK l \in CallRecords :
           /\ Moves(c, l) /\ l.pc = "write" /\ l.key = key
           /\ l.main = call[c].main /\ l.floor = call[c].floor
    <3>1. [call[c] EXCEPT !.pc = "write", !.key = key] \in CallRecords
      BY <2>1, OfCall DEF CallRecords, PCs
    <3>2. QED
      BY <2>2, <3>1, OfCall DEF CallRecords, Moves
  <2>4. Place(c, l)
    BY <1>1, <2>3, Kinds DEF Place, CallInv, InLock, WriterSteps, LocalSteps, RemoteSteps
  <2>5. HasRead(l) /\ Locked(c, l) /\ Recent(l)
    BY <1>1, <2>1, <2>3 DEF HasRead, Locked, Recent, CallInv, Steady
  <2>6. QED
    BY <1>1, <2>3, <2>4, <2>5, QuietStep DEF CallInv
<1>4. QED
  BY <1>2, <1>3

LEMMA NewKeyKeeps == ASSUME IInv, NEW c \in Calls, NewKey(c) PROVE IInv'
<1>1. CallInv(c, call[c]) /\ call[c].pc = "newKey" /\ TypeOK
  BY OfCall DEF NewKey, At, IInv
<1>2. Remote /\ ~File /\ c \in Writers
  BY <1>1, Kinds, Backend
     DEF CallInv, Place, RemoteSteps, ReaderSteps, ArchiverSteps
<1>3. CASE ~Throws(c)
  <2> DEFINE key == IF proof = None THEN OwnOf[ProcOf[c]] ELSE proof
  <2>1. key \in Keys /\ UNCHANGED <<backend, fenced, stored, holder, known, damages>>
    BY <1>1, <1>3, KeyFacts DEF NewKey, TypeOK
  <2>2. call' = [call EXCEPT ![c] = [call[c] EXCEPT !.pc = "write", !.key = key]]
    BY <1>3 DEF NewKey, IInv, TypeOK
  <2> HIDE DEF key
  <2>3. PICK l \in CallRecords :
           /\ Moves(c, l) /\ l.pc = "write" /\ l.key = key
           /\ l.main = call[c].main /\ l.floor = call[c].floor
    <3>1. [call[c] EXCEPT !.pc = "write", !.key = key] \in CallRecords
      BY <2>1, OfCall DEF CallRecords, PCs
    <3>2. QED
      BY <2>2, <3>1, OfCall DEF CallRecords, Moves
  <2>4. Place(c, l) /\ HasRead(l) /\ Locked(c, l) /\ Recent(l)
    BY <1>1, <1>2, <2>1, <2>3, Kinds
       DEF Place, WriterSteps, LocalSteps, HasRead, Locked, Recent, CallInv
  <2>5. QED
    BY <2>1, <2>3, <2>4, QuietStep DEF CallInv
<1>4. QED
  BY <1>3, ThrowsKeeps

\* What a writer saves is the list it was given and its own change.
LEMMA ChangedFacts ==
    ASSUME IInv, NEW c \in Writers, call[c].pc \in {"write", "publish"}
    PROVE  /\ Changed(c) \in Blobs /\ Changed(c).key = call[c].key /\ call[c].key \in Keys
           /\ Changed(c).changes = ChangesOf(call[c].main) \cup {c}
           /\ call[c].main \in Blobs \cup {None}
<1>1. CallInv(c, call[c]) /\ c \in Changes
  BY OfCall, Kinds
<1>2. call[c].main \in Blobs \cup {None} /\ call[c].key \in Keys
  BY <1>1 DEF CallInv, HasRead
<1>3. ChangesOf(call[c].main) \cup {c} \in SUBSET Changes
  BY <1>1, <1>2, BlobFacts DEF ChangesOf
<1>4. QED
  BY <1>2, <1>3, BlobIs DEF Changed

LEMMA WriteRowKeeps ==
    ASSUME IInv, NEW c \in Calls, WriteRow(c) \/ WriteRowUnanswered(c) PROVE IInv'
<1> DEFINE blob == Changed(c)
<1>1. /\ CallInv(c, call[c]) /\ call[c].pc = "write" /\ TypeOK /\ Remote /\ End(c)
      /\ UNCHANGED <<backend, fenced, damages>>
      /\ main = call[c].main /\ main' = blob /\ backup' = blob /\ proof' = blob.key
  BY OfCall DEF WriteRow, WriteRowUnanswered, Commit, Saved, At, IInv
<1>2. c \in Writers
  BY <1>1, Kinds DEF CallInv, Place, ReaderSteps, ArchiverSteps
<1>3. /\ blob \in Blobs /\ blob.changes = ChangesOf(main) \cup {c} /\ main \in Blobs \cup {None}
  BY <1>1, <1>2, ChangedFacts
<1>4. known' = known \/ known' = known \cup blob.changes
  BY DEF WriteRow, WriteRowUnanswered, Saved
<1>5. PICK l \in CallRecords :
         Moves(c, l) /\ l.pc = (IF c \in Writers THEN "done" ELSE "idle") /\ l.floor = {}
  BY <1>1, Ended
<1>6. CallInv(c, l)'
  BY <1>1, <1>5, Over
<1>7. holder' \in Calls \cup {Nobody} /\ \A d \in Calls \ {c} : holder = d => holder' = d
  BY <1>1, Unlocks DEF End
<1>8. main \in Blobs => main.changes \subseteq blob.changes
  BY <1>3, BlobFacts
<1>9. main \notin Unreadable
  BY <1>3, BlobFacts, ValueFacts, Zeros
<1> HIDE DEF blob
<1>10. QED
  BY <1>1, <1>3, <1>4, <1>5, <1>6, <1>7, <1>8, <1>9, RowsKeep

LEMMA WriteRowRefusedKeeps ==
    ASSUME IInv, NEW c \in Calls, WriteRowRefused(c) PROVE IInv'
<1>1. /\ CallInv(c, call[c]) /\ call[c].pc = "write" /\ TypeOK /\ Remote /\ ~File
  BY OfCall, Backend DEF WriteRowRefused, At, IInv
<1>2. c \in Writers
  BY <1>1, Kinds DEF CallInv, Place, ReaderSteps, ArchiverSteps
<1>3. CASE main # call[c].main /\ call[c].writes + 1 < WriteAttempts
  <2> DEFINE idle == [Idle EXCEPT !.pc = "main", !.floor = known,
                                  !.writes = call[c].writes + 1]
  <2>1. Moves(c, idle) /\ UNCHANGED <<backend, fenced, stored, holder, known, damages>>
    BY <1>3 DEF WriteRowRefused, Moves
  <2>2. idle \in CallRecords /\ idle.pc = "main" /\ idle.floor = known
    <3>1. call[c].writes + 1 \in 0..WriteAttempts - 1
      BY <1>3, OfCall, VaultAssumption DEF VaultAssumption
    <3>2. known \in SUBSET Changes
      BY <1>1 DEF TypeOK
    <3>3. QED
      BY <3>1, <3>2, Zeros DEF Idle, CallRecords, PCs
  <2> HIDE DEF idle
  <2>3. Place(c, idle) /\ HasRead(idle) /\ Locked(c, idle) /\ Recent(idle)
    BY <1>1, <1>2, <2>2, Kinds
       DEF Place, WriterSteps, LocalSteps, HasRead, Locked, Recent
  <2>4. QED
    BY <2>1, <2>2, <2>3, QuietStep DEF CallInv
<1>4. CASE ~(main # call[c].main /\ call[c].writes + 1 < WriteAttempts)
  BY <1>4, ThrowsKeeps DEF WriteRowRefused
<1>5. QED
  BY <1>3, <1>4

LEMMA WriteBackupKeeps == ASSUME IInv, NEW c \in Calls, WriteBackup(c) PROVE IInv'
<1>1. /\ CallInv(c, call[c]) /\ call[c].pc = "write" /\ TypeOK /\ CopyInv /\ File /\ ~Remote
  BY OfCall, Backend DEF WriteBackup, At, IInv
<1>2. c \in Writers /\ c \notin Readers
  BY <1>1, Kinds DEF CallInv, Place, ReaderSteps, ArchiverSteps
<1>3. CASE main = call[c].main
  <2> DEFINE blob == Changed(c)
  <2>1. /\ blob \in Blobs /\ blob.changes = ChangesOf(call[c].main) \cup {c}
        /\ blob = [changes |-> ChangesOf(call[c].main) \cup {c}, key |-> call[c].key]
        /\ blob \in Values
    BY <1>1, <1>2, ChangedFacts DEF Changed, Values
  <2>2. /\ backup' = blob /\ Goto(c, "publish")
        /\ UNCHANGED <<backend, fenced, main, proof, holder, known, damages>>
    BY <1>3 DEF WriteBackup
  <2>3. PICK l \in CallRecords :
           /\ Moves(c, l) /\ l.pc = "publish" /\ l.main = call[c].main
           /\ l.key = call[c].key /\ l.floor = call[c].floor
    BY <2>2, GotoLocal DEF PCs
  <2> HIDE DEF blob
  <2>4. InLock(c, call[c])
    BY <1>1, <1>2 DEF InLock
  <2>5. CallInv(c, l)'
    <3>1. Place(c, l)'
      BY <1>1, <1>2, <2>2, <2>3, <2>4, Kinds
         DEF Place, CallInv, InLock, WriterSteps, RemoteSteps, File, Remote
    <3>2. Locked(c, l)'
      BY <1>1, <1>2, <2>1, <2>2, <2>3 DEF Locked, CallInv, Steady
    <3>3. HasRead(l)' /\ Recent(l)'
      BY <1>1, <2>2, <2>3 DEF HasRead, Recent, CallInv
    <3>4. QED
      BY <3>1, <3>2, <3>3 DEF CallInv
  <2>6. CopyInv'
    <3>1. known \subseteq ChangesOf(call[c].main)
      BY <1>1, <1>2 DEF CallInv, Locked
    <3>2. main \in Blobs => main.changes \subseteq blob.changes
      BY <1>3, <2>1, BlobFacts
    <3>3. QED
      BY <1>1, <2>1, <2>2, <3>1, <3>2 DEF CopyInv, Within, Remote
  <2>7. main' \in Values /\ known' \subseteq Changes /\ holder' \in Calls \cup {Nobody}
    BY <1>1, <2>2 DEF TypeOK
  <2>8. QED
    BY <1>1, <2>1, <2>2, <2>3, <2>4, <2>5, <2>6, <2>7, FileKeeps
<1>4. CASE main # call[c].main
  BY <1>4, ThrowsKeeps DEF WriteBackup
<1>5. QED
  BY <1>3, <1>4

LEMMA WriteMainKeeps == ASSUME IInv, NEW c \in Calls, WriteMain(c) PROVE IInv'
<1> DEFINE blob == Changed(c)
<1>1. /\ CallInv(c, call[c]) /\ call[c].pc = "publish" /\ TypeOK /\ CopyInv
      /\ End(c) /\ UNCHANGED <<backend, fenced, backup, proof, damages>>
      /\ main' = blob /\ known' = known \cup blob.changes
  BY OfCall DEF WriteMain, Saved, At, IInv
<1>2. File /\ ~Remote /\ c \in Writers /\ c \notin Readers
  BY <1>1, Kinds, Backend DEF CallInv, Place, LocalSteps, ReaderSteps, ArchiverSteps
<1>3. /\ blob \in Blobs /\ blob.changes = ChangesOf(call[c].main) \cup {c}
      /\ blob = [changes |-> ChangesOf(call[c].main) \cup {c}, key |-> call[c].key]
      /\ blob \in Values /\ blob.changes \subseteq Changes /\ blob # None
      /\ blob \notin Unreadable
  BY <1>1, <1>2, ChangedFacts, BlobFacts DEF Changed, Values
<1>4. /\ known \subseteq blob.changes /\ (backup \in Unreadable \/ backup = blob)
  BY <1>1, <1>2, <1>3 DEF CallInv, Locked
<1> HIDE DEF blob
<1>5. PICK l \in CallRecords :
         Moves(c, l) /\ l.pc = (IF c \in Writers THEN "done" ELSE "idle") /\ l.floor = {}
  BY <1>1, Ended
<1>6. CallInv(c, l)'
  BY <1>1, <1>5, Over
<1>7. holder' \in Calls \cup {Nobody}
  BY <1>1, Unlocks DEF End
<1>8. CopyInv'
  <2>1. backup \in Unreadable => backup \notin Blobs
    BY BlobFacts
  <2>2. QED
    BY <1>1, <1>2, <1>3, <1>4, <2>1 DEF CopyInv, Within, Remote
<1>9. InLock(c, call[c]) /\ backup' \in Values /\ known' \subseteq Changes
  BY <1>1, <1>2, <1>3 DEF InLock, TypeOK
<1>10. QED
  BY <1>1, <1>2, <1>3, <1>4, <1>5, <1>6, <1>7, <1>8, <1>9, FileKeeps

(* recoverUnreadableLocalVault *)

LEMMA InspectKeeps == ASSUME IInv, NEW c \in Calls, Inspect(c) PROVE IInv'
<1>1. /\ CallInv(c, call[c]) /\ call[c].pc = "inspect" /\ TypeOK /\ CopyInv
      /\ main \in Values /\ backup \in Values
  BY OfCall DEF Inspect, At, IInv, TypeOK
<1>2. File /\ ~Remote /\ c \in Archivers
  BY <1>1, Kinds, Backend
     DEF CallInv, Place, LocalSteps, ReaderSteps, WriterSteps
<1>3. CASE ~Throws(c)
  <2>1. /\ UNCHANGED <<backend, fenced, stored, holder, known, damages>>
        /\ call' = [call EXCEPT ![c] = [call[c] EXCEPT !.pc = "archive", !.main = main,
                                                       !.backup = backup]]
    BY <1>3 DEF Inspect, IInv, TypeOK
  <2>2. PICK l \in CallRecords :
           /\ Moves(c, l) /\ l.pc = "archive" /\ l.main = main /\ l.backup = backup
           /\ l.floor = call[c].floor
    <3>1. [call[c] EXCEPT !.pc = "archive", !.main = main, !.backup = backup] \in CallRecords
      BY <1>1, OfCall DEF CallRecords, PCs
    <3>2. QED
      BY <2>1, <3>1, OfCall DEF CallRecords, Moves
  <2>3. Place(c, l)
    BY <1>1, <1>2, <2>2, Kinds DEF Place, CallInv, InLock, ArchiverSteps, RemoteSteps
  <2>4. HasRead(l) /\ Locked(c, l) /\ Recent(l)
    BY <1>1, <2>2 DEF HasRead, Locked, Recent, CallInv, Steady, CopyInv
  <2>5. QED
    BY <2>1, <2>2, <2>3, <2>4, QuietStep DEF CallInv
<1>4. QED
  BY <1>3, ThrowsKeeps

LEMMA ArchiveBackupKeeps == ASSUME IInv, NEW c \in Calls, ArchiveBackup(c) PROVE IInv'
<1>1. /\ CallInv(c, call[c]) /\ call[c].pc = "archive" /\ TypeOK /\ CopyInv
  BY OfCall DEF ArchiveBackup, At, IInv
<1>2. File /\ ~Remote /\ c \in Archivers /\ c \notin Readers
  BY <1>1, Kinds, Backend
     DEF CallInv, Place, LocalSteps, ReaderSteps, WriterSteps
<1>3. CASE ~Throws(c)
  <2>1. /\ backup' \in {backup, None} /\ Goto(c, "archiveMain")
        /\ UNCHANGED <<backend, fenced, main, proof, holder, known, damages>>
    BY <1>3 DEF ArchiveBackup
  <2>2. PICK l \in CallRecords :
           /\ Moves(c, l) /\ l.pc = "archiveMain" /\ l.main = call[c].main
           /\ l.backup = call[c].backup /\ l.floor = call[c].floor
    BY <2>1, GotoLocal DEF PCs
  <2>3. InLock(c, call[c])
    BY <1>1, <1>2 DEF InLock
  <2>4. CallInv(c, l)'
    <3>1. Place(c, l)'
      BY <1>1, <1>2, <2>1, <2>2, <2>3, Kinds
         DEF Place, CallInv, InLock, ArchiverSteps, RemoteSteps, File, Remote
    <3>2. Locked(c, l)' /\ HasRead(l)' /\ Recent(l)'
      BY <1>1, <1>2, <2>1, <2>2 DEF Locked, CallInv, Steady, HasRead, Recent, Within
    <3>3. QED
      BY <3>1, <3>2 DEF CallInv
  <2>5. CopyInv'
    BY <1>1, <1>2, <2>1, BlobFacts DEF CopyInv, Within, Remote
  <2>6. /\ main' \in Values /\ backup' \in Values /\ known' \subseteq Changes
        /\ holder' \in Calls \cup {Nobody}
    BY <1>1, <2>1, Zeros DEF TypeOK
  <2>7. QED
    BY <1>2, <2>1, <2>2, <2>3, <2>4, <2>5, <2>6, FileKeeps
<1>4. QED
  BY <1>3, ThrowsKeeps

LEMMA ArchiveMainFailsKeeps ==
    ASSUME IInv, NEW c \in Calls, ArchiveMainFails(c) PROVE IInv'
<1>1. /\ CallInv(c, call[c]) /\ call[c].pc = "archiveMain" /\ TypeOK /\ CopyInv
      /\ End(c) /\ UNCHANGED <<backend, fenced, main, proof, known, damages>>
      /\ backup' \in {backup, call[c].backup} /\ call[c].backup \in Values
  BY OfCall DEF ArchiveMainFails, At, IInv
<1>2. File /\ ~Remote /\ c \in Archivers /\ c \notin Readers
  BY <1>1, Kinds, Backend
     DEF CallInv, Place, LocalSteps, ReaderSteps, WriterSteps
<1>3. PICK l \in CallRecords :
         Moves(c, l) /\ l.pc = (IF c \in Writers THEN "done" ELSE "idle") /\ l.floor = {}
  BY <1>1, Ended
<1>4. CallInv(c, l)'
  BY <1>1, <1>3, Over
<1>5. CopyInv'
  BY <1>1, <1>2 DEF CallInv, Locked, CopyInv, Within, Remote
<1>6. /\ main' \in Values /\ backup' \in Values /\ known' \subseteq Changes
      /\ holder' \in Calls \cup {Nobody} /\ InLock(c, call[c])
  BY <1>1, <1>2, Unlocks DEF TypeOK, End, InLock
<1>7. QED
  BY <1>1, <1>2, <1>3, <1>4, <1>5, <1>6, FileKeeps

LEMMA ArchiveMainKeeps == ASSUME IInv, NEW c \in Calls, ArchiveMain(c) PROVE IInv'
<1>1. /\ CallInv(c, call[c]) /\ call[c].pc = "archiveMain" /\ TypeOK /\ CopyInv
      /\ main' = None /\ known' = {} /\ holder' = Released(c)
      /\ UNCHANGED <<backend, fenced, backup, proof, damages>>
  BY OfCall DEF ArchiveMain, At, IInv
<1>2. File /\ ~Remote /\ c \in Archivers /\ c \notin Readers /\ c \notin Writers
  BY <1>1, Kinds, Backend
     DEF CallInv, Place, LocalSteps, ReaderSteps, WriterSteps
<1>3. File' /\ ~Remote'
  BY <1>1, <1>2 DEF File, Remote
<1>4. Idle \in CallRecords /\ Idle.pc = "idle" /\ Idle.floor = {}
  BY Zeros DEF Idle, CallRecords, PCs
<1>5. holder' \in Calls \cup {Nobody}
  BY <1>1, Unlocks
<1>6. InLock(c, call[c])
  BY <1>1, <1>2 DEF InLock
<1>7. ASSUME NEW d \in Calls PROVE call'[d] \in CallRecords /\ CallInv(d, call[d])'
  <2>1. CASE d = c
    <3>1. call'[d] = Idle
      BY <2>1 DEF ArchiveMain
    <3>2. CallInv(d, Idle)'
      BY <1>1, <1>4, <2>1, Over
    <3>3. QED
      BY <1>4, <3>1, <3>2
  <2>2. CASE d # c
    <3>1. call'[d] = [call[d] EXCEPT !.floor = {}]
      BY <2>2 DEF ArchiveMain
    <3>2. /\ call'[d] \in CallRecords /\ call'[d].floor = {} /\ call'[d].pc = call[d].pc
          /\ call'[d].main = call[d].main /\ call'[d].backup = call[d].backup
          /\ call'[d].key = call[d].key
      BY <3>1, OfCall DEF CallRecords
    <3>3. CallInv(d, call[d]) /\ ~InLock(d, call[d])
      BY <1>1, <1>2, <1>6, <2>2, OfCall DEF CallInv, Place
    <3>4. Place(d, call[d])' /\ HasRead(call[d])'
      BY <1>2, <1>3, <3>2, <3>3 DEF CallInv, Place, HasRead, InLock
    <3>5. Locked(d, call[d])'
      BY <1>3, <3>2, <3>3 DEF Locked, InLock
    <3>6. Recent(call[d])'
      BY <1>2, <3>2, <3>3 DEF Recent, CallInv, Place, RemoteSteps
    <3>7. QED
      BY <3>2, <3>4, <3>5, <3>6 DEF CallInv
  <2>3. QED
    BY <2>1, <2>2
<1>8. call' \in [Calls -> CallRecords]
  BY <1>7 DEF ArchiveMain
<1>9. TypeOK'
  BY <1>1, <1>5, <1>7, <1>8, Zeros DEF TypeOK, CallInv
<1>10. CopyInv' /\ OneKey'
  BY <1>1, <1>3, BlobFacts DEF CopyInv, OneKey, Within
<1>11. QED
  BY <1>7, <1>9, <1>10 DEF IInv

(* The environment *)

LEMMA CrashKeeps == ASSUME IInv, NEW p \in Processes, Crash(p) PROVE IInv'
<1>1. /\ TypeOK /\ CopyInv /\ OneKey /\ UNCHANGED <<backend, fenced, stored, known, damages>>
      /\ holder' = IF holder # Nobody /\ ProcOf[holder] = p THEN Nobody ELSE holder
  BY DEF Crash, IInv
<1>2. ASSUME NEW d \in Calls PROVE call'[d] \in CallRecords /\ CallInv(d, call[d])'
  <2>1. CallInv(d, call[d]) /\ call[d] \in CallRecords
    BY OfCall
  <2>2. CASE ProcOf[d] # p \/ call[d].pc \in {"idle", "done"}
    <3>1. call'[d] = call[d]
      BY <2>2 DEF Crash
    <3>2. Place(d, call[d])'
      <4>1. InLock(d, call[d]) => ProcOf[d] # p
        BY <2>2 DEF InLock
      <4>2. QED
        BY <1>1, <2>1, <3>1, <4>1, KeyFacts DEF CallInv, Place, InLock, File, Remote
    <3>3. HasRead(call[d])' /\ Locked(d, call[d])' /\ Recent(call[d])'
      BY <1>1, <2>1, <3>1
         DEF CallInv, HasRead, Locked, Recent, Steady, Within, stored, File
    <3>4. QED
      BY <2>1, <3>1, <3>2, <3>3 DEF CallInv
  <2>3. CASE ~(ProcOf[d] # p \/ call[d].pc \in {"idle", "done"})
    <3> DEFINE step == IF d \in Writers THEN "done" ELSE "idle"
               over == [Idle EXCEPT !.pc = step]
    <3>1. call'[d] = over
      BY <2>3 DEF Crash
    <3>2. over \in CallRecords /\ over.pc = step /\ over.floor = {}
      <4>1. step \in PCs
        BY DEF PCs
      <4> HIDE DEF step
      <4>2. QED
        BY <4>1, Zeros DEF Idle, CallRecords
    <3> HIDE DEF over
    <3>3. CallInv(d, over)'
      BY <1>1, <3>2, Over
    <3>4. QED
      BY <3>1, <3>2, <3>3
  <2>4. QED
    BY <2>2, <2>3
<1>3. call' \in [Calls -> CallRecords]
  BY <1>2 DEF Crash
<1>4. TypeOK'
  BY <1>1, <1>2, <1>3 DEF TypeOK, stored, CallInv
<1>5. CopyInv' /\ OneKey'
  BY <1>1 DEF CopyInv, OneKey, Copies, stored, Within, Remote
<1>6. QED
  BY <1>2, <1>4, <1>5 DEF IInv

LEMMA DamageKeeps == ASSUME IInv, Damage PROVE IInv'
<1>1. /\ TypeOK /\ CopyInv /\ OneKey /\ UNCHANGED <<backend, fenced, proof, holder, call, known>>
      /\ damages < MaxDamage /\ damages' = damages + 1
  BY DEF Damage, IInv
<1>2. \/ main # None /\ main' \in Unreadable /\ backup' = backup
      \/ backup # None /\ backup' \in Unreadable /\ main' = main
  BY DEF Damage, Unreadable
<1>3. \A raw \in Unreadable : raw \notin Blobs /\ raw # None /\ raw \in Values
  BY BlobFacts, ValueFacts, Zeros DEF Values
<1>4. ASSUME NEW d \in Calls PROVE CallInv(d, call[d])'
  <2>1. CallInv(d, call[d]) /\ call'[d] = call[d]
    BY <1>1, OfCall
  <2>2. Place(d, call[d])' /\ HasRead(call[d])'
    BY <1>1, <2>1 DEF CallInv, Place, HasRead, InLock, File, Remote
  <2>3. Locked(d, call[d])'
    <3>1. Steady(call[d]) => Steady(call[d])'
      BY <1>2, <2>1 DEF Steady
    <3>2. main' \in Blobs => main' = main
      BY <1>2, <1>3
    <3>3. backup \in Unreadable => backup' \in Unreadable
      BY <1>2
    <3>4. QED
      BY <1>1, <1>2, <2>1, <3>1, <3>2, <3>3 DEF CallInv, Locked, Within, File
  <2>4. Recent(call[d])'
    BY <1>1, <1>2, <1>3, <2>1 DEF CallInv, Recent, Within
  <2>5. QED
    BY <2>2, <2>3, <2>4 DEF CallInv
<1>5. damages' \in 0..MaxDamage
  BY <1>1, VaultAssumption DEF VaultAssumption, TypeOK
<1>6. TypeOK'
  BY <1>1, <1>2, <1>3, <1>4, <1>5 DEF TypeOK, CallInv
<1>7. CopyInv' /\ OneKey'
  BY <1>1, <1>2, <1>3 DEF CopyInv, OneKey, Copies, Within, Remote
<1>8. QED
  BY <1>4, <1>6, <1>7 DEF IInv

\* An older version adds to main, and to a backup that does not exist yet or not
\* at all.
LEMMA LegacyKeeps ==
    ASSUME IInv, NEW l \in Legacy, LegacyWrite(l) \/ RolloutWrite(l) PROVE IInv'
<1>1. /\ TypeOK /\ CopyInv /\ Remote /\ ~File /\ proof = None /\ ~fenced
      /\ UNCHANGED <<backend, proof, holder, call, known, damages>>
      /\ (backup' = backup /\ fenced' = fenced) \/ (backup' = main' /\ fenced' = TRUE)
  BY Backend DEF LegacyWrite, RolloutWrite, IInv
<1>2. backup = None /\ (main \in Blobs \/ main = None) /\ l \in Changes
  BY <1>1, ValueFacts DEF CopyInv, LegacyWrite, RolloutWrite, TypeOK, Changes
<1>3. ChangesOf(main) \subseteq Changes /\ (main \in Blobs => ChangesOf(main) = main.changes)
  BY <1>2, BlobFacts DEF ChangesOf
<1>4. PICK k \in Keys : main' = [changes |-> ChangesOf(main) \cup {l}, key |-> k]
  BY DEF LegacyWrite, RolloutWrite, LegacyBlobs
<1>5. main' \in Blobs /\ main'.changes = ChangesOf(main) \cup {l}
  BY <1>2, <1>3, <1>4, BlobIs
<1>6. main' # None /\ main' \in Values /\ backup' \in {None, main'} /\ None \notin Blobs
  BY <1>1, <1>2, <1>5, BlobFacts DEF Values
<1>7. ASSUME NEW d \in Calls PROVE CallInv(d, call[d])'
  <2>1. CallInv(d, call[d]) /\ call'[d] = call[d]
    BY <1>1, OfCall
  <2>2. Place(d, call[d])' /\ HasRead(call[d])' /\ Locked(d, call[d])'
    BY <1>1, <2>1 DEF CallInv, Place, HasRead, Locked, InLock, File, Remote
  <2>3. Recent(call[d])'
    <3>1. call[d].pc \in {"guard", "establish"} => call[d].main.changes \subseteq main'.changes
      BY <1>2, <1>3, <1>5, <2>1 DEF CallInv, Recent, Within
    <3>2. QED
      BY <1>1, <1>6, <2>1, <3>1 DEF CallInv, Recent, Within
  <2>4. QED
    BY <2>2, <2>3 DEF CallInv
<1>8. TypeOK'
  BY <1>1, <1>6, <1>7, Zeros DEF TypeOK, CallInv
<1>9. CopyInv' /\ OneKey'
  <2>1. known \subseteq main'.changes
    BY <1>1, <1>2, <1>3, <1>5 DEF CopyInv, Within
  <2>2. QED
    BY <1>1, <1>2, <1>5, <1>6, <2>1 DEF CopyInv, OneKey, Within, Remote
<1>10. QED
  BY <1>7, <1>8, <1>9 DEF IInv

(* Spec *)

LEMMA InitIInv == Init => IInv
<1> SUFFICES ASSUME Init PROVE IInv
  OBVIOUS
<1>1. /\ main \in Values /\ backup \in Values /\ proof = None
      /\ known = {} /\ damages = 0 /\ fenced \in BOOLEAN
      /\ backup = None \/ (backup = main /\ main # None /\ fenced)
  <2>1. main \in Blobs \cup {None}
    BY DEF Init, Blobs, Changes
  <2>2. QED
    BY <2>1 DEF Init, Values
<1>2. Idle \in CallRecords /\ Idle.pc = "idle" /\ Idle.floor = {}
  BY Zeros DEF Idle, CallRecords, PCs
<1>3. call \in [Calls -> CallRecords] /\ \A c \in Calls : call[c] = Idle
  BY <1>2 DEF Init
<1>4. ASSUME NEW c \in Calls PROVE CallInv(c, call[c])
  BY <1>2, <1>3
     DEF CallInv, Place, HasRead, Locked, Recent, InLock, ReaderSteps, WriterSteps,
         ArchiverSteps, LocalSteps, RemoteSteps
<1>5. TypeOK
  BY <1>1, <1>3, <1>4, Zeros, VaultAssumption DEF Init, TypeOK, CallInv, VaultAssumption
<1>6. CopyInv /\ OneKey
  BY <1>1, BlobFacts DEF CopyInv, OneKey, Within
<1>7. QED
  BY <1>4, <1>5, <1>6 DEF IInv

LEMMA StutterKeeps == IInv /\ UNCHANGED vars => IInv'
<1> SUFFICES ASSUME IInv, UNCHANGED vars PROVE IInv'
  OBVIOUS
<1>1. ASSUME NEW c \in Calls PROVE CallInv(c, call[c])'
  BY OfCall
     DEF CallInv, Place, HasRead, Locked, Recent, Steady, Within, InLock, File, Remote, vars, stored
<1>2. TypeOK'
  BY <1>1 DEF IInv, TypeOK, CallInv, vars, stored
<1>3. CopyInv' /\ OneKey'
  BY DEF IInv, CopyInv, OneKey, Copies, Within, Remote, vars, stored
<1>4. QED
  BY <1>1, <1>2, <1>3 DEF IInv

LEMMA StepIInv == ASSUME IInv, [Next]_vars PROVE IInv'
<1>1. ASSUME NEW c \in Calls, Load(c) PROVE IInv'
  BY <1>1, StartKeeps, LockKeeps, ReadMainKeeps, GuardKeeps, EstablishKeeps,
     EstablishRefusedKeeps, ReadBackupKeeps, EmptyProofKeeps, RestoreKeeps,
     RestoreUnansweredKeeps, RestoreRefusedKeeps, ReturnKeeps DEF Load
<1>2. ASSUME NEW c \in Calls, Change(c) PROVE IInv'
  BY <1>2, ReturnKeeps, MutateKeeps, NewKeyKeeps, WriteRowKeeps, WriteRowRefusedKeeps,
     WriteBackupKeeps, WriteMainKeeps DEF Change
<1>3. ASSUME NEW c \in Calls, Archive(c) PROVE IInv'
  BY <1>3, InspectKeeps, ArchiveBackupKeeps, ArchiveMainKeeps, ArchiveMainFailsKeeps DEF Archive
<1>4. ASSUME NEW c \in Calls, StorageFails(c) PROVE IInv'
  BY <1>4, ThrowsKeeps DEF StorageFails
<1>5. ASSUME NEW p \in Processes, Crash(p) PROVE IInv'
  BY <1>5, CrashKeeps
<1>6. CASE Damage
  BY <1>6, DamageKeeps
<1>7. ASSUME NEW l \in Legacy, LegacyWrite(l) \/ RolloutWrite(l) PROVE IInv'
  BY <1>7, LegacyKeeps
<1>8. CASE UNCHANGED vars
  BY <1>8, StutterKeeps
<1>9. QED
  BY <1>1, <1>2, <1>3, <1>4, <1>5, <1>6, <1>7, <1>8 DEF Next

\* IInv is an inductive invariant of the vault.
THEOREM Inductive == Spec => []IInv
<1>1. IInv /\ [Next]_vars => IInv'
  BY StepIInv
<1>2. QED
  BY <1>1, InitIInv, PTL DEF Spec

\* Every variable has its type, and a call only goes on from a value it has read.
THEOREM Typing == Spec => []TypeOK
<1>1. IInv => TypeOK
  BY DEF IInv
<1>2. QED
  BY <1>1, Inductive, PTL

\* Saved and read changes stay in every readable copy, through any failures,
\* crashes, damaged copies, restores and writers (vault.ts:1520-1653).
THEOREM SeenIsKept == Spec => []SeenKept
<1>1. IInv => SeenKept
  BY BlobFacts DEF IInv, CopyInv, SeenKept, Copies, Within
<1>2. QED
  BY <1>1, Inductive, PTL

\* No call is given a list older than one that was known when it began.
THEOREM ReadsAreRecent == Spec => []ReadsRecent
<1>1. IInv => ReadsRecent
  BY DEF IInv, CallInv, Recent, ReadsRecent, At
<1>2. QED
  BY <1>1, Inductive, PTL

\* Instances with different secrets never take a vault from each other: the proof
\* names the key of every readable copy (convex/vault.ts, compareAndSet).
THEOREM OneKeyOnly == Spec => []OneKey
<1>1. IInv => OneKey
  BY DEF IInv
<1>2. QED
  BY <1>1, Inductive, PTL

-----------------------------------------------------------------------------
(* The list behind the copies *)

\* What a load finds in a main m and a backup b, and whether it finds nothing.
Loaded(m, b) == ChangesOf(IF m \in Blobs THEN m ELSE b)
Missing(m, b) == (IF m \in Blobs THEN m ELSE b) \notin Blobs /\ {m, b} # {None}

LEMMA LoadedFacts ==
    ASSUME NEW m \in Values, NEW b \in Values
    PROVE  /\ Loaded(m, b) \in SUBSET Changes
           /\ m \in Blobs => Loaded(m, b) = m.changes /\ ~Missing(m, b)
           /\ m \notin Blobs /\ b \in Blobs => Loaded(m, b) = b.changes /\ ~Missing(m, b)
           /\ m \notin Blobs /\ b \notin Blobs =>
                 Loaded(m, b) = {} /\ (Missing(m, b) <=> m # None \/ b # None)
BY BlobFacts, ValueFacts DEF Loaded, Missing

LEMMA MapFacts ==
    /\ ChangesOf(Current) = Loaded(main, backup)
    /\ (Current \notin Blobs /\ Copies # {None}) <=> Missing(main, backup)
    /\ ChangesOf(Current)' = Loaded(main', backup')
    /\ (Current \notin Blobs /\ Copies # {None})' <=> Missing(main', backup')
BY DEF Current, Copies, Loaded, Missing, ChangesOf

Refines == [List!Next]_(List!vars)

LEMMA SameList ==
    ASSUME Loaded(main', backup') = Loaded(main, backup), known' = known,
           Missing(main', backup') <=> Missing(main, backup)
    PROVE  Refines
BY MapFacts DEF Refines, List!vars

\* One change is added, or none, to a list that is there.
LEMMA Grows ==
    ASSUME NEW d \in Changes, ~Missing(main, backup), ~Missing(main', backup'),
           Loaded(main, backup) \in SUBSET Changes,
           Loaded(main, backup) \subseteq Loaded(main', backup'),
           Loaded(main', backup') \subseteq Loaded(main, backup) \cup {d},
           known' = known \/ known' = known \cup Loaded(main', backup')
    PROVE  Refines
<1>1. CASE Loaded(main', backup') = Loaded(main, backup) \cup {d}
  <2>1. List!Save(d)
    BY <1>1, MapFacts DEF List!Save
  <2>2. QED
    BY <2>1 DEF Refines, List!Next
<1>2. CASE Loaded(main', backup') = Loaded(main, backup) /\ known' = known
  BY <1>2, SameList
<1>3. CASE Loaded(main', backup') = Loaded(main, backup) /\ known' = known \cup Loaded(main', backup')
  <2>1. List!Read(Loaded(main, backup))
    BY <1>3, MapFacts DEF List!Read
  <2>2. QED
    BY <2>1 DEF Refines, List!Next
<1>4. QED
  BY <1>1, <1>2, <1>3

LEMMA Loses ==
    ASSUME Missing(main', backup'), Loaded(main', backup') = {}, known' = known
    PROVE  Refines
<1>1. List!Lose
  BY MapFacts DEF List!Lose
<1>2. QED
  BY <1>1 DEF Refines, List!Next

LEMMA Finds ==
    ASSUME Missing(main, backup), ~Missing(main', backup'),
           Loaded(main', backup') \in SUBSET Changes, known \subseteq Loaded(main', backup'),
           known' = known \/ known' = known \cup Loaded(main', backup')
    PROVE  Refines
<1>1. List!Find
  BY MapFacts DEF List!Find
<1>2. QED
  BY <1>1 DEF Refines, List!Next

\* No step of another call or of the deployment.
Alone(c) == backend' = backend /\ \A d \in Calls \ {c} : call'[d] = call[d]

LEMMA OneMoves ==
    ASSUME TypeOK, NEW c \in Calls, NEW l, Moves(c, l), backend' = backend
    PROVE  Alone(c) /\ call'[c] = l
BY DEF Alone, Moves, TypeOK

\* What Seen says holds of its own of a call outside the lock and of any call on
\* remote rows.
LEMMA SeenFree ==
    ASSUME NEW c \in Calls, NEW l, Place(c, l), Remote \/ ~InLock(c, l), TypeOK
    PROVE  Seen(c, l)
BY Kinds, Backend DEF Seen, Place, InLock, LocalSteps

LEMMA SeenFreeNext ==
    ASSUME NEW c \in Calls, NEW l, Place(c, l)', (Remote \/ ~InLock(c, l))', TypeOK'
    PROVE  Seen(c, l)'
<1>1. (File \/ Remote)' /\ ~(File /\ Remote)'
  BY VaultAssumption DEF VaultAssumption, TypeOK, File, Remote, BackendKinds
<1>2. QED
  BY <1>1, Kinds DEF Seen, Place, InLock, LocalSteps

Keeps == ListInv' /\ Refines

LEMMA SeenStays ==
    ASSUME NEW d \in Calls, Seen(d, call[d]), call'[d] = call[d], UNCHANGED <<backend, stored>>
    PROVE  Seen(d, call[d])'
BY DEF Seen, Near, File, stored

\* A step that leaves the copies and what is known alone.
LEMMA QuietList ==
    ASSUME ListInv, NEW c \in Calls, Alone(c), Seen(c, call[c])', UNCHANGED <<stored, known>>
    PROVE  Keeps
<1>1. ASSUME NEW d \in Calls PROVE Seen(d, call[d])'
  BY SeenStays DEF ListInv, Alone
<1>2. ListInv'
  BY <1>1 DEF ListInv, Near, Alone, stored, Remote
<1>3. Refines
  BY SameList DEF stored
<1>4. QED
  BY <1>2, <1>3 DEF Keeps

Telling == {"got", "write", "archive", "archiveMain"}

LEMMA CalmList ==
    ASSUME ListInv, NEW c \in Calls, Alone(c), call'[c].pc \notin Telling,
           UNCHANGED <<stored, known>>
    PROVE  Keeps
<1>1. Seen(c, call[c])'
  BY DEF Seen, Telling
<1>2. QED
  BY <1>1, QuietList

LEMMA EndCalm ==
    ASSUME TypeOK, NEW c \in Calls, End(c), backend' = backend
    PROVE  Alone(c) /\ call'[c].pc \in {"idle", "done"}
<1>1. PICK l \in CallRecords :
         Moves(c, l) /\ l.pc = (IF c \in Writers THEN "done" ELSE "idle") /\ l.floor = {}
  BY Ended
<1>2. QED
  BY <1>1, OneMoves

LEMMA ThrowsList == ASSUME IInv, ListInv, NEW c \in Calls, Throws(c) PROVE Keeps
<1>1. Alone(c) /\ call'[c].pc \in {"idle", "done"}
  BY EndCalm DEF Throws, IInv
<1>2. QED
  BY <1>1, CalmList DEF Throws, Telling

LEMMA ReadAgainList == ASSUME IInv, ListInv, NEW c \in Calls, ReadAgain(c) PROVE Keeps
<1>1. CASE call[c].reads + 1 < ReadAttempts
  <2>1. Alone(c) /\ call'[c].pc = "main"
    BY <1>1, OfCall DEF ReadAgain, Alone, IInv, TypeOK, CallRecords
  <2>2. QED
    BY <2>1, CalmList DEF ReadAgain, Telling
<1>2. CASE ~(call[c].reads + 1 < ReadAttempts)
  BY <1>2, ThrowsList DEF ReadAgain, Throws
<1>3. QED
  BY <1>1, <1>2

LEMMA GotoList ==
    ASSUME IInv, ListInv, NEW c \in Calls, NEW label \in PCs \ Telling, Goto(c, label),
           UNCHANGED <<backend, stored, known>>
    PROVE  Keeps
<1>1. Alone(c) /\ call'[c].pc = label
  BY OfCall DEF Goto, Alone, IInv, TypeOK, CallRecords
<1>2. QED
  BY <1>1, CalmList

\* A call is given a list that is no newer than the copies.
LEMMA GotList ==
    ASSUME IInv, ListInv, NEW c \in Calls \ Archivers, NEW raw \in Blobs \cup {None}, Got(c, raw),
           UNCHANGED <<backend, stored>>,
           Within(ChangesOf(raw), main), Within(ChangesOf(raw), backup),
           File /\ c \in Writers /\ raw = None => backup = None, main = None => raw = None
    PROVE  Keeps
<1>1. raw \in Values /\ ChangesOf(raw) \in SUBSET Changes /\ main \in Values /\ backup \in Values
      /\ TypeOK
  BY BlobFacts DEF Values, ChangesOf, IInv, TypeOK
<1>2. PICK l \in CallRecords :
         Moves(c, l) /\ l.pc = "got" /\ l.main = raw /\ l.floor = call[c].floor
  BY <1>1, GotLocal
<1>3. Alone(c) /\ call'[c] = l
  BY <1>1, <1>2, OneMoves
<1>4. ASSUME NEW d \in Calls PROVE Seen(d, call[d])'
  <2>1. CASE d = c
    BY <1>2, <1>3, <2>1 DEF Seen, File, stored
  <2>2. CASE d # c
    BY <1>3, <2>2, SeenStays DEF ListInv, Alone
  <2>3. QED
    BY <2>1, <2>2
<1>5. ListInv'
  BY <1>4 DEF ListInv, Near, stored, Remote
<1>6. Refines
  <2>1. ~Missing(main, backup) => ChangesOf(raw) \subseteq Loaded(main, backup)
    <3>1. CASE main \in Blobs
      BY <1>1, <3>1, LoadedFacts DEF Within
    <3>2. CASE main \notin Blobs /\ backup \in Blobs
      BY <1>1, <3>2, LoadedFacts DEF Within
    <3>3. CASE main \notin Blobs /\ backup \notin Blobs /\ ~Missing(main, backup)
      <4>1. main = None
        BY <1>1, <3>3, LoadedFacts
      <4>2. QED
        BY <4>1 DEF ChangesOf
    <3>4. QED
      BY <3>1, <3>2, <3>3
  <2>2. List!Read(ChangesOf(raw))
    <3>1. known' = known \cup ChangesOf(raw)
      BY DEF Got
    <3>2. UNCHANGED <<main, backup>>
      BY DEF stored
    <3>3. QED
      BY <2>1, <3>1, <3>2, MapFacts DEF List!Read
  <2>3. QED
    BY <1>1, <2>2 DEF Refines, List!Next
<1>7. QED
  BY <1>5, <1>6 DEF Keeps

LEMMA ReadingList ==
    ASSUME IInv, ListInv, NEW c \in Calls, Start(c) \/ Lock(c) \/ ReadMain(c) \/ Guard(c)
    PROVE  Keeps
<1>1. CallInv(c, call[c]) /\ TypeOK /\ CopyInv /\ main \in Values
  BY OfCall DEF IInv, TypeOK
<1>2. CASE Start(c)
  <2>1. Alone(c) /\ call'[c].pc \in {"lock", "main"}
    BY <1>2, OfCall DEF Start, Alone, IInv, TypeOK, CallRecords
  <2>2. QED
    BY <1>2, <2>1, CalmList DEF Start, Telling
<1>3. CASE Lock(c)
  <2>1. Alone(c) /\ call'[c].pc \in {"restore", "main", "inspect"}
    BY <1>3, OfCall DEF Lock, Goto, Alone, IInv, TypeOK, CallRecords
  <2>2. QED
    BY <1>3, <2>1, CalmList DEF Lock, Telling
<1>4. CASE ReadMain(c)
  <2>1. c \notin Archivers
    BY <1>1, <1>4 DEF CallInv, Place, ArchiverSteps, ReadMain, At
  <2>2. CASE Got(c, main) /\ main \in Blobs
    <3>1. ChangesOf(main) = main.changes /\ main # None
      BY <2>2, BlobFacts
    <3>2. Within(ChangesOf(main), main) /\ Within(ChangesOf(main), backup)
      BY <1>1, <2>2, <3>1 DEF CopyInv, Within
    <3>3. QED
      BY <1>4, <2>1, <2>2, <3>1, <3>2, GotList DEF ReadMain, stored
  <2>3. CASE End(c) /\ UNCHANGED known
    BY <1>4, <2>3, ThrowsList, EndCalm, CalmList DEF ReadMain, Telling, IInv
  <2>4. CASE UNCHANGED <<holder, known>>
             /\ \E label \in {"backup", "guard"} : call' = [call EXCEPT ![c].pc = label, ![c].main = main]
    <3>1. Alone(c) /\ call'[c].pc \in {"backup", "guard"}
      BY <1>4, <2>4, OfCall DEF ReadMain, Alone, IInv, TypeOK, CallRecords
    <3>2. QED
      BY <1>4, <2>4, <3>1, CalmList DEF ReadMain, Telling
  <2>5. QED
    BY <1>1, <1>4, <2>2, <2>3, <2>4, ValueFacts DEF ReadMain
<1>5. CASE Guard(c)
  <2>1. c \notin Archivers /\ call[c].main \in Blobs /\ ~File
    BY <1>1, <1>5, Backend DEF CallInv, Place, ArchiverSteps, RemoteSteps, HasRead, Guard, At
  <2>2. CASE Got(c, call[c].main)
    <3>1. /\ ChangesOf(call[c].main) = call[c].main.changes /\ main # None
          /\ Within(call[c].main.changes, main) /\ Within(call[c].main.changes, backup)
      BY <1>1, <1>5, <2>1, BlobFacts DEF CallInv, Recent, Guard, At
    <3>2. QED
      BY <1>5, <2>1, <2>2, <3>1, GotList DEF Guard, stored
  <2>3. CASE (Goto(c, "establish") \/ Goto(c, "backup")) /\ UNCHANGED <<holder, known>>
    BY <1>5, <2>3, GotoList DEF Guard, PCs, Telling
  <2>4. QED
    BY <1>5, <2>2, <2>3 DEF Guard
<1>6. QED
  BY <1>2, <1>3, <1>4, <1>5

LEMMA EmptyList ==
    ASSUME IInv, ListInv, NEW c \in Calls,
           ReadBackup(c) \/ EmptyProof(c) \/ EstablishRefused(c) \/ GuardFails(c)
    PROVE  Keeps
<1>1. CallInv(c, call[c]) /\ TypeOK /\ CopyInv /\ backup \in Values
  BY OfCall DEF IInv, TypeOK
<1>2. ChangesOf(None) = {} /\ Within({}, main) /\ Within({}, backup)
  BY DEF ChangesOf, Within
<1>3. CASE ReadBackup(c)
  <2>1. c \notin Archivers
    BY <1>1, <1>3 DEF CallInv, Place, ArchiverSteps, ReadBackup, At
  <2>2. CASE backup = None /\ Got(c, None) /\ UNCHANGED <<backend, fenced, stored, damages>>
    BY <1>2, <2>1, <2>2, GotList
  <2>3. CASE Goto(c, "empty") /\ UNCHANGED <<backend, fenced, stored, holder, known, damages>>
    BY <2>3, GotoList DEF PCs, Telling
  <2>4. CASE /\ \E label \in {"lockRestore", "restore"} :
                   call' = [call EXCEPT ![c].backup = backup, ![c].pc = label]
             /\ UNCHANGED <<backend, fenced, stored, holder, known, damages>>
    <3>1. Alone(c) /\ call'[c].pc \in {"lockRestore", "restore"}
      BY <2>4, OfCall DEF Alone, IInv, TypeOK, CallRecords
    <3>2. QED
      BY <2>4, <3>1, CalmList DEF Telling
  <2>5. QED
    BY <1>3, <2>2, <2>3, <2>4, ThrowsList DEF ReadBackup
<1>4. CASE EmptyProof(c)
  <2>1. c \notin Archivers /\ ~File
    BY <1>1, <1>4 DEF CallInv, Place, ArchiverSteps, RemoteSteps, EmptyProof, At
  <2>2. CASE Got(c, None) /\ UNCHANGED <<backend, fenced, stored, damages>>
    BY <1>2, <2>1, <2>2, GotList
  <2>3. QED
    BY <1>4, <2>2, ThrowsList DEF EmptyProof
<1>5. CASE EstablishRefused(c)
  BY <1>5, ReadAgainList, GotoList DEF EstablishRefused, PCs, Telling
<1>6. CASE GuardFails(c)
  BY <1>6, GotoList DEF GuardFails, PCs, Telling
<1>7. QED
  BY <1>3, <1>4, <1>5, <1>6

\* Both copies become the same blob.
LEMMA TwinList ==
    ASSUME ListInv, IInv', NEW blob \in Blobs, main' = blob, backup' = blob, Remote'
    PROVE  ListInv'
<1>1. Near(blob.changes, blob) /\ blob # None
  BY BlobFacts DEF Near, Changes
<1>2. ASSUME NEW d \in Calls PROVE Seen(d, call[d])'
  BY SeenFreeNext DEF IInv, CallInv
<1>3. QED
  BY <1>1, <1>2 DEF ListInv, Near

\* The call in the lock of the local vault writes; the others have read nothing.
LEMMA LockedList ==
    ASSUME IInv, IInv', File, NEW c \in Calls, InLock(c, call[c]), backend' = backend,
           \A d \in Calls \ {c} : call'[d].pc = call[d].pc,
           Seen(c, call[c])', main' \in Blobs => Near(main'.changes, backup')
    PROVE  ListInv'
<1>1. holder = c /\ File' /\ ~Remote'
  BY OfCall, Backend DEF CallInv, Place, File, Remote, IInv
<1>2. ASSUME NEW d \in Calls, d # c PROVE Seen(d, call[d])'
  <2>1. ~InLock(d, call[d])
    BY <1>1, <1>2, OfCall DEF CallInv, Place
  <2>2. ~InLock(d, call[d])'
    BY <1>2, <2>1 DEF InLock
  <2>3. QED
    BY <2>2, SeenFreeNext DEF IInv, CallInv
<1>3. QED
  BY <1>1, <1>2 DEF ListInv, Near

\* A list taken from a copy that is one change ahead at most.
LEMMA Copied ==
    ASSUME IInv, ListInv, IInv', NEW blob \in Blobs, NEW d \in Changes,
           Loaded(main', backup') = blob.changes, ~Missing(main, backup), ~Missing(main', backup'),
           Loaded(main, backup) \subseteq blob.changes,
           blob.changes \subseteq Loaded(main, backup) \cup {d},
           known' = known \/ known' = known \cup blob.changes
    PROVE  Refines
<1>1. Loaded(main, backup) \in SUBSET Changes
  BY LoadedFacts DEF IInv, TypeOK
<1>2. QED
  BY <1>1, Grows

LEMMA EstablishList ==
    ASSUME IInv, ListInv, IInv', NEW c \in Calls, Establish(c) \/ EstablishUnanswered(c)
    PROVE  Keeps
<1> DEFINE blob == call[c].main
<1>1. CallInv(c, call[c]) /\ call[c].pc = "establish" /\ TypeOK
  BY OfCall DEF Establish, EstablishUnanswered, At, IInv
<1>2. Remote /\ blob \in Blobs
  BY <1>1, Backend DEF CallInv, Place, RemoteSteps, HasRead
<1>3. main = blob /\ main' = blob /\ backup' = blob /\ UNCHANGED <<backend, fenced, damages>>
  BY DEF Establish, EstablishUnanswered, Commit
<1>4. known' = known \/ known' = known \cup blob.changes
  BY <1>2, BlobFacts DEF Establish, EstablishUnanswered, Got
<1> HIDE DEF blob
<1>5. ListInv'
  BY <1>2, <1>3, TwinList DEF Remote
<1>6. /\ Loaded(main', backup') = blob.changes /\ Loaded(main, backup) = blob.changes
      /\ ~Missing(main, backup) /\ ~Missing(main', backup')
  BY <1>2, <1>3, LoadedFacts DEF IInv, TypeOK
<1>7. Refines
  BY <1>2, <1>4, <1>6, Copied DEF Changes
<1>8. QED
  BY <1>5, <1>7 DEF Keeps

LEMMA RestoreList ==
    ASSUME IInv, ListInv, IInv', NEW c \in Calls,
           Restore(c) \/ RestoreUnanswered(c) \/ RestoreRefused(c) \/ Return(c)
    PROVE  Keeps
<1>1. ASSUME Restore(c) \/ RestoreUnanswered(c) PROVE Keeps
  <2>1. Restored(c) /\ UNCHANGED <<backend, fenced, damages>>
    BY <1>1 DEF Restore, RestoreUnanswered
  <2>2. /\ c \notin Archivers /\ backup \in Blobs /\ ChangesOf(backup) = backup.changes
        /\ main \in Blobs => main.changes \subseteq backup.changes
        /\ main' = backup /\ backup' = backup /\ InLock(c, call[c]) /\ backup # None
    BY <2>1, RestoredFacts
  <2>3. known' = known \/ known' = known \cup backup.changes
    BY <1>1, <2>2 DEF Restore, RestoreUnanswered, Got
  <2>4. ASSUME Remote PROVE ListInv'
    BY <2>1, <2>2, <2>4, TwinList DEF Remote
  <2>5. ASSUME File PROVE ListInv'
    <3>1. Restore(c)
      BY <1>1, <2>5, Backend DEF RestoreUnanswered, IInv
    <3>2. PICK l \in CallRecords :
             Moves(c, l) /\ l.pc = "got" /\ l.main = backup /\ l.floor = call[c].floor
      BY <2>2, <3>1, GotLocal DEF Restore, Values
    <3>3. Alone(c) /\ call'[c] = l
      BY <2>1, <3>2, OneMoves DEF IInv
    <3>4. Seen(c, call[c])'
      BY <2>2, <3>2, <3>3 DEF Seen
    <3>5. Near(main'.changes, backup')
      BY <2>2 DEF Near, Changes
    <3>6. QED
      BY <2>2, <2>5, <3>3, <3>4, <3>5, LockedList DEF Alone
  <2>6. ListInv'
    BY <2>4, <2>5, Backend DEF IInv
  <2>7. Loaded(main', backup') = backup.changes /\ ~Missing(main', backup') /\ ~Missing(main, backup)
    BY <2>2, LoadedFacts DEF IInv, TypeOK
  <2>8. PICK d \in Changes :
           /\ Loaded(main, backup) \subseteq backup.changes
           /\ backup.changes \subseteq Loaded(main, backup) \cup {d}
    <3>1. CASE main \in Blobs
      BY <2>2, <3>1, LoadedFacts DEF IInv, TypeOK, ListInv, Near
    <3>2. CASE main \notin Blobs
      BY <2>2, <3>2, LoadedFacts DEF IInv, TypeOK, Changes
    <3>3. QED
      BY <3>1, <3>2
  <2>9. Refines
    BY <2>2, <2>3, <2>7, <2>8, Copied
  <2>10. QED
    BY <2>6, <2>9 DEF Keeps
<1>2. CASE RestoreRefused(c)
  BY <1>2, ThrowsList, ReadAgainList DEF RestoreRefused
<1>3. CASE Return(c)
  BY <1>3, ThrowsList DEF Return, Throws
<1>4. QED
  BY <1>1, <1>2, <1>3

LEMMA MutateList ==
    ASSUME IInv, ListInv, NEW c \in Calls,
           NoChange(c) \/ Mutate(c) \/ NewKey(c) \/ WriteRowRefused(c)
    PROVE  Keeps
<1>1. CallInv(c, call[c]) /\ TypeOK /\ Seen(c, call[c])
  BY OfCall DEF IInv, ListInv
<1>2. CASE NoChange(c)
  BY <1>2, ThrowsList DEF NoChange, Throws
<1>3. CASE Mutate(c)
  <2>1. /\ Alone(c) /\ call'[c].pc \in {"newKey", "write"} /\ call'[c].main = call[c].main
        /\ c \in Writers /\ call[c].pc = "got" /\ UNCHANGED <<stored, known, backend>>
    BY <1>3, OfCall DEF Mutate, At, Alone, IInv, TypeOK, CallRecords
  <2>2. Seen(c, call[c])'
    BY <1>1, <2>1, Kinds DEF Seen, File, stored
  <2>3. QED
    BY <2>1, <2>2, QuietList
<1>4. CASE NewKey(c) /\ ~Throws(c)
  <2>1. /\ Alone(c) /\ call'[c].pc = "write" /\ call[c].pc = "newKey"
        /\ UNCHANGED <<stored, known, backend>>
    BY <1>4, OfCall DEF NewKey, At, Alone, IInv, TypeOK, CallRecords
  <2>2. Seen(c, call[c])'
    BY <1>1, <2>1 DEF Seen, File, CallInv, Place, RemoteSteps
  <2>3. QED
    BY <2>1, <2>2, QuietList
<1>5. CASE WriteRowRefused(c) /\ ~Throws(c)
  <2>1. Alone(c) /\ call'[c].pc = "main" /\ UNCHANGED <<stored, known, backend>>
    BY <1>5, <1>1 DEF WriteRowRefused, Alone, TypeOK, Idle
  <2>2. QED
    BY <2>1, CalmList DEF Telling
<1>6. QED
  BY <1>2, <1>3, <1>4, <1>5, ThrowsList

LEMMA WriteRowList ==
    ASSUME IInv, ListInv, IInv', NEW c \in Calls, WriteRow(c) \/ WriteRowUnanswered(c)
    PROVE  Keeps
<1> DEFINE blob == Changed(c)
<1>1. /\ CallInv(c, call[c]) /\ call[c].pc = "write" /\ TypeOK /\ Remote
      /\ UNCHANGED <<backend, fenced, damages>>
      /\ main = call[c].main /\ main' = blob /\ backup' = blob
  BY OfCall DEF WriteRow, WriteRowUnanswered, Commit, At, IInv
<1>2. c \in Writers /\ c \in Changes
  BY <1>1, Kinds DEF CallInv, Place, ReaderSteps, ArchiverSteps
<1>3. /\ blob \in Blobs /\ blob.changes = ChangesOf(main) \cup {c} /\ main \in Blobs \cup {None}
  BY <1>1, <1>2, ChangedFacts
<1>4. known' = known \/ known' = known \cup blob.changes
  BY DEF WriteRow, WriteRowUnanswered, Saved
<1> HIDE DEF blob
<1>5. ListInv'
  BY <1>1, <1>3, TwinList DEF Remote
<1>6. Loaded(main', backup') = blob.changes /\ ~Missing(main', backup')
  BY <1>1, <1>3, LoadedFacts DEF IInv, TypeOK
<1>7. ~Missing(main, backup) /\ Loaded(main, backup) = ChangesOf(main)
  <2>1. CASE main \in Blobs
    BY <1>1, <2>1, LoadedFacts, BlobFacts DEF TypeOK
  <2>2. CASE main = None
    <3>1. backup = None /\ ChangesOf(None) = {} /\ None \notin Blobs
      BY <1>1, <2>2, BlobFacts DEF ListInv, ChangesOf
    <3>2. QED
      BY <1>1, <2>2, <3>1, LoadedFacts DEF TypeOK
  <2>3. QED
    BY <1>3, <2>1, <2>2
<1>8. Refines
  BY <1>2, <1>3, <1>4, <1>6, <1>7, Copied
<1>9. QED
  BY <1>5, <1>8 DEF Keeps

LEMMA WriteBackupList ==
    ASSUME IInv, ListInv, IInv', NEW c \in Calls, WriteBackup(c)
    PROVE  Keeps
<1> DEFINE blob == Changed(c)
<1>1. CallInv(c, call[c]) /\ call[c].pc = "write" /\ TypeOK /\ File /\ Seen(c, call[c])
  BY OfCall DEF WriteBackup, At, IInv, ListInv
<1>2. c \in Writers /\ c \notin Readers /\ c \in Changes
  BY <1>1, Kinds DEF CallInv, Place, ReaderSteps, ArchiverSteps
<1>3. CASE main = call[c].main
  <2>1. /\ blob \in Blobs /\ blob.changes = ChangesOf(main) \cup {c} /\ main \in Blobs \cup {None}
    BY <1>1, <1>2, <1>3, ChangedFacts
  <2>2. backup' = blob /\ Goto(c, "publish") /\ UNCHANGED <<backend, main, known>>
    BY <1>3 DEF WriteBackup
  <2> HIDE DEF blob
  <2>3. Alone(c) /\ call'[c].pc = "publish" /\ InLock(c, call[c])
    BY <1>1, <1>2, <2>2, OfCall DEF Goto, Alone, IInv, TypeOK, CallRecords, InLock
  <2>4. Seen(c, call[c])'
    BY <2>3 DEF Seen
  <2>5. main \in Blobs => Near(main.changes, blob)
    BY <1>2, <2>1, BlobFacts DEF Near
  <2>6. ListInv'
    BY <1>1, <2>2, <2>3, <2>4, <2>5, LockedList DEF Alone
  <2>7. CASE main \in Blobs
    <3>1. /\ Loaded(main, backup) = Loaded(main', backup')
          /\ ~Missing(main, backup) /\ ~Missing(main', backup')
      BY <2>2, <2>7, LoadedFacts DEF IInv, TypeOK
    <3>2. QED
      BY <2>2, <2>6, <3>1, SameList DEF Keeps
  <2>8. CASE main = None
    <3>1. backup = None /\ ChangesOf(None) = {} /\ None \notin Blobs
      BY <1>1, <1>2, <1>3, <2>8, BlobFacts DEF Seen, ChangesOf
    <3>2. Loaded(main, backup) = {} /\ ~Missing(main, backup)
      BY <1>1, <2>8, <3>1, LoadedFacts DEF TypeOK
    <3>3. Loaded(main', backup') = blob.changes /\ ~Missing(main', backup') /\ blob.changes = {c}
      BY <2>1, <2>2, <2>8, <3>1, LoadedFacts DEF IInv, TypeOK
    <3>4. Refines
      BY <1>2, <2>1, <2>2, <3>2, <3>3, Copied
    <3>5. QED
      BY <2>6, <3>4 DEF Keeps
  <2>9. QED
    BY <2>1, <2>7, <2>8
<1>4. QED
  BY <1>3, ThrowsList DEF WriteBackup

LEMMA WriteMainList ==
    ASSUME IInv, ListInv, IInv', NEW c \in Calls, WriteMain(c)
    PROVE  Keeps
<1> DEFINE blob == Changed(c)
<1>1. /\ CallInv(c, call[c]) /\ call[c].pc = "publish" /\ TypeOK /\ CopyInv
      /\ End(c) /\ UNCHANGED <<backend, backup>>
      /\ main' = blob /\ known' = known \cup blob.changes
  BY OfCall DEF WriteMain, Saved, At, IInv
<1>2. File /\ c \in Writers /\ c \notin Readers /\ c \in Changes
  BY <1>1, Kinds, Backend DEF CallInv, Place, LocalSteps, ReaderSteps, ArchiverSteps
<1>3. /\ blob \in Blobs /\ blob.changes = ChangesOf(call[c].main) \cup {c}
      /\ blob = [changes |-> ChangesOf(call[c].main) \cup {c}, key |-> call[c].key]
      /\ blob.changes \in SUBSET Changes
  BY <1>1, <1>2, ChangedFacts, BlobFacts DEF Changed
<1>4. known \subseteq blob.changes /\ (backup \in Unreadable \/ backup = blob) /\ Steady(call[c])
  BY <1>1, <1>2, <1>3 DEF CallInv, Locked
<1> HIDE DEF blob
<1>5. Alone(c) /\ call'[c].pc \in {"idle", "done"} /\ InLock(c, call[c])
  BY <1>1, <1>2, EndCalm DEF InLock
<1>6. ListInv'
  <2>1. Near(blob.changes, backup)
    BY <1>2, <1>4, BlobFacts DEF Near
  <2>2. Seen(c, call[c])'
    BY <1>5 DEF Seen
  <2>3. QED
    BY <1>1, <1>2, <1>5, <2>1, <2>2, LockedList DEF Alone
<1>7. Loaded(main', backup') = blob.changes /\ ~Missing(main', backup')
  BY <1>1, <1>3, LoadedFacts DEF IInv, TypeOK
<1>8. CASE main \in Blobs
  <2>1. main = call[c].main /\ ChangesOf(main) = main.changes
    BY <1>4, <1>8, BlobFacts DEF Steady
  <2>2. Loaded(main, backup) = main.changes /\ ~Missing(main, backup)
    BY <1>1, <1>8, LoadedFacts DEF TypeOK
  <2>3. Refines
    BY <1>1, <1>2, <1>3, <1>7, <2>1, <2>2, Copied
  <2>4. QED
    BY <1>6, <2>3 DEF Keeps
<1>9. CASE main \notin Blobs /\ backup = blob
  <2>1. Loaded(main, backup) = blob.changes /\ ~Missing(main, backup)
    BY <1>1, <1>3, <1>9, LoadedFacts DEF TypeOK
  <2>2. Refines
    BY <1>1, <1>2, <1>3, <1>7, <2>1, Copied
  <2>3. QED
    BY <1>6, <2>2 DEF Keeps
<1>10. CASE main \notin Blobs /\ backup \in Unreadable
  <2>1. Missing(main, backup)
    BY <1>1, <1>10, BlobFacts, ValueFacts, LoadedFacts DEF TypeOK
  <2>2. Refines
    BY <1>1, <1>3, <1>4, <1>7, <2>1, Finds
  <2>3. QED
    BY <1>6, <2>2 DEF Keeps
<1>11. QED
  BY <1>4, <1>8, <1>9, <1>10

LEMMA InspectList == ASSUME IInv, ListInv, NEW c \in Calls, Inspect(c) PROVE Keeps
<1>1. CallInv(c, call[c]) /\ TypeOK
  BY OfCall DEF IInv
<1>2. c \in Archivers
  BY <1>1, Kinds DEF Inspect, At, CallInv, Place, ReaderSteps, WriterSteps
<1>3. CASE ~Throws(c)
  <2>1. /\ Alone(c) /\ call'[c].pc = "archive" /\ call'[c].main = main /\ call'[c].backup = backup
        /\ main # None /\ UNCHANGED <<backend, stored, known>>
    BY <1>3, OfCall DEF Inspect, Alone, IInv, TypeOK, CallRecords
  <2>2. Seen(c, call[c])'
    BY <1>2, <2>1, Kinds DEF Seen, Near, stored, ListInv
  <2>3. QED
    BY <2>1, <2>2, QuietList
<1>4. QED
  BY <1>3, ThrowsList

\* What an archive in the lock knows, whether main has become unreadable or not.
LEMMA ArchiveFacts ==
    ASSUME IInv, ListInv, NEW c \in Calls, call[c].pc \in {"archive", "archiveMain"}
    PROVE  /\ File /\ c \in Archivers /\ InLock(c, call[c]) /\ main # None
           /\ call[c].backup \in Values /\ Seen(c, call[c]) /\ Within(known, call[c].backup)
           /\ main \in Values /\ backup \in Values /\ TypeOK
<1>1. CallInv(c, call[c]) /\ TypeOK /\ Seen(c, call[c]) /\ call[c].backup \in Values
  BY OfCall DEF IInv, ListInv
<1>2. File /\ c \in Archivers /\ c \notin Readers
  BY <1>1, Kinds, Backend DEF CallInv, Place, LocalSteps, ReaderSteps, WriterSteps
<1>3. main # None
  BY <1>1, <1>2, ValueFacts, Zeros DEF Seen, CallInv, Locked, Steady
<1>4. QED
  BY <1>1, <1>2, <1>3 DEF InLock, CallInv, Locked, TypeOK

LEMMA ArchiveBackupList ==
    ASSUME IInv, ListInv, IInv', NEW c \in Calls, ArchiveBackup(c) PROVE Keeps
<1>1. call[c].pc = "archive"
  BY DEF ArchiveBackup, At
<1>2. /\ File /\ c \in Archivers /\ InLock(c, call[c]) /\ main # None /\ Seen(c, call[c])
      /\ main \in Values /\ backup \in Values /\ TypeOK
  BY <1>1, ArchiveFacts
<1>3. CASE ~Throws(c)
  <2>1. /\ backup' \in {backup, None} /\ UNCHANGED <<backend, main, known>>
        /\ Goto(c, "archiveMain")
        /\ call[c].backup # None => backup = call[c].backup
        /\ backup' = IF call[c].backup \in {None, Empty} THEN backup ELSE None
    BY <1>3 DEF ArchiveBackup
  <2>2. /\ Alone(c) /\ call'[c].pc = "archiveMain" /\ call'[c].main = call[c].main
        /\ call'[c].backup = call[c].backup
    BY <2>1, OfCall DEF Goto, Alone, IInv, TypeOK, CallRecords
  <2>3. backup' \notin Blobs
    BY <1>1, <1>2, <2>1, VaultAssumption DEF Seen, VaultAssumption
  <2>4. Seen(c, call[c])'
    BY <1>1, <1>2, <2>1, <2>2, <2>3, Kinds DEF Seen, Near
  <2>5. ListInv'
    BY <1>2, <2>1, <2>2, <2>3, <2>4, LockedList DEF Alone, Near
  <2>6. CASE main \in Blobs
    <3>1. /\ Loaded(main, backup) = Loaded(main', backup')
          /\ ~Missing(main, backup) /\ ~Missing(main', backup')
      BY <1>2, <2>1, <2>6, LoadedFacts, Zeros
    <3>2. QED
      BY <2>1, <2>5, <3>1, SameList DEF Keeps
  <2>7. CASE main \notin Blobs
    <3>1. Missing(main', backup') /\ Loaded(main', backup') = {}
      BY <1>2, <2>1, <2>3, <2>7, LoadedFacts, Zeros
    <3>2. QED
      BY <2>1, <2>5, <3>1, Loses DEF Keeps
  <2>8. QED
    BY <2>6, <2>7
<1>4. QED
  BY <1>3, ThrowsList

LEMMA ArchiveMainList ==
    ASSUME IInv, ListInv, IInv', NEW c \in Calls, ArchiveMain(c) PROVE Keeps
<1>1. call[c].pc = "archiveMain" /\ main' = None /\ known' = {} /\ UNCHANGED <<backend, backup>>
  BY DEF ArchiveMain, At
<1>2. /\ File /\ c \in Archivers /\ InLock(c, call[c]) /\ Seen(c, call[c]) /\ backup \in Values
  BY <1>1, ArchiveFacts
<1>3. backup \notin Blobs /\ None \notin Blobs
  BY <1>1, <1>2, BlobFacts DEF Seen
<1>4. call'[c].pc = "idle" /\ \A d \in Calls \ {c} : call'[d].pc = call[d].pc
  BY OfCall DEF ArchiveMain, Idle, CallRecords
<1>5. ListInv'
  <2>1. Seen(c, call[c])'
    BY <1>4 DEF Seen
  <2>2. QED
    BY <1>1, <1>2, <1>3, <1>4, <2>1, LockedList
<1>6. List!GiveUp
  <2>1. Loaded(main', backup') = {}
    BY <1>1, <1>2, <1>3, LoadedFacts, Zeros
  <2>2. QED
    BY <1>1, <2>1, MapFacts DEF List!GiveUp
<1>7. QED
  BY <1>5, <1>6 DEF Keeps, Refines, List!Next

LEMMA ArchiveMainFailsList ==
    ASSUME IInv, ListInv, IInv', NEW c \in Calls, ArchiveMainFails(c) PROVE Keeps
<1>1. /\ call[c].pc = "archiveMain" /\ UNCHANGED <<backend, main, known>> /\ End(c)
      /\ backup' \in {backup, call[c].backup}
  BY DEF ArchiveMainFails, At
<1>2. /\ File /\ c \in Archivers /\ InLock(c, call[c]) /\ main # None /\ Seen(c, call[c])
      /\ call[c].backup \in Values /\ Within(known, call[c].backup)
      /\ main \in Values /\ backup \in Values /\ TypeOK
  BY <1>1, ArchiveFacts
<1>3. Alone(c) /\ call'[c].pc \in {"idle", "done"}
  BY <1>1, <1>2, EndCalm
<1>4. ListInv'
  <2>1. Seen(c, call[c])'
    BY <1>3 DEF Seen
  <2>2. main \in Blobs => Near(main.changes, backup')
    BY <1>1, <1>2 DEF Seen, Near
  <2>3. QED
    BY <1>1, <1>2, <1>3, <2>1, <2>2, LockedList DEF Alone
<1>5. CASE main \in Blobs
  <2>1. /\ Loaded(main, backup) = Loaded(main', backup')
        /\ ~Missing(main, backup) /\ ~Missing(main', backup')
    BY <1>1, <1>2, <1>5, LoadedFacts
  <2>2. QED
    BY <1>1, <1>4, <2>1, SameList DEF Keeps
<1>6. CASE main \notin Blobs /\ backup' \in Blobs
  <2>1. Missing(main, backup)
    BY <1>1, <1>2, <1>6, LoadedFacts DEF Seen
  <2>2. /\ Loaded(main', backup') = backup'.changes /\ ~Missing(main', backup')
        /\ Loaded(main', backup') \in SUBSET Changes
    BY <1>1, <1>2, <1>6, LoadedFacts
  <2>3. known \subseteq backup'.changes
    BY <1>1, <1>2, <1>6 DEF Within, Seen
  <2>4. QED
    BY <1>1, <1>4, <2>1, <2>2, <2>3, Finds DEF Keeps
<1>7. CASE main \notin Blobs /\ backup' \notin Blobs
  <2>1. Missing(main', backup') /\ Loaded(main', backup') = {}
    BY <1>1, <1>2, <1>7, LoadedFacts
  <2>2. QED
    BY <1>1, <1>4, <2>1, Loses DEF Keeps
<1>8. QED
  BY <1>5, <1>6, <1>7

LEMMA CrashList == ASSUME IInv, ListInv, NEW p \in Processes, Crash(p) PROVE Keeps
<1>1. UNCHANGED <<backend, stored, known>>
  BY DEF Crash
<1>2. ASSUME NEW d \in Calls PROVE Seen(d, call[d])'
  <2>1. CASE ProcOf[d] # p \/ call[d].pc \in {"idle", "done"}
    <3>1. call'[d] = call[d]
      BY <2>1 DEF Crash
    <3>2. QED
      BY <1>1, <3>1, SeenStays DEF ListInv
  <2>2. CASE ~(ProcOf[d] # p \/ call[d].pc \in {"idle", "done"})
    <3>1. call'[d].pc \in {"idle", "done"}
      BY <2>2 DEF Crash, Idle
    <3>2. QED
      BY <3>1 DEF Seen
  <2>3. QED
    BY <2>1, <2>2
<1>3. ListInv'
  BY <1>1, <1>2 DEF ListInv, Near, stored, Remote
<1>4. QED
  BY <1>1, <1>3, SameList DEF Keeps, stored

LEMMA DamageList == ASSUME IInv, ListInv, IInv', Damage PROVE Keeps
<1>1. /\ UNCHANGED <<backend, call, known>> /\ TypeOK /\ CopyInv
      /\ main \in Values /\ backup \in Values
  BY DEF Damage, IInv, TypeOK
<1>2. \/ main # None /\ main' \in Unreadable /\ backup' = backup
      \/ backup # None /\ backup' \in Unreadable /\ main' = main
  BY DEF Damage, Unreadable
<1>3. \A raw \in Unreadable : raw \notin Blobs /\ raw # None /\ raw \in Values
  BY BlobFacts, ValueFacts, Zeros DEF Values
<1>4. main' \in Values /\ backup' \in Values
  BY <1>1, <1>2, <1>3
<1>5. ASSUME NEW d \in Calls PROVE Seen(d, call[d])'
  <2>1. Seen(d, call[d]) /\ call'[d] = call[d]
    BY <1>1 DEF ListInv
  <2>2. /\ backup = None => backup' = None
        /\ backup \notin Blobs => backup' \notin Blobs
        /\ main' \in Blobs => main' = main
    BY <1>2, <1>3
  <2>3. QED
    BY <1>1, <2>1, <2>2 DEF Seen, Near, File
<1>6. ListInv'
  BY <1>1, <1>2, <1>3, <1>5 DEF ListInv, Near, Remote
<1>7. CASE main # None /\ main' \in Unreadable /\ backup' = backup
  <2>1. main' \notin Blobs /\ main' # None
    BY <1>3, <1>7
  <2>2. CASE main \in Blobs /\ backup \in Blobs
    <3>1. PICK d \in Changes : backup.changes \subseteq main.changes \cup {d}
      BY <2>2 DEF ListInv, Near
    <3>2. /\ Loaded(main, backup) = main.changes /\ Loaded(main', backup') = backup.changes
          /\ ~Missing(main, backup) /\ ~Missing(main', backup')
      BY <1>1, <1>4, <1>7, <2>1, <2>2, LoadedFacts
    <3>3. main.changes \subseteq backup.changes
      BY <1>1, <2>2 DEF CopyInv, Within
    <3>4. Refines
      BY <1>1, <2>2, <3>1, <3>2, <3>3, Copied
    <3>5. QED
      BY <1>6, <3>4 DEF Keeps
  <2>3. CASE main \notin Blobs /\ backup \in Blobs
    <3>1. /\ Loaded(main, backup) = Loaded(main', backup')
          /\ ~Missing(main, backup) /\ ~Missing(main', backup')
      BY <1>1, <1>4, <1>7, <2>1, <2>3, LoadedFacts
    <3>2. QED
      BY <1>1, <1>6, <3>1, SameList DEF Keeps
  <2>4. CASE backup \notin Blobs
    <3>1. Missing(main', backup') /\ Loaded(main', backup') = {}
      BY <1>4, <1>7, <2>1, <2>4, LoadedFacts
    <3>2. QED
      BY <1>1, <1>6, <3>1, Loses DEF Keeps
  <2>5. QED
    BY <2>2, <2>3, <2>4
<1>8. CASE backup # None /\ backup' \in Unreadable /\ main' = main
  <2>1. backup' \notin Blobs /\ backup' # None
    BY <1>3, <1>8
  <2>2. CASE main \in Blobs
    <3>1. /\ Loaded(main, backup) = Loaded(main', backup')
          /\ ~Missing(main, backup) /\ ~Missing(main', backup')
      BY <1>1, <1>4, <1>8, <2>2, LoadedFacts
    <3>2. QED
      BY <1>1, <1>6, <3>1, SameList DEF Keeps
  <2>3. CASE main \notin Blobs
    <3>1. Missing(main', backup') /\ Loaded(main', backup') = {}
      BY <1>4, <1>8, <2>1, <2>3, LoadedFacts
    <3>2. QED
      BY <1>1, <1>6, <3>1, Loses DEF Keeps
  <2>4. QED
    BY <2>2, <2>3
<1>9. QED
  BY <1>2, <1>7, <1>8

LEMMA LegacyList ==
    ASSUME IInv, ListInv, IInv', NEW l \in Legacy, LegacyWrite(l) \/ RolloutWrite(l) PROVE Keeps
<1>1. /\ TypeOK /\ CopyInv /\ Remote /\ proof = None /\ ~fenced
      /\ UNCHANGED <<backend, proof, holder, call, known, damages>>
      /\ backup' = backup \/ backup' = main'
  BY DEF LegacyWrite, RolloutWrite, IInv
<1>2. backup = None /\ (main \in Blobs \/ main = None) /\ l \in Changes
  BY <1>1, ValueFacts DEF CopyInv, LegacyWrite, RolloutWrite, TypeOK, Changes
<1>3. ChangesOf(main) \subseteq Changes /\ None \notin Blobs
  BY <1>2, BlobFacts DEF ChangesOf
<1>4. PICK k \in Keys : main' = [changes |-> ChangesOf(main) \cup {l}, key |-> k]
  BY DEF LegacyWrite, RolloutWrite, LegacyBlobs
<1>5. main' \in Blobs /\ main'.changes = ChangesOf(main) \cup {l}
  BY <1>2, <1>3, <1>4, BlobIs
<1>6. Loaded(main', backup') = main'.changes /\ ~Missing(main', backup')
  BY <1>5, LoadedFacts DEF IInv, TypeOK
<1>7. Loaded(main, backup) = ChangesOf(main) /\ ~Missing(main, backup)
  BY <1>1, <1>2, <1>3, LoadedFacts, BlobFacts DEF TypeOK, ChangesOf
<1>8. Refines
  BY <1>1, <1>2, <1>5, <1>6, <1>7, Copied
<1>9. ListInv'
  <2>1. ASSUME NEW d \in Calls PROVE Seen(d, call[d])'
    BY <1>1, SeenFreeNext DEF IInv, CallInv, Remote
  <2>2. Near(main'.changes, backup')
    BY <1>1, <1>2, <1>3 DEF Near
  <2>3. main' # None
    BY <1>3, <1>5
  <2>4. QED
    BY <2>1, <2>2, <2>3 DEF ListInv, Near
<1>10. QED
  BY <1>8, <1>9 DEF Keeps

LEMMA ListStep == ASSUME IInv, ListInv, [Next]_vars PROVE Keeps
<1>1. IInv'
  BY StepIInv
<1>2. ASSUME NEW c \in Calls, Load(c) PROVE Keeps
  BY <1>1, <1>2, ReadingList, EstablishList, EmptyList, RestoreList DEF Load
<1>3. ASSUME NEW c \in Calls, Change(c) PROVE Keeps
  BY <1>1, <1>3, MutateList, WriteRowList, WriteBackupList, WriteMainList DEF Change
<1>4. ASSUME NEW c \in Calls, Archive(c) PROVE Keeps
  BY <1>1, <1>4, InspectList, ArchiveBackupList, ArchiveMainList, ArchiveMainFailsList
     DEF Archive
<1>5. ASSUME NEW c \in Calls, StorageFails(c) PROVE Keeps
  BY <1>5, ThrowsList DEF StorageFails
<1>6. ASSUME NEW p \in Processes, Crash(p) PROVE Keeps
  BY <1>6, CrashList
<1>7. CASE Damage
  BY <1>1, <1>7, DamageList
<1>8. ASSUME NEW l \in Legacy, LegacyWrite(l) \/ RolloutWrite(l) PROVE Keeps
  BY <1>1, <1>8, LegacyList
<1>9. CASE UNCHANGED vars
  <2>1. ASSUME NEW d \in Calls PROVE Seen(d, call[d])'
    BY <1>9, SeenStays DEF ListInv, vars
  <2>2. ListInv'
    BY <1>9, <2>1 DEF ListInv, Near, Remote, vars, stored
  <2>3. QED
    BY <1>9, <2>2, SameList DEF Keeps, vars, stored
<1>10. QED
  BY <1>2, <1>3, <1>4, <1>5, <1>6, <1>7, <1>8, <1>9 DEF Next

LEMMA ListInit == Init => ListInv /\ List!Init
<1> SUFFICES ASSUME Init PROVE ListInv /\ List!Init
  OBVIOUS
<1>1. IInv
  BY InitIInv
<1>2. backup = None \/ backup = main
  BY DEF Init
<1>3. main \in Blobs \cup {None} /\ None \notin Blobs
  BY BlobFacts DEF Init, Blobs, Changes
<1>4. ASSUME NEW c \in Calls PROVE Seen(c, call[c])
  BY DEF Init, Idle, Seen
<1>5. ListInv
  BY <1>2, <1>3, <1>4 DEF ListInv, Near, Init, Changes
<1>6. Loaded(main, backup) \in SUBSET Changes /\ ~Missing(main, backup)
  BY <1>1, <1>2, <1>3, LoadedFacts DEF IInv, TypeOK
<1>7. List!Init
  BY <1>6, MapFacts DEF List!Init, Init
<1>8. QED
  BY <1>5, <1>7

\* The vault implements a shared list: every mutation is made in one step to the
\* list that is there, what was told stays in it, and only unreadable copies and
\* the user's own archive take it away (vault.ts:1443-1653, convex/vault.ts:222).
THEOREM Implements == Spec => ImplementsList
<1>1. Init => IInv /\ ListInv /\ List!Init
  BY InitIInv, ListInit
<1>2. IInv /\ ListInv /\ [Next]_vars => ListInv' /\ [List!Next]_(List!vars)
  BY ListStep DEF Keeps, Refines
<1>3. QED
  BY <1>1, <1>2, Inductive, PTL DEF Spec, ImplementsList, List!Spec
=============================================================================
