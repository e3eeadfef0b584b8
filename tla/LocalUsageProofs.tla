--------------------------- MODULE LocalUsageProofs ---------------------------
(***************************************************************************)
(* Theorems about LocalUsage, for any accounts, requests and limits.       *)
(***************************************************************************)
EXTENDS LocalUsageProps, FiniteSetTheorems, WellFoundedInduction, TLAPS

(* What is kept was there, and nothing whose refresh runs is dropped. *)
LEMMA KeptFacts ==
    ASSUME NEW cached, NEW order, NEW old, NEW busy
    PROVE  /\ Kept(cached, order, old, busy) \subseteq cached
           /\ cached \cap busy \subseteq Kept(cached, order, old, busy)
BY DEF Kept

(* The cache after Keep. *)
LEMMA KeepFacts ==
    ASSUME NEW entries \in [Accounts -> Entries \cup {None}],
           NEW kept \in SUBSET {k \in Accounts : entries[k] # None},
           NEW order \in SUBSET (Accounts \X Accounts), NEW old \in SUBSET Accounts,
           Keep(kept, entries, order, old)
    PROVE  /\ cache' \in [Accounts -> Entries \cup {None}]
           /\ older' \in SUBSET (Cached' \X Cached')
           /\ idle' \in SUBSET Cached'
           /\ \A k \in Accounts : cache'[k] # None => cache'[k] = entries[k]
           /\ \A k \in kept : cache'[k] = entries[k]
<1>1. cache' = [k \in Accounts |-> IF k \in kept THEN entries[k] ELSE None]
  BY DEF Keep
<1>2. cache' \in [Accounts -> Entries \cup {None}]
  BY <1>1
<1>3. \A k \in Accounts : cache'[k] # None => cache'[k] = entries[k]
  BY <1>1
<1>4. \A k \in kept : cache'[k] = entries[k]
  BY <1>1
<1>5. kept \subseteq Cached'
  BY <1>4 DEF Cached
<1>6. older' \in SUBSET (Cached' \X Cached')
  BY <1>5 DEF Keep, Among
<1>7. idle' \in SUBSET Cached'
  BY <1>5 DEF Keep
<1>8. QED
  BY <1>2, <1>3, <1>4, <1>6, <1>7

LEMMA TouchedType ==
    ASSUME NEW order \in SUBSET (Accounts \X Accounts), NEW cached \in SUBSET Accounts,
           NEW k \in Accounts
    PROVE  Touched(order, cached, k) \in SUBSET (Accounts \X Accounts)
BY DEF Touched

(* The same of a prune: what is busy stays. *)
LEMMA PruneFacts ==
    ASSUME NEW entries \in [Accounts -> Entries \cup {None}],
           NEW order \in SUBSET (Accounts \X Accounts), NEW old \in SUBSET Accounts,
           NEW busy,
           Prune(entries, order, old, busy)
    PROVE  /\ cache' \in [Accounts -> Entries \cup {None}]
           /\ older' \in SUBSET (Cached' \X Cached')
           /\ idle' \in SUBSET Cached'
           /\ \A k \in Accounts : cache'[k] # None => cache'[k] = entries[k]
           /\ \A k \in Accounts : k \in busy => cache'[k] = entries[k]
<1> DEFINE there == {k \in Accounts : entries[k] # None}
           kept == Kept(there, order, old, busy)
<1>1. kept \in SUBSET there /\ there \cap busy \subseteq kept
  BY KeptFacts
<1>2. Keep(kept, entries, order, old)
  BY DEF Prune
<1> HIDE DEF kept
<1>3. /\ cache' \in [Accounts -> Entries \cup {None}]
      /\ older' \in SUBSET (Cached' \X Cached')
      /\ idle' \in SUBSET Cached'
      /\ \A k \in Accounts : cache'[k] # None => cache'[k] = entries[k]
      /\ \A k \in kept : cache'[k] = entries[k]
  BY <1>1, <1>2, KeepFacts
<1>4. ASSUME NEW k \in Accounts, k \in busy
      PROVE  cache'[k] = entries[k]
  <2>1. CASE entries[k] # None
    BY <1>1, <1>3, <1>4, <2>1
  <2>2. CASE entries[k] = None
    BY <1>3, <2>2
  <2>3. QED
    BY <2>1, <2>2
<1>5. QED
  BY <1>3, <1>4

-----------------------------------------------------------------------------
LEMMA InitInv == ASSUME LocalAssumption, Init PROVE IInv
<1> USE DEF Init, LocalAssumption
<1>1. TypeOK
  BY DEF TypeOK, Cached, Flying, Requests, Resting, Epochs
<1>2. EntryInv
  BY DEF EntryInv, Current, Epochs
<1>3. FlightInv /\ LastGoodSurvives
  BY DEF FlightInv, LastGoodSurvives, Flying
<1>4. WaitInv /\ OldVerdictOnlyJoined
  BY DEF WaitInv, OldVerdictOnlyJoined, Resting
<1>5. QED
  BY <1>1, <1>2, <1>3, <1>4 DEF IInv

(* An entry is not None, and neither is a refresh. *)
LEMMA NoneApart ==
    ASSUME LocalAssumption
    PROVE  None \notin Entries /\ None \notin Flights /\ None \notin Accounts
<1>1. Entries \subseteq [readingOf : Nat, fresh : BOOLEAN, reauth : BOOLEAN,
                         cooling : BOOLEAN, verdictOf : Nat]
  BY DEF Entries, Epochs, LocalAssumption
<1>2. Flights \subseteq [step : {"queued", "read", "settled"}, epoch : Nat,
                         prior : BOOLEAN, starter : Callers]
  BY DEF Flights, LocalAssumption
<1>3. QED
  BY <1>1, <1>2 DEF LocalAssumption

LEMMA Bounds ==
    ASSUME LocalAssumption
    PROVE  /\ MaxEpoch \in Nat
           /\ Epochs \subseteq 0..MaxEpoch
           /\ 0 \in 0..MaxEpoch
           /\ \A e \in 0..MaxEpoch : e \in Nat
           /\ \A e \in Epochs : e \in Nat /\ e # 0
BY DEF LocalAssumption, Epochs

(* The steps that leave the refreshes and those who wait for them alone. *)
LEMMA TimeStep ==
    ASSUME LocalAssumption, IInv, NEW k \in Accounts,
           ReadingAges(k) \/ CooldownEnds(k) \/ EntryIdles(k)
    PROVE  IInv'
<1> USE DEF IInv
<1>a. cache[k] \in Entries /\ cache \in [Accounts -> Entries \cup {None}]
  BY DEF TypeOK, ReadingAges, CooldownEnds, EntryIdles
<1> DEFINE entry == cache'[k]
<1>b. /\ entry \in Entries
      /\ entry.verdictOf = cache[k].verdictOf
      /\ entry.readingOf = cache[k].readingOf
  <2>1. CASE ReadingAges(k)
    BY <1>a, <2>1 DEF ReadingAges, Entries
  <2>2. CASE CooldownEnds(k)
    BY <1>a, <2>2 DEF CooldownEnds, Entries
  <2>3. CASE EntryIdles(k)
    BY <1>a, <2>3 DEF EntryIdles, Entries
  <2>4. QED
    BY <2>1, <2>2, <2>3
<1>c. \A j \in Accounts \ {k} : cache'[j] = cache[j]
  BY <1>a DEF ReadingAges, CooldownEnds, EntryIdles
<1>1. \A j \in Accounts :
         /\ cache'[j] # None <=> cache[j] # None
         /\ cache'[j] # None => /\ cache'[j] \in Entries
                                /\ cache'[j].verdictOf = cache[j].verdictOf
                                /\ cache'[j].readingOf = cache[j].readingOf
  BY <1>a, <1>b, <1>c, NoneApart
<1>2. UNCHANGED <<older, inflight, clearedInflight, caller, epoch, unclear>>
  BY DEF ReadingAges, CooldownEnds, EntryIdles
<1>3. Cached' = Cached /\ Flying' = Flying
  BY <1>1, <1>2 DEF Cached, Flying
<1>4. TypeOK'
  <2>1. cache' \in [Accounts -> Entries \cup {None}]
    BY <1>1 DEF TypeOK, ReadingAges, CooldownEnds, EntryIdles
  <2>2. idle' \in SUBSET Cached'
    BY <1>3 DEF TypeOK, ReadingAges, CooldownEnds, EntryIdles, Cached
  <2>3. QED
    BY <1>2, <1>3, <2>1, <2>2 DEF TypeOK
<1>5. EntryInv'
  BY <1>1, <1>2 DEF EntryInv, Current
<1>6. FlightInv'
  BY <1>2, <1>3 DEF FlightInv, Current
<1>7. WaitInv' /\ OldVerdictOnlyJoined'
  BY <1>2, <1>3 DEF WaitInv, OldVerdictOnlyJoined
<1>8. LastGoodSurvives'
  BY <1>1, <1>2, <1>3 DEF LastGoodSurvives, Flying
<1>9. QED
  BY <1>4, <1>5, <1>6, <1>7, <1>8

(* A refresh reads the vault. *)
LEMMA ReadVaultStep ==
    ASSUME LocalAssumption, IInv, NEW k \in Accounts, ReadVault(k)
    PROVE  IInv'
<1> USE DEF IInv
<1>1. /\ inflight[k] \in Flights
      /\ inflight[k].step = "queued"
      /\ epoch[k] \in Epochs
      /\ inflight \in [Accounts -> Flights \cup {None}]
  BY DEF ReadVault, TypeOK
<1>2. /\ inflight'[k] \in Flights
      /\ inflight'[k].step = "read"
      /\ inflight'[k].epoch = epoch[k]
      /\ inflight'[k].prior = inflight[k].prior
      /\ inflight'[k].starter = inflight[k].starter
  <2>1. inflight'[k] = [inflight[k] EXCEPT !.step = "read", !.epoch = epoch[k]]
    BY <1>1 DEF ReadVault
  <2>2. QED
    BY <1>1, <2>1, Bounds DEF Flights
<1>3. \A j \in Accounts \ {k} : inflight'[j] = inflight[j]
  BY <1>1 DEF ReadVault
<1>4. UNCHANGED <<cache, older, idle, clearedInflight, caller, epoch, unclear>>
  BY DEF ReadVault
<1>5. Flying' = Flying /\ Cached' = Cached
  BY <1>1, <1>2, <1>3, <1>4, NoneApart DEF Flying, Cached
<1>6. TypeOK'
  <2>1. inflight' \in [Accounts -> Flights \cup {None}]
    BY <1>1, <1>2, <1>3 DEF ReadVault
  <2>2. QED
    BY <1>4, <1>5, <2>1 DEF TypeOK
<1>7. EntryInv'
  BY <1>4 DEF EntryInv, Current
<1>8. FlightInv'
  <2> SUFFICES ASSUME NEW j \in Flying'
               PROVE  FlightInv!(j)'
    BY DEF FlightInv
  <2>1. j \in Flying /\ j \in Accounts
    BY <1>5 DEF Flying
  <2>2. inflight[j].starter \in Callers
    BY <1>1, <2>1, NoneApart DEF Flying, Flights
  <2>3. CASE j = k
    BY <1>1, <1>2, <1>4, <2>1, <2>2, <2>3, Bounds DEF FlightInv, Current
  <2>4. CASE j # k
    BY <1>3, <1>4, <2>1, <2>2, <2>4 DEF FlightInv, Current
  <2>5. QED
    BY <2>3, <2>4
<1>9. WaitInv' /\ OldVerdictOnlyJoined'
  BY <1>1, <1>2, <1>3, <1>4, <1>5 DEF WaitInv, OldVerdictOnlyJoined
<1>10. LastGoodSurvives'
  BY <1>2, <1>3, <1>4, <1>5 DEF LastGoodSurvives, Flying
<1>11. QED
  BY <1>6, <1>7, <1>8, <1>9, <1>10

(* What the end of a refresh does to the refreshes and those who wait. *)
LEMMA SettleFacts ==
    ASSUME LocalAssumption, IInv, NEW k \in Accounts,
           inflight[k] # None, inflight[k].step \in {"queued", "read"},
           NEW about \in {0, inflight[k].epoch},
           Settle(k, about)
    PROVE  /\ inflight' \in [Accounts -> Flights \cup {None}]
           /\ caller' \in [Callers -> Requests]
           /\ UNCHANGED <<clearedInflight, epoch, unclear>>
           /\ Flying' = Flying
           /\ \A j \in Flying : inflight'[j].prior = inflight[j].prior
           /\ FlightInv' /\ WaitInv' /\ OldVerdictOnlyJoined'
<1> USE DEF IInv
<1>1. /\ inflight[k] \in Flights
      /\ inflight \in [Accounts -> Flights \cup {None}]
      /\ caller \in [Callers -> Requests]
      /\ epoch \in [Accounts -> Epochs]
  BY DEF TypeOK
<1>2. /\ inflight'[k] \in Flights
      /\ inflight'[k].step = "settled"
      /\ inflight'[k].epoch = about
      /\ inflight'[k].prior = inflight[k].prior
      /\ inflight'[k].starter = inflight[k].starter
  <2>1. inflight'[k] = [inflight[k] EXCEPT !.step = "settled", !.epoch = about]
    BY <1>1 DEF Settle
  <2>2. about \in 0..MaxEpoch
    BY <1>1, Bounds DEF Flights
  <2>3. QED
    BY <1>1, <2>1, <2>2 DEF Flights
<1>3. \A j \in Accounts \ {k} : inflight'[j] = inflight[j]
  BY <1>1 DEF Settle
<1>4. inflight' \in [Accounts -> Flights \cup {None}]
  BY <1>1, <1>2, <1>3 DEF Settle
<1>5. UNCHANGED <<clearedInflight, epoch, unclear>>
  BY DEF Settle
<1>6. Flying' = Flying
  BY <1>1, <1>2, <1>3, NoneApart DEF Flying
<1>7. ASSUME NEW c \in Callers
      PROVE  /\ caller'[c] \in Requests
             /\ caller'[c].key = caller[c].key
             /\ caller'[c].asked = caller[c].asked
             /\ caller'[c].late = caller[c].late
             /\ caller[c].at = "waiting" /\ caller[c].key = k =>
                  caller'[c].at = "answered" /\ caller'[c].got = about
             /\ ~(caller[c].at = "waiting" /\ caller[c].key = k) =>
                  caller'[c].at = caller[c].at /\ caller'[c].got = caller[c].got
  <2>1. caller[c] \in Requests
    BY <1>1
  <2>2. about \in 0..MaxEpoch
    BY <1>1, Bounds DEF Flights
  <2>3. CASE caller[c].at = "waiting" /\ caller[c].key = k
    <3>1. caller'[c] = [caller[c] EXCEPT !.at = "answered", !.got = about]
      BY <2>3 DEF Settle
    <3>2. QED
      BY <2>1, <2>2, <2>3, <3>1 DEF Requests
  <2>4. CASE ~(caller[c].at = "waiting" /\ caller[c].key = k)
    <3>1. caller'[c] = caller[c]
      BY <2>4 DEF Settle
    <3>2. QED
      BY <2>1, <2>4, <3>1
  <2>5. QED
    BY <2>3, <2>4
<1>8. caller' \in [Callers -> Requests]
  BY <1>7 DEF Settle
<1>9. FlightInv'
  <2> SUFFICES ASSUME NEW j \in Flying'
               PROVE  FlightInv!(j)'
    BY DEF FlightInv
  <2>1. j \in Flying /\ j \in Accounts
    BY <1>6 DEF Flying
  <2>2. inflight[j].starter \in Callers
    BY <1>1, <2>1, NoneApart DEF Flying, Flights
  <2>3. CASE j = k
    BY <1>1, <1>2, <1>5, <1>7, <2>1, <2>2, <2>3, Bounds DEF FlightInv, Current, Flights
  <2>4. CASE j # k
    BY <1>3, <1>5, <1>7, <2>1, <2>2, <2>4 DEF FlightInv, Current
  <2>5. QED
    BY <2>3, <2>4
<1>10. WaitInv'
  BY <1>3, <1>5, <1>6, <1>7 DEF WaitInv
<1>11. OldVerdictOnlyJoined'
  <2> SUFFICES ASSUME NEW c \in Callers, caller'[c].at = "answered",
                      caller'[c].got # 0, ~caller'[c].late
               PROVE  caller'[c].got >= caller'[c].asked
    BY DEF OldVerdictOnlyJoined
  <2>1. CASE caller[c].at = "waiting" /\ caller[c].key = k
    BY <1>7, <2>1 DEF WaitInv
  <2>2. CASE ~(caller[c].at = "waiting" /\ caller[c].key = k)
    BY <1>7, <2>2 DEF OldVerdictOnlyJoined
  <2>3. QED
    BY <2>1, <2>2
<1>12. QED
  BY <1>2, <1>3, <1>4, <1>5, <1>6, <1>8, <1>9, <1>10, <1>11 DEF Flying

(* A refresh publishes what it found, unless it was cleared. *)
LEMMA CommitStep ==
    ASSUME LocalAssumption, IInv, NEW k \in Accounts,
           NEW outcome \in {"ready", "reauth", "stale"}, Commit(k, outcome)
    PROVE  IInv'
<1> USE DEF IInv
<1>1. /\ inflight[k] # None
      /\ inflight[k].step = "read"
      /\ inflight[k] \in Flights
      /\ Settle(k, inflight[k].epoch)
      /\ k \in Flying
  BY DEF Commit, TypeOK, Flying
<1>2. /\ inflight' \in [Accounts -> Flights \cup {None}]
      /\ caller' \in [Callers -> Requests]
      /\ UNCHANGED <<clearedInflight, epoch, unclear>>
      /\ Flying' = Flying
      /\ \A j \in Flying : inflight'[j].prior = inflight[j].prior
      /\ FlightInv' /\ WaitInv' /\ OldVerdictOnlyJoined'
  BY <1>1, SettleFacts
<1>3. CASE ~Publishes(k)
  <2>1. UNCHANGED <<cache, older, idle>>
    BY <1>3 DEF Commit
  <2>2. TypeOK' /\ EntryInv' /\ LastGoodSurvives'
    BY <1>2, <2>1 DEF TypeOK, EntryInv, Current, LastGoodSurvives, Cached
  <2>3. QED
    BY <1>2, <2>2
<1>4. CASE Publishes(k)
  <2> DEFINE from == IF outcome = "ready" THEN inflight[k].epoch
                     ELSE IF cache[k] # None THEN cache[k].readingOf ELSE 0
             entry == [readingOf |-> from, fresh |-> outcome = "ready",
                       reauth |-> outcome = "reauth", cooling |-> outcome # "ready",
                       verdictOf |-> inflight[k].epoch]
             entries == [cache EXCEPT ![k] = entry]
  <2>1. Prune(entries, Touched(older, Cached, k), idle \ {k}, Flying)
    BY <1>4 DEF Commit
  <2>2. /\ inflight[k].epoch \in Current(k)..epoch[k]
        /\ inflight[k].epoch \in Epochs
        /\ Current(k) \in Epochs
    BY <1>1, <1>4, Bounds DEF Publishes, FlightInv, EntryInv, TypeOK, Flights, Epochs
  <2>3. cache[k] # None => cache[k] \in Entries
    BY DEF TypeOK
  <2>4. from \in 0..MaxEpoch
    BY <2>2, <2>3, Bounds DEF Entries
  <2>5. entry \in Entries
    BY <2>2, <2>4 DEF Entries
  <2>6. from # 0 => from \in Current(k)..epoch[k]
    BY <2>2 DEF EntryInv
  <2>7. outcome = "ready" => from # 0
    BY <2>2, Bounds
  <2>a. entry.verdictOf = inflight[k].epoch /\ entry.readingOf = from
    OBVIOUS
  <2> HIDE DEF entry, from
  <2>8. entries \in [Accounts -> Entries \cup {None}]
    BY <2>5 DEF TypeOK
  <2>9. Touched(older, Cached, k) \in SUBSET (Accounts \X Accounts) /\ idle \ {k} \in SUBSET Accounts
    BY TouchedType DEF TypeOK, Cached
  <2> HIDE DEF entries
  <2>10. /\ cache' \in [Accounts -> Entries \cup {None}]
         /\ older' \in SUBSET (Cached' \X Cached')
         /\ idle' \in SUBSET Cached'
         /\ \A j \in Accounts : cache'[j] # None => cache'[j] = entries[j]
         /\ \A j \in Accounts : j \in Flying => cache'[j] = entries[j]
    BY <2>1, <2>8, <2>9, PruneFacts
  <2>11. entries[k] = entry /\ \A j \in Accounts \ {k} : entries[j] = cache[j]
    BY DEF entries, TypeOK
  <2>12. TypeOK'
    BY <1>2, <2>10 DEF TypeOK
  <2>13. EntryInv'
    <3> SUFFICES ASSUME NEW j \in Accounts
                 PROVE  EntryInv!(j)'
      BY DEF EntryInv
    <3>1. Current(j)' = Current(j) /\ epoch' = epoch
      BY <1>2 DEF Current
    <3>2. CASE j = k
      BY <2>2, <2>6, <2>a, <2>10, <2>11, <3>1, <3>2 DEF EntryInv
    <3>3. CASE j # k
      BY <2>10, <2>11, <3>1, <3>3 DEF EntryInv
    <3>4. QED
      BY <3>2, <3>3
  <2>14. LastGoodSurvives'
    <3> SUFFICES ASSUME NEW j \in Flying \ clearedInflight, inflight[j].prior
                 PROVE  cache'[j] # None /\ cache'[j].readingOf # 0
      BY <1>2 DEF LastGoodSurvives
    <3>1. cache[j] # None /\ cache[j].readingOf # 0 /\ j \in Accounts
      BY DEF LastGoodSurvives, Flying
    <3>2. CASE j = k
      <4>1. from # 0
        BY <2>2, <3>1, <3>2, Bounds DEF from
      <4>2. QED
        BY <2>5, <2>a, <2>10, <2>11, <3>1, <3>2, <4>1, NoneApart
    <3>3. CASE j # k
      BY <2>10, <2>11, <3>1, <3>3
    <3>4. QED
      BY <3>2, <3>3
  <2>15. QED
    BY <1>2, <2>12, <2>13, <2>14
<1>5. QED
  BY <1>3, <1>4

LEMMA FailStep ==
    ASSUME LocalAssumption, IInv, NEW k \in Accounts, Fail(k)
    PROVE  IInv'
<1> USE DEF IInv
<1>1. /\ inflight[k] # None
      /\ inflight[k].step \in {"queued", "read"}
      /\ Settle(k, 0)
      /\ UNCHANGED <<cache, older, idle>>
  BY DEF Fail
<1>2. /\ inflight' \in [Accounts -> Flights \cup {None}]
      /\ caller' \in [Callers -> Requests]
      /\ UNCHANGED <<clearedInflight, epoch, unclear>>
      /\ Flying' = Flying
      /\ \A j \in Flying : inflight'[j].prior = inflight[j].prior
      /\ FlightInv' /\ WaitInv' /\ OldVerdictOnlyJoined'
  BY <1>1, SettleFacts
<1>3. TypeOK' /\ EntryInv' /\ LastGoodSurvives'
  BY <1>1, <1>2 DEF TypeOK, EntryInv, Current, LastGoodSurvives, Cached
<1>4. QED
  BY <1>2, <1>3

(* A reconnect writes the vault. *)
LEMMA ReconnectStep ==
    ASSUME LocalAssumption, IInv, NEW k \in Accounts, Reconnect(k)
    PROVE  IInv'
<1> USE DEF IInv
<1>1. /\ k \notin unclear
      /\ epoch[k] < MaxEpoch
      /\ epoch \in [Accounts -> Epochs]
      /\ epoch' = [epoch EXCEPT ![k] = @ + 1]
      /\ unclear' = unclear \cup {k}
      /\ UNCHANGED <<cache, older, idle, inflight, clearedInflight, caller>>
  BY DEF Reconnect, TypeOK
<1>2. epoch[k] + 1 \in Epochs
  BY <1>1, Bounds DEF Epochs
<1>3. \A j \in Accounts : Current(j)' = Current(j) /\ epoch'[j] \in Epochs /\ epoch[j] <= epoch'[j]
  BY <1>1, <1>2, Bounds DEF Current, Epochs
<1>4. \A j \in Accounts : epoch[j] \in Nat /\ epoch'[j] \in Nat /\ Current(j) \in Nat
  BY <1>1, <1>3, Bounds DEF EntryInv
<1>5. TypeOK'
  BY <1>1, <1>2 DEF TypeOK, Cached, Flying
<1>6. EntryInv'
  <2> SUFFICES ASSUME NEW j \in Accounts
               PROVE  EntryInv!(j)'
    BY DEF EntryInv
  <2>1. cache'[j] = cache[j] /\ (cache[j] # None => cache[j] \in Entries)
    BY <1>1 DEF TypeOK
  <2>2. cache[j] # None => cache[j].verdictOf \in Nat /\ cache[j].readingOf \in Nat
    BY <2>1, Bounds DEF Entries
  <2>3. QED
    BY <1>3, <1>4, <2>1, <2>2 DEF EntryInv
<1>7. FlightInv'
  <2> SUFFICES ASSUME NEW j \in Flying
               PROVE  FlightInv!(j)'
    BY <1>1 DEF FlightInv, Flying
  <2>1. j \in Accounts /\ inflight[j] \in Flights
    BY DEF Flying, TypeOK
  <2>2. inflight[j].epoch \in Nat
    BY <2>1, Bounds DEF Flights
  <2>3. QED
    BY <1>1, <1>3, <1>4, <2>1, <2>2 DEF FlightInv
<1>8. WaitInv'
  <2>1. \A c \in Callers : caller[c].asked \in Nat
    BY Bounds DEF TypeOK, Requests
  <2>2. QED
    BY <1>1, <1>3, <1>4, <2>1 DEF WaitInv, Flying
<1>9. OldVerdictOnlyJoined' /\ LastGoodSurvives'
  BY <1>1 DEF OldVerdictOnlyJoined, LastGoodSurvives, Flying
<1>10. QED
  BY <1>5, <1>6, <1>7, <1>8, <1>9

(* The clear that follows it. *)
LEMMA ClearStep ==
    ASSUME LocalAssumption, IInv, NEW k \in Accounts, Clear(k)
    PROVE  IInv'
<1> USE DEF IInv
<1>1. /\ k \in unclear
      /\ unclear' = unclear \ {k}
      /\ cache' = [cache EXCEPT ![k] = None]
      /\ older' = Among(older, Cached \ {k})
      /\ idle' = idle \ {k}
      /\ clearedInflight' = IF inflight[k] # None THEN clearedInflight \cup {k}
                            ELSE clearedInflight
      /\ UNCHANGED <<inflight, caller, epoch>>
  BY DEF Clear, Forgotten, Marked
<1>2. cache'[k] = None /\ \A j \in Accounts \ {k} : cache'[j] = cache[j]
  BY <1>1 DEF TypeOK
<1>3. Cached' = Cached \ {k} /\ Flying' = Flying
  BY <1>1, <1>2 DEF Cached, Flying
<1>4. TypeOK'
  <2>1. cache' \in [Accounts -> Entries \cup {None}]
    BY <1>1 DEF TypeOK
  <2>2. clearedInflight' \in SUBSET Flying'
    BY <1>1, <1>3 DEF TypeOK, Flying
  <2>3. older' \in SUBSET (Cached' \X Cached') /\ idle' \in SUBSET Cached'
    BY <1>1, <1>3 DEF TypeOK, Among
  <2>4. QED
    BY <1>1, <2>1, <2>2, <2>3 DEF TypeOK
<1>5. EntryInv'
  <2>1. epoch[k] \in Epochs
    BY DEF TypeOK
  <2>2. QED
    BY <1>1, <1>2, <2>1 DEF EntryInv, Current
<1>6. FlightInv'
  <2> SUFFICES ASSUME NEW j \in Flying
               PROVE  FlightInv!(j)'
    BY <1>3 DEF FlightInv
  <2>1. CASE j = k
    BY <1>1, <2>1 DEF FlightInv, Flying
  <2>2. CASE j # k
    BY <1>1, <2>2 DEF FlightInv, Current
  <2>3. QED
    BY <2>1, <2>2
<1>7. WaitInv' /\ OldVerdictOnlyJoined'
  BY <1>1, <1>3 DEF WaitInv, OldVerdictOnlyJoined
<1>8. LastGoodSurvives'
  BY <1>1, <1>2, <1>3 DEF LastGoodSurvives, Flying
<1>9. QED
  BY <1>4, <1>5, <1>6, <1>7, <1>8

(* A request returns; the one that started a refresh takes it out of flight. *)
LEMMA ReturnStep ==
    ASSUME LocalAssumption, IInv, NEW c \in Callers, Return(c)
    PROVE  IInv'
<1> USE DEF IInv
<1> DEFINE k == caller[c].key
<1>1. /\ caller[c].at = "answered"
      /\ caller' = [caller EXCEPT ![c] = Resting]
      /\ UNCHANGED <<epoch, unclear>>
      /\ k \in Accounts
      /\ caller \in [Callers -> Requests]
  BY DEF Return, WaitInv, TypeOK
<1>2. Resting \in Requests
  BY Bounds DEF Resting, Requests
<1>3. caller' \in [Callers -> Requests] /\ caller'[c].at = "idle"
  BY <1>1, <1>2 DEF Resting
<1>4. \A d \in Callers \ {c} : caller'[d] = caller[d]
  BY <1>1
<1>5. OldVerdictOnlyJoined'
  BY <1>3, <1>4 DEF OldVerdictOnlyJoined
<1>6. CASE inflight[k] # None /\ inflight[k].starter = c
  <2>1. /\ inflight' = [inflight EXCEPT ![k] = None]
        /\ clearedInflight' = clearedInflight \ {k}
        /\ Prune(cache, older, idle, Flying \ {k})
    BY <1>6 DEF Return, Unmarked, Landed
  <2>2. inflight'[k] = None /\ \A j \in Accounts \ {k} : inflight'[j] = inflight[j]
    BY <1>1, <2>1 DEF TypeOK
  <2>3. Flying' = Flying \ {k}
    BY <1>1, <2>2 DEF Flying
  <2>4. inflight[k].step = "settled" /\ k \in Flying
    BY <1>1, <1>6 DEF FlightInv, Flying
  <2>5. /\ cache \in [Accounts -> Entries \cup {None}]
        /\ older \in SUBSET (Accounts \X Accounts) /\ idle \in SUBSET Accounts
    BY DEF TypeOK, Cached
  <2>6. /\ cache' \in [Accounts -> Entries \cup {None}]
        /\ older' \in SUBSET (Cached' \X Cached')
        /\ idle' \in SUBSET Cached'
        /\ \A j \in Accounts : cache'[j] # None => cache'[j] = cache[j]
        /\ \A j \in Accounts : j \in Flying \ {k} => cache'[j] = cache[j]
    <3> DEFINE busy == Flying \ {k}
    <3>1. Prune(cache, older, idle, busy)
      BY <2>1
    <3> HIDE DEF busy
    <3>2. /\ cache' \in [Accounts -> Entries \cup {None}]
          /\ older' \in SUBSET (Cached' \X Cached')
          /\ idle' \in SUBSET Cached'
          /\ \A j \in Accounts : cache'[j] # None => cache'[j] = cache[j]
          /\ \A j \in Accounts : j \in busy => cache'[j] = cache[j]
      BY <2>5, <3>1, PruneFacts
    <3>3. QED
      BY <3>2 DEF busy
  <2>7. TypeOK'
    <3>1. inflight' \in [Accounts -> Flights \cup {None}]
      BY <2>1 DEF TypeOK
    <3>2. clearedInflight' \in SUBSET Flying'
      BY <2>1, <2>3 DEF TypeOK
    <3>3. QED
      BY <1>1, <1>3, <2>6, <3>1, <3>2 DEF TypeOK
  <2>8. EntryInv'
    BY <1>1, <2>6 DEF EntryInv, Current
  <2>9. FlightInv'
    <3> SUFFICES ASSUME NEW j \in Flying \ {k}
                 PROVE  FlightInv!(j)'
      BY <2>3 DEF FlightInv
    <3>1. j \in Accounts /\ inflight'[j] = inflight[j]
      BY <2>2 DEF Flying
    <3>2. inflight[j].starter \in Callers /\ inflight[j].starter # c
      BY <3>1, NoneApart DEF FlightInv, Flying, TypeOK, Flights
    <3>3. QED
      BY <1>1, <1>4, <2>1, <3>1, <3>2 DEF FlightInv, Current
  <2>10. WaitInv'
    <3> SUFFICES ASSUME NEW d \in Callers \ {c}
                 PROVE  WaitInv!(d)'
      BY <1>3 DEF WaitInv
    <3>1. caller[d].at = "waiting" => caller[d].key # k
      BY <2>4 DEF WaitInv
    <3>2. QED
      BY <1>1, <1>4, <2>2, <2>3, <3>1 DEF WaitInv
  <2>11. LastGoodSurvives'
    BY <2>1, <2>2, <2>3, <2>6 DEF LastGoodSurvives, Flying
  <2>12. QED
    BY <1>5, <2>7, <2>8, <2>9, <2>10, <2>11
<1>7. CASE ~(inflight[k] # None /\ inflight[k].starter = c)
  <2>1. UNCHANGED <<inflight, clearedInflight, cache, older, idle>>
    BY <1>7 DEF Return
  <2>2. TypeOK' /\ EntryInv' /\ LastGoodSurvives'
    BY <1>1, <1>3, <2>1 DEF TypeOK, EntryInv, Current, LastGoodSurvives, Cached, Flying
  <2>3. FlightInv'
    <3> SUFFICES ASSUME NEW j \in Flying
                 PROVE  FlightInv!(j)'
      BY <2>1 DEF FlightInv, Flying
    <3>1. j \in Accounts /\ inflight[j] # None
      BY DEF Flying
    <3>2. inflight[j].starter \in Callers /\ inflight[j].starter # c
      BY <1>7, <3>1, NoneApart DEF FlightInv, Flying, TypeOK, Flights
    <3>3. QED
      BY <1>1, <1>4, <2>1, <3>1, <3>2 DEF FlightInv, Current
  <2>4. WaitInv'
    BY <1>1, <1>3, <1>4, <2>1 DEF WaitInv, Flying
  <2>5. QED
    BY <1>5, <2>2, <2>3, <2>4
<1>8. QED
  BY <1>6, <1>7

(* A request is served from the cache, joins a refresh or starts one. *)
LEMMA AskStep ==
    ASSUME LocalAssumption, IInv, NEW c \in Callers, NEW k \in Accounts, Ask(c, k)
    PROVE  IInv'
<1> USE DEF IInv
<1> DEFINE kept == Kept(Cached, older, idle, Flying)
           entry == IF k \in kept THEN cache[k] ELSE None
           order == IF k \in kept THEN Touched(older, kept, k) ELSE older
           settled == inflight[k].step = "settled"
           joined == Asked(k, IF settled THEN "answered" ELSE "waiting",
                              IF settled THEN inflight[k].epoch ELSE 0, k \in clearedInflight)
           request == Asked(k, "waiting", 0, FALSE)
<1>1. kept \in SUBSET Cached /\ Cached \cap Flying \subseteq kept
  BY KeptFacts
<1>2. Keep(kept, cache, order, idle \ {k})
  BY DEF Ask
<1>3. order \in SUBSET (Accounts \X Accounts) /\ idle \ {k} \in SUBSET Accounts
  BY <1>1, TouchedType DEF TypeOK, Cached
<1>a. entry # None => entry = cache[k]
  OBVIOUS
<1>b. /\ caller[c].at = "idle"
      /\ UNCHANGED <<clearedInflight, epoch, unclear>>
  BY DEF Ask
<1>c. entry # None /\ Served(entry)
        => /\ caller' = [caller EXCEPT ![c] = Asked(k, "answered", entry.verdictOf, FALSE)]
           /\ inflight' = inflight
  BY DEF Ask
<1>d. ~(entry # None /\ Served(entry)) /\ inflight[k] # None
        => /\ caller' = [caller EXCEPT ![c] = joined]
           /\ inflight' = inflight
  BY DEF Ask
<1>e. ~(entry # None /\ Served(entry)) /\ inflight[k] = None
        => /\ caller' = [caller EXCEPT ![c] = request]
           /\ inflight' = [inflight EXCEPT ![k] =
                 [step |-> "queued", epoch |-> 0, starter |-> c,
                  prior |-> entry # None /\ entry.readingOf # 0]]
  BY DEF Ask
<1> HIDE DEF kept, order
<1>4. /\ cache' \in [Accounts -> Entries \cup {None}]
      /\ older' \in SUBSET (Cached' \X Cached')
      /\ idle' \in SUBSET Cached'
      /\ \A j \in Accounts : cache'[j] # None => cache'[j] = cache[j]
      /\ \A j \in kept : cache'[j] = cache[j]
  BY <1>1, <1>2, <1>3, KeepFacts DEF TypeOK, Cached
<1>5. EntryInv'
  BY <1>4, <1>b DEF EntryInv, Current
<1>6. \A j \in Flying \ clearedInflight : inflight[j].prior => cache'[j] # None /\ cache'[j].readingOf # 0
  <2> SUFFICES ASSUME NEW j \in Flying \ clearedInflight, inflight[j].prior
               PROVE  cache'[j] # None /\ cache'[j].readingOf # 0
    OBVIOUS
  <2>1. j \in Cached /\ cache[j].readingOf # 0
    BY DEF LastGoodSurvives, Flying, Cached
  <2>2. QED
    BY <1>1, <1>4, <2>1 DEF Cached
<1>7. Current(k) \in Epochs /\ epoch[k] \in Epochs /\ Current(k) <= epoch[k] /\ Current(k) \in 0..MaxEpoch
  BY Bounds DEF EntryInv, TypeOK, Current, Epochs
<1>8. caller \in [Callers -> Requests] /\ \A j \in Accounts : inflight[j] # None => inflight[j] \in Flights
  BY DEF TypeOK
<1>9. \A j \in Flying : inflight[j].starter \in Callers \ {c}
  BY <1>8, <1>b DEF FlightInv, Flying, Flights
<1>10. ASSUME inflight' = inflight,
              NEW r \in Requests, caller' = [caller EXCEPT ![c] = r],
              r.key = k,
              r.at = "waiting" => /\ k \in Flying
                                  /\ inflight[k].step # "settled"
                                  /\ r.asked <= epoch[k]
                                  /\ ~r.late /\ inflight[k].epoch # 0 =>
                                       inflight[k].epoch >= r.asked,
              r.at = "answered" /\ r.got # 0 /\ ~r.late => r.got >= r.asked
       PROVE  IInv'
  <2>1. caller'[c] = r /\ \A d \in Callers \ {c} : caller'[d] = caller[d]
    BY <1>8, <1>10
  <2>2. TypeOK'
    BY <1>4, <1>8, <1>10, <1>b DEF TypeOK, Flying
  <2>3. FlightInv'
    BY <1>9, <1>10, <1>b, <2>1 DEF FlightInv, Flying, Current
  <2>4. WaitInv'
    BY <1>10, <1>b, <2>1 DEF WaitInv, Flying
  <2>5. OldVerdictOnlyJoined'
    BY <1>10, <2>1 DEF OldVerdictOnlyJoined
  <2>6. LastGoodSurvives'
    BY <1>6, <1>10, <1>b DEF LastGoodSurvives, Flying
  <2>7. QED
    BY <1>5, <2>2, <2>3, <2>4, <2>5, <2>6
<1>11. CASE entry # None /\ Served(entry)
  <2> DEFINE r == Asked(k, "answered", entry.verdictOf, FALSE)
  <2>1. /\ cache[k] \in Entries /\ entry = cache[k]
        /\ cache[k].verdictOf \in Current(k)..epoch[k]
        /\ cache[k].verdictOf \in 0..MaxEpoch
    BY <1>11, <1>a, Bounds DEF EntryInv, TypeOK, Entries
  <2>2. r \in Requests /\ r.key = k /\ r.at = "answered" /\ r.got = cache[k].verdictOf /\ r.asked = Current(k)
    BY <1>7, <2>1 DEF Requests, Asked
  <2> HIDE DEF r
  <2>3. caller' = [caller EXCEPT ![c] = r] /\ inflight' = inflight
    BY <1>11, <1>c DEF r
  <2>4. r.got >= r.asked
    BY <1>7, <2>1, <2>2
  <2>5. QED
    BY <1>10, <2>2, <2>3, <2>4
<1>12. CASE ~(entry # None /\ Served(entry)) /\ inflight[k] # None
  <2> DEFINE r == joined
  <2>1. inflight[k] \in Flights /\ k \in Flying /\ inflight[k].epoch \in 0..MaxEpoch
    BY <1>8, <1>12 DEF Flying, Flights
  <2>2. /\ r \in Requests /\ r.key = k /\ r.asked = Current(k)
        /\ r.late = (k \in clearedInflight)
        /\ r.at = IF inflight[k].step = "settled" THEN "answered" ELSE "waiting"
        /\ r.got = IF inflight[k].step = "settled" THEN inflight[k].epoch ELSE 0
    <3> DEFINE late == k \in clearedInflight
               at == IF inflight[k].step = "settled" THEN "answered" ELSE "waiting"
               got == IF inflight[k].step = "settled" THEN inflight[k].epoch ELSE 0
    <3>1. r = [at |-> at, key |-> k, got |-> got, asked |-> Current(k), late |-> late]
      BY DEF Asked
    <3>2. late \in BOOLEAN /\ at \in {"waiting", "answered"} /\ got \in 0..MaxEpoch
      BY <2>1, Bounds
    <3> HIDE DEF late, at, got
    <3>3. r \in Requests /\ r.key = k /\ r.asked = Current(k) /\ r.late = late /\ r.at = at /\ r.got = got
      BY <1>7, <3>1, <3>2 DEF Requests
    <3>4. QED
      BY <3>3 DEF late, at, got
  <2> HIDE DEF r
  <2>3. caller' = [caller EXCEPT ![c] = r] /\ inflight' = inflight
    BY <1>12, <1>d DEF r
  <2>4. ~r.late /\ inflight[k].epoch # 0 => inflight[k].epoch >= r.asked
    BY <2>1, <2>2 DEF FlightInv
  <2>5. QED
    BY <1>7, <1>10, <2>1, <2>2, <2>3, <2>4
<1>13. CASE ~(entry # None /\ Served(entry)) /\ inflight[k] = None
  <2> DEFINE flight == [step |-> "queued", epoch |-> 0, starter |-> c,
                        prior |-> entry # None /\ entry.readingOf # 0]
  <2>1. /\ request \in Requests /\ request.key = k /\ request.at = "waiting"
        /\ request.asked = Current(k)
    BY <1>7, Bounds DEF Requests, Asked
  <2>2. /\ flight \in Flights /\ flight.step = "queued" /\ flight.epoch = 0
        /\ flight.starter = c
        /\ flight.prior = (entry # None /\ entry.readingOf # 0)
    BY Bounds DEF Flights
  <2>3. caller' = [caller EXCEPT ![c] = request] /\ inflight' = [inflight EXCEPT ![k] = flight]
    BY <1>13, <1>e
  <2> HIDE DEF flight, request
  <2>4. /\ inflight'[k] = flight /\ \A j \in Accounts \ {k} : inflight'[j] = inflight[j]
        /\ caller'[c] = request /\ \A d \in Callers \ {c} : caller'[d] = caller[d]
    BY <1>8, <2>3 DEF TypeOK
  <2>5. Flying' = Flying \cup {k} /\ k \notin Flying
    BY <1>13, <2>2, <2>4, NoneApart DEF Flying
  <2>6. TypeOK'
    <3>1. inflight' \in [Accounts -> Flights \cup {None}] /\ caller' \in [Callers -> Requests]
      BY <2>1, <2>2, <2>3, <1>8 DEF TypeOK
    <3>2. QED
      BY <1>4, <1>b, <2>5, <3>1 DEF TypeOK
  <2>7. FlightInv'
    <3> SUFFICES ASSUME NEW j \in Flying \cup {k}
                 PROVE  FlightInv!(j)'
      BY <2>5 DEF FlightInv
    <3>1. CASE j = k
      BY <1>7, <1>b, <2>1, <2>2, <2>4, <3>1, Bounds DEF Current
    <3>2. CASE j # k
      BY <1>9, <1>b, <2>4, <3>2 DEF FlightInv, Flying, Current
    <3>3. QED
      BY <3>1, <3>2
  <2>8. WaitInv'
    <3> SUFFICES ASSUME NEW d \in Callers
                 PROVE  WaitInv!(d)'
      BY DEF WaitInv
    <3>1. CASE d = c
      BY <1>7, <1>b, <2>1, <2>2, <2>4, <2>5, <3>1
    <3>2. CASE d # c
      BY <1>b, <2>4, <2>5, <3>2 DEF WaitInv, Flying
    <3>3. QED
      BY <3>1, <3>2
  <2>9. OldVerdictOnlyJoined'
    BY <2>1, <2>4 DEF OldVerdictOnlyJoined
  <2>10. LastGoodSurvives'
    <3>1. flight.prior => k \in kept /\ cache[k] # None /\ cache[k].readingOf # 0
      BY <2>2
    <3>2. QED
      BY <1>4, <1>6, <1>b, <2>4, <2>5, <3>1 DEF LastGoodSurvives, Flying
  <2>11. QED
    BY <1>5, <2>6, <2>7, <2>8, <2>9, <2>10
<1>14. QED
  BY <1>11, <1>12, <1>13

-----------------------------------------------------------------------------
(* The invariant is inductive. *)
THEOREM Inductive == ASSUME LocalAssumption PROVE Spec => []IInv
<1>1. Init => IInv
  BY InitInv
<1>2. IInv /\ [Next]_vars => IInv'
  <2> SUFFICES ASSUME IInv, [Next]_vars
               PROVE  IInv'
    OBVIOUS
  <2>1. CASE Next
    BY <2>1, AskStep, ReturnStep, ReadVaultStep, CommitStep, FailStep,
       ReconnectStep, ClearStep, TimeStep DEF Next, Refresh
  <2>2. CASE UNCHANGED vars
    BY <2>2 DEF vars, IInv, TypeOK, EntryInv, FlightInv, WaitInv, OldVerdictOnlyJoined,
                LastGoodSurvives, Cached, Flying, Current
  <2>3. QED
    BY <2>1, <2>2
<1>3. QED
  BY <1>1, <1>2, PTL DEF Spec

(* All values keep their types. *)
THEOREM Typing == ASSUME LocalAssumption PROVE Spec => []TypeOK
<1>1. IInv => TypeOK
  BY DEF IInv
<1>2. QED
  BY <1>1, Inductive, PTL

(* Once a reconnect has cleared the account, the cache holds nothing of the
   old credential and no refresh puts it back. *)
THEOREM NoTraceAfterClear == ASSUME LocalAssumption PROVE Spec => []ClearLeavesNoTrace
<1>1. IInv => ClearLeavesNoTrace
  <2> SUFFICES ASSUME IInv, NEW k \in Accounts \ unclear, cache[k] # None
               PROVE  /\ cache[k].verdictOf = epoch[k]
                      /\ cache[k].readingOf \in {0, epoch[k]}
    BY DEF ClearLeavesNoTrace
  <2>1. Current(k) = epoch[k] /\ epoch[k] \in Nat
    BY Bounds DEF Current, IInv, TypeOK
  <2>2. QED
    BY <2>1 DEF IInv, EntryInv
<1>2. QED
  BY <1>1, Inductive, PTL

(* After the clear an old verdict reaches only those who join the overtaken
   refresh before it is out of flight. *)
THEOREM OldVerdicts == ASSUME LocalAssumption PROVE Spec => []OldVerdictOnlyJoined
<1>1. IInv => OldVerdictOnlyJoined
  BY DEF IInv
<1>2. QED
  BY <1>1, Inductive, PTL

(* The reading a refresh started over is still there when it fails. *)
THEOREM LastGood == ASSUME LocalAssumption PROVE Spec => []LastGoodSurvives
<1>1. IInv => LastGoodSurvives
  BY DEF IInv
<1>2. QED
  BY <1>1, Inductive, PTL

-----------------------------------------------------------------------------
(* The size of the cache. *)

(* Of finitely many sets of predecessors, one has no other strictly below it:
   the least recently used of the entries that prune may drop and keeps. *)
LEMMA OldestOf ==
    ASSUME NEW S, IsFiniteSet(S), NEW order, StrictOrder(order), NEW T \in SUBSET S, T # {}
    PROVE  \E k \in T : \A j \in T : <<j, k>> \notin order
<1> DEFINE below(k) == {j \in T : <<j, k>> \in order}
           Belows == {below(k) : k \in T}
<1>1. IsWellFoundedOn(StrictSubsetOrdering(S), FiniteSubsetsOf(S))
  BY FS_StrictSubsetOrderingWellFounded
<1>2. Belows \subseteq FiniteSubsetsOf(S) /\ Belows # {}
  <2>1. \A k \in T : below(k) \in SUBSET S
    OBVIOUS
  <2>2. \A k \in T : below(k) \in FiniteSubsetsOf(S)
    BY <2>1, FS_FiniteSubsetsOfFinite
  <2>3. QED
    BY <2>2
<1>3. PICK B \in Belows : \A C \in Belows : <<C, B>> \notin StrictSubsetOrdering(S)
  BY <1>1, <1>2, WFMin
<1>4. PICK k \in T : B = below(k)
  BY <1>3
<1>5. ASSUME NEW j \in T, <<j, k>> \in order PROVE FALSE
  <2>1. below(j) \subseteq below(k) /\ j \in below(k)
    BY <1>5 DEF StrictOrder
  <2>2. j \notin below(j)
    BY DEF StrictOrder
  <2>3. <<below(j), below(k)>> \in StrictSubsetOrdering(S)
    BY <2>1, <2>2 DEF StrictSubsetOrdering
  <2>4. QED
    BY <1>3, <1>4, <2>3
<1>6. QED
  BY <1>4, <1>5

(* Prune leaves MaxEntries, or only what it must not touch. *)
LEMMA KeptBounded ==
    ASSUME LocalAssumption, NEW cached, IsFiniteSet(cached), NEW order, StrictOrder(order),
           NEW old, NEW busy
    PROVE  \/ Kept(cached, order, old, busy) \subseteq busy
           \/ Cardinality(Kept(cached, order, old, busy)) <= MaxEntries
<1> DEFINE current == {k \in cached : k \in busy \/ k \notin old}
           before(k) == {j \in current \ busy : <<j, k>> \in order}
           kept == Kept(cached, order, old, busy)
           free == kept \ busy
<1>1. kept = {k \in current : \/ k \in busy
                              \/ Cardinality(current) - Cardinality(before(k)) <= MaxEntries}
  BY DEF Kept
<1>2. SUFFICES ASSUME free # {} PROVE Cardinality(kept) <= MaxEntries
  OBVIOUS
<1>3. kept \subseteq current /\ IsFiniteSet(current)
  BY <1>1, FS_Subset
<1> HIDE DEF kept, current
<1>4. PICK k \in free : \A j \in free : <<j, k>> \notin order
  BY <1>2, <1>3, OldestOf
<1>5. kept \subseteq current \ before(k)
  BY <1>3, <1>4
<1>6. k \in current /\ Cardinality(current) - Cardinality(before(k)) <= MaxEntries
  BY <1>1, <1>4
<1>7. current \cap before(k) = before(k) /\ before(k) \subseteq current
  OBVIOUS
<1>8. /\ IsFiniteSet(current \ before(k))
      /\ Cardinality(current \ before(k)) = Cardinality(current) - Cardinality(before(k))
  BY <1>3, <1>7, FS_Difference
<1>9. Cardinality(kept) <= Cardinality(current \ before(k))
  BY <1>5, <1>8, FS_Subset
<1>10. /\ Cardinality(kept) \in Nat /\ Cardinality(current \ before(k)) \in Nat
       /\ MaxEntries \in Nat
  BY <1>3, <1>5, <1>8, FS_Subset, FS_CardinalityType DEF LocalAssumption
<1>11. QED
  BY <1>6, <1>8, <1>9, <1>10

(* An entry that is used becomes the last of the order. *)
LEMMA TouchedStrict ==
    ASSUME NEW cached, NEW order \in SUBSET (cached \X cached), StrictOrder(order), NEW k
    PROVE  StrictOrder(Touched(order, cached, k))
BY DEF StrictOrder, Touched

LEMMA AmongStrict ==
    ASSUME NEW order, StrictOrder(order), NEW keys
    PROVE  StrictOrder(Among(order, keys))
BY DEF StrictOrder, Among

(* What Keep keeps is cached, in the order it was used. *)
LEMMA KeepBounds ==
    ASSUME LocalAssumption, NEW entries, IsFiniteSet(Accounts), NEW order, StrictOrder(order), NEW rank, StrictOrder(rank),
           NEW old, NEW busy, NEW kept,
           kept = Kept({k \in Accounts : entries[k] # None}, rank, old, busy),
           NEW young, Keep(kept, entries, order, young), busy \subseteq Flying'
    PROVE  BoundInv'
<1> DEFINE there == {k \in Accounts : entries[k] # None}
<1>1. IsFiniteSet(there) /\ kept \subseteq there
  BY FS_Subset, KeptFacts
<1>2. kept \subseteq busy \/ Cardinality(kept) <= MaxEntries
  BY <1>1, KeptBounded
<1>3. Cached' = kept
  <2>1. cache' = [k \in Accounts |-> IF k \in kept THEN entries[k] ELSE None]
    BY DEF Keep
  <2>2. QED
    BY <1>1, <2>1 DEF Cached
<1>4. StrictOrder(older)'
  <2>1. older' = Among(order, kept)
    BY DEF Keep
  <2>2. QED
    BY <2>1, AmongStrict
<1>5. QED
  BY <1>2, <1>3, <1>4 DEF BoundInv, CacheBounded

(* Every step keeps the bound. *)
LEMMA StepBound ==
    ASSUME LocalAssumption, IsFiniteSet(Accounts), TypeOK, BoundInv, [Next]_vars
    PROVE  BoundInv'
<1> USE DEF BoundInv
<1>1. cache \in [Accounts -> Entries \cup {None}] /\ older \in SUBSET (Cached \X Cached)
      /\ inflight \in [Accounts -> Flights \cup {None}] /\ Cached \subseteq Accounts
  BY DEF TypeOK, Cached
<1>2. ASSUME UNCHANGED older, Cached' \subseteq Cached, Cached \subseteq Cached',
             Flying \subseteq Flying'
      PROVE  BoundInv'
  <2>1. Cached' = Cached
    BY <1>2
  <2>2. QED
    BY <1>2, <2>1 DEF CacheBounded
<1>3. ASSUME NEW c \in Callers, NEW k \in Accounts, Ask(c, k) PROVE BoundInv'
  <2> DEFINE kept == Kept(Cached, older, idle, Flying)
             order == IF k \in kept THEN Touched(older, kept, k) ELSE older
  <2>1. Keep(kept, cache, order, idle \ {k})
    BY <1>3 DEF Ask
  <2>2. Flying \subseteq Flying'
    <3>1. \/ inflight' = inflight
          \/ inflight[k] = None /\ \E f : inflight' = [inflight EXCEPT ![k] = f]
      BY <1>3 DEF Ask
    <3>2. \A j \in Accounts : inflight[j] # None => inflight'[j] = inflight[j]
      BY <1>1, <3>1
    <3>3. QED
      BY <3>2 DEF Flying
  <2>3. StrictOrder(Among(order, kept))
    <3>1. Among(order, kept) \in {Among(Touched(Among(older, kept), kept, k), kept),
                                  Among(older, kept)}
      BY DEF Among, Touched
    <3>2. StrictOrder(Among(older, kept)) /\ Among(older, kept) \in SUBSET (kept \X kept)
      BY AmongStrict DEF Among
    <3>3. QED
      BY <3>1, <3>2, TouchedStrict, AmongStrict
  <2>4. Keep(kept, cache, Among(order, kept), idle \ {k})
    <3>1. Among(Among(order, kept), kept) = Among(order, kept)
      BY DEF Among
    <3>2. QED
      BY <2>1, <3>1 DEF Keep
  <2> HIDE DEF order
  <2>5. kept = Kept({j \in Accounts : cache[j] # None}, older, idle, Flying)
    BY DEF Cached
  <2> HIDE DEF kept
  <2>6. QED
    BY <1>1, <2>2, <2>3, <2>4, <2>5, KeepBounds
<1>4. ASSUME NEW k \in Accounts, NEW outcome, Commit(k, outcome) PROVE BoundInv'
  <2>1. Flying' = Flying
    <3>1. inflight' = [inflight EXCEPT ![k] = [inflight[k] EXCEPT !.step = "settled",
                                                                  !.epoch = inflight[k].epoch]]
          /\ inflight[k] # None
      BY <1>4 DEF Commit, Settle
    <3>2. [inflight[k] EXCEPT !.step = "settled", !.epoch = inflight[k].epoch] \in Flights
      BY <1>1, <3>1 DEF Flights
    <3>3. QED
      BY <1>1, <3>1, <3>2, NoneApart DEF Flying
  <2>2. CASE Publishes(k)
    <3> DEFINE entry == [readingOf |-> IF outcome = "ready" THEN inflight[k].epoch
                                       ELSE IF cache[k] # None THEN cache[k].readingOf ELSE 0,
                         fresh |-> outcome = "ready", reauth |-> outcome = "reauth",
                         cooling |-> outcome # "ready", verdictOf |-> inflight[k].epoch]
               entries == [cache EXCEPT ![k] = entry]
               order == Touched(older, Cached, k)
    <3>1. Keep(Kept({j \in Accounts : entries[j] # None}, order, idle \ {k}, Flying),
               entries, order, idle \ {k})
      BY <1>4, <2>2 DEF Commit, Prune
    <3>2. StrictOrder(order)
      BY <1>1, TouchedStrict
    <3> HIDE DEF order, entries
    <3>3. QED
      BY <2>1, <3>1, <3>2, KeepBounds
  <2>3. CASE ~Publishes(k)
    BY <1>2, <1>4, <2>1, <2>3 DEF Commit, Cached
  <2>4. QED
    BY <2>2, <2>3
<1>5. ASSUME NEW c \in Callers, Return(c) PROVE BoundInv'
  <2> DEFINE k == caller[c].key
             there == {j \in Accounts : cache[j] # None}
  <2>1. CASE inflight[k] # None /\ inflight[k].starter = c
    <3>1. Flying' = Flying \ {k}
      BY <1>1, <1>5, <2>1 DEF Return, Flying
    <3>2. Keep(Kept(there, older, idle, Flying \ {k}), cache, older, idle)
      BY <1>5, <2>1 DEF Return, Prune, Landed
    <3> HIDE DEF k
    <3>3. QED
      BY <3>1, <3>2, KeepBounds
  <2>2. CASE ~(inflight[k] # None /\ inflight[k].starter = c)
    BY <1>2, <1>5, <2>2 DEF Return, Cached, Flying
  <2>3. QED
    BY <2>1, <2>2
<1>6. ASSUME NEW k \in Accounts, Clear(k) PROVE BoundInv'
  <2>1. Cached' \subseteq Cached /\ older' = Among(older, Cached \ {k}) /\ Flying' = Flying
    BY <1>1, <1>6 DEF Clear, Forgotten, Cached, Flying
  <2>2. IsFiniteSet(Cached) /\ Cardinality(Cached') <= Cardinality(Cached)
    BY <1>1, <2>1, FS_Subset
  <2>3. /\ Cardinality(Cached') \in Nat /\ Cardinality(Cached) \in Nat
        /\ MaxEntries \in Nat
    BY <2>1, <2>2, FS_Subset, FS_CardinalityType DEF LocalAssumption
  <2>4. StrictOrder(older')
    BY <2>1, AmongStrict
  <2>5. QED
    BY <2>1, <2>2, <2>3, <2>4 DEF CacheBounded
<1>7. ASSUME NEW k \in Accounts, Reconnect(k) \/ EntryIdles(k) PROVE BoundInv'
  BY <1>2, <1>7 DEF Reconnect, EntryIdles, Cached, Flying
<1>8. ASSUME NEW k \in Accounts, ReadVault(k) PROVE BoundInv'
  <2>1. /\ [inflight[k] EXCEPT !.step = "read", !.epoch = epoch[k]] \in Flights
        /\ inflight' = [inflight EXCEPT ![k] = [inflight[k] EXCEPT !.step = "read",
                                                                  !.epoch = epoch[k]]]
        /\ inflight[k] # None
    <3>1. inflight[k] \in Flights /\ epoch[k] \in 0..MaxEpoch
      BY <1>1, <1>8, Bounds DEF ReadVault, TypeOK
    <3>2. [inflight[k] EXCEPT !.step = "read", !.epoch = epoch[k]] \in Flights
      BY <3>1 DEF Flights
    <3>3. QED
      BY <1>8, <3>2 DEF ReadVault
  <2>2. Flying' = Flying
    BY <1>1, <2>1, NoneApart DEF Flying
  <2>3. QED
    BY <1>2, <1>8, <2>2 DEF ReadVault, Cached
<1>9. ASSUME NEW k \in Accounts, Fail(k) PROVE BoundInv'
  <2>1. /\ [inflight[k] EXCEPT !.step = "settled", !.epoch = 0] \in Flights
        /\ inflight' = [inflight EXCEPT ![k] = [inflight[k] EXCEPT !.step = "settled",
                                                                  !.epoch = 0]]
        /\ inflight[k] # None
    <3>1. inflight[k] \in Flights /\ 0 \in 0..MaxEpoch
      BY <1>1, <1>9, Bounds DEF Fail
    <3>2. [inflight[k] EXCEPT !.step = "settled", !.epoch = 0] \in Flights
      BY <3>1 DEF Flights
    <3>3. QED
      BY <1>9, <3>2 DEF Fail, Settle
  <2>2. Flying' = Flying
    BY <1>1, <2>1, NoneApart DEF Flying
  <2>3. QED
    BY <1>2, <1>9, <2>2 DEF Fail, Cached
<1>10. ASSUME NEW k \in Accounts, ReadingAges(k) \/ CooldownEnds(k) PROVE BoundInv'
  <2>1. PICK entry \in Entries : cache' = [cache EXCEPT ![k] = entry] /\ cache[k] # None
    <3>1. cache[k] # None /\ cache[k] \in Entries
      BY <1>1, <1>10 DEF ReadingAges, CooldownEnds
    <3>2. /\ [cache[k] EXCEPT !.fresh = FALSE] \in Entries
          /\ [cache[k] EXCEPT !.cooling = FALSE] \in Entries
      BY <3>1 DEF Entries
    <3>3. QED
      BY <1>10, <3>1, <3>2 DEF ReadingAges, CooldownEnds
  <2>2. Cached' = Cached
    BY <1>1, <2>1, NoneApart DEF Cached
  <2>3. QED
    BY <1>2, <1>10, <2>2 DEF ReadingAges, CooldownEnds, Flying
<1>11. CASE UNCHANGED vars
  BY <1>2, <1>11 DEF vars, Cached, Flying
<1>12. QED
  BY <1>3, <1>4, <1>5, <1>6, <1>7, <1>8, <1>9, <1>10, <1>11 DEF Next, Refresh

(* Over any finite number of accounts, what exceeds MaxEntries is what prune
   must not touch. *)
THEOREM CacheStaysBounded ==
    ASSUME LocalAssumption, IsFiniteSet(Accounts) PROVE Spec => []CacheBounded
<1>1. Init => BoundInv
  <2>1. Init => Cached = {} /\ older = {}
    BY DEF Init, Cached
  <2>2. QED
    BY <2>1 DEF BoundInv, StrictOrder, CacheBounded
<1>2. TypeOK /\ BoundInv /\ [Next]_vars => BoundInv'
  BY StepBound
<1>3. BoundInv => CacheBounded
  BY DEF BoundInv
<1>4. QED
  BY <1>1, <1>2, <1>3, Typing, PTL DEF Spec
=============================================================================
