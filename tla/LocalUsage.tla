------------------------------ MODULE LocalUsage ------------------------------
(***************************************************************************)
(* The reads of account usage within one process of a file-backed server:  *)
(* LocalUsageCoordinator with the refresh it is given by usage-service.    *)
(*                                                                         *)
(* A refresh in flight is shared by everybody who asks meanwhile.  A       *)
(* reconnect writes the vault (a new epoch of the credential) and a step   *)
(* later clears the account's cache entry, also under a refresh.           *)
(***************************************************************************)
EXTENDS Naturals, FiniteSets

CONSTANTS
    Accounts,       \* cache keys
    Callers,        \* requests for an account's usage
    MaxEntries,     \* entries the cache is pruned to
    MaxEpoch,       \* bound: connections of one account
    None            \* no entry, no flight, no account

ASSUME LocalAssumption ==
    /\ MaxEntries \in Nat \ {0}
    /\ MaxEpoch \in Nat \ {0}
    /\ None \notin Accounts
    /\ None \notin [readingOf : Nat, fresh : BOOLEAN, reauth : BOOLEAN,
                    cooling : BOOLEAN, verdictOf : Nat]
    /\ None \notin [step : {"queued", "read", "settled"}, epoch : Nat,
                    prior : BOOLEAN, starter : Callers]

VARIABLES
    cache,              \* account -> its entry or None
    older,              \* pairs <<j, k>>: entry j was used before entry k
    idle,               \* cached accounts nobody asked for within idleTtlMs
    inflight,           \* account -> its refresh or None
    clearedInflight,    \* accounts cleared while their refresh was running
    caller,             \* request -> where it is and what it was told
    epoch,              \* account -> connection its credential in the vault is of
    unclear             \* accounts with a vault write whose clear is yet to come

vars == <<cache, older, idle, inflight, clearedInflight, caller, epoch, unclear>>

Epochs == 1..MaxEpoch

(* An entry.  readingOf and verdictOf name the connection its reading and
   its status come from; without a reading, readingOf is 0. *)
Entries == [readingOf : 0..MaxEpoch, fresh : BOOLEAN, reauth : BOOLEAN,
            cooling : BOOLEAN, verdictOf : Epochs]

(* A refresh: queued for the file lock, past its read of the vault (epoch),
   or settled.  prior: it started over an entry with a reading. *)
Flights == [step : {"queued", "read", "settled"}, epoch : 0..MaxEpoch,
            prior : BOOLEAN, starter : Callers]

(* got: connection the answer is about, 0 for none.  asked: the last
   connection whose clear was over when the request came.  late: it joined
   a refresh that a clear had overtaken before it asked. *)
Requests == [at : {"idle", "waiting", "answered"}, key : Accounts \cup {None},
             got : 0..MaxEpoch, asked : 0..MaxEpoch, late : BOOLEAN]

Resting == [at |-> "idle", key |-> None, got |-> 0, asked |-> 0, late |-> FALSE]

(* The connection the last clear of account k was about. *)
Current(k) == IF k \in unclear THEN epoch[k] - 1 ELSE epoch[k]

Cached == {k \in Accounts : cache[k] # None}
Flying == {k \in Accounts : inflight[k] # None}

Init ==
    /\ cache = [k \in Accounts |-> None]
    /\ older = {}
    /\ idle = {}
    /\ inflight = [k \in Accounts |-> None]
    /\ clearedInflight = {}
    /\ caller = [c \in Callers |-> Resting]
    /\ epoch = [k \in Accounts |-> 1]
    /\ unclear = {}

-----------------------------------------------------------------------------
(* A plausible slip in prune: age alone decides. *)
KeptUnlessIdle(cached, order, old, busy) ==
    LET current == cached \ old
        before(k) == {j \in current : <<j, k>> \in order}
    IN  {k \in current : Cardinality(current) - Cardinality(before(k)) <= MaxEntries}

(* prune: entries nobody asked for within idleTtlMs go, then the least
   recently used ones until MaxEntries are left; neither touches an entry
   whose refresh is running. *)
Kept(cached, order, old, busy) ==
    LET current == {k \in cached : k \in busy \/ k \notin old}
        before(k) == {j \in current \ busy : <<j, k>> \in order}
    IN  {k \in current : \/ k \in busy
                         \/ Cardinality(current) - Cardinality(before(k)) <= MaxEntries}

(* Entry k becomes the most recently used one of the cached entries. *)
Touched(order, cached, k) ==
    {p \in order : p[1] # k /\ p[2] # k} \cup ((cached \ {k}) \X {k})

Among(order, keys) == order \cap (keys \X keys)

(* The cache with the entries that are kept, and what is known of their use. *)
Keep(kept, entries, order, old) ==
    /\ cache' = [k \in Accounts |-> IF k \in kept THEN entries[k] ELSE None]
    /\ older' = Among(order, kept)
    /\ idle' = old \cap kept

Prune(entries, order, old, busy) ==
    Keep(Kept({k \in Accounts : entries[k] # None}, order, old, busy),
         entries, order, old)

(* coordinatedCacheAction: does the entry answer the request by itself? *)
Served(entry) ==
    \/ entry.reauth
    \/ entry.readingOf # 0 /\ entry.fresh
    \/ entry.cooling

Asked(k, at, got, late) ==
    [at |-> at, key |-> k, got |-> got, asked |-> Current(k), late |-> late]

(* getAccountUsage up to its first await: prune, look at the entry, and
   answer from it, join the refresh in flight or start one. *)
Ask(c, k) ==
    LET kept == Kept(Cached, older, idle, Flying)
        entry == IF k \in kept THEN cache[k] ELSE None
        served == entry # None /\ Served(entry)
        settled == inflight[k].step = "settled"
        request ==
            IF served THEN Asked(k, "answered", entry.verdictOf, FALSE)
            ELSE IF inflight[k] = None THEN Asked(k, "waiting", 0, FALSE)
            ELSE Asked(k, IF settled THEN "answered" ELSE "waiting",
                          IF settled THEN inflight[k].epoch ELSE 0, k \in clearedInflight)
        flight == [step |-> "queued", epoch |-> 0, starter |-> c,
                   prior |-> entry # None /\ entry.readingOf # 0]
    IN  /\ caller[c].at = "idle"
        /\ Keep(kept, cache, IF k \in kept THEN Touched(older, kept, k) ELSE older, idle \ {k})
        /\ caller' = [caller EXCEPT ![c] = request]
        /\ inflight' = IF served \/ inflight[k] # None THEN inflight
                       ELSE [inflight EXCEPT ![k] = flight]
        /\ UNCHANGED <<clearedInflight, epoch, unclear>>

-----------------------------------------------------------------------------
(* The refresh, as far as the coordinator can tell. *)

(* It has the file lock and reads the vault's credential. *)
ReadVault(k) ==
    /\ inflight[k] # None
    /\ inflight[k].step = "queued"
    /\ inflight' = [inflight EXCEPT ![k] =
            [@ EXCEPT !.step = "read", !.epoch = epoch[k]]]
    /\ UNCHANGED <<cache, older, idle, clearedInflight, caller, epoch, unclear>>

(* Its promise settles: everybody who waits for it has the same answer. *)
Settle(k, about) ==
    /\ inflight' = [inflight EXCEPT ![k] =
            [@ EXCEPT !.step = "settled", !.epoch = about]]
    /\ caller' = [c \in Callers |->
            IF caller[c].at = "waiting" /\ caller[c].key = k
            THEN [caller[c] EXCEPT !.at = "answered", !.got = about]
            ELSE caller[c]]
    /\ UNCHANGED <<clearedInflight, epoch, unclear>>

(* A refresh publishes its outcome unless the account was cleared. *)
PublishesAlways(k) == TRUE
Publishes(k) == k \notin clearedInflight

(* store.commit of an outcome.  A ready one brings a reading; the others
   keep the one there is. *)
Commit(k, outcome) ==
    LET entry == [readingOf |-> IF outcome = "ready" THEN inflight[k].epoch
                                ELSE IF cache[k] # None THEN cache[k].readingOf ELSE 0,
                  fresh |-> outcome = "ready",
                  reauth |-> outcome = "reauth",
                  cooling |-> outcome # "ready",
                  verdictOf |-> inflight[k].epoch]
        entries == [cache EXCEPT ![k] = entry]
    IN  /\ inflight[k] # None
        /\ inflight[k].step = "read"
        /\ IF Publishes(k)
           THEN Prune(entries, Touched(older, Cached, k), idle \ {k}, Flying)
           ELSE UNCHANGED <<cache, older, idle>>
        /\ Settle(k, inflight[k].epoch)

(* It throws, for want of the lock or for a transient error: no commit. *)
Fail(k) ==
    /\ inflight[k] # None
    /\ inflight[k].step \in {"queued", "read"}
    /\ UNCHANGED <<cache, older, idle>>
    /\ Settle(k, 0)

(* What is in flight, and marked as cleared, once the refresh of k is not. *)
LandedLate(k) == Flying
Landed(k) == Flying \ {k}

UnmarkedNever(k) == clearedInflight
Unmarked(k) == clearedInflight \ {k}

(* A request has its answer.  The one that started the refresh takes it
   out of flight, with its mark, and prunes once more. *)
Return(c) ==
    LET k == caller[c].key
    IN  /\ caller[c].at = "answered"
        /\ caller' = [caller EXCEPT ![c] = Resting]
        /\ IF inflight[k] # None /\ inflight[k].starter = c
           THEN /\ inflight' = [inflight EXCEPT ![k] = None]
                /\ clearedInflight' = Unmarked(k)
                /\ Prune(cache, older, idle, Landed(k))
           ELSE UNCHANGED <<inflight, clearedInflight, cache, older, idle>>
        /\ UNCHANGED <<epoch, unclear>>

-----------------------------------------------------------------------------
(* A reconnect has written its credential to the vault ... *)
Reconnect(k) ==
    /\ k \notin unclear
    /\ epoch[k] < MaxEpoch
    /\ epoch' = [epoch EXCEPT ![k] = @ + 1]
    /\ unclear' = unclear \cup {k}
    /\ UNCHANGED <<cache, older, idle, inflight, clearedInflight, caller>>

(* ... and clears what the coordinator holds of the account: its entry, and
   by a mark what the refresh in flight is going to publish. *)
MarkedAnyway(k) == clearedInflight \cup {k}
Marked(k) == IF inflight[k] # None THEN clearedInflight \cup {k} ELSE clearedInflight

ForgottenUnlessBusy(k) ==
    IF inflight[k] # None THEN cache ELSE [cache EXCEPT ![k] = None]
Forgotten(k) == [cache EXCEPT ![k] = None]

Clear(k) ==
    /\ k \in unclear
    /\ unclear' = unclear \ {k}
    /\ cache' = Forgotten(k)
    /\ older' = Among(older, Cached \ {k})
    /\ idle' = idle \ {k}
    /\ clearedInflight' = Marked(k)
    /\ UNCHANGED <<inflight, caller, epoch>>

(* Time passes: a reading is older than the TTL, a cooldown is over, an
   entry has not been asked for within idleTtlMs (the longest by far). *)
ReadingAges(k) ==
    /\ cache[k] # None
    /\ cache[k].fresh
    /\ cache' = [cache EXCEPT ![k].fresh = FALSE]
    /\ UNCHANGED <<older, idle, inflight, clearedInflight, caller, epoch, unclear>>

CooldownEnds(k) ==
    /\ cache[k] # None
    /\ cache[k].cooling
    /\ cache' = [cache EXCEPT ![k].cooling = FALSE]
    /\ UNCHANGED <<older, idle, inflight, clearedInflight, caller, epoch, unclear>>

EntryIdles(k) ==
    /\ cache[k] # None
    /\ ~cache[k].fresh /\ ~cache[k].cooling
    /\ \A j \in Cached : <<j, k>> \in older => j \in idle
    /\ idle' = idle \cup {k}
    /\ UNCHANGED <<cache, older, inflight, clearedInflight, caller, epoch, unclear>>

Refresh(k) ==
    \/ ReadVault(k)
    \/ \E outcome \in {"ready", "reauth", "stale"} : Commit(k, outcome)
    \/ Fail(k)

Next ==
    \/ \E c \in Callers : (\E k \in Accounts : Ask(c, k)) \/ Return(c)
    \/ \E k \in Accounts :
          \/ Refresh(k)
          \/ Reconnect(k) \/ Clear(k)
          \/ ReadingAges(k) \/ CooldownEnds(k) \/ EntryIdles(k)

Spec == Init /\ [][Next]_vars

=============================================================================
