---------------------------- MODULE LocalUsageProps ----------------------------
(***************************************************************************)
(* What the local coordinator is to guarantee to those who ask it.         *)
(***************************************************************************)
EXTENDS LocalUsage

(* The values the variables take. *)
TypeOK ==
    /\ cache \in [Accounts -> Entries \cup {None}]
    /\ older \in SUBSET (Cached \X Cached)
    /\ idle \in SUBSET Cached
    /\ inflight \in [Accounts -> Flights \cup {None}]
    /\ clearedInflight \in SUBSET Flying
    /\ caller \in [Callers -> Requests]
    /\ epoch \in [Accounts -> Epochs]
    /\ unclear \in SUBSET Accounts

(* Once a reconnect has cleared the account, neither the entry it found nor
   the commit of the refresh it overtook is left: what the cache says of an
   account is about the credential the vault holds (clear, lines 224-227,
   and the first line of commit). *)
ClearLeavesNoTrace ==
    \A k \in Accounts \ unclear :
        cache[k] # None =>
            /\ cache[k].verdictOf = epoch[k]
            /\ cache[k].readingOf \in {0, epoch[k]}

(* The verdict on an old credential ends with the refresh that reached it:
   a caller who asks after the clear gets it only by joining that refresh
   while it is still in flight (inflight.get, lines 186-187, which does not
   look at the mark), never from the cache and never from a refresh that
   starts after the clear. *)
OldVerdictOnlyJoined ==
    \A c \in Callers :
        caller[c].at = "answered" /\ caller[c].got # 0 /\ ~caller[c].late =>
            caller[c].got >= caller[c].asked

(* A refresh that started over a reading and was not cleared still finds it
   in the cache, however many other accounts were read and pruned
   meanwhile: its failure serves and keeps the last good reading. *)
LastGoodSurvives ==
    \A k \in Flying \ clearedInflight :
        inflight[k].prior => cache[k] # None /\ cache[k].readingOf # 0

(* The cache exceeds its limit only by entries whose refresh is running. *)
CacheBounded == Cardinality(Cached) <= MaxEntries \/ Cached \subseteq Flying

-----------------------------------------------------------------------------
(* What the invariants above rest on.  Entries and refreshes that no clear
   has overtaken are of the connection of the last clear or a later one;
   whoever waits, waits for a refresh that will tell it nothing older. *)
EntryInv ==
    \A k \in Accounts :
        /\ Current(k) \in Epochs
        /\ cache[k] # None =>
              /\ cache[k].verdictOf \in Current(k)..epoch[k]
              /\ cache[k].readingOf # 0 => cache[k].readingOf \in Current(k)..epoch[k]

FlightInv ==
    \A k \in Flying :
        /\ inflight[k].step = "queued" => inflight[k].epoch = 0
        /\ inflight[k].step = "read" => inflight[k].epoch # 0
        /\ inflight[k].epoch <= epoch[k]
        /\ k \notin clearedInflight /\ inflight[k].epoch # 0 => inflight[k].epoch >= Current(k)
        /\ caller[inflight[k].starter].key = k
        /\ caller[inflight[k].starter].at =
              IF inflight[k].step = "settled" THEN "answered" ELSE "waiting"

WaitInv ==
    \A c \in Callers :
        /\ caller[c].at # "idle" => caller[c].key \in Accounts
        /\ caller[c].at = "waiting" =>
              /\ caller[c].key \in Flying
              /\ inflight[caller[c].key].step # "settled"
              /\ caller[c].asked <= epoch[caller[c].key]
              /\ ~caller[c].late /\ inflight[caller[c].key].epoch # 0 =>
                    inflight[caller[c].key].epoch >= caller[c].asked

(* The order of use is one: what was used before an entry was used before
   all that were used after it. *)
StrictOrder(order) ==
    /\ \A p \in order : p[1] # p[2]
    /\ \A p, q \in order : p[2] = q[1] => <<p[1], q[2]>> \in order

BoundInv == StrictOrder(older) /\ CacheBounded

IInv == TypeOK /\ EntryInv /\ FlightInv /\ WaitInv /\ OldVerdictOnlyJoined /\ LastGoodSurvives

-----------------------------------------------------------------------------
(* A refresh ends (its lock wait has a deadline and so has every request it
   makes), and a settled promise resumes those who wait for it. *)
Fairness ==
    /\ \A k \in Accounts : WF_vars(Refresh(k))
    /\ \A c \in Callers : WF_vars(Return(c))

FairSpec == Spec /\ Fairness

(* Everybody who waits is answered, and the mark of a cleared refresh does
   not outlive it: later refreshes of the account are published again. *)
CallsAnswered ==
    /\ \A c \in Callers : (caller[c].at # "idle") ~> (caller[c].at = "idle")
    /\ \A k \in Accounts : (k \in clearedInflight) ~> (k \notin clearedInflight)
=============================================================================
