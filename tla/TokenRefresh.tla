---------------------------- MODULE TokenRefresh ----------------------------
(* How one account's usage is read and its single-use refresh token renewed  *)
(* by concurrent pollers that share a remote backend (lib/usage-service.ts,  *)
(* lib/vault.ts, convex/usageCache.ts, lib/redis-usage-cache.ts).            *)
(*                                                                           *)
(* A poller is a request of the dashboard or of the cron job; each of its    *)
(* calls of getAccountUsage has an owner token of its own.  One action is    *)
(* one request to the vault, to the coordination row or to the provider, and *)
(* everything else may happen between two of them.                           *)
(*                                                                           *)
(* A credential is named by the connection it descends from (epoch) and by   *)
(* the number of renewals since (gen).  Its renewal is the next gen, so the  *)
(* journal record "expectedRefreshToken t, tokens t+1" is named by t.        *)
EXTENDS Naturals

CONSTANTS
    Pollers,
    Nobody,       \* no owner
    Ended,        \* the owner token of a call that is over
    Backends,     \* the coordination backends, a subset of BackendKinds
    MaxEpoch,     \* bound: connections of the account
    MaxGen,       \* bound: renewals of a connection
    AccessOnly,   \* epochs whose credential may be one without a refresh token
    Managed,      \* credentialKind is "managed"
    Faults,       \* the failures that may occur, a subset of FaultKinds
    MayExpire,    \* credentials reach their expiry
    MayReject,    \* the provider may refuse an access token before its expiry, though not
                  \* one it issued to the very call
    MayRevoke,    \* the user may revoke a connection at the provider
    MayRemove,    \* the user may remove the account
    MayLoseLease  \* the lease of a running call may run out: it was suspended or cut off

BackendKinds == {"convex", "redis"}
FaultKinds == {"response", "provider", "throttle", "usage", "storage", "journal",
               "coordination", "crash"}

Epochs == 1..MaxEpoch
Tokens == [epoch : Epochs, gen : 0..MaxGen]
NoToken == [epoch |-> 0, gen |-> 0]

ASSUME RefreshAssumption ==
    /\ MaxEpoch \in Nat \ {0} /\ MaxGen \in Nat
    /\ Nobody \notin Pollers /\ Ended \notin Pollers \cup {Nobody}
    /\ Backends \subseteq BackendKinds
    /\ AccessOnly \subseteq Epochs
    /\ Faults \subseteq FaultKinds
    /\ \A b \in {Managed, MayExpire, MayReject, MayRevoke, MayRemove, MayLoseLease} : b \in BOOLEAN

VARIABLES
    backend,   \* the backend of this deployment, which never changes
    accessOnly, \* connections without a refresh token, chosen once as well
    call,      \* call[c]: the call poller c is in
    row,       \* the coordination row: the usage cache and its lease
    vault,     \* the credential the vault holds for the account
    journal,   \* the expected token of the pending recovery record
    live,      \* live[e]: the generation the provider accepts for connection e
    revoked,   \* connections revoked at the provider
    due,       \* credentials within TOKEN_SKEW_MS of their expiry
    resetDue,  \* a connect or remove has written the vault and resets the row next
    lost,      \* connections whose last renewal was lost with whoever received it
    connects   \* how many connections the account has had

fixed == <<backend, accessOnly>>
vars == <<fixed, call, row, vault, journal, live, revoked, due, resetDue, lost, connects>>
shared == <<fixed, vault, journal, live, revoked, due, resetDue, lost, connects>>

Successor(t) == [t EXCEPT !.gen = @ + 1]

\* The locals of refreshAndFetch: tokens, the base of the renewal or recovery
\* being persisted, where that continues, whether its journal record is ours to
\* clear, rotated (and how), and the throttle count of prior.status.
Idle == [pc |-> "idle", tokens |-> NoToken, base |-> NoToken, resume |-> "none",
         journaled |-> FALSE, rotated |-> "no", prior |-> 0]

\* No row and a row just inserted by claim are read alike.  fresh: a usage
\* payload younger than CACHE_TTL_MS; cooling: cooldownUntil is ahead; leased:
\* refreshingUntil is ahead; throttles: the n of refresh_throttled_n.
NoRow == [status |-> "loading", fresh |-> FALSE, cooling |-> FALSE,
          throttles |-> 0, owner |-> Nobody, leased |-> FALSE]

Init ==
    /\ backend \in Backends
    /\ accessOnly \in SUBSET AccessOnly
    /\ call = [c \in Pollers |-> Idle]
    /\ row = NoRow
    /\ vault = [epoch |-> 1, gen |-> 0]
    /\ journal = NoToken
    /\ live = [e \in Epochs |-> 0]
    /\ revoked = {}
    /\ due = {}
    /\ resetDue = FALSE
    /\ lost = {}
    /\ connects = 1

(* Helpers *)

At(c, label) == call[c].pc = label

Goto(c, label) == call' = [call EXCEPT ![c].pc = label]

\* Only the way out is left; the other locals are not read again.
Conclude(c, label) ==
    call' = [call EXCEPT ![c] = [Idle EXCEPT !.pc = label, !.prior = call[c].prior]]

\* A renewal or recovery begins; tokens is only set again once it is in the vault.
Replacing(l, label, base, resume, journaled) ==
    [l EXCEPT !.pc = label, !.tokens = NoToken, !.base = base,
              !.resume = resume, !.journaled = journaled]

\* The renewal or recovery of c is in the vault; refreshAndFetch goes on.
Resumed(l) == [l EXCEPT !.pc = l.resume, !.base = NoToken, !.resume = "none", !.journaled = FALSE]

\* coordinatedCacheAction is "fetch".
NeedsFetch(r) == r.status # "reauth" /\ ~r.fresh /\ ~r.cooling

Released(r) == [r EXCEPT !.owner = Nobody, !.leased = FALSE]

\* The call is over; nobody will use its owner token again.
Abandoned(c, r) == IF r.owner = c THEN [r EXCEPT !.owner = Ended] ELSE r

End(c, r) == call' = [call EXCEPT ![c] = Idle] /\ row' = Abandoned(c, r)

Renewable(t) == t.epoch \notin accessOnly

NeedsRefresh(t) == t \in due /\ Renewable(t)

Accepted(t) == t.epoch \notin revoked /\ live[t.epoch] = t.gen

(* getAccountUsage: read the vault, read the row, claim the lease *)

Start(c) ==
    /\ At(c, "idle") /\ vault # NoToken
    /\ call' = [call EXCEPT ![c] = [Idle EXCEPT !.pc = "get", !.tokens = vault]]
    /\ UNCHANGED <<row, shared>>

\* A fresh, cooling or reauth row is served as it is.
Get(c) ==
    /\ At(c, "get")
    /\ IF NeedsFetch(row)
       THEN call' = [call EXCEPT ![c].pc = "claim", ![c].prior = row.throttles]
       ELSE call' = [call EXCEPT ![c] = Idle]
    /\ UNCHANGED <<row, shared>>

\* Mutants of Claim: a lease somebody holds is taken over; Redis, too, goes ahead without looking at the claimed snapshot.
ClaimUnchecked(c) ==
    /\ At(c, "claim")
    /\ IF row.leased
       THEN End(c, row)
       ELSE /\ row' = [row EXCEPT !.owner = c, !.leased = TRUE]
            /\ Goto(c, "load")
    /\ UNCHANGED shared

ClaimStolen(c) ==
    /\ At(c, "claim")
    /\ row' = [row EXCEPT !.owner = c, !.leased = TRUE]
    /\ Goto(c, "load")
    /\ UNCHANGED shared

\* Compare-and-set of the lease.  Redis returns the row of the same script and
\* looks at it again; Convex goes on with what Get read.
Claim(c) ==
    /\ At(c, "claim")
    /\ IF row.leased
       THEN End(c, row)
       ELSE /\ row' = [row EXCEPT !.owner = c, !.leased = TRUE]
            /\ \/ backend = "convex" /\ Goto(c, "load")
               \/ /\ backend = "redis"
                  /\ IF NeedsFetch(row)
                     THEN call' = [call EXCEPT ![c].pc = "load", ![c].prior = row.throttles]
                     ELSE Conclude(c, "release")
    /\ UNCHANGED shared

\* The request or its answer is lost: the call gives up and the lease, if it was
\* granted, stays until it runs out.
CoordinationFails(c) ==
    /\ "coordination" \in Faults
    /\ \/ (At(c, "get") \/ At(c, "claim")) /\ End(c, row)
       \/ /\ At(c, "claim") /\ ~row.leased
          /\ End(c, [row EXCEPT !.owner = c, !.leased = TRUE])
    /\ UNCHANGED shared

\* release: best effort, and only of the call's own lease.
Release(c) ==
    /\ At(c, "release")
    /\ \/ End(c, IF row.owner = c THEN Released(row) ELSE row)
       \/ "coordination" \in Faults /\ End(c, row)
    /\ UNCHANGED shared

(* refreshAndFetch: the vault, the recovery journal, the renewal *)

Load(c) ==
    /\ At(c, "load")
    /\ LET t == IF vault = NoToken THEN call[c].tokens ELSE vault
       IN  call' = [call EXCEPT ![c].tokens = t,
                                ![c].pc = IF Renewable(t) THEN "journal" ELSE "decide"]
    /\ UNCHANGED <<row, shared>>

\* Mutant of LoadJournal: the journal is not consulted.
LoadJournalNot(c) ==
    /\ At(c, "journal")
    /\ Goto(c, "decide")
    /\ UNCHANGED <<row, shared>>

\* loadTokenRecovery: a record somebody left is adopted before any other call.
LoadJournal(c) ==
    /\ At(c, "journal")
    /\ IF journal = NoToken
       THEN Goto(c, "decide")
       ELSE call' = [call EXCEPT ![c] = Replacing(@, "persist", journal, "decide", TRUE)]
    /\ UNCHANGED <<row, shared>>

\* A read of the vault or of the journal throws.
ReadFails(c) ==
    /\ "storage" \in Faults
    /\ call[c].pc \in {"load", "journal", "renew", "forceRenew"}
    /\ Conclude(c, "release")
    /\ UNCHANGED <<row, shared>>

\* The proactive renewal, near the expiry of the access token only.
Decide(c) ==
    /\ At(c, "decide")
    /\ Goto(c, IF NeedsRefresh(call[c].tokens) THEN "renew" ELSE "fetch")
    /\ UNCHANGED <<row, shared>>

\* doRefresh(force): the base is what the vault holds now.
Renew(c) ==
    /\ call[c].pc \in {"renew", "forceRenew"}
    /\ LET b == IF vault = NoToken THEN call[c].tokens ELSE vault
       IN  call' = [call EXCEPT ![c] =
             IF At(c, "renew") /\ ~NeedsRefresh(b) THEN [@ EXCEPT !.pc = "fetch", !.tokens = b]
             ELSE IF ~Renewable(b) THEN [Idle EXCEPT !.pc = "reauth", !.prior = call[c].prior]
             ELSE Replacing(@, "spend", b, "fetch", FALSE)]
    /\ UNCHANGED <<row, shared>>

\* provider.refresh: the provider takes the single-use token and answers with
\* the next generation, or the answer never arrives.
Spend(c) ==
    LET b == call[c].base IN
    /\ At(c, "spend")
    /\ Accepted(b) /\ b.gen < MaxGen
    /\ live' = [live EXCEPT ![b.epoch] = @ + 1]
    /\ \/ call' = [call EXCEPT ![c].pc = "save", ![c].rotated = "renewed"]
          /\ UNCHANGED lost
       \/ "response" \in Faults /\ Conclude(c, "release") /\ lost' = lost \cup {b.epoch}
    /\ UNCHANGED <<fixed, row, vault, journal, revoked, due, resetDue, connects>>

\* Mutant of SpendFails: a 429 counts as an explicit rejection.
SpendFailsHard(c) ==
    /\ At(c, "spend")
    /\ \/ (~Accepted(call[c].base) \/ "throttle" \in Faults) /\ Conclude(c, "reauth")
       \/ "provider" \in Faults /\ Conclude(c, "release")
    /\ UNCHANGED <<row, shared>>

\* An explicit rejection, a 429, or a failure before the token was looked at.
SpendFails(c) ==
    /\ At(c, "spend")
    /\ \/ ~Accepted(call[c].base) /\ Conclude(c, "reauth")
       \/ "throttle" \in Faults /\ Conclude(c, "throttled")
       \/ "provider" \in Faults /\ Conclude(c, "release")
    /\ UNCHANGED <<row, shared>>

\* Mutant of MayReplace: any pending record may be replaced.
MayReplaceAny(pending, base) == TRUE

\* A pending record gives way only to the next link of its own chain.
MayReplace(pending, base) ==
    pending \in {NoToken, base} \/ Successor(pending) = base

\* saveTokenRecovery, up to its compare-and-set.  A failure is remembered, and
\* the main vault is tried all the same.
Save(c) ==
    /\ At(c, "save")
    /\ \/ /\ MayReplace(journal, call[c].base)
          /\ journal' = call[c].base
          /\ \/ call' = [call EXCEPT ![c].pc = "persist", ![c].journaled = TRUE]
             \/ "journal" \in Faults /\ Goto(c, "persist")
       \/ /\ "journal" \in Faults \/ ~MayReplace(journal, call[c].base)
          /\ Goto(c, "persist")
          /\ UNCHANGED journal
    /\ UNCHANGED <<fixed, row, vault, live, revoked, due, resetDue, lost, connects>>

\* Mutant of Persisted: the expected refresh token is not compared.
PersistedAnyway(base) == Successor(base)

\* What the mutation of persistAccountTokens makes of the vault: the replacement
\* only takes the place of the generation it replaces.
Persisted(base) == IF vault = base THEN Successor(base) ELSE vault

\* mutateAccounts with the account present; with "storage" the write may arrive
\* and still report an error, and the next attempt follows.
PersistWrite(c) ==
    /\ At(c, "persist") /\ vault # NoToken
    /\ vault' = Persisted(call[c].base)
    /\ \/ Goto(c, "verify")
       \/ "storage" \in Faults /\ UNCHANGED call
    /\ UNCHANGED <<fixed, row, journal, live, revoked, due, resetDue, lost, connects>>

\* The reload that verifies the write, and adopts what somebody else put there.
Verify(c) ==
    /\ At(c, "verify")
    /\ \/ /\ vault \notin {NoToken, call[c].base}
          /\ LET l == [call[c] EXCEPT !.tokens = vault, !.rotated = IF @ = "no" THEN "adopted" ELSE @]
             IN  call' = [call EXCEPT ![c] = IF l.journaled THEN [l EXCEPT !.pc = "clear"]
                                             ELSE Resumed(l)]
       \/ (vault \in {NoToken, call[c].base} \/ "storage" \in Faults) /\ Goto(c, "persist")
    /\ UNCHANGED <<row, shared>>

\* The received generation exists nowhere but in the memory of c.
OnlyCopy(c) ==
    /\ call[c].pc \in {"save", "persist", "verify"} /\ ~call[c].journaled
    /\ journal # call[c].base /\ vault # Successor(call[c].base)

Strands(c) == lost' = IF OnlyCopy(c) THEN lost \cup {call[c].base.epoch} ELSE lost

\* RotatedTokenPersistenceError after the last attempt.
PersistGivesUp(c) ==
    /\ At(c, "persist")
    /\ "storage" \in Faults \/ vault = NoToken
    /\ Conclude(c, "release")
    /\ Strands(c)
    /\ UNCHANGED <<fixed, row, vault, journal, live, revoked, due, resetDue, connects>>

\* Mutant of Cleared: whatever record is there goes.
ClearedAny(base) == NoToken

\* clearTokenRecovery: compare-and-set against the record the call knows.
Cleared(base) == IF journal = base THEN NoToken ELSE journal

Clear(c) ==
    /\ At(c, "clear")
    /\ \/ journal' = Cleared(call[c].base)
       \/ "journal" \in Faults /\ UNCHANGED journal
    /\ call' = [call EXCEPT ![c] = Resumed(@)]
    /\ UNCHANGED <<fixed, row, vault, live, revoked, due, resetDue, lost, connects>>

(* refreshAndFetch: the reading and its commit *)

\* provider.fetchUsage, and a 401 whose cause the caller cannot see.
Fetch(c) ==
    LET t == call[c].tokens IN
    /\ At(c, "fetch")
    /\ \/ t.epoch \notin revoked /\ Conclude(c, "ready")
       \/ /\ \/ MayReject /\ call[c].rotated # "renewed"
             \/ t.epoch \in revoked \/ t.gen < live[t.epoch]
          /\ IF call[c].rotated # "no" THEN Conclude(c, "reauth") ELSE Goto(c, "forceRenew")
       \/ "usage" \in Faults /\ (Conclude(c, "limited") \/ Conclude(c, "release"))
    /\ UNCHANGED <<row, shared>>

Verdicts == {"ready", "reauth", "limited", "throttled"}

\* The throttle count that sends a legacy credential to reauth.
ReauthAfter == 3

\* Mutant of Published: the count of a managed credential has no cap.
PublishedUncapped(c) ==
    LET n == call[c].prior + 1
        verdict == IF At(c, "throttled") /\ ~Managed /\ n >= ReauthAfter
                   THEN "reauth" ELSE call[c].pc
    IN  [row EXCEPT !.status = verdict,
                    !.fresh = @ \/ verdict = "ready",
                    !.cooling = verdict # "ready",
                    !.throttles = IF verdict = "throttled" THEN n ELSE 0,
                    !.owner = Nobody, !.leased = FALSE]

\* What commit makes of the row for each verdict; fields it leaves out stay.
Published(c) ==
    LET n == IF call[c].prior + 1 < ReauthAfter THEN call[c].prior + 1 ELSE ReauthAfter
        verdict == IF At(c, "throttled") /\ ~Managed /\ n = ReauthAfter
                   THEN "reauth" ELSE call[c].pc
    IN  [row EXCEPT !.status = verdict,
                    !.fresh = @ \/ verdict = "ready",
                    !.cooling = verdict # "ready",
                    !.throttles = IF verdict = "throttled" THEN n ELSE 0,
                    !.owner = Nobody, !.leased = FALSE]

\* commit publishes and gives the lease back in one step, and throws without
\* the lease; the answer may be lost either way.
Commit(c) ==
    /\ call[c].pc \in Verdicts
    /\ \/ /\ row.owner = c /\ row' = Published(c)
          /\ \/ call' = [call EXCEPT ![c] = Idle]
             \/ "coordination" \in Faults /\ Conclude(c, "release")
       \/ /\ row.owner # c \/ "coordination" \in Faults
          /\ Conclude(c, "release") /\ UNCHANGED row
    /\ UNCHANGED shared

(* The lease *)

Claimed(c) == call[c].pc \notin {"idle", "get", "claim"}

\* The renewal timer of a running call.  Convex revives a lease that ran out but
\* was not claimed again; in Redis the lock key is gone by then.
RenewLease(c) ==
    /\ Claimed(c)
    /\ row.owner = c /\ ~row.leased
    /\ row' = [row EXCEPT !.leased = TRUE]
    /\ UNCHANGED <<call, shared>>

LeaseExpires ==
    /\ row.leased
    /\ MayLoseLease \/ row.owner \notin Pollers
    /\ row' = [row EXCEPT !.leased = FALSE,
                          !.owner = IF backend = "redis" THEN Nobody ELSE @]
    /\ UNCHANGED <<call, shared>>

(* clearAccountUsageState, connect and remove *)

\* The reset of Convex keeps the reading; Redis deletes the row and the lock.
Reset(r) ==
    IF backend = "redis" THEN NoRow
    ELSE [Released(r) EXCEPT !.status = "loading", !.cooling = FALSE, !.throttles = 0]

\* A reconnect, or a new connect after a removal, writes a new credential ...
Connect ==
    /\ ~resetDue /\ connects < MaxEpoch
    /\ connects' = connects + 1
    /\ vault' = [epoch |-> connects + 1, gen |-> 0]
    /\ resetDue' = TRUE
    /\ UNCHANGED <<fixed, call, row, journal, live, revoked, due, lost>>

Remove ==
    /\ MayRemove /\ ~resetDue /\ vault # NoToken
    /\ vault' = NoToken
    /\ resetDue' = TRUE
    /\ UNCHANGED <<fixed, call, row, journal, live, revoked, due, lost, connects>>

\* ... and then resets the row, best effort.
ResetRow ==
    /\ resetDue
    /\ resetDue' = FALSE
    /\ \/ row' = Reset(row)
       \/ "coordination" \in Faults /\ UNCHANGED row
    /\ UNCHANGED <<fixed, call, vault, journal, live, revoked, due, lost, connects>>

(* The environment *)

TokenExpires ==
    /\ MayExpire /\ vault # NoToken
    /\ due' = due \cup {vault}
    /\ UNCHANGED <<fixed, call, row, vault, journal, live, revoked, resetDue, lost, connects>>

Revoke ==
    /\ MayRevoke /\ vault # NoToken
    /\ revoked' = revoked \cup {vault.epoch}
    /\ UNCHANGED <<fixed, call, row, vault, journal, live, due, resetDue, lost, connects>>

\* CACHE_TTL_MS after a reading, COOLDOWN_MS after a refusal.
RowAges ==
    /\ \/ row.fresh /\ row' = [row EXCEPT !.fresh = FALSE]
       \/ row.cooling /\ row' = [row EXCEPT !.cooling = FALSE]
    /\ UNCHANGED <<call, shared>>

\* The process of a call dies; the poller comes back with a new call.
Crash(c) ==
    /\ "crash" \in Faults
    /\ ~At(c, "idle")
    /\ End(c, row)
    /\ Strands(c)
    /\ UNCHANGED <<fixed, vault, journal, live, revoked, due, resetDue, connects>>

Step(c) ==
    \/ Start(c) \/ Get(c) \/ Claim(c) \/ Release(c)
    \/ Load(c) \/ LoadJournal(c) \/ Decide(c) \/ Renew(c)
    \/ Spend(c) \/ SpendFails(c) \/ Save(c)
    \/ PersistWrite(c) \/ Verify(c) \/ PersistGivesUp(c) \/ Clear(c)
    \/ Fetch(c) \/ Commit(c)

Next ==
    \/ \E c \in Pollers :
        \/ Step(c) \/ CoordinationFails(c) \/ ReadFails(c)
        \/ RenewLease(c) \/ Crash(c)
    \/ LeaseExpires \/ RowAges
    \/ Connect \/ Remove \/ ResetRow
    \/ TokenExpires \/ Revoke

Spec == Init /\ [][Next]_vars
=============================================================================
