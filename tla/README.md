# how-much-ai in TLA+

`how-much-ai` shows how much of its limits each of a user's AI subscriptions has
used. It keeps one OAuth credential per account in an encrypted vault, reads
the usage of every account for a dashboard and for a notification cron, and
renews credentials whose refresh tokens are *single-use*: sending one twice can
end the login. Most of what is hard in the code follows from that, because
several browsers, serverless instances and local processes do it at once, over
a file, a Convex or a Redis backend, and any of them may stop at any point.

This directory models that code, checks the models with TLC and proves theorems
about them with TLAPS. `PROJECT.json` lists the runs, the lines each definition
models, the hazards, the findings and the theorems.

## 1. The system

| Component | State it keeps | Operations | How it interacts |
|---|---|---|---|
| Local file lock, `lib/local-file-lock.ts` | a lock directory with `owner.json`, intent files beside it | `withLocalFileLock` and its reaper, release, intents | serialises vault mutations and refreshes of all processes that share the local directory |
| Usage service, `lib/usage-service.ts`, `lib/usage-cache-core.ts` | locals of one call | `getAccountUsage`, `refreshAndFetch`, `persistAccountTokens`, `clearAccountUsageState` | reads the vault, claims the coordination row, calls the provider, writes journal and vault, commits to the row |
| Coordination row, `convex/usageCache.ts`, `lib/redis-usage-cache.ts` | one row per account: last reading, status, cooldown, lease | get, claim, renew, commit, release, reset | one transaction (Convex) or one Lua script (Redis) each |
| Recovery journal, `lib/vault.ts` | at most one record per account: the expected and the replacement token | `saveTokenRecovery`, `loadTokenRecovery`, `clearTokenRecovery` | written between the provider's answer and the vault write; adopted by the next call |
| Account vault, `lib/vault.ts`, `convex/vault.ts` | the encrypted list of accounts in a main and a last-good copy: files, Redis keys or Convex rows, the latter two with a proof of their key | load, mutate, restore from the backup, archive when unreadable | under the file lock, or by compare-and-set of both copies and the proof |
| Connect and remove, `app/api/connect/`, `lib/connect-account.ts`, `lib/credentials.ts`, `app/api/vault/route.ts` | locals of one request | verify a credential, find out whose it is, save its account; apply the dashboard's mutations | writes the vault by compare-and-swap, then resets the row, best effort |
| Local usage coordinator, `lib/local-usage-coordinator.ts` | per-process cache, promises in flight, keys cleared during one | `getAccountUsage`, `clear`, pruning | the local backend's counterpart of the row, under the file lock |
| Notification cron, `app/api/cron/check/route.ts`, `lib/notify-*.ts`, `convex/notify.ts` | run lease, detector states per limit | claim, detect, deliver, replace the states | reads usage through the usage service |
| Local notifications, `lib/local-notify-*.ts` | records in the browser's storage | one transaction per snapshot under a browser lock | the tabs of a browser share the records and the service worker |
| Web Push, `lib/notify-client.ts`, `components/NotificationsPanel.tsx` | the browser's subscription, the server's rows | enable, disable, prune | panels of several tabs change both step by step; the cron prunes |
| OpenAI device login, `lib/openai-device-attempt-store.ts` | eight attempts with poll fences | start, claimPoll, renewPoll, beginConsume, complete, fail, status | polled by the browser through the status route |
| OAuth attempts, `lib/oauth-attempt-store.ts` | eight attempts and an index by state | start, launch, claim, finish, status | browser redirect, callback route |
| Device pairing, `convex/pairings.ts`, `lib/pairing-completion.ts`, `components/AddAccountModal.tsx` | pairing rows and rate buckets; the dialog and its poll | create, preflight, claim, finalize, getByCode | command line, dialog poll |
| Bootstrap and login limit, `lib/local-bootstrap.ts`, `lib/login-rate-limit.ts` | one ticket, one challenge; bounded counters | issue, consume; check, recordFailure, reset | launcher and login route |
| Dashboard client, `components/Dashboard.tsx`, `lib/vault-client.ts`, `lib/dashboard-order-state.ts` | rows on the screen, last snapshot, pending edits, order of the cards | edit, save, replay after a conflict, reload, refresh, reorder | vault and usage routes |
| Providers, session, scripts, connect command | - | HTTP and parsing, signed cookies, host set-up | - |

What is hard, and what would make each part right:

* **File lock.** Every step is a file-system call of its own, and any of them may
  fail. Right means: one operation at a time, no live lock reaped, none that is
  dead kept for good.
* **Renewal.** The vault, the journal, the row and the provider are four
  parties without a common transaction. Right means: one renewer at a time, no
  spent token spent again, no replacement lost, no newer credential overwritten,
  `reauth` only when the grant is dead, and no `reauth` after a reconnect.
* **Vault storage.** Two copies, several keys, several writers, older versions
  of the app during a rollout. Right means: what a caller was told is in every
  readable copy, an unreadable vault never turns into an older or an empty one,
  and instances with different secrets do not take a vault from each other.
* **Local coordinator.** Callers share a refresh that a reconnect may overtake.
  Right means: nothing of the old credential in the cache after the clear, the
  last good reading outlives a failure, everybody is answered.
* **Notifications.** Right means: no detector state moves past an alert that was
  not delivered, no state is set back, no local alert is shown again once it was
  remembered, and rows of dropped subscriptions go away.
* **Single-use attempts** (device codes, OAuth states, pairing codes, tickets).
  Right means: each is completed at most once, by whoever claimed it, a bounded
  table never evicts one in use, and what a browser is told is final and true.
* **Connecting.** Right means: no account gets another login's credential, and
  a save computed again from a newer vault leaves the other accounts alone.
* **Dashboard.** Right means: an edit stays on the screen and is not lost, and
  cards do not move under the pointer.

`PROJECT.json` has the hazards one by one, at the lines where they bite.

## 2. The modules

### The file lock

| Module | Purpose |
|---|---|
| `GenerationLock` | what the lock promises: generations that are acquired, released by their owner or reclaimed by the owner's host after its process died |
| `LocalFileLock` | the protocol of `withLocalFileLock`, one action per file-system call |
| `LocalFileLockProps` | fairness, properties, the refinement mapping and the inductive invariant |
| `LocalFileLockProofs` | theorems and proofs |
| `MCLocalFileLock` | instances for TLC |

`pc[c]` is the next call of the file system that a call `c` of
`withLocalFileLock` makes. An intent is `absent`, `empty` between `open("wx")`
and the write (`createIntent` is two steps), `full` after it, and `stale` or
`aged` when it has been empty or full longer than `orphanGraceMs`.
`activeIntents` is a `Snapshot` (the `readdir`) and one `Examine` per name, in
any order, so that intents appear and vanish between them. `lock` is what the canonical name stands for: the call
that made the directory, whether `owner.json` is complete, whether the
modification time is old. The rename of a reaper (`Quarantine`) takes whatever
has that name at that moment. The recursive removal a release falls back to is
two steps, `UnlinkOwner` and `RmdirReleased`. `Crash` stops all the calls of a
process; `ReusePid` gives its pid to another one; `IntentAges` and `LockAges`
let time pass.

`errors` is the set of kinds of trouble a behaviour meets, chosen once from
`ErrorSets`: a deadline that passes, a reused pid, a live process that pauses
longer than the grace between two steps (`stall`), and each call of the file
system that may fail. Writes and renames that fail end the attempt or take the
fallback of the code. A read that fails is no error to the code:
`readOwnerRecord` returns null (lines 95-102), and so a reaper may take a live
lock older than the grace for an orphan (`readOwner`, lines 222-226), whoever
examines intents unlinks a live one that is `aged` (`readIntent`, lines 175-183),
and a release that cannot read its own token leaves the lock (`readToken`, lines
233-234). Which properties survive which kinds is part of the properties
(`IntentsStay`, `OwnersSeen`, `Steady`).

### Renewal of a single-use token

| Module | Purpose |
|---|---|
| `TokenRefresh` | one account: pollers, row, vault, journal, provider, reconnects |
| `TokenRefreshProps` | fairness, properties and the inductive invariant |
| `TokenRefreshProofs` | theorems and proofs |
| `MCTokenRefresh` | instances for TLC |

One action is one request: to the vault, the journal, the row or the provider.
`call[c]` holds the locals of `getAccountUsage` and `refreshAndFetch`; the call
at `pc` = `load` is past its claim. A credential is named by the connection it
descends from and the number of renewals since, so `Successor(t)` is the
replacement the provider issues for `t`, and the journal record is named by the
token it expects. `live[e]` is the generation the provider accepts for
connection `e`. The two backends differ where the code differs: Redis looks at
the row again after the claim (`Claim`), drops the lock key when it runs out
(`LeaseExpires`) and deletes the row on a reset (`Reset`); Convex goes on with
the row it read before the claim.

Failures are named in `Faults`: `response` (the provider took the token and its
answer is lost), `provider`, `throttle`, `usage` (the reading fails), `storage`
(vault reads and writes, a write possibly arriving all the same), `journal`,
`coordination` (requests to the row, with or without their effect) and `crash`.

`Connect` writes a credential of the next connection into the vault, a step
later `ResetRow` resets the row or fails to. `Remove` does the same for a
removal. Details left out: usage payloads and profiles (a row is fresh or not),
error texts, the provider's scopes, a provider that returns no new refresh
token, the delays between attempts of `persistAccountTokens` (any number of
attempts is allowed), the encryption and layout of the stored records.

### The account vault

| Module | Purpose |
|---|---|
| `SharedList` | what the vault promises: a list to which each mutation adds its change in one step, which may be lost and found, and which the user may give up |
| `VaultStore` | one user's vault: main, backup and key proof, the calls on it, failures and older versions |
| `VaultStoreProps` | properties, the refinement mapping and the inductive invariant |
| `VaultStoreProofs` | theorems and proofs |
| `MCVaultStore` | instances for TLC |

A call `c` is a `loadAccounts`, a `mutateAccounts` with one change of its own, or
a `recoverUnreadableLocalVault`; `call[c]` holds the locals of
`readParsedAccounts` and its callers, `pc` the next file operation or request.
The list of accounts is the set of changes it has been through, so a lost update
or an older generation is a smaller set. A copy is such a set and the key it is
encrypted with, `None`, or unreadable (`Garbled`, or the `Empty` string, which
the recovery treats differently). Whether a call can read a copy depends on the
key ring of its process: `RingOf` is `decryptionCandidates`, `AllowedOf` what
`assertCredentialKeyAllowed` lets through, `OwnOf` the key of a new vault.

`backend` is `file` (mutations and recoveries under the lock, loads without it
unless they restore) or `remote` (compare-and-set). Convex and Redis do the same
in one transaction or one script and are one backend; older versions exist for
Convex alone. `LegacyWrite` is the four-argument compare-and-set, `RolloutWrite`
the one that writes the backup and the global proof; both stop at the tenant's
proof. `Damage` makes a copy unreadable, `Faults` names requests that fail
(`storage`), requests that arrive without an answer (`answer`), and `crash`.

Taken from other parts: `holder` is the lock as `GenerationLock` promises it,
free at once after a crash (a later take-over adds only waiting); and
`serializeForUser` is modelled as one mutation or recovery of a process at a
time, in any order. The compare of `compareAndSetRaw` and the first of its two
writes are one step for files: no other call writes while the lock is held. Left
out: the look at the key before the recovery takes its lock, which only ends a
call earlier; file identity, links and permissions; the names of archives.

`known` is a history variable: the changes some call of this version was told
of, because it saved or read them. A recovery that archives the vault clears it:
the user has given the vault up.

The mapping to `SharedList` takes for the list what the next load goes by: main, or
the backup if main cannot be read; it is lost when neither can, unless both are
missing. So a change of a local writer happens with its write of main, or already
with that of the backup if main is missing, or when main becomes unreadable between
the two; the change of a writer that died there may happen later, when a restore
brings it back, or never.

### Usage within one process

`LocalUsage`, `LocalUsageProps` (which TLC runs) and `LocalUsageProofs`.

`cache`, `inflight` and `clearedInflight` are the coordinator's own maps. A
refresh goes from `queued` (for the file lock, as `GenerationLock` promises it)
over `read` (past its read of the vault) to `settled`; a caller joins it, waits,
and returns after it in any order. `epoch[k]` names the connection whose
credential the vault holds; a reconnect raises it in one step and clears the
cache entry in a later one (`unclear`). `older` is the order in which entries
were used, `idle` those unused for `idleTtlMs`; pruning follows both.

### Notifications

| Module | Purpose |
|---|---|
| `NotifyCron`, `NotifyCronProps` | runs of the cron route for one tenant: the lease, reading, detection, delivery, the commit of the rows |
| `LocalNotify`, `LocalNotifyProps` | the tabs of one browser and the records they share |
| `PushDevice`, `PushDeviceProps` | one browser's push subscription and the server's rows for it |
| `Notifications`, `MCNotifications`, `NotificationsProofs` | the three side by side, its instance, theorems and proofs |

A run of the cron keeps `prior` (the rows it loaded), `next` (the snapshot it
builds), the `events` and those that were `told`. `NextRow` is `diffLimit`,
`Eligible` and `Commit` are `completeNotificationCycle`: a limit whose event was
not told keeps its old row. The lease runs out in `Expire`; a run renews it
between accounts and checks it before it stores. An account has one limit and a
percentage is one of three levels; more limits multiply rows that no step
relates to each other. In `LocalNotify` a transaction reads the document, shows
one alert, and writes the document it *read* with one record changed. In
`PushDevice` each call of the browser's push API and each request is a step.

The three share no state; a behaviour of `Notifications` is one of a part.

### Single-use attempts and sessions

| Module | Purpose |
|---|---|
| `DeviceLogin`, `DeviceLoginProps` | the server's attempts, status requests that poll and consume them, the browser's session |
| `OAuthAttempts`, `OAuthAttemptsProps` | attempts, their launch, callback pages and the exchange |
| `Pairing`, `PairingProps` | rows of codes, helpers on other machines, the dialog and its status requests |
| `Access`, `AccessProps` | the limiter of the password gate; challenges and tickets of launchers |
| `Sessions`, `MCSessions`, `SessionsProofs` | the four side by side, its instance, theorems and proofs |

A request is split where it awaits: in `DeviceLogin` a status request is at
`poll`, `exchange`, `save`, `complete` or `answer`, in `OAuthAttempts` a page at
`exchange`, `save`, `finish`, in `Pairing` a helper at `verify`, `claim`, `save`,
`finish` or `refuse`, in `Access` a sign-in between the limiter's check and its
count. What a Convex mutation or a synchronous method of a store does is one
step. Deadlines are actions (`ComesDue`, `ExpireAttempt`, `Lapse`, `Elapses`),
or a flag (`late`, `due`, `stale`) where a later call looks at them. A save that
fails may have been stored. The dialog keeps what it says of a code (`pair`, the
code's `pairState`), the start of a code and a direct connection under way
(`starting`, `working`) apart, as the code does; it is busy (`Busy`, its
`requestBusy`) when any of them says so. `asks` names the request of its present
generation; the head of an answer is compared with it, the body may come after
that comparison (`Body`), in a dialog that has gone on to another code or to a
direct connection. Restarts lose what is kept in memory.

### The dashboard and connecting

| Module | Purpose |
|---|---|
| `Dashboard` | edits, the saves that replay them, reads of the vault, refreshes that edit metadata, changes made elsewhere |
| `CardOrder` | the order of the cards: refreshes that overlap, holds by focus and pointer |
| `Connections`, `ConnectionsProps` | connect requests, from the posted credential to the saved account |
| `DashboardProps`, `DashboardProofs` | properties and inductive invariants of the two; theorems and proofs |
| `ConnectionsProofs` | theorems and proofs of `Connections` |
| `Board`, `MCBoard` | the three side by side, and its instance |

An edit sets a field of an account; `failed` and `queue` are the edits that wait
and `save` the request under way. The revision the server compares is the
vault's value, which includes a count of the changes made elsewhere (they are
taken to stay). The tab gives a request up after 20 s (`vault-client.ts:4-15`),
the server does not: `adrift` holds the writes that were given up, and `LatePut`
is the server coming to one of them, whatever has been saved in between.
`overtaken` remembers the edits over which such a write put an older one. A read
of the vault is asked for, answered with the vault of that moment (`got`) and
applied later, unless something outdated it. In `CardOrder`, an order (an array
of ids in the code) is the set of pairs of which the first is at or before the
second, and `ranking` stands for the readings and the sort mode. In `Connections`, a credential belongs to a login
(`LoginOf`), may be renewable and may be allowed to read its profile; a
profile-less token gets an id of its own digest. A save reads the vault (`seen`),
computes the next one and writes it if the vault is still what it has seen.

## 3. What the runs check

| Run | Instance | Shows |
|---|---|---|
| `LockHosts` | 4 calls in 4 processes, one of them on another host, with crashes and no other trouble (`FourUntroubled` keeps the fourth out of the rest); 3 calls with every kind of trouble but `stall`, `readOwner`, `readIntent` and `releaseRename`, and with all kinds | never two operations at once (`MutualExclusion`), the running one owns the lock on disk (`HolderOwnsLock`), no live lock reaped (`ReapedIsDead`), a reaper and an acquirer never both past their scans (`Fence`), the abstract lock implemented (`ImplementsGenerations`), each under the trouble it survives |
| `LockUnreadable` | 3 calls, reads of `owner.json` that fail | `OnlyDeadReaped` is violated: a finding |
| `LockLiveness` | 3 calls, crashes, no other trouble | each live call enters (`EveryCallEnters`) |
| `RefreshOneLogin` | 2 pollers, both backends, one connection, 2 renewals, every fault, revocation | `OneRenewer`, `SpendsCurrent`, `ReauthProven`, types |
| `RefreshReconnect` | 2 pollers, 2 connections with 2 renewals each, removal, leases that run out under their holder, crashes, failed journal and vault writes | `GrantKept`, `VaultMovesOn`, `JournalKept`, `HolderHasWork` |
| `RefreshMissedReset` | a reconnect whose reset fails | `MissedResetHeals` is violated: a finding |
| `VaultCopies` | 2 writers, a reader and a recovery in 3 processes with different key rings, one older write; both backends, 2 damaged copies, every fault | mutations are atomic (`ImplementsList`); `SeenKept`, `ReadsRecent`, `OneKey` |
| `VaultArchive` | a recovery of a vault whose backup is empty | `ArchiveLeavesNothing` is violated: a finding |
| `LocalUsage` | 2 accounts, 2 callers, room for 1 entry, 2 connections | `ClearLeavesNoTrace`, `OldVerdictOnlyJoined`, `LastGoodSurvives`, `CacheBounded`, `CallsAnswered` |
| `Notifications` | 2 cron runs of 1 account with 4 readings; 2 tabs, 2 accounts, 18 readings, rules on or off; 2 panels, 3 endpoints | `AlertBeforeAdvance`, `NeverBehind`, `ToldOnce`, `ShownBeforeAdvance`, `DroppedRowsGo` |
| `Sessions` | 2 device codes and 2 status requests; 2 OAuth attempts and 2 pages; 2 pairing codes, 2 helpers and 1 status request; each store with room for 1; 3 clients, 2 sign-ins, 2 entries; 2 launchers | `AttemptsCompleteOnce`, `ConnectedIsSaved`, `LimiterHolds`, `TicketOpensOnce`, `BusyEnds` |
| `Board` | 1 card, 2 edits, 2 reads, 1 write given up, 1 change made elsewhere; 2 cards and 2 refreshes; 3 credentials of 2 logins and 2 connect requests next to any edit of the user | `EditsKept`, `PendingShown`, `OrderHeld`, `OrderCatchesUp`, `OwnIdentity`, `ConnectTouchesOne`, `ToldTruly` |

**Bounds.** Four lock calls cover an owner, a successor, and two reapers that
race each other; every exception the properties make shows with three (an owner,
a reaper and an acquirer: section 5), so with three calls all kinds of trouble are
on. Several calls of one process, and trouble with four, are left to the proofs.
Two writers suffice for a lost update, a third call for a load between their
steps; one of them shares its process with the recovery. Two damages are needed for both copies to be unreadable.
`ReadAttempts` and `WriteAttempts` are 2 for the code's 3 and 12: one retry that
succeeds and one that gives up. Two pollers suffice for every race of a lease
holder with one that lost it; a crashed poller starts again, so three
generations of holders occur in one behaviour. `MaxGen` = 2 renewals are needed
for a record of the next link to meet the one before it (`MayReplace`),
`MaxEpoch` = 2 for a reconnect. `ReauthAfter` is the code's 3.

A cache with room for one of two accounts prunes on every second read. A caller
asks again after its answer, so two callers meet a third generation of a
refresh. The three or more levels and stamps of the readings reach every branch
of the detectors: a first reading, a higher level, a reset of a used and of an
unused window, a stale stamp and none. One account per cron run is enough for
its rows, which no step compares across accounts. Stores with room for one
attempt evict whenever a second one is started (the code keeps eight);
`MaxTries`, `MaxMisses`, `MaxFailures` and `MaxReplays` are 2 for the code's
larger numbers: one more and none more. Two edits of one card are an edit behind
a save that runs; both fields and a removal of the same card compete. They also
reach the case `EditsKept` excepts: a rename given up, renamed back, replayed, and
the first request carried out last. Where a theorem of section 4 states the same
property, no bound is left.

Deadlock is checked in `RefreshOneLogin`, `LocalUsage` and `Notifications`, whose
parts can always go on. The other runs end by design: a call of the lock returns,
an account is removed, a writer of the vault has made its change, every code,
page, edit or connect request of the instance is used up.

**Fairness.** The lock: a live process keeps executing its call (weak fairness
of each call's steps) and time passes. A reaper that polls sleeps a random time
(lines 317 and 331) and an acquirer's intent lives for a few file-system calls,
so a reaper does not for ever look only while one is there: strong fairness of
its look at a moment without intents. A crash is never fair. The renewal: a
dashboard or cron keeps polling, the row ages, a lease nobody renews runs out,
and a handler that wrote the vault goes on to its reset. The local coordinator:
a refresh ends, since its wait for the lock and its requests have deadlines, and
a settled promise resumes its callers. Web Push: alerts keep being sent, and one
prunes the rows the push service no longer knows (`PushFairness`). The dialog:
its timer fires, a request is answered or fails (it has a time-out), and time
passes for a row (`PairFairness`); nothing is assumed of a helper, which may
die. `BusyEnds` excepts dialogs that have lost the poll of a code they show as
`processing` (`Abandoned`) and claims that only a status body that arrives late
(`LateBody`) brings that about; see section 5.

## 4. What is proved

All theorems hold for every value of the constants and any interleaving, not
only for the instances above, under the assumptions named here. The pattern is
the same everywhere: the property is not inductive, a named invariant
strengthens it, the initial states and every action keep it (a lemma per action
or group of actions), and it implies the property.

`LocalFileLockProofs` assumes nothing but the types of the constants: any calls,
processes and hosts and any kinds of trouble. What a property does not survive
it says itself, and each exception is needed (section 5).

* `Inductive`: `IInv` is an invariant;
* `Typing`: the types, whatever goes wrong;
* `Fencing`: a reaper and an acquirer are both past their scans only if one of
  them has lost its intent, which takes a stall or a failing `readIntent`;
* `ReapedDead`: no live lock is renamed away, unless there is a stall or a read of
  an intent or an owner fails (`OwnersSeen`); a release that falls back to the
  direct removal does not break it;
* `Exclusion`, `HolderIsOwner`, `Refinement` (`LocalFileLock` implements
  `GenerationLock`): with the rename of a release excepted as well (`Steady`).

The argument: mutual exclusion alone is not inductive, because whether a rename
is harmless depends on what the reaper and every acquirer have seen of each
other before. `IInv` therefore says, besides types (`TypeOK`) and where a dead
call is (`ControlInv`):

* `IntentInv`, while `IntentsStay`: a call that acts on the directory has its own
  intent there, of the right kind, from before its scan until after its last step;
* `FenceInv`: an acquirer and a reaper cannot both have *missed* the other.
  Each publishes its intent first and reads the directory afterwards, so of two
  calls the one that reads later finds the other's intent;
* `ReapInv`, while `OwnersSeen`: whoever is about to rename a complete lock away
  has a dead owner of its own host before it;
* `LockInv`, while `Steady`: whoever holds the lock is named in `owner.json`, and
  whoever writes `owner.json` or discards the directory made it.

The proof has a lemma per part, with one step per action under it. The owner a
reaper judged dead cannot have been replaced meanwhile because a replacement
needs an acquirer past its scan, which the fence excludes.

`TokenRefreshProofs` assumes nothing but the types of the constants
(`RefreshAssumption`): any pollers, either backend, every fault, leases that run
out under their holder, any number of renewals, reconnects and removals.

* `Inductive`: `IInv` of `TokenRefreshProps` is an invariant;
* `Typing`, `GrantIsKept`, `VaultMoves`, `JournalIsKept`: what the order journal,
  vault, clear and the compare-and-sets of the three promise, *without any help
  of the lease*;
* `HoldersWork`: the second look of the Redis path makes the claim safe: no reading,
  cooldown or verdict that stands is fetched over;
* `OneAtATime` and `SpendsOnce`: one renewer at a time, and no spent token sent
  again, under `Undisturbed` (no lease runs out under its holder, no reconnect,
  no removal). Without it the double renewal of section 5 is a counterexample;
* `ReauthIsProven`: a stored `reauth` means that the grant is dead, under
  `Undisturbed` and `Honest` (no access token is refused while its grant lives, or
  no failure leaves a recovery record for a later call to adopt; and nobody
  throttles the renewals of a login that is not managed). Without `Honest` the
  adopted record of section 5 is a counterexample.

The argument: `GrantKept` is not inductive, because a call or a record could
hold a credential that is ahead of the vault and overwrite it. `ChainInv` says
that none is: what a call or the journal holds has been reached by the vault
(`Reached`), a replacement somebody wants to write has been issued by the
provider (`Spent`), and a record that may be cleared is past (`Past`).
`JournaledInv` says that a call that counts on its record finds it there until
the vault has moved on, which a crash of that call needs. One lemma per action
shows that it keeps `IInv`; the steps that change nothing but one call share
`Frame`. The lease theorems use `LeaseStep`, what a step may do to the row. For
`SpendsCurrent`, `SoleInv` says what only a call that works alone can count on:
what it has read is what is still there, and once it has looked at the journal no
record replaces the vault's credential. For `ReauthProven`, `VerdictInv` follows a verdict from
the provider's answer to the row (`Doomed`: the connection is revoked, or the
replacement of what the vault holds is with nobody) and `TidyInv` says that, without
the failures `Honest` names, no record outlives the call that wrote it.

`VaultStoreProofs` assumes only `VaultAssumption` (types, and that a process may
read what it may write): any calls, processes, key rings, older versions,
failures and damages.

* `Inductive`: `IInv` of `VaultStoreProps` is an invariant;
* `Typing`, `SeenIsKept`, `ReadsAreRecent`, `OneKeyOnly`: the safety properties the
  run checks;
* `Implements`: `VaultStore` implements `SharedList`.

The argument: that copies hold what is `known` is not inductive, since a call
holds a list it read earlier and may write or restore it. `CopyInv` adds that
the backup is not behind main, so a restore never takes anything away, and that
remote rows have no backup before there is a proof, the tenant's or the older
global one. `CallInv` says of each call
what it counts on: with the local lock, that main is still what it read, or has
become unreadable (`Steady`), and that nothing known is missing from what it
will write (`Locked`); without it, that what it read is neither older than what
was known at its start nor newer than the copies (`Recent`). Steps that change
only the locals of one call share `LocalStep` and `QuietStep`, writes of the
remote rows `RowsKeep`, writes under the local lock `FileKeeps`.

The refinement needs a second invariant on top, `ListInv`: the backup is at most one
change ahead of main, so that a restore, or a main that becomes unreadable, adds one
change at most; and no backup turns up where a writer has seen no vault (`Seen`), or
its write would hide a list it has not read. Each write is then one of four
moves of the list (`Grows`, `Loses`, `Finds`, `SameList`); what a call reads under
way is not newer than the list (`GotList`).

`LocalUsageProofs` (any accounts, callers, room and connections). `IInv` adds to
the properties where what they speak of comes from: `EntryInv` and `FlightInv`
say that entries and refreshes no clear has overtaken are of the connection of
the last clear or a later one, `WaitInv` that whoever waits does so for a refresh
that will tell it nothing older unless a clear has overtaken it: those who join it
then are told the old verdict too (section 5). Results: `NoTraceAfterClear`,
`OldVerdicts`, `LastGood`. `CacheStaysBounded` (for finitely many accounts) rests on `BoundInv`:
the order of use is a strict order of all entries, so the ones the pruning
drops, those with too many newer ones, leave as many as fit.

`NotificationsProofs` (any accounts, runs, readings, levels, toggles, tabs).

* `NoAlertLost` and `RowsGoForward` assume `~Pauses`: no process sleeps for a
  whole lease between its last check of the lease and its commit. A commit does
  not look at the lease, so without that a run may store rows over newer ones
  (section 5). `CronInv` says why the commit need not look: a run past its last
  check owns a lease nobody takes over, and an owner's rows were computed from
  those that are stored, since nobody else has committed meanwhile.
* `EventsToldOnce` (what a saved record has passed is not told again; what could not
  be saved is) and `ShownFirst` assume nothing. `LocalInv`: the tab that holds
  the lock will write the saved document but for the one record it is about, and
  that record moves past an event only if it was shown.
* `PartsOfNotifications`: the composition implements both parts.

`SessionsProofs` (any attempts, requests, pages, codes, helpers, clients and
launchers; `SignIns` finite).

* `CodeUsedOnce`, `ConnectionReported`: `DeviceInv` says that a request which
  exchanges or saves holds its attempt, unless that has expired, and that no two
  requests consume the same one. An expired attempt never becomes pending again,
  so a second request cannot come to consume it; and the session hears only of
  the attempt it asks for, because the request it waits for carries its id.
* `ClaimsKept`: a page that completes an attempt finds it `processing`, which
  neither expiry nor eviction touches.
* `CodeSettled`: `ServerInv` says that the row of a helper that works is
  `processing`, `failed` or `gone`, none of which can be claimed again, so one
  helper at most works for a code; `DialogInv` that what a status answer on its
  way says of a code is stable: `failed` rows stay so until they are swept, and a
  saved account stays saved.
* `LimiterBounds`: a client is let in only with room for one more failure, and
  each counted failure is one request in progress less. `OneSession`: tickets.
* `PartsOfSessions`, `CompletedOnce`: the composition implements its four parts,
  and `AttemptsCompleteOnce` holds of it.

`ConnectionsProofs` (any requests, logins and credentials). `Rightful`: a request
on its way to the write goes by the id its credential proves, has seen a vault
that meets `OwnIdentity`, and was opened for no account or for the one it saves.
Since a write succeeds only if the vault is still what was seen, nothing has to
be assumed of the user's edits. Results: `Identity`, `TouchesOne`, `Truly` (of a
token without a profile only that whoever finds its account is told so), and
`PartOfBoard` for the composition.

`DashboardProofs` (any cards, fields, edits, reads, refreshes and readings, and any
changes made elsewhere).

* `EditsStayKept` and `PendingStaysShown`: the edits that wait stand in the order
  they were made, a running or failed save before the queue (`LineInv`), so what
  the vault took is never newer than what still waits (`WroteInv`), and a replay
  never sets an older edit over a newer one; neither does a write that was given
  up as long as the newer one waits, only after that (`overtaken`). `ReadInv`: a
  read the focus began is outdated by any edit, and there is one read at most whose answer is wanted.
* `OrderSettles` and `HeldCards`: an order that was refused while readings were
  awaited is offered again by whatever ends the last wait, because every card that
  is marked or awaited has a request of a refresh that runs (`OrderInv`). Orders
  are relations rather than sequences for the sake of these proofs.
* `PartsOfBoard`: the composition implements both.

Model-checked only: the liveness properties (`EveryCallEnters`, `CallsAnswered`,
`DroppedRowsGo`, `BusyEnds`), since fairness and `ENABLED` are out of the prover's
reach. Every other property of a passing run is a theorem.

## 5. Findings and observations

Three findings have a run that ends in a counterexample:

* `LockUnreadable`: a reaper that cannot read `owner.json` (`readOwnerRecord` takes
  every error for no owner, `local-file-lock.ts:99-101`) renames away the lock of a
  live process that has held it longer than the grace (222-226), against lines 4-5.
* `RefreshMissedReset`: the heal that is to cover a missed reset is not on the
  read path.
* `VaultArchive`: `recoverUnreadableLocalVault` moves a backup only if its
  content is not the empty string (`vault.ts:981`). With an empty backup file the
  archive of main leaves no vault and an unreadable backup: every later load
  fails, and the recovery refuses because there is no vault to archive.

The following were met while modelling and have no run of their own; where an
instance is named, it shows the behaviour.

*The lock.*
* A live process suspended longer than `orphanGraceMs` between the create and
  the write of its intent loses it as an orphan, and a reaper's rename may then
  take its live lock; the comment at `local-file-lock.ts:303-307` says that rename
  can only see `ENOENT`. (`Calls` of 3, `OneHost`, `ErrorSets` = {{"stall"}}:
  `OnlyDeadReaped`.) A read of an intent that fails does the same (175-183): the
  complete intent of a live process older than the grace is unlinked
  (`ErrorSets` = {{"readIntent"}}).
* The direct removal a release falls back to (`local-file-lock.ts:242-243`, "a
  final token check makes direct removal safe here") leaves a directory without
  owner between its two steps; a reaper there lets two operations run. (`ErrorSets`
  = {{"releaseRename"}}, `MutualExclusion` without its premise.)
* A reaper whose unlink fails (line 322) leaves a live intent, and a release that
  cannot read its own token (234) a live lock: both keep the others out until that
  process ends.

*Renewal.*
* A lease holder that a reconnect overtakes answers the 401 of the old access
  token by renewing the *new* credential, whose lease it does not hold
  (`usage-service.ts:425` against lines 6-8). (`Pollers` of 2, `MaxEpoch` 2,
  `MaxGen` 1, no faults, `MayRevoke` TRUE, the other `May...` FALSE:
  `SpendsCurrent`.)
* A journal record adopted after a crash turns a refused access token into
  `reauth` without a renewal being tried (`usage-service.ts:414` against
  135-137). (`Pollers` of 1, `MaxEpoch` 1, `MaxGen` 1, `Faults` = {"crash"},
  `MayExpire` and `MayReject` TRUE, the others FALSE: `ReauthProven`.)
* The Convex path does not look at the row its claim returned (line 534; the
  Redis path does, lines 630-636), so an account can be read twice within the TTL
  and a `reauth` verdict fetched over: `HolderHasWork` is stated of Redis only.
* The local coordinator's cache is one per process: a `reauth` verdict cached in
  another process is not cleared by a reconnect.
* A caller of the local coordinator that asks after the clear while the old refresh
  is still in flight joins it (`local-usage-coordinator.ts:186-187`) and is told the
  verdict on the old credential once, although `usage-service.ts:713-714` clears "so
  the next poll refetches immediately". `OldVerdictOnlyJoined` claims the rest: no
  other caller is.

*The vault.* Whatever fails in `ensureRemoteGenerationGuarded`, a failed request
included, counts as an unreadable main (`vault.ts:1538-1541`), so a readable main
may be replaced by its backup; `CopyInv` is why that is harmless: the backup is
never behind.

*Connecting.*
* `saveDedicatedAccountWithoutProfile` sets `alreadyConnected` and never takes it
  back when the save is computed again (`connect-account.ts:229-290`), so of a
  profile-less token the answer may call an account known that was made anew;
  `ToldTruly` claims that direction only for the other credentials.
* A reconnect with a profile brings an account back that was removed meanwhile;
  one without a profile is refused.
* Connecting a local or a pasted credential of a login that is managed turns it
  into a rotating one.

*Notifications.*
* With `Pauses` TRUE (a run that sleeps for a whole lease between line 128 of the
  cron route and its save; `Accounts` of 1, `Runs` of 2) `NeverBehind` is violated,
  against the comment at lines 104-105 of that route.
* `RetryKeepsId` is violated with two accounts (`Runs` of 1, `Pauses` FALSE): the
  batch, and with it the idempotency key, of an event changes when another event
  joins its retry; `notify.ts:105` calls it stable across retries.
* `OnMeansAlerts` is violated: `readHostedPushStatus` asks the browser alone, so a
  panel may say that this browser gets alerts (`NotificationsPanel.tsx:550`) of a
  browser the server has no row for.
* A tab with an older list of accounts prunes the records of an account another
  tab has added (`local-notify-coordinator.ts:184-186`), and a queued reading of an
  older window processed late tells a boundary of the new one. A document that
  cannot be read, or of a later version, counts as empty and is overwritten.
* `README.md:98` of the repository speaks of a scheduler every five minutes,
  `convex/crons.ts` has one every minute.

*Attempts and sessions.*
* A status answer whose head came in time and whose body comes after the dialog
  has left its pairing may set `processing` in a dialog that no longer polls
  (`AddAccountModal.tsx:563`), which then stays busy for good (1128); when a direct
  connection runs at that moment, also after that has ended. A stale `failed`
  stops a newer code's poll. `BusyEnds` excepts these dialogs, and says that
  nothing else leads there.
* When the last answer before a pairing's success was `processing`, `pairState`
  stays so: if the reload of the accounts then fails, the dialog cannot be closed
  (1558) until a retry succeeds.
* The device login's client takes 429 and 502 for the end of the login while the
  server keeps the attempt pending. If `complete` fails after the save, the user is
  told that the account could not be saved. A cancellation in the browser does not
  stop the server. An OAuth attempt that is `processing` never expires.
* The limiter's shared entry has no bound like that of a client's own: requests
  let in against an own entry that is swept before they fail are counted in the
  shared one (3 clients, 3 sign-ins, `MaxFailures` and `MaxEntries` 2). The model
  lets windows end in any order, the code in the order in which they began; what
  is claimed holds either way.

*The dashboard.*
* An account removed while its refresh runs and connected again may have two
  refreshes under way (`Dashboard.tsx:516-517` says otherwise).
* A `reauth` answer to a request made before a reconnect, arriving after the
  reload, shows the card as disconnected until the next reading.
* A PUT the tab gave up after 20 s goes on at the server (`route.ts:225-233`). When
  the account is renamed back, the first rename replayed and both are saved, the
  vault is back at the revision that PUT was sent with: carried out now, it
  undoes the last edit, although nothing waits and the banner is silent.
  (`EditsKept` without its last disjunct, in `Board`.)
* A reload the user asked for may show a list older than a pending edit until the
  next read (the exception in `PendingShown`), and a failed edit that is replayed
  later wins over a newer edit made on another device.

## 6. What is not modelled

* `Providers` (HTTP and vendor formats), `Session and authentication` (signed
  cookies), encryption, rendering and styles: no state other steps could interleave
  with. The services behind the providers are external actors of the models.
* The Windows installation and the audit scripts: sequential programs over files,
  processes and access-control lists, about a quarter of the repository's code.
* The connect command beyond its part in `Pairing`: how it finds the credential.
* Usage payloads and what a card draws of them; the intervals of timers; the
  windows of the rate limits of pairing, OAuth and device starts, which only refuse
  a request early.
* The form of the alert rules in `NotificationsPanel`: one whole-configuration
  write at a time with the form locked meanwhile. (A write that times out may still
  arrive after a later one.)
* The migration of an old browser vault into the server's, which runs once.
* Parsing and validation of stored accounts, listing of tenants.
* In `PushDevice`: a failing `getSubscription` before the server is told
  (`notify-client.ts:223`), and a subscription that the browser makes after the
  panel stopped waiting for it (191-197). In `Pairing`: the timer of a success that
  was reported to a dialog closed and opened again within its 1.1 s.

The models of the vault (`VaultStore`), of the usage row (`TokenRefresh`) and of the
lock (`LocalFileLock`) are used by the others through what they promise: an atomic
register, a row with transactions, a lock of generations. That they keep these
promises is what their own runs and theorems are about; a single model of all of
them is beyond TLC, and would add no interleaving that the promises do not allow.
