-------------------------- MODULE TokenRefreshProps --------------------------
(* What is checked of TokenRefresh.                                          *)
EXTENDS TokenRefresh

PCs == {"idle", "get", "claim", "release", "load", "journal", "decide", "renew",
        "forceRenew", "spend", "save", "persist", "verify", "clear", "fetch"} \cup Verdicts

SomeToken == Tokens \cup {NoToken}

CallRecords ==
    [pc : PCs, tokens : SomeToken, base : SomeToken, resume : {"none", "decide", "fetch"},
     journaled : BOOLEAN, rotated : {"no", "adopted", "renewed"}, prior : 0..ReauthAfter]

RowRecords ==
    [status : Verdicts \cup {"loading"}, fresh : BOOLEAN, cooling : BOOLEAN,
     throttles : 0..ReauthAfter, owner : Pollers \cup {Nobody, Ended}, leased : BOOLEAN]

\* A call that works on the account has a credential of it, and one that renews
\* it knows which and where it goes on.
HasCredential(l) ==
    /\ l.pc \in {"get", "claim", "load", "journal", "decide", "renew", "forceRenew",
                 "clear", "fetch"} => l.tokens \in Tokens
    /\ l.pc \in {"spend", "save", "persist", "verify", "clear"} =>
           l.base \in Tokens /\ l.resume # "none"

\* Every variable has its type.
TypeOK ==
    /\ backend \in Backends /\ accessOnly \subseteq AccessOnly
    /\ call \in [Pollers -> CallRecords]
    /\ row \in RowRecords
    /\ vault \in SomeToken /\ journal \in SomeToken
    /\ live \in [Epochs -> 0..MaxGen]
    /\ revoked \subseteq Epochs /\ lost \subseteq Epochs
    /\ due \subseteq Tokens
    /\ resetDue \in BOOLEAN
    /\ connects \in Epochs
    /\ \A c \in Pollers : HasCredential(call[c])

\* c has chosen the generation to renew and the vault does not hold the
\* replacement yet.
Renewing(c) == call[c].pc \in {"spend", "save", "persist", "verify"}

\* Only one caller ever renews an account's token at a time
\* (usage-service.ts:6-8, usage-cache-core.ts:12-13).
OneRenewer ==
    \A c, d \in Pollers : Renewing(c) /\ Renewing(d) => c = d

\* No renewal spends a generation that was spent before, unless its replacement
\* was lost with an answer that never arrived or a process that died before the
\* journal had it.
SpendsCurrent ==
    \A c \in Pollers :
        At(c, "spend") =>
            LET b == call[c].base
            IN  b.gen = live[b.epoch] \/ b.epoch \in lost

\* "reauth" sends the user to a new login, so it is only ever said of a grant
\* the provider no longer accepts.
ReauthProven ==
    row.status = "reauth" /\ vault \in Tokens /\ Renewable(vault) /\ ~resetDue =>
        ~Accepted(vault)

\* The lease holder in Redis has something to do: no reading was published
\* within CACHE_TTL_MS and no cooldown or reauth verdict stands, whatever the
\* row said when the caller first read it.
Working(c) == Claimed(c) /\ ~At(c, "release")

NothingToCoalesce ==
    \A c \in Pollers : Working(c) /\ row.owner = c => ~row.fresh /\ ~row.cooling /\ row.status # "reauth"

HolderHasWork == backend = "redis" => NothingToCoalesce

\* A reconnect or another renewal is never undone: the credential in the vault
\* is only replaced by its own renewal, by a later connection, or removed.
VaultMovesOn ==
    [][ \/ vault' = vault
        \/ vault' = Successor(vault)
        \/ vault' = NoToken
        \/ vault'.epoch > vault.epoch /\ vault'.epoch = connects' ]_vars

\* The recovery record is the only durable copy of a replacement until the vault
\* has it.  It is given up only when the vault has moved past the generation it
\* replaces, or for the next link of its own chain.
JournalKept ==
    [][ journal' # journal /\ journal # NoToken =>
            \/ vault # journal
            \/ journal' = Successor(journal) ]_vars

\* c has received the replacement t and is still writing it.
Holding(c, t) ==
    call[c].pc \in {"save", "persist", "verify"} /\ Successor(call[c].base) = t

\* The generation the provider accepts of the connection in the vault.
Grant == [epoch |-> vault.epoch, gen |-> live[vault.epoch]]

\* Somebody can still find the generation the provider accepts: it is in the
\* vault or in the journal, or a running call has it, unless it was lost.
GrantKept ==
    vault \in Tokens /\ Renewable(vault) =>
        \/ vault = Grant
        \/ journal # NoToken /\ Successor(journal) = Grant
        \/ \E c \in Pollers : Holding(c, Grant)
        \/ vault.epoch \in lost

-----------------------------------------------------------------------------
(* The inductive invariant behind VaultMovesOn, JournalKept and GrantKept.   *)
(* It holds whatever leases are lost, stolen by a reset or never taken.      *)

\* The vault has come as far as t, or further, on the chain t belongs to.
Reached(t) ==
    t.epoch <= connects /\ (t.epoch = connects /\ vault # NoToken => t.gen <= vault.gen)

Past(t) ==
    t.epoch <= connects /\ (t.epoch = connects /\ vault # NoToken => t.gen < vault.gen)

\* The provider has issued the replacement of t.
Spent(t) == t.gen < live[t.epoch]

\* What a call has read is behind the vault; what it wants to put there has been
\* issued, and is there once its record may be cleared.
Behind(l) ==
    /\ Reached(l.tokens) /\ Reached(l.base)
    /\ l.pc \in {"save", "persist", "verify"} => Spent(l.base)
    /\ l.pc = "clear" => Past(l.base)

\* The vault is the last connection's, not ahead of the provider, and nothing
\* waits to be written to it that could take it back.
ChainInv ==
    /\ vault # NoToken => vault.epoch = connects /\ vault.gen <= live[connects]
    /\ \A e \in Epochs : e > connects => live[e] = 0
    /\ journal # NoToken => Reached(journal) /\ Spent(journal)
    /\ \A c \in Pollers : Behind(call[c])

\* A call that counts on its journal record finds it there until the vault has
\* moved on.
Recorded(l) == l.journaled /\ vault \in Tokens /\ l.base = vault => journal = vault

JournaledInv == \A c \in Pollers : Recorded(call[c])

IInv == TypeOK /\ ChainInv /\ JournaledInv /\ GrantKept

-----------------------------------------------------------------------------
(* What OneRenewer, SpendsCurrent and ReauthProven rest on: while nothing    *)
(* takes a lease away, the account is as the one call that works has seen it. *)

\* Nothing takes a lease from a running call: it neither runs out under it nor is
\* reset by a reconnect or a removal.
Undisturbed == ~MayLoseLease /\ ~MayRemove /\ MaxEpoch = 1

\* Every working call has the lease.
LeaseInv ==
    /\ ~resetDue /\ (row.owner \in Pollers => row.leased)
    /\ \A c \in Pollers : Working(c) => row.owner = c

\* What the call that works has read is what is there.  Once it has looked at the
\* journal, no record is pending of the credential in the vault, and none newer
\* than the one it works on while it writes.
Sole(l) ==
    /\ l.pc \in {"journal", "decide", "renew", "forceRenew", "fetch", "clear"} => l.tokens = vault
    /\ l.pc = "spend" => l.base = vault /\ Renewable(vault)
    /\ l.pc \in {"save", "persist", "verify", "clear"} => journal.gen <= l.base.gen
    /\ l.pc \in {"decide", "renew", "forceRenew", "fetch", "spend"} /\ Renewable(vault) =>
           journal # vault

SoleInv == vault \in Tokens /\ \A c \in Pollers : Sole(call[c])

\* The provider will never accept what the vault holds or may still become:
\* the connection is revoked, or its last replacement is with nobody.
Doomed ==
    \/ vault.epoch \in revoked
    \/ /\ vault # Grant /\ journal # vault
       /\ \A c \in Pollers : call[c].pc \in {"save", "persist", "verify"} => call[c].base # vault

\* Whatever leaves a recovery record behind for a later call to adopt.
Orphaning == {"crash", "journal", "storage"}

\* An access token is refused only when its grant is dead or no call adopts a
\* credential it has not been issued, and throttled renewals are no refusal.
Honest ==
    /\ ~MayReject \/ Faults \cap Orphaning = {}
    /\ Managed \/ "throttle" \notin Faults

\* A verdict that is published, or about to be, is final.
VerdictInv ==
    /\ Renewable(vault) /\ (row.status = "reauth" \/ \E c \in Pollers : At(c, "reauth")) => Doomed
    /\ \A c \in Pollers : At(c, "throttled") => "throttle" \in Faults

Recording(l) == l.pc \in {"persist", "verify", "clear"}

\* Without such a failure the record is there while its own call writes, and no
\* other call ever adopts it.
TidyInv ==
    Faults \cap Orphaning = {} =>
        /\ \A c \in Pollers :
              /\ call[c].rotated # "adopted"
              /\ call[c].pc \in {"save", "persist", "verify"} => call[c].rotated = "renewed"
              /\ Recording(call[c]) => call[c].journaled /\ journal = call[c].base
        /\ journal # NoToken => \E c \in Pollers : Recording(call[c])

LoneInv == IInv /\ LeaseInv /\ SoleInv /\ VerdictInv /\ TidyInv

-----------------------------------------------------------------------------

\* Pollers keep polling, the row ages, a lease nobody renews runs out and a
\* handler that wrote the vault goes on to its reset.
FairSpec ==
    /\ Spec
    /\ \A c \in Pollers : WF_vars(Step(c))
    /\ WF_vars(RowAges) /\ WF_vars(LeaseExpires) /\ WF_vars(ResetRow)

\* A reset that did not get through after a reconnect does not leave the account
\* asking for another one: "best-effort: the read-path heal
\* (decideCacheActionWithTokens) covers a missed clear" (usage-service.ts:715).
MissedResetHeals ==
    row.status = "reauth" /\ vault \in Tokens /\ Accepted(vault) /\ vault \notin due
        ~> \/ row.status # "reauth"
           \/ vault \notin Tokens \/ ~Accepted(vault) \/ vault \in due
=============================================================================
