---------------------------- MODULE TokenRefreshProofs ----------------------------
(* Proofs about TokenRefresh for any pollers, backends, faults and bounds. *)
EXTENDS TokenRefreshProps, TLAPS

\* The bounds are numbers and no record stands for a token.
LEMMA Facts ==
    /\ MaxEpoch \in Nat \ {0} /\ MaxGen \in Nat
    /\ NoToken \notin Tokens /\ NoToken.epoch = 0 /\ NoToken.gen = 0
    /\ Idle \in CallRecords /\ NoRow \in RowRecords
    /\ Nobody \notin Pollers /\ Ended \notin Pollers
BY RefreshAssumption DEF NoToken, Tokens, Epochs, Idle, CallRecords, NoRow, RowRecords,
   SomeToken, PCs, Verdicts, ReauthAfter

\* A token is its epoch and its generation.
LEMMA TokenFields ==
    /\ \A t \in SomeToken : t.epoch \in 0..MaxEpoch /\ t.gen \in 0..MaxGen
    /\ \A t \in Tokens : t.epoch \in Epochs
    /\ \A t, u \in Tokens : t.epoch = u.epoch /\ t.gen = u.gen => t = u
    /\ \A e \in Epochs, g \in 0..MaxGen : [epoch |-> e, gen |-> g] \in Tokens
<1>1. \A t \in SomeToken : t.epoch \in 0..MaxEpoch /\ t.gen \in 0..MaxGen
  BY Facts DEF SomeToken, NoToken, Tokens, Epochs
<1>2. \A t, u \in Tokens : t.epoch = u.epoch /\ t.gen = u.gen => t = u
  BY DEF Tokens
<1>3. QED
  BY <1>1, <1>2 DEF Tokens

\* The replacement of a token is the next generation of its epoch.
LEMMA SuccessorFields ==
    ASSUME NEW t \in Tokens
    PROVE  /\ Successor(t).epoch = t.epoch /\ Successor(t).gen = t.gen + 1
           /\ t.gen < MaxGen => Successor(t) \in Tokens
           /\ Successor(t) # t
BY Facts DEF Tokens, Epochs, Successor

\* A step that moves one call, changes no shared state and gives up no
\* replacement keeps the invariant if the call is sound afterwards.
LEMMA Frame ==
    ASSUME IInv, NEW c \in Pollers, UNCHANGED shared, row' \in RowRecords,
           call' \in [Pollers -> CallRecords],
           \A d \in Pollers \ {c} : call'[d] = call[d],
           HasCredential(call[c])', Behind(call[c])', Recorded(call[c])',
           Holding(c, Grant) => Holding(c, Grant)' \/ vault = Grant
    PROVE  IInv'
<1>1. UNCHANGED <<backend, accessOnly, vault, journal, live, revoked, due, resetDue, lost, connects>>
  BY DEF shared, fixed
<1>2. TypeOK'
  <2>1. \A d \in Pollers : HasCredential(call[d])'
    BY DEF IInv, TypeOK, HasCredential
  <2>2. QED
    BY <1>1, <2>1 DEF IInv, TypeOK
<1>3. ChainInv'
  <2>1. \A d \in Pollers : Behind(call[d])'
    BY <1>1 DEF IInv, ChainInv, Behind, Reached, Spent, Past
  <2>2. QED
    BY <1>1, <2>1 DEF IInv, ChainInv, Reached, Spent
<1>4. JournaledInv'
  BY <1>1 DEF IInv, JournaledInv, Recorded
<1>5. GrantKept'
  BY <1>1 DEF IInv, GrantKept, Holding, Grant, Renewable
<1>6. QED
  BY <1>2, <1>3, <1>4, <1>5 DEF IInv

\* What the invariant says of one call.
LEMMA OfCall ==
    ASSUME IInv, NEW c \in Pollers
    PROVE  /\ call[c] \in CallRecords /\ HasCredential(call[c])
           /\ Behind(call[c]) /\ Recorded(call[c])
           /\ row \in RowRecords /\ vault \in SomeToken /\ journal \in SomeToken
           /\ vault # NoToken => vault \in Tokens /\ Reached(vault)
           /\ Reached(NoToken)
<1>1. vault # NoToken => Reached(vault)
  BY TokenFields DEF IInv, TypeOK, ChainInv, Reached, SomeToken
<1>2. Reached(NoToken)
  BY Facts DEF IInv, TypeOK, Reached, Epochs
<1>3. QED
  BY <1>1, <1>2 DEF IInv, TypeOK, ChainInv, JournaledInv, SomeToken

\* It may set one call to any sound record, but for a replacement it was writing.
LEMMA SetKeeps ==
    ASSUME IInv, NEW c \in Pollers, UNCHANGED shared, row' \in RowRecords,
           NEW l \in CallRecords, call' = [call EXCEPT ![c] = l],
           HasCredential(l), Behind(l), Recorded(l),
           Holding(c, Grant) => vault = Grant
    PROVE  IInv'
<1>1. call' \in [Pollers -> CallRecords] /\ call'[c] = l
      /\ \A d \in Pollers \ {c} : call'[d] = call[d]
  BY DEF IInv, TypeOK
<1>2. Behind(call[c])'
  BY <1>1 DEF Behind, shared, fixed, Reached, Past, Spent
<1>3. HasCredential(call[c])' /\ Recorded(call[c])'
  BY <1>1 DEF HasCredential, Recorded, shared, fixed
<1>4. QED
  BY <1>1, <1>2, <1>3, Frame

\* The call ends.
LEMMA IdleKeeps ==
    ASSUME IInv, NEW c \in Pollers, UNCHANGED shared, row' \in RowRecords,
           call' = [call EXCEPT ![c] = Idle],
           call[c].pc \notin {"save", "persist", "verify"}
    PROVE  IInv'
<1>1. HasCredential(Idle) /\ Recorded(Idle) /\ Behind(Idle)
  BY OfCall DEF HasCredential, Recorded, Behind, Idle
<1>2. QED
  BY <1>1, Facts, SetKeeps DEF Holding

\* The call is on its way out.
LEMMA ConcludeKeeps ==
    ASSUME IInv, NEW c \in Pollers, UNCHANGED shared, row' \in RowRecords,
           NEW label \in Verdicts \cup {"release"}, Conclude(c, label),
           call[c].pc \notin {"save", "persist", "verify"}
    PROVE  IInv'
<1>1. PICK l \in CallRecords :
         /\ call' = [call EXCEPT ![c] = l]
         /\ l.pc = label /\ l.tokens = NoToken /\ l.base = NoToken /\ l.journaled = FALSE
  <2>1. [Idle EXCEPT !.pc = label, !.prior = call[c].prior] \in CallRecords
    BY Facts, OfCall DEF CallRecords, Idle, PCs
  <2>2. QED
    BY <2>1 DEF Conclude, Idle
<1>2. HasCredential(l) /\ Recorded(l) /\ Behind(l)
  BY <1>1, OfCall DEF HasCredential, Recorded, Behind, Verdicts
<1>3. QED
  BY <1>1, <1>2, SetKeeps DEF Holding

\* The call goes on with the credential it has, or with the one in the vault.
LEMMA GoesOn ==
    ASSUME IInv, NEW c \in Pollers, UNCHANGED shared, row' \in RowRecords,
           NEW label \in {"get", "claim", "load", "journal", "decide", "renew", "forceRenew",
                          "fetch"},
           NEW l \in CallRecords, call' = [call EXCEPT ![c] = l],
           l.pc = label, l.tokens \in {call[c].tokens, vault}, l.tokens \in Tokens,
           l.base \in {call[c].base, NoToken},
           l.journaled => call[c].journaled /\ l.base = call[c].base,
           call[c].pc \notin {"save", "persist", "verify"}
    PROVE  IInv'
<1>1. Reached(l.tokens)
  BY OfCall DEF Behind
<1>2. HasCredential(l) /\ Recorded(l) /\ Behind(l)
  BY <1>1, OfCall DEF HasCredential, Recorded, Behind
<1>3. QED
  BY <1>2, SetKeeps DEF Holding

\* The call goes on as it is.
LEMMA GotoKeeps ==
    ASSUME IInv, NEW c \in Pollers, UNCHANGED shared, row' \in RowRecords,
           NEW label \in {"claim", "load", "journal", "decide", "renew", "forceRenew", "fetch"},
           Goto(c, label), call[c].tokens \in Tokens,
           call[c].pc \notin {"save", "persist", "verify"}
    PROVE  IInv'
<1>1. PICK l \in CallRecords :
         /\ call' = [call EXCEPT ![c] = l]
         /\ l.pc = label /\ l.tokens = call[c].tokens /\ l.base = call[c].base
         /\ l.journaled = call[c].journaled
  <2>1. [call[c] EXCEPT !.pc = label] \in CallRecords
    BY OfCall DEF CallRecords, PCs
  <2>2. QED
    BY <2>1, OfCall DEF Goto, CallRecords, IInv, TypeOK
<1>2. QED
  BY <1>1, GoesOn

\* A renewal may begin with a token the vault has reached, a recovery with one
\* whose replacement was issued.
LEMMA ReplacingKeeps ==
    ASSUME IInv, NEW c \in Pollers, UNCHANGED shared, row' \in RowRecords,
           NEW label \in {"spend", "persist"}, NEW base \in Tokens,
           NEW resume \in {"decide", "fetch"}, NEW journaled \in BOOLEAN,
           call' = [call EXCEPT ![c] = Replacing(@, label, base, resume, journaled)],
           Reached(base), label = "persist" => Spent(base), journaled => journal = base,
           call[c].pc \notin {"save", "persist", "verify"}
    PROVE  IInv'
<1>1. PICK l \in CallRecords :
         /\ call' = [call EXCEPT ![c] = l]
         /\ l.pc = label /\ l.tokens = NoToken /\ l.base = base /\ l.resume = resume
         /\ l.journaled = journaled
  <2>1. Replacing(call[c], label, base, resume, journaled) \in CallRecords
    BY OfCall DEF CallRecords, PCs, Replacing, SomeToken
  <2>2. QED
    BY <2>1, OfCall DEF Replacing, CallRecords, IInv, TypeOK
<1>2. HasCredential(l) /\ Recorded(l) /\ Behind(l)
  BY <1>1, OfCall DEF HasCredential, Recorded, Behind
<1>3. QED
  BY <1>1, <1>2, SetKeeps DEF Holding

\* The steps up to the claim.
LEMMA StartKeeps == ASSUME IInv, NEW c \in Pollers, Start(c) PROVE IInv'
<1>1. PICK l \in CallRecords :
         /\ call' = [call EXCEPT ![c] = l]
         /\ l.pc = "get" /\ l.tokens = vault /\ l.base = NoToken /\ l.journaled = FALSE
  <2>1. [Idle EXCEPT !.pc = "get", !.tokens = vault] \in CallRecords
    BY Facts, OfCall DEF CallRecords, Idle, PCs
  <2>2. QED
    BY <2>1 DEF Start, Idle
<1>2. vault \in Tokens /\ row' \in RowRecords /\ UNCHANGED shared
      /\ call[c].pc \notin {"save", "persist", "verify"}
  BY OfCall DEF Start, At
<1>3. QED
  BY <1>1, <1>2, GoesOn

\* The row is read and served, or the lease is asked for.
LEMMA GetKeeps == ASSUME IInv, NEW c \in Pollers, Get(c) PROVE IInv'
<1>1. row' \in RowRecords /\ UNCHANGED shared /\ call[c].tokens \in Tokens
      /\ call[c].pc \notin {"save", "persist", "verify"}
  BY OfCall DEF Get, At, HasCredential
<1>2. CASE NeedsFetch(row)
  <2>1. PICK l \in CallRecords :
           /\ call' = [call EXCEPT ![c] = l]
           /\ l.pc = "claim" /\ l.tokens = call[c].tokens /\ l.base = call[c].base
           /\ l.journaled = call[c].journaled
    <3>1. [call[c] EXCEPT !.pc = "claim", !.prior = row.throttles] \in CallRecords
      BY OfCall DEF CallRecords, RowRecords, PCs
    <3>2. call' = [call EXCEPT ![c] = [call[c] EXCEPT !.pc = "claim", !.prior = row.throttles]]
      BY <1>2 DEF Get, IInv, TypeOK
    <3>3. QED
      BY <3>1, <3>2, OfCall DEF CallRecords
  <2>2. QED
    BY <1>1, <2>1, GoesOn
<1>3. CASE ~NeedsFetch(row)
  BY <1>1, <1>3, IdleKeeps DEF Get
<1>4. QED
  BY <1>2, <1>3

\* Rows that the lease operations make of a row.
LEMMA LeaseRows ==
    ASSUME IInv, NEW c \in Pollers
    PROVE  /\ Abandoned(c, row) \in RowRecords /\ Released(row) \in RowRecords
           /\ [row EXCEPT !.owner = c, !.leased = TRUE] \in RowRecords
           /\ Abandoned(c, [row EXCEPT !.owner = c, !.leased = TRUE]) \in RowRecords
           /\ Abandoned(c, Released(row)) \in RowRecords
BY OfCall DEF Abandoned, Released, RowRecords

\* The claim is refused or granted, and Redis looks at the row again.
LEMMA ClaimKeeps == ASSUME IInv, NEW c \in Pollers, Claim(c) PROVE IInv'
<1>1. UNCHANGED shared /\ call[c].tokens \in Tokens
      /\ call[c].pc \notin {"save", "persist", "verify"}
  BY OfCall DEF Claim, At, HasCredential
<1>2. CASE row.leased
  BY <1>1, <1>2, LeaseRows, IdleKeeps DEF Claim, End
<1>3. CASE ~row.leased
  <2>1. row' \in RowRecords
    BY <1>3, LeaseRows DEF Claim
  <2>2. CASE Goto(c, "load")
    BY <1>1, <2>1, <2>2, GotoKeeps
  <2>3. CASE Conclude(c, "release")
    BY <1>1, <2>1, <2>3, ConcludeKeeps
  <2>4. CASE call' = [call EXCEPT ![c].pc = "load", ![c].prior = row.throttles]
    <3>1. PICK l \in CallRecords :
             /\ call' = [call EXCEPT ![c] = l]
             /\ l.pc = "load" /\ l.tokens = call[c].tokens /\ l.base = call[c].base
             /\ l.journaled = call[c].journaled
      <4>1. [call[c] EXCEPT !.pc = "load", !.prior = row.throttles] \in CallRecords
        BY OfCall DEF CallRecords, RowRecords, PCs
      <4>2. call' = [call EXCEPT ![c] = [call[c] EXCEPT !.pc = "load", !.prior = row.throttles]]
        BY <2>4 DEF IInv, TypeOK
      <4>3. QED
        BY <4>1, <4>2, OfCall DEF CallRecords
    <3>2. QED
      BY <1>1, <2>1, <3>1, GoesOn
  <2>5. QED
    BY <1>3, <2>2, <2>3, <2>4 DEF Claim
<1>4. QED
  BY <1>2, <1>3

\* The call is over with a failed request or with its release.
LEMMA CoordinationFailsKeeps == ASSUME IInv, NEW c \in Pollers, CoordinationFails(c) PROVE IInv'
<1>1. UNCHANGED shared /\ call[c].pc \notin {"save", "persist", "verify"}
  BY DEF CoordinationFails, At
<1>2. row' \in RowRecords /\ call' = [call EXCEPT ![c] = Idle]
  BY LeaseRows DEF CoordinationFails, End
<1>3. QED
  BY <1>1, <1>2, IdleKeeps

\* The call gives its own lease back.
LEMMA ReleaseKeeps == ASSUME IInv, NEW c \in Pollers, Release(c) PROVE IInv'
<1>1. UNCHANGED shared /\ call[c].pc \notin {"save", "persist", "verify"}
  BY DEF Release, At
<1>2. row' \in RowRecords /\ call' = [call EXCEPT ![c] = Idle]
  BY LeaseRows DEF Release, End
<1>3. QED
  BY <1>1, <1>2, IdleKeeps

\* The credential of the vault, or the caller's while there is none.
LEMMA Credential ==
    ASSUME IInv, NEW c \in Pollers, call[c].tokens \in Tokens
    PROVE  LET t == IF vault = NoToken THEN call[c].tokens ELSE vault
           IN  t \in Tokens /\ t \in {call[c].tokens, vault} /\ Reached(t)
BY OfCall DEF Behind

\* The call reads the vault again under its lease.
LEMMA LoadKeeps == ASSUME IInv, NEW c \in Pollers, Load(c) PROVE IInv'
<1> DEFINE t == IF vault = NoToken THEN call[c].tokens ELSE vault
           label == IF Renewable(t) THEN "journal" ELSE "decide"
<1>1. row' \in RowRecords /\ UNCHANGED shared /\ call[c].tokens \in Tokens
      /\ call[c].pc \notin {"save", "persist", "verify"}
  BY OfCall DEF Load, At, HasCredential
<1>2. t \in Tokens /\ t \in {call[c].tokens, vault}
  BY <1>1, Credential
<1>3. PICK l \in CallRecords :
         /\ call' = [call EXCEPT ![c] = l]
         /\ l.pc = label /\ l.tokens = t /\ l.base = call[c].base
         /\ l.journaled = call[c].journaled
  <2>1. [call[c] EXCEPT !.tokens = t, !.pc = label] \in CallRecords
    BY <1>2, OfCall DEF CallRecords, SomeToken, PCs
  <2>2. call' = [call EXCEPT ![c] = [call[c] EXCEPT !.tokens = t, !.pc = label]]
    BY DEF Load, IInv, TypeOK
  <2> HIDE DEF t, label
  <2>3. QED
    BY <2>1, <2>2, OfCall DEF CallRecords
<1>4. label \in {"journal", "decide"}
  OBVIOUS
<1> HIDE DEF t, label
<1>5. QED
  BY <1>1, <1>2, <1>3, <1>4, GoesOn

\* A record somebody left is what the call works on first.
LEMMA LoadJournalKeeps == ASSUME IInv, NEW c \in Pollers, LoadJournal(c) PROVE IInv'
<1>1. row' \in RowRecords /\ UNCHANGED shared /\ call[c].tokens \in Tokens
      /\ call[c].pc \notin {"save", "persist", "verify"}
  BY OfCall DEF LoadJournal, At, HasCredential
<1>2. CASE journal = NoToken
  BY <1>1, <1>2, GotoKeeps DEF LoadJournal
<1>3. CASE journal # NoToken
  <2>1. journal \in Tokens /\ Reached(journal) /\ Spent(journal)
    BY <1>3, OfCall DEF IInv, ChainInv, SomeToken
  <2>2. call' = [call EXCEPT ![c] = Replacing(@, "persist", journal, "decide", TRUE)]
    BY <1>3 DEF LoadJournal
  <2>3. QED
    BY <1>1, <2>1, <2>2, ReplacingKeeps
<1>4. QED
  BY <1>2, <1>3

\* A failed read ends the call before it renews anything.
LEMMA ReadFailsKeeps == ASSUME IInv, NEW c \in Pollers, ReadFails(c) PROVE IInv'
<1>1. row' \in RowRecords /\ UNCHANGED shared
      /\ call[c].pc \notin {"save", "persist", "verify"}
  BY OfCall DEF ReadFails
<1>2. QED
  BY <1>1, ConcludeKeeps DEF ReadFails

\* The call renews first or reads the usage at once.
LEMMA DecideKeeps == ASSUME IInv, NEW c \in Pollers, Decide(c) PROVE IInv'
<1>1. row' \in RowRecords /\ UNCHANGED shared /\ call[c].tokens \in Tokens
      /\ call[c].pc \notin {"save", "persist", "verify"}
  BY OfCall DEF Decide, At, HasCredential
<1>2. Goto(c, "renew") \/ Goto(c, "fetch")
  BY DEF Decide
<1>3. QED
  BY <1>1, <1>2, GotoKeeps

\* The renewal begins with what the vault holds now, or proves unnecessary or
\* impossible.
LEMMA RenewKeeps == ASSUME IInv, NEW c \in Pollers, Renew(c) PROVE IInv'
<1> DEFINE b == IF vault = NoToken THEN call[c].tokens ELSE vault
<1>1. row' \in RowRecords /\ UNCHANGED shared /\ call[c].tokens \in Tokens
      /\ call[c].pc \notin {"save", "persist", "verify"}
  BY OfCall DEF Renew, HasCredential
<1>2. b \in Tokens /\ b \in {call[c].tokens, vault} /\ Reached(b)
  BY <1>1, Credential
<1>3. \/ call' = [call EXCEPT ![c] = [call[c] EXCEPT !.pc = "fetch", !.tokens = b]]
      \/ call' = [call EXCEPT ![c] = [Idle EXCEPT !.pc = "reauth", !.prior = call[c].prior]]
      \/ call' = [call EXCEPT ![c] = Replacing(call[c], "spend", b, "fetch", FALSE)]
  BY DEF Renew, IInv, TypeOK
<1> HIDE DEF b
<1>4. CASE call' = [call EXCEPT ![c] = [call[c] EXCEPT !.pc = "fetch", !.tokens = b]]
  <2>1. PICK l \in CallRecords :
           /\ call' = [call EXCEPT ![c] = l]
           /\ l.pc = "fetch" /\ l.tokens = b /\ l.base = call[c].base
           /\ l.journaled = call[c].journaled
    <3>1. [call[c] EXCEPT !.pc = "fetch", !.tokens = b] \in CallRecords
      BY <1>2, OfCall DEF CallRecords, SomeToken, PCs
    <3>2. QED
      BY <1>4, <3>1, OfCall DEF CallRecords
  <2>2. QED
    BY <1>1, <1>2, <2>1, GoesOn
<1>5. CASE call' = [call EXCEPT ![c] = [Idle EXCEPT !.pc = "reauth", !.prior = call[c].prior]]
  BY <1>1, <1>5, ConcludeKeeps DEF Conclude, Verdicts
<1>6. CASE call' = [call EXCEPT ![c] = Replacing(call[c], "spend", b, "fetch", FALSE)]
  <2>1. call' = [call EXCEPT ![c] = Replacing(@, "spend", b, "fetch", FALSE)]
    BY <1>6 DEF IInv, TypeOK
  <2>2. QED
    BY <1>1, <1>2, <2>1, ReplacingKeeps
<1>7. QED
  BY <1>3, <1>4, <1>5, <1>6

\* A refused renewal leaves the provider and the vault as they were.
LEMMA SpendFailsKeeps == ASSUME IInv, NEW c \in Pollers, SpendFails(c) PROVE IInv'
<1>1. row' \in RowRecords /\ UNCHANGED shared
      /\ call[c].pc \notin {"save", "persist", "verify"}
  BY OfCall DEF SpendFails, At
<1>2. Conclude(c, "reauth") \/ Conclude(c, "throttled") \/ Conclude(c, "release")
  BY DEF SpendFails
<1>3. QED
  BY <1>1, <1>2, ConcludeKeeps DEF Verdicts

\* The reading succeeds, fails, or asks for a renewal.
LEMMA FetchKeeps == ASSUME IInv, NEW c \in Pollers, Fetch(c) PROVE IInv'
<1>1. row' \in RowRecords /\ UNCHANGED shared /\ call[c].tokens \in Tokens
      /\ call[c].pc \notin {"save", "persist", "verify"}
  BY OfCall DEF Fetch, At, HasCredential
<1>2. \/ Goto(c, "forceRenew")
      \/ Conclude(c, "ready") \/ Conclude(c, "reauth") \/ Conclude(c, "limited")
      \/ Conclude(c, "release")
  BY DEF Fetch
<1>3. QED
  BY <1>1, <1>2, ConcludeKeeps, GotoKeeps DEF Verdicts

\* The verdict is published with the lease or refused without it.
LEMMA CommitKeeps == ASSUME IInv, NEW c \in Pollers, Commit(c) PROVE IInv'
<1>1. UNCHANGED shared /\ call[c].pc \notin {"save", "persist", "verify"}
  BY DEF Commit, Verdicts
<1>2. row' \in RowRecords
  <2> DEFINE n == IF call[c].prior + 1 < ReauthAfter THEN call[c].prior + 1 ELSE ReauthAfter
             verdict == IF At(c, "throttled") /\ ~Managed /\ n = ReauthAfter
                        THEN "reauth" ELSE call[c].pc
  <2>1. Published(c) \in RowRecords
    <3>1. n \in 0..ReauthAfter
      BY OfCall DEF CallRecords, ReauthAfter
    <3>2. verdict \in Verdicts
      BY DEF Commit, Verdicts
    <3>3. Published(c) = [row EXCEPT !.status = verdict,
                    !.fresh = @ \/ verdict = "ready",
                    !.cooling = verdict # "ready",
                    !.throttles = IF verdict = "throttled" THEN n ELSE 0,
                    !.owner = Nobody, !.leased = FALSE]
      BY DEF Published
    <3> HIDE DEF n, verdict
    <3> DEFINE fresh == row.fresh \/ verdict = "ready"
               cooling == verdict # "ready"
               throttles == IF verdict = "throttled" THEN n ELSE 0
    <3>4. /\ fresh \in BOOLEAN /\ cooling \in BOOLEAN /\ throttles \in 0..ReauthAfter
          /\ Published(c) = [row EXCEPT !.status = verdict, !.fresh = fresh,
                !.cooling = cooling, !.throttles = throttles, !.owner = Nobody, !.leased = FALSE]
      <4>1. fresh \in BOOLEAN /\ cooling \in BOOLEAN
        OBVIOUS
      <4>2. throttles \in 0..ReauthAfter
        BY <3>1 DEF ReauthAfter
      <4>3. QED
        BY <3>3, <4>1, <4>2
    <3> HIDE DEF fresh, cooling, throttles
    <3>5. QED
      BY <3>2, <3>4, OfCall DEF RowRecords
  <2>2. QED
    BY <2>1, OfCall DEF Commit
<1>3. call' = [call EXCEPT ![c] = Idle] \/ Conclude(c, "release")
  BY DEF Commit
<1>4. QED
  BY <1>1, <1>2, <1>3, IdleKeeps, ConcludeKeeps

\* A call gives up the replacement it has received only when the vault has it.
LEMMA VerifyKeeps == ASSUME IInv, NEW c \in Pollers, Verify(c) PROVE IInv'
<1>1. row' \in RowRecords /\ UNCHANGED shared /\ At(c, "verify")
  BY OfCall DEF Verify
<1>2. CASE Goto(c, "persist")
  <2>1. PICK l \in CallRecords :
           /\ call' = [call EXCEPT ![c] = l]
           /\ l.pc = "persist" /\ l.tokens = call[c].tokens /\ l.base = call[c].base
           /\ l.resume = call[c].resume /\ l.journaled = call[c].journaled
    <3>1. [call[c] EXCEPT !.pc = "persist"] \in CallRecords
      BY OfCall DEF CallRecords, PCs
    <3>2. QED
      BY <1>2, <3>1, OfCall DEF Goto, CallRecords, IInv, TypeOK
  <2>2. HasCredential(l) /\ Recorded(l) /\ Behind(l)
    BY <1>1, <2>1, OfCall DEF HasCredential, Recorded, Behind, At
  <2>3. call' \in [Pollers -> CallRecords] /\ call'[c] = l
        /\ \A d \in Pollers \ {c} : call'[d] = call[d]
    BY <2>1 DEF IInv, TypeOK
  <2>4. Behind(call[c])'
    BY <1>1, <2>2, <2>3 DEF Behind, shared, fixed, Reached, Past, Spent
  <2>5. HasCredential(call[c])' /\ Recorded(call[c])'
    BY <1>1, <2>2, <2>3 DEF HasCredential, Recorded, shared, fixed
  <2>6. Holding(c, Grant) => Holding(c, Grant)'
    BY <1>1, <2>1, <2>3 DEF Holding, Grant, shared, fixed
  <2>7. QED
    BY <1>1, <2>3, <2>4, <2>5, <2>6, Frame
<1>3. CASE vault \notin {NoToken, call[c].base} /\ ~Goto(c, "persist")
  <2>1. vault \in Tokens /\ vault.epoch = connects /\ vault.gen <= live[connects]
        /\ call[c].base \in Tokens /\ Reached(call[c].base) /\ call[c].resume \in {"decide", "fetch"}
    BY <1>1, <1>3, OfCall DEF IInv, ChainInv, At, HasCredential, Behind, CallRecords
  <2>2. Past(call[c].base)
    BY <1>3, <2>1, TokenFields DEF Past, Reached, SomeToken
  <2>3. Holding(c, Grant) => vault = Grant
    <3>1. live[vault.epoch] \in 0..MaxGen /\ vault.gen \in 0..MaxGen
      BY <2>1, TokenFields DEF IInv, TypeOK, SomeToken
    <3>2. Grant \in Tokens /\ Grant.epoch = vault.epoch /\ Grant.gen = live[vault.epoch]
      BY <2>1, <3>1, TokenFields DEF Grant
    <3>3. Holding(c, Grant) => /\ call[c].base.epoch = Grant.epoch
                              /\ call[c].base.gen + 1 = Grant.gen
      BY <2>1, SuccessorFields DEF Holding
    <3>4. Holding(c, Grant) => vault.gen = Grant.gen
      BY <1>3, <2>1, <2>2, <3>1, <3>2, <3>3, TokenFields, Facts DEF Past, SomeToken
    <3>5. QED
      BY <2>1, <3>2, <3>4, TokenFields
  <2>4. PICK l \in CallRecords :
           /\ call' = [call EXCEPT ![c] = l]
           /\ l.tokens = vault
           /\ \/ l.pc = "clear" /\ l.base = call[c].base /\ l.resume = call[c].resume
              \/ l.pc = call[c].resume /\ l.base = NoToken /\ l.journaled = FALSE
    <3> DEFINE k == [call[c] EXCEPT !.tokens = vault,
                                   !.rotated = IF @ = "no" THEN "adopted" ELSE @]
    <3>1. /\ k \in CallRecords
          /\ k.tokens = vault /\ k.base = call[c].base /\ k.resume = call[c].resume
      BY OfCall DEF CallRecords
    <3>2. call' = [call EXCEPT ![c] = IF k.journaled THEN [k EXCEPT !.pc = "clear"] ELSE Resumed(k)]
      BY <1>3 DEF Verify
    <3> HIDE DEF k
    <3>3. [k EXCEPT !.pc = "clear"] \in CallRecords
          /\ [k EXCEPT !.pc = "clear"].tokens = vault /\ [k EXCEPT !.pc = "clear"].pc = "clear"
          /\ [k EXCEPT !.pc = "clear"].base = call[c].base
          /\ [k EXCEPT !.pc = "clear"].resume = call[c].resume
      BY <3>1 DEF CallRecords, PCs
    <3>4. Resumed(k) \in CallRecords
          /\ Resumed(k).tokens = vault /\ Resumed(k).pc = call[c].resume
          /\ Resumed(k).base = NoToken /\ Resumed(k).journaled = FALSE
      BY <2>1, <3>1 DEF CallRecords, Resumed, PCs, SomeToken
    <3>5. QED
      BY <3>2, <3>3, <3>4
  <2>5. HasCredential(l) /\ Recorded(l) /\ Behind(l)
    BY <1>3, <2>1, <2>2, <2>4, OfCall DEF HasCredential, Recorded, Behind
  <2>6. QED
    BY <1>1, <2>3, <2>4, <2>5, SetKeeps
<1>4. QED
  BY <1>2, <1>3 DEF Verify

\* A credential that is not the vault's own any more descends to it: if the
\* provider accepts its replacement, the vault holds that replacement.
LEMMA PastGrant ==
    ASSUME IInv, vault \in Tokens, NEW b \in Tokens, Reached(b), b # vault,
           Successor(b) = Grant
    PROVE  vault = Grant
<1>1. vault.epoch = connects /\ vault.gen <= live[connects] /\ vault # NoToken
  BY Facts DEF IInv, ChainInv
<1>2. live[vault.epoch] \in 0..MaxGen /\ vault.gen \in 0..MaxGen /\ b.gen \in 0..MaxGen
  BY TokenFields DEF IInv, TypeOK, SomeToken
<1>3. Grant \in Tokens /\ Grant.epoch = vault.epoch /\ Grant.gen = live[vault.epoch]
  BY <1>2, TokenFields DEF Grant
<1>4. b.epoch = vault.epoch /\ b.gen + 1 = live[vault.epoch]
  BY <1>3, SuccessorFields
<1>5. b.gen < vault.gen
  BY <1>1, <1>2, <1>4, TokenFields DEF Reached
<1>6. vault.gen = live[vault.epoch]
  BY <1>1, <1>2, <1>4, <1>5, Facts
<1>7. QED
  BY <1>3, <1>6, TokenFields

\* Setting one call to a sound record keeps the calls well formed.
LEMMA OneCall ==
    ASSUME IInv, NEW c \in Pollers, NEW l \in CallRecords, call' = [call EXCEPT ![c] = l],
           HasCredential(l)
    PROVE  /\ call' \in [Pollers -> CallRecords] /\ call'[c] = l
           /\ \A d \in Pollers \ {c} : call'[d] = call[d]
           /\ \A d \in Pollers : HasCredential(call[d])'
BY DEF IInv, TypeOK, HasCredential

\* A call that goes on with its renewal keeps the base and the journal record.
LEMMA Renews ==
    ASSUME IInv, NEW c \in Pollers, NEW label \in {"persist", "verify"},
           call[c].pc \in {"save", "persist", "verify"}, Goto(c, label)
    PROVE  \E l \in CallRecords :
              /\ call' = [call EXCEPT ![c] = l] /\ HasCredential(l)
              /\ l.pc = label /\ l.tokens = call[c].tokens /\ l.base = call[c].base
              /\ l.journaled = call[c].journaled
<1>1. [call[c] EXCEPT !.pc = label] \in CallRecords
  BY OfCall DEF CallRecords, PCs
<1>2. call' = [call EXCEPT ![c] = [call[c] EXCEPT !.pc = label]]
  BY DEF Goto, IInv, TypeOK
<1>3. HasCredential([call[c] EXCEPT !.pc = label])
  BY OfCall DEF CallRecords, HasCredential
<1>4. QED
  BY <1>1, <1>2, <1>3, OfCall DEF CallRecords

\* The provider takes a token that is its current one and issues the next, which
\* the call holds or which is lost with the answer.
LEMMA SpendKeeps == ASSUME IInv, NEW c \in Pollers, Spend(c) PROVE IInv'
<1> DEFINE b == call[c].base
<1>1. /\ b \in Tokens /\ b.epoch \in Epochs /\ b.gen \in 0..MaxGen /\ b.epoch <= connects
      /\ live[b.epoch] = b.gen /\ b.gen < MaxGen /\ call[c].pc = "spend"
      /\ live \in [Epochs -> 0..MaxGen]
      /\ live' = [live EXCEPT ![b.epoch] = b.gen + 1]
      /\ UNCHANGED <<backend, accessOnly, row, vault, journal, revoked, due, resetDue, connects>>
  <2>1. b \in Tokens /\ Reached(b) /\ call[c].pc = "spend" /\ Accepted(b) /\ b.gen < MaxGen
    BY OfCall DEF Spend, At, HasCredential, Behind
  <2>2. live \in [Epochs -> 0..MaxGen] /\ live' = [live EXCEPT ![b.epoch] = @ + 1]
        /\ UNCHANGED <<backend, accessOnly, row, vault, journal, revoked, due, resetDue, connects>>
    BY DEF Spend, fixed, IInv, TypeOK
  <2>3. b.epoch \in Epochs /\ b.gen \in 0..MaxGen
    BY <2>1, TokenFields DEF SomeToken
  <2> HIDE DEF b
  <2>4. QED
    BY <2>1, <2>2, <2>3 DEF Accepted, Reached
<1>2. PICK l \in CallRecords :
         /\ call' = [call EXCEPT ![c] = l] /\ HasCredential(l)
         /\ \/ /\ l.pc = "save" /\ l.tokens = call[c].tokens /\ l.base = b
               /\ l.journaled = call[c].journaled /\ lost' = lost
            \/ /\ l.pc = "release" /\ l.tokens = NoToken /\ l.base = NoToken
               /\ l.journaled = FALSE /\ lost' = lost \cup {b.epoch}
  <2>1. CASE call' = [call EXCEPT ![c].pc = "save", ![c].rotated = "renewed"] /\ lost' = lost
    <3>1. [call[c] EXCEPT !.pc = "save", !.rotated = "renewed"] \in CallRecords
      BY OfCall DEF CallRecords, PCs
    <3>2. call' = [call EXCEPT ![c] = [call[c] EXCEPT !.pc = "save", !.rotated = "renewed"]]
      BY <2>1 DEF IInv, TypeOK
    <3>3. HasCredential([call[c] EXCEPT !.pc = "save", !.rotated = "renewed"])
      BY <1>1, OfCall DEF CallRecords, HasCredential
    <3>4. QED
      BY <2>1, <3>1, <3>2, <3>3, OfCall DEF CallRecords
  <2>2. CASE Conclude(c, "release") /\ lost' = lost \cup {b.epoch}
    <3>1. [Idle EXCEPT !.pc = "release", !.prior = call[c].prior] \in CallRecords
      BY Facts, OfCall DEF CallRecords, Idle, PCs
    <3>2. HasCredential([Idle EXCEPT !.pc = "release", !.prior = call[c].prior])
      BY DEF HasCredential, Idle
    <3>3. QED
      BY <2>2, <3>1, <3>2 DEF Conclude, Idle
  <2>3. QED
    BY <2>1, <2>2 DEF Spend
<1> HIDE DEF b
<1>3. /\ call' \in [Pollers -> CallRecords] /\ call'[c] = l
      /\ \A d \in Pollers \ {c} : call'[d] = call[d]
      /\ \A d \in Pollers : HasCredential(call[d])'
  BY <1>2, OneCall
<1>4. TypeOK'
  <2>1. live' \in [Epochs -> 0..MaxGen] /\ lost' \subseteq Epochs
    BY <1>1, <1>2, Facts DEF IInv, TypeOK
  <2>2. QED
    BY <1>1, <1>3, <2>1, OfCall DEF IInv, TypeOK
<1>5. \A t \in Tokens : Spent(t) => Spent(t)'
  <2>1. SUFFICES ASSUME NEW t \in Tokens, Spent(t) PROVE t.gen < live'[t.epoch]
    BY DEF Spent
  <2>2. t.epoch \in Epochs /\ t.gen \in 0..MaxGen
    BY TokenFields DEF SomeToken
  <2>3. QED
    BY <1>1, <2>1, <2>2, Facts DEF Spent
<1>6. ChainInv'
  <2>1. vault # NoToken => vault.epoch = connects /\ vault.gen <= live'[connects]
    BY <1>1, Facts, OfCall, TokenFields DEF IInv, ChainInv, SomeToken
  <2>2. \A e \in Epochs : e > connects => live'[e] = 0
    BY <1>1, Facts DEF IInv, ChainInv, TypeOK, Epochs
  <2>3. journal # NoToken => Reached(journal)' /\ Spent(journal)'
    <3>1. journal # NoToken => journal \in Tokens /\ Reached(journal) /\ Spent(journal)
      BY OfCall DEF IInv, ChainInv, SomeToken
    <3>2. journal # NoToken => Spent(journal)'
      BY <1>1, <1>5, <3>1 DEF Spent
    <3>3. QED
      BY <1>1, <3>1, <3>2 DEF Reached
  <2>4. ASSUME NEW d \in Pollers PROVE Behind(call[d])'
    <3>1. CASE d # c
      <4>1. Behind(call[d]) /\ (call[d].pc \in {"save", "persist", "verify"} => call[d].base \in Tokens)
        BY OfCall DEF HasCredential
      <4>2. call[d].pc \in {"save", "persist", "verify"} => Spent(call[d].base)'
        BY <1>1, <1>3, <1>5, <3>1, <4>1 DEF Spent, Behind
      <4>3. QED
        BY <1>1, <1>3, <3>1, <4>1, <4>2 DEF Behind, Reached, Past, Spent
    <3>2. CASE d = c
      <4>1. Reached(l.tokens) /\ Reached(l.base)
        BY <1>2, OfCall DEF Behind, b
      <4>2. l.pc = "save" => l.base.gen < live'[l.base.epoch]
        BY <1>1, <1>2
      <4>3. QED
        BY <1>1, <1>2, <1>3, <3>2, <4>1, <4>2 DEF Behind, Reached, Past, Spent
    <3>3. QED
      BY <3>1, <3>2
  <2>5. QED
    BY <1>1, <2>1, <2>2, <2>3, <2>4 DEF ChainInv
<1>7. JournaledInv'
  <2>1. Recorded(l)
    BY <1>2, OfCall DEF Recorded, b
  <2>2. \A d \in Pollers : Recorded(call'[d])
    BY <1>3, <2>1, OfCall
  <2>3. QED
    BY <1>1, <2>2 DEF JournaledInv, Recorded
<1>8. GrantKept'
  <2>1. SUFFICES ASSUME vault \in Tokens, Renewable(vault)
                 PROVE \/ vault = Grant'
                       \/ journal # NoToken /\ Successor(journal) = Grant'
                       \/ \E d \in Pollers : Holding(d, Grant)'
                       \/ vault.epoch \in lost'
    BY <1>1 DEF GrantKept, Renewable
  <2>2. CASE vault.epoch = b.epoch
    <3>1. CASE l.pc = "save"
      <4>1. Successor(b) \in Tokens /\ Successor(b).epoch = b.epoch /\ Successor(b).gen = b.gen + 1
        BY <1>1, SuccessorFields
      <4>2. b.gen + 1 \in 0..MaxGen
        BY <1>1, Facts
      <4>3. Grant' = [epoch |-> b.epoch, gen |-> b.gen + 1]
        BY <1>1, <2>2 DEF Grant
      <4>4. Successor(b) = Grant'
        BY <1>1, <4>1, <4>2, <4>3, TokenFields
      <4>5. Holding(c, Grant)'
        BY <1>2, <1>3, <3>1, <4>4 DEF Holding
      <4>6. QED
        BY <4>5
    <3>2. CASE l.pc # "save"
      BY <1>2, <2>2, <3>2
    <3>3. QED
      BY <3>1, <3>2
  <2>3. CASE vault.epoch # b.epoch
    <3>1. Grant' = Grant
      BY <1>1, <2>1, <2>3, TokenFields DEF Grant
    <3>2. \A d \in Pollers : Holding(d, Grant) => Holding(d, Grant)'
      BY <1>1, <1>3, <3>1 DEF Holding
    <3>3. QED
      BY <1>2, <2>1, <3>1, <3>2 DEF IInv, GrantKept
  <2>4. QED
    BY <2>2, <2>3
<1>9. QED
  BY <1>4, <1>6, <1>7, <1>8 DEF IInv

\* The journal takes the record of the call, or keeps what it has and the call
\* goes on without one.
LEMMA SaveKeeps == ASSUME IInv, NEW c \in Pollers, Save(c) PROVE IInv'
<1> DEFINE b == call[c].base
<1>1. /\ b \in Tokens /\ Reached(b) /\ Spent(b) /\ call[c].pc = "save"
      /\ UNCHANGED <<backend, accessOnly, row, vault, live, revoked, due, resetDue, lost, connects>>
      /\ journal' \in {journal, b}
      /\ journal' # journal => MayReplace(journal, b)
  BY OfCall DEF Save, At, HasCredential, Behind, fixed
<1>2. PICK l \in CallRecords :
         /\ call' = [call EXCEPT ![c] = l] /\ HasCredential(l)
         /\ l.pc = "persist" /\ l.tokens = call[c].tokens /\ l.base = b
         /\ l.journaled => call[c].journaled \/ journal' = b
  <2>1. CASE Goto(c, "persist")
    BY <1>1, <2>1, Renews
  <2>2. CASE journal' = b /\ call' = [call EXCEPT ![c].pc = "persist", ![c].journaled = TRUE]
    <3>1. [call[c] EXCEPT !.pc = "persist", !.journaled = TRUE] \in CallRecords
      BY OfCall DEF CallRecords, PCs
    <3>2. call' = [call EXCEPT ![c] = [call[c] EXCEPT !.pc = "persist", !.journaled = TRUE]]
      BY <2>2 DEF IInv, TypeOK
    <3>3. HasCredential([call[c] EXCEPT !.pc = "persist", !.journaled = TRUE])
      BY <1>1, OfCall DEF CallRecords, HasCredential
    <3>4. QED
      BY <2>2, <3>1, <3>2, <3>3, OfCall DEF CallRecords
  <2>3. QED
    BY <2>1, <2>2 DEF Save
<1>3. /\ call' \in [Pollers -> CallRecords] /\ call'[c] = l
      /\ \A d \in Pollers \ {c} : call'[d] = call[d]
      /\ \A d \in Pollers : HasCredential(call[d])'
  BY <1>2, OneCall
<1>4. journal' = journal \/ journal = NoToken \/ journal = b \/ Successor(journal) = b
  BY <1>1 DEF MayReplace
<1>5. \A d \in Pollers : Holding(d, Grant) => Holding(d, Grant)'
  BY <1>1, <1>2, <1>3 DEF Holding, Grant
<1> HIDE DEF b
<1>6. TypeOK'
  BY <1>1, <1>3, OfCall DEF IInv, TypeOK, SomeToken
<1>7. ChainInv'
  <2>1. journal' # NoToken => Reached(journal)' /\ Spent(journal)'
    BY <1>1 DEF IInv, ChainInv, Reached, Spent
  <2>2. Behind(l)
    BY <1>1, <1>2, OfCall DEF Behind
  <2>3. \A d \in Pollers : Behind(call'[d])
    BY <1>3, <2>2, OfCall
  <2>4. QED
    BY <1>1, <2>1, <2>3 DEF IInv, ChainInv, Behind, Reached, Past, Spent
<1>8. vault \in Tokens /\ Successor(journal) = b /\ journal = vault /\ journal # NoToken => FALSE
  <2>1. vault \in Tokens => vault.epoch = connects /\ Successor(vault).epoch = connects
                            /\ Successor(vault).gen = vault.gen + 1
    BY Facts, SuccessorFields DEF IInv, ChainInv
  <2>2. vault \in Tokens => vault.gen \in 0..MaxGen
    BY TokenFields DEF SomeToken
  <2>3. QED
    BY <1>1, <2>1, <2>2, Facts DEF Reached
<1>9. JournaledInv'
  <2>1. SUFFICES ASSUME NEW d \in Pollers, call'[d].journaled, vault \in Tokens,
                        call'[d].base = vault
                 PROVE journal' = vault
    BY <1>1 DEF JournaledInv, Recorded
  <2>2. CASE journal' = b /\ b = vault
    BY <2>2
  <2>3. CASE ~(journal' = b /\ b = vault)
    <3>1. journal = vault
      BY <1>1, <1>2, <1>3, <2>1, <2>3, OfCall DEF Recorded, b
    <3>2. QED
      BY <1>1, <1>4, <1>8, <2>1, <2>3, <3>1, Facts
  <2>4. QED
    BY <2>2, <2>3
<1>10. GrantKept'
  <2>1. SUFFICES ASSUME vault \in Tokens, Renewable(vault)
                 PROVE \/ vault = Grant
                       \/ journal' # NoToken /\ Successor(journal') = Grant
                       \/ \E d \in Pollers : Holding(d, Grant)'
                       \/ vault.epoch \in lost
    BY <1>1 DEF GrantKept, Renewable, Grant
  <2>2. CASE journal # NoToken /\ Successor(journal) = Grant /\ journal' # journal
    <3>1. Successor(journal) = b
      BY <1>1, <1>4, <2>2
    <3>2. b.epoch = vault.epoch /\ b.gen = live[vault.epoch]
      BY <2>2, <3>1 DEF Grant
    <3>3. live[vault.epoch] \in Nat
      BY <2>1, TokenFields, Facts DEF IInv, TypeOK
    <3>4. QED
      BY <1>1, <3>2, <3>3 DEF Spent
  <2>3. CASE ~(journal # NoToken /\ Successor(journal) = Grant /\ journal' # journal)
    BY <1>5, <2>1, <2>3 DEF IInv, GrantKept
  <2>4. QED
    BY <2>2, <2>3
<1>11. QED
  BY <1>6, <1>7, <1>9, <1>10 DEF IInv

\* The vault takes a replacement only for the generation it replaces, so every
\* other call falls further behind it.
LEMMA PersistWriteKeeps == ASSUME IInv, NEW c \in Pollers, PersistWrite(c) PROVE IInv'
<1> DEFINE b == call[c].base
<1>1. /\ b \in Tokens /\ Reached(b) /\ Spent(b) /\ call[c].pc = "persist"
      /\ vault \in Tokens /\ vault.epoch = connects /\ vault.gen <= live[connects]
      /\ UNCHANGED <<backend, accessOnly, row, journal, live, revoked, due, resetDue, lost, connects>>
      /\ vault' = IF vault = b THEN Successor(b) ELSE vault
  BY OfCall DEF PersistWrite, Persisted, At, HasCredential, Behind, fixed, IInv, ChainInv
<1>2. PICK l \in CallRecords :
         /\ call' = [call EXCEPT ![c] = l] /\ HasCredential(l)
         /\ l.pc \in {"persist", "verify"} /\ l.tokens = call[c].tokens /\ l.base = b
         /\ l.journaled = call[c].journaled
  <2>1. CASE Goto(c, "verify")
    BY <1>1, <2>1, Renews
  <2>2. CASE call' = call
    <3>1. call[c] \in CallRecords /\ call' = [call EXCEPT ![c] = call[c]]
      BY <2>2, OfCall DEF IInv, TypeOK
    <3>2. QED
      BY <1>1, <3>1, OfCall
  <2>3. QED
    BY <2>1, <2>2 DEF PersistWrite
<1>3. /\ call' \in [Pollers -> CallRecords] /\ call'[c] = l
      /\ \A d \in Pollers \ {c} : call'[d] = call[d]
      /\ \A d \in Pollers : HasCredential(call[d])'
  BY <1>2, OneCall
<1>4. \A d \in Pollers : Behind(call'[d]) /\ Recorded(call'[d])
  <2>1. Behind(l) /\ Recorded(l)
    BY <1>1, <1>2, OfCall DEF Behind, Recorded
  <2>2. QED
    BY <1>3, <2>1, OfCall
<1>5. \A t : Holding(c, t) => Holding(c, t)'
  BY <1>1, <1>2, <1>3 DEF Holding
<1> HIDE DEF b
<1>6. CASE vault # b
  <2>1. vault' = vault
    BY <1>1, <1>6
  <2>2. TypeOK'
    BY <1>1, <1>3, <2>1, OfCall DEF IInv, TypeOK
  <2>3. ChainInv'
    BY <1>1, <1>4, <2>1 DEF IInv, ChainInv, Behind, Reached, Past, Spent
  <2>4. JournaledInv'
    BY <1>1, <1>4, <2>1 DEF JournaledInv, Recorded
  <2>5. GrantKept'
    <3>1. Grant' = Grant /\ \A d \in Pollers : Holding(d, Grant) => Holding(d, Grant)'
      BY <1>1, <1>3, <1>5, <2>1 DEF Grant, Holding
    <3>2. QED
      BY <1>1, <2>1, <3>1 DEF IInv, GrantKept, Renewable
  <2>6. QED
    BY <2>2, <2>3, <2>4, <2>5 DEF IInv
<1>7. CASE vault = b
  <2>1. /\ vault.gen \in 0..MaxGen /\ connects \in Epochs /\ live[connects] \in 0..MaxGen
        /\ vault.gen < live[connects]
    BY <1>1, <1>7, TokenFields DEF IInv, TypeOK, SomeToken, Spent
  <2>2. /\ vault' = Successor(vault) /\ vault' \in Tokens /\ vault' # vault
        /\ vault'.epoch = connects /\ vault'.gen = vault.gen + 1
    BY <1>1, <1>7, <2>1, SuccessorFields, Facts
  <2>3. TypeOK'
    BY <1>1, <1>3, <2>2, OfCall DEF IInv, TypeOK, SomeToken
  <2>4. ASSUME NEW t \in SomeToken
        PROVE  (Reached(t) => Reached(t)') /\ (Past(t) => Past(t)') /\ (Spent(t) <=> Spent(t)')
    BY <1>1, <2>1, <2>2, TokenFields, Facts DEF Reached, Past, Spent
  <2>5. ChainInv'
    <3>1. journal # NoToken => Reached(journal)' /\ Spent(journal)'
      <4>1. journal \in SomeToken
        BY OfCall
      <4>2. journal # NoToken => Reached(journal) /\ Spent(journal)
        BY DEF IInv, ChainInv
      <4>3. journal # NoToken => journal.epoch <= connects' /\ Spent(journal)'
        BY <1>1, <4>2 DEF Reached, Spent
      <4>4. journal.gen \in 0..MaxGen
        BY <4>1, TokenFields
      <4>5. QED
        BY <1>1, <2>1, <2>2, <4>2, <4>3, <4>4, Facts DEF Reached
    <3>2. ASSUME NEW d \in Pollers PROVE Behind(call[d])'
      <4>1. call'[d].tokens \in SomeToken /\ call'[d].base \in SomeToken
        BY <1>3 DEF CallRecords
      <4>2. Behind(call'[d])
        BY <1>4
      <4>3. call'[d].tokens.gen \in 0..MaxGen /\ call'[d].base.gen \in 0..MaxGen
        BY <4>1, TokenFields
      <4>4. QED
        BY <1>1, <2>1, <2>2, <4>2, <4>3, Facts DEF Behind, Reached, Past, Spent
    <3>3. vault'.gen <= live[connects]
      BY <2>1, <2>2, Facts
    <3>4. QED
      BY <1>1, <2>2, <3>1, <3>2, <3>3 DEF IInv, ChainInv
  <2>6. JournaledInv'
    <3>1. SUFFICES ASSUME NEW d \in Pollers PROVE call'[d].base # vault'
      BY DEF JournaledInv, Recorded
    <3>2. Reached(call'[d].base)
      BY <1>4 DEF Behind
    <3>3. vault # NoToken
      BY <1>1, Facts
    <3>4. QED
      BY <1>1, <2>1, <2>2, <3>2, <3>3, Facts DEF Reached
  <2>7. GrantKept'
    <3>1. Grant' = Grant /\ vault.epoch = vault'.epoch
      BY <1>1, <2>2 DEF Grant
    <3>2. vault # Grant
      <4>1. Grant.gen = live[connects]
        BY <1>1 DEF Grant
      <4>2. QED
        BY <2>1, <4>1, Facts
    <3>3. \A d \in Pollers : Holding(d, Grant) => Holding(d, Grant)'
      BY <1>3, <1>5, <3>1 DEF Holding
    <3>4. QED
      BY <1>1, <3>1, <3>2, <3>3 DEF IInv, GrantKept, Renewable
  <2>8. QED
    BY <2>3, <2>5, <2>6, <2>7 DEF IInv
<1>8. QED
  BY <1>6, <1>7

\* A record is cleared when the vault is past it, so it is nobody's only copy.
LEMMA ClearKeeps == ASSUME IInv, NEW c \in Pollers, Clear(c) PROVE IInv'
<1> DEFINE b == call[c].base
<1>1. /\ b \in Tokens /\ Reached(b) /\ Past(b) /\ call[c].pc = "clear"
      /\ call[c].resume \in {"decide", "fetch"} /\ call[c].tokens \in Tokens
      /\ UNCHANGED <<backend, accessOnly, row, vault, live, revoked, due, resetDue, lost, connects>>
      /\ journal' \in {journal, NoToken} /\ (journal' # journal => journal = b)
  BY OfCall DEF Clear, Cleared, At, HasCredential, Behind, fixed, CallRecords
<1>2. PICK l \in CallRecords :
         /\ call' = [call EXCEPT ![c] = l]
         /\ l.pc = call[c].resume /\ l.tokens = call[c].tokens /\ l.base = NoToken
         /\ l.journaled = FALSE
  <2>1. Resumed(call[c]) \in CallRecords
    BY <1>1, OfCall DEF CallRecords, Resumed, PCs, SomeToken
  <2>2. call' = [call EXCEPT ![c] = Resumed(call[c])]
    BY DEF Clear, IInv, TypeOK
  <2>3. QED
    BY <2>1, <2>2, OfCall DEF Resumed, CallRecords
<1>3. HasCredential(l) /\ Behind(l) /\ Recorded(l)
  BY <1>1, <1>2, OfCall DEF HasCredential, Behind, Recorded
<1>4. /\ call' \in [Pollers -> CallRecords] /\ call'[c] = l
      /\ \A d \in Pollers \ {c} : call'[d] = call[d]
      /\ \A d \in Pollers : HasCredential(call[d])'
  BY <1>2, <1>3, OneCall
<1>5. vault \in Tokens => b # vault
  <2>1. vault \in Tokens => vault.epoch = connects /\ vault # NoToken /\ vault.gen \in 0..MaxGen
    BY Facts, TokenFields DEF IInv, ChainInv, SomeToken
  <2>2. QED
    BY <1>1, <2>1, Facts DEF Past
<1> HIDE DEF b
<1>6. TypeOK'
  BY <1>1, <1>4, OfCall DEF IInv, TypeOK, SomeToken
<1>7. ChainInv'
  <2>1. \A d \in Pollers : Behind(call'[d])
    BY <1>3, <1>4, OfCall
  <2>2. QED
    BY <1>1, <2>1 DEF IInv, ChainInv, Behind, Reached, Past, Spent
<1>8. JournaledInv'
  <2>1. \A d \in Pollers : Recorded(call'[d])
    BY <1>3, <1>4, OfCall
  <2>2. QED
    BY <1>1, <1>5, <2>1 DEF JournaledInv, Recorded
<1>9. GrantKept'
  <2>1. vault \in Tokens /\ Successor(b) = Grant => vault = Grant
    BY <1>1, <1>5, PastGrant
  <2>2. Grant' = Grant /\ \A d \in Pollers : Holding(d, Grant) => Holding(d, Grant)'
    BY <1>1, <1>4 DEF Holding, Grant
  <2>3. QED
    BY <1>1, <2>1, <2>2 DEF IInv, GrantKept, Renewable
<1>10. QED
  BY <1>6, <1>7, <1>8, <1>9 DEF IInv

\* A call that ends keeps no replacement to itself: the journal or the vault has
\* it, or its connection counts as lost.
LEMMA StrandingKeeps ==
    ASSUME IInv, NEW c \in Pollers, NEW l \in CallRecords, call' = [call EXCEPT ![c] = l],
           l.pc \in {"idle", "release"}, l.tokens = NoToken, l.base = NoToken, l.journaled = FALSE,
           Strands(c), row' \in RowRecords,
           UNCHANGED <<fixed, vault, journal, live, revoked, due, resetDue, connects>>
    PROVE  IInv'
<1> DEFINE b == call[c].base
<1>1. UNCHANGED <<backend, accessOnly, vault, journal, live, revoked, due, resetDue, connects>>
  BY DEF fixed
<1>2. HasCredential(l) /\ Behind(l) /\ Recorded(l)
  BY OfCall DEF HasCredential, Behind, Recorded
<1>3. /\ call' \in [Pollers -> CallRecords] /\ call'[c] = l
      /\ \A d \in Pollers \ {c} : call'[d] = call[d]
      /\ \A d \in Pollers : HasCredential(call[d])'
  BY <1>2, OneCall
<1>4. /\ call[c].pc \in {"save", "persist", "verify"} => b \in Tokens
      /\ Reached(b) /\ Recorded(call[c])
  BY OfCall DEF HasCredential, Behind
<1>5. lost \subseteq lost' /\ lost' \subseteq Epochs
  <2>1. call[c].pc \in {"save", "persist", "verify"} => b.epoch \in Epochs
    BY <1>4, TokenFields
  <2>2. QED
    BY <2>1 DEF Strands, OnlyCopy, IInv, TypeOK
<1>6. TypeOK'
  BY <1>1, <1>3, <1>5 DEF IInv, TypeOK
<1>7. ChainInv' /\ JournaledInv'
  <2>1. \A d \in Pollers : Behind(call'[d]) /\ Recorded(call'[d])
    BY <1>2, <1>3, OfCall
  <2>2. QED
    BY <1>1, <2>1 DEF IInv, ChainInv, Behind, Reached, Past, Spent, JournaledInv, Recorded
<1>8. ASSUME vault \in Tokens, Holding(c, Grant)
      PROVE  \/ vault = Grant
             \/ journal # NoToken /\ Successor(journal) = Grant
             \/ vault.epoch \in lost'
  <2>1. b \in Tokens /\ Successor(b) = Grant /\ call[c].pc \in {"save", "persist", "verify"}
    BY <1>4, <1>8 DEF Holding
  <2>2. b.epoch = vault.epoch
    BY <2>1, SuccessorFields DEF Grant
  <2>3. CASE OnlyCopy(c)
    BY <2>2, <2>3 DEF Strands
  <2>4. CASE vault = Successor(b)
    BY <2>1, <2>4
  <2>5. CASE journal = b
    BY <2>1, <2>5, Facts
  <2>6. CASE call[c].journaled
    <3>1. CASE b = vault
      BY <1>4, <1>8, <2>1, <2>6, <3>1, Facts DEF Recorded
    <3>2. CASE b # vault
      BY <1>4, <1>8, <2>1, <3>2, PastGrant
    <3>3. QED
      BY <3>1, <3>2
  <2>7. QED
    BY <2>1, <2>3, <2>4, <2>5, <2>6 DEF OnlyCopy
<1> HIDE DEF b
<1>9. GrantKept'
  <2>1. Grant' = Grant /\ \A d \in Pollers \ {c} : Holding(d, Grant) => Holding(d, Grant)'
    BY <1>1, <1>3 DEF Holding, Grant
  <2>2. QED
    BY <1>1, <1>5, <1>8, <2>1 DEF IInv, GrantKept, Renewable
<1>10. QED
  BY <1>6, <1>7, <1>9 DEF IInv

\* The writes of the vault have failed for good.
LEMMA PersistGivesUpKeeps == ASSUME IInv, NEW c \in Pollers, PersistGivesUp(c) PROVE IInv'
<1>1. PICK l \in CallRecords :
         /\ call' = [call EXCEPT ![c] = l]
         /\ l.pc = "release" /\ l.tokens = NoToken /\ l.base = NoToken /\ l.journaled = FALSE
  <2>1. [Idle EXCEPT !.pc = "release", !.prior = call[c].prior] \in CallRecords
    BY Facts, OfCall DEF CallRecords, Idle, PCs
  <2>2. QED
    BY <2>1 DEF PersistGivesUp, Conclude, Idle
<1>2. row' \in RowRecords /\ Strands(c)
      /\ UNCHANGED <<fixed, vault, journal, live, revoked, due, resetDue, connects>>
  BY OfCall DEF PersistGivesUp
<1>3. QED
  BY <1>1, <1>2, StrandingKeeps

\* The process of the call dies at any point.
LEMMA CrashKeeps == ASSUME IInv, NEW c \in Pollers, Crash(c) PROVE IInv'
<1>1. call' = [call EXCEPT ![c] = Idle] /\ row' \in RowRecords /\ Strands(c)
      /\ UNCHANGED <<fixed, vault, journal, live, revoked, due, resetDue, connects>>
  BY LeaseRows DEF Crash, End
<1>2. Idle.pc = "idle" /\ Idle.tokens = NoToken /\ Idle.base = NoToken /\ Idle.journaled = FALSE
  BY DEF Idle
<1>3. QED
  BY <1>1, <1>2, Facts, StrandingKeeps

\* Steps of the row, the provider and the user that leave calls and credentials
\* alone.
LEMMA UntouchedKeeps ==
    ASSUME IInv, UNCHANGED <<fixed, call, vault, journal, live, lost, connects>>,
           row' \in RowRecords, revoked' \subseteq Epochs, due' \subseteq Tokens,
           resetDue' \in BOOLEAN
    PROVE  IInv'
<1>1. UNCHANGED <<backend, accessOnly, call, vault, journal, live, lost, connects>>
  BY DEF fixed
<1>2. TypeOK'
  BY <1>1 DEF IInv, TypeOK, HasCredential
<1>3. ChainInv' /\ JournaledInv'
  BY <1>1 DEF IInv, ChainInv, Behind, Reached, Past, Spent, JournaledInv, Recorded
<1>4. GrantKept'
  BY <1>1 DEF IInv, GrantKept, Grant, Holding, Renewable
<1>5. QED
  BY <1>2, <1>3, <1>4 DEF IInv

\* The lease, the row and the provider's clock.
LEMMA AroundKeeps ==
    ASSUME IInv,
           \/ \E c \in Pollers : RenewLease(c)
           \/ LeaseExpires \/ RowAges \/ ResetRow \/ TokenExpires \/ Revoke
    PROVE  IInv'
<1>1. UNCHANGED <<fixed, call, vault, journal, live, lost, connects>>
  BY DEF RenewLease, LeaseExpires, RowAges, ResetRow, TokenExpires, Revoke, shared
<1>2. row \in RowRecords
  BY DEF IInv, TypeOK
<1>3. row' \in RowRecords
  <2>1. CASE \E c \in Pollers : RenewLease(c)
    BY <1>2, <2>1 DEF RenewLease, RowRecords
  <2>2. CASE LeaseExpires
    BY <1>2, <2>2 DEF LeaseExpires, RowRecords
  <2>3. CASE RowAges
    BY <1>2, <2>3 DEF RowAges, RowRecords
  <2>4. CASE ResetRow
    <3>1. Reset(row) \in RowRecords
      <4>1. Released(row) \in RowRecords
        BY <1>2 DEF Released, RowRecords
      <4>2. 0 \in 0..ReauthAfter
        BY DEF ReauthAfter
      <4>3. ASSUME NEW r \in RowRecords
            PROVE  [r EXCEPT !.status = "loading", !.cooling = FALSE, !.throttles = 0]
                      \in RowRecords
        BY <4>2 DEF RowRecords
      <4>4. QED
        BY <4>1, <4>3, Facts DEF Reset
    <3>2. QED
      BY <1>2, <2>4, <3>1 DEF ResetRow
  <2>5. CASE TokenExpires \/ Revoke
    BY <1>2, <2>5 DEF TokenExpires, Revoke
  <2>6. QED
    BY <2>1, <2>2, <2>3, <2>4, <2>5
<1>4. revoked' \subseteq Epochs /\ due' \subseteq Tokens /\ resetDue' \in BOOLEAN
  <2>1. revoked \subseteq Epochs /\ due \subseteq Tokens /\ resetDue \in BOOLEAN
        /\ (vault # NoToken => vault \in Tokens /\ vault.epoch \in Epochs)
    BY TokenFields DEF IInv, TypeOK, SomeToken
  <2>2. QED
    BY <2>1 DEF RenewLease, LeaseExpires, RowAges, ResetRow, TokenExpires, Revoke, shared
<1>5. QED
  BY <1>1, <1>3, <1>4, UntouchedKeeps

\* A connection starts a chain that no running call and no record belongs to.
LEMMA ConnectKeeps == ASSUME IInv, Connect PROVE IInv'
<1> DEFINE t == [epoch |-> connects + 1, gen |-> 0]
<1>1. /\ connects' = connects + 1 /\ vault' = t /\ resetDue' = TRUE
      /\ UNCHANGED <<backend, accessOnly, call, row, journal, live, revoked, due, lost>>
  BY DEF Connect, fixed
<1>2. connects \in Epochs /\ connects' \in Epochs /\ live[connects'] = 0
  BY <1>1, Facts DEF Connect, IInv, TypeOK, ChainInv, Epochs
<1>3. t \in Tokens /\ t.epoch = connects' /\ t.gen = 0
  BY <1>1, <1>2, Facts, TokenFields DEF Epochs
<1> HIDE DEF t
<1>4. TypeOK'
  BY <1>1, <1>2, <1>3 DEF IInv, TypeOK, SomeToken, HasCredential
<1>5. \A u \in SomeToken : Reached(u) => u.epoch <= connects /\ u.epoch # connects'
  BY <1>1, <1>2, TokenFields DEF Reached, Epochs
<1>6. ChainInv'
  <2>1. journal # NoToken => Reached(journal)' /\ Spent(journal)'
    BY <1>1, <1>2, <1>5, OfCall, TokenFields DEF IInv, TypeOK, ChainInv, Reached, Spent, Epochs
  <2>2. ASSUME NEW d \in Pollers PROVE Behind(call[d])'
    <3>1. call[d] \in CallRecords /\ Behind(call[d])
      BY OfCall
    <3>2. call[d].tokens \in SomeToken /\ call[d].base \in SomeToken
      BY <3>1 DEF CallRecords
    <3>3. /\ call[d].tokens.epoch <= connects' /\ call[d].tokens.epoch # connects'
          /\ call[d].base.epoch <= connects' /\ call[d].base.epoch # connects'
      BY <1>1, <1>2, <1>5, <3>1, <3>2, TokenFields DEF Behind, Epochs
    <3>4. QED
      BY <1>1, <3>1, <3>3 DEF Behind, Reached, Past, Spent
  <2>3. \A e \in Epochs : e > connects' => live[e] = 0
    BY <1>1, <1>2 DEF IInv, ChainInv, Epochs
  <2>4. QED
    BY <1>1, <1>2, <1>3, <2>1, <2>2, <2>3 DEF ChainInv
<1>7. JournaledInv'
  <2>1. SUFFICES ASSUME NEW d \in Pollers PROVE call[d].base # t
    BY <1>1 DEF JournaledInv, Recorded
  <2>2. call[d].base \in SomeToken /\ Reached(call[d].base)
    BY OfCall DEF CallRecords, Behind
  <2>3. QED
    BY <1>3, <1>5, <2>2
<1>8. GrantKept'
  BY <1>1, <1>2, <1>3 DEF GrantKept, Grant, t
<1>9. QED
  BY <1>4, <1>6, <1>7, <1>8 DEF IInv

\* An empty vault asks nothing of anybody.
LEMMA RemoveKeeps == ASSUME IInv, Remove PROVE IInv'
<1>1. /\ vault' = NoToken /\ resetDue' = TRUE
      /\ UNCHANGED <<backend, accessOnly, call, row, journal, live, revoked, due, lost, connects>>
  BY DEF Remove, fixed
<1>2. TypeOK'
  BY <1>1 DEF IInv, TypeOK, SomeToken, HasCredential
<1>3. ChainInv'
  BY <1>1 DEF IInv, ChainInv, Behind, Reached, Past, Spent
<1>4. JournaledInv' /\ GrantKept'
  BY <1>1, Facts DEF JournaledInv, Recorded, GrantKept
<1>5. QED
  BY <1>2, <1>3, <1>4 DEF IInv

-----------------------------------------------------------------------------

\* The account is connected once and nobody has asked for anything.
LEMMA InitIInv == Init => IInv
<1>1. SUFFICES ASSUME Init PROVE IInv
  OBVIOUS
<1>2. /\ vault = [epoch |-> 1, gen |-> 0] /\ connects = 1 /\ journal = NoToken
      /\ call = [c \in Pollers |-> Idle] /\ live = [e \in Epochs |-> 0]
      /\ backend \in Backends /\ accessOnly \subseteq AccessOnly
      /\ row = NoRow /\ revoked = {} /\ due = {} /\ resetDue = FALSE /\ lost = {}
  BY <1>1 DEF Init
<1>3. 1 \in Epochs /\ vault \in Tokens /\ vault.epoch = 1 /\ vault.gen = 0
  BY <1>2, Facts, TokenFields DEF Epochs
<1>4. TypeOK
  <2>1. call \in [Pollers -> CallRecords] /\ \A c \in Pollers : HasCredential(call[c])
    BY <1>2, Facts DEF HasCredential, Idle
  <2>2. vault \in SomeToken /\ journal \in SomeToken /\ live \in [Epochs -> 0..MaxGen]
    BY <1>2, <1>3, Facts DEF SomeToken
  <2>3. QED
    BY <1>2, <1>3, <2>1, <2>2, Facts DEF TypeOK
<1>5. ChainInv
  BY <1>2, <1>3, Facts DEF ChainInv, Behind, Reached, Past, Idle
<1>6. JournaledInv
  BY <1>2 DEF JournaledInv, Recorded, Idle
<1>7. GrantKept
  BY <1>2, <1>3 DEF GrantKept, Grant
<1>8. QED
  BY <1>4, <1>5, <1>6, <1>7 DEF IInv

\* Every step keeps the invariant.
LEMMA StepIInv == ASSUME IInv, [Next]_vars PROVE IInv'
<1>1. CASE UNCHANGED vars
  BY <1>1, UntouchedKeeps DEF vars, IInv, TypeOK
<1>2. ASSUME NEW c \in Pollers, Step(c) PROVE IInv'
  BY <1>2, StartKeeps, GetKeeps, ClaimKeeps, ReleaseKeeps, LoadKeeps, LoadJournalKeeps,
     DecideKeeps, RenewKeeps, SpendKeeps, SpendFailsKeeps, SaveKeeps, PersistWriteKeeps,
     VerifyKeeps, PersistGivesUpKeeps, ClearKeeps, FetchKeeps, CommitKeeps DEF Step
<1>3. ASSUME NEW c \in Pollers, CoordinationFails(c) \/ ReadFails(c) \/ Crash(c) PROVE IInv'
  BY <1>3, CoordinationFailsKeeps, ReadFailsKeeps, CrashKeeps
<1>4. CASE \/ \E c \in Pollers : RenewLease(c)
           \/ LeaseExpires \/ RowAges \/ ResetRow \/ TokenExpires \/ Revoke
  BY <1>4, AroundKeeps
<1>5. CASE Connect \/ Remove
  BY <1>5, ConnectKeeps, RemoveKeeps
<1>6. QED
  BY <1>1, <1>2, <1>3, <1>4, <1>5 DEF Next

\* The invariant holds in every reachable state.
THEOREM Inductive == Spec => []IInv
<1>1. QED
  BY InitIInv, StepIInv, PTL DEF Spec

\* Every variable keeps its type.
THEOREM Typing == Spec => []TypeOK
<1>1. IInv => TypeOK
  BY DEF IInv
<1>2. QED
  BY <1>1, Inductive, PTL

\* The generation the provider accepts is in the vault, in the journal or with a
\* running call, unless it was lost with whoever received it: the order of
\* saveTokenRecovery, persistAccountTokens and clearTokenRecovery loses nothing.
THEOREM GrantIsKept == Spec => []GrantKept
<1>1. IInv => GrantKept
  BY DEF IInv
<1>2. QED
  BY <1>1, Inductive, PTL

\* The vault only follows its own chain or a later connection, however many
\* calls renew and whatever leases are lost: persistAccountTokens undoes neither
\* a reconnect nor another renewal.
THEOREM VaultMoves == Spec => VaultMovesOn
<1> DEFINE Moves == \/ vault' = vault
                    \/ vault' = Successor(vault)
                    \/ vault' = NoToken
                    \/ vault'.epoch > vault.epoch /\ vault'.epoch = connects'
<1>1. ASSUME IInv, [Next]_vars PROVE [Moves]_vars
  <2>1. CASE UNCHANGED vault
    BY <2>1
  <2>2. CASE Remove
    BY <2>2 DEF Remove
  <2>3. CASE Connect
    <3>1. vault'.epoch = connects + 1 /\ connects' = connects + 1
      BY <2>3 DEF Connect
    <3>2. connects \in Epochs /\ (vault # NoToken => vault.epoch = connects)
      BY <1>1 DEF IInv, TypeOK, ChainInv
    <3>3. vault.epoch <= connects
      BY <3>2, Facts DEF Epochs
    <3>4. vault.epoch \in Nat
      BY <3>2, Facts DEF Epochs
    <3>5. QED
      BY <3>1, <3>2, <3>3, <3>4 DEF Epochs
  <2>4. CASE \E c \in Pollers : PersistWrite(c)
    BY <2>4 DEF PersistWrite, Persisted
  <2>5. QED
    BY <1>1, <2>1, <2>2, <2>3, <2>4 DEF Next, Step, vars, shared, Start, Get, Claim, Release, Load,
       LoadJournal, Decide, Renew, Spend, SpendFails, Save, Verify, PersistGivesUp, Clear, Fetch,
       Commit, CoordinationFails, ReadFails, RenewLease, Crash, LeaseExpires, RowAges, ResetRow,
       TokenExpires, Revoke
<1>2. QED
  BY <1>1, Inductive, PTL DEF Spec, VaultMovesOn

\* A recovery record is given up only when the vault is past what it replaces, or
\* for the next link of its chain: clearTokenRecovery and saveTokenRecovery never
\* drop the only durable copy of a replacement.
THEOREM JournalIsKept == Spec => JournalKept
<1> DEFINE Keeps == journal' # journal /\ journal # NoToken =>
                       \/ vault # journal
                       \/ journal' = Successor(journal)
<1>1. ASSUME IInv, [Next]_vars PROVE [Keeps]_vars
  <2>1. CASE UNCHANGED journal
    BY <2>1
  <2>2. ASSUME NEW c \in Pollers, Save(c) PROVE Keeps
    BY <2>2 DEF Save, MayReplace
  <2>3. ASSUME NEW c \in Pollers, Clear(c) PROVE Keeps
    <3>1. /\ Past(call[c].base) /\ call[c].base \in Tokens
          /\ journal' # journal => journal = call[c].base
      BY <1>1, <2>3, OfCall DEF Clear, Cleared, At, HasCredential, Behind
    <3>2. call[c].base # vault
      <4>1. vault # NoToken => vault.epoch = connects /\ vault.gen \in 0..MaxGen
        BY <1>1, TokenFields DEF IInv, TypeOK, ChainInv
      <4>2. QED
        BY <3>1, <4>1, Facts DEF Past
    <3>3. QED
      BY <3>1, <3>2
  <2>4. QED
    BY <1>1, <2>1, <2>2, <2>3 DEF Next, Step, vars, shared, Start, Get, Claim, Release, Load,
       LoadJournal, Decide, Renew, Spend, SpendFails, PersistWrite, Verify, PersistGivesUp, Fetch,
       Commit, CoordinationFails, ReadFails, RenewLease, Crash, LeaseExpires, RowAges, Connect,
       Remove, ResetRow, TokenExpires, Revoke
<1>2. QED
  BY <1>1, Inductive, PTL DEF Spec, JournalKept

-----------------------------------------------------------------------------
(* The lease.                                                                *)

\* What a step of one poller does to the row: nothing, and its call works on only
\* if it did before; a claim of a lease that is free; the end of a call that had
\* the lease or finds it free; or the renewal of its own lease.
LeaseStep(c) ==
    \/ row' = row /\ (Working(c)' => Working(c))
    \/ /\ ~row.leased /\ row' = [row EXCEPT !.owner = c, !.leased = TRUE]
       /\ backend = "redis" /\ Working(c)' => NeedsFetch(row)
    \/ ~Working(c)' /\ row'.owner \in {Nobody, Ended} /\ (row.owner = c \/ ~row.leased)
    \/ row.owner = c /\ row' = [row EXCEPT !.leased = TRUE] /\ call' = call

\* The steps of a poller are such steps, and move no other call.
LEMMA PollerSteps ==
    ASSUME TypeOK, NEW c \in Pollers,
           Step(c) \/ CoordinationFails(c) \/ ReadFails(c) \/ RenewLease(c) \/ Crash(c)
    PROVE  /\ LeaseStep(c) /\ UNCHANGED <<backend, resetDue>>
           /\ \A d \in Pollers \ {c} : call'[d] = call[d]
<1> USE DEF Working, Claimed, At
<1>1. call \in [Pollers -> CallRecords] /\ call[c] \in CallRecords
  BY DEF TypeOK
<1>2. UNCHANGED <<backend, resetDue>>
  BY DEF Step, shared, fixed, Start, Get, Claim, Release, Load, LoadJournal, Decide, Renew, Spend,
     SpendFails, Save, PersistWrite, Verify, PersistGivesUp, Clear, Fetch, Commit,
     CoordinationFails, ReadFails, RenewLease, Crash
<1>3. CASE Start(c) \/ Get(c)
  <2>1. row' = row
    BY <1>3 DEF Start, Get
  <2>2. /\ call'[c].pc \in {"get", "claim", "idle"}
        /\ \A d \in Pollers \ {c} : call'[d] = call[d]
    <3>1. CASE Start(c)
      <4>1. call' = [call EXCEPT ![c] = [Idle EXCEPT !.pc = "get", !.tokens = vault]]
        BY <3>1 DEF Start
      <4>2. [Idle EXCEPT !.pc = "get", !.tokens = vault].pc = "get"
        BY DEF Idle
      <4>3. QED
        BY <1>1, <4>1, <4>2
    <3>2. CASE Get(c) /\ NeedsFetch(row)
      <4>1. [call[c] EXCEPT !.pc = "claim", !.prior = row.throttles].pc = "claim"
        BY <1>1 DEF CallRecords
      <4>2. call' = [call EXCEPT ![c] = [call[c] EXCEPT !.pc = "claim", !.prior = row.throttles]]
        BY <1>1, <3>2 DEF Get
      <4>3. QED
        BY <1>1, <4>1, <4>2
    <3>3. CASE Get(c) /\ ~NeedsFetch(row)
      BY <1>1, <3>3 DEF Get, Idle
    <3>4. QED
      BY <1>3, <3>1, <3>2, <3>3
  <2>3. QED
    BY <1>2, <2>1, <2>2 DEF LeaseStep
<1>4. CASE Claim(c)
  <2>1. CASE row.leased
    <3>1. row' = Abandoned(c, row) /\ call' = [call EXCEPT ![c] = Idle]
      BY <1>4, <2>1 DEF Claim, End
    <3>2. call'[c].pc = "idle"
      BY <1>1, <3>1 DEF Idle
    <3>3. row' = row \/ (row.owner = c /\ row'.owner = Ended)
      BY <1>1, <3>1 DEF Abandoned, TypeOK, RowRecords
    <3>4. QED
      BY <1>2, <3>1, <3>2, <3>3 DEF LeaseStep
  <2>2. CASE ~row.leased
    <3>1. row' = [row EXCEPT !.owner = c, !.leased = TRUE]
      BY <1>4, <2>2 DEF Claim
    <3>2. backend = "redis" => NeedsFetch(row) \/ call'[c].pc = "release"
      BY <1>1, <1>4, <2>2 DEF Claim, Conclude, Idle
    <3>3. \A d \in Pollers \ {c} : call'[d] = call[d]
      BY <1>1, <1>4, <2>2 DEF Claim, Conclude, Goto
    <3>4. QED
      BY <1>2, <2>2, <3>1, <3>2, <3>3 DEF LeaseStep
  <2>3. QED
    BY <2>1, <2>2
<1>5. CASE CoordinationFails(c)
  <2>1. call' = [call EXCEPT ![c] = Idle]
    BY <1>5 DEF CoordinationFails, End
  <2>2. call'[c].pc = "idle" /\ \A d \in Pollers \ {c} : call'[d] = call[d]
    BY <1>1, <2>1 DEF Idle
  <2>3. \/ row' = Abandoned(c, row)
        \/ ~row.leased /\ row' = Abandoned(c, [row EXCEPT !.owner = c, !.leased = TRUE])
    BY <1>5 DEF CoordinationFails, End
  <2>4. \/ row' = row
        \/ row'.owner = Ended /\ (row.owner = c \/ ~row.leased)
    BY <2>3 DEF Abandoned, TypeOK, RowRecords
  <2>5. QED
    BY <1>2, <2>2, <2>4 DEF LeaseStep
<1>6. CASE Release(c)
  <2>1. call' = [call EXCEPT ![c] = Idle]
        /\ \/ row' = Abandoned(c, IF row.owner = c THEN Released(row) ELSE row)
           \/ row' = Abandoned(c, row)
    BY <1>6 DEF Release, End
  <2>2. call'[c].pc = "idle" /\ \A d \in Pollers \ {c} : call'[d] = call[d]
    BY <1>1, <2>1 DEF Idle
  <2>3. Released(row).owner = Nobody /\ Nobody \notin Pollers
    BY Facts DEF Released, TypeOK, RowRecords
  <2>4. row' = row \/ (row.owner = c /\ row'.owner \in {Nobody, Ended})
    BY <2>1, <2>3 DEF Abandoned, TypeOK, RowRecords
  <2>5. QED
    BY <1>2, <2>2, <2>4 DEF LeaseStep
<1>7. CASE Crash(c)
  BY <1>1, <1>2, <1>7 DEF LeaseStep, Crash, End, Abandoned, Idle, RowRecords, TypeOK
<1>8. CASE RenewLease(c)
  BY <1>1, <1>2, <1>8 DEF LeaseStep, RenewLease
<1>9. CASE Commit(c)
  <2>1. call'[c].pc \in {"idle", "release"} /\ \A d \in Pollers \ {c} : call'[d] = call[d]
    <3>1. call' = [call EXCEPT ![c] = Idle] \/ Conclude(c, "release")
      BY <1>9 DEF Commit
    <3>2. CASE call' = [call EXCEPT ![c] = Idle]
      BY <1>1, <3>2 DEF Idle
    <3>3. CASE Conclude(c, "release")
      <4>1. PICK l : l.pc = "release" /\ call' = [call EXCEPT ![c] = l]
        BY <3>3 DEF Conclude, Idle
      <4>2. QED
        BY <1>1, <4>1
    <3>4. QED
      BY <3>1, <3>2, <3>3
  <2>2. Published(c).owner = Nobody
    BY DEF Published, TypeOK, RowRecords
  <2>3. row' = row \/ (row.owner = c /\ row'.owner = Nobody)
    BY <1>9, <2>2 DEF Commit
  <2>4. QED
    BY <1>2, <2>1, <2>3 DEF LeaseStep
<1>10. CASE Load(c) \/ LoadJournal(c) \/ ReadFails(c) \/ Decide(c)
  BY <1>1, <1>2, <1>10 DEF LeaseStep, Load, LoadJournal, ReadFails, Decide, Goto, Conclude,
     Replacing
<1>11. CASE Renew(c) \/ Spend(c) \/ SpendFails(c) \/ Save(c)
  BY <1>1, <1>2, <1>11 DEF LeaseStep, Renew, Spend, SpendFails, Save, Goto, Conclude, Replacing
<1>12. CASE PersistWrite(c) \/ Verify(c) \/ PersistGivesUp(c) \/ Clear(c) \/ Fetch(c)
  BY <1>1, <1>2, <1>12 DEF LeaseStep, PersistWrite, Verify, PersistGivesUp, Clear, Fetch, Goto,
     Conclude
<1>13. QED
  BY <1>3, <1>4, <1>5, <1>6, <1>7, <1>8, <1>9, <1>10, <1>11, <1>12 DEF Step

\* The other steps move no call, and the row changes as follows.
LEMMA OtherSteps ==
    ASSUME LeaseExpires \/ RowAges \/ Connect \/ Remove \/ ResetRow \/ TokenExpires \/ Revoke
           \/ UNCHANGED vars
    PROVE  UNCHANGED <<call, backend>>
BY DEF LeaseExpires, RowAges, Connect, Remove, ResetRow, TokenExpires, Revoke, vars, shared, fixed

\* In Redis a lease holder always has something to do (redis-usage-cache.ts,
\* claim and its use in usage-service.ts:630-636).
THEOREM HoldersWork == Spec => []HolderHasWork
<1>1. Init => HolderHasWork
  BY DEF Init, HolderHasWork, NothingToCoalesce, Working, Claimed, Idle
<1>2. ASSUME TypeOK, HolderHasWork, [Next]_vars PROVE HolderHasWork'
  <2>1. SUFFICES ASSUME backend' = "redis", NEW d \in Pollers, Working(d)', row'.owner = d
                 PROVE  ~row'.fresh /\ ~row'.cooling /\ row'.status # "reauth"
    BY DEF HolderHasWork, NothingToCoalesce
  <2>2. row \in RowRecords /\ Nobody \notin Pollers /\ Ended \notin Pollers
    BY <1>2, Facts DEF TypeOK
  <2>3. ASSUME NEW c \in Pollers,
               Step(c) \/ CoordinationFails(c) \/ ReadFails(c) \/ RenewLease(c) \/ Crash(c)
        PROVE  ~row'.fresh /\ ~row'.cooling /\ row'.status # "reauth"
    <3>1. LeaseStep(c) /\ backend = "redis" /\ (d # c => call'[d] = call[d])
      BY <1>2, <2>1, <2>3, PollerSteps
    <3>2. d # c => Working(d)
      BY <2>1, <3>1 DEF Working, Claimed, At
    <3>3. CASE row' = row /\ (Working(c)' => Working(c))
      BY <1>2, <2>1, <2>2, <3>1, <3>2, <3>3 DEF HolderHasWork, NothingToCoalesce
    <3>4. CASE /\ ~row.leased /\ row' = [row EXCEPT !.owner = c, !.leased = TRUE]
               /\ Working(c)' => NeedsFetch(row)
      BY <2>1, <2>2, <3>4 DEF NeedsFetch, RowRecords
    <3>5. CASE row.owner = c /\ row' = [row EXCEPT !.leased = TRUE] /\ call' = call
      BY <1>2, <2>1, <2>2, <3>1, <3>5
         DEF HolderHasWork, NothingToCoalesce, RowRecords, Working, Claimed, At
    <3>6. QED
      BY <2>1, <2>2, <3>1, <3>3, <3>4, <3>5 DEF LeaseStep
  <2>4. ASSUME LeaseExpires \/ RowAges \/ Connect \/ Remove \/ ResetRow \/ TokenExpires
               \/ Revoke \/ UNCHANGED vars
        PROVE  ~row'.fresh /\ ~row'.cooling /\ row'.status # "reauth"
    <3>1. backend = "redis" /\ Working(d)
      BY <2>1, <2>4, OtherSteps DEF Working, Claimed, At
    <3>2. row.owner = d => ~row.fresh /\ ~row.cooling /\ row.status # "reauth"
      BY <1>2, <3>1 DEF HolderHasWork, NothingToCoalesce
    <3>3. CASE LeaseExpires
      BY <2>1, <2>2, <3>1, <3>3 DEF LeaseExpires, RowRecords
    <3>4. CASE RowAges
      BY <2>1, <2>2, <3>2, <3>4 DEF RowAges, RowRecords
    <3>5. CASE ResetRow
      BY <2>1, <2>2, <3>1, <3>2, <3>5 DEF ResetRow, Reset, NoRow
    <3>6. CASE Connect \/ Remove \/ TokenExpires \/ Revoke \/ UNCHANGED vars
      BY <2>1, <3>2, <3>6 DEF Connect, Remove, TokenExpires, Revoke, vars
    <3>7. QED
      BY <2>4, <3>3, <3>4, <3>5, <3>6
  <2>5. QED
    BY <1>2, <2>3, <2>4 DEF Next
<1>3. QED
  BY <1>1, <1>2, Typing, PTL DEF Spec

\* No call works at first; no step takes the lease from one that does.
LEMMA InitLease == Init => LeaseInv
BY Facts DEF Init, LeaseInv, Working, Claimed, Idle, NoRow

LEMMA StepLease == ASSUME Undisturbed, TypeOK, LeaseInv, [Next]_vars PROVE LeaseInv'
<1>1. row \in RowRecords /\ Nobody \notin Pollers /\ Ended \notin Pollers
  BY Facts DEF TypeOK
<1>2. ASSUME NEW c \in Pollers,
             Step(c) \/ CoordinationFails(c) \/ ReadFails(c) \/ RenewLease(c) \/ Crash(c)
      PROVE  LeaseInv'
  <2>1. LeaseStep(c) /\ ~resetDue' /\ \A d \in Pollers \ {c} : call'[d] = call[d]
    BY <1>2, PollerSteps DEF LeaseInv
  <2>2. \A d \in Pollers \ {c} : Working(d)' => Working(d)
    BY <2>1 DEF Working, Claimed, At
  <2>3. CASE row' = row /\ (Working(c)' => Working(c))
    BY <2>1, <2>2, <2>3 DEF LeaseInv
  <2>4. CASE ~row.leased /\ row' = [row EXCEPT !.owner = c, !.leased = TRUE]
    BY <1>1, <2>1, <2>2, <2>4 DEF LeaseInv, RowRecords
  <2>5. CASE ~Working(c)' /\ row'.owner \in {Nobody, Ended} /\ (row.owner = c \/ ~row.leased)
    BY <1>1, <2>1, <2>2, <2>5 DEF LeaseInv
  <2>6. CASE row.owner = c /\ row' = [row EXCEPT !.leased = TRUE] /\ call' = call
    BY <1>1, <2>1, <2>6 DEF LeaseInv, RowRecords, Working, Claimed, At
  <2>7. QED
    BY <2>1, <2>3, <2>4, <2>5, <2>6 DEF LeaseStep
<1>3. CASE LeaseExpires \/ RowAges \/ Connect \/ Remove \/ ResetRow \/ TokenExpires \/ Revoke
           \/ UNCHANGED vars
  <2>1. \A c \in Pollers : Working(c)' => Working(c)
    BY <1>3, OtherSteps DEF Working, Claimed, At
  <2>2. ~Connect /\ ~Remove /\ ~ResetRow
    BY Facts DEF Undisturbed, Connect, Remove, ResetRow, LeaseInv, TypeOK, Epochs
  <2>3. CASE LeaseExpires
    BY <1>1, <2>1, <2>3 DEF Undisturbed, LeaseExpires, LeaseInv, RowRecords, shared
  <2>4. CASE RowAges
    BY <1>1, <2>1, <2>4 DEF RowAges, LeaseInv, RowRecords, shared
  <2>5. CASE TokenExpires \/ Revoke \/ UNCHANGED vars
    BY <2>1, <2>5 DEF TokenExpires, Revoke, vars, LeaseInv
  <2>6. QED
    BY <1>3, <2>2, <2>3, <2>4, <2>5
<1>4. QED
  BY <1>2, <1>3 DEF Next

\* While nothing takes a lease away, one caller at a time renews a token
\* (usage-service.ts:6-8).
THEOREM OneAtATime == Undisturbed => (Spec => []OneRenewer)
<1> SUFFICES ASSUME Undisturbed PROVE Spec => []OneRenewer
  OBVIOUS
<1>1. LeaseInv => OneRenewer
  BY DEF LeaseInv, OneRenewer, Renewing, Working, Claimed, At
<1>2. QED
  BY <1>1, InitLease, StepLease, Typing, PTL DEF Spec

-----------------------------------------------------------------------------
(* The one call that works.                                                  *)

\* What the invariants say when nothing takes a lease away.
LEMMA Alone ==
    ASSUME Undisturbed, IInv, LeaseInv, SoleInv
    PROVE  /\ vault \in Tokens /\ vault # NoToken
           /\ \A t, u \in Tokens : t.epoch = u.epoch /\ t.gen \in Nat
           /\ \A t \in SomeToken : Reached(t) => t.gen <= vault.gen
           /\ \A t \in Tokens : Past(t) => t.gen < vault.gen
           /\ \A c, d \in Pollers : Working(c) /\ Working(d) => c = d
<1>1. \A t \in Tokens : t.epoch = 1
  BY DEF Undisturbed, Tokens, Epochs
<1>2. connects = 1 /\ vault \in Tokens /\ vault # NoToken
  BY Facts DEF Undisturbed, IInv, TypeOK, SoleInv, Epochs
<1>3. \A t \in SomeToken : Reached(t) => t.gen <= vault.gen
  BY <1>1, <1>2, Facts, TokenFields DEF Reached, SomeToken
<1>4. \A t \in Tokens : Past(t) => t.gen < vault.gen
  BY <1>1, <1>2 DEF Past
<1>5. QED
  BY <1>1, <1>2, <1>3, <1>4, TokenFields DEF LeaseInv, SomeToken

\* A step moves one call, and what that call has read stays as it is unless the
\* call itself works.
LEMMA SoleFrame ==
    ASSUME Undisturbed, IInv, LeaseInv, SoleInv, NEW c \in Pollers,
           \A d \in Pollers \ {c} : call'[d] = call[d],
           UNCHANGED <<vault, journal>> \/ Working(c),
           UNCHANGED accessOnly, vault' \in Tokens, Sole(call[c])'
    PROVE  SoleInv'
<1>1. SUFFICES ASSUME NEW d \in Pollers, d # c PROVE Sole(call[d])'
  BY DEF SoleInv
<1>2. CASE UNCHANGED <<vault, journal>>
  BY <1>1, <1>2 DEF SoleInv, Sole, Renewable
<1>3. CASE Working(c)
  <2>1. ~Working(d)
    BY <1>1, <1>3, Alone
  <2>2. call[d].pc \in {"idle", "get", "claim", "release"} /\ call'[d] = call[d]
    BY <1>1, <2>1 DEF Working, Claimed, At
  <2>3. QED
    BY <2>2 DEF Sole
<1>4. QED
  BY <1>2, <1>3

\* The steps that begin or end the work of a call, or fail.
LEMMA EdgesSole ==
    ASSUME Undisturbed, IInv, LeaseInv, SoleInv, NEW c \in Pollers,
           \/ Start(c) \/ Get(c) \/ Claim(c) \/ CoordinationFails(c) \/ Release(c) \/ ReadFails(c)
           \/ SpendFails(c) \/ PersistGivesUp(c) \/ Commit(c) \/ Crash(c) \/ RenewLease(c)
    PROVE  SoleInv'
<1>1. UNCHANGED <<vault, journal, accessOnly>> /\ vault \in Tokens
  BY DEF SoleInv, Start, Get, Claim, CoordinationFails, Release, ReadFails, SpendFails,
     PersistGivesUp, Commit, Crash, RenewLease, shared, fixed
<1>2. call \in [Pollers -> CallRecords] /\ call[c] \in CallRecords
  BY DEF IInv, TypeOK
<1>3. \A d \in Pollers \ {c} : call'[d] = call[d]
  BY PollerSteps DEF IInv, Step
<1>4. CASE RenewLease(c)
  BY <1>1, <1>4 DEF RenewLease, SoleInv, Sole, Renewable
<1>5. CASE ~RenewLease(c)
  <2>1. call'[c].pc \in {"idle", "get", "claim", "load", "release"} \cup Verdicts
    <3>1. ASSUME NEW label, Conclude(c, label) PROVE call'[c].pc = label
      <4>1. [Idle EXCEPT !.pc = label, !.prior = call[c].prior].pc = label
        BY DEF Idle
      <4>2. QED
        BY <1>2, <3>1, <4>1 DEF Conclude
    <3>2. ASSUME NEW label, Goto(c, label) PROVE call'[c].pc = label
      BY <1>2, <3>2 DEF Goto, CallRecords
    <3>3. call' = [call EXCEPT ![c] = Idle] => call'[c].pc = "idle"
      BY <1>2 DEF Idle
    <3>4. CASE Start(c)
      <4>1. [Idle EXCEPT !.pc = "get", !.tokens = vault].pc = "get"
        BY DEF Idle
      <4>2. QED
        BY <1>2, <3>4, <4>1 DEF Start
    <3>5. CASE Get(c)
      BY <1>2, <3>3, <3>5 DEF Get, CallRecords
    <3>6. CASE Claim(c)
      BY <1>2, <3>1, <3>2, <3>3, <3>6 DEF Claim, End, CallRecords
    <3>7. CASE CoordinationFails(c) \/ Release(c) \/ Crash(c)
      BY <3>3, <3>7 DEF CoordinationFails, Release, Crash, End
    <3>8. CASE ReadFails(c) \/ SpendFails(c) \/ PersistGivesUp(c) \/ Commit(c)
      BY <3>1, <3>3, <3>8 DEF ReadFails, SpendFails, PersistGivesUp, Commit, Verdicts
    <3>9. QED
      BY <1>5, <3>4, <3>5, <3>6, <3>7, <3>8
  <2>2. Sole(call[c])'
    BY <2>1 DEF Sole, Verdicts
  <2>3. QED
    BY <1>1, <1>3, <2>2, SoleFrame
<1>6. QED
  BY <1>4, <1>5

\* The steps that read the vault and the journal and choose what to renew.
LEMMA ReadingSole ==
    ASSUME Undisturbed, IInv, LeaseInv, SoleInv, NEW c \in Pollers,
           Load(c) \/ LoadJournal(c) \/ Decide(c) \/ Renew(c) \/ Fetch(c)
    PROVE  SoleInv'
<1>1. UNCHANGED <<vault, journal, accessOnly>> /\ vault \in Tokens /\ vault # NoToken
  BY Alone DEF Load, LoadJournal, Decide, Renew, Fetch, shared, fixed
<1>2. call \in [Pollers -> CallRecords] /\ call[c] \in CallRecords
  BY DEF IInv, TypeOK
<1>3. \A d \in Pollers \ {c} : call'[d] = call[d]
  BY PollerSteps DEF IInv, Step
<1>4. Sole(call[c])
  BY DEF SoleInv
<1>5. Sole(call[c])'
  <2>1. ASSUME NEW label \in {"release"} \cup Verdicts, Conclude(c, label) PROVE Sole(call[c])'
    <3>1. [Idle EXCEPT !.pc = label, !.prior = call[c].prior].pc = label
      BY DEF Idle
    <3>2. call'[c].pc = label
      BY <1>2, <2>1, <3>1 DEF Conclude
    <3>3. QED
      BY <3>2 DEF Sole, Verdicts
  <2>2. CASE Load(c)
    BY <1>1, <1>2, <2>2 DEF Load, CallRecords, Sole, Renewable
  <2>3. CASE LoadJournal(c)
    <3>1. CASE journal = NoToken
      <4>1. call'[c].pc = "decide" /\ call'[c].tokens = vault
        BY <1>2, <1>4, <2>3, <3>1 DEF LoadJournal, Goto, CallRecords, Sole, At
      <4>2. QED
        BY <1>1, <3>1, <4>1 DEF Sole
    <3>2. CASE journal # NoToken
      <4>1. call'[c].pc = "persist" /\ call'[c].base = journal
        BY <1>2, <2>3, <3>2 DEF LoadJournal, Replacing, CallRecords
      <4>2. journal.gen \in Nat
        BY TokenFields DEF IInv, TypeOK
      <4>3. QED
        BY <1>1, <4>1, <4>2 DEF Sole
    <3>3. QED
      BY <3>1, <3>2
  <2>4. CASE Decide(c)
    BY <1>1, <1>2, <1>4, <2>4 DEF Decide, Goto, CallRecords, Sole, At, Renewable
  <2>5. CASE Renew(c)
    BY <1>1, <1>2, <1>4, <2>5 DEF Renew, Replacing, CallRecords, Sole, At, Renewable, Idle
  <2>6. CASE Fetch(c)
    <3>1. CASE Goto(c, "forceRenew")
      BY <1>1, <1>2, <1>4, <2>6, <3>1 DEF Fetch, Goto, CallRecords, Sole, At, Renewable
    <3>2. CASE \E label \in {"release"} \cup Verdicts : Conclude(c, label)
      BY <2>1, <3>2
    <3>3. QED
      BY <2>6, <3>1, <3>2 DEF Fetch, Verdicts
  <2>7. QED
    BY <2>2, <2>3, <2>4, <2>5, <2>6
<1>6. QED
  BY <1>1, <1>3, <1>5, SoleFrame

\* The steps that write a replacement.
LEMMA WritingSole ==
    ASSUME Undisturbed, IInv, IInv', LeaseInv, SoleInv, NEW c \in Pollers,
           Spend(c) \/ Save(c) \/ PersistWrite(c) \/ Verify(c) \/ Clear(c)
    PROVE  SoleInv'
<1>1. accessOnly' = accessOnly /\ vault \in Tokens /\ vault # NoToken /\ Working(c)
  BY Alone DEF Spend, Save, PersistWrite, Verify, Clear, shared, fixed, Working, Claimed, At
<1>2. call \in [Pollers -> CallRecords] /\ call[c] \in CallRecords
  BY DEF IInv, TypeOK
<1>3. \A d \in Pollers \ {c} : call'[d] = call[d]
  BY PollerSteps DEF IInv, Step
<1>4. Sole(call[c]) /\ HasCredential(call[c]) /\ Behind(call[c]) /\ Recorded(call[c])
  BY OfCall DEF SoleInv
<1>5. vault' \in Tokens
  <2>1. CASE PersistWrite(c)
    <3>1. vault' \in SomeToken /\ call[c].base \in Tokens
      BY <1>4, <2>1 DEF PersistWrite, IInv, TypeOK, HasCredential, At
    <3>2. vault' # NoToken
      BY <1>1, <2>1, <3>1, Facts, SuccessorFields DEF PersistWrite, Persisted, Tokens
    <3>3. QED
      BY <3>1, <3>2 DEF SomeToken
  <2>2. CASE ~PersistWrite(c)
    BY <1>1, <2>2 DEF Spend, Save, Verify, Clear, shared
  <2>3. QED
    BY <2>1, <2>2
<1>6. call[c].base \in Tokens /\ journal \in SomeToken
      /\ \A t \in SomeToken : t.gen \in Nat
  BY <1>4, TokenFields DEF Spend, Save, PersistWrite, Verify, Clear, HasCredential, At,
     IInv, TypeOK
<1>7. journal.gen <= vault.gen /\ journal.gen \in Nat /\ vault.gen \in Nat
  BY <1>1, <1>6, Alone, OfCall DEF IInv, ChainInv, SomeToken
<1>8. Sole(call[c])'
  <2>1. CASE Spend(c)
    <3>1. UNCHANGED <<vault, journal>> /\ call[c].base = vault
      BY <1>4, <2>1 DEF Spend, Sole, At
    <3>2. CASE Conclude(c, "release")
      <4>1. [Idle EXCEPT !.pc = "release", !.prior = call[c].prior].pc = "release"
        BY DEF Idle
      <4>2. call'[c].pc = "release"
        BY <1>2, <3>2, <4>1 DEF Conclude
      <4>3. QED
        BY <4>2 DEF Sole
    <3>3. CASE call' = [call EXCEPT ![c].pc = "save", ![c].rotated = "renewed"]
      <4>1. call'[c].pc = "save" /\ call'[c].base = call[c].base
        BY <1>2, <3>3 DEF CallRecords
      <4>2. QED
        BY <1>7, <3>1, <4>1 DEF Sole
    <3>4. QED
      BY <2>1, <3>2, <3>3 DEF Spend
  <2>2. CASE Save(c)
    <3>1. vault' = vault /\ journal' \in {journal, call[c].base} /\ journal.gen <= call[c].base.gen
      BY <1>4, <2>2 DEF Save, Sole, At
    <3>2. call'[c].pc = "persist" /\ call'[c].base = call[c].base
      BY <1>2, <2>2 DEF Save, Goto, CallRecords
    <3>3. QED
      BY <1>6, <3>1, <3>2 DEF Sole, SomeToken
  <2>3. CASE PersistWrite(c)
    <3>1. journal' = journal /\ journal.gen <= call[c].base.gen
      BY <1>4, <2>3 DEF PersistWrite, Sole, At
    <3>2. call'[c].pc \in {"persist", "verify"} /\ call'[c].base = call[c].base
      BY <1>2, <2>3 DEF PersistWrite, Goto, CallRecords, At
    <3>3. QED
      BY <3>1, <3>2 DEF Sole
  <2>4. CASE Verify(c)
    <3>1. UNCHANGED <<vault, journal>> /\ journal.gen <= call[c].base.gen
      BY <1>4, <2>4 DEF Verify, Sole, At, shared
    <3>2. CASE Goto(c, "persist")
      BY <1>2, <3>1, <3>2 DEF Goto, CallRecords, Sole
    <3>3. CASE ~Goto(c, "persist")
      <4>1. vault # call[c].base /\ call[c].base.gen <= vault.gen
        BY <1>4, <1>6, <2>4, <3>3, Alone DEF Verify, Behind, SomeToken
      <4>2. call[c].base.gen < vault.gen
        BY <1>1, <1>6, <4>1, Alone, TokenFields DEF SomeToken
      <4>3. journal.gen < vault.gen
        BY <1>6, <1>7, <3>1, <4>2, TokenFields DEF SomeToken
      <4>4. /\ call'[c].tokens = vault
            /\ \/ call'[c].pc = "clear" /\ call'[c].base = call[c].base
               \/ call'[c].pc = call[c].resume
        <5>1. PICK l \in CallRecords :
                /\ l.pc = call[c].pc /\ l.base = call[c].base /\ l.resume = call[c].resume
                /\ l.tokens = vault
                /\ call' = [call EXCEPT ![c] = IF l.journaled THEN [l EXCEPT !.pc = "clear"]
                                               ELSE Resumed(l)]
          <6> DEFINE m == [call[c] EXCEPT !.tokens = vault,
                                          !.rotated = IF @ = "no" THEN "adopted" ELSE @]
          <6>1. m \in CallRecords /\ m.pc = call[c].pc /\ m.base = call[c].base
                /\ m.resume = call[c].resume /\ m.tokens = vault
            BY <1>1, <1>2 DEF CallRecords, SomeToken
          <6>2. call' = [call EXCEPT ![c] = IF m.journaled THEN [m EXCEPT !.pc = "clear"]
                                            ELSE Resumed(m)]
            BY <2>4, <3>3 DEF Verify
          <6>3. QED
            BY <6>1, <6>2
        <5>2. QED
          BY <1>2, <5>1 DEF Resumed, CallRecords
      <4>5. call[c].resume \in {"none", "decide", "fetch"}
        BY <1>2 DEF CallRecords
      <4>6. QED
        BY <1>7, <3>1, <4>3, <4>4, <4>5 DEF Sole
    <3>4. QED
      BY <3>2, <3>3
  <2>5. CASE Clear(c)
    <3>1. vault' = vault /\ journal' \in {journal, NoToken} /\ journal.gen < vault.gen
          /\ call[c].tokens = vault
      <4>1. call[c].base.gen < vault.gen /\ journal.gen <= call[c].base.gen
        BY <1>4, <1>6, <2>5, Alone DEF Clear, Behind, Sole, At
      <4>2. QED
        BY <1>4, <1>6, <1>7, <2>5, <4>1, TokenFields DEF Clear, Cleared, Sole, At, SomeToken
    <3>2. call'[c].tokens = call[c].tokens /\ call'[c].pc = call[c].resume
      BY <1>2, <2>5 DEF Clear, Resumed, CallRecords
    <3>3. call[c].resume \in {"none", "decide", "fetch"}
      BY <1>2 DEF CallRecords
    <3>4. QED
      BY <1>6, <1>7, <3>1, <3>2, <3>3, Facts DEF Sole
  <2>6. QED
    BY <2>1, <2>2, <2>3, <2>4, <2>5
<1>9. QED
  BY <1>1, <1>3, <1>5, <1>8, SoleFrame

\* The account is connected once, and nothing takes it from its one worker.
LEMMA StepSole == ASSUME Undisturbed, IInv, LeaseInv, SoleInv, [Next]_vars PROVE SoleInv'
<1>1. CASE \E c \in Pollers : Step(c) \/ CoordinationFails(c) \/ ReadFails(c) \/ RenewLease(c)
                              \/ Crash(c)
  BY <1>1, StepIInv, EdgesSole, ReadingSole, WritingSole DEF Step
<1>2. CASE LeaseExpires \/ RowAges \/ Connect \/ Remove \/ ResetRow \/ TokenExpires \/ Revoke
           \/ UNCHANGED vars
  <2>1. ~Connect /\ ~Remove /\ ~ResetRow
    BY Facts DEF Undisturbed, Connect, Remove, ResetRow, LeaseInv, IInv, TypeOK, Epochs
  <2>2. UNCHANGED <<call, vault, journal, accessOnly>>
    BY <1>2, <2>1 DEF LeaseExpires, RowAges, TokenExpires, Revoke, vars, shared, fixed
  <2>3. QED
    BY <2>2 DEF SoleInv, Sole, Renewable
<1>3. QED
  BY <1>1, <1>2 DEF Next

LEMMA InitSole == Init => SoleInv
BY InitIInv DEF Init, SoleInv, Sole, Idle, IInv, TypeOK, Tokens, Epochs

\* While nothing takes a lease away, no renewal spends a generation that was
\* spent before, unless its replacement was lost: doRefresh's base is what
\* loadTokenRecovery and the vault have left to spend.
THEOREM SpendsOnce == Undisturbed => (Spec => []SpendsCurrent)
<1> SUFFICES ASSUME Undisturbed PROVE Spec => []SpendsCurrent
  OBVIOUS
<1>1. ASSUME IInv, LeaseInv, SoleInv PROVE SpendsCurrent
  <2>1. SUFFICES ASSUME NEW c \in Pollers, At(c, "spend"), vault.epoch \notin lost
                 PROVE  vault.gen = live[vault.epoch]
    BY <1>1 DEF SpendsCurrent, SoleInv, Sole, At
  <2>2. Renewable(vault) /\ journal # vault /\ vault \in Tokens
    BY <1>1, <2>1 DEF SoleInv, Sole, At
  <2>3. \A d \in Pollers : ~Holding(d, Grant)
    BY <1>1, <2>1, Alone DEF Holding, Working, Claimed, At
  <2>4. vault = Grant \/ (journal # NoToken /\ Successor(journal) = Grant)
    BY <1>1, <2>1, <2>2, <2>3 DEF IInv, GrantKept
  <2>5. CASE vault = Grant
    BY <2>5 DEF Grant
  <2>6. CASE journal # NoToken /\ Successor(journal) = Grant
    <3>1. journal \in Tokens /\ journal.gen <= vault.gen
      BY <1>1, <2>6, Alone DEF IInv, TypeOK, ChainInv, SomeToken
    <3>2. journal.gen # vault.gen
      BY <1>1, <2>2, <3>1, Alone, TokenFields
    <3>3. journal.gen + 1 = live[vault.epoch]
      BY <2>6, <3>1, SuccessorFields DEF Grant
    <3>4. vault.gen <= live[vault.epoch]
      BY <1>1, Alone DEF IInv, ChainInv
    <3>5. journal.gen \in Nat /\ vault.gen \in Nat
      BY <1>1, <2>2, <3>1, Alone
    <3>6. QED
      BY <3>1, <3>2, <3>3, <3>4, <3>5
  <2>7. QED
    BY <2>4, <2>5, <2>6
<1>2. QED
  BY <1>1, InitLease, StepLease, InitSole, StepSole, Inductive, Typing, PTL DEF Spec

-----------------------------------------------------------------------------
(* The verdict "reauth".                                                     *)

\* A call is on its way out, or goes on with its locals.
LEMMA Moves ==
    ASSUME TypeOK, NEW c \in Pollers, NEW label
    PROVE  /\ Conclude(c, label) => call'[c].pc = label /\ call'[c].rotated = "no"
           /\ Goto(c, label) => /\ call'[c].pc = label
                                /\ \A f \in {"tokens", "base", "resume", "journaled", "rotated"} :
                                      call'[c][f] = call[c][f]
           /\ call' = [call EXCEPT ![c] = Idle] => call'[c].pc = "idle" /\ call'[c].rotated = "no"
<1>1. call \in [Pollers -> CallRecords] /\ call[c] \in CallRecords
  BY DEF TypeOK
<1>2. /\ [Idle EXCEPT !.pc = label, !.prior = call[c].prior].pc = label
      /\ [Idle EXCEPT !.pc = label, !.prior = call[c].prior].rotated = "no"
  BY DEF Idle
<1>3. Conclude(c, label) => call'[c].pc = label /\ call'[c].rotated = "no"
  BY <1>1, <1>2 DEF Conclude
<1>4. Goto(c, label) => /\ call'[c].pc = label
                        /\ \A f \in {"tokens", "base", "resume", "journaled", "rotated"} :
                              call'[c][f] = call[c][f]
  BY <1>1 DEF Goto, CallRecords
<1>5. QED
  BY <1>1, <1>3, <1>4 DEF Idle

\* Who begins to write, and who decides that a login is needed.
Writing(l) == l.pc \in {"save", "persist", "verify"}

LEMMA Outcomes ==
    ASSUME TypeOK, NEW c \in Pollers,
           Step(c) \/ CoordinationFails(c) \/ ReadFails(c) \/ RenewLease(c) \/ Crash(c)
    PROVE  /\ Writing(call'[c]) =>
                 \/ Spend(c)
                 \/ LoadJournal(c) /\ journal # NoToken /\ call'[c].base = journal
                 \/ Writing(call[c]) /\ call'[c].base = call[c].base
           /\ call'[c].pc = "reauth" =>
                 call[c].pc = "reauth" \/ Renew(c) \/ SpendFails(c) \/ Fetch(c)
           /\ call'[c].pc = "throttled" => call[c].pc = "throttled" \/ "throttle" \in Faults
<1> USE DEF Writing
<1>1. call \in [Pollers -> CallRecords] /\ call[c] \in CallRecords
  BY DEF TypeOK
<1>2. CASE Start(c)
  <2>1. [Idle EXCEPT !.pc = "get", !.tokens = vault].pc = "get"
    BY DEF Idle
  <2>2. QED
    BY <1>1, <1>2, <2>1 DEF Start
<1>3. CASE Get(c)
  BY <1>1, <1>3, Moves DEF Get, CallRecords
<1>4. CASE Claim(c) \/ CoordinationFails(c) \/ Release(c) \/ Crash(c)
  BY <1>1, <1>4, Moves DEF Claim, CoordinationFails, Release, Crash, End, CallRecords
<1>5. CASE Commit(c) \/ ReadFails(c) \/ PersistGivesUp(c) \/ RenewLease(c)
  BY <1>5, Moves DEF Commit, ReadFails, PersistGivesUp, RenewLease
<1>6. CASE Load(c)
  BY <1>1, <1>6 DEF Load, CallRecords
<1>7. CASE LoadJournal(c)
  <2>1. CASE journal = NoToken
    BY <1>7, <2>1, Moves DEF LoadJournal
  <2>2. CASE journal # NoToken
    <3>1. call'[c] = Replacing(call[c], "persist", journal, "decide", TRUE)
      BY <1>1, <1>7, <2>2 DEF LoadJournal
    <3>2. call'[c].pc = "persist" /\ call'[c].base = journal
      BY <1>1, <3>1 DEF Replacing, CallRecords
    <3>3. QED
      BY <1>7, <2>2, <3>2
  <2>3. QED
    BY <2>1, <2>2
<1>8. CASE Decide(c)
  BY <1>8, Moves DEF Decide
<1>9. CASE Renew(c)
  BY <1>1, <1>9 DEF Renew, Replacing, CallRecords, Idle
<1>10. CASE Spend(c)
  BY <1>1, <1>10, Moves DEF Spend, CallRecords
<1>11. CASE SpendFails(c)
  BY <1>11, Moves DEF SpendFails
<1>12. CASE Save(c)
  BY <1>1, <1>12, Moves DEF Save, CallRecords, At
<1>13. CASE PersistWrite(c)
  BY <1>13, Moves DEF PersistWrite, At
<1>14. CASE Verify(c)
  <2>1. CASE Goto(c, "persist")
    BY <1>14, <2>1, Moves DEF Verify, At
  <2>2. CASE ~Goto(c, "persist")
    <3> DEFINE m == [call[c] EXCEPT !.tokens = vault,
                                    !.rotated = IF @ = "no" THEN "adopted" ELSE @]
    <3>1. m.resume \in {"none", "decide", "fetch"} /\ [m EXCEPT !.pc = "clear"].pc = "clear"
          /\ Resumed(m).pc = m.resume
      BY <1>1 DEF CallRecords, Resumed
    <3>2. call' = [call EXCEPT ![c] = IF m.journaled THEN [m EXCEPT !.pc = "clear"] ELSE Resumed(m)]
      BY <1>14, <2>2 DEF Verify
    <3>3. call'[c].pc \in {"clear", "none", "decide", "fetch"}
      BY <1>1, <3>1, <3>2
    <3>4. QED
      BY <3>3
  <2>3. QED
    BY <2>1, <2>2
<1>15. CASE Clear(c)
  <2>1. call'[c].pc = call[c].resume /\ call[c].resume \in {"none", "decide", "fetch"}
    BY <1>1, <1>15 DEF Clear, Resumed, CallRecords
  <2>2. QED
    BY <2>1
<1>16. CASE Fetch(c)
  BY <1>16, Moves DEF Fetch
<1>17. QED
  BY <1>2, <1>3, <1>4, <1>5, <1>6, <1>7, <1>8, <1>9, <1>10, <1>11, <1>12, <1>13, <1>14, <1>15,
     <1>16 DEF Step

\* A doomed account stays so: nobody can spend what the vault holds, and nobody
\* is left who could write its replacement.
LEMMA DoomedStays ==
    ASSUME Undisturbed, IInv, LeaseInv, SoleInv, SoleInv', [Next]_vars, Doomed
    PROVE  Doomed'
<1>1. vault \in Tokens /\ vault # NoToken /\ vault' \in Tokens /\ vault'.epoch = vault.epoch
  BY Alone DEF SoleInv
<1>2. revoked \subseteq revoked'
  BY DEF Next, Step, vars, shared, fixed, Start, Get, Claim, Release, Load, LoadJournal, Decide,
     Renew, Spend, SpendFails, Save, PersistWrite, Verify, PersistGivesUp, Clear, Fetch, Commit,
     CoordinationFails, ReadFails, RenewLease, Crash, LeaseExpires, RowAges, Connect, Remove,
     ResetRow, TokenExpires, Revoke
<1>3. CASE vault.epoch \in revoked
  BY <1>1, <1>2, <1>3 DEF Doomed
<1>4. CASE vault.epoch \notin revoked
  <2>1. /\ vault # Grant /\ journal # vault
        /\ \A d \in Pollers : Writing(call[d]) => call[d].base # vault
    BY <1>4 DEF Doomed, Writing
  <2>2. ASSUME NEW c \in Pollers,
               Step(c) \/ CoordinationFails(c) \/ ReadFails(c) \/ RenewLease(c) \/ Crash(c)
        PROVE  Doomed'
    <3>1. ~Spend(c)
      <4>1. SUFFICES ASSUME Spend(c) PROVE FALSE
        OBVIOUS
      <4>2. call[c].base = vault /\ live[vault.epoch] = vault.gen
        BY <4>1 DEF Spend, Accepted, SoleInv, Sole, At
      <4>3. vault = [epoch |-> vault.epoch, gen |-> vault.gen]
        BY <1>1 DEF Tokens
      <4>4. QED
        BY <2>1, <4>2, <4>3 DEF Grant
    <3>2. vault' = vault
      BY <2>1, <2>2, <3>1 DEF Step, Start, Get, Claim, Release, Load, LoadJournal, Decide,
         Renew, SpendFails, Save, PersistWrite, Persisted, Verify, PersistGivesUp, Clear, Fetch,
         Commit, CoordinationFails, ReadFails, RenewLease, Crash, shared, Writing, At
    <3>3. live' = live
      BY <2>2, <3>1 DEF Step, Start, Get, Claim, Release, Load, LoadJournal, Decide,
         Renew, SpendFails, Save, PersistWrite, Verify, PersistGivesUp, Clear, Fetch,
         Commit, CoordinationFails, ReadFails, RenewLease, Crash, shared
    <3>4. journal' # vault
      BY <1>1, <2>1, <2>2, <3>1 DEF Step, Start, Get, Claim, Release, Load, LoadJournal, Decide,
         Renew, SpendFails, Save, PersistWrite, Verify, PersistGivesUp, Clear, Cleared, Fetch,
         Commit, CoordinationFails, ReadFails, RenewLease, Crash, shared, Writing, At
    <3>5. ASSUME NEW d \in Pollers, Writing(call'[d]) PROVE call'[d].base # vault
      <4>1. CASE d = c
        BY <2>1, <2>2, <3>1, <3>5, <4>1, Outcomes DEF IInv
      <4>2. CASE d # c
        BY <2>1, <2>2, <3>5, <4>2, PollerSteps DEF IInv
      <4>3. QED
        BY <4>1, <4>2
    <3>6. QED
      BY <2>1, <3>2, <3>3, <3>4, <3>5 DEF Doomed, Grant, Writing
  <2>3. CASE LeaseExpires \/ RowAges \/ Connect \/ Remove \/ ResetRow \/ TokenExpires \/ Revoke
             \/ UNCHANGED vars
    <3>1. ~Connect /\ ~Remove /\ ~ResetRow
      BY Facts DEF Undisturbed, Connect, Remove, ResetRow, LeaseInv, IInv, TypeOK, Epochs
    <3>2. UNCHANGED <<call, vault, journal, live>>
      BY <2>3, <3>1 DEF LeaseExpires, RowAges, TokenExpires, Revoke, vars, shared, fixed
    <3>3. QED
      BY <2>1, <3>2 DEF Doomed, Grant, Writing
  <2>4. QED
    BY <2>2, <2>3 DEF Next
<1>5. QED
  BY <1>3, <1>4

\* What a call that has read the account is refused for good dooms it.
LEMMA RefusedIsDoomed ==
    ASSUME Undisturbed, IInv, LeaseInv, SoleInv, NEW c \in Pollers,
           call[c].pc \in {"spend", "fetch"}, Renewable(vault), ~Accepted(vault)
    PROVE  Doomed
<1>1. journal # vault
  BY DEF SoleInv, Sole
<1>2. vault.epoch \notin revoked => vault # Grant
  BY DEF Accepted, Grant, SoleInv, Tokens
<1>3. \A d \in Pollers : ~Writing(call[d])
  <2>1. SUFFICES ASSUME NEW d \in Pollers, Writing(call[d]) PROVE FALSE
    OBVIOUS
  <2>2. Working(c) /\ Working(d)
    BY <2>1 DEF Writing, Working, Claimed, At
  <2>3. QED
    BY <2>1, <2>2, Alone DEF Writing
<1>4. QED
  BY <1>1, <1>2, <1>3 DEF Doomed, Writing

\* Without a failure that leaves a record behind, no call ever adopts one.
LEMMA StepTidy ==
    ASSUME Undisturbed, IInv, LeaseInv, SoleInv, TidyInv, [Next]_vars
    PROVE  TidyInv'
<1>1. SUFFICES ASSUME Faults \cap Orphaning = {} PROVE TidyInv'
  BY DEF TidyInv
<1>2. /\ "crash" \notin Faults /\ "journal" \notin Faults /\ "storage" \notin Faults
      /\ vault \in Tokens /\ vault # NoToken
  BY <1>1, Alone DEF Orphaning
<1>3. ASSUME NEW c \in Pollers,
             Step(c) \/ CoordinationFails(c) \/ ReadFails(c) \/ RenewLease(c) \/ Crash(c)
      PROVE  TidyInv'
  <2>1. call \in [Pollers -> CallRecords] /\ call[c] \in CallRecords
        /\ call' \in [Pollers -> CallRecords]
        /\ \A d \in Pollers \ {c} : call'[d] = call[d]
    BY <1>3, StepIInv, PollerSteps DEF IInv, TypeOK, Next
  <2>2. /\ call[c].rotated # "adopted"
        /\ Writing(call[c]) => call[c].rotated = "renewed"
        /\ Recording(call[c]) => call[c].journaled /\ journal = call[c].base
    BY <1>1 DEF TidyInv, Writing
  <2>3. Working(c) /\ ~Recording(call[c]) => journal = NoToken
    <3>1. ASSUME Working(c), NEW d \in Pollers, Recording(call[d]) PROVE d = c
      BY <3>1, Alone DEF Recording, Working, Claimed, At
    <3>2. QED
      BY <1>1, <3>1 DEF TidyInv
  <2> DEFINE Good == /\ call'[c].rotated # "adopted"
                     /\ Writing(call'[c]) => call'[c].rotated = "renewed"
                     /\ Recording(call'[c]) => call'[c].journaled /\ journal' = call'[c].base
                     /\ \/ journal' = NoToken
                        \/ Recording(call'[c])
                        \/ journal' = journal /\ ~Recording(call[c])
                     /\ journal' = journal \/ Working(c)
  <2>4. ASSUME call'[c].pc \notin {"save", "persist", "verify", "clear"}, ~Recording(call[c]),
               journal' = journal, call'[c].rotated # "adopted"
        PROVE  Good
    BY <2>4 DEF Writing, Recording
  <2>5. ASSUME Start(c) \/ Get(c) \/ Claim(c) \/ CoordinationFails(c) \/ Release(c) \/ Commit(c)
               \/ SpendFails(c)
        PROVE  Good
    <3>1. journal' = journal /\ ~Recording(call[c])
      BY <2>5 DEF Start, Get, Claim, CoordinationFails, Release, Commit, SpendFails, shared,
         Recording, At, Verdicts
    <3>2. call'[c].pc \notin {"save", "persist", "verify", "clear"} /\ call'[c].rotated # "adopted"
      <4>1. CASE Start(c)
        <5>1. /\ [Idle EXCEPT !.pc = "get", !.tokens = vault].pc = "get"
              /\ [Idle EXCEPT !.pc = "get", !.tokens = vault].rotated = "no"
          BY DEF Idle
        <5>2. QED
          BY <2>1, <4>1, <5>1 DEF Start
      <4>2. CASE Get(c)
        BY <2>1, <2>2, <4>2, Moves DEF Get, CallRecords, IInv
      <4>3. CASE Claim(c)
        BY <2>1, <2>2, <4>3, Moves DEF Claim, End, CallRecords, IInv
      <4>4. CASE CoordinationFails(c) \/ Release(c) \/ Commit(c) \/ SpendFails(c)
        BY <2>2, <4>4, Moves DEF CoordinationFails, Release, Commit, SpendFails, End, IInv
      <4>5. QED
        BY <2>5, <4>1, <4>2, <4>3, <4>4
    <3>3. QED
      BY <2>4, <3>1, <3>2
  <2>6. ASSUME Load(c) \/ LoadJournal(c) \/ Decide(c) \/ Renew(c) \/ Fetch(c) PROVE Good
    <3>1. journal' = journal /\ ~Recording(call[c]) /\ Working(c)
      BY <2>6 DEF Load, LoadJournal, Decide, Renew, Fetch, shared, Recording, Working, Claimed, At
    <3>2. call'[c].pc \notin {"save", "persist", "verify", "clear"} /\ call'[c].rotated # "adopted"
      <4>1. CASE Load(c)
        BY <2>1, <2>2, <4>1 DEF Load, CallRecords
      <4>2. CASE LoadJournal(c)
        BY <2>2, <2>3, <3>1, <4>2, Moves DEF LoadJournal, IInv
      <4>3. CASE Decide(c) \/ Fetch(c)
        BY <2>2, <4>3, Moves DEF Decide, Fetch, IInv
      <4>4. CASE Renew(c)
        BY <2>1, <2>2, <4>4 DEF Renew, Replacing, CallRecords, Idle
      <4>5. QED
        BY <2>6, <4>1, <4>2, <4>3, <4>4
    <3>3. QED
      BY <2>4, <3>1, <3>2
  <2>7. ASSUME Spend(c) PROVE Good
    <3>1. journal' = journal /\ ~Recording(call[c])
      BY <2>7 DEF Spend, Recording, At
    <3>2. \/ call'[c].pc = "release" /\ call'[c].rotated = "no"
          \/ call'[c].pc = "save" /\ call'[c].rotated = "renewed"
      BY <2>1, <2>7, Moves DEF Spend, CallRecords, IInv
    <3>3. QED
      BY <3>1, <3>2 DEF Writing, Recording
  <2>8. ASSUME Save(c) PROVE Good
    <3>1. journal = NoToken /\ Working(c)
      BY <2>3, <2>8 DEF Save, Recording, Working, Claimed, At
    <3>2. journal' = call[c].base
          /\ call' = [call EXCEPT ![c].pc = "persist", ![c].journaled = TRUE]
      BY <1>2, <2>8, <3>1 DEF Save, MayReplace
    <3>3. /\ call'[c].pc = "persist" /\ call'[c].journaled
          /\ call'[c].base = call[c].base /\ call'[c].rotated = call[c].rotated
      BY <2>1, <3>2 DEF CallRecords
    <3>4. QED
      BY <2>2, <2>8, <3>1, <3>2, <3>3 DEF Save, Writing, Recording, At
  <2>9. ASSUME PersistWrite(c) PROVE Good
    <3>1. journal' = journal /\ Goto(c, "verify")
      BY <1>2, <2>9 DEF PersistWrite
    <3>2. QED
      BY <2>2, <2>9, <3>1, Moves DEF PersistWrite, Writing, Recording, At, IInv
  <2>10. ASSUME Verify(c) PROVE Good
    <3>1. journal' = journal /\ Writing(call[c]) /\ Recording(call[c])
      BY <2>10 DEF Verify, Writing, Recording, At, shared
    <3>2. CASE Goto(c, "persist")
      BY <2>2, <3>1, <3>2, Moves DEF Writing, Recording, IInv
    <3>3. CASE ~Goto(c, "persist")
      <4> DEFINE m == [call[c] EXCEPT !.tokens = vault,
                                      !.rotated = IF @ = "no" THEN "adopted" ELSE @]
      <4>1. m.journaled /\ m.base = call[c].base /\ m.rotated = "renewed" /\ m \in CallRecords
        BY <2>1, <2>2, <3>1 DEF CallRecords, IInv, TypeOK
      <4>2. call' = [call EXCEPT ![c] = IF m.journaled THEN [m EXCEPT !.pc = "clear"]
                                        ELSE Resumed(m)]
        BY <2>10, <3>3 DEF Verify
      <4> HIDE DEF m
      <4>3. call'[c] = [m EXCEPT !.pc = "clear"]
        BY <2>1, <4>1, <4>2
      <4>4. /\ call'[c].pc = "clear" /\ call'[c].journaled
            /\ call'[c].base = call[c].base /\ call'[c].rotated = "renewed"
        BY <4>1, <4>3 DEF CallRecords
      <4>5. QED
        BY <2>2, <3>1, <4>4 DEF Writing, Recording
    <3>4. QED
      BY <3>2, <3>3
  <2>11. ASSUME Clear(c) PROVE Good
    <3>1. journal' = NoToken /\ Working(c)
      BY <1>2, <2>2, <2>11 DEF Clear, Cleared, Recording, Working, Claimed, At
    <3>2. /\ call'[c].pc = call[c].resume /\ call[c].resume \in {"none", "decide", "fetch"}
          /\ call'[c].rotated = call[c].rotated
      BY <2>1, <2>11 DEF Clear, Resumed, CallRecords
    <3>3. QED
      BY <2>2, <3>1, <3>2 DEF Writing, Recording
  <2>12. ASSUME RenewLease(c) PROVE Good
    BY <2>2, <2>12 DEF RenewLease, shared
  <2>13. ~ReadFails(c) /\ ~Crash(c) /\ ~PersistGivesUp(c)
    BY <1>2 DEF ReadFails, Crash, PersistGivesUp
  <2>14. Good
    BY <1>3, <2>5, <2>6, <2>7, <2>8, <2>9, <2>10, <2>11, <2>12, <2>13 DEF Step
  <2>15. ASSUME NEW d \in Pollers, d # c, Recording(call[d]) PROVE ~Working(c)
    BY <2>15, Alone DEF Recording, Working, Claimed, At
  <2>16. \A d \in Pollers :
            /\ call'[d].rotated # "adopted"
            /\ Writing(call'[d]) => call'[d].rotated = "renewed"
            /\ Recording(call'[d]) => call'[d].journaled /\ journal' = call'[d].base
    <3>1. SUFFICES ASSUME NEW d \in Pollers, d # c
                   PROVE  /\ call[d].rotated # "adopted"
                          /\ Writing(call[d]) => call[d].rotated = "renewed"
                          /\ Recording(call[d]) => call[d].journaled /\ journal' = call[d].base
      BY <2>1, <2>14
    <3>2. QED
      BY <1>1, <2>14, <2>15, <3>1 DEF TidyInv, Writing
  <2>17. journal' # NoToken => \E d \in Pollers : Recording(call'[d])
    <3>1. SUFFICES ASSUME journal' = journal, journal # NoToken, ~Recording(call[c])
                   PROVE  \E d \in Pollers : Recording(call'[d])
      BY <2>14
    <3>2. PICK d \in Pollers : Recording(call[d])
      BY <1>1, <3>1 DEF TidyInv
    <3>3. QED
      BY <2>1, <3>1, <3>2
  <2>18. QED
    BY <2>16, <2>17 DEF TidyInv, Writing, Recording
<1>4. CASE LeaseExpires \/ RowAges \/ Connect \/ Remove \/ ResetRow \/ TokenExpires \/ Revoke
           \/ UNCHANGED vars
  <2>1. UNCHANGED <<call, journal>>
    BY <1>4 DEF LeaseExpires, RowAges, Connect, Remove, ResetRow, TokenExpires, Revoke, vars,
       shared
  <2>2. QED
    BY <2>1 DEF TidyInv, Recording
<1>5. QED
  BY <1>3, <1>4 DEF Next

\* A verdict is only reached on an account that is doomed.
LEMMA StepVerdict ==
    ASSUME Undisturbed, Honest, IInv, LeaseInv, SoleInv, SoleInv', TidyInv, VerdictInv, [Next]_vars
    PROVE  VerdictInv'
<1>1. vault' \in Tokens /\ vault \in Tokens /\ vault # NoToken
      /\ (Renewable(vault)' <=> Renewable(vault))
  <2>1. vault \in Tokens /\ vault' \in Tokens /\ vault'.epoch = vault.epoch /\ vault # NoToken
    BY Alone DEF SoleInv
  <2>2. accessOnly' = accessOnly
    BY DEF Next, Step, vars, shared, fixed, Start, Get, Claim, Release, Load, LoadJournal, Decide,
       Renew, Spend, SpendFails, Save, PersistWrite, Verify, PersistGivesUp, Clear, Fetch, Commit,
       CoordinationFails, ReadFails, RenewLease, Crash, LeaseExpires, RowAges, Connect, Remove,
       ResetRow, TokenExpires, Revoke
  <2>3. QED
    BY <2>1, <2>2 DEF Renewable
<1>2. Renewable(vault) /\ (row.status = "reauth" \/ \E d \in Pollers : At(d, "reauth")) => Doomed'
  BY DoomedStays DEF VerdictInv
<1>3. ASSUME NEW c \in Pollers,
             Step(c) \/ CoordinationFails(c) \/ ReadFails(c) \/ RenewLease(c) \/ Crash(c)
      PROVE  VerdictInv'
  <2>1. call \in [Pollers -> CallRecords] /\ call[c] \in CallRecords /\ row \in RowRecords
        /\ \A d \in Pollers \ {c} : call'[d] = call[d]
    BY <1>3, PollerSteps DEF IInv, TypeOK
  <2>2. \A d \in Pollers : At(d, "throttled")' => "throttle" \in Faults
    <3>1. call'[c].pc = "throttled" => "throttle" \in Faults
      BY <1>3, Outcomes DEF IInv, VerdictInv, At
    <3>2. QED
      BY <2>1, <3>1 DEF VerdictInv, At
  <2>3. ASSUME Renewable(vault), row'.status = "reauth", row.status # "reauth"
        PROVE  At(c, "reauth")
    <3>1. CASE Commit(c)
      <4>1. row' = Published(c) /\ call[c].pc \in Verdicts
        BY <2>3, <3>1 DEF Commit
      <4>2. row'.status = "reauth" => At(c, "reauth") \/ (At(c, "throttled") /\ ~Managed)
        BY <2>1, <4>1 DEF Published, RowRecords, At
      <4>3. QED
        BY <2>3, <4>2 DEF Honest, VerdictInv
    <3>2. CASE Claim(c) \/ CoordinationFails(c) \/ Release(c) \/ Crash(c) \/ RenewLease(c)
      <4>1. row'.status = row.status
        BY <2>1, <3>2 DEF Claim, CoordinationFails, Release, Released, Crash, End, Abandoned,
           RenewLease, RowRecords
      <4>2. QED
        BY <2>3, <4>1
    <3>3. CASE ~(Commit(c) \/ Claim(c) \/ CoordinationFails(c) \/ Release(c) \/ Crash(c)
                 \/ RenewLease(c))
      <4>1. row' = row
        BY <1>3, <3>3 DEF Step, Start, Get, Load, LoadJournal, Decide, Renew, Spend, SpendFails,
           Save, PersistWrite, Verify, PersistGivesUp, Clear, Fetch, ReadFails
      <4>2. QED
        BY <2>3, <4>1
    <3>4. QED
      BY <3>1, <3>2, <3>3
  <2>4. ASSUME Renewable(vault), call'[c].pc = "reauth", call[c].pc # "reauth" PROVE Doomed'
    <3>1. Renew(c) \/ SpendFails(c) \/ Fetch(c)
      BY <1>3, <2>4, Outcomes DEF IInv
    <3>2. ~Renew(c)
      <4>1. SUFFICES ASSUME Renew(c) PROVE FALSE
        OBVIOUS
      <4>2. \/ call' = [call EXCEPT ![c] = [call[c] EXCEPT !.pc = "fetch", !.tokens = vault]]
            \/ call' = [call EXCEPT ![c] = Replacing(call[c], "spend", vault, "fetch", FALSE)]
        BY <1>1, <2>4, <4>1 DEF Renew
      <4>3. QED
        BY <2>1, <2>4, <4>2 DEF Replacing, CallRecords
    <3>3. SpendFails(c) => ~Accepted(vault) /\ call[c].pc = "spend"
      <4>1. SUFFICES ASSUME SpendFails(c) PROVE ~Accepted(vault) /\ call[c].pc = "spend"
        OBVIOUS
      <4>2. call[c].base = vault
        BY <4>1 DEF SpendFails, SoleInv, Sole, At
      <4>3. QED
        BY <2>4, <4>1, <4>2, Moves DEF SpendFails, IInv, At
    <3>4. Fetch(c) => ~Accepted(vault) /\ call[c].pc = "fetch"
      <4>1. SUFFICES ASSUME Fetch(c) PROVE ~Accepted(vault) /\ call[c].pc = "fetch"
        OBVIOUS
      <4>2. call[c].tokens = vault /\ call[c].pc = "fetch"
        BY <4>1 DEF Fetch, SoleInv, Sole, At
      <4>3. call[c].rotated # "no"
            /\ \/ MayReject /\ call[c].rotated # "renewed"
               \/ vault.epoch \in revoked \/ vault.gen < live[vault.epoch]
        BY <2>4, <4>1, <4>2, Moves DEF Fetch, IInv
      <4>4. ~(MayReject /\ call[c].rotated # "renewed")
        BY <2>1, <4>3 DEF Honest, TidyInv, CallRecords
      <4>5. vault.gen < live[vault.epoch] => live[vault.epoch] # vault.gen
        BY <1>1 DEF Tokens
      <4>6. QED
        BY <4>2, <4>3, <4>4, <4>5 DEF Accepted
    <3>5. QED
      BY <2>4, <3>1, <3>2, <3>3, <3>4, RefusedIsDoomed, DoomedStays
  <2>5. Renewable(vault)' /\ (row'.status = "reauth" \/ \E d \in Pollers : At(d, "reauth")') => Doomed'
    BY <1>1, <1>2, <2>1, <2>3, <2>4 DEF At
  <2>6. QED
    BY <2>2, <2>5 DEF VerdictInv
<1>4. CASE LeaseExpires \/ RowAges \/ Connect \/ Remove \/ ResetRow \/ TokenExpires \/ Revoke
           \/ UNCHANGED vars
  <2>1. ~Connect /\ ~Remove /\ ~ResetRow
    BY Facts DEF Undisturbed, Connect, Remove, ResetRow, LeaseInv, IInv, TypeOK, Epochs
  <2>2. call' = call /\ row'.status = row.status
    BY <1>4, <2>1 DEF LeaseExpires, RowAges, TokenExpires, Revoke, vars, shared, RowRecords,
       IInv, TypeOK
  <2>3. QED
    BY <1>1, <1>2, <2>2 DEF VerdictInv, At
<1>5. QED
  BY <1>3, <1>4 DEF Next

\* While nothing takes a lease away, no access token is refused without reason
\* after a recovery, and throttled renewals are not counted as a refusal, the
\* user is sent to a new login only if the provider accepts the old one no more.
THEOREM ReauthIsProven == Undisturbed /\ Honest => (Spec => []ReauthProven)
<1> SUFFICES ASSUME Undisturbed, Honest PROVE Spec => []ReauthProven
  OBVIOUS
<1>1. Init => TidyInv /\ VerdictInv
  BY Facts DEF Init, TidyInv, VerdictInv, Recording, Idle, NoRow, At
<1>2. ASSUME SoleInv, IInv, VerdictInv PROVE ReauthProven
  <2>1. SUFFICES ASSUME Doomed, Accepted(vault), vault \in Tokens PROVE FALSE
    BY <1>2 DEF ReauthProven, VerdictInv
  <2>2. vault = [epoch |-> vault.epoch, gen |-> vault.gen]
    BY <2>1 DEF Tokens
  <2>3. QED
    BY <2>1, <2>2 DEF Doomed, Accepted, Grant
<1>3. QED
  BY <1>1, <1>2, InitLease, StepLease, InitSole, StepSole, StepTidy, StepVerdict, Inductive,
     Typing, PTL DEF Spec
=============================================================================
