----------------------------- MODULE OAuthAttempts -----------------------------
(***************************************************************************)
(* The secure Claude connection of a strict-local installation: attempts   *)
(* kept in memory, a launch that mints the attempt's single state, the     *)
(* callback pages that post the code, and the exchange and save that the   *)
(* first of them to claim the state carries out.                           *)
(*                                                                         *)
(* The store compares a deadline on each use; here it is met in Lapse.     *)
(***************************************************************************)
EXTENDS Naturals, FiniteSets

CONSTANTS
    Grants,         \* ids of attempts, each used once
    Pages,          \* callback pages, each opened once
    MaxGrants,      \* attempts kept at a time
    NoGrant

ASSUME OAuthAssumption ==
    /\ MaxGrants \in Nat \ {0}
    /\ NoGrant \notin Grants

VARIABLES
    grant,          \* attempt -> its status
    page,           \* callback page -> how far its request is
    stored          \* attempts whose account was written to the vault

oauthVars == <<grant, page, stored>>

GrantStatus == {"unused", "created", "pending", "processing", "done", "failed",
                "expired", "gone"}

PageStates == [at : {"unopened", "exchange", "save", "finish", "answer", "done", "failed"},
               id : Grants \cup {NoGrant},
               ok : BOOLEAN]

Unopened == [at |-> "unopened", id |-> NoGrant, ok |-> FALSE]

OAuthInit ==
    /\ grant = [g \in Grants |-> "unused"]
    /\ page = [p \in Pages |-> Unopened]
    /\ stored = {}

GrantsKept == {g \in Grants : grant[g] \notin {"unused", "gone"}}
SetGrant(g, status) == grant' = [grant EXCEPT ![g] = status]

-----------------------------------------------------------------------------
(* What makeRoom may drop. *)
Spent(g) == grant[g] \in {"done", "failed", "expired"}

RoomFor(others) == Cardinality(others) < MaxGrants

(* start, after makeRoom: without room it throws and nothing changes. *)
OpenGrant(g) ==
    \E dropped \in SUBSET {k \in Grants : Spent(k)} :
        /\ grant[g] = "unused"
        /\ RoomFor(GrantsKept \ dropped)
        /\ dropped # {} => Cardinality(GrantsKept \ dropped) = MaxGrants - 1
        /\ grant' = [k \in Grants |-> IF k = g THEN "created"
                                      ELSE IF k \in dropped THEN "gone" ELSE grant[k]]
        /\ UNCHANGED <<page, stored>>

(* launch, once: the browser goes to Claude with the attempt's state. *)
Launch(g) ==
    /\ grant[g] = "created"
    /\ SetGrant(g, "pending")
    /\ UNCHANGED <<page, stored>>

(* A plausible slip in claim: a state that was claimed is claimed again. *)
ClaimableTwice(g) == grant[g] \in {"pending", "processing"}

Claimable(g) == grant[g] = "pending"

(* Claude sends the browser to the callback page, and a page may be sent
   there twice; the page clears its fragment and posts code and state.  The
   claim precedes the request's first await. *)
OpenPage(p, g) ==
    /\ page[p] = Unopened
    /\ grant[g] \notin {"unused", "created"}
    /\ page' = [page EXCEPT ![p] =
                   [at |-> IF Claimable(g) THEN "exchange" ELSE "answer",
                    id |-> g, ok |-> FALSE]]
    /\ IF Claimable(g) THEN SetGrant(g, "processing") ELSE UNCHANGED grant
    /\ UNCHANGED stored

Steps(p, at) == page' = [page EXCEPT ![p] = [@ EXCEPT !.at = at]]

(* exchangeSubscriptionCode, the verifying reads and the identity. *)
ExchangeCode(p) ==
    /\ page[p].at = "exchange"
    /\ Steps(p, "save")
    /\ UNCHANGED <<grant, stored>>

(* saveResolvedAccount. *)
StoreAccount(p) ==
    /\ page[p].at = "save"
    /\ stored' = stored \cup {page[p].id}
    /\ Steps(p, "finish")
    /\ UNCHANGED grant

(* finish changes a record only while it is processing. *)
Finished(g, outcome) ==
    IF grant[g] = "processing" THEN SetGrant(g, outcome) ELSE UNCHANGED grant

(* The exchange, the verification, the identity or the save fails, or the
   account is not the expected one; a save may fail after it was stored. *)
ConnectFails(p) ==
    /\ page[p].at \in {"exchange", "save"}
    /\ Finished(page[p].id, "failed")
    /\ Steps(p, "answer")
    /\ \/ UNCHANGED stored
       \/ page[p].at = "save" /\ stored' = stored \cup {page[p].id}

Finish(p) ==
    /\ page[p].at = "finish"
    /\ Finished(page[p].id, "done")
    /\ page' = [page EXCEPT ![p] =
                   [@ EXCEPT !.at = "answer", !.ok = grant[page[p].id] = "processing"]]
    /\ UNCHANGED stored

(* The page reports a connection for the answer done, and a failure for any
   other and for none. *)
ShowResult(p) ==
    /\ page[p].at = "answer"
    /\ \/ page[p].ok /\ Steps(p, "done")
       \/ Steps(p, "failed")
    /\ UNCHANGED <<grant, stored>>

-----------------------------------------------------------------------------
Lapses(g) == grant[g] \in {"created", "pending"}

(* Five minutes after the start: only what was not claimed expires. *)
Lapse(g) ==
    /\ Lapses(g)
    /\ SetGrant(g, "expired")
    /\ UNCHANGED <<page, stored>>

(* The server restarts: the attempts were in memory only, and a page whose
   request dies shows a failure. *)
RestartConnector ==
    /\ GrantsKept # {}
    /\ grant' = [g \in Grants |-> IF g \in GrantsKept THEN "gone" ELSE grant[g]]
    /\ page' = [p \in Pages |->
                  IF page[p].at \in {"exchange", "save", "finish"}
                  THEN [page[p] EXCEPT !.at = "failed"] ELSE page[p]]
    /\ UNCHANGED stored

OAuthNext ==
    \/ \E g \in Grants : OpenGrant(g) \/ Launch(g) \/ Lapse(g)
    \/ \E p \in Pages :
          \/ \E g \in Grants : OpenPage(p, g)
          \/ ExchangeCode(p) \/ StoreAccount(p) \/ ConnectFails(p) \/ Finish(p)
          \/ ShowResult(p)
    \/ RestartConnector

OAuthSpec == OAuthInit /\ [][OAuthNext]_oauthVars
=============================================================================
