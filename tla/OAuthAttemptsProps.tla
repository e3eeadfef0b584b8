--------------------------- MODULE OAuthAttemptsProps ---------------------------
(***************************************************************************)
(* What the secure Claude connection promises.                             *)
(***************************************************************************)
EXTENDS OAuthAttempts

(* Every variable keeps its type, and no more attempts are held than there
   is room for. *)
OAuthTypeOK ==
    /\ grant \in [Grants -> GrantStatus]
    /\ page \in [Pages -> PageStates]
    /\ stored \in SUBSET Grants
    /\ Cardinality(GrantsKept) <= MaxGrants

Completing(p) == page[p].at \in {"exchange", "save", "finish"}

(* The claim outlives its deadline and the store's need for room: while a
   request exchanges the code and saves the account, its attempt stays
   processing, no other page's request completes the same attempt, and the
   record or a page says done only of an account in the vault. *)
ClaimKept ==
    /\ \A p \in Pages : Completing(p) =>
          /\ grant[page[p].id] = "processing"
          /\ \A q \in Pages \ {p} : Completing(q) => page[q].id # page[p].id
    /\ \A g \in Grants : grant[g] = "done" => g \in stored
    /\ \A p \in Pages : page[p].at = "done" => page[p].id \in stored
=============================================================================
