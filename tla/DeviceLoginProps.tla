---------------------------- MODULE DeviceLoginProps ----------------------------
(***************************************************************************)
(* What the device login promises.                                         *)
(***************************************************************************)
EXTENDS DeviceLogin

(* Every variable keeps its type, and no more attempts are held than there
   is room for. *)
DeviceTypeOK ==
    /\ attempt \in [Attempts -> AttemptRecords]
    /\ request \in [Requests -> RequestStates]
    /\ session \in SessionStates
    /\ saved \in SUBSET Attempts
    /\ Cardinality(Kept) <= MaxRecords

Consuming(q) == request[q].at \in {"exchange", "save", "complete"}

(* The granted code is single-use: however many requests poll an attempt and
   whenever their fences end, one of them exchanges it, and while it does
   its attempt is neither polled again nor dropped to make room: it may
   expire, which leaves it without an owner. *)
OneExchange ==
    \A q \in Requests : Consuming(q) =>
        /\ \/ Consumes(q)
           \/ /\ Is(request[q].id, {"expired", "gone"})
              /\ attempt[request[q].id].owner = Nobody
        /\ \A r \in Requests \ {q} : Consuming(r) => request[r].id # request[q].id

(* The browser reports a connection only for an attempt of its own whose
   account is in the vault; an answer to a login that was cancelled does not
   end the one after it. *)
ConnectedIsSaved == session.is = "done" => session.id \in saved
=============================================================================
