------------------------------- MODULE AccessProps -------------------------------
(***************************************************************************)
(* What the ways to a session promise.                                     *)
(***************************************************************************)
EXTENDS Access

(* Every variable keeps its type. *)
AccessTypeOK ==
    /\ failures \in [Entries -> Nat]
    /\ stale \subseteq {e \in Entries : Held(e)}
    /\ signIn \in [SignIns -> Entries]
    /\ challenge \in Launchers \cup {NoLauncher}
    /\ ticket \in Launchers \cup {NoLauncher}
    /\ launcher \in [Launchers -> {"idle", "challenged", "ticketed", "done"}]
    /\ opened \in [Launchers -> Nat]

(* The requests that were let in and may still be counted in an entry. *)
LetIn == {s \in SignIns : signIn[s] # Overflow}

(* The limiter holds at its bounds: it keeps no more entries than it may,
   and no client fails more often in a window of its own than is allowed, but
   for the requests that were let in at the same time, although the entry a
   request is counted in may not be the one it was checked against.  (The
   shared entry has no such bound: see the README.) *)
LimiterHolds ==
    /\ Cardinality({e \in Entries : Held(e)}) <= MaxEntries
    /\ \A c \in Clients :
          failures[c] + Cardinality({s \in LetIn : signIn[s] = c})
             < MaxFailures + Cardinality(SignIns)

(* A ticket opens one session, however often its page is opened and however
   the challenges and tickets of launchers that run together replace each
   other. *)
TicketOpensOnce == \A l \in Launchers : opened[l] <= 1
=============================================================================
