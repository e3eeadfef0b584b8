--------------------------------- MODULE Access ---------------------------------
(***************************************************************************)
(* Getting a session: the limiter of the password gate, whose check comes  *)
(* before the request's body is awaited and whose count comes after, and   *)
(* the bootstrap of a strict-local installation, where a launcher answers  *)
(* a challenge and the browser it opens spends the ticket it got.          *)
(*                                                                         *)
(* An entry whose window has ended stays until a use of the limiter meets  *)
(* it or needs its room.                                                   *)
(***************************************************************************)
EXTENDS Naturals, FiniteSets

CONSTANTS
    Clients,        \* client keys
    SignIns,        \* password requests
    MaxFailures,    \* failures a window allows
    MaxEntries,     \* entries the limiter keeps
    Overflow,       \* the entry shared by clients without one
    Launchers,      \* runs of the launcher
    NoLauncher

ASSUME AccessAssumption ==
    /\ MaxFailures \in Nat \ {0}
    /\ MaxEntries \in Nat \ {0}
    /\ IsFiniteSet(SignIns)
    /\ Overflow \notin Clients
    /\ NoLauncher \notin Launchers

VARIABLES
    failures,       \* entry -> failures in its window, 0 when there is none
    stale,          \* entries whose window has ended
    signIn,         \* request -> the client it was let in for, or Overflow
    challenge,      \* whose challenge is outstanding
    ticket,         \* whose ticket is outstanding
    launcher,       \* launcher -> how far it is
    opened          \* launcher -> sessions opened with its ticket

accessVars == <<failures, stale, signIn, challenge, ticket, launcher, opened>>

Entries == Clients \cup {Overflow}

AccessInit ==
    /\ failures = [e \in Entries |-> 0]
    /\ stale = {}
    /\ signIn = [s \in SignIns |-> Overflow]
    /\ challenge = NoLauncher
    /\ ticket = NoLauncher
    /\ launcher = [l \in Launchers |-> "idle"]
    /\ opened = [l \in Launchers |-> 0]

gateVars == <<failures, stale, signIn>>
bootVars == <<challenge, ticket, launcher, opened>>

-----------------------------------------------------------------------------
Held(e) == failures[e] > 0
DirectEntries == {c \in Clients : Held(c)}

(* check: the client's entry, or else the shared one if there is one. *)
CheckedEntry(c) == IF ~Held(c) /\ Held(Overflow) THEN Overflow ELSE c

(* A plausible slip in check: the entry that is counted in may be another. *)
AllowedByOwn(c) == failures[c] <= MaxFailures

Allowed(c) == failures[CheckedEntry(c)] < MaxFailures

(* storageKey for a client without an entry: when room is short, the entries
   whose window has ended go. *)
Swept(c) ==
    IF Held(c) \/ Cardinality({e \in Entries : Held(e)}) < MaxEntries - 1
    THEN {} ELSE stale

(* One entry is reserved for the clients that find no room. *)
CountedEntry(c) ==
    IF Held(c) \/ Cardinality(DirectEntries \ Swept(c)) < MaxEntries - 1
    THEN c ELSE Overflow

(* authenticatePasswordRequest up to the read of the body: the check drops an
   entry whose window has ended. *)
Attempt(s, c) ==
    LET e == CheckedEntry(c) IN
    /\ signIn[s] = Overflow
    /\ e \in stale \/ Allowed(c)
    /\ signIn' = [signIn EXCEPT ![s] = c]
    /\ failures' = [failures EXCEPT ![e] = IF e \in stale THEN 0 ELSE @]
    /\ stale' = stale \ {e}
    /\ UNCHANGED bootVars

(* The body cannot be read or the password is wrong: recordFailure. *)
WrongPassword(s) ==
    LET c == signIn[s]
        counted == CountedEntry(c)
        dropped == Swept(c) \cup (stale \cap {counted})
        left(e) == IF e \in dropped THEN 0 ELSE failures[e]
    IN  /\ signIn[s] # Overflow
        /\ failures' = [e \in Entries |-> IF e = counted THEN left(e) + 1 ELSE left(e)]
        /\ stale' = stale \ dropped
        /\ signIn' = [signIn EXCEPT ![s] = Overflow]
        /\ UNCHANGED bootVars

(* The password is right: the client's own entry is reset, and the route
   creates a session. *)
RightPassword(s) ==
    /\ signIn[s] # Overflow
    /\ failures' = [failures EXCEPT ![signIn[s]] = 0]
    /\ stale' = stale \ {signIn[s]}
    /\ signIn' = [signIn EXCEPT ![s] = Overflow]
    /\ UNCHANGED bootVars

(* Fifteen minutes after the first failure of an entry. *)
WindowEnds(e) ==
    /\ Held(e) /\ e \notin stale
    /\ stale' = stale \cup {e}
    /\ UNCHANGED <<failures, signIn, bootVars>>

-----------------------------------------------------------------------------
LauncherGoes(l, at) == launcher' = [launcher EXCEPT ![l] = at]

(* GET start: a new challenge replaces the one outstanding. *)
AskChallenge(l) ==
    /\ launcher[l] = "idle"
    /\ challenge' = l
    /\ LauncherGoes(l, "challenged")
    /\ UNCHANGED <<ticket, opened, gateVars>>

(* POST start: whatever is posted, the challenge outstanding is spent; the
   proof of the one that is outstanding earns the only ticket. *)
Prove(l) ==
    /\ launcher[l] = "challenged"
    /\ challenge' = NoLauncher
    /\ \/ /\ challenge = l
          /\ ticket' = l
          /\ LauncherGoes(l, "ticketed")
       \/ UNCHANGED ticket /\ LauncherGoes(l, "done")
    /\ UNCHANGED <<opened, gateVars>>

(* A plausible slip in consume: a ticket that opened a session is kept. *)
KeepsTicket(l) == ticket

(* What consume leaves outstanding. *)
TicketAfter(l) == NoLauncher

(* The page the launcher opened, and every further one with its address,
   posts the ticket; any post spends the one outstanding. *)
OpenSession(l) ==
    /\ launcher[l] = "ticketed"
    /\ opened' = IF ticket = l THEN [opened EXCEPT ![l] = @ + 1] ELSE opened
    /\ ticket' = TicketAfter(l)
    /\ LauncherGoes(l, "ticketed") \/ LauncherGoes(l, "done")
    /\ UNCHANGED <<challenge, gateVars>>

(* A challenge or a ticket outlives its seconds, or the process its memory. *)
Lapsed ==
    /\ challenge # NoLauncher \/ ticket # NoLauncher
    /\ challenge' \in {challenge, NoLauncher}
    /\ ticket' \in {ticket, NoLauncher}
    /\ UNCHANGED <<launcher, opened, gateVars>>

AccessNext ==
    \/ \E s \in SignIns :
          \/ WrongPassword(s) \/ RightPassword(s)
          \/ \E c \in Clients : Attempt(s, c)
    \/ \E e \in Entries : WindowEnds(e)
    \/ \E l \in Launchers : AskChallenge(l) \/ Prove(l) \/ OpenSession(l)
    \/ Lapsed

AccessSpec == AccessInit /\ [][AccessNext]_accessVars
=============================================================================
