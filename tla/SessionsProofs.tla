----------------------------- MODULE SessionsProofs -----------------------------
(***************************************************************************)
(* What the ways into the program promise, for any clients, launchers,     *)
(* attempts, requests and codes.                                           *)
(***************************************************************************)
EXTENDS Sessions, TLAPS, FiniteSetTheorems

-----------------------------------------------------------------------------
(* Access: the limiter.  Where the next failure of a client is counted may
   change between the check and the count, but a client is let in only with
   room for one more failure of its own, and each failure that is counted is
   one request in progress less. *)
LetInFor(c) == {s \in LetIn : signIn[s] = c}

GateInv ==
    /\ failures \in [Entries -> Nat]
    /\ stale \subseteq {e \in Entries : Held(e)}
    /\ signIn \in [SignIns -> Entries]
    /\ IsFiniteSet(DirectEntries) /\ Cardinality(DirectEntries) <= MaxEntries - 1
    /\ \A c \in Clients :
          failures[c] + Cardinality(LetInFor(c)) < MaxFailures + Cardinality(SignIns)

(* The requests let in for a client are as many as a natural number says. *)
LEMMA LetInFinite ==
    ASSUME NEW c
    PROVE  /\ IsFiniteSet(LetInFor(c)) /\ Cardinality(LetInFor(c)) \in Nat
           /\ Cardinality(SignIns) \in Nat
           /\ Cardinality(LetInFor(c)) <= Cardinality(SignIns)
<1>1. LetInFor(c) \subseteq SignIns /\ IsFiniteSet(SignIns)
  BY AccessAssumption DEF LetInFor, LetIn, AccessAssumption
<1>2. QED  BY <1>1, FS_Subset, FS_CardinalityType

(* One element more. *)
LEMMA OneMore ==
    ASSUME NEW S, IsFiniteSet(S), NEW x
    PROVE  /\ IsFiniteSet(S \cup {x}) /\ Cardinality(S) \in Nat
           /\ Cardinality(S \cup {x}) \in Nat /\ Cardinality(S \cup {x}) <= Cardinality(S) + 1
<1> DEFINE T == S \cup {x}
<1>1. Cardinality(S) \in Nat
  BY FS_CardinalityType
<1>2. IsFiniteSet(T) /\ Cardinality(T) = IF x \in S THEN Cardinality(S) ELSE Cardinality(S) + 1
  BY FS_AddElement
<1> HIDE DEF T
<1>3. /\ IsFiniteSet(T) /\ Cardinality(S) \in Nat
      /\ Cardinality(T) \in Nat /\ Cardinality(T) <= Cardinality(S) + 1
  BY <1>1, <1>2
<1>4. QED  BY <1>3 DEF T

(* With no more direct entries than before, the limiter keeps its bound. *)
LEMMA FewerEntries ==
    ASSUME GateInv, failures' \in [Entries -> Nat],
           \A c \in Clients : failures[c] = 0 => failures'[c] = 0
    PROVE  /\ IsFiniteSet(DirectEntries') /\ Cardinality(DirectEntries') <= MaxEntries - 1
<1>1. DirectEntries' \subseteq DirectEntries
  BY DEF DirectEntries, Held, GateInv, Entries
<1>2. QED
  BY <1>1, FS_Subset, FS_CardinalityType, AccessAssumption DEF GateInv, AccessAssumption

(* A request is let in. *)
LEMMA AttemptStep ==
    ASSUME GateInv, NEW s \in SignIns, NEW c \in Clients, Attempt(s, c)
    PROVE  GateInv'
<1> DEFINE e == CheckedEntry(c)
<1>1. /\ failures \in [Entries -> Nat] /\ signIn \in [SignIns -> Entries]
      /\ stale \subseteq {x \in Entries : Held(x)}
      /\ e \in {c, Overflow} /\ e \in Entries /\ c \in Entries /\ c # Overflow
      /\ e = Overflow => failures[c] = 0
      /\ MaxFailures \in Nat \ {0}
  BY AccessAssumption DEF GateInv, CheckedEntry, Entries, Held, AccessAssumption
<1>2. /\ signIn[s] = Overflow /\ signIn' = [signIn EXCEPT ![s] = c]
      /\ failures' = [failures EXCEPT ![e] = IF e \in stale THEN 0 ELSE failures[e]]
      /\ stale' = stale \ {e}
      /\ e \in stale \/ failures[e] < MaxFailures
  BY DEF Attempt, Allowed
<1> HIDE DEF e
<1>3. failures' \in [Entries -> Nat] /\ signIn' \in [SignIns -> Entries]
  BY <1>1, <1>2
<1>4. \A x \in Entries : failures'[x] <= failures[x]
                         /\ (x # e => failures'[x] = failures[x])
  BY <1>1, <1>2
<1>5. stale' \subseteq {x \in Entries : Held(x)'}
  BY <1>1, <1>2, <1>4 DEF Held
<1>6. IsFiniteSet(DirectEntries') /\ Cardinality(DirectEntries') <= MaxEntries - 1
  <2>1. \A d \in Clients : failures[d] = 0 => failures'[d] = 0
    BY <1>1, <1>3, <1>4 DEF Entries
  <2>2. QED  BY <1>3, <2>1, FewerEntries
<1>7. ASSUME NEW d \in Clients
      PROVE  failures'[d] + Cardinality(LetInFor(d)') < MaxFailures + Cardinality(SignIns)
  <2>1. /\ failures[d] \in Nat /\ failures'[d] \in Nat /\ failures'[d] <= failures[d]
    BY <1>1, <1>3, <1>4 DEF Entries
  <2>2. CASE d = c
    <3>1. failures'[c] < MaxFailures
      BY <1>1, <1>2, <1>3, <1>4 DEF Entries
    <3>2. LetInFor(d)' \subseteq SignIns /\ IsFiniteSet(SignIns)
      BY AccessAssumption DEF LetInFor, LetIn, AccessAssumption
    <3>3. /\ Cardinality(LetInFor(d)') \in Nat /\ Cardinality(SignIns) \in Nat
          /\ Cardinality(LetInFor(d)') <= Cardinality(SignIns)
      BY <3>2, FS_Subset, FS_CardinalityType
    <3>4. QED  BY <1>1, <2>1, <2>2, <3>1, <3>3
  <2>3. CASE d # c
    <3>1. LetInFor(d)' = LetInFor(d)
      BY <1>1, <1>2, <2>3 DEF LetInFor, LetIn
    <3>2. QED  BY <1>1, <2>1, <3>1, LetInFinite DEF GateInv
  <2>4. QED  BY <2>2, <2>3
<1>8. QED  BY <1>3, <1>5, <1>6, <1>7 DEF GateInv

(* A request that ends is not counted any more. *)
LEMMA RequestEnds ==
    ASSUME GateInv, NEW s \in SignIns, signIn[s] # Overflow,
           signIn' = [signIn EXCEPT ![s] = Overflow]
    PROVE  /\ signIn[s] \in Clients
           /\ signIn' \in [SignIns -> Entries]
           /\ \A d \in Clients :
                 IF d = signIn[s]
                 THEN Cardinality(LetInFor(d)') + 1 = Cardinality(LetInFor(d))
                      /\ Cardinality(LetInFor(d)') \in Nat
                 ELSE LetInFor(d)' = LetInFor(d)
<1>1. signIn \in [SignIns -> Entries] /\ signIn[s] \in Clients /\ Overflow \notin Clients
  BY AccessAssumption DEF GateInv, Entries, AccessAssumption
<1>2. signIn' \in [SignIns -> Entries]
  BY <1>1 DEF Entries
<1>3. ASSUME NEW d \in Clients
      PROVE  IF d = signIn[s]
             THEN Cardinality(LetInFor(d)') + 1 = Cardinality(LetInFor(d))
                  /\ Cardinality(LetInFor(d)') \in Nat
             ELSE LetInFor(d)' = LetInFor(d)
  <2>1. CASE d = signIn[s]
    <3>1. LetInFor(d)' = LetInFor(d) \ {s} /\ s \in LetInFor(d)
      BY <1>1, <2>1 DEF LetInFor, LetIn
    <3>2. /\ IsFiniteSet(LetInFor(d)) /\ IsFiniteSet(LetInFor(d) \ {s})
          /\ Cardinality(LetInFor(d) \ {s}) = Cardinality(LetInFor(d)) - 1
      BY <3>1, LetInFinite, FS_RemoveElement
    <3>3. Cardinality(LetInFor(d)) \in Nat /\ Cardinality(LetInFor(d) \ {s}) \in Nat
      BY <3>2, FS_CardinalityType
    <3>4. QED  BY <2>1, <3>1, <3>2, <3>3
  <2>2. CASE d # signIn[s]
    <3>1. LetInFor(d)' = LetInFor(d)
      BY <1>1, <2>2 DEF LetInFor, LetIn
    <3>2. QED  BY <2>2, <3>1
  <2>3. QED  BY <2>1, <2>2
<1>4. QED  BY <1>1, <1>2, <1>3

(* A failure is counted, in an entry there is room for. *)
LEMMA WrongPasswordStep ==
    ASSUME GateInv, NEW s \in SignIns, WrongPassword(s)
    PROVE  GateInv'
<1> DEFINE c == signIn[s]
           counted == CountedEntry(c)
           dropped == Swept(c) \cup (stale \cap {counted})
           left(e) == IF e \in dropped THEN 0 ELSE failures[e]
<1>1. /\ signIn[s] # Overflow /\ signIn' = [signIn EXCEPT ![s] = Overflow]
      /\ failures' = [e \in Entries |-> IF e = counted THEN left(e) + 1 ELSE left(e)]
      /\ stale' = stale \ dropped
  BY DEF WrongPassword
<1>2. /\ c \in Clients /\ c \in Entries /\ c # Overflow
      /\ signIn' \in [SignIns -> Entries]
      /\ \A d \in Clients :
            IF d = c THEN Cardinality(LetInFor(d)') + 1 = Cardinality(LetInFor(d))
                          /\ Cardinality(LetInFor(d)') \in Nat
            ELSE LetInFor(d)' = LetInFor(d)
  BY <1>1, RequestEnds DEF Entries
<1>3. /\ failures \in [Entries -> Nat] /\ stale \subseteq {x \in Entries : Held(x)}
      /\ counted \in {c, Overflow}
  BY DEF GateInv, CountedEntry
<1>4. failures' \in [Entries -> Nat]
  BY <1>1, <1>3
<1>5. ASSUME Held(c) \/ counted = Overflow, NEW d \in Clients, failures[d] = 0
      PROVE  failures'[d] = 0
  <2>1. d \in Entries /\ d # Overflow
    BY AccessAssumption DEF Entries, AccessAssumption
  <2>2. d # counted
    BY <1>3, <1>5, <2>1 DEF Held
  <2>3. QED  BY <1>1, <1>5, <2>1, <2>2
<1>6. IsFiniteSet(DirectEntries') /\ Cardinality(DirectEntries') <= MaxEntries - 1
  <2>1. CASE Held(c) \/ counted = Overflow
    BY <1>4, <1>5, <2>1, FewerEntries
  <2>2. CASE ~Held(c) /\ counted # Overflow
    <3> DEFINE others == DirectEntries \ Swept(c)
    <3>1. Cardinality(others) < MaxEntries - 1 /\ counted = c
      BY <1>3, <2>2 DEF CountedEntry
    <3>2. IsFiniteSet(others) /\ Cardinality(others) \in Nat
      BY FS_Subset, FS_CardinalityType DEF GateInv
    <3>3. DirectEntries' \subseteq others \cup {c}
      BY <1>1, <1>3, <1>4, <3>1 DEF DirectEntries, Held, Entries
    <3> HIDE DEF others
    <3>4. /\ IsFiniteSet(others \cup {c})
          /\ Cardinality(others \cup {c}) <= MaxEntries - 1
      <4>1. /\ IsFiniteSet(others \cup {c})
            /\ Cardinality(others \cup {c}) <= Cardinality(others) + 1
            /\ Cardinality(others \cup {c}) \in Nat
        BY <3>2, OneMore
      <4>2. MaxEntries \in Nat
        BY AccessAssumption DEF AccessAssumption
      <4>3. QED  BY <3>1, <3>2, <4>1, <4>2
    <3>5. /\ IsFiniteSet(DirectEntries')
          /\ Cardinality(DirectEntries') <= Cardinality(others \cup {c})
      BY <3>3, <3>4, FS_Subset
    <3>6. Cardinality(DirectEntries') \in Nat /\ Cardinality(others \cup {c}) \in Nat
          /\ MaxEntries \in Nat
      BY <3>4, <3>5, FS_CardinalityType, AccessAssumption DEF AccessAssumption
    <3>7. QED  BY <3>4, <3>5, <3>6
  <2>3. QED  BY <1>3, <2>1, <2>2
<1>7. stale' \subseteq {x \in Entries : Held(x)'}
  <2>1. ASSUME NEW x \in stale' PROVE x \in Entries /\ failures'[x] > 0
    BY <1>1, <1>3, <2>1 DEF Held
  <2>2. QED  BY <2>1 DEF Held
<1>8. ASSUME NEW d \in Clients
      PROVE  failures'[d] + Cardinality(LetInFor(d)') < MaxFailures + Cardinality(SignIns)
  <2>1. /\ failures[d] \in Nat /\ failures'[d] \in Nat /\ d # Overflow
        /\ failures'[d] <= IF d = c THEN failures[d] + 1 ELSE failures[d]
    BY <1>1, <1>2, <1>3, AccessAssumption DEF Entries, AccessAssumption
  <2>2. failures[d] + Cardinality(LetInFor(d)) < MaxFailures + Cardinality(SignIns)
    BY DEF GateInv
  <2>3. /\ Cardinality(LetInFor(d)) \in Nat /\ Cardinality(SignIns) \in Nat
        /\ MaxFailures \in Nat
    BY LetInFinite, AccessAssumption DEF AccessAssumption
  <2>4. CASE d = c
    <3>1. /\ Cardinality(LetInFor(d)') + 1 = Cardinality(LetInFor(d))
          /\ Cardinality(LetInFor(d)') \in Nat
      BY <1>2, <2>4
    <3>2. QED  BY <2>1, <2>2, <2>3, <2>4, <3>1
  <2>5. CASE d # c
    <3>1. LetInFor(d)' = LetInFor(d)
      BY <1>2, <2>5
    <3>2. QED  BY <2>1, <2>2, <2>3, <2>5, <3>1
  <2>6. QED  BY <2>4, <2>5
<1>9. QED  BY <1>2, <1>4, <1>6, <1>7, <1>8 DEF GateInv

(* The right password resets the client's entry. *)
LEMMA RightPasswordStep ==
    ASSUME GateInv, NEW s \in SignIns, RightPassword(s)
    PROVE  GateInv'
<1> DEFINE c == signIn[s]
<1>1. /\ signIn[s] # Overflow /\ signIn' = [signIn EXCEPT ![s] = Overflow]
      /\ failures' = [failures EXCEPT ![c] = 0]
      /\ stale' = stale \ {c}
  BY DEF RightPassword
<1>2. /\ c \in Clients /\ c \in Entries
      /\ signIn' \in [SignIns -> Entries]
      /\ \A d \in Clients :
            IF d = c THEN Cardinality(LetInFor(d)') + 1 = Cardinality(LetInFor(d))
                          /\ Cardinality(LetInFor(d)') \in Nat
            ELSE LetInFor(d)' = LetInFor(d)
  BY <1>1, RequestEnds DEF Entries
<1>3. failures \in [Entries -> Nat] /\ stale \subseteq {x \in Entries : Held(x)}
  BY DEF GateInv
<1>4. /\ failures' \in [Entries -> Nat] /\ failures'[c] = 0
      /\ \A x \in Entries : x # c => failures'[x] = failures[x]
  BY <1>1, <1>2, <1>3
<1>5. IsFiniteSet(DirectEntries') /\ Cardinality(DirectEntries') <= MaxEntries - 1
  <2>1. \A d \in Clients : failures[d] = 0 => failures'[d] = 0
    BY <1>4 DEF Entries
  <2>2. QED  BY <1>4, <2>1, FewerEntries
<1>6. stale' \subseteq {x \in Entries : Held(x)'}
  BY <1>1, <1>3, <1>4 DEF Held
<1>7. ASSUME NEW d \in Clients
      PROVE  failures'[d] + Cardinality(LetInFor(d)') < MaxFailures + Cardinality(SignIns)
  <2>1. failures[d] + Cardinality(LetInFor(d)) < MaxFailures + Cardinality(SignIns)
    BY DEF GateInv
  <2>2. /\ Cardinality(LetInFor(d)) \in Nat /\ Cardinality(SignIns) \in Nat
        /\ MaxFailures \in Nat /\ failures[d] \in Nat /\ d \in Entries
    BY <1>3, LetInFinite, AccessAssumption DEF AccessAssumption, Entries
  <2>3. CASE d = c
    <3>1. /\ Cardinality(LetInFor(d)') + 1 = Cardinality(LetInFor(d))
          /\ Cardinality(LetInFor(d)') \in Nat
      BY <1>2, <2>3
    <3>2. QED  BY <1>4, <2>1, <2>2, <2>3, <3>1
  <2>4. CASE d # c
    <3>1. LetInFor(d)' = LetInFor(d)
      BY <1>2, <2>4
    <3>2. QED  BY <1>4, <2>1, <2>2, <2>4, <3>1
  <2>5. QED  BY <2>3, <2>4
<1>8. QED  BY <1>2, <1>4, <1>5, <1>6, <1>7 DEF GateInv

(* Access: the bootstrap.  The one ticket that is outstanding is of a
   launcher that has opened nothing yet. *)
TicketInv ==
    /\ launcher \in [Launchers -> {"idle", "challenged", "ticketed", "done"}]
    /\ opened \in [Launchers -> Nat]
    /\ \A l \in Launchers :
          /\ opened[l] <= 1
          /\ launcher[l] \in {"idle", "challenged"} => opened[l] = 0
          /\ ticket = l => launcher[l] = "ticketed" /\ opened[l] = 0

AccessInv == GateInv /\ TicketInv

(* What leaves the limiter alone, or the launchers. *)
LEMMA GateKept == ASSUME GateInv, UNCHANGED failures, UNCHANGED signIn,
                         stale' \subseteq {x \in Entries : Held(x)}
                  PROVE  GateInv'
<1>1. /\ DirectEntries' = DirectEntries
      /\ \A c : LetInFor(c)' = LetInFor(c)
  BY DEF DirectEntries, Held, LetInFor, LetIn
<1>2. \A x : Held(x)' = Held(x)
  BY DEF Held
<1>3. QED  BY <1>1, <1>2 DEF GateInv

LEMMA TicketKept ==
    ASSUME TicketInv, UNCHANGED launcher, UNCHANGED opened, ticket' \in {ticket, NoLauncher}
    PROVE  TicketInv'
BY AccessAssumption DEF TicketInv, AccessAssumption

LEMMA LauncherStep ==
    ASSUME TicketInv, NEW l \in Launchers, AskChallenge(l) \/ Prove(l) \/ OpenSession(l)
    PROVE  TicketInv'
<1>1. CASE AskChallenge(l)
  BY <1>1 DEF AskChallenge, LauncherGoes, TicketInv
<1>2. CASE Prove(l)
  BY <1>2 DEF Prove, LauncherGoes, TicketInv
<1>3. CASE OpenSession(l)
  <2>1. /\ launcher[l] = "ticketed" /\ ticket' = NoLauncher
        /\ \E at \in {"ticketed", "done"} : launcher' = [launcher EXCEPT ![l] = at]
        /\ opened' = IF ticket = l THEN [opened EXCEPT ![l] = opened[l] + 1] ELSE opened
    BY <1>3 DEF OpenSession, LauncherGoes, TicketAfter
  <2>2. QED  BY <2>1, AccessAssumption DEF TicketInv, AccessAssumption
<1>4. QED  BY <1>1, <1>2, <1>3

LEMMA AccessStep == ASSUME AccessInv, [AccessNext]_accessVars PROVE AccessInv'
<1>1. CASE \E s \in SignIns : \/ WrongPassword(s) \/ RightPassword(s)
                              \/ \E c \in Clients : Attempt(s, c)
  <2>1. GateInv'
    BY <1>1, AttemptStep, WrongPasswordStep, RightPasswordStep DEF AccessInv
  <2>2. UNCHANGED bootVars
    BY <1>1 DEF Attempt, WrongPassword, RightPassword
  <2>3. QED  BY <2>1, <2>2, TicketKept DEF AccessInv, bootVars
<1>2. CASE \E e \in Entries : WindowEnds(e)
  BY <1>2, GateKept, TicketKept DEF AccessInv, WindowEnds, bootVars, GateInv
<1>3. CASE \E l \in Launchers : AskChallenge(l) \/ Prove(l) \/ OpenSession(l)
  <2>1. TicketInv' /\ UNCHANGED gateVars
    BY <1>3, LauncherStep DEF AccessInv, AskChallenge, Prove, OpenSession
  <2>2. QED  BY <2>1, GateKept DEF AccessInv, gateVars, GateInv
<1>4. CASE Lapsed
  BY <1>4, GateKept, TicketKept DEF AccessInv, Lapsed, gateVars, GateInv
<1>5. CASE UNCHANGED accessVars
  BY <1>5, GateKept, TicketKept DEF AccessInv, accessVars, GateInv
<1>6. QED  BY <1>1, <1>2, <1>3, <1>4, <1>5 DEF AccessNext

LEMMA AccessStart == AccessInit => AccessInv
<1> SUFFICES ASSUME AccessInit PROVE AccessInv
  OBVIOUS
<1>1. /\ failures = [e \in Entries |-> 0] /\ stale = {}
      /\ signIn = [s \in SignIns |-> Overflow] /\ Overflow \in Entries
  BY DEF AccessInit, Entries
<1>2. DirectEntries = {}
  BY <1>1 DEF DirectEntries, Held, Entries
<1>3. ASSUME NEW c \in Clients
      PROVE  failures[c] + Cardinality(LetInFor(c)) < MaxFailures + Cardinality(SignIns)
  <2>1. LetInFor(c) = {} /\ failures[c] = 0
    BY <1>1 DEF LetInFor, LetIn, Entries
  <2>2. Cardinality(LetInFor(c)) = 0
    BY <2>1, FS_EmptySet
  <2>3. QED  BY <2>1, <2>2, LetInFinite, AccessAssumption DEF AccessAssumption
<1>4. GateInv
  BY <1>1, <1>2, <1>3, FS_EmptySet, AccessAssumption DEF GateInv, AccessAssumption
<1>5. TicketInv
  BY AccessAssumption DEF AccessInit, TicketInv, AccessAssumption
<1>6. QED  BY <1>4, <1>5 DEF AccessInv

THEOREM AccessInductive == AccessSpec => []AccessInv
<1>1. AccessInv /\ [AccessNext]_accessVars => AccessInv'
  BY AccessStep
<1>2. QED  BY <1>1, AccessStart, PTL DEF AccessSpec

(* The limiter keeps its bounds: LimiterHolds, for any clients, requests and
   limits. *)
THEOREM LimiterBounds == AccessSpec => []LimiterHolds
<1>1. ASSUME AccessInv PROVE LimiterHolds
  <2> DEFINE held == {e \in Entries : Held(e)}
  <2>1. held \subseteq DirectEntries \cup {Overflow}
    BY DEF DirectEntries, Entries
  <2>2. /\ IsFiniteSet(DirectEntries) /\ Cardinality(DirectEntries) <= MaxEntries - 1
        /\ MaxEntries \in Nat
    BY <1>1, AccessAssumption DEF AccessInv, GateInv, AccessAssumption
  <2>3. /\ IsFiniteSet(DirectEntries \cup {Overflow})
        /\ Cardinality(DirectEntries \cup {Overflow}) <= Cardinality(DirectEntries) + 1
        /\ Cardinality(DirectEntries) \in Nat
        /\ Cardinality(DirectEntries \cup {Overflow}) \in Nat
    BY <2>2, OneMore
  <2> HIDE DEF held
  <2>4. IsFiniteSet(held) /\ Cardinality(held) <= Cardinality(DirectEntries \cup {Overflow})
    BY <2>1, <2>3, FS_Subset
  <2>5. Cardinality(held) \in Nat
    BY <2>4, FS_CardinalityType
  <2>6. Cardinality(held) <= MaxEntries
    BY <2>2, <2>3, <2>4, <2>5
  <2>7. QED  BY <1>1, <2>6 DEF AccessInv, GateInv, LimiterHolds, LetInFor, held
<1>2. QED  BY <1>1, AccessInductive, PTL

(* A ticket opens one session: TicketOpensOnce, for any launchers. *)
THEOREM OneSession == AccessSpec => []TicketOpensOnce
<1>1. AccessInv => TicketOpensOnce
  BY DEF AccessInv, TicketInv, TicketOpensOnce
<1>2. QED  BY <1>1, AccessInductive, PTL

-----------------------------------------------------------------------------
(* The secure Claude connection.  An attempt that is processing is held by
   the one page that claimed it: only that page finishes it, and neither the
   deadline nor the need for room takes it away. *)
PageOK(p) ==
    LET i == page[p] IN
    /\ i.at # "unopened" => i.id \in Grants
    /\ Completing(p) => grant[i.id] = "processing" /\ ~i.ok
    /\ i.at \in {"finish", "done"} => i.id \in stored
    /\ i.ok => i.id \in stored

OAuthInv ==
    /\ grant \in [Grants -> GrantStatus]
    /\ page \in [Pages -> PageStates]
    /\ \A p \in Pages : PageOK(p)
    /\ \A p, q \in Pages : Completing(p) /\ Completing(q) /\ p # q => page[p].id # page[q].id
    /\ \A g \in Grants : grant[g] = "done" => g \in stored

(* A step of one page that touches no attempt but its own. *)
LEMMA PageStep ==
    ASSUME OAuthInv, NEW p \in Pages, NEW i \in PageStates,
           page' = [page EXCEPT ![p] = i],
           grant' \in [Grants -> GrantStatus],
           \A g \in Grants : grant'[g] # grant[g] => g = i.id,
           \A q \in Pages \ {p} : Completing(q) => page[q].id # i.id \/ UNCHANGED grant,
           stored \subseteq stored',
           \A g \in Grants : grant'[g] = "done" => g \in stored',
           i.at # "unopened" => i.id \in Grants,
           i.at \in {"exchange", "save", "finish"} =>
              /\ grant'[i.id] = "processing" /\ ~i.ok
              /\ \A q \in Pages \ {p} : Completing(q) => page[q].id # i.id,
           i.at \in {"finish", "done"} => i.id \in stored',
           i.ok => i.id \in stored'
    PROVE  OAuthInv'
<1>1. /\ page \in [Pages -> PageStates] /\ page' \in [Pages -> PageStates] /\ page'[p] = i
      /\ \A q \in Pages \ {p} : page'[q] = page[q]
  BY DEF OAuthInv
<1>2. PageOK(p)'
  BY <1>1 DEF PageOK, Completing
<1>3. ASSUME NEW q \in Pages, q # p PROVE PageOK(q)'
  <2>1. PageOK(q) /\ page'[q] = page[q] /\ page[q] \in PageStates
    BY <1>1, <1>3 DEF OAuthInv
  <2>2. Completing(q) => page[q].id \in Grants /\ grant'[page[q].id] = "processing"
    BY <1>3, <2>1 DEF PageOK, Completing
  <2>3. QED  BY <2>1, <2>2 DEF PageOK, Completing
<1>4. \A q, s \in Pages :
         Completing(q)' /\ Completing(s)' /\ q # s => page'[q].id # page'[s].id
  BY <1>1 DEF OAuthInv, Completing
<1>5. QED  BY <1>1, <1>2, <1>3, <1>4 DEF OAuthInv

(* A step that no page takes, of attempts that none of them completes. *)
LEMMA GrantStep ==
    ASSUME OAuthInv, UNCHANGED page, UNCHANGED stored,
           grant' \in [Grants -> GrantStatus],
           \A g \in Grants : grant'[g] # grant[g] =>
              grant[g] # "processing" /\ grant'[g] # "done"
    PROVE  OAuthInv'
<1>1. ASSUME NEW p \in Pages PROVE PageOK(p)'
  <2>1. PageOK(p)
    BY DEF OAuthInv
  <2>2. QED  BY <2>1 DEF PageOK, Completing
<1>2. QED  BY <1>1 DEF OAuthInv, Completing

LEMMA GrantActions ==
    ASSUME OAuthInv, NEW g \in Grants, OpenGrant(g) \/ Launch(g) \/ Lapse(g)
    PROVE  OAuthInv'
<1>1. UNCHANGED page /\ UNCHANGED stored /\ grant \in [Grants -> GrantStatus]
  BY DEF OpenGrant, Launch, Lapse, OAuthInv
<1>2. CASE OpenGrant(g)
  <2>1. PICK dropped \in SUBSET {k \in Grants : Spent(k)} :
            /\ grant[g] = "unused"
            /\ grant' = [k \in Grants |-> IF k = g THEN "created"
                                          ELSE IF k \in dropped THEN "gone" ELSE grant[k]]
    BY <1>2 DEF OpenGrant
  <2>2. QED  BY <1>1, <2>1, GrantStep DEF Spent, GrantStatus
<1>3. CASE Launch(g) \/ Lapse(g)
  <2>1. \/ grant[g] = "created" /\ grant' = [grant EXCEPT ![g] = "pending"]
        \/ grant[g] \in {"created", "pending"} /\ grant' = [grant EXCEPT ![g] = "expired"]
    BY <1>3 DEF Launch, Lapse, Lapses, SetGrant
  <2>2. QED  BY <1>1, <2>1, GrantStep DEF GrantStatus
<1>4. QED  BY <1>2, <1>3

LEMMA OpenPageStep ==
    ASSUME OAuthInv, NEW p \in Pages, NEW g \in Grants, OpenPage(p, g)
    PROVE  OAuthInv'
<1> DEFINE i == [at |-> IF Claimable(g) THEN "exchange" ELSE "answer", id |-> g, ok |-> FALSE]
<1>1. /\ page[p] = Unopened /\ page' = [page EXCEPT ![p] = i] /\ UNCHANGED stored
      /\ grant \in [Grants -> GrantStatus]
  BY DEF OpenPage, OAuthInv
<1>2. i \in PageStates /\ i.id = g /\ ~i.ok /\ i.at = IF Claimable(g) THEN "exchange" ELSE "answer"
  BY DEF PageStates
<1> HIDE DEF i
<1>3. ASSUME NEW q \in Pages \ {p}, Completing(q), Claimable(g) PROVE page[q].id # g
  BY <1>3 DEF OAuthInv, PageOK, Claimable
<1>4. CASE Claimable(g)
  <2>1. grant' = [grant EXCEPT ![g] = "processing"] /\ grant[g] = "pending"
    BY <1>4 DEF OpenPage, Claimable, SetGrant
  <2>2. /\ grant' \in [Grants -> GrantStatus] /\ grant'[g] = "processing"
        /\ \A h \in Grants : grant'[h] # grant[h] => h = g
        /\ \A h \in Grants : grant'[h] = "done" => h \in stored'
    BY <1>1, <2>1 DEF GrantStatus, OAuthInv
  <2>3. \A q \in Pages \ {p} : Completing(q) => page[q].id # i.id
    BY <1>2, <1>3, <1>4
  <2>4. i.at = "exchange"
    BY <1>2, <1>4
  <2>5. QED  BY <1>1, <1>2, <2>2, <2>3, <2>4, PageStep
<1>5. CASE ~Claimable(g)
  <2>1. UNCHANGED grant
    BY <1>5 DEF OpenPage
  <2>2. QED  BY <1>1, <1>2, <1>5, <2>1, PageStep DEF OAuthInv
<1>6. QED  BY <1>4, <1>5

(* The page's request goes on, while its attempt stays as it is. *)
LEMMA GoingOn ==
    ASSUME OAuthInv, NEW p \in Pages,
           ExchangeCode(p) \/ StoreAccount(p) \/ ShowResult(p)
    PROVE  OAuthInv'
<1>1. /\ page[p] \in PageStates /\ PageOK(p) /\ UNCHANGED grant
      /\ grant \in [Grants -> GrantStatus]
      /\ \A q \in Pages \ {p} : Completing(p) /\ Completing(q) => page[q].id # page[p].id
  BY DEF OAuthInv, ExchangeCode, StoreAccount, ShowResult
<1>2. PICK at \in {"save", "finish", "done", "failed"} :
          /\ page' = [page EXCEPT ![p] = [page[p] EXCEPT !.at = at]]
          /\ \/ at = "save" /\ page[p].at = "exchange" /\ UNCHANGED stored
             \/ /\ at = "finish" /\ page[p].at = "save"
                /\ stored' = stored \cup {page[p].id}
             \/ at = "done" /\ page[p].at = "answer" /\ page[p].ok /\ UNCHANGED stored
             \/ at = "failed" /\ page[p].at = "answer" /\ UNCHANGED stored
  BY DEF ExchangeCode, StoreAccount, ShowResult, Steps
<1> DEFINE i == [page[p] EXCEPT !.at = at]
<1>3. i \in PageStates /\ i.at = at /\ i.id = page[p].id /\ i.ok = page[p].ok
  BY <1>1, <1>2 DEF PageStates
<1>4. page' = [page EXCEPT ![p] = i]
  BY <1>2
<1> HIDE DEF i
<1>5. /\ i.id \in Grants
      /\ i.at \in {"exchange", "save", "finish"} =>
            /\ Completing(p) /\ grant[i.id] = "processing" /\ ~i.ok
      /\ i.at \in {"finish", "done"} => i.id \in stored'
      /\ i.ok => i.id \in stored'
      /\ stored \subseteq stored'
  BY <1>1, <1>2, <1>3 DEF PageOK, Completing
<1>6. \A g \in Grants : grant'[g] = "done" => g \in stored'
  BY <1>1, <1>5 DEF OAuthInv
<1>7. QED  BY <1>1, <1>3, <1>4, <1>5, <1>6, PageStep

(* The attempt is finished by its page. *)
LEMMA FinishStep ==
    ASSUME OAuthInv, NEW p \in Pages, ConnectFails(p) \/ Finish(p)
    PROVE  OAuthInv'
<1> DEFINE g == page[p].id
<1>1. /\ page[p] \in PageStates /\ PageOK(p) /\ Completing(p) /\ g \in Grants
      /\ grant[g] = "processing" /\ ~page[p].ok /\ grant \in [Grants -> GrantStatus]
      /\ \A q \in Pages \ {p} : Completing(q) => page[q].id # g
  BY DEF OAuthInv, ConnectFails, Finish, PageOK, Completing
<1>2. PICK ok \in BOOLEAN :
          /\ page' = [page EXCEPT ![p] = [page[p] EXCEPT !.at = "answer", !.ok = ok]]
          /\ ok => g \in stored'
          /\ stored \subseteq stored'
  <2>1. CASE ConnectFails(p)
    <3>1. [page[p] EXCEPT !.at = "answer"] = [page[p] EXCEPT !.at = "answer", !.ok = FALSE]
      BY <1>1 DEF PageStates
    <3>2. page' = [page EXCEPT ![p] = [page[p] EXCEPT !.at = "answer"]]
          /\ stored \subseteq stored'
      BY <2>1 DEF ConnectFails, Steps
    <3>3. QED  BY <3>1, <3>2
  <2>2. CASE Finish(p)
    <3>1. page' = [page EXCEPT ![p] = [page[p] EXCEPT !.at = "answer", !.ok = TRUE]]
      BY <1>1, <2>2 DEF Finish
    <3>2. g \in stored /\ UNCHANGED stored
      BY <1>1, <2>2 DEF Finish, PageOK
    <3>3. QED  BY <3>1, <3>2
  <2>3. QED  BY <2>1, <2>2
<1>3. PICK outcome \in {"done", "failed"} :
          /\ grant' = [grant EXCEPT ![g] = outcome]
          /\ outcome = "done" => g \in stored
  BY <1>1 DEF ConnectFails, Finish, Finished, SetGrant, PageOK
<1> DEFINE i == [page[p] EXCEPT !.at = "answer", !.ok = ok]
<1>4. i \in PageStates /\ i.at = "answer" /\ i.id = g /\ i.ok = ok
  BY <1>1, <1>2 DEF PageStates
<1>5. page' = [page EXCEPT ![p] = i]
  BY <1>2
<1> HIDE DEF i
<1>6. /\ grant' \in [Grants -> GrantStatus]
      /\ \A h \in Grants : grant'[h] # grant[h] => h = i.id
      /\ \A h \in Grants : grant'[h] = "done" => h \in stored'
  BY <1>1, <1>2, <1>3, <1>4 DEF OAuthInv, GrantStatus
<1>7. /\ \A q \in Pages \ {p} : Completing(q) => page[q].id # i.id
      /\ i.id \in Grants /\ (i.ok => i.id \in stored') /\ stored \subseteq stored'
      /\ i \in PageStates /\ i.at \notin {"exchange", "save", "finish", "done"}
  BY <1>1, <1>2, <1>4
<1>8. QED  BY <1>5, <1>6, <1>7, PageStep

(* The server restarts: no page completes anything any more. *)
LEMMA RestartStep == ASSUME OAuthInv, RestartConnector PROVE OAuthInv'
<1>1. /\ grant' = [g \in Grants |-> IF g \in GrantsKept THEN "gone" ELSE grant[g]]
      /\ UNCHANGED stored
      /\ grant \in [Grants -> GrantStatus] /\ page \in [Pages -> PageStates]
  BY DEF RestartConnector, OAuthInv
<1>2. grant' \in [Grants -> GrantStatus] /\ \A g \in Grants : grant'[g] # "done"
  BY <1>1 DEF GrantsKept, GrantStatus
<1>3. ASSUME NEW p \in Pages
      PROVE  /\ page'[p] \in PageStates /\ page'[p].id = page[p].id /\ page'[p].ok = page[p].ok
             /\ ~Completing(p)'
             /\ page'[p].at = page[p].at \/ (page'[p].at = "failed" /\ page[p].at # "unopened")
  <2>1. /\ page[p] \in PageStates
        /\ page'[p] = IF page[p].at \in {"exchange", "save", "finish"}
                      THEN [page[p] EXCEPT !.at = "failed"] ELSE page[p]
    BY <1>1 DEF RestartConnector
  <2>2. CASE page[p].at \in {"exchange", "save", "finish"}
    <3>1. page'[p] = [page[p] EXCEPT !.at = "failed"]
      BY <2>1, <2>2
    <3>2. QED  BY <2>1, <2>2, <3>1 DEF PageStates, Completing
  <2>3. CASE page[p].at \notin {"exchange", "save", "finish"}
    BY <2>1, <2>3 DEF Completing
  <2>4. QED  BY <2>2, <2>3
<1>4. page' \in [Pages -> PageStates]
  BY <1>3 DEF RestartConnector
<1>5. ASSUME NEW p \in Pages PROVE PageOK(p)'
  <2>1. PageOK(p)
    BY DEF OAuthInv
  <2>2. QED  BY <1>1, <1>3, <2>1 DEF PageOK
<1>6. QED  BY <1>2, <1>3, <1>4, <1>5 DEF OAuthInv

LEMMA OAuthStep == ASSUME OAuthInv, [OAuthNext]_oauthVars PROVE OAuthInv'
<1>1. CASE \E g \in Grants : OpenGrant(g) \/ Launch(g) \/ Lapse(g)
  BY <1>1, GrantActions
<1>2. CASE \E p \in Pages :
              \/ \E g \in Grants : OpenPage(p, g)
              \/ ExchangeCode(p) \/ StoreAccount(p) \/ ConnectFails(p) \/ Finish(p)
              \/ ShowResult(p)
  BY <1>2, OpenPageStep, GoingOn, FinishStep
<1>3. CASE RestartConnector
  BY <1>3, RestartStep
<1>4. CASE UNCHANGED oauthVars
  BY <1>4, GrantStep DEF oauthVars, OAuthInv
<1>5. QED  BY <1>1, <1>2, <1>3, <1>4 DEF OAuthNext

(* The claim of an attempt is kept until its account is saved: ClaimKept, for
   any attempts, pages and room. *)
THEOREM ClaimsKept == OAuthSpec => []ClaimKept
<1>1. OAuthInit => OAuthInv
  BY OAuthAssumption DEF OAuthInit, OAuthInv, Unopened, PageStates, GrantStatus, PageOK,
     Completing
<1>2. OAuthInv /\ [OAuthNext]_oauthVars => OAuthInv'
  BY OAuthStep
<1>3. OAuthInv => ClaimKept
  BY DEF OAuthInv, PageOK, ClaimKept
<1>4. QED  BY <1>1, <1>2, <1>3, PTL DEF OAuthSpec

-----------------------------------------------------------------------------
(* The device login.  An attempt that is consumed is held by the one request
   that its poll was granted to: nothing but that request ends it, except
   its expiry and what follows it; and what a session hears is of the attempt
   it asks for. *)
RequestOK(q) ==
    LET i == request[q] IN
    /\ i.at # "idle" => i.id \in Attempts
    /\ Consuming(q) => Consumes(q) \/ Is(i.id, {"expired", "gone"})
    /\ i.at = "complete" => i.id \in saved
    /\ i.answer = "done" => i.id \in saved

AttemptOK(a) ==
    /\ ~Is(a, {"polling", "consuming"}) => attempt[a].owner = Nobody
    /\ Is(a, {"done"}) => a \in saved

SessionOK ==
    /\ session.is \in {"waiting", "processing"} => session.id \in Attempts
    /\ session.asks # Nobody =>
          /\ session.asks \in Requests /\ session.is \in {"waiting", "processing"}
          /\ request[session.asks].at # "idle"
          /\ request[session.asks].id = session.id
    /\ session.is = "done" => session.id \in saved

Alone(q, r) == Consuming(q) /\ Consuming(r) /\ q # r => request[q].id # request[r].id

DeviceInv ==
    /\ attempt \in [Attempts -> AttemptRecords]
    /\ request \in [Requests -> RequestStates]
    /\ session \in SessionStates
    /\ \A q \in Requests : RequestOK(q)
    /\ \A a \in Attempts : AttemptOK(a)
    /\ \A q, r \in Requests : Alone(q, r)
    /\ SessionOK

(* The attempts move, and no request does: one that is being consumed, or has
   expired meanwhile, can but expire and be forgotten. *)
LEMMA AttemptsMove ==
    ASSUME DeviceInv, UNCHANGED request, UNCHANGED saved,
           attempt' \in [Attempts -> AttemptRecords], session' \in SessionStates, SessionOK',
           \A a \in Attempts : attempt'[a] # attempt[a] =>
              /\ ~Is(a, {"polling", "consuming"})' => attempt'[a].owner = Nobody
              /\ ~Is(a, {"done"})'
              /\ Is(a, {"consuming", "expired", "gone"}) => Is(a, {"expired", "gone"})'
    PROVE  DeviceInv'
<1>1. ASSUME NEW a \in Attempts PROVE AttemptOK(a)'
  BY DEF DeviceInv, AttemptOK, Is
<1>2. ASSUME NEW q \in Requests PROVE RequestOK(q)'
  <2>1. RequestOK(q)
    BY DEF DeviceInv
  <2>2. Consuming(q) => /\ request[q].id \in Attempts
                        /\ Is(request[q].id, {"consuming", "expired", "gone"})
    BY <2>1 DEF RequestOK, Consuming, Consumes, Is
  <2>3. Consuming(q)' => Consumes(q)' \/ Is(request[q].id, {"expired", "gone"})'
    BY <2>1, <2>2 DEF RequestOK, Consuming, Consumes, Is
  <2>4. QED  BY <2>1, <2>3 DEF RequestOK
<1>3. \A q, r \in Requests : Alone(q, r)'
  BY DEF DeviceInv, Alone, Consuming
<1>4. QED  BY <1>1, <1>2, <1>3 DEF DeviceInv

(* Only the request whose poll was granted comes to consume, and goes on. *)
Earned(q, i, a, rec) ==
    i.at \in {"exchange", "save", "complete"} =>
       \/ Consuming(q) /\ request[q].id = a /\ rec = attempt[a]
       \/ rec.is = "consuming" /\ rec.owner = q /\ Is(a, {"polling"})

(* Request q moves to i, and makes rec of its attempt, or leaves it. *)
LEMMA RequestMoves ==
    ASSUME DeviceInv, NEW q \in Requests, NEW i \in RequestStates, NEW a \in Attempts,
           NEW rec \in AttemptRecords,
           request' = [request EXCEPT ![q] = i],
           attempt' = [attempt EXCEPT ![a] = rec],
           saved \subseteq saved', session' \in SessionStates, SessionOK',
           rec = attempt[a] \/ Is(a, {"pending", "polling"}) \/ (Is(a, {"consuming"}) /\ attempt[a].owner = q),
           rec.is \notin {"polling", "consuming"} => rec.owner = Nobody,
           rec.is = "done" => a \in saved',
           i.at # "idle" => i.id = a,
           Earned(q, i, a, rec),
           i.at = "complete" => a \in saved',
           i.answer = "done" => i.id \in saved'
    PROVE  DeviceInv'
<1>1. /\ attempt' \in [Attempts -> AttemptRecords] /\ attempt'[a] = rec
      /\ \A b \in Attempts : b # a => attempt'[b] = attempt[b]
      /\ request' \in [Requests -> RequestStates] /\ request'[q] = i
      /\ \A r \in Requests : r # q => request'[r] = request[r]
  BY DEF DeviceInv
<1>2. ASSUME NEW b \in Attempts PROVE AttemptOK(b)'
  <2>1. AttemptOK(b)
    BY DEF DeviceInv
  <2>2. QED  BY <1>1, <2>1 DEF AttemptOK, Is
<1>3. ASSUME NEW r \in Requests, r # q, Consuming(r), rec # attempt[a]
      PROVE  request[r].id # a
  BY <1>3 DEF DeviceInv, RequestOK, Consuming, Consumes, Is
<1>4. ASSUME NEW r \in Requests, r # q, Consuming(r), i.at \in {"exchange", "save", "complete"}
      PROVE  request[r].id # a
  BY <1>4 DEF Earned, DeviceInv, Alone, RequestOK, Consuming, Consumes, Is
<1>5. ASSUME NEW r \in Requests PROVE RequestOK(r)'
  <2>1. RequestOK(r) /\ RequestOK(q)
    BY DEF DeviceInv
  <2>2. CASE r = q
    BY <1>1, <2>1, <2>2 DEF Earned, RequestOK, Consuming, Consumes, Is
  <2>3. CASE r # q
    <3>1. Consuming(r) => attempt'[request[r].id] = attempt[request[r].id]
      BY <1>1, <1>3, <2>1, <2>3 DEF RequestOK, Consuming
    <3>2. request'[r] = request[r]
      BY <1>1, <2>3
    <3>3. QED  BY <2>1, <3>1, <3>2 DEF RequestOK, Consuming, Consumes, Is
  <2>4. QED  BY <2>2, <2>3
<1>6. ASSUME NEW r \in Requests, NEW s \in Requests PROVE Alone(r, s)'
  BY <1>1, <1>4 DEF DeviceInv, Alone, Consuming
<1>7. QED  BY <1>1, <1>2, <1>5, <1>6 DEF DeviceInv

(* The session goes on waiting for the request that it asks. *)
LEMMA SessionKept ==
    ASSUME DeviceInv, UNCHANGED session, saved \subseteq saved', NEW q \in Requests,
           NEW i \in RequestStates, request' = [request EXCEPT ![q] = i],
           request[q].at # "idle" => i.at # "idle" /\ i.id = request[q].id
    PROVE  SessionOK' /\ session' \in SessionStates
<1>1. /\ request' \in [Requests -> RequestStates] /\ request'[q] = i
      /\ \A r \in Requests : r # q => request'[r] = request[r]
  BY DEF DeviceInv
<1>2. QED  BY <1>1 DEF DeviceInv, SessionOK

(* The shapes of a record, of a request and of a session. *)
LEMMA DeviceShapes ==
    /\ Idle \in RequestStates /\ Idle.at = "idle" /\ Idle.answer = "none"
    /\ \A is \in {"unused", "pending", "done", "failed", "expired", "gone"} :
          Record(is) \in AttemptRecords /\ Record(is).is = is /\ Record(is).owner = Nobody
    /\ \A q \in Requests, due \in BOOLEAN, is \in {"polling", "consuming"} :
          [is |-> is, owner |-> q, due |-> due] \in AttemptRecords
    /\ \A is \in {"idle", "starting", "waiting", "failed"} :
          /\ Session(is) \in SessionStates
          /\ Session(is).is = is /\ Session(is).asks = Nobody
<1>1. /\ Idle \in RequestStates /\ Idle.at = "idle" /\ Idle.answer = "none"
  BY DEF Idle, RequestStates
<1>2. \A is \in {"unused", "pending", "done", "failed", "expired", "gone"} :
          Record(is) \in AttemptRecords /\ Record(is).is = is /\ Record(is).owner = Nobody
  BY DEF Record, AttemptRecords
<1>3. \A q \in Requests, due \in BOOLEAN, is \in {"polling", "consuming"} :
          [is |-> is, owner |-> q, due |-> due] \in AttemptRecords
  BY DEF AttemptRecords
<1>4. \A is \in {"idle", "starting", "waiting", "failed"} :
          Session(is) \in SessionStates /\ Session(is).is = is /\ Session(is).asks = Nobody
  BY DEF Session, SessionStates
<1>5. QED  BY <1>1, <1>2, <1>3, <1>4

(* The server makes an attempt, for which others that have ended may go. *)
LEMMA StoresMoves ==
    ASSUME DeviceInv, NEW a \in Attempts, Stores(a)
    PROVE  /\ attempt' \in [Attempts -> AttemptRecords]
           /\ \A b \in Attempts : attempt'[b] # attempt[b] =>
                 /\ ~Is(b, {"polling", "consuming"})' => attempt'[b].owner = Nobody
                 /\ ~Is(b, {"done"})'
                 /\ Is(b, {"consuming", "expired", "gone"}) => Is(b, {"expired", "gone"})'
<1>1. PICK dropped \in SUBSET {k \in Kept : Reclaimable(k)} :
          /\ Is(a, {"unused"})
          /\ attempt' = [k \in Attempts |-> IF k = a THEN Record("pending")
                                            ELSE IF k \in dropped
                                                 THEN [attempt[k] EXCEPT !.is = "gone"]
                                            ELSE attempt[k]]
  BY DEF Stores
<1>2. ASSUME NEW b \in Attempts
      PROVE  /\ attempt'[b] \in AttemptRecords
             /\ attempt'[b] # attempt[b] =>
                   /\ ~Is(b, {"polling", "consuming"})' => attempt'[b].owner = Nobody
                   /\ ~Is(b, {"done"})'
                   /\ Is(b, {"consuming", "expired", "gone"}) => Is(b, {"expired", "gone"})'
  <2>1. attempt[b] \in AttemptRecords /\ AttemptOK(b)
    BY DEF DeviceInv
  <2>2. CASE b = a
    <3>1. attempt'[b] = Record("pending")
      BY <1>1, <2>2
    <3>2. QED  BY <1>1, <2>2, <3>1, DeviceShapes DEF Is
  <2>3. CASE b # a /\ b \in dropped
    <3>1. attempt'[b] = [attempt[b] EXCEPT !.is = "gone"]
      BY <1>1, <2>3
    <3>2. attempt'[b] \in AttemptRecords /\ attempt'[b].is = "gone"
          /\ attempt'[b].owner = attempt[b].owner
      BY <2>1, <3>1 DEF AttemptRecords
    <3>3. Is(b, {"done", "failed", "expired"})
      BY <2>3 DEF Reclaimable, Terminal
    <3>4. QED  BY <2>1, <3>2, <3>3 DEF AttemptOK, Is
  <2>4. CASE b # a /\ b \notin dropped
    BY <1>1, <2>1, <2>4
  <2>5. QED  BY <2>2, <2>3, <2>4
<1>3. QED  BY <1>1, <1>2

(* A login begins, gets its attempt, or is given up. *)
LEMMA SessionSteps ==
    ASSUME DeviceInv, \/ StartSession \/ NotStarted \/ CancelSession
                      \/ \E a \in Attempts : Started(a) \/ StartElsewhere(a)
    PROVE  DeviceInv'
<1>1. /\ UNCHANGED request /\ UNCHANGED saved
      /\ attempt' \in [Attempts -> AttemptRecords]
      /\ \A b \in Attempts : attempt'[b] # attempt[b] =>
            /\ ~Is(b, {"polling", "consuming"})' => attempt'[b].owner = Nobody
            /\ ~Is(b, {"done"})'
            /\ Is(b, {"consuming", "expired", "gone"}) => Is(b, {"expired", "gone"})'
  <2>1. CASE StartSession \/ NotStarted \/ CancelSession
    BY <2>1 DEF StartSession, NotStarted, CancelSession, DeviceInv
  <2>2. CASE \E a \in Attempts : Started(a) \/ StartElsewhere(a)
    BY <2>2, StoresMoves DEF Started, StartElsewhere
  <2>3. QED  BY <2>1, <2>2
<1>2. \/ \E is \in {"idle", "starting", "failed"} : session' = Session(is)
      \/ \E a \in Attempts : session' = [Session("waiting") EXCEPT !.id = a]
      \/ UNCHANGED session
  BY DEF StartSession, NotStarted, CancelSession, Started, StartElsewhere
<1>3. session' \in SessionStates /\ SessionOK'
  <2>1. CASE \E is \in {"idle", "starting", "failed"} : session' = Session(is)
    BY <2>1, DeviceShapes DEF SessionOK
  <2>2. CASE \E a \in Attempts : session' = [Session("waiting") EXCEPT !.id = a]
    <3>1. PICK a \in Attempts : session' = [Session("waiting") EXCEPT !.id = a]
      BY <2>2
    <3>2. /\ session' \in SessionStates /\ session'.is = "waiting"
          /\ session'.id = a /\ session'.asks = Nobody
      BY <3>1, DeviceShapes DEF SessionStates
    <3>3. QED  BY <3>2 DEF SessionOK
  <2>3. CASE UNCHANGED session
    BY <1>1, <2>3 DEF SessionOK, DeviceInv
  <2>4. QED  BY <1>2, <2>1, <2>2, <2>3
<1>4. QED  BY <1>1, <1>3, AttemptsMove

(* Time passes for an attempt. *)
LEMMA TimeSteps ==
    ASSUME DeviceInv, NEW a \in Attempts, ComesDue(a) \/ ExpireAttempt(a) \/ Forget(a)
    PROVE  DeviceInv'
<1>1. /\ UNCHANGED request /\ UNCHANGED saved /\ UNCHANGED session
      /\ attempt[a] \in AttemptRecords /\ attempt \in [Attempts -> AttemptRecords]
      /\ AttemptOK(a)
  BY DEF ComesDue, ExpireAttempt, Forget, DeviceInv
<1>2. PICK rec \in AttemptRecords :
          /\ attempt' = [attempt EXCEPT ![a] = rec]
          /\ \/ rec.is = attempt[a].is /\ rec.owner = attempt[a].owner
                /\ Is(a, {"pending", "polling"})
             \/ rec.is \in {"expired", "gone"} /\ rec.owner = Nobody
  <2>1. CASE ComesDue(a)
    <3>1. /\ [attempt[a] EXCEPT !.due = TRUE] \in AttemptRecords
          /\ [attempt[a] EXCEPT !.due = TRUE].is = attempt[a].is
          /\ [attempt[a] EXCEPT !.due = TRUE].owner = attempt[a].owner
      BY <1>1 DEF AttemptRecords
    <3>2. QED  BY <2>1, <3>1 DEF ComesDue, Becomes
  <2>2. CASE ExpireAttempt(a) \/ Forget(a)
    BY <2>2, DeviceShapes DEF ExpireAttempt, Forget, Becomes
  <2>3. QED  BY <2>1, <2>2
<1>3. \A b \in Attempts : attempt'[b] # attempt[b] =>
          /\ ~Is(b, {"polling", "consuming"})' => attempt'[b].owner = Nobody
          /\ ~Is(b, {"done"})'
          /\ Is(b, {"consuming", "expired", "gone"}) => Is(b, {"expired", "gone"})'
  BY <1>1, <1>2 DEF Is, AttemptOK
<1>4. session' \in SessionStates /\ SessionOK'
  BY <1>1 DEF SessionOK, DeviceInv
<1>5. attempt' \in [Attempts -> AttemptRecords]
  BY <1>1, <1>2
<1>6. QED  BY <1>1, <1>3, <1>4, <1>5, AttemptsMove

(* A status request comes to an attempt: it is told how the attempt is, or
   takes up the poll of one that is not being consumed. *)
LEMMA VisitMoves ==
    ASSUME DeviceInv, NEW q \in Requests, NEW a \in Attempts, Visit(q, a)
    PROVE  \E i \in RequestStates, rec \in AttemptRecords :
              /\ request' = [request EXCEPT ![q] = i]
              /\ attempt' = [attempt EXCEPT ![a] = rec]
              /\ i.at \in {"answer", "poll"} /\ i.id = a
              /\ i.answer = "done" => a \in saved
              /\ \/ rec = attempt[a]
                 \/ Is(a, {"pending", "polling"}) /\ rec.is = "polling"
<1>1. /\ attempt = [attempt EXCEPT ![a] = attempt[a]] /\ attempt[a] \in AttemptRecords
      /\ AttemptOK(a)
  BY DEF DeviceInv
<1> DEFINE heard(answer) == [at |-> "answer", id |-> a, answer |-> answer]
           polls == [at |-> "poll", id |-> a, answer |-> "none"]
           taken == [is |-> "polling", owner |-> q, due |-> FALSE]
<1>2. ASSUME NEW answer \in {"pending", "processing", "done", "failed", "expired", "error"},
             answer = "done" => a \in saved,
             request' = [request EXCEPT ![q] = heard(answer)], UNCHANGED attempt
      PROVE  \E i \in RequestStates, rec \in AttemptRecords :
                /\ request' = [request EXCEPT ![q] = i]
                /\ attempt' = [attempt EXCEPT ![a] = rec]
                /\ i.at \in {"answer", "poll"} /\ i.id = a
                /\ i.answer = "done" => a \in saved
                /\ \/ rec = attempt[a]
                   \/ Is(a, {"pending", "polling"}) /\ rec.is = "polling"
  <2>1. heard(answer) \in RequestStates
    BY DEF RequestStates
  <2>2. attempt' = [attempt EXCEPT ![a] = attempt[a]]
    BY <1>1, <1>2
  <2>3. heard(answer).at = "answer" /\ heard(answer).id = a /\ heard(answer).answer = answer
    OBVIOUS
  <2> HIDE DEF heard
  <2>4. QED  BY <1>1, <1>2, <2>1, <2>2, <2>3
<1>3. \/ \E answer \in {"pending", "processing", "done", "failed", "expired", "error"} :
            /\ answer = "done" => a \in saved
            /\ request' = [request EXCEPT ![q] = heard(answer)] /\ UNCHANGED attempt
      \/ /\ Is(a, {"pending", "polling"})
         /\ request' = [request EXCEPT ![q] = polls]
         /\ attempt' = [attempt EXCEPT ![a] = taken]
  <2>1. CASE Is(a, {"unused", "gone"})
    <3>1. request' = [request EXCEPT ![q] = heard("error")] /\ UNCHANGED attempt
      BY <2>1 DEF Visit, Is, Terminal
    <3> HIDE DEF heard
    <3>2. QED  BY <3>1
  <2>2. CASE Terminal(a)
    <3>1. attempt[a].is \in {"done", "failed", "expired"} /\ ~Is(a, {"unused", "gone"})
      BY <2>2 DEF Terminal, Is
    <3>2. attempt[a].is = "done" => a \in saved
      BY <1>1 DEF AttemptOK, Is
    <3>3. request' = [request EXCEPT ![q] = heard(attempt[a].is)] /\ UNCHANGED attempt
      BY <2>2, <3>1 DEF Visit, Is, Terminal
    <3>4. QED  BY <3>1, <3>2, <3>3
  <2>3. CASE Is(a, {"consuming"}) \/ (Is(a, {"pending", "polling"}) /\ ~attempt[a].due)
    BY <2>3 DEF Visit, Is, Terminal
  <2>4. CASE Is(a, {"pending", "polling"}) /\ attempt[a].due
    BY <2>4 DEF Visit, Is, Terminal, Becomes
  <2>5. QED  BY <1>1, <2>1, <2>2, <2>3, <2>4 DEF Is, Terminal, AttemptRecords
<1>4. CASE /\ Is(a, {"pending", "polling"})
           /\ request' = [request EXCEPT ![q] = polls]
           /\ attempt' = [attempt EXCEPT ![a] = taken]
  <2>1. /\ polls \in RequestStates /\ taken \in AttemptRecords /\ taken.is = "polling"
        /\ polls.at = "poll" /\ polls.id = a /\ polls.answer # "done"
    BY DeviceShapes DEF RequestStates
  <2> HIDE DEF polls, taken
  <2>2. QED  BY <1>4, <2>1
<1> HIDE DEF heard
<1>5. QED  BY <1>2, <1>3, <1>4

LEMMA AskSteps ==
    ASSUME DeviceInv, NEW q \in Requests, Ask(q) \/ \E a \in Attempts : AskAgain(q, a)
    PROVE  DeviceInv'
<1>1. request[q] = Idle /\ UNCHANGED saved
  BY DEF Ask, AskAgain
<1>2. PICK a \in Attempts :
          /\ Visit(q, a)
          /\ \/ /\ session.is \in {"waiting", "processing"} /\ session.asks = Nobody
                /\ a = session.id /\ session' = [session EXCEPT !.asks = q]
             \/ UNCHANGED session
  BY DEF Ask, AskAgain, DeviceInv, SessionOK
<1>3. PICK i \in RequestStates, rec \in AttemptRecords :
          /\ request' = [request EXCEPT ![q] = i]
          /\ attempt' = [attempt EXCEPT ![a] = rec]
          /\ i.at \in {"answer", "poll"} /\ i.id = a
          /\ i.answer = "done" => a \in saved
          /\ \/ rec = attempt[a]
             \/ Is(a, {"pending", "polling"}) /\ rec.is = "polling"
  BY <1>2, VisitMoves
<1>4. session' \in SessionStates /\ SessionOK'
  <2>1. CASE /\ session.is \in {"waiting", "processing"} /\ session.asks = Nobody
             /\ a = session.id /\ session' = [session EXCEPT !.asks = q]
    <3>1. /\ session' \in SessionStates /\ session'.is = session.is
          /\ session'.id = a /\ session'.asks = q
      BY <2>1 DEF DeviceInv, SessionStates
    <3>2. request'[q] = i
      BY <1>3 DEF DeviceInv
    <3>3. QED  BY <1>3, <2>1, <3>1, <3>2 DEF SessionOK
  <2>2. CASE UNCHANGED session
    BY <1>1, <1>3, <2>2, SessionKept, DeviceShapes
  <2>3. QED  BY <1>2, <2>1, <2>2
<1>5. rec.is \notin {"polling", "consuming"} => rec.owner = Nobody
  BY <1>3 DEF DeviceInv, AttemptOK, Is
<1>6. rec.is = "done" => a \in saved
  BY <1>3 DEF DeviceInv, AttemptOK, Is
<1>7. QED  BY <1>1, <1>3, <1>4, <1>5, <1>6, RequestMoves DEF Earned

(* The request goes on with its attempt: it waits for what it asked OpenAI,
   keeps the attempt it has, and answers, or takes its next step. *)
LEMMA ServeMoves ==
    ASSUME DeviceInv, NEW q \in Requests, NEW i \in RequestStates,
           NEW rec \in AttemptRecords,
           request[q].at # "idle", UNCHANGED session,
           request' = [request EXCEPT ![q] = i],
           attempt' = [attempt EXCEPT ![request[q].id] = rec],
           saved \subseteq saved',
           i.id = request[q].id, i.at # "idle",
           rec = attempt[request[q].id] \/ Polls(q) \/ Consumes(q),
           rec.is \notin {"polling", "consuming"} => rec.owner = Nobody,
           rec.is = "done" => i.id \in saved',
           i.at \in {"exchange", "save", "complete"} =>
              \/ Consuming(q) /\ rec = attempt[request[q].id]
              \/ rec.is = "consuming" /\ rec.owner = q /\ Polls(q),
           i.at = "complete" => i.id \in saved',
           i.answer = "done" => i.id \in saved'
    PROVE  DeviceInv'
<1>1. PICK a \in Attempts : a = request[q].id
  BY DEF DeviceInv, RequestOK
<1>2. session' \in SessionStates /\ SessionOK'
  BY SessionKept
<1>3. rec = attempt[a] \/ Is(a, {"pending", "polling"}) \/ (Is(a, {"consuming"}) /\ attempt[a].owner = q)
  BY <1>1 DEF Polls, Consumes, Is
<1>4. Earned(q, i, a, rec)
  BY <1>1 DEF Earned, Polls, Is
<1>5. i.id = a /\ attempt' = [attempt EXCEPT ![a] = rec]
  BY <1>1
<1>6. /\ rec.is = "done" => a \in saved'
      /\ i.at = "complete" => a \in saved'
      /\ i.answer = "done" => i.id \in saved'
  BY <1>5
<1>7. QED  BY <1>2, <1>3, <1>4, <1>5, <1>6, RequestMoves

(* What a request becomes when it answers or takes its next step. *)
LEMMA AnswerShape ==
    ASSUME DeviceInv, NEW q \in Requests
    PROVE  /\ \A answer \in {"pending", "error", "done"} :
                 \E i \in RequestStates :
                    /\ Answers(q, answer) = [request EXCEPT ![q] = i]
                    /\ i.at = "answer" /\ i.id = request[q].id /\ i.answer = answer
           /\ \A step \in {"exchange", "save", "complete"} :
                 \E i \in RequestStates :
                    /\ Moves(q, step) = [request EXCEPT ![q] = i]
                    /\ i.at = step /\ i.id = request[q].id /\ i.answer = request[q].answer
<1>1. request[q] \in RequestStates
  BY DEF DeviceInv
<1>2. ASSUME NEW answer \in {"pending", "error", "done"}
      PROVE  \E i \in RequestStates :
                /\ Answers(q, answer) = [request EXCEPT ![q] = i]
                /\ i.at = "answer" /\ i.id = request[q].id /\ i.answer = answer
  <2> DEFINE i == [request[q] EXCEPT !.at = "answer", !.answer = answer]
  <2>1. i \in RequestStates /\ i.at = "answer" /\ i.id = request[q].id /\ i.answer = answer
    BY <1>1 DEF RequestStates
  <2>2. Answers(q, answer) = [request EXCEPT ![q] = i]
    BY DEF Answers
  <2> HIDE DEF i
  <2>3. QED  BY <2>1, <2>2
<1>3. ASSUME NEW step \in {"exchange", "save", "complete"}
      PROVE  \E i \in RequestStates :
                /\ Moves(q, step) = [request EXCEPT ![q] = i]
                /\ i.at = step /\ i.id = request[q].id /\ i.answer = request[q].answer
  <2> DEFINE i == [request[q] EXCEPT !.at = step]
  <2>1. i \in RequestStates /\ i.at = step /\ i.id = request[q].id
        /\ i.answer = request[q].answer
    BY <1>1 DEF RequestStates
  <2>2. Moves(q, step) = [request EXCEPT ![q] = i]
    BY DEF Moves
  <2> HIDE DEF i
  <2>3. QED  BY <2>1, <2>2
<1>4. QED  BY <1>2, <1>3

(* The poll is answered, or the exchange or the save fails. *)
LEMMA PollSteps ==
    ASSUME DeviceInv, NEW q \in Requests,
           PollPending(q) \/ PollGranted(q) \/ Fails(q)
    PROVE  DeviceInv'
<1>1. /\ request[q].at \in {"poll", "exchange", "save"} /\ UNCHANGED session
      /\ saved \subseteq saved' /\ RequestOK(q)
      /\ attempt \in [Attempts -> AttemptRecords]
  BY DEF PollPending, PollGranted, Fails, DeviceInv
<1> DEFINE a == request[q].id
<1>2. a \in Attempts /\ attempt[a] \in AttemptRecords /\ AttemptOK(a)
      /\ (attempt[a].is = "done" => a \in saved')
      /\ attempt = [attempt EXCEPT ![a] = attempt[a]]
  BY <1>1 DEF RequestOK, DeviceInv, AttemptOK, Is
<1>3. CASE PollPending(q) \/ Fails(q)
  <2>1. \E is \in {"pending", "failed"} :
           \/ attempt' = [attempt EXCEPT ![a] = Record(is)] /\ (Polls(q) \/ Consumes(q))
           \/ UNCHANGED attempt
    BY <1>3 DEF PollPending, Fails, Fail, Becomes
  <2>2. PICK rec \in AttemptRecords :
            /\ attempt' = [attempt EXCEPT ![a] = rec]
            /\ rec = attempt[a] \/ Polls(q) \/ Consumes(q)
            /\ rec.is \notin {"polling", "consuming"} => rec.owner = Nobody
            /\ rec.is = "done" => a \in saved'
    BY <1>2, <2>1, DeviceShapes DEF AttemptOK, Is
  <2>3. request' = Answers(q, "pending") \/ request' = Answers(q, "error")
    BY <1>3 DEF PollPending, Fails, Fail
  <2>4. PICK i \in RequestStates : /\ request' = [request EXCEPT ![q] = i]
                                   /\ i.at = "answer" /\ i.id = a /\ i.answer # "done"
    BY <2>3, AnswerShape
  <2>5. QED  BY <1>1, <2>2, <2>4, ServeMoves
<1>4. CASE PollGranted(q) /\ Polls(q)
  <2> DEFINE rec == [is |-> "consuming", owner |-> q, due |-> FALSE]
  <2>1. rec \in AttemptRecords /\ rec.is = "consuming" /\ rec.owner = q
    BY DeviceShapes
  <2>2. attempt' = [attempt EXCEPT ![a] = rec] /\ request' = Moves(q, "exchange")
    BY <1>4 DEF PollGranted, Becomes
  <2>3. PICK i \in RequestStates : /\ request' = [request EXCEPT ![q] = i]
                                   /\ i.at = "exchange" /\ i.id = a
                                   /\ i.answer = request[q].answer
    BY <2>2, AnswerShape
  <2> HIDE DEF rec
  <2>4. i.answer = "done" => i.id \in saved'
    BY <1>1, <2>3 DEF RequestOK
  <2>5. QED  BY <1>1, <1>4, <2>1, <2>2, <2>3, <2>4, ServeMoves
<1>5. CASE PollGranted(q) /\ ~Polls(q)
  <2>1. attempt' = [attempt EXCEPT ![a] = attempt[a]] /\ request' = Answers(q, "error")
    BY <1>2, <1>5 DEF PollGranted
  <2>2. PICK i \in RequestStates : /\ request' = [request EXCEPT ![q] = i]
                                   /\ i.at = "answer" /\ i.id = a /\ i.answer = "error"
    BY <2>1, AnswerShape
  <2>3. attempt[a].is \notin {"polling", "consuming"} => attempt[a].owner = Nobody
    BY <1>2 DEF AttemptOK, Is
  <2>4. QED  BY <1>1, <1>2, <2>1, <2>2, <2>3, ServeMoves
<1>6. QED  BY <1>3, <1>4, <1>5

(* The request that consumes the attempt saves its account and ends it. *)
LEMMA ConsumeSteps ==
    ASSUME DeviceInv, NEW q \in Requests, Exchange(q) \/ SaveAccount(q) \/ Complete(q)
    PROVE  DeviceInv'
<1>1. /\ request[q].at \in {"exchange", "save", "complete"} /\ UNCHANGED session
      /\ saved \subseteq saved' /\ RequestOK(q) /\ Consuming(q)
      /\ attempt \in [Attempts -> AttemptRecords]
  BY DEF Exchange, SaveAccount, Complete, Consuming, DeviceInv
<1> DEFINE a == request[q].id
<1>2. a \in Attempts /\ attempt[a] \in AttemptRecords /\ AttemptOK(a)
      /\ (attempt[a].is = "done" => a \in saved')
      /\ (attempt[a].is \notin {"polling", "consuming"} => attempt[a].owner = Nobody)
      /\ attempt = [attempt EXCEPT ![a] = attempt[a]]
  BY <1>1 DEF RequestOK, DeviceInv, AttemptOK, Is
<1>3. CASE Exchange(q) \/ SaveAccount(q)
  <2>1. /\ attempt' = [attempt EXCEPT ![a] = attempt[a]]
        /\ \/ request' = Moves(q, "save")
           \/ request' = Moves(q, "complete") /\ a \in saved'
    BY <1>2, <1>3 DEF Exchange, SaveAccount
  <2>2. PICK i \in RequestStates : /\ request' = [request EXCEPT ![q] = i]
                                   /\ i.at \in {"save", "complete"} /\ i.id = a
                                   /\ i.at = "complete" => a \in saved'
                                   /\ i.answer = request[q].answer
    BY <2>1, AnswerShape
  <2>3. i.answer = "done" => i.id \in saved'
    BY <1>1, <2>2 DEF RequestOK
  <2>4. QED  BY <1>1, <1>2, <2>1, <2>2, <2>3, ServeMoves
<1>4. CASE Complete(q)
  <2>1. a \in saved'
    BY <1>1, <1>4 DEF Complete, RequestOK
  <2>2. PICK rec \in AttemptRecords :
            /\ attempt' = [attempt EXCEPT ![a] = rec]
            /\ rec = attempt[a] \/ Consumes(q)
            /\ rec.is \notin {"polling", "consuming"} => rec.owner = Nobody
    BY <1>2, <1>4, DeviceShapes DEF Complete, Becomes
  <2>3. request' = Answers(q, "done") \/ request' = Answers(q, "error")
    BY <1>4 DEF Complete
  <2>4. PICK i \in RequestStates : /\ request' = [request EXCEPT ![q] = i]
                                   /\ i.at = "answer" /\ i.id = a
    BY <2>3, AnswerShape
  <2>5. QED  BY <1>1, <2>1, <2>2, <2>4, ServeMoves
<1>5. QED  BY <1>3, <1>4

(* What the session becomes of an answer. *)
LEMMA HearsShape ==
    ASSUME DeviceInv, session.asks # Nobody,
           NEW answer \in {"none", "pending", "processing", "done", "failed", "expired", "error"}
    PROVE  /\ Hears(answer) \in SessionStates
           /\ Hears(answer).asks = Nobody /\ Hears(answer).id = session.id
           /\ Hears(answer).id \in Attempts
           /\ Hears(answer).is = "done" => answer = "done"
<1>1. session \in SessionStates /\ session.id \in Attempts
  BY DEF DeviceInv, SessionOK
<1>2. PICK is \in {"waiting", "processing", "done", "failed", "expired"} :
          /\ Hears(answer) = [session EXCEPT !.is = is, !.asks = Nobody]
          /\ is = "done" => answer = "done"
  <2>1. CASE answer = "pending"
    BY <2>1 DEF Hears
  <2>2. CASE answer = "processing"
    BY <2>2 DEF Hears
  <2>3. CASE answer \in {"done", "expired"}
    BY <2>3 DEF Hears
  <2>4. CASE answer \in {"none", "failed", "error"}
    BY <2>4 DEF Hears
  <2>5. QED  BY <2>1, <2>2, <2>3, <2>4
<1>3. QED  BY <1>1, <1>2 DEF SessionStates

(* An answer comes to the session that waits for it, or to nobody. *)
LEMMA AnswerStep == ASSUME DeviceInv, NEW q \in Requests, Answer(q) PROVE DeviceInv'
<1>1. /\ request[q].at = "answer" /\ request' = [request EXCEPT ![q] = Idle]
      /\ UNCHANGED <<attempt, saved>> /\ RequestOK(q) /\ request[q] \in RequestStates
      /\ request[q].id \in Attempts
  BY DEF Answer, DeviceInv, RequestOK
<1>2. request'[q] = Idle /\ \A r \in Requests : r # q => request'[r] = request[r]
  BY <1>1 DEF DeviceInv
<1>3. session' \in SessionStates /\ SessionOK'
  <2>1. CASE Wanted(q)
    <3>1. session.asks = q /\ session.asks # Nobody /\ session.id = request[q].id
      BY <2>1, DeviceAssumption DEF Wanted, DeviceInv, SessionOK
    <3>2. PICK answer \in {request[q].answer, "error"} : session' = Hears(answer)
      BY <2>1 DEF Answer
    <3>3. /\ answer \in {"none", "pending", "processing", "done", "failed", "expired", "error"}
          /\ answer = "done" => session.id \in saved
      BY <1>1, <3>1, <3>2 DEF RequestStates, RequestOK
    <3>4. /\ session' \in SessionStates /\ session'.asks = Nobody
          /\ session'.id = session.id /\ session'.id \in Attempts
          /\ session'.is = "done" => answer = "done"
      BY <3>1, <3>2, <3>3, HearsShape
    <3>5. QED  BY <1>1, <3>3, <3>4 DEF SessionOK
  <2>2. CASE ~Wanted(q)
    <3>1. session' = session /\ session.asks # q
      BY <2>2 DEF Answer, Wanted
    <3>2. QED  BY <1>1, <1>2, <3>1 DEF DeviceInv, SessionOK
  <2>3. QED  BY <2>1, <2>2
<1> DEFINE a == request[q].id
<1>4. /\ attempt[a] \in AttemptRecords /\ attempt' = [attempt EXCEPT ![a] = attempt[a]]
      /\ (attempt[a].is = "done" => a \in saved')
      /\ (attempt[a].is \notin {"polling", "consuming"} => attempt[a].owner = Nobody)
  BY <1>1 DEF DeviceInv, AttemptOK, Is
<1>5. a \in Attempts /\ saved \subseteq saved'
  BY <1>1
<1> HIDE DEF a
<1>6. QED  BY <1>1, <1>3, <1>4, <1>5, DeviceShapes, RequestMoves DEF Earned

(* The server restarts: nothing is consumed, and the session asks nobody. *)
LEMMA DeviceRestart == ASSUME DeviceInv, Restart PROVE DeviceInv'
<1>1. /\ attempt' = [a \in Attempts |-> IF a \in Kept THEN Record("gone") ELSE attempt[a]]
      /\ request' = [q \in Requests |-> Idle] /\ UNCHANGED saved
      /\ session' = IF session.asks = Nobody THEN session ELSE Hears("error")
  BY DEF Restart
<1>2. \A q \in Requests : request'[q] = Idle
  BY <1>1
<1>3. request' \in [Requests -> RequestStates]
  BY <1>1, DeviceShapes
<1>4. ASSUME NEW a \in Attempts PROVE attempt'[a] \in AttemptRecords /\ AttemptOK(a)'
  <2>1. attempt[a] \in AttemptRecords /\ AttemptOK(a)
    BY DEF DeviceInv
  <2>2. CASE a \in Kept
    <3>1. attempt'[a] = Record("gone")
      BY <1>1, <2>2
    <3>2. QED  BY <3>1, DeviceShapes DEF AttemptOK, Is
  <2>3. CASE a \notin Kept
    BY <1>1, <2>1, <2>3 DEF AttemptOK, Is
  <2>4. QED  BY <2>2, <2>3
<1>5. attempt' \in [Attempts -> AttemptRecords]
  BY <1>1, <1>4
<1>6. session' \in SessionStates /\ SessionOK'
  <2>1. CASE session.asks = Nobody
    BY <1>1, <2>1 DEF DeviceInv, SessionOK
  <2>2. CASE session.asks # Nobody
    BY <1>1, <2>2, HearsShape DEF SessionOK
  <2>3. QED  BY <2>1, <2>2
<1>7. \A q \in Requests : RequestOK(q)'
  BY <1>2, DeviceShapes DEF RequestOK, Consuming
<1>8. \A q, r \in Requests : Alone(q, r)'
  BY <1>2, DeviceShapes DEF Alone, Consuming
<1>9. QED  BY <1>3, <1>4, <1>5, <1>6, <1>7, <1>8 DEF DeviceInv

LEMMA DeviceStep == ASSUME DeviceInv, [DeviceNext]_deviceVars PROVE DeviceInv'
<1>1. CASE \/ StartSession \/ NotStarted \/ CancelSession
           \/ \E a \in Attempts : Started(a) \/ StartElsewhere(a)
  BY <1>1, SessionSteps
<1>2. CASE \E a \in Attempts : ComesDue(a) \/ ExpireAttempt(a) \/ Forget(a)
  BY <1>2, TimeSteps
<1>3. CASE \E q \in Requests : Ask(q) \/ \E a \in Attempts : AskAgain(q, a)
  BY <1>3, AskSteps
<1>4. CASE \E q \in Requests : Serve(q)
  BY <1>4, PollSteps, ConsumeSteps, AnswerStep DEF Serve
<1>5. CASE Restart
  BY <1>5, DeviceRestart
<1>6. CASE UNCHANGED deviceVars
  <2>1. UNCHANGED attempt /\ UNCHANGED request /\ UNCHANGED session /\ UNCHANGED saved
    BY <1>6 DEF deviceVars
  <2>2. session' \in SessionStates /\ SessionOK' /\ attempt' \in [Attempts -> AttemptRecords]
    BY <2>1 DEF DeviceInv, SessionOK
  <2>3. QED  BY <2>1, <2>2, AttemptsMove
<1>7. QED  BY <1>1, <1>2, <1>3, <1>4, <1>5, <1>6 DEF DeviceNext

(* The invariant of the device login, for any attempts, requests and room. *)
THEOREM DeviceInductive == DeviceSpec => []DeviceInv
<1>1. DeviceInit => DeviceInv
  BY DeviceShapes DEF DeviceInit, DeviceInv, RequestOK, AttemptOK, SessionOK, Alone,
     Consuming, Is
<1>2. DeviceInv /\ [DeviceNext]_deviceVars => DeviceInv'
  BY DeviceStep
<1>3. QED  BY <1>1, <1>2, PTL DEF DeviceSpec

(* The granted code is single-use: OneExchange, whenever the fences of its
   polls end. *)
THEOREM CodeUsedOnce == DeviceSpec => []OneExchange
<1>1. ASSUME DeviceInv, NEW q \in Requests, Consuming(q)
      PROVE  /\ \/ Consumes(q)
                \/ /\ Is(request[q].id, {"expired", "gone"})
                   /\ attempt[request[q].id].owner = Nobody
             /\ \A r \in Requests \ {q} : Consuming(r) => request[r].id # request[q].id
  <2>1. RequestOK(q) /\ request[q].id \in Attempts
    BY <1>1 DEF DeviceInv, RequestOK, Consuming
  <2>2. Is(request[q].id, {"expired", "gone"}) => attempt[request[q].id].owner = Nobody
    BY <1>1, <2>1 DEF DeviceInv, AttemptOK, Is
  <2>3. QED  BY <1>1, <2>1, <2>2 DEF DeviceInv, RequestOK, Alone
<1>2. DeviceInv => OneExchange
  BY <1>1 DEF OneExchange
<1>3. QED  BY <1>2, DeviceInductive, PTL

(* A browser reports a connection only when its account is in the vault:
   ConnectedIsSaved. *)
THEOREM ConnectionReported == DeviceSpec => []ConnectedIsSaved
<1>1. DeviceInv => ConnectedIsSaved
  BY DEF DeviceInv, SessionOK, ConnectedIsSaved
<1>2. QED  BY <1>1, DeviceInductive, PTL

-----------------------------------------------------------------------------
(* Pairing.  A code is claimed once: the helper that claimed it is the only
   one that saves an account for it and publishes a result, and the row it
   leaves behind, however it was settled meanwhile, cannot be claimed again. *)
HelperShapes == [at : {"idle", "verify", "claim", "save", "finish", "refuse"},
                 id : Codes \cup {NoCode},
                 over : {"none", "unused", "pending", "processing", "done", "failed",
                         "expired", "gone"}]

Working(h) == helper[h].at \in {"save", "finish", "refuse"}

RowIs(c, phases) == code[c].is \in phases

HelperOK(h) ==
    /\ helper[h].at # "idle" => helper[h].id \in Codes
    /\ Working(h) => RowIs(helper[h].id, {"processing", "failed", "gone"})
    /\ helper[h].at = "save" => kept[helper[h].id] = 0
    /\ helper[h].at = "finish" => kept[helper[h].id] = 1

RowOK(c) ==
    /\ kept[c] \in {0, 1}
    /\ RowIs(c, {"unused", "pending"}) => kept[c] = 0
    /\ RowIs(c, {"done"}) => kept[c] = 1

OneClaim(h, g) == Working(h) /\ Working(g) /\ h # g => helper[h].id # helper[g].id

ServerInv ==
    /\ code \in [Codes -> CodeRows]
    /\ helper \in [Helpers -> HelperShapes]
    /\ kept \in [Codes -> Nat]
    /\ \A h \in Helpers : HelperOK(h)
    /\ \A c \in Codes : RowOK(c)
    /\ \A h, g \in Helpers : OneClaim(h, g)

PanelShapes == [is : {"closed", "login", "pairing", "connected", "unsynced"},
                pair : {"waiting", "processing", "expired", "error"},
                starting : BOOLEAN, working : BOOLEAN, due : BOOLEAN,
                id : Codes \cup {NoCode}, polls : BOOLEAN,
                asks : Ticks \cup {NoCode}, fails : Nat]

PanelOK ==
    /\ panel.polls => panel.id \in Codes /\ ~RowIs(panel.id, {"unused"})
    /\ panel.is = "connected" /\ panel.id # NoCode => kept[panel.id] = 1

TickOK(t) ==
    /\ tick[t].at # "idle" => tick[t].answer # "none"
    /\ tick[t].answer # "none" => tick[t].id \in Codes
    /\ tick[t].answer = "failed" => RowIs(tick[t].id, {"failed", "gone"})
    /\ tick[t].answer = "done" => kept[tick[t].id] = 1

DialogInv ==
    /\ panel \in PanelShapes
    /\ tick \in [Ticks -> TickStates]
    /\ PanelOK
    /\ \A t \in Ticks : TickOK(t)

PairInv == ServerInv /\ DialogInv

(* A row grows older without its helper: it is created, settled or swept. *)
RowAges(c) ==
    \/ RowIs(c, {"unused"}) /\ RowIs(c, {"pending"})'
    \/ RowIs(c, {"pending"}) /\ RowIs(c, {"expired", "gone"})'
    \/ RowIs(c, {"processing"}) /\ RowIs(c, {"failed", "gone"})'
    \/ RowIs(c, {"done", "failed", "expired"}) /\ RowIs(c, {"gone"})'

LEMMA RowsAge ==
    ASSUME ServerInv, UNCHANGED helper, UNCHANGED kept, code' \in [Codes -> CodeRows],
           \A c \in Codes : code'[c].is = code[c].is \/ RowAges(c)
    PROVE  ServerInv'
<1>1. ASSUME NEW h \in Helpers PROVE HelperOK(h)'
  BY DEF ServerInv, HelperOK, Working, RowAges, RowIs
<1>2. ASSUME NEW c \in Codes PROVE RowOK(c)'
  BY DEF ServerInv, RowOK, RowAges, RowIs
<1>3. \A h, g \in Helpers : OneClaim(h, g)'
  BY DEF ServerInv, OneClaim, Working
<1>4. QED  BY <1>1, <1>2, <1>3 DEF ServerInv

(* Helper h moves to i, and code c with it: if another helper had claimed c,
   the row can but age. *)
LEMMA HelperMoves ==
    ASSUME ServerInv, NEW h \in Helpers, NEW i \in HelperShapes, NEW c \in Codes,
           helper' = [helper EXCEPT ![h] = i],
           code' \in [Codes -> CodeRows], kept' \in [Codes -> Nat],
           \A d \in Codes \ {c} : code'[d] = code[d] /\ kept'[d] = kept[d],
           RowOK(c)',
           i.at # "idle" => i.id = c,
           i.at \in {"save", "finish", "refuse"} => RowIs(c, {"processing", "failed", "gone"})',
           i.at = "save" => kept'[c] = 0,
           i.at = "finish" => kept'[c] = 1,
           i.at \in {"save", "finish", "refuse"} =>
              RowIs(c, {"pending"}) \/ (Working(h) /\ helper[h].id = c),
           \/ RowIs(c, {"pending"})
           \/ Working(h) /\ helper[h].id = c
           \/ (code'[c].is = code[c].is \/ RowAges(c)) /\ kept'[c] = kept[c]
    PROVE  ServerInv'
<1>1. /\ helper' \in [Helpers -> HelperShapes] /\ helper'[h] = i
      /\ \A g \in Helpers : g # h => helper'[g] = helper[g]
  BY DEF ServerInv
<1>2. ASSUME NEW g \in Helpers PROVE HelperOK(g)'
  <2>1. HelperOK(g) /\ OneClaim(g, h)
    BY DEF ServerInv
  <2>2. CASE g = h
    BY <1>1, <2>2 DEF HelperOK, Working
  <2>3. CASE g # h
    <3>1. helper'[g] = helper[g]
      BY <1>1, <2>3
    <3>2. CASE ~Working(g)
      BY <2>1, <3>1, <3>2 DEF HelperOK, Working
    <3>3. CASE Working(g) /\ helper[g].id # c
      <4>1. /\ helper[g].id \in Codes \ {c}
            /\ code'[helper[g].id] = code[helper[g].id] /\ kept'[helper[g].id] = kept[helper[g].id]
        BY <2>1, <3>3 DEF HelperOK, Working
      <4>2. QED  BY <2>1, <3>1, <4>1 DEF HelperOK, Working, RowIs
    <3>4. CASE Working(g) /\ helper[g].id = c
      <4>1. /\ RowIs(c, {"processing", "failed", "gone"}) /\ ~RowIs(c, {"pending"})
            /\ ~(Working(h) /\ helper[h].id = c)
        BY <2>1, <2>3, <3>4 DEF HelperOK, OneClaim, RowIs
      <4>2. (code'[c].is = code[c].is \/ RowAges(c)) /\ kept'[c] = kept[c]
        BY <4>1
      <4>3. RowIs(c, {"processing", "failed", "gone"})'
        BY <4>1, <4>2 DEF RowAges, RowIs
      <4>4. QED  BY <2>1, <3>1, <3>4, <4>2, <4>3 DEF HelperOK, Working
    <3>5. QED  BY <3>2, <3>3, <3>4
  <2>4. QED  BY <2>2, <2>3
<1>3. ASSUME NEW d \in Codes PROVE RowOK(d)'
  BY DEF ServerInv, RowOK, RowIs
<1>4. ASSUME NEW g \in Helpers, g # h, Working(g), i.at \in {"save", "finish", "refuse"}
      PROVE  helper[g].id # c
  BY <1>4 DEF ServerInv, HelperOK, OneClaim, RowIs
<1>5. ASSUME NEW f \in Helpers, NEW g \in Helpers PROVE OneClaim(f, g)'
  BY <1>1, <1>4 DEF ServerInv, OneClaim, Working
<1>6. QED  BY <1>1, <1>2, <1>3, <1>5 DEF ServerInv

(* The dialog hears nothing: what it was told stays true. *)
LEMMA DialogKept ==
    ASSUME DialogInv, UNCHANGED panel, UNCHANGED tick,
           \A c \in Codes : /\ RowIs(c, {"failed", "gone"}) => RowIs(c, {"failed", "gone"})'
                            /\ ~RowIs(c, {"unused"}) => ~RowIs(c, {"unused"})'
                            /\ kept[c] = 1 => kept'[c] = 1
    PROVE  DialogInv'
<1>1. PanelOK'
  BY DEF DialogInv, PanelOK, PanelShapes
<1>2. ASSUME NEW t \in Ticks PROVE TickOK(t)'
  BY DEF DialogInv, TickOK
<1>3. QED  BY <1>1, <1>2 DEF DialogInv

(* The shapes of a row, and what becomes of a row that turns. *)
LEMMA RowShapes ==
    /\ \A is \in {"unused", "pending", "processing", "done", "failed", "expired", "gone"} :
          Row(is) \in CodeRows /\ Row(is).is = is
    /\ NoHelper \in HelperShapes /\ NoHelper.at = "idle"
    /\ NoTick \in TickStates /\ NoTick.at = "idle" /\ NoTick.answer = "none"
    /\ \A is \in {"closed", "login"} :
          /\ Panel(is) \in PanelShapes
          /\ Panel(is).is = is /\ Panel(is).id = NoCode /\ Panel(is).polls = FALSE
<1>1. \A is \in {"unused", "pending", "processing", "done", "failed", "expired", "gone"} :
         Row(is) \in CodeRows /\ Row(is).is = is
  BY PairingAssumption DEF Row, CodeRows
<1>2. NoHelper \in HelperShapes /\ NoHelper.at = "idle"
  BY DEF NoHelper, HelperShapes
<1>3. NoTick \in TickStates /\ NoTick.at = "idle" /\ NoTick.answer = "none"
  BY DEF NoTick, TickStates
<1>4. \A is \in {"closed", "login"} :
         /\ Panel(is) \in PanelShapes
         /\ Panel(is).is = is /\ Panel(is).id = NoCode /\ Panel(is).polls = FALSE
  BY DEF Panel, PanelShapes
<1>5. QED  BY <1>1, <1>2, <1>3, <1>4

LEMMA Turning ==
    ASSUME code \in [Codes -> CodeRows], NEW c \in Codes,
           NEW is \in {"unused", "pending", "processing", "done", "failed", "expired", "gone"},
           Turns(c, is)
    PROVE  /\ code' \in [Codes -> CodeRows] /\ code'[c].is = is
           /\ \A d \in Codes \ {c} : code'[d] = code[d]
<1>1. code' = [code EXCEPT ![c] = IF is = code[c].is THEN code[c] ELSE Row(is)]
  BY DEF Turns
<1>2. QED  BY <1>1, RowShapes

(* Settling a row makes it older, or leaves it. *)
LEMMA Settling ==
    ASSUME code \in [Codes -> CodeRows], NEW c \in Codes, NEW over
    PROVE  /\ SettledAs(c, over) \in {"unused", "pending", "processing", "done", "failed",
                                      "expired", "gone"}
           /\ \/ SettledAs(c, over) = code[c].is
              \/ RowIs(c, {"pending"}) /\ SettledAs(c, over) = "expired"
              \/ RowIs(c, {"processing"}) /\ SettledAs(c, over) = "failed"
<1>1. code[c].is \in {"unused", "pending", "processing", "done", "failed", "expired", "gone"}
  BY DEF CodeRows
<1>2. CASE code[c].is = "pending" /\ over = "pending"
  BY <1>2 DEF SettledAs, RowIs
<1>3. CASE code[c].is = "processing" /\ over = "processing"
  BY <1>3 DEF SettledAs, RowIs
<1>4. CASE ~(code[c].is = "pending" /\ over = "pending")
           /\ ~(code[c].is = "processing" /\ over = "processing")
  BY <1>1, <1>4 DEF SettledAs
<1>5. QED  BY <1>2, <1>3, <1>4

(* Nothing the server does to a row or for a helper makes untrue what the
   dialog was told. *)
LEMMA ServerOnly ==
    ASSUME PairInv, ServerInv', UNCHANGED panel, UNCHANGED tick,
           \A c \in Codes : /\ \/ code'[c].is = code[c].is
                               \/ RowAges(c)
                               \/ RowIs(c, {"pending"}) /\ RowIs(c, {"processing"})'
                               \/ RowIs(c, {"processing"}) /\ RowIs(c, {"done", "failed"})'
                            /\ kept[c] = 1 => kept'[c] = 1
    PROVE  PairInv'
<1>1. ASSUME NEW c \in Codes
      PROVE  /\ RowIs(c, {"failed", "gone"}) => RowIs(c, {"failed", "gone"})'
             /\ ~RowIs(c, {"unused"}) => ~RowIs(c, {"unused"})'
             /\ kept[c] = 1 => kept'[c] = 1
  BY DEF RowAges, RowIs
<1>2. QED  BY <1>1, DialogKept DEF PairInv

(* A helper's request goes on or ends; its code stays as it is. *)
LEMMA HelperWaits ==
    ASSUME PairInv, NEW h \in Helpers,
           \/ \E c \in Codes : Preflight(h, c)
           \/ Verify(h) \/ HelperEnds(h)
    PROVE  PairInv'
<1>1. /\ UNCHANGED <<panel, tick, kept>> /\ HelperOK(h) /\ helper[h] \in HelperShapes
      /\ code \in [Codes -> CodeRows] /\ kept \in [Codes -> Nat]
  BY DEF Preflight, Verify, HelperEnds, PairInv, ServerInv
<1>2. CASE \E c \in Codes : Preflight(h, c)
  <2>1. PICK c \in Codes : Preflight(h, c)
    BY <1>2
  <2> DEFINE i == [NoHelper EXCEPT !.at = "verify", !.id = c]
             row == [code[c] EXCEPT !.tries = code[c].tries + 1]
  <2>2. code[c] \in CodeRows /\ code[c].tries < MaxTries
    BY <1>1, <2>1 DEF Preflight
  <2>3. row \in CodeRows /\ row.is = code[c].is
    BY <2>2, PairingAssumption DEF CodeRows
  <2>4. i \in HelperShapes /\ i.at = "verify" /\ i.id = c
    BY RowShapes DEF HelperShapes
  <2>5. helper' = [helper EXCEPT ![h] = i] /\ code' = [code EXCEPT ![c] = row]
    BY <2>1 DEF Preflight
  <2> HIDE DEF i, row
  <2>6. /\ code' \in [Codes -> CodeRows] /\ code'[c].is = code[c].is
        /\ \A d \in Codes \ {c} : code'[d] = code[d]
    BY <1>1, <2>3, <2>5
  <2>7. RowOK(c)'
    BY <1>1, <2>6 DEF PairInv, ServerInv, RowOK, RowIs
  <2>8. ServerInv'
    BY <1>1, <2>4, <2>5, <2>6, <2>7, HelperMoves DEF PairInv
  <2>9. QED  BY <1>1, <2>6, <2>8, ServerOnly
<1>3. CASE Verify(h) \/ HelperEnds(h)
  <2>1. helper[h].id \in Codes /\ UNCHANGED code
    BY <1>1, <1>3 DEF Verify, HelperEnds, HelperOK
  <2>2. PICK c \in Codes : c = helper[h].id
    BY <2>1
  <2>3. PICK i \in HelperShapes : /\ helper' = [helper EXCEPT ![h] = i]
                                  /\ i.at \in {"idle", "claim"}
                                  /\ i.at # "idle" => i.id = c
    <3>1. CASE Verify(h)
      <4> DEFINE i == [helper[h] EXCEPT !.at = "claim", !.over = Over(helper[h].id)]
      <4>1. Over(helper[h].id) \in {"none", "unused", "pending", "processing", "done",
                                    "failed", "expired", "gone"}
        BY <1>1, <2>1 DEF Over, CodeRows
      <4>2. i \in HelperShapes /\ i.at = "claim" /\ i.id = c
        BY <1>1, <2>2, <4>1 DEF HelperShapes
      <4>3. helper' = [helper EXCEPT ![h] = i]
        BY <3>1 DEF Verify
      <4> HIDE DEF i
      <4>4. QED  BY <4>2, <4>3
    <3>2. CASE HelperEnds(h)
      BY <3>2, RowShapes DEF HelperEnds
    <3>3. QED  BY <1>3, <3>1, <3>2
  <2>4. RowOK(c)'
    BY <1>1, <2>1 DEF PairInv, ServerInv, RowOK, RowIs
  <2>5. ServerInv'
    BY <1>1, <2>1, <2>3, <2>4, HelperMoves DEF PairInv
  <2>6. QED  BY <1>1, <2>1, <2>5, ServerOnly
<1>4. QED  BY <1>2, <1>3

(* The code is claimed, or was not to be had. *)
LEMMA ClaimStep == ASSUME PairInv, NEW h \in Helpers, Claim(h) PROVE PairInv'
<1>1. /\ UNCHANGED <<panel, tick, kept>> /\ HelperOK(h) /\ helper[h] \in HelperShapes
      /\ code \in [Codes -> CodeRows] /\ kept \in [Codes -> Nat]
      /\ helper[h].at = "claim" /\ helper[h].id \in Codes
  BY DEF Claim, PairInv, ServerInv, HelperOK
<1>2. PICK c \in Codes : c = helper[h].id
  BY <1>1
<1>3. RowOK(c)
  BY DEF PairInv, ServerInv
<1>4. CASE MayClaim(c, helper[h].over)
  <2>1. /\ RowIs(c, {"pending"}) /\ Turns(c, "processing")
        /\ HelperGoes(h, "save") \/ HelperGoes(h, "refuse")
    BY <1>2, <1>4 DEF Claim, MayClaim, RowIs
  <2>2. /\ code' \in [Codes -> CodeRows] /\ code'[c].is = "processing"
        /\ \A d \in Codes \ {c} : code'[d] = code[d]
    BY <1>1, <2>1, Turning
  <2>3. PICK at \in {"save", "refuse"} :
            helper' = [helper EXCEPT ![h] = [helper[h] EXCEPT !.at = at]]
    BY <2>1 DEF HelperGoes
  <2> DEFINE i == [helper[h] EXCEPT !.at = at]
  <2>4. i \in HelperShapes /\ i.at = at /\ i.id = c
    BY <1>1, <1>2 DEF HelperShapes
  <2> HIDE DEF i
  <2>5. kept[c] = 0 /\ RowOK(c)' /\ RowIs(c, {"processing", "failed", "gone"})'
    BY <1>1, <1>3, <2>1, <2>2 DEF RowOK, RowIs
  <2>6. helper' = [helper EXCEPT ![h] = i]
    BY <2>3 DEF i
  <2>7. ServerInv'
    BY <1>1, <2>1, <2>2, <2>4, <2>5, <2>6, HelperMoves DEF PairInv
  <2>8. QED  BY <1>1, <2>1, <2>2, <2>7, ServerOnly DEF RowIs
<1>5. CASE ~MayClaim(c, helper[h].over)
  <2>1. Turns(c, SettledAs(c, helper[h].over)) /\ helper' = [helper EXCEPT ![h] = NoHelper]
    BY <1>2, <1>5 DEF Claim
  <2>2. PICK is \in {"unused", "pending", "processing", "done", "failed", "expired", "gone"} :
            /\ Turns(c, is)
            /\ \/ is = code[c].is
               \/ RowIs(c, {"pending"}) /\ is = "expired"
               \/ RowIs(c, {"processing"}) /\ is = "failed"
    BY <1>1, <2>1, Settling
  <2>3. /\ code' \in [Codes -> CodeRows] /\ code'[c].is = is
        /\ \A d \in Codes \ {c} : code'[d] = code[d]
    BY <1>1, <2>2, Turning
  <2>4. code'[c].is = code[c].is \/ RowAges(c)
    BY <2>2, <2>3 DEF RowAges, RowIs
  <2>5. RowOK(c)'
    BY <1>1, <1>3, <2>4 DEF RowOK, RowAges, RowIs
  <2>6. ServerInv'
    BY <1>1, <2>1, <2>3, <2>4, <2>5, RowShapes, HelperMoves DEF PairInv
  <2>7. QED  BY <1>1, <2>3, <2>4, <2>6, ServerOnly
<1>6. QED  BY <1>4, <1>5

(* The helper that claimed the code saves its account, and publishes the
   result if the row still waits for it. *)
LEMMA WorkSteps == ASSUME PairInv, NEW h \in Helpers, Save(h) \/ Publish(h) PROVE PairInv'
<1>1. /\ UNCHANGED <<panel, tick>> /\ HelperOK(h) /\ helper[h] \in HelperShapes
      /\ code \in [Codes -> CodeRows] /\ kept \in [Codes -> Nat]
      /\ Working(h) /\ helper[h].id \in Codes
  BY DEF Save, Publish, Working, PairInv, ServerInv, HelperOK
<1>2. PICK c \in Codes : c = helper[h].id
  BY <1>1
<1>3. RowOK(c) /\ RowIs(c, {"processing", "failed", "gone"})
  BY <1>1, <1>2 DEF PairInv, ServerInv, HelperOK
<1>4. CASE Save(h)
  <2>1. kept[c] = 0 /\ UNCHANGED code
    BY <1>1, <1>2, <1>4 DEF Save, HelperOK
  <2>2. PICK at \in {"finish", "refuse"} :
            /\ helper' = [helper EXCEPT ![h] = [helper[h] EXCEPT !.at = at]]
            /\ \/ kept' = [kept EXCEPT ![c] = kept[c] + 1]
               \/ UNCHANGED kept /\ at = "refuse"
    BY <1>2, <1>4 DEF Save, HelperGoes
  <2> DEFINE i == [helper[h] EXCEPT !.at = at]
  <2>3. i \in HelperShapes /\ i.at = at /\ i.id = c
    BY <1>1, <1>2 DEF HelperShapes
  <2>4. helper' = [helper EXCEPT ![h] = i]
    BY <2>2
  <2> HIDE DEF i
  <2>5. /\ kept' \in [Codes -> Nat] /\ kept'[c] \in {0, 1} /\ (at = "finish" => kept'[c] = 1)
        /\ \A d \in Codes \ {c} : kept'[d] = kept[d]
    BY <1>1, <2>1, <2>2
  <2>6. RowOK(c)' /\ RowIs(c, {"processing", "failed", "gone"})'
    BY <1>3, <2>1, <2>5 DEF RowOK, RowIs
  <2>7. ServerInv'
    BY <1>1, <1>2, <2>1, <2>3, <2>4, <2>5, <2>6, HelperMoves DEF PairInv
  <2>8. \A d \in Codes : kept[d] = 1 => kept'[d] = 1
    BY <2>1, <2>5
  <2>9. QED  BY <1>1, <2>1, <2>7, <2>8, ServerOnly
<1>5. CASE Publish(h)
  <2>1. helper' = [helper EXCEPT ![h] = NoHelper] /\ UNCHANGED kept
    BY <1>5 DEF Publish
  <2>2. /\ code' \in [Codes -> CodeRows]
        /\ \A d \in Codes \ {c} : code'[d] = code[d]
        /\ \/ code'[c].is = code[c].is
           \/ RowIs(c, {"processing"}) /\ code'[c].is = "failed"
           \/ RowIs(c, {"processing"}) /\ code'[c].is = "done" /\ helper[h].at = "finish"
    <3>1. CASE TakesResult(c)
      <4>1. PICK is \in {"done", "failed"} :
                Turns(c, is) /\ (is = "done" => helper[h].at = "finish")
        BY <1>2, <1>5, <3>1 DEF Publish
      <4>2. QED  BY <1>1, <3>1, <4>1, Turning DEF TakesResult, RowIs
    <3>2. CASE ~TakesResult(c)
      BY <1>1, <1>2, <1>5, <3>2 DEF Publish
    <3>3. QED  BY <3>1, <3>2
  <2>3. RowOK(c)'
    BY <1>1, <1>2, <1>3, <2>1, <2>2 DEF RowOK, RowIs, HelperOK
  <2>4. kept' \in [Codes -> Nat] /\ \A d \in Codes : kept'[d] = kept[d]
    BY <1>1, <2>1
  <2>5. ServerInv'
    BY <1>1, <1>2, <2>1, <2>2, <2>3, <2>4, RowShapes, HelperMoves DEF PairInv
  <2>6. QED  BY <1>1, <2>2, <2>4, <2>5, ServerOnly DEF RowIs
<1>6. QED  BY <1>4, <1>5

(* The dialog moves, and a request of its own with it. *)
LEMMA DialogMoves ==
    ASSUME PairInv, NEW p \in PanelShapes, panel' = p, UNCHANGED helper, UNCHANGED kept,
           code' \in [Codes -> CodeRows],
           \A c \in Codes : code'[c].is = code[c].is \/ RowAges(c),
           p.polls => p.id \in Codes /\ ~RowIs(p.id, {"unused"})',
           p.is = "connected" /\ p.id # NoCode => kept[p.id] = 1,
           tick' \in [Ticks -> TickStates],
           \A t \in Ticks : tick'[t] # tick[t] => TickOK(t)'
    PROVE  PairInv'
<1>1. ServerInv'
  BY RowsAge DEF PairInv
<1>2. PanelOK'
  BY DEF PanelOK
<1>3. ASSUME NEW t \in Ticks PROVE TickOK(t)'
  <2>1. TickOK(t)
    BY DEF PairInv, DialogInv
  <2>2. CASE tick'[t] = tick[t]
    <3>1. \A c \in Codes : RowIs(c, {"failed", "gone"}) => RowIs(c, {"failed", "gone"})'
      BY DEF RowAges, RowIs
    <3>2. QED  BY <2>1, <2>2, <3>1 DEF TickOK
  <2>3. QED  BY <2>2
<1>4. QED  BY <1>1, <1>2, <1>3 DEF PairInv, DialogInv

(* A panel polls the code it polled before, and shows a connection only of a
   saved account. *)
Shows(p) ==
    /\ p \in PanelShapes
    /\ p.polls => panel.polls /\ p.id = panel.id
    /\ p.is = "connected" /\ p.id # NoCode => p.id \in Codes /\ kept[p.id] = 1

(* What the dialog becomes by itself or by a success. *)
LEMMA PanelsShow ==
    ASSUME PairInv
    PROVE  /\ panel \in PanelShapes /\ Shows(panel)
           /\ Shows(Panel("closed")) /\ Shows(Panel("login"))
           /\ Silent(panel) \in PanelShapes /\ Silent(panel).polls = FALSE
           /\ Silent(panel).id = NoCode /\ Silent(panel).is = panel.is
           /\ \A c \in Codes \cup {NoCode} :
                 /\ Succeeded(c) \in PanelShapes /\ Succeeded(c).polls = FALSE
                 /\ Succeeded(c).is = "connected" /\ Succeeded(c).id = c
<1>1. panel \in PanelShapes /\ PanelOK
  BY DEF PairInv, DialogInv
<1>2. Shows(panel)
  BY <1>1 DEF Shows, PanelOK, PanelShapes
<1>3. /\ Silent(panel) \in PanelShapes /\ Silent(panel).polls = FALSE
      /\ Silent(panel).id = NoCode /\ Silent(panel).is = panel.is
  BY <1>1 DEF Silent, PanelShapes
<1>4. Shows(Panel("closed")) /\ Shows(Panel("login"))
  BY RowShapes DEF Shows
<1>5. ASSUME NEW c \in Codes \cup {NoCode}
      PROVE  /\ Succeeded(c) \in PanelShapes /\ Succeeded(c).polls = FALSE
             /\ Succeeded(c).is = "connected" /\ Succeeded(c).id = c
  <2> DEFINE p == Silent(panel)
  <2>1. Succeeded(c) = [p EXCEPT !.is = "connected", !.id = c, !.due = TRUE]
    BY DEF Succeeded
  <2> HIDE DEF p
  <2>2. p \in PanelShapes /\ p.polls = FALSE
    BY <1>3 DEF p
  <2>3. QED  BY <2>1, <2>2 DEF PanelShapes
<1>6. QED  BY <1>1, <1>2, <1>3, <1>4, <1>5

(* The dialog is opened, left, used and closed. *)
LEMMA PanelSteps ==
    ASSUME PairInv, \/ OpenPanel \/ ClosePanel \/ LeavePairing \/ Connect \/ Connected
                    \/ StartPairing \/ CodeRefused \/ Reload
    PROVE  PairInv'
<1> DEFINE silent == Silent(panel)
           success == Succeeded(NoCode)
<1>1. /\ UNCHANGED code /\ UNCHANGED helper /\ UNCHANGED tick /\ UNCHANGED kept
      /\ code \in [Codes -> CodeRows] /\ tick \in [Ticks -> TickStates]
      /\ panel \in PanelShapes /\ PanelOK
  BY DEF OpenPanel, ClosePanel, LeavePairing, Connect, Connected, StartPairing, CodeRefused,
     Reload, PairInv, DialogInv, ServerInv
<1>2. /\ silent \in PanelShapes /\ Shows(silent)
      /\ success \in PanelShapes /\ Shows(success)
  BY PanelsShow DEF Shows
<1>3. Shows(panel')
  <2> HIDE DEF silent, success
  <2>1. CASE OpenPanel \/ ClosePanel \/ (Reload /\ panel' = Panel("closed"))
    BY <2>1, PanelsShow DEF OpenPanel, ClosePanel
  <2>2. CASE LeavePairing
    <3>1. panel' = [silent EXCEPT !.is = "login", !.pair = "waiting"]
      BY <2>2 DEF LeavePairing, silent
    <3>2. QED  BY <1>2, <3>1 DEF Shows, PanelShapes
  <2>3. CASE Connect
    <3>1. panel' = [panel EXCEPT !.working = TRUE]
      BY <2>3 DEF Connect
    <3>2. QED  BY <1>1, <3>1, PanelsShow DEF Shows, PanelShapes
  <2>4. CASE Connected
    <3>1. PICK q \in {success, panel} : panel' = [q EXCEPT !.working = FALSE]
      BY <2>4 DEF Connected, success
    <3>2. q \in PanelShapes /\ Shows(q)
      BY <1>1, <1>2, <3>1, PanelsShow
    <3>3. QED  BY <3>1, <3>2 DEF Shows, PanelShapes
  <2>5. CASE StartPairing
    <3>1. panel' = [panel EXCEPT !.is = "pairing", !.pair = "waiting", !.starting = TRUE]
      BY <2>5 DEF StartPairing
    <3>2. QED  BY <1>1, <3>1, PanelsShow DEF Shows, PanelShapes
  <2>6. CASE CodeRefused
    <3>1. panel' = [panel EXCEPT !.starting = FALSE, !.pair = "error"]
      BY <2>6 DEF CodeRefused, NoCodeGot
    <3>2. QED  BY <1>1, <3>1, PanelsShow DEF Shows, PanelShapes
  <2>7. CASE Reload /\ panel' = [panel EXCEPT !.due = FALSE]
    BY <1>1, <2>7, PanelsShow DEF Shows, PanelShapes
  <2>8. CASE panel' = [panel EXCEPT !.is = "unsynced", !.due = FALSE]
    BY <1>1, <2>8, PanelsShow DEF Shows, PanelShapes
  <2>9. QED
    BY <2>1, <2>2, <2>3, <2>4, <2>5, <2>6, <2>7, <2>8 DEF Reload
<1>4. PICK p \in PanelShapes : panel' = p
  BY <1>3 DEF Shows
<1>5. /\ p.polls => p.id \in Codes /\ ~RowIs(p.id, {"unused"})'
      /\ p.is = "connected" /\ p.id # NoCode => kept[p.id] = 1
  BY <1>1, <1>3, <1>4 DEF Shows, PanelOK, RowIs
<1>6. \A c \in Codes : code'[c].is = code[c].is
  BY <1>1
<1>7. code' \in [Codes -> CodeRows] /\ tick' \in [Ticks -> TickStates]
      /\ \A t \in Ticks : tick'[t] = tick[t]
  BY <1>1
<1>8. QED  BY <1>1, <1>4, <1>5, <1>6, <1>7, DialogMoves

(* The server creates a code, and the dialog polls it; or a row's time is
   over. *)
LEMMA CodeSteps ==
    ASSUME PairInv, NEW c \in Codes, CodeStarted(c) \/ Elapses(c)
    PROVE  PairInv'
<1>1. /\ UNCHANGED helper /\ UNCHANGED tick /\ UNCHANGED kept
      /\ code \in [Codes -> CodeRows] /\ tick \in [Ticks -> TickStates]
      /\ panel \in PanelShapes /\ PanelOK
  BY DEF CodeStarted, Elapses, PairInv, DialogInv, ServerInv
<1>2. tick' \in [Ticks -> TickStates] /\ \A t \in Ticks : tick'[t] = tick[t]
  BY <1>1
<1>3. CASE CodeStarted(c)
  <2>1. PICK swept \in SUBSET CodesKept :
            /\ code[c].is = "unused"
            /\ code' = [k \in Codes |-> IF k = c THEN Row("pending")
                                        ELSE IF k \in swept THEN Row("gone") ELSE code[k]]
    <3> DEFINE swept == IF Cardinality(CodesKept) >= MaxCodes
                        THEN {k \in CodesKept : Discardable(k)} ELSE {}
    <3>1. swept \in SUBSET CodesKept
      OBVIOUS
    <3>2. /\ code[c].is = "unused"
          /\ code' = [k \in Codes |-> IF k = c THEN Row("pending")
                                      ELSE IF k \in swept THEN Row("gone") ELSE code[k]]
      BY <1>3 DEF CodeStarted, Creates
    <3> HIDE DEF swept
    <3>3. QED  BY <3>1, <3>2
  <2>2. ASSUME NEW k \in Codes
        PROVE  /\ code'[k] \in CodeRows
               /\ code'[k].is = code[k].is \/ RowAges(k)
               /\ k = c => RowIs(k, {"pending"})'
    <3>1. CASE k = c
      <4>1. code'[k] = Row("pending")
        BY <2>1, <3>1
      <4>2. QED  BY <2>1, <3>1, <4>1, RowShapes DEF RowAges, RowIs
    <3>2. CASE k # c /\ k \in swept
      <4>1. code'[k] = Row("gone")
        BY <2>1, <3>2
      <4>2. code[k].is \in {"pending", "processing", "done", "failed", "expired", "gone"}
        BY <1>1, <3>2 DEF CodesKept, CodeRows
      <4>3. QED  BY <3>2, <4>1, <4>2, RowShapes DEF RowAges, RowIs
    <3>3. CASE k # c /\ k \notin swept
      BY <1>1, <2>1, <3>3
    <3>4. QED  BY <3>1, <3>2, <3>3
  <2>3. code' \in [Codes -> CodeRows] /\ \A k \in Codes : code'[k].is = code[k].is \/ RowAges(k)
    BY <2>1, <2>2
  <2>4. PICK p \in PanelShapes : /\ panel' = p
                                 /\ p.polls => p.id = c \/ (panel.polls /\ p.id = panel.id)
                                 /\ p.is = "connected" /\ p.id # NoCode => kept[p.id] = 1
    <3>1. CASE panel' = NoCodeGot
      <4> DEFINE p == [panel EXCEPT !.starting = FALSE, !.pair = "error"]
      <4>1. p \in PanelShapes /\ p.is = panel.is /\ p.id = panel.id /\ p.polls = panel.polls
        BY <1>1 DEF PanelShapes
      <4>2. panel' = p
        BY <3>1 DEF NoCodeGot
      <4> HIDE DEF p
      <4>3. QED  BY <1>1, <4>1, <4>2 DEF PanelOK
    <3>2. CASE panel' = [Silent(panel) EXCEPT !.is = "pairing", !.starting = FALSE,
                         !.pair = "waiting", !.id = c, !.polls = TRUE]
      <4> DEFINE q == Silent(panel)
                 p == [q EXCEPT !.is = "pairing", !.starting = FALSE, !.pair = "waiting",
                                !.id = c, !.polls = TRUE]
      <4>1. q \in PanelShapes
        BY PanelsShow
      <4> HIDE DEF q
      <4>2. p \in PanelShapes /\ p.is = "pairing" /\ p.id = c
        BY <4>1 DEF PanelShapes
      <4>3. panel' = p
        BY <3>2 DEF q
      <4> HIDE DEF p
      <4>4. QED  BY <4>2, <4>3
    <3>3. QED  BY <1>3, <3>1, <3>2 DEF CodeStarted
  <2>5. p.polls => p.id \in Codes /\ ~RowIs(p.id, {"unused"})'
    BY <1>1, <2>2, <2>4 DEF PanelOK, RowAges, RowIs
  <2>6. QED  BY <1>1, <1>2, <2>3, <2>4, <2>5, DialogMoves
<1>4. CASE Elapses(c)
  <2>1. /\ UNCHANGED panel
        /\ code' = [code EXCEPT ![c] = [code[c] EXCEPT !.late = TRUE]]
    BY <1>4 DEF Elapses
  <2>2. [code[c] EXCEPT !.late = TRUE] \in CodeRows
        /\ [code[c] EXCEPT !.late = TRUE].is = code[c].is
    BY <1>1 DEF CodeRows
  <2>3. code' \in [Codes -> CodeRows] /\ \A k \in Codes : code'[k].is = code[k].is
    BY <1>1, <2>1, <2>2
  <2>4. /\ panel' = panel /\ panel.polls => panel.id \in Codes /\ ~RowIs(panel.id, {"unused"})'
        /\ panel.is = "connected" /\ panel.id # NoCode => kept[panel.id] = 1
    BY <1>1, <2>1, <2>3 DEF PanelOK, RowIs
  <2>5. PICK p \in PanelShapes : p = panel
    BY <1>1
  <2>6. QED  BY <1>1, <1>2, <2>1, <2>3, <2>4, <2>5, DialogMoves
<1>5. QED  BY <1>3, <1>4

LEMMA HeardShows ==
    ASSUME PairInv, NEW t \in Ticks,
           NEW answer \in {"pending", "processing", "done", "failed", "expired"},
           answer = "done" => tick[t].id \in Codes /\ kept[tick[t].id] = 1
    PROVE  Shows(Heard(t, answer))
<1>1. /\ panel \in PanelShapes /\ PanelOK /\ tick[t] \in TickStates
      /\ Shows(panel)
  BY DEF PairInv, DialogInv, Shows, PanelOK, PanelShapes
<1>2. CASE panel.is = "closed"
  <2>1. Heard(t, answer) = panel
    BY <1>2 DEF Heard
  <2>2. QED  BY <1>1, <2>1
<1>3. CASE panel.is # "closed" /\ answer = "done"
  <2>1. Heard(t, answer) = Succeeded(tick[t].id)
    BY <1>3 DEF Heard
  <2>2. PICK c \in Codes : c = tick[t].id /\ kept[c] = 1
    BY <1>3
  <2>3. /\ Succeeded(c) \in PanelShapes /\ Succeeded(c).polls = FALSE
        /\ Succeeded(c).is = "connected" /\ Succeeded(c).id = c
    BY PanelsShow
  <2>4. QED  BY <2>1, <2>2, <2>3 DEF Shows
<1>4. ASSUME NEW is \in {"waiting", "processing", "error", "expired"}
      PROVE  /\ Shows(GoesOn(t, is)) /\ Shows(Stops(is))
  <2> DEFINE q == Silent(panel)
  <2>1. /\ Stops(is) = [q EXCEPT !.pair = is]
        /\ GoesOn(t, is) \in {[panel EXCEPT !.pair = is, !.fails = 0, !.asks = NoCode],
                              [panel EXCEPT !.pair = is]}
    BY DEF Stops, GoesOn
  <2>2. q \in PanelShapes /\ Shows(q)
    BY PanelsShow DEF Shows
  <2> HIDE DEF q
  <2>3. Shows(Stops(is))
    BY <2>1, <2>2 DEF Shows, PanelShapes
  <2> DEFINE p1 == [panel EXCEPT !.pair = is, !.fails = 0, !.asks = NoCode]
             p2 == [panel EXCEPT !.pair = is]
  <2>a. /\ p1 \in PanelShapes /\ p1.is = panel.is /\ p1.id = panel.id /\ p1.polls = panel.polls
        /\ p2 \in PanelShapes /\ p2.is = panel.is /\ p2.id = panel.id /\ p2.polls = panel.polls
    BY <1>1 DEF PanelShapes
  <2>b. GoesOn(t, is) \in {p1, p2}
    BY <2>1
  <2> HIDE DEF p1, p2
  <2>4. Shows(GoesOn(t, is))
    <3>1. Shows(p1) /\ Shows(p2)
      BY <1>1, <2>a DEF Shows
    <3>2. QED  BY <2>b, <3>1
  <2>5. QED  BY <2>3, <2>4
<1>5. CASE panel.is # "closed" /\ answer = "processing"
  BY <1>4, <1>5 DEF Heard
<1>6. CASE panel.is # "closed" /\ answer = "pending"
  BY <1>4, <1>6 DEF Heard
<1>7. CASE panel.is # "closed" /\ answer = "failed"
  BY <1>4, <1>7 DEF Heard
<1>8. CASE panel.is # "closed" /\ answer = "expired"
  BY <1>4, <1>8 DEF Heard
<1>9. QED  BY <1>2, <1>3, <1>5, <1>6, <1>7, <1>8

(* A status request ends, or its answer's body is still to come. *)
LEMMA TickMoves ==
    ASSUME PairInv, NEW t \in Ticks, NEW i \in TickStates, tick' = [tick EXCEPT ![t] = i],
           UNCHANGED code, UNCHANGED helper, UNCHANGED kept, Shows(panel'),
           \/ i = NoTick
           \/ i.at # "idle" /\ i.id = tick[t].id /\ i.answer = tick[t].answer
              /\ tick[t].at # "idle"
    PROVE  PairInv'
<1>1. /\ code \in [Codes -> CodeRows] /\ tick \in [Ticks -> TickStates]
      /\ panel \in PanelShapes /\ PanelOK /\ TickOK(t)
  BY DEF PairInv, ServerInv, DialogInv
<1>2. PICK p \in PanelShapes : panel' = p
  BY DEF Shows
<1>3. /\ p.polls => p.id \in Codes /\ ~RowIs(p.id, {"unused"})'
      /\ p.is = "connected" /\ p.id # NoCode => kept[p.id] = 1
  BY <1>1, <1>2 DEF Shows, PanelOK, RowIs
<1>4. tick' \in [Ticks -> TickStates] /\ tick'[t] = i
      /\ \A s \in Ticks : tick'[s] # tick[s] => s = t
  BY <1>1
<1>5. TickOK(t)'
  BY <1>1, <1>4, RowShapes DEF TickOK, RowIs
<1>6. code' \in [Codes -> CodeRows] /\ \A c \in Codes : code'[c].is = code[c].is
  BY <1>1
<1>7. QED  BY <1>2, <1>3, <1>4, <1>5, <1>6, DialogMoves

LEMMA TickSteps ==
    ASSUME PairInv, NEW t \in Ticks, Head(t) \/ Body(t) \/ PollFails(t)
    PROVE  PairInv'
<1>1. /\ UNCHANGED code /\ UNCHANGED helper /\ UNCHANGED kept
      /\ tick[t].at # "idle" /\ tick[t] \in TickStates /\ TickOK(t)
      /\ panel \in PanelShapes /\ PanelOK /\ Shows(panel)
  BY DEF Head, Body, PollFails, PairInv, DialogInv, Shows, PanelOK, PanelShapes
<1>2. CASE Understood(t)
  <2>1. PICK answer \in {tick[t].answer, "pending"} : panel' = Heard(t, answer)
    BY <1>2 DEF Understood
  <2>2. /\ answer \in {"pending", "processing", "done", "failed", "expired"}
        /\ answer = "done" => tick[t].id \in Codes /\ kept[tick[t].id] = 1
    BY <1>1, <2>1 DEF TickOK, TickStates
  <2>3. Shows(panel')
    BY <2>1, <2>2, HeardShows
  <2>4. tick' = [tick EXCEPT ![t] = NoTick]
    BY <1>2 DEF Understood
  <2>5. QED  BY <1>1, <2>3, <2>4, RowShapes, TickMoves
<1>3. CASE Head(t) /\ UNCHANGED panel
  <2>1. Shows(panel')
    BY <1>1, <1>3
  <2> DEFINE i == [tick[t] EXCEPT !.at = "body"]
  <2>2. i \in TickStates /\ i.at = "body" /\ i.id = tick[t].id /\ i.answer = tick[t].answer
    BY <1>1 DEF TickStates
  <2>3. tick' = [tick EXCEPT ![t] = NoTick] \/ tick' = [tick EXCEPT ![t] = i] \/ Understood(t)
    BY <1>3 DEF Head
  <2> HIDE DEF i
  <2>4. CASE tick' = [tick EXCEPT ![t] = NoTick]
    BY <1>1, <2>1, <2>4, RowShapes, TickMoves
  <2>5. CASE tick' = [tick EXCEPT ![t] = i]
    BY <1>1, <2>1, <2>2, <2>5, TickMoves
  <2>6. QED  BY <1>2, <2>3, <2>4, <2>5
<1>4. CASE PollFails(t)
  <2>1. tick' = [tick EXCEPT ![t] = NoTick]
    BY <1>4 DEF PollFails
  <2>2. Shows(panel')
    <3>1. panel' = panel \/ panel' = Heard(t, "failed") \/ panel' = [panel EXCEPT !.fails = panel.fails + 1, !.asks = NoCode]
      BY <1>4 DEF PollFails, Heard
    <3>2. Shows(Heard(t, "failed"))
      BY HeardShows
    <3>3. Shows([panel EXCEPT !.fails = panel.fails + 1, !.asks = NoCode])
      <4> DEFINE p == [panel EXCEPT !.fails = panel.fails + 1, !.asks = NoCode]
      <4>1. panel.fails + 1 \in Nat
        BY <1>1 DEF PanelShapes
      <4>2. p \in PanelShapes /\ p.is = panel.is /\ p.id = panel.id /\ p.polls = panel.polls
        BY <1>1, <4>1 DEF PanelShapes
      <4> HIDE DEF p
      <4>3. Shows(p)
        BY <1>1, <4>2 DEF Shows
      <4>4. QED  BY <4>3 DEF p
    <3>4. QED  BY <1>1, <3>1, <3>2, <3>3
  <2>3. QED  BY <1>1, <2>1, <2>2, RowShapes, TickMoves
<1>5. QED  BY <1>2, <1>3, <1>4 DEF Head, Body

(* The dialog asks how its code is, and the server settles the row. *)
LEMMA PollStep == ASSUME PairInv, NEW t \in Ticks, Poll(t) PROVE PairInv'
<1>1. /\ UNCHANGED helper /\ UNCHANGED kept /\ panel.polls
      /\ code \in [Codes -> CodeRows] /\ tick \in [Ticks -> TickStates]
      /\ panel \in PanelShapes /\ PanelOK
      /\ panel' = [panel EXCEPT !.asks = t]
  BY DEF Poll, PairInv, ServerInv, DialogInv
<1>2. PICK c \in Codes : c = panel.id
  BY <1>1 DEF PanelOK
<1>3. ~RowIs(c, {"unused"}) /\ RowOK(c)
  BY <1>1, <1>2 DEF PanelOK, PairInv, ServerInv
<1>4. PICK now \in {"unused", "pending", "processing", "done", "failed", "expired", "gone"} :
          /\ now = SettledAs(c, Over(c))
          /\ \/ now = code[c].is
             \/ RowIs(c, {"pending"}) /\ now = "expired"
             \/ RowIs(c, {"processing"}) /\ now = "failed"
  BY <1>1, Settling
<1>5. Turns(c, now)
  BY <1>2, <1>4 DEF Poll
<1>6. /\ code' \in [Codes -> CodeRows] /\ code'[c].is = now
      /\ \A d \in Codes \ {c} : code'[d] = code[d]
  BY <1>1, <1>5, Turning
<1>7. \A d \in Codes : code'[d].is = code[d].is \/ RowAges(d)
  BY <1>4, <1>6 DEF RowAges, RowIs
<1>8. PICK answer \in {"pending", "processing", "done", "failed", "expired"} :
          /\ tick' = [tick EXCEPT ![t] = [at |-> "sent", id |-> c,
                                          last |-> panel.fails = MaxMisses - 1,
                                          answer |-> answer]]
          /\ answer = "failed" => now = "failed"
          /\ answer = "done" => now = "done"
  BY <1>2, <1>3, <1>4 DEF Poll, RowIs
<1> DEFINE i == [at |-> "sent", id |-> c, last |-> panel.fails = MaxMisses - 1, answer |-> answer]
<1>9. i \in TickStates /\ i.at = "sent" /\ i.id = c /\ i.answer = answer
  BY DEF TickStates
<1>10. tick' = [tick EXCEPT ![t] = i]
  BY <1>8
<1> HIDE DEF i
<1>11. tick' \in [Ticks -> TickStates] /\ tick'[t] = i /\ \A s \in Ticks : tick'[s] # tick[s] => s = t
  BY <1>1, <1>9, <1>10
<1>12. TickOK(t)'
  <2>1. answer = "done" => kept[c] = 1
    BY <1>3, <1>4, <1>8 DEF RowOK, RowIs
  <2>2. QED  BY <1>1, <1>6, <1>8, <1>9, <1>11, <2>1 DEF TickOK, RowIs
<1>13. PICK p \in PanelShapes : p.is = panel.is /\ p.id = panel.id /\ panel' = p
  <2>1. /\ [panel EXCEPT !.asks = t] \in PanelShapes
        /\ [panel EXCEPT !.asks = t].is = panel.is /\ [panel EXCEPT !.asks = t].id = panel.id
    BY <1>1 DEF PanelShapes
  <2>2. QED  BY <1>1, <2>1
<1>14. ~RowIs(c, {"unused"})'
  BY <1>3, <1>4, <1>6 DEF RowIs
<1>15. /\ p.polls => p.id \in Codes /\ ~RowIs(p.id, {"unused"})'
       /\ p.is = "connected" /\ p.id # NoCode => kept[p.id] = 1
  BY <1>1, <1>2, <1>13, <1>14 DEF PanelOK
<1>16. QED  BY <1>1, <1>6, <1>7, <1>11, <1>12, <1>13, <1>15, DialogMoves

LEMMA PairStep == ASSUME PairInv, [PairNext]_pairVars PROVE PairInv'
<1>1. CASE \/ OpenPanel \/ ClosePanel \/ LeavePairing \/ Connect \/ Connected
           \/ StartPairing \/ CodeRefused \/ Reload
  BY <1>1, PanelSteps
<1>2. CASE \E c \in Codes : CodeStarted(c) \/ Elapses(c)
  BY <1>2, CodeSteps
<1>3. CASE \E h \in Helpers :
              \/ \E c \in Codes : Preflight(h, c)
              \/ Verify(h) \/ Claim(h) \/ Save(h) \/ Publish(h) \/ HelperEnds(h)
  BY <1>3, HelperWaits, ClaimStep, WorkSteps
<1>4. CASE \E t \in Ticks : Poll(t) \/ Head(t) \/ Body(t) \/ PollFails(t)
  BY <1>4, PollStep, TickSteps
<1>5. CASE UNCHANGED pairVars
  <2>1. UNCHANGED code /\ UNCHANGED helper /\ UNCHANGED panel /\ UNCHANGED tick /\ UNCHANGED kept
    BY <1>5 DEF pairVars
  <2>2. ServerInv' 
    BY <2>1, RowsAge DEF PairInv, ServerInv
  <2>3. QED  BY <2>1, <2>2, ServerOnly
<1>6. QED  BY <1>1, <1>2, <1>3, <1>4, <1>5 DEF PairNext

(* The invariant of pairing, for any codes, helpers, requests and limits. *)
THEOREM PairInductive == PairSpec => []PairInv
<1>1. PairInit => PairInv
  <2>1. ASSUME PairInit PROVE ServerInv
    BY <2>1, RowShapes DEF PairInit, ServerInv, HelperOK, RowOK, OneClaim, Working, RowIs
  <2>2. ASSUME PairInit PROVE DialogInv
    BY <2>2, RowShapes DEF PairInit, DialogInv, PanelOK, TickOK
  <2>3. QED  BY <2>1, <2>2 DEF PairInv
<1>2. PairInv /\ [PairNext]_pairVars => PairInv'
  BY PairStep
<1>3. QED  BY <1>1, <1>2, PTL DEF PairSpec

(* A code settles once: CodeSettlesOnce, however the requests interleave. *)
THEOREM CodeSettled == PairSpec => []CodeSettlesOnce
<1>1. ASSUME PairInv, NEW c \in Codes
      PROVE  /\ kept[c] <= 1
             /\ code[c].is = "done" => kept[c] = 1
             /\ Told("failed", c) => code[c].is \in {"failed", "gone"}
  BY <1>1 DEF PairInv, ServerInv, DialogInv, RowOK, TickOK, RowIs, Told
<1>2. PairInv => CodeSettlesOnce
  BY <1>1 DEF CodeSettlesOnce, PairInv, DialogInv, PanelOK
<1>3. QED  BY <1>2, PairInductive, PTL

-----------------------------------------------------------------------------
(* The parts run side by side: a behaviour of the whole is one of each. *)
THEOREM PartsOfSessions == SessionsSpec => DeviceSpec /\ OAuthSpec /\ PairSpec /\ AccessSpec
<1>1. SessionsInit => DeviceInit /\ OAuthInit /\ PairInit /\ AccessInit
  BY DEF SessionsInit
<1>2. [SessionsNext]_sessionsVars =>
          /\ [DeviceNext]_deviceVars /\ [OAuthNext]_oauthVars
          /\ [PairNext]_pairVars /\ [AccessNext]_accessVars
  BY DEF SessionsNext, sessionsVars, deviceVars, oauthVars, pairVars, accessVars
<1>3. QED  BY <1>1, <1>2, PTL DEF SessionsSpec, DeviceSpec, OAuthSpec, PairSpec, AccessSpec

(* However an account is connected, its single-use attempt is completed once:
   AttemptsCompleteOnce. *)
THEOREM CompletedOnce == SessionsSpec => []AttemptsCompleteOnce
BY PartsOfSessions, CodeUsedOnce, ClaimsKept, CodeSettled, PTL DEF AttemptsCompleteOnce
=============================================================================
