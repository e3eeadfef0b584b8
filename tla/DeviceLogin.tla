------------------------------ MODULE DeviceLogin ------------------------------
(***************************************************************************)
(* The OpenAI device login: the attempts the server keeps in memory, the   *)
(* status requests that poll OpenAI and, once, exchange the granted code   *)
(* and save the account, and the login session of a browser that polls.    *)
(*                                                                         *)
(* Deadlines are taken when the state allows them: time passes in actions  *)
(* of its own.                                                             *)
(***************************************************************************)
EXTENDS Naturals, FiniteSets

CONSTANTS
    Attempts,       \* ids of attempts, each used once
    Requests,       \* status requests
    MaxRecords,     \* attempts kept at a time
    Nobody          \* no request, no attempt

ASSUME DeviceAssumption ==
    /\ MaxRecords \in Nat \ {0}
    /\ Nobody \notin Requests \cup Attempts

VARIABLES
    attempt,        \* attempt -> its record
    request,        \* status request -> how far it is
    session,        \* the browser's login session
    saved           \* attempts whose account was written to the vault

deviceVars == <<attempt, request, session, saved>>

(* due: the next poll may be made; for a polling record, its fence is over. *)
AttemptRecords == [is : {"unused", "pending", "polling", "consuming", "done",
                         "failed", "expired", "gone"},
                   owner : Requests \cup {Nobody},
                   due : BOOLEAN]

RequestStates == [at : {"idle", "poll", "exchange", "save", "complete", "answer"},
                  id : Attempts \cup {Nobody},
                  answer : {"none", "pending", "processing", "done", "failed",
                            "expired", "error"}]

SessionStates == [is : {"idle", "starting", "waiting", "processing", "done",
                        "failed", "expired"},
                  id : Attempts \cup {Nobody},
                  asks : Requests \cup {Nobody}]

Record(is) == [is |-> is, owner |-> Nobody, due |-> FALSE]
Idle == [at |-> "idle", id |-> Nobody, answer |-> "none"]
Session(is) == [is |-> is, id |-> Nobody, asks |-> Nobody]

DeviceInit ==
    /\ attempt = [a \in Attempts |-> Record("unused")]
    /\ request = [q \in Requests |-> Idle]
    /\ session = Session("idle")
    /\ saved = {}

Is(a, states) == attempt[a].is \in states
Live(a) == Is(a, {"pending", "polling", "consuming"})
Terminal(a) == Is(a, {"done", "failed", "expired"})
Kept == {a \in Attempts : Live(a) \/ Terminal(a)}

-----------------------------------------------------------------------------
Reclaimable(a) == Terminal(a)

(* start: makeRoom drops records that ended until there is room, then the
   attempt is stored.  Which of them are the oldest is left open. *)
Stores(a) ==
    \E dropped \in SUBSET {k \in Kept : Reclaimable(k)} :
        /\ Is(a, {"unused"})
        /\ Cardinality(Kept \ dropped) < MaxRecords
        /\ dropped # {} => Cardinality(Kept \ dropped) = MaxRecords - 1
        /\ attempt' = [k \in Attempts |-> IF k = a THEN Record("pending")
                                          ELSE IF k \in dropped
                                               THEN [attempt[k] EXCEPT !.is = "gone"]
                                          ELSE attempt[k]]

(* session.start, when no login is active. *)
StartSession ==
    /\ session.is \in {"idle", "done", "failed", "expired"}
    /\ session' = Session("starting")
    /\ UNCHANGED <<attempt, request, saved>>

(* The server handles the start, and the session gets the attempt or, after
   its timeout, no answer. *)
Started(a) ==
    /\ session.is = "starting"
    /\ Stores(a)
    /\ \/ session' = [Session("waiting") EXCEPT !.id = a]
       \/ session' = Session("failed")
    /\ UNCHANGED <<request, saved>>

(* No attempt: the provider or the network failed, or there was no room. *)
NotStarted ==
    /\ session.is = "starting"
    /\ session' = Session("failed")
    /\ UNCHANGED <<attempt, request, saved>>

(* A start whose session has given up, or another browser's. *)
StartElsewhere(a) ==
    /\ Stores(a)
    /\ UNCHANGED <<request, session, saved>>

(* session.cancel: the request is aborted, the server goes on. *)
CancelSession ==
    /\ session.is \in {"starting", "waiting", "processing"}
    /\ session' = Session("idle")
    /\ UNCHANGED <<attempt, request, saved>>

-----------------------------------------------------------------------------
Answers(q, answer) == [request EXCEPT ![q] = [@ EXCEPT !.at = "answer", !.answer = answer]]
Moves(q, step) == [request EXCEPT ![q] = [@ EXCEPT !.at = step]]
Becomes(a, rec) == attempt' = [attempt EXCEPT ![a] = rec]

(* The status route up to its first await: status, and claimPoll when the
   attempt is live. *)
Visit(q, a) ==
    LET told(answer) == /\ request' = [request EXCEPT ![q] =
                                          [at |-> "answer", id |-> a, answer |-> answer]]
                        /\ UNCHANGED attempt
        polls == /\ request' = [request EXCEPT ![q] =
                                   [at |-> "poll", id |-> a, answer |-> "none"]]
                 /\ Becomes(a, [is |-> "polling", owner |-> q, due |-> FALSE])
    IN  CASE Is(a, {"unused", "gone"}) -> told("error")
          [] Terminal(a) -> told(attempt[a].is)
          [] Is(a, {"consuming"}) -> told("processing")
          [] Is(a, {"pending"}) /\ ~attempt[a].due -> told("pending")
          [] Is(a, {"polling"}) /\ ~attempt[a].due -> told("processing")
          [] OTHER -> polls

(* The session's timer fires. *)
Ask(q) ==
    /\ session.is \in {"waiting", "processing"}
    /\ session.asks = Nobody
    /\ request[q] = Idle
    /\ session' = [session EXCEPT !.asks = q]
    /\ Visit(q, session.id)
    /\ UNCHANGED saved

(* A second request for the same attempt. *)
AskAgain(q, a) ==
    /\ request[q] = Idle
    /\ Is(a, {"pending", "polling", "consuming"})
    /\ Visit(q, a)
    /\ UNCHANGED <<session, saved>>

(* ownedPollingRecord: q holds the poll, and its fence is not over. *)
Polls(q) ==
    LET rec == attempt[request[q].id] IN
    rec.is = "polling" /\ rec.owner = q /\ ~rec.due

Consumes(q) ==
    LET rec == attempt[request[q].id] IN rec.is = "consuming" /\ rec.owner = q

(* OpenAI has no decision yet, or cannot tell now: the attempt is pending
   again. *)
PollPending(q) ==
    /\ request[q].at = "poll"
    /\ IF Polls(q) THEN Becomes(request[q].id, Record("pending")) ELSE UNCHANGED attempt
    /\ request' \in {Answers(q, IF Polls(q) THEN "pending" ELSE "error"),
                     Answers(q, "error")}
    /\ UNCHANGED <<session, saved>>

(* OpenAI grants the code: beginConsume. *)
PollGranted(q) ==
    /\ request[q].at = "poll"
    /\ IF Polls(q)
       THEN /\ Becomes(request[q].id, [is |-> "consuming", owner |-> q, due |-> FALSE])
            /\ request' = Moves(q, "exchange")
       ELSE /\ request' = Answers(q, "error")
            /\ UNCHANGED attempt
    /\ UNCHANGED <<session, saved>>

(* store.fail, for an attempt that is still q's. *)
Fail(q) ==
    /\ IF Polls(q) \/ Consumes(q)
       THEN Becomes(request[q].id, Record("failed")) ELSE UNCHANGED attempt
    /\ request' = Answers(q, "error")

(* The poll, the exchange, the identity or the save failed, or the account
   is not the expected one; a save may fail after it was stored. *)
Fails(q) ==
    /\ request[q].at \in {"poll", "exchange", "save"}
    /\ Fail(q)
    /\ \/ UNCHANGED saved
       \/ request[q].at = "save" /\ saved' = saved \cup {request[q].id}
    /\ UNCHANGED session

(* exchangeOpenAIDeviceAuthorization and resolveProviderAccount. *)
Exchange(q) ==
    /\ request[q].at = "exchange"
    /\ request' = Moves(q, "save")
    /\ UNCHANGED <<attempt, session, saved>>

(* saveProviderAccount. *)
SaveAccount(q) ==
    /\ request[q].at = "save"
    /\ saved' = saved \cup {request[q].id}
    /\ request' = Moves(q, "complete")
    /\ UNCHANGED <<attempt, session>>

(* store.complete. *)
Complete(q) ==
    /\ request[q].at = "complete"
    /\ IF Consumes(q)
       THEN Becomes(request[q].id, Record("done")) /\ request' = Answers(q, "done")
       ELSE request' = Answers(q, "error") /\ UNCHANGED attempt
    /\ UNCHANGED <<session, saved>>

(* A plausible slip: every answer is taken to be the session's. *)
WantedAlways(q) == session.is \in {"waiting", "processing"}

(* Is the answer one the session, of this generation, waits for? *)
Wanted(q) == session.asks = q

(* What an answer makes of the session; one it does not expect ends it. *)
Hears(answer) ==
    CASE answer = "pending" -> [session EXCEPT !.is = "waiting", !.asks = Nobody]
      [] answer = "processing" -> [session EXCEPT !.is = "processing", !.asks = Nobody]
      [] answer \in {"done", "expired"} -> [session EXCEPT !.is = answer, !.asks = Nobody]
      [] OTHER -> [session EXCEPT !.is = "failed", !.asks = Nobody]

(* The answer arrives, or is lost and the fetch fails. *)
Answer(q) ==
    /\ request[q].at = "answer"
    /\ session' \in IF Wanted(q) THEN {Hears(request[q].answer), Hears("error")} ELSE {session}
    /\ request' = [request EXCEPT ![q] = Idle]
    /\ UNCHANGED <<attempt, saved>>

-----------------------------------------------------------------------------
(* The poll interval of a pending attempt is over, or the fence of a polling
   one, whose request was not scheduled to renew it. *)
ComesDue(a) ==
    /\ Is(a, {"pending", "polling"})
    /\ ~attempt[a].due
    /\ Becomes(a, [attempt[a] EXCEPT !.due = TRUE])
    /\ UNCHANGED <<request, session, saved>>

(* expireLiveRecord, at the attempt's deadline or its consumer's. *)
ExpireAttempt(a) ==
    /\ Live(a)
    /\ Becomes(a, Record("expired"))
    /\ UNCHANGED <<request, session, saved>>

(* An ended attempt is kept for a minute. *)
Forget(a) ==
    /\ Terminal(a)
    /\ Becomes(a, Record("gone"))
    /\ UNCHANGED <<request, session, saved>>

(* The server restarts: the attempts were in memory only. *)
Restart ==
    /\ Kept # {}
    /\ attempt' = [a \in Attempts |-> IF a \in Kept THEN Record("gone") ELSE attempt[a]]
    /\ request' = [q \in Requests |-> Idle]
    /\ session' = IF session.asks = Nobody THEN session ELSE Hears("error")
    /\ UNCHANGED saved

Serve(q) ==
    \/ PollPending(q) \/ PollGranted(q) \/ Fails(q) \/ Exchange(q) \/ SaveAccount(q)
    \/ Complete(q) \/ Answer(q)

DeviceNext ==
    \/ StartSession \/ NotStarted \/ CancelSession \/ Restart
    \/ \E a \in Attempts :
          \/ Started(a) \/ StartElsewhere(a)
          \/ ComesDue(a) \/ ExpireAttempt(a) \/ Forget(a)
    \/ \E q \in Requests :
          \/ Ask(q) \/ Serve(q)
          \/ \E a \in Attempts : AskAgain(q, a)

DeviceSpec == DeviceInit /\ [][DeviceNext]_deviceVars
=============================================================================
