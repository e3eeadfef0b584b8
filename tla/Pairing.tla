-------------------------------- MODULE Pairing --------------------------------
(***************************************************************************)
(* Connecting an account from the dashboard's dialog: directly, by a       *)
(* request that reads or exchanges a credential and saves the account, or  *)
(* with a pairing code that a helper on another machine completes while    *)
(* the dialog polls the code's status.                                     *)
(*                                                                         *)
(* A code's row is shared by the requests in a Convex table; each of its   *)
(* mutations is a transaction.                                             *)
(***************************************************************************)
EXTENDS Naturals, FiniteSets

CONSTANTS
    Codes,          \* pairing codes, each created once
    Helpers,        \* connect commands and their completing requests
    Ticks,          \* status requests of the dialog
    MaxCodes,       \* rows kept for an owner
    MaxTries,       \* verifications a code allows
    MaxMisses,      \* failed requests in a row that end the dialog's poll
    NoCode

ASSUME PairingAssumption ==
    /\ MaxCodes \in Nat \ {0}
    /\ MaxTries \in Nat \ {0}
    /\ MaxMisses \in Nat \ {0}
    /\ NoCode \notin Codes \cup Ticks

VARIABLES
    code,           \* code -> its row
    helper,         \* helper -> how far its request is
    panel,          \* the dialog
    tick,           \* status request -> how far it is
    kept            \* code -> times its account was written to the vault

pairVars == <<code, helper, panel, tick, kept>>

(* late: the row's ten minutes, or its claim's two, are over. *)
CodeRows == [is : {"unused", "pending", "processing", "done", "failed", "expired", "gone"},
             tries : 0..MaxTries, late : BOOLEAN]

(* over: the phase of the row whose time was over when the claim was sent. *)
HelperStates == [at : {"idle", "verify", "claim", "save", "finish", "refuse"},
                 id : Codes \cup {NoCode}, over : {"none", "pending", "processing"}]

(* What the dialog shows: one of the logins, the pairing, or its success card,
   unsynced once the reload after it failed.  pair is pairState; starting and
   working are requests for a code and for a direct connection; due: the
   reload that follows a success is to come.  asks: the request that polls for
   the dialog, of its current generation. *)
PanelStates == [is : {"closed", "login", "pairing", "connected", "unsynced"},
                pair : {"waiting", "processing", "expired", "error"},
                starting : BOOLEAN, working : BOOLEAN, due : BOOLEAN,
                id : Codes \cup {NoCode}, polls : BOOLEAN,
                asks : Ticks \cup {NoCode}, fails : 0..MaxMisses - 1]

(* last: one more failure ends the poll. *)
TickStates == [at : {"idle", "sent", "body"}, id : Codes \cup {NoCode}, last : BOOLEAN,
               answer : {"none", "pending", "processing", "done", "failed", "expired"}]

(* A row that ends keeps nothing else that is read. *)
Row(is) == [is |-> is, tries |-> 0, late |-> FALSE]
NoHelper == [at |-> "idle", id |-> NoCode, over |-> "none"]
NoTick == [at |-> "idle", id |-> NoCode, last |-> FALSE, answer |-> "none"]
Panel(is) == [is |-> is, pair |-> "waiting", starting |-> FALSE, working |-> FALSE,
              due |-> FALSE, id |-> NoCode, polls |-> FALSE, asks |-> NoCode, fails |-> 0]

PairInit ==
    /\ code = [c \in Codes |-> Row("unused")]
    /\ helper = [h \in Helpers |-> NoHelper]
    /\ panel = Panel("closed")
    /\ tick = [t \in Ticks |-> NoTick]
    /\ kept = [c \in Codes |-> 0]

CodesKept == {c \in Codes : code[c].is \notin {"unused", "gone"}}
Turns(c, is) == code' = [code EXCEPT ![c] = IF is = @.is THEN @ ELSE Row(is)]

-----------------------------------------------------------------------------
(* The phase of a row whose time is over. *)
Over(c) == IF code[c].late THEN code[c].is ELSE "none"

(* decidePairingClaim: may the code be claimed? *)
MayClaim(c, over) == code[c].is = "pending" /\ over # "pending"

(* A plausible slip: only a code that nobody claimed is settled. *)
SettledPending(c, over) ==
    IF code[c].is = "pending" /\ over = "pending" THEN "expired" ELSE code[c].is

(* The transition that goes with a refusal. *)
SettledAs(c, over) ==
    CASE code[c].is = "pending" /\ over = "pending" -> "expired"
      [] code[c].is = "processing" /\ over = "processing" -> "failed"
      [] OTHER -> code[c].is

(* pairingRecordReclaimable. *)
Discardable(c) == code[c].is \in {"pending", "processing"} => code[c].late

(* create: at the cap, every discardable row goes first. *)
Creates(c) ==
    LET swept == IF Cardinality(CodesKept) >= MaxCodes
                 THEN {k \in CodesKept : Discardable(k)} ELSE {}
    IN  /\ code[c].is = "unused"
        /\ Cardinality(CodesKept \ swept) < MaxCodes
        /\ code' = [k \in Codes |->
                       IF k = c THEN Row("pending")
                       ELSE IF k \in swept THEN Row("gone")
                       ELSE code[k]]

-----------------------------------------------------------------------------
(* The helper's request up to preflight's answer: the code is inspected but
   not claimed, and one of its tries is used.  A client that has asked too
   often is refused before, which changes nothing here. *)
Preflight(h, c) ==
    /\ helper[h].at = "idle"
    /\ MayClaim(c, Over(c)) /\ code[c].tries < MaxTries
    /\ code' = [code EXCEPT ![c] = [@ EXCEPT !.tries = code[c].tries + 1]]
    /\ helper' = [helper EXCEPT ![h] = [NoHelper EXCEPT !.at = "verify", !.id = c]]
    /\ UNCHANGED <<panel, tick, kept>>

HelperGoes(h, at) == helper' = [helper EXCEPT ![h] = [@ EXCEPT !.at = at]]

(* resolveAccount; the claim is sent with the time it is now. *)
Verify(h) ==
    /\ helper[h].at = "verify"
    /\ helper' = [helper EXCEPT ![h] = [@ EXCEPT !.at = "claim", !.over = Over(helper[h].id)]]
    /\ UNCHANGED <<code, panel, tick, kept>>

(* claim, and the comparison with the account that was to be reconnected.
   An answer that is lost is HelperEnds. *)
Claim(h) ==
    LET c == helper[h].id IN
    /\ helper[h].at = "claim"
    /\ IF MayClaim(c, helper[h].over)
       THEN /\ Turns(c, "processing")
            /\ HelperGoes(h, "save") \/ HelperGoes(h, "refuse")
       ELSE /\ Turns(c, SettledAs(c, helper[h].over))
            /\ helper' = [helper EXCEPT ![h] = NoHelper]
    /\ UNCHANGED <<panel, tick, kept>>

(* saveResolvedAccount; a save that failed may have been stored. *)
Save(h) ==
    /\ helper[h].at = "save"
    /\ \/ HelperGoes(h, "finish") /\ kept' = [kept EXCEPT ![helper[h].id] = @ + 1]
       \/ HelperGoes(h, "refuse") /\ kept' = [kept EXCEPT ![helper[h].id] = @ + 1]
       \/ HelperGoes(h, "refuse") /\ UNCHANGED kept
    /\ UNCHANGED <<code, panel, tick>>

(* finalize publishes a result of a row that is still processing. *)
TakesResult(c) == code[c].is = "processing"

(* The result is published, and the helper's request answered: it reports a
   connection only of a done it published. *)
Publish(h) ==
    LET c == helper[h].id IN
    /\ helper[h].at \in {"finish", "refuse"}
    /\ IF TakesResult(c)
       THEN Turns(c, IF helper[h].at = "finish" THEN "done" ELSE "failed")
       ELSE UNCHANGED code
    /\ helper' = [helper EXCEPT ![h] = NoHelper]
    /\ UNCHANGED <<panel, tick, kept>>

(* The token is refused, which leaves the code as it is; or a call fails, or
   the request or the command dies, before its next step. *)
HelperEnds(h) ==
    /\ helper[h].at # "idle"
    /\ helper' = [helper EXCEPT ![h] = NoHelper]
    /\ UNCHANGED <<code, panel, tick, kept>>

(* A row's time is over. *)
Elapses(c) ==
    /\ code[c].is \in {"pending", "processing"}
    /\ ~code[c].late
    /\ code' = [code EXCEPT ![c] = [@ EXCEPT !.late = TRUE]]
    /\ UNCHANGED <<helper, panel, tick, kept>>

-----------------------------------------------------------------------------
(* requestBusy: nothing can be started, left or closed. *)
Busy == panel.working \/ panel.starting \/ panel.pair = "processing"

(* stopPolling, whichever generation polls. *)
Silent(p) == [p EXCEPT !.id = NoCode, !.polls = FALSE, !.asks = NoCode, !.fails = 0]

(* finishServerConnect: of code c, or of a direct connection.  It touches
   neither pairState nor a request under way. *)
Succeeded(c) == [Silent(panel) EXCEPT !.is = "connected", !.id = c, !.due = TRUE]

(* The dialog opens, with everything of an earlier one reset. *)
OpenPanel ==
    /\ panel.is = "closed"
    /\ panel' = Panel("login")
    /\ UNCHANGED <<code, helper, tick, kept>>

(* It can be closed while nothing runs; an open poll is not aborted. *)
ClosePanel ==
    /\ panel.is \in {"login", "pairing", "unsynced"} /\ ~Busy
    /\ panel' = Panel("closed")
    /\ UNCHANGED <<code, helper, tick, kept>>

(* Back to the private login. *)
LeavePairing ==
    /\ panel.is = "pairing" /\ ~Busy
    /\ panel' = [Silent(panel) EXCEPT !.is = "login", !.pair = "waiting"]
    /\ UNCHANGED <<code, helper, tick, kept>>

(* A direct connection: one request at a time, but perhaps of another
   provider, beside the poll of a code. *)
Connect ==
    /\ panel.is \in {"login", "pairing"} /\ ~Busy
    /\ panel' = [panel EXCEPT !.working = TRUE]
    /\ UNCHANGED <<code, helper, tick, kept>>

(* The account was saved, or the request failed or took too long. *)
Connected ==
    /\ panel.working
    /\ \E p \in {Succeeded(NoCode), panel} : panel' = [p EXCEPT !.working = FALSE]
    /\ UNCHANGED <<code, helper, tick, kept>>

(* startPairing, from the login or to replace a code that ended. *)
StartPairing ==
    /\ \/ panel.is = "login"
       \/ panel.is = "pairing" /\ panel.pair \in {"expired", "error"}
    /\ ~Busy
    /\ panel' = [panel EXCEPT !.is = "pairing", !.pair = "waiting", !.starting = TRUE]
    /\ UNCHANGED <<code, helper, tick, kept>>

NoCodeGot == [panel EXCEPT !.starting = FALSE, !.pair = "error"]

(* The code is created and shown in place of whatever there was, and the
   dialog polls it; or its answer is lost. *)
CodeStarted(c) ==
    /\ panel.starting
    /\ Creates(c)
    /\ \/ panel' = [Silent(panel) EXCEPT !.is = "pairing", !.starting = FALSE,
                     !.pair = "waiting", !.id = c, !.polls = TRUE]
       \/ panel' = NoCodeGot
    /\ UNCHANGED <<helper, tick, kept>>

CodeRefused ==
    /\ panel.starting
    /\ panel' = NoCodeGot
    /\ UNCHANGED <<code, helper, tick, kept>>

(* The poll's timer fires, and the server settles the row and answers; a
   pending code may run out of time between the two. *)
Poll(t) ==
    LET c == panel.id
        now == SettledAs(c, Over(c))
    IN  /\ panel.polls /\ panel.asks = NoCode
        /\ tick[t] = NoTick
        /\ panel' = [panel EXCEPT !.asks = t]
        /\ Turns(c, now)
        /\ \E answer \in IF now = "pending" THEN {"pending", "expired"}
                         ELSE IF now = "gone" THEN {"expired"} ELSE {now} :
              tick' = [tick EXCEPT ![t] = [at |-> "sent", id |-> c, last |-> panel.fails = MaxMisses - 1,
                                          answer |-> answer]]
        /\ UNCHANGED <<helper, kept>>

(* The pairing's state is set whatever the dialog shows; the poll goes on only
   if it is of the dialog's generation. *)
GoesOn(t, is) ==
    IF panel.asks = t THEN [panel EXCEPT !.pair = is, !.fails = 0, !.asks = NoCode]
                      ELSE [panel EXCEPT !.pair = is]

Stops(is) == [Silent(panel) EXCEPT !.pair = is]

(* What the dialog makes of an answer. *)
Heard(t, answer) ==
    CASE panel.is = "closed" -> panel
      [] panel.is # "closed" /\ answer = "done" -> Succeeded(tick[t].id)
      [] panel.is # "closed" /\ answer = "processing" -> GoesOn(t, "processing")
      [] panel.is # "closed" /\ answer = "pending" -> GoesOn(t, "waiting")
      [] panel.is # "closed" /\ answer = "failed" -> Stops("error")
      [] panel.is # "closed" /\ answer = "expired" -> Stops("expired")

(* The answer is understood; a body that cannot be read counts as pending. *)
Understood(t) ==
    /\ \E answer \in {tick[t].answer, "pending"} : panel' = Heard(t, answer)
    /\ tick' = [tick EXCEPT ![t] = NoTick]

(* The head of an answer arrives and, with it or later, the body: only the
   head is compared with the dialog's generation. *)
Head(t) ==
    /\ tick[t].at = "sent"
    /\ IF panel.asks # t
       THEN tick' = [tick EXCEPT ![t] = NoTick] /\ UNCHANGED panel
       ELSE \/ Understood(t)
            \/ /\ tick' = [tick EXCEPT ![t] = [@ EXCEPT !.at = "body"]]
               /\ UNCHANGED panel
    /\ UNCHANGED <<code, helper, kept>>

Body(t) ==
    /\ tick[t].at = "body"
    /\ Understood(t)
    /\ UNCHANGED <<code, helper, kept>>

(* An error, or no answer: the last in a row ends the poll, also when it is
   not the dialog's any more. *)
PollFails(t) ==
    /\ tick[t].at = "sent"
    /\ panel' = CASE panel.is = "closed" -> panel
                  [] panel.is # "closed" /\ tick[t].last -> Stops("error")
                  [] panel.is # "closed" /\ ~tick[t].last /\ panel.asks = t ->
                        [panel EXCEPT !.fails = @ + 1, !.asks = NoCode]
                  [] OTHER -> panel
    /\ tick' = [tick EXCEPT ![t] = NoTick]
    /\ UNCHANGED <<code, helper, kept>>

(* After its success card the dialog has the dashboard reload the vault, and
   closes, whatever it does meanwhile; a failed reload can be tried again. *)
Reload ==
    /\ panel.due \/ panel.is = "unsynced"
    /\ \/ panel' = Panel("closed")
       \/ panel.is = "pairing" /\ panel' = [panel EXCEPT !.due = FALSE]
       \/ /\ panel.is \in {"connected", "unsynced"}
          /\ panel' = [panel EXCEPT !.is = "unsynced", !.due = FALSE]
    /\ UNCHANGED <<code, helper, tick, kept>>

PairNext ==
    \/ OpenPanel \/ ClosePanel \/ LeavePairing \/ Connect \/ Connected
    \/ StartPairing \/ CodeRefused \/ Reload
    \/ \E c \in Codes : CodeStarted(c) \/ Elapses(c)
    \/ \E h \in Helpers :
          \/ \E c \in Codes : Preflight(h, c)
          \/ Verify(h) \/ Claim(h) \/ Save(h) \/ Publish(h) \/ HelperEnds(h)
    \/ \E t \in Ticks : Poll(t) \/ Head(t) \/ Body(t) \/ PollFails(t)

PairSpec == PairInit /\ [][PairNext]_pairVars
=============================================================================
