------------------------------- MODULE Dashboard -------------------------------
(***************************************************************************)
(* The dashboard of one browser tab and its copy of the saved accounts:    *)
(* edits that are shown at once, queued and replayed on the newest         *)
(* revision; reads of the vault that the user, a connection or the focus   *)
(* start; and refreshes, which edit an account's metadata themselves.      *)
(*                                                                         *)
(* Another tab or the server changes the same vault.  The revision the     *)
(* server compares is the vault's value.                                   *)
(***************************************************************************)
EXTENDS Naturals, Sequences, FiniteSets

CONSTANTS
    Cards,          \* account ids
    Names,          \* labels and plans
    Plain,          \* the name an account is connected with
    Reads,          \* requests for the saved accounts
    Usages,         \* usage requests
    MaxEdits,       \* bound: edits made in this tab
    MaxElsewhere,   \* bound: changes made elsewhere
    MaxReplays,     \* attempts of one save
    MaxAdrift,      \* bound: requests the tab gave up that are still on their way
    NoCard

ASSUME DashboardAssumption ==
    /\ Plain \in Names
    /\ NoCard \notin Cards
    /\ MaxEdits \in Nat
    /\ MaxElsewhere \in Nat
    /\ MaxReplays \in Nat \ {0}
    /\ MaxAdrift \in Nat

VARIABLES
    vault,          \* the saved accounts, and the changes made elsewhere
    shown,          \* accountsRef: the rows on the screen
    known,          \* serverVaultRef: the last snapshot of the vault
    edits,          \* the edits made in this tab, in order
    wrote,          \* <<account, field>> -> its last edit that was written
    failed,         \* edits to be replayed
    queue,          \* saves that wait for their turn
    save,           \* the save that runs
    adrift,         \* writes the tab gave up, which the server may still do
    overtaken,      \* written edits over which such a write put an older one
    saveState,      \* what the banner says
    read,           \* request for the accounts -> how far it is
    screen,         \* the vault's state on the screen
    inFlight,       \* accounts that are being refreshed
    usage           \* usage request -> its account

dashVars == <<vault, shown, known, edits, wrote, adrift, overtaken, failed, queue, save,
              saveState, read, screen, inFlight, usage>>

Fields == {"label", "plan", "gone"}
Rows == [gone : BOOLEAN, label : Names, plan : Names]
Connected == [gone |-> FALSE, label |-> Plain, plan |-> Plain]
Vaults == [rows : [Cards -> Rows], elsewhere : 0..MaxElsewhere]
Edits == [id : Cards, field : {"label", "plan"}, to : Names]
            \cup [id : Cards, field : {"gone"}, to : {TRUE}]

(* A queued save brings one edit, or none when it is a retry. *)
Saves == 0..MaxEdits

SaveStates == [at : {"idle", "send", "answer"}, todo : Seq(1..MaxEdits), base : Vaults,
               tries : 0..MaxReplays, answer : {"none", "ok", "conflict", "error"}]

(* wanted: its answer would be looked at. *)
ReadStates == [at : {"none", "asked", "got"}, by : {"load", "reload", "focus"},
               wanted : BOOLEAN, got : Vaults]

NewVault == [rows |-> [a \in Cards |-> Connected], elsewhere |-> 0]

(* A PUT: the edit and the revision it was sent with. *)
Puts == [edit : 1..MaxEdits, base : Vaults]

NoSave == [at |-> "idle", todo |-> <<>>, base |-> NewVault, tries |-> 0, answer |-> "none"]
NoRead == [at |-> "none", by |-> "load", wanted |-> FALSE, got |-> NewVault]
Asked(by) == [NoRead EXCEPT !.at = "asked", !.by = by, !.wanted = TRUE]

(* Its answer is not looked at; one that was not for the focus still counts
   as going on. *)
Unwanted(rd) == IF rd.at = "none" \/ rd.by = "focus" THEN NoRead
                ELSE [NoRead EXCEPT !.at = "asked", !.by = rd.by]

(* The page's first load is out. *)
DashInit ==
    /\ vault = NewVault
    /\ shown = [a \in Cards |-> [Connected EXCEPT !.gone = TRUE]]
    /\ known = NewVault
    /\ edits = <<>>
    /\ wrote = [k \in Cards \X Fields |-> 0]
    /\ adrift = {} /\ overtaken = {}
    /\ failed = <<>> /\ queue = <<>>
    /\ save = NoSave /\ saveState = "idle"
    /\ \E r \in Reads : read = [x \in Reads |-> IF x = r THEN Asked("load") ELSE NoRead]
    /\ screen = "loading"
    /\ inFlight = {}
    /\ usage = [u \in Usages |-> NoCard]

putVars == <<wrote, adrift, overtaken>>
saveVars == <<edits, putVars, failed, queue, save, saveState>>
useVars == <<inFlight, usage>>

-----------------------------------------------------------------------------
(* What an edit makes of the rows: nothing of an account that is gone. *)
AfterEdit(rows, e) ==
    IF rows[e.id].gone THEN rows
    ELSE [rows EXCEPT ![e.id] = [@ EXCEPT ![e.field] = e.to]]

(* A plausible slip on focus: a save queued since is not minded. *)
OutdatesNone(r) == FALSE

(* Does a queued save make the read's answer a historical one? *)
Outdates(r) == read[r].by = "focus"

Touched == [r \in Reads |-> IF Outdates(r) THEN Unwanted(read[r]) ELSE read[r]]

(* An edit is shown and queued at once. *)
MakesEdit(e) ==
    /\ Len(edits) < MaxEdits
    /\ ~shown[e.id].gone /\ shown[e.id][e.field] # e.to
    /\ shown' = AfterEdit(shown, e)
    /\ edits' = Append(edits, e)
    /\ queue' = Append(queue, Len(edits) + 1)
    /\ saveState' = "saving"
    /\ read' = Touched

(* renameAccount *)
Rename(a) ==
    /\ screen = "ready"
    /\ \E n \in Names : MakesEdit([id |-> a, field |-> "label", to |-> n])
    /\ UNCHANGED <<vault, known, putVars, failed, save, screen, useVars>>

(* removeAccount gives up the refresh of the account, which goes on. *)
RemoveCard(a) ==
    /\ screen = "ready"
    /\ MakesEdit([id |-> a, field |-> "gone", to |-> TRUE])
    /\ inFlight' = inFlight \ {a}
    /\ UNCHANGED <<vault, known, putVars, failed, save, screen, usage>>

(* The banner's button, after a save failed. *)
RetrySave ==
    /\ saveState = "error"
    /\ queue' = Append(queue, 0)
    /\ saveState' = "saving"
    /\ read' = Touched
    /\ UNCHANGED <<vault, shown, known, edits, putVars, failed, save, screen, useVars>>

-----------------------------------------------------------------------------
(* The next save takes the edits that failed before along. *)
BeginSave ==
    /\ save.at = "idle" /\ queue # <<>>
    /\ save' = [at |-> "send", base |-> known, tries |-> 0, answer |-> "none",
                todo |-> IF Head(queue) = 0 THEN failed ELSE Append(failed, Head(queue))]
    /\ failed' = <<>>
    /\ queue' = Tail(queue)
    /\ UNCHANGED <<vault, shown, known, edits, putVars, saveState, read, screen, useVars>>

(* mutateAccounts writes the edit when the revision is the vault's. *)
Writes(i) ==
    /\ vault' = [vault EXCEPT !.rows = AfterEdit(@, edits[i])]
    /\ wrote' = [wrote EXCEPT ![<<edits[i].id, edits[i].field>>] = i]

(* The server writes the edit or tells the newer revision.  It may fail, and
   its answer may be lost, before or after it wrote; at the deadline the tab
   stops waiting for it, and the server may not have come to it yet. *)
Put ==
    LET put == [edit |-> Head(save.todo), base |-> save.base]
        answers(answer) == save' = [save EXCEPT !.at = "answer", !.answer = answer,
                                                !.base = IF answer = "error" THEN @ ELSE vault']
    IN  /\ save.at = "send" /\ save.todo # <<>>
        /\ \/ /\ put.base = vault
              /\ Writes(put.edit)
              /\ answers("ok") \/ answers("error")
              /\ UNCHANGED adrift
           \/ /\ put.base # vault
              /\ UNCHANGED <<vault, wrote, adrift>>
              /\ answers("conflict")
           \/ /\ UNCHANGED <<vault, wrote>>
              /\ answers("error")
              /\ \/ UNCHANGED adrift
                 \/ Cardinality(adrift) < MaxAdrift /\ adrift' = adrift \cup {put}
        /\ UNCHANGED <<shown, known, edits, overtaken, failed, queue, saveState, read, screen,
                       useVars>>

(* The server comes to a write the tab gave up.  By then later edits may be
   written, and the revision compared be the vault's again. *)
LatePut(put) ==
    LET last == wrote[<<edits[put.edit].id, edits[put.edit].field>>]
    IN  /\ adrift' = adrift \ {put}
        /\ IF put.base = vault
           THEN /\ Writes(put.edit)
                /\ overtaken' = overtaken \cup {i \in {last} : i > put.edit}
           ELSE UNCHANGED <<vault, wrote, overtaken>>
        /\ UNCHANGED <<shown, known, edits, failed, queue, save, saveState, read, screen, useVars>>

(* The edit is written: on to the next one. *)
PutDone ==
    /\ save.at = "answer" /\ save.answer = "ok"
    /\ known' = save.base
    /\ save' = [save EXCEPT !.at = "send", !.todo = Tail(@), !.tries = 0, !.answer = "none"]
    /\ UNCHANGED <<vault, shown, edits, putVars, failed, queue, saveState, read, screen, useVars>>

(* persistVaultMutations sends the edit again with the revision it was told,
   a number of times. *)
Replays == save.answer = "conflict" /\ save.tries + 1 < MaxReplays

PutConflicts ==
    /\ save.at = "answer" /\ Replays
    /\ save' = [save EXCEPT !.at = "send", !.tries = @ + 1, !.answer = "none"]
    /\ UNCHANGED <<vault, shown, known, edits, putVars, failed, queue, saveState, read, screen,
                   useVars>>

(* Was no other save queued since this one? *)
NewestSave == queue = <<>>

(* A plausible slip: the edit that failed is not retained. *)
RetainedRest(todo) == Tail(todo) \o failed

(* The edits a failed save leaves for the next one. *)
Retained(todo) == todo \o failed

SaveFails ==
    /\ save.at = "answer" /\ save.answer \in {"conflict", "error"} /\ ~Replays
    /\ failed' = Retained(save.todo)
    /\ save' = NoSave
    /\ saveState' = IF NewestSave THEN "error" ELSE saveState
    /\ UNCHANGED <<vault, shown, known, edits, putVars, queue, read, screen, useVars>>

(* Everything is written; the newest save's result is shown. *)
SaveEnds ==
    /\ save.at = "send" /\ save.todo = <<>>
    /\ save' = NoSave
    /\ IF NewestSave
       THEN shown' = save.base.rows /\ saveState' = "idle"
       ELSE UNCHANGED <<shown, saveState>>
    /\ UNCHANGED <<vault, known, edits, putVars, failed, queue, read, screen, useVars>>

-----------------------------------------------------------------------------
(* A read that begins makes the others old. *)
BeginsRead(by) ==
    \E r \in Reads :
        /\ read[r].at = "none"
        /\ read' = [x \in Reads |-> IF x = r THEN Asked(by)
                                    ELSE Unwanted(read[x])]

Explicit == {r \in Reads : read[r].at # "none" /\ read[r].by # "focus"}

(* loadVault, again after an error. *)
LoadVault ==
    /\ screen = "error"
    /\ screen' = "loading"
    /\ BeginsRead("load")
    /\ UNCHANGED <<vault, shown, known, saveVars, useVars>>

(* reloadVault, after a connection or a failed read: it lets the saves that
   were queued before it end, not those queued since. *)
ReloadVault ==
    /\ screen = "ready"
    /\ save.at = "idle"
    /\ BeginsRead("reload")
    /\ UNCHANGED <<vault, shown, known, saveVars, screen, useVars>>

(* The tab regains the focus, with nothing going on. *)
Focus ==
    /\ inFlight = {} /\ saveState = "idle" /\ Explicit = {}
    /\ BeginsRead("focus")
    /\ UNCHANGED <<vault, shown, known, saveVars, screen, useVars>>

(* The server answers with the vault as it is. *)
ServeRead(r) ==
    /\ read[r].at = "asked" /\ read[r].wanted
    /\ read' = [read EXCEPT ![r] = [@ EXCEPT !.at = "got", !.got = vault]]
    /\ UNCHANGED <<vault, shown, known, saveVars, screen, useVars>>

(* A read the focus began gives way to a refresh. *)
Adopts(r) == read[r].by = "focus" => inFlight = {}

ReadDone(r) ==
    /\ read[r].at = "got"
    /\ read' = [read EXCEPT ![r] = NoRead]
    /\ IF Adopts(r)
       THEN /\ known' = read[r].got /\ shown' = read[r].got.rows
            /\ screen' = "ready"
            /\ saveState' = IF read[r].by = "load" THEN "idle" ELSE saveState
       ELSE UNCHANGED <<known, shown, screen, saveState>>
    /\ UNCHANGED <<vault, edits, putVars, failed, queue, save, useVars>>

(* The read fails, or ends without being wanted any more. *)
ReadFails(r) ==
    /\ read[r].at # "none"
    /\ read' = [read EXCEPT ![r] = NoRead]
    /\ screen' = IF read[r].by = "load" /\ read[r].wanted THEN "error" ELSE screen
    /\ UNCHANGED <<vault, shown, known, saveVars, useVars>>

-----------------------------------------------------------------------------
(* refreshAccount, from a timer, a button or a reload. *)
RefreshCard(u, a) ==
    /\ screen = "ready"
    /\ usage[u] = NoCard
    /\ a \notin inFlight /\ ~shown[a].gone
    /\ inFlight' = inFlight \cup {a}
    /\ usage' = [usage EXCEPT ![u] = a]
    /\ UNCHANGED <<vault, shown, known, saveVars, read, screen>>

UsageEnds(u) ==
    /\ inFlight' = inFlight \ {usage[u]}
    /\ usage' = [usage EXCEPT ![u] = NoCard]

(* The answer, or none, changes the card alone. *)
UsageAnswered(u) ==
    /\ usage[u] # NoCard
    /\ UsageEnds(u)
    /\ UNCHANGED <<vault, shown, known, saveVars, read, screen>>

(* The reading comes with a profile that differs: its metadata is an edit. *)
ProfileChanged(u) ==
    /\ usage[u] # NoCard
    /\ \E n \in Names : MakesEdit([id |-> usage[u], field |-> "plan", to |-> n])
    /\ UsageEnds(u)
    /\ UNCHANGED <<vault, known, putVars, failed, save, screen>>

(* Another tab renames or removes an account, a connection adds it again,
   the server renews its token.  That is taken to stay changed: no write that
   was given up before finds its revision again. *)
Elsewhere(a) ==
    /\ vault.elsewhere < MaxElsewhere
    /\ \E row \in {Connected, vault.rows[a], [vault.rows[a] EXCEPT !.gone = TRUE]}
                    \cup {[vault.rows[a] EXCEPT !.label = n] : n \in Names} :
          vault' = [rows |-> [vault.rows EXCEPT ![a] = row], elsewhere |-> vault.elsewhere + 1]
    /\ adrift' = {}
    /\ UNCHANGED <<shown, known, edits, wrote, overtaken, failed, queue, save, saveState, read,
                   screen, useVars>>

DashNext ==
    \/ \E a \in Cards : Rename(a) \/ RemoveCard(a) \/ Elsewhere(a)
    \/ \E put \in adrift : LatePut(put)
    \/ RetrySave \/ BeginSave \/ Put \/ PutDone \/ PutConflicts \/ SaveFails \/ SaveEnds
    \/ LoadVault \/ ReloadVault \/ Focus
    \/ \E r \in Reads : ServeRead(r) \/ ReadDone(r) \/ ReadFails(r)
    \/ \E u \in Usages :
          \/ UsageAnswered(u) \/ ProfileChanged(u)
          \/ \E a \in Cards : RefreshCard(u, a)

DashSpec == DashInit /\ [][DashNext]_dashVars
=============================================================================
