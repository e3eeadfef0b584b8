------------------------------ MODULE LocalNotify ------------------------------
(***************************************************************************)
(* The on-device notifications of a strict-local installation: every tab   *)
(* puts the fresh readings it gets through one transaction at a time under *)
(* a Web Lock, shows what the detector finds through the service worker    *)
(* and saves the detector's records in localStorage.                       *)
(*                                                                         *)
(* An account has one limit.  A reading says how many of the remaining-    *)
(* boundaries it is past, and whether the limit is used at all.            *)
(***************************************************************************)
EXTENDS Naturals

CONSTANTS
    LocalAccounts,  \* accounts of the dashboard
    Tabs,           \* open windows of it
    LocalReadings,  \* what the provider may report: [stamp, crossed, used]
    RuleSets,       \* settings of the two rules, as sets of those that are on
    NoRecord        \* no record, no tab, no account

ASSUME LocalNotifyAssumption ==
    /\ LocalReadings \subseteq [stamp : Nat, crossed : Nat, used : BOOLEAN]
    /\ RuleSets \subseteq SUBSET {"remaining", "reset"}
    /\ NoRecord \notin Tabs
    /\ NoRecord \notin LocalAccounts
    /\ NoRecord \notin [stamp : Nat, cursor : Nat, used : BOOLEAN]

VARIABLES
    records,    \* account -> its record in localStorage or NoRecord
    holder,     \* tab that holds the lock, or NoRecord
    tab         \* the transaction each tab has under way

localVars == <<records, holder, tab>>

(* LocalLimitState; the cursor counts the boundaries that are behind. *)
Records == [stamp : Nat, cursor : Nat, used : BOOLEAN]

(* doc: the document without what the event changes; next: the record the
   event leads to; told: the worker acknowledged it. *)
Transactions == [at : {"idle", "deliver", "save"},
                 key : LocalAccounts \cup {NoRecord},
                 rules : SUBSET {"remaining", "reset"},
                 doc : [LocalAccounts -> Records \cup {NoRecord}],
                 next : Records \cup {NoRecord},
                 told : BOOLEAN]

NoRecords == [k \in LocalAccounts |-> NoRecord]

NoTransaction == [at |-> "idle", key |-> NoRecord, rules |-> {}, doc |-> NoRecords,
                  next |-> NoRecord, told |-> FALSE]

LocalInit ==
    /\ records = NoRecords
    /\ holder = NoRecord
    /\ tab = [t \in Tabs |-> NoTransaction]

-----------------------------------------------------------------------------
(* diffLocalLimit.  A reset is a known stamp followed by a later one. *)
IsReset(rec, reading) == rec.stamp # 0 /\ reading.stamp > rec.stamp

NextRecord(rec, reading) ==
    [stamp |-> IF rec.stamp = 0 \/ IsReset(rec, reading) THEN reading.stamp ELSE rec.stamp,
     cursor |-> IF IsReset(rec, reading) \/ reading.crossed > rec.cursor
                THEN reading.crossed ELSE rec.cursor,
     used |-> reading.used]

(* A plausible slip: a reset of an idle window is told as well, a boundary
   as long as the level is past it. *)
TellsAlways(rec, reading, rules) ==
    IF IsReset(rec, reading) THEN "reset" \in rules
    ELSE "remaining" \in rules /\ reading.crossed > 0

(* Does the reading call for a notification? *)
Tells(rec, reading, rules) ==
    IF IsReset(rec, reading) THEN "reset" \in rules /\ rec.used
    ELSE "remaining" \in rules /\ reading.crossed > rec.cursor

(* The lock is requested with ifAvailable: a tab that does not get it drops
   the reading. *)
Free == holder = NoRecord

(* The document a transaction saves: accounts the tab no longer shows lose
   their records. *)
Pruned(doc, shown) == [k \in LocalAccounts |-> IF k \in shown THEN doc[k] ELSE NoRecord]

(* runTransaction up to the delivery: the first record of a limit is saved
   silently, a limit missing from the reading loses its record. *)
Begin(t, k, rules, shown) ==
    LET rec == records[k]
        doc == Pruned(records, shown)
        quiet(next) == tab' = [tab EXCEPT ![t] =
                          [NoTransaction EXCEPT !.at = "save", !.key = k, !.rules = rules,
                                                !.doc = [doc EXCEPT ![k] = next]]]
        loud(next) == tab' = [tab EXCEPT ![t] =
                          [NoTransaction EXCEPT !.at = "deliver", !.key = k, !.rules = rules,
                                                !.doc = doc, !.next = next]]
    IN  /\ tab[t].at = "idle"
        /\ Free
        /\ k \in shown
        /\ holder' = t
        /\ \/ quiet(NoRecord)
           \/ \E reading \in LocalReadings :
                 IF rec = NoRecord
                 THEN quiet([stamp |-> reading.stamp, cursor |-> reading.crossed,
                             used |-> reading.used])
                 ELSE IF Tells(rec, reading, rules)
                      THEN loud(NextRecord(rec, reading))
                      ELSE quiet(NextRecord(rec, reading))
        /\ UNCHANGED records

(* A plausible slip: an event that could not be shown counts as shown. *)
AfterAnyway(i, acknowledged) == [i EXCEPT !.at = "save", !.told = acknowledged,
                                          !.doc = [i.doc EXCEPT ![i.key] = i.next]]

(* The transaction once the delivery is settled: without an acknowledgement
   the record stays what it was. *)
After(i, acknowledged) ==
    IF acknowledged
    THEN [i EXCEPT !.at = "save", !.told = TRUE, !.doc = [i.doc EXCEPT ![i.key] = i.next]]
    ELSE [i EXCEPT !.at = "save"]

(* deliverLocalNotification: the worker acknowledges, or it refuses, the
   permission is gone or ten seconds pass.  In the last case the
   notification may have been shown all the same. *)
Deliver(t) ==
    /\ tab[t].at = "deliver"
    /\ \E acknowledged \in BOOLEAN : tab' = [tab EXCEPT ![t] = After(@, acknowledged)]
    /\ UNCHANGED <<records, holder>>

(* saveLocalNotifyDocument, which may fail, and the lock is given back. *)
Save(t) ==
    /\ tab[t].at = "save"
    /\ records' \in {records, tab[t].doc}
    /\ holder' = NoRecord
    /\ tab' = [tab EXCEPT ![t] = NoTransaction]

(* The tab is closed or reloaded: the browser gives its lock back. *)
CloseTab(t) ==
    /\ tab[t].at # "idle"
    /\ holder' = NoRecord
    /\ tab' = [tab EXCEPT ![t] = NoTransaction]
    /\ UNCHANGED records

(* Site data is cleared, or the document no longer parses and reads as
   empty. *)
LoseRecords ==
    /\ records # NoRecords
    /\ records' = NoRecords
    /\ UNCHANGED <<holder, tab>>

LocalNext ==
    \/ \E t \in Tabs :
          \/ \E k \in LocalAccounts, rules \in RuleSets, shown \in SUBSET LocalAccounts :
                Begin(t, k, rules, shown)
          \/ Deliver(t) \/ Save(t) \/ CloseTab(t)
    \/ LoseRecords

LocalSpec == LocalInit /\ [][LocalNext]_localVars
=============================================================================
