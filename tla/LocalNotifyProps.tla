---------------------------- MODULE LocalNotifyProps ----------------------------
(***************************************************************************)
(* What the on-device notifications promise.                               *)
(***************************************************************************)
EXTENDS LocalNotify

(* Every variable keeps its type: the records, the lock and the transaction
   of each tab. *)
LocalTypeOK ==
    /\ records \in [LocalAccounts -> Records \cup {NoRecord}]
    /\ holder \in Tabs \cup {NoRecord}
    /\ tab \in [Tabs -> Transactions]

(* Record n, saved over record rec, takes a notification the rules ask for
   away from every later transaction. *)
Passes(rec, n, rules) ==
    /\ rec # NoRecord
    /\ n # NoRecord
    /\ IF IsReset(rec, n) THEN "reset" \in rules /\ rec.used
       ELSE "remaining" \in rules /\ n.cursor > rec.cursor

(* An undelivered event is not advanced past: a record moves over a boundary
   or a reset that the rules ask to tell only in a transaction of this
   account in which the worker acknowledged the notification. *)
ShownBeforeAdvance ==
    [][\A k \in LocalAccounts, t \in Tabs :
          /\ tab[t].at = "save"
          /\ Passes(records[k], records'[k], tab[t].rules)
          => tab[t].key = k /\ tab[t].told]_localVars

(* A boundary that some tab has already told and saved, and a reset likewise,
   is never handed to the worker again, whatever the tabs have read: the
   event is one the saved record has not passed.  (One that was shown and
   could not be saved is shown again, as ShownBeforeAdvance demands.) *)
ToldOnce ==
    \A t \in Tabs :
        LET rec == records[tab[t].key] IN
        tab[t].at = "deliver" /\ rec # NoRecord =>
           IF IsReset(rec, tab[t].next) THEN rec.used
           ELSE tab[t].next.cursor > rec.cursor
=============================================================================
