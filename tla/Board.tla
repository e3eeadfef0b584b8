--------------------------------- MODULE Board ---------------------------------
(***************************************************************************)
(* What changes the accounts a dashboard shows: their edits in the browser *)
(* (Dashboard), the order of the cards (CardOrder) and the requests that   *)
(* connect a credential (Connections).  The order hears of accounts and    *)
(* refreshes as events that may come at any time, and to the browser a     *)
(* connection is a change made elsewhere, so the three are checked side by *)
(* side: a behaviour is one of the part it begins with.                    *)
(***************************************************************************)
EXTENDS DashboardProps, ConnectionsProps

VARIABLE view       \* the part that runs

boardVars == <<view, dashVars, orderVars, connectionVars>>

BoardInit ==
    /\ view \in {"edits", "order", "connect"}
    /\ DashInit /\ OrderInit /\ ConnectionsInit
    /\ view # "connect" => accounts = Unread

BoardNext ==
    /\ UNCHANGED view
    /\ \/ view = "edits" /\ DashNext /\ UNCHANGED <<orderVars, connectionVars>>
       \/ view = "order" /\ OrderNext /\ UNCHANGED <<dashVars, connectionVars>>
       \/ view = "connect" /\ ConnectionsNext /\ UNCHANGED <<dashVars, orderVars>>

BoardSpec == BoardInit /\ [][BoardNext]_boardVars
=============================================================================
