---------------------------- MODULE PushDeviceProps ----------------------------
(***************************************************************************)
(* What the Web Push panel promises.                                       *)
(***************************************************************************)
EXTENDS PushDevice

(* Every variable keeps its type. *)
PushTypeOK ==
    /\ browser \in Endpoints \cup {NoEndpoint}
    /\ fresh \in SUBSET Endpoints
    /\ registered \in SUBSET Endpoints
    /\ panel \in [Panels -> PanelStates]

(* The panel says "Açık — bu tarayıcı uyarı alacak." (on, this browser will
   get alerts) only of a browser the server has a row for.  No run has it:
   the panel asks the browser alone (see the README). *)
OnMeansAlerts ==
    \A p \in Panels :
        panel[p].shows = "on" /\ panel[p].at = "rest" => browser \in registered

(* As long as alerts keep being sent, a row is looked at again and again. *)
PushFairness == WF_pushVars(Prune)

(* Whatever the panels did and wherever they were interrupted, no row stays
   for an endpoint the browser has dropped: it is pruned by an alert. *)
DroppedRowsGo ==
    \A e \in Endpoints : (e \in registered /\ e # browser) ~> (e \notin registered)
=============================================================================
