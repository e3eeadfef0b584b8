------------------------------ MODULE PushDevice ------------------------------
(***************************************************************************)
(* Turning Web Push on and off for one browser: the subscription the       *)
(* browser holds, the row Convex keeps for it, and the panels of the tabs  *)
(* that change both step by step.  A browser has one subscription for all  *)
(* its tabs, and each new one has an endpoint of its own.                  *)
(***************************************************************************)
EXTENDS Naturals

CONSTANTS
    Endpoints,      \* endpoints the push service hands out
    OldEndpoint,    \* one made with a VAPID key the server no longer uses
    Panels,         \* notification panels of the browser's tabs
    NoEndpoint      \* no subscription

ASSUME PushAssumption ==
    /\ OldEndpoint \in Endpoints
    /\ NoEndpoint \notin Endpoints

VARIABLES
    browser,        \* endpoint of the browser's subscription or NoEndpoint
    fresh,          \* endpoints not handed out yet
    registered,     \* rows of the browser in pushSubscriptions
    panel           \* what each panel shows and does

pushVars == <<browser, fresh, registered, panel>>

(* op and at: the call under way and its next step; endpoint: what the call
   works on; made: it created the subscription itself. *)
PanelStates == [shows : {"closed", "loading", "on", "off", "error"},
                op : {"none", "enable", "disable"},
                at : {"rest", "look", "unregister", "unsubscribe", "create", "post",
                      "rollback"},
                endpoint : Endpoints \cup {NoEndpoint},
                made : BOOLEAN]

Closed == [shows |-> "closed", op |-> "none", at |-> "rest",
           endpoint |-> NoEndpoint, made |-> FALSE]

Showing(what) == [Closed EXCEPT !.shows = what]

PushInit ==
    /\ \/ browser = NoEndpoint /\ registered = {}
       \/ browser = OldEndpoint /\ registered = {OldEndpoint}
    /\ fresh = Endpoints \ {OldEndpoint}
    /\ panel = [p \in Panels |-> Closed]

Set(p, to) == panel' = [panel EXCEPT ![p] = to]

At(p, step) == panel[p].at = step

Goto(p, step, endpoint) == Set(p, [panel[p] EXCEPT !.at = step, !.endpoint = endpoint])

-----------------------------------------------------------------------------
(* The panel opens or is retried: what it shows is yet to be read. *)
OpenPanel(p) ==
    /\ panel[p].shows \in {"closed", "error"}
    /\ At(p, "rest")
    /\ Set(p, Showing("loading"))
    /\ UNCHANGED <<browser, fresh, registered>>

(* readHostedPushStatus: the browser alone is asked. *)
ReadStatus(p) ==
    /\ panel[p].shows = "loading"
    /\ At(p, "rest")
    /\ \/ Set(p, Showing(IF browser = NoEndpoint THEN "off" ELSE "on"))
       \/ Set(p, Showing("error"))
    /\ UNCHANGED <<browser, fresh, registered>>

(* togglePush. *)
Toggle(p) ==
    /\ panel[p].shows \in {"on", "off"}
    /\ At(p, "rest")
    /\ Set(p, [panel[p] EXCEPT !.op = IF panel[p].shows = "on" THEN "disable" ELSE "enable",
                               !.at = "look"])
    /\ UNCHANGED <<browser, fresh, registered>>

(* The call is over.  An enablePush that failed has the panel look at the
   browser again, a disablePush that failed shows an error. *)
Ends(p, ok) ==
    Set(p, Showing(IF panel[p].op = "enable"
                   THEN IF ok THEN "on" ELSE "loading"
                   ELSE IF ok THEN "off" ELSE "error"))

(* enablePush and disablePush look at the subscription the browser has. *)
Look(p) ==
    /\ At(p, "look")
    /\ IF panel[p].op = "disable"
       THEN IF browser = NoEndpoint THEN Ends(p, TRUE) ELSE Goto(p, "unregister", browser)
       ELSE \/ Ends(p, FALSE)
            \/ Goto(p, CASE browser = NoEndpoint -> "create"
                         [] browser = OldEndpoint -> "unregister"
                         [] OTHER -> "post", browser)
    /\ UNCHANGED <<browser, fresh, registered>>

(* unregisterServerSubscription: the answer may be lost either way. *)
Unregister(p) ==
    /\ At(p, "unregister")
    /\ \/ /\ registered' = registered \ {panel[p].endpoint}
          /\ Goto(p, "unsubscribe", panel[p].endpoint) \/ Ends(p, FALSE)
       \/ Ends(p, FALSE) /\ UNCHANGED registered
    /\ UNCHANGED <<browser, fresh>>

(* The browser drops the subscription, unless another tab already did or
   the call fails; one that times out may still drop it. *)
Unsubscribe(p) ==
    LET replaced == Set(p, [panel[p] EXCEPT !.at = "create", !.endpoint = NoEndpoint])
    IN  /\ At(p, "unsubscribe")
        /\ \/ /\ browser = panel[p].endpoint
              /\ browser' = NoEndpoint
              /\ \/ IF panel[p].op = "enable" THEN replaced ELSE Ends(p, TRUE)
                 \/ Ends(p, FALSE)
           \/ Ends(p, FALSE) /\ UNCHANGED browser
        /\ UNCHANGED <<fresh, registered>>

(* pushManager.subscribe gives the subscription there is, or a new one. *)
Create(p) ==
    /\ At(p, "create")
    /\ \/ /\ browser \notin {NoEndpoint, OldEndpoint}
          /\ Set(p, [panel[p] EXCEPT !.at = "post", !.endpoint = browser, !.made = TRUE])
          /\ UNCHANGED <<browser, fresh>>
       \/ \E e \in fresh :
             /\ browser = NoEndpoint
             /\ browser' = e
             /\ fresh' = fresh \ {e}
             /\ Set(p, [panel[p] EXCEPT !.at = "post", !.endpoint = e, !.made = TRUE])
       \/ Ends(p, FALSE) /\ UNCHANGED <<browser, fresh>>
    /\ UNCHANGED registered

(* The row is stored, or refused, or its answer is lost; a subscription this
   call created is then rolled back. *)
Post(p) ==
    LET failed == IF panel[p].made THEN Goto(p, "rollback", panel[p].endpoint)
                                   ELSE Ends(p, FALSE)
    IN  /\ At(p, "post")
        /\ \/ /\ registered' = registered \cup {panel[p].endpoint}
              /\ Ends(p, TRUE) \/ failed
           \/ failed /\ UNCHANGED registered
        /\ UNCHANGED <<browser, fresh>>

RollBack(p) ==
    /\ At(p, "rollback")
    /\ browser' \in {browser, IF browser = panel[p].endpoint THEN NoEndpoint ELSE browser}
    /\ Ends(p, FALSE)
    /\ UNCHANGED <<fresh, registered>>

(* The tab is closed or reloaded, in the middle of a call or not. *)
LeavePage(p) ==
    /\ panel[p].shows # "closed"
    /\ Set(p, Closed)
    /\ UNCHANGED <<browser, fresh, registered>>

(* sendPush: the push service answers 404 or 410 for an endpoint the browser
   has dropped, and its row goes. *)
PruneNever == {}

Gone == registered \ {browser}

Prune ==
    /\ \E e \in Gone : registered' = registered \ {e}
    /\ UNCHANGED <<browser, fresh, panel>>

PushNext ==
    \/ \E p \in Panels :
          \/ OpenPanel(p) \/ ReadStatus(p) \/ Toggle(p) \/ Look(p) \/ Unregister(p)
          \/ Unsubscribe(p) \/ Create(p) \/ Post(p) \/ RollBack(p) \/ LeavePage(p)
    \/ Prune

PushSpec == PushInit /\ [][PushNext]_pushVars
=============================================================================
