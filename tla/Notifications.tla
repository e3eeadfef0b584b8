----------------------------- MODULE Notifications -----------------------------
(***************************************************************************)
(* The three parts of the notifications, which share no state: the cycle   *)
(* of a Convex deployment, the on-device notifications of a strict-local   *)
(* one, and the Web Push subscription of a browser.  A behaviour of the    *)
(* whole is one of a part with the others at rest.                         *)
(***************************************************************************)
EXTENDS NotifyCronProps, LocalNotifyProps, PushDeviceProps

VARIABLE part       \* the part that runs

notifyVars == <<cronVars, localVars, pushVars, part>>

NotifyInit ==
    /\ CronInit
    /\ LocalInit
    /\ PushInit
    /\ part \in {"cron", "local", "push"}
    /\ part # "push" => browser = NoEndpoint

NotifyNext ==
    \/ part = "cron" /\ CronNext /\ UNCHANGED <<localVars, pushVars, part>>
    \/ part = "local" /\ LocalNext /\ UNCHANGED <<cronVars, pushVars, part>>
    \/ part = "push" /\ PushNext /\ UNCHANGED <<cronVars, localVars, part>>

NotifySpec == NotifyInit /\ [][NotifyNext]_notifyVars /\ PushFairness
=============================================================================
