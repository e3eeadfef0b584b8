---------------------------- MODULE NotifyCronProps ----------------------------
(***************************************************************************)
(* What the notification cycle promises.                                   *)
(***************************************************************************)
EXTENDS NotifyCron

(* Every variable keeps its type: the rows, the lease and what an
   invocation of the cron route holds. *)
CronTypeOK ==
    /\ stored \in [Accounts -> Rows \cup {NoRow}]
    /\ owner \in Runs \cup {NoRow}
    /\ leased \in BOOLEAN
    /\ run \in [Runs -> Invocations]
    /\ sentAs \in [Accounts -> SUBSET Alerts]

(* Row n, stored over row s, hides a transition from every later cycle. *)
HidesWarning(s, n) == n.warned /\ (~s.warned \/ RolledOver(s, n))

HidesRecovery(s, n) ==
    /\ "recovery" \in Toggles
    /\ RolledOver(s, n)
    /\ s.peak >= RecoveryLevel
    /\ n.peak < RecoveryLevel

Told(r, k, type) == \E e \in run[r].told : e.account = k /\ e.type = type

Hides(k, s, n, type) ==
    /\ s # NoRow
    /\ n # NoRow
    /\ IF type = "warning" THEN HidesWarning(s, n) ELSE HidesRecovery(s, n)

(* An alert is never silently lost: a row that hides a warning or a recovery
   from later cycles (completeNotificationCycle) is stored only by the run
   that got this alert to a channel. *)
AlertBeforeAdvance ==
    [][\A k \in Accounts, type \in {"warning", "recovery"} :
          Hides(k, stored[k], stored'[k], type) =>
             \E r \in Runs : run[r].at = "commit" /\ Told(r, k, type)]_cronVars

(* Row n is not behind row s: its window is not an earlier one, and within a
   window it forgets neither the peak nor the warning. *)
NotBehind(s, n) ==
    \/ n.stamp > s.stamp
    \/ n.stamp = s.stamp /\ n.peak >= s.peak /\ (s.warned => n.warned)

(* The detector's rows are never set back: not by a stale bucket or a missing
   stamp in a reading, not by an alert that waits for its delivery, and not by
   a run whose lease another run has taken over (the check before saveStates
   in the cron route). *)
NeverBehind ==
    [][\A k \in Accounts : stored[k] # NoRow /\ stored'[k] # NoRow =>
          NotBehind(stored[k], stored'[k])]_cronVars

(* The Idempotency-Key a webhook gets with an alert is "stable across retries
   of the same detector transition": an alert that was accepted in one batch
   and is sent again, unchanged, is sent in the same batch.  No run has it:
   it does not hold when two accounts have news (see the README). *)
RetryKeepsId ==
    [][\A k \in Accounts : \A e \in sentAs[k] :
          e \in sentAs'[k] => sentAs'[k] = sentAs[k]]_cronVars
=============================================================================
