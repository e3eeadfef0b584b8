------------------------------ MODULE NotifyCron ------------------------------
(***************************************************************************)
(* The notification cycle of a Convex deployment: each minute a run claims *)
(* the tenant's lease, reads the usage of every account, compares it with  *)
(* the stored detector rows, delivers the alerts and stores the new rows.  *)
(*                                                                         *)
(* An account has one limit.  Levels stand for percentages: 0 is unused,   *)
(* from RecoveryLevel on a reset is worth an alert, from WarnLevel on the  *)
(* level itself.  Stamps order the windows; 0 is a reading without one.    *)
(***************************************************************************)
EXTENDS Naturals, FiniteSets

CONSTANTS
    Accounts,       \* accounts of the tenant
    Runs,           \* owners of the lease: invocations of the route
    Readings,       \* what the provider may report: [stamp, level]
    RecoveryLevel,
    WarnLevel,
    Toggles,        \* alerts the user asked for
    Pauses,         \* may a process sleep for a whole lease before it commits?
    NoRow           \* no row, no owner, nothing read

ASSUME CronAssumption ==
    /\ Readings \subseteq [stamp : Nat, level : Nat]
    /\ RecoveryLevel \in Nat \ {0}
    /\ WarnLevel \in Nat
    /\ RecoveryLevel < WarnLevel
    /\ Toggles \subseteq {"recovery", "warning", "every_reset"}
    /\ Pauses \in BOOLEAN
    /\ NoRow \notin Runs
    /\ NoRow \notin [stamp : Nat, peak : Nat, warned : BOOLEAN]

VARIABLES
    stored,     \* account -> its detector row in Convex or NoRow
    owner,      \* run that owns the lease row, or NoRow
    leased,     \* is leaseUntil in the future?
    run,        \* what each invocation holds in memory
    sentAs      \* account -> batch its unsaved alerts were accepted in, or {}

cronVars == <<stored, owner, leased, run, sentAs>>

Rows == [stamp : Nat, peak : Nat, warned : BOOLEAN]

(* An alert: the transition notificationBatchId names. *)
Alerts == [account : Accounts, type : {"recovery", "warning", "every_reset"}, stamp : Nat]

(* prior: the rows it loaded; next: the snapshot it builds; told: alerts
   that reached a channel; lost: a renewal failed. *)
Invocations == [at : {"idle", "load", "check", "deliver", "save", "commit", "release"},
                lost : BOOLEAN,
                prior : [Accounts -> Rows \cup {NoRow}],
                todo : SUBSET Accounts,
                next : [Accounts -> Rows \cup {NoRow}],
                events : SUBSET Alerts,
                told : SUBSET Alerts]

Blank == [k \in Accounts |-> NoRow]

Waiting == [at |-> "idle", lost |-> FALSE, prior |-> Blank, todo |-> {},
            next |-> Blank, events |-> {}, told |-> {}]

CronInit ==
    /\ stored = Blank
    /\ owner = NoRow
    /\ leased = FALSE
    /\ run = [r \in Runs |-> Waiting]
    /\ sentAs = [k \in Accounts |-> {}]

-----------------------------------------------------------------------------
(* diffLimit.  A window rolled over when both stamps are known and the new
   one is later. *)
RolledOver(row, reading) == row.stamp # 0 /\ reading.stamp > row.stamp

Warns(row, reading) ==
    /\ "warning" \in Toggles
    /\ RolledOver(row, reading) \/ ~row.warned
    /\ reading.level >= WarnLevel

(* A plausible slip: the row takes whatever stamp was read last. *)
NextRowAnyStamp(row, reading) ==
    [stamp |-> reading.stamp,
     peak |-> IF RolledOver(row, reading) \/ reading.level > row.peak
              THEN reading.level ELSE row.peak,
     warned |-> Warns(row, reading) \/ (row.warned /\ ~RolledOver(row, reading))]

NextRow(row, reading) ==
    [stamp |-> IF reading.stamp > row.stamp THEN reading.stamp ELSE row.stamp,
     peak |-> IF RolledOver(row, reading) \/ reading.level > row.peak
              THEN reading.level ELSE row.peak,
     warned |-> Warns(row, reading) \/ (row.warned /\ ~RolledOver(row, reading))]

(* The first row of a limit is stored silently. *)
Seed(reading) == [stamp |-> reading.stamp, peak |-> reading.level,
                  warned |-> reading.level >= WarnLevel]

Resets(row, reading) ==
    {t \in Toggles \ {"warning"} :
        /\ RolledOver(row, reading)
        /\ t = "every_reset" => row.peak > 0
        /\ t = "recovery" => /\ row.peak >= RecoveryLevel
                             /\ reading.level < RecoveryLevel}

EventsOf(k, row, reading) ==
    IF row = NoRow THEN {}
    ELSE [account : {k}, stamp : {reading.stamp},
          type : Resets(row, reading) \cup
                 (IF Warns(row, reading) THEN {"warning"} ELSE {})]

-----------------------------------------------------------------------------
(* claimRun by a new invocation: only when the lease is over. *)
Claim(r) ==
    /\ run[r].at = "idle"
    /\ ~leased
    /\ owner' = r
    /\ leased' = TRUE
    /\ run' = [run EXCEPT ![r] = [Waiting EXCEPT !.at = "load"]]
    /\ UNCHANGED <<stored, sentAs>>

(* The claim is stored, its answer is lost: nobody will release it. *)
ClaimUnanswered(r) ==
    /\ run[r].at = "idle"
    /\ ~leased
    /\ owner' = r
    /\ leased' = TRUE
    /\ UNCHANGED <<stored, run, sentAs>>

(* renewRun, at a check or by the timer: it succeeds while nobody else has
   claimed the row, also when the lease is over. *)
Owns(r) == owner = r

(* guard.assert. *)
Asserted(r) == ~run[r].lost /\ Owns(r)

(* The timer's renewal, and what a failed one leaves behind. *)
Renew(r) ==
    /\ run[r].at \notin {"idle", "release"}
    /\ \/ Owns(r) /\ ~leased /\ leased' = TRUE /\ UNCHANGED run
       \/ ~run[r].lost /\ run' = [run EXCEPT ![r] = [@ EXCEPT !.lost = TRUE]] /\ UNCHANGED leased
    /\ UNCHANGED <<stored, owner, sentAs>>

(* loadAccounts, loadConfig and loadStates.  The user connects and removes
   accounts, so the vault may hold any of them. *)
Load(r) ==
    /\ run[r].at = "load"
    /\ \E inVault \in SUBSET Accounts :
          run' = [run EXCEPT ![r] =
                     [@ EXCEPT !.at = "check", !.prior = stored, !.todo = inVault]]
    /\ UNCHANGED <<stored, owner, leased, sentAs>>

(* What is left of an invocation once an account has been checked. *)
Seen(i, k, next, events) ==
    [i EXCEPT !.todo = i.todo \ {k}, !.next = [i.next EXCEPT ![k] = next],
              !.events = i.events \cup events]

(* One account of the loop.  Without usage it keeps the row it had; a
   limit missing from its usage loses its row. *)
Check(r, k) ==
    LET row == run[r].prior[k]
        seen(next, events) == run' = [run EXCEPT ![r] = Seen(run[r], k, next, events)]
    IN  /\ run[r].at = "check"
        /\ k \in run[r].todo
        /\ Asserted(r)
        /\ leased' = TRUE
        /\ \/ seen(row, {})
           \/ seen(NoRow, {})
           \/ \E reading \in Readings :
                 seen(IF row = NoRow THEN Seed(reading) ELSE NextRow(row, reading),
                      EventsOf(k, row, reading))
        /\ UNCHANGED <<stored, owner, sentAs>>

(* A plausible slip in completeNotificationCycle: the whole snapshot is
   eligible, delivered or not. *)
EligibleAlways(i, told, k) == i.next[k]

(* The row completeNotificationCycle stores: while an alert has reached
   nobody, the limits with alerts keep the row they had. *)
Eligible(i, told, k) ==
    IF told # i.events /\ \E e \in i.events : e.account = k
    THEN i.prior[k]
    ELSE i.next[k]

(* What is left of an invocation once its alerts have been sent. *)
Sent(i, told) ==
    [i EXCEPT !.at = "save", !.told = told, !.events = {}, !.prior = Blank,
              !.next = [k \in Accounts |-> Eligible(i, told, k)]]

(* The loop is over; reconcileNotificationStates left out the accounts that
   are not in the vault.  Without alerts there is nothing to dispatch. *)
Checked(r) ==
    /\ run[r].at = "check"
    /\ run[r].todo = {}
    /\ Asserted(r)
    /\ leased' = TRUE
    /\ run' = [run EXCEPT ![r] =
                  IF @.events = {} THEN Sent(@, {}) ELSE [@ EXCEPT !.at = "deliver"]]
    /\ UNCHANGED <<stored, owner, sentAs>>

(* dispatch.  The webhook takes the batch as a whole; push reaches any of
   the alerts, and a dispatch that throws none. *)
Dispatch(r) ==
    LET batch == run[r].events
        heard(told) == run' = [run EXCEPT ![r] = Sent(@, told)]
    IN  /\ run[r].at = "deliver"
        /\ \/ /\ heard(batch)
              /\ sentAs' = [k \in Accounts |->
                              IF \E e \in batch : e.account = k THEN batch ELSE sentAs[k]]
           \/ \E told \in SUBSET batch : heard(told) /\ UNCHANGED sentAs
        /\ UNCHANGED <<stored, owner, leased>>

(* The renewal just before the commit ... *)
Fence(r) ==
    /\ run[r].at = "save"
    /\ Asserted(r)
    /\ leased' = TRUE
    /\ run' = [run EXCEPT ![r] = [@ EXCEPT !.at = "commit"]]
    /\ UNCHANGED <<stored, owner, sentAs>>

(* ... and the commit, which does not look at the lease. *)
Commit(r) ==
    /\ run[r].at = "commit"
    /\ stored' = run[r].next
    /\ sentAs' = [k \in Accounts |->
                     IF stored'[k] = stored[k] THEN sentAs[k] ELSE {}]
    /\ run' = [run EXCEPT ![r] = [Waiting EXCEPT !.at = "release"]]
    /\ UNCHANGED <<owner, leased>>

(* A storage error, or a check of the lease that failed. *)
Abort(r) ==
    /\ run[r].at \in {"load", "check", "save", "commit"}
    /\ run' = [run EXCEPT ![r] = [Waiting EXCEPT !.at = "release"]]
    /\ UNCHANGED <<stored, owner, leased, sentAs>>

(* releaseRun, which clears the row of its owner only, or fails. *)
Release(r) ==
    /\ run[r].at = "release"
    /\ run' = [run EXCEPT ![r] = Waiting]
    /\ \/ Owns(r) /\ owner' = NoRow /\ leased' = FALSE
       \/ UNCHANGED <<owner, leased>>
    /\ UNCHANGED <<stored, sentAs>>

Crash(r) ==
    /\ run[r].at # "idle"
    /\ run' = [run EXCEPT ![r] = Waiting]
    /\ UNCHANGED <<stored, owner, leased, sentAs>>

(* Ten minutes without a renewal: the owner died, or sleeps. *)
Expire ==
    /\ leased
    /\ ~Pauses /\ owner \in Runs => run[owner].at # "commit"
    /\ leased' = FALSE
    /\ UNCHANGED <<stored, owner, run, sentAs>>

CronNext ==
    \/ \E r \in Runs :
          \/ Claim(r) \/ ClaimUnanswered(r) \/ Renew(r) \/ Load(r) \/ Checked(r)
          \/ \E k \in Accounts : Check(r, k)
          \/ Dispatch(r) \/ Fence(r) \/ Commit(r) \/ Abort(r) \/ Release(r) \/ Crash(r)
    \/ Expire

CronSpec == CronInit /\ [][CronNext]_cronVars
=============================================================================
