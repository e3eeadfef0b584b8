-------------------------- MODULE NotificationsProofs --------------------------
(***************************************************************************)
(* What the notifications promise, for any accounts, runs, tabs and        *)
(* readings.                                                               *)
(*                                                                         *)
(* Cron: that a commit loses no alert and sets no row back is not          *)
(* inductive, the commit does not look at the lease.  RunOK says why it    *)
(* need not: a run past its last check owns a lease that nobody takes      *)
(* over, and the owner's rows were computed from those that are stored,    *)
(* since no other run has committed while it has been the owner.           *)
(*                                                                         *)
(* On-device: one tab at a time holds the lock, so that the document its   *)
(* transaction will save is the saved one but for the account it is about, *)
(* whose record moves past an event only when it was shown, and but for    *)
(* records that were lost meanwhile.                                       *)
(***************************************************************************)
EXTENDS Notifications, TLAPS

(* Row n may be stored over row s once these alerts have been told. *)
Advances(k, s, n, alerts) ==
    \/ s = NoRow
    \/ n = NoRow
    \/ /\ NotBehind(s, n)
       /\ \A type \in {"warning", "recovery"} :
             Hides(k, s, n, type) => \E e \in alerts : e.account = k /\ e.type = type

RunOK(r) ==
    /\ run[r].at = "load" => run[r].next = Blank
    /\ run[r].at = "commit" => Owns(r) /\ leased
    /\ Owns(r) /\ run[r].at \in {"check", "deliver"} =>
          /\ run[r].prior = stored
          /\ \A k \in Accounts : Advances(k, stored[k], run[r].next[k], run[r].events)
    /\ Owns(r) /\ run[r].at \in {"save", "commit"} =>
          \A k \in Accounts : Advances(k, stored[k], run[r].next[k], run[r].told)

CronInv == CronTypeOK /\ ~Pauses /\ \A r \in Runs : RunOK(r)

-----------------------------------------------------------------------------
(* The detector: its first row and the next ones are rows ... *)
LEMMA RowsOfReadings ==
    ASSUME CronAssumption, NEW reading \in Readings
    PROVE  Seed(reading) \in Rows /\ \A row \in Rows : NextRow(row, reading) \in Rows
BY DEF CronAssumption, Seed, NextRow, Rows, Warns, RolledOver

(* ... its alerts are alerts ... *)
LEMMA AlertsOfReadings ==
    ASSUME CronAssumption, NEW reading \in Readings, NEW k \in Accounts,
           NEW row \in Rows \cup {NoRow}
    PROVE  EventsOf(k, row, reading) \subseteq Alerts
BY DEF CronAssumption, EventsOf, Alerts, Resets

(* ... and the next row advances with the alerts that go with it. *)
LEMMA NextRowAdvances ==
    ASSUME CronAssumption, NEW reading \in Readings, NEW k \in Accounts, NEW row \in Rows
    PROVE  Advances(k, row, NextRow(row, reading), EventsOf(k, row, reading))
<1> DEFINE n == NextRow(row, reading)
<1>1. /\ row.stamp \in Nat /\ row.peak \in Nat /\ row.warned \in BOOLEAN
      /\ reading.stamp \in Nat /\ reading.level \in Nat
      /\ RecoveryLevel \in Nat
      /\ row # NoRow
  BY DEF Rows, CronAssumption
<1>2. /\ n.stamp = IF reading.stamp > row.stamp THEN reading.stamp ELSE row.stamp
      /\ n.peak = IF RolledOver(row, reading) \/ reading.level > row.peak
                  THEN reading.level ELSE row.peak
      /\ n.warned = (Warns(row, reading) \/ (row.warned /\ ~RolledOver(row, reading)))
  BY DEF NextRow
<1> HIDE DEF n
<1>3. RolledOver(row, n) <=> RolledOver(row, reading)
  BY <1>1, <1>2 DEF RolledOver
<1>4. NotBehind(row, n)
  BY <1>1, <1>2 DEF NotBehind, RolledOver
<1>5. HidesWarning(row, n) => Warns(row, reading)
  BY <1>1, <1>2, <1>3 DEF HidesWarning
<1>6. HidesRecovery(row, n) => "recovery" \in Resets(row, reading)
  BY <1>1, <1>2, <1>3 DEF HidesRecovery, Resets
<1>7. EventsOf(k, row, reading) =
         [account : {k}, stamp : {reading.stamp},
          type : Resets(row, reading) \cup (IF Warns(row, reading) THEN {"warning"} ELSE {})]
  BY <1>1 DEF EventsOf
<1>8. ASSUME NEW type \in {"warning", "recovery"}, Hides(k, row, n, type)
      PROVE  \E e \in EventsOf(k, row, reading) : e.account = k /\ e.type = type
  <2> DEFINE e == [account |-> k, stamp |-> reading.stamp, type |-> type]
  <2>1. type \in Resets(row, reading) \cup (IF Warns(row, reading) THEN {"warning"} ELSE {})
    BY <1>5, <1>6, <1>8 DEF Hides
  <2>2. e \in EventsOf(k, row, reading)
    BY <1>7, <2>1
  <2>3. QED  BY <2>2
<1>9. QED  BY <1>4, <1>8 DEF Advances, n

(* A row advances to itself. *)
LEMMA RowAdvancesToItself ==
    ASSUME NEW k, NEW row \in Rows \cup {NoRow}, NEW alerts
    PROVE  Advances(k, row, row, alerts)
<1>1. CASE row \in Rows
  <2>1. row.stamp \in Nat /\ row.peak \in Nat /\ row.warned \in BOOLEAN
    BY <1>1 DEF Rows
  <2>2. NotBehind(row, row) /\ ~RolledOver(row, row)
    BY <2>1 DEF NotBehind, RolledOver
  <2>3. QED  BY <2>2 DEF Advances, Hides, HidesWarning, HidesRecovery
<1>2. QED  BY <1>1 DEF Advances

(* With more alerts told it advances all the same. *)
LEMMA MoreAlerts ==
    ASSUME NEW k, NEW s, NEW n, NEW alerts, NEW more, Advances(k, s, n, alerts),
           alerts \subseteq more
    PROVE  Advances(k, s, n, more)
BY DEF Advances

-----------------------------------------------------------------------------
(* The run that moves changes its own state, and the others keep theirs. *)
LEMMA OneRun ==
    ASSUME CronInv, NEW r \in Runs, NEW i \in Invocations, run' = [run EXCEPT ![r] = i]
    PROVE  /\ run' \in [Runs -> Invocations]
           /\ run'[r] = i
           /\ \A q \in Runs : q # r => run'[q] = run[q]
BY DEF CronInv, CronTypeOK

(* What a run holds is right for as long as it stays as it is, nothing is
   stored, and the lease is not taken from a run that commits. *)
LEMMA OthersKept ==
    ASSUME CronInv, NEW q \in Runs, run'[q] = run[q], UNCHANGED stored,
           owner' = q => owner = q,
           run[q].at = "commit" => owner' = q /\ leased'
    PROVE  RunOK(q)'
BY DEF CronInv, RunOK, Owns

(* The state an invocation begins and ends in. *)
LEMMA WaitingOK ==
    ASSUME NEW at \in {"idle", "load", "release"}
    PROVE  /\ Waiting \in Invocations /\ Waiting.at = "idle"
           /\ [Waiting EXCEPT !.at = at] \in Invocations
           /\ [Waiting EXCEPT !.at = at].at = at
           /\ [Waiting EXCEPT !.at = at].next = Blank
<1>1. Blank \in [Accounts -> Rows \cup {NoRow}]
  BY DEF Blank
<1>2. Waiting \in Invocations /\ Waiting.next = Blank /\ Waiting.at = "idle"
  BY <1>1 DEF Waiting, Invocations
<1>3. QED  BY <1>2 DEF Invocations

(* A run that gives up, or has done, holds nothing. *)
LEMMA RunEnds ==
    ASSUME CronInv, NEW r \in Runs, NEW i \in Invocations, i.at \in {"idle", "release"},
           run' = [run EXCEPT ![r] = i], UNCHANGED stored, UNCHANGED sentAs,
           leased' \in BOOLEAN,
           (owner = r /\ owner' = NoRow) \/ (UNCHANGED owner /\ (leased => leased'))
    PROVE  CronInv'
<1>1. /\ run' \in [Runs -> Invocations] /\ run'[r] = i
      /\ \A q \in Runs : q # r => run'[q] = run[q]
  BY OneRun
<1>2. CronTypeOK'
  BY <1>1 DEF CronInv, CronTypeOK
<1>3. ASSUME NEW q \in Runs PROVE RunOK(q)'
  <2>1. CASE q = r
    BY <1>1, <2>1 DEF RunOK
  <2>2. CASE q # r
    <3>1. run[q].at = "commit" => owner = q /\ leased
      BY DEF CronInv, RunOK, Owns
    <3>2. owner' = q => owner = q
      BY CronAssumption DEF CronAssumption
    <3>3. run[q].at = "commit" => owner' = q /\ leased'
      BY <2>2, <3>1
    <3>4. QED  BY <1>1, <2>2, <3>2, <3>3, OthersKept
  <2>3. QED  BY <2>1, <2>2
<1>4. QED  BY <1>2, <1>3 DEF CronInv

(* A step of a run that takes the lease from nobody. *)
LEMMA RunGoesOn ==
    ASSUME CronInv, NEW r \in Runs, NEW i \in Invocations, run' = [run EXCEPT ![r] = i],
           UNCHANGED <<stored, owner>>, leased => leased', leased' \in BOOLEAN,
           sentAs' \in [Accounts -> SUBSET Alerts], RunOK(r)'
    PROVE  CronInv'
<1>1. /\ run' \in [Runs -> Invocations] /\ run'[r] = i
      /\ \A q \in Runs : q # r => run'[q] = run[q]
  BY OneRun
<1>2. CronTypeOK'
  BY <1>1 DEF CronInv, CronTypeOK
<1>3. ASSUME NEW q \in Runs, q # r PROVE RunOK(q)'
  <2>1. run[q].at = "commit" => owner = q /\ leased
    BY DEF CronInv, RunOK, Owns
  <2>2. QED  BY <1>1, <1>3, <2>1, OthersKept
<1>4. QED  BY <1>2, <1>3 DEF CronInv

-----------------------------------------------------------------------------
(* A run claims the lease, which no run that commits holds. *)
LEMMA ClaimStep ==
    ASSUME CronInv, NEW r \in Runs, Claim(r) \/ ClaimUnanswered(r)
    PROVE  CronInv'
<1>1. ~leased /\ owner' = r /\ leased' = TRUE /\ run[r].at = "idle" /\ UNCHANGED <<stored, sentAs>>
  BY DEF Claim, ClaimUnanswered
<1> DEFINE i == [Waiting EXCEPT !.at = "load"]
<1>2. i \in Invocations /\ i.at = "load" /\ i.next = Blank
  BY WaitingOK
<1>3. run' = [run EXCEPT ![r] = i] \/ UNCHANGED run
  BY DEF Claim, ClaimUnanswered
<1> HIDE DEF i
<1>4. /\ run' \in [Runs -> Invocations]
      /\ run'[r] = i \/ run'[r] = run[r]
      /\ \A q \in Runs : q # r => run'[q] = run[q]
  BY <1>2, <1>3, OneRun DEF CronInv, CronTypeOK
<1>5. CronTypeOK'
  BY <1>1, <1>4 DEF CronInv, CronTypeOK
<1>6. ASSUME NEW q \in Runs PROVE RunOK(q)'
  <2>1. CASE q = r
    BY <1>1, <1>2, <1>4, <2>1 DEF RunOK
  <2>2. CASE q # r
    <3>1. run[q].at # "commit"
      BY <1>1 DEF CronInv, RunOK
    <3>2. QED  BY <1>1, <1>4, <2>2, <3>1, OthersKept
  <2>3. QED  BY <2>1, <2>2
<1>7. QED  BY <1>5, <1>6 DEF CronInv

(* The timer renews, or fails to. *)
LEMMA RenewStep ==
    ASSUME CronInv, NEW r \in Runs, Renew(r)
    PROVE  CronInv'
<1> DEFINE i == [run[r] EXCEPT !.lost = TRUE]
<1>1. UNCHANGED <<stored, owner, sentAs>>
  BY DEF Renew
<1>2. run[r] \in Invocations /\ RunOK(r)
  BY DEF CronInv, CronTypeOK
<1>3. CASE leased' = TRUE /\ UNCHANGED run
  <2>1. CronTypeOK'
    BY <1>1, <1>3 DEF CronInv, CronTypeOK
  <2>2. ASSUME NEW q \in Runs PROVE RunOK(q)'
    BY <1>1, <1>3, OthersKept DEF CronInv, RunOK, Owns
  <2>3. QED  BY <2>1, <2>2 DEF CronInv
<1>4. CASE run' = [run EXCEPT ![r] = i] /\ UNCHANGED leased
  <2>1. /\ i \in Invocations /\ i.at = run[r].at /\ i.prior = run[r].prior
        /\ i.next = run[r].next /\ i.events = run[r].events /\ i.told = run[r].told
    BY <1>2 DEF Invocations
  <2> HIDE DEF i
  <2>2. run'[r] = i
    BY <1>4, <2>1, OneRun
  <2>3. RunOK(r)'
    BY <1>1, <1>2, <1>4, <2>1, <2>2 DEF RunOK, Owns
  <2>4. sentAs' \in [Accounts -> SUBSET Alerts] /\ leased' \in BOOLEAN /\ (leased => leased')
    BY <1>1, <1>4 DEF CronInv, CronTypeOK
  <2>5. QED  BY <1>1, <1>4, <2>1, <2>3, <2>4, RunGoesOn
<1>5. QED  BY <1>3, <1>4 DEF Renew

(* The rows are loaded. *)
LEMMA LoadStep ==
    ASSUME CronInv, NEW r \in Runs, Load(r)
    PROVE  CronInv'
<1>1. PICK inVault \in SUBSET Accounts :
          run' = [run EXCEPT ![r] =
                     [@ EXCEPT !.at = "check", !.prior = stored, !.todo = inVault]]
  BY DEF Load
<1> DEFINE i == [run[r] EXCEPT !.at = "check", !.prior = stored, !.todo = inVault]
<1>2. run[r] \in Invocations /\ RunOK(r) /\ run[r].at = "load"
  BY DEF CronInv, CronTypeOK, Load
<1>3. /\ stored \in [Accounts -> Rows \cup {NoRow}] /\ sentAs \in [Accounts -> SUBSET Alerts]
      /\ leased \in BOOLEAN
  BY DEF CronInv, CronTypeOK
<1>4. /\ i \in Invocations /\ i.at = "check" /\ i.prior = stored
      /\ i.next = run[r].next /\ i.events = run[r].events
  BY <1>2, <1>3 DEF Invocations
<1>5. run' = [run EXCEPT ![r] = i]
  BY <1>1, <1>2 DEF CronInv, CronTypeOK
<1> HIDE DEF i
<1>6. run'[r] = i
  BY <1>4, <1>5, OneRun
<1>7. UNCHANGED <<stored, owner, leased, sentAs>>
  BY DEF Load
<1>8. \A k \in Accounts : Advances(k, stored[k], i.next[k], i.events)
  BY <1>2, <1>4 DEF RunOK, Blank, Advances
<1>9. RunOK(r)'
  BY <1>4, <1>6, <1>7, <1>8 DEF RunOK, Owns
<1>10. QED  BY <1>3, <1>4, <1>5, <1>7, <1>9, RunGoesOn

(* One account of the loop: what its reading makes of the row it had. *)
LEMMA CheckStep ==
    ASSUME CronInv, NEW r \in Runs, NEW k \in Accounts, Check(r, k)
    PROVE  CronInv'
<1> DEFINE row == run[r].prior[k]
           i(next, events) == Seen(run[r], k, next, events)
<1>1. /\ run[r] \in Invocations /\ RunOK(r) /\ run[r].at = "check" /\ owner = r
      /\ leased' = TRUE /\ UNCHANGED <<stored, owner, sentAs>>
      /\ sentAs \in [Accounts -> SUBSET Alerts] /\ run \in [Runs -> Invocations]
  BY DEF CronInv, CronTypeOK, Check, Asserted, Owns
<1>2. /\ row \in Rows \cup {NoRow} /\ run[r].prior = stored
      /\ \A h \in Accounts : Advances(h, stored[h], run[r].next[h], run[r].events)
      /\ run[r].next \in [Accounts -> Rows \cup {NoRow}] /\ run[r].events \subseteq Alerts
  BY <1>1 DEF RunOK, Invocations, Owns
<1>3. PICK next \in Rows \cup {NoRow}, events \in SUBSET Alerts :
          /\ run' = [run EXCEPT ![r] = i(next, events)]
          /\ Advances(k, row, next, events)
  <2>0. \/ run' = [run EXCEPT ![r] = i(row, {})]
        \/ run' = [run EXCEPT ![r] = i(NoRow, {})]
        \/ \E reading \in Readings :
              run' = [run EXCEPT ![r] =
                        i(IF row = NoRow THEN Seed(reading) ELSE NextRow(row, reading),
                          EventsOf(k, row, reading))]
    BY DEF Check
  <2> HIDE DEF i
  <2>1. CASE run' = [run EXCEPT ![r] = i(row, {})]
    <3>1. Advances(k, row, row, {})
      BY <1>2, RowAdvancesToItself
    <3>2. QED  BY <1>2, <2>1, <3>1
  <2>2. CASE run' = [run EXCEPT ![r] = i(NoRow, {})]
    <3>1. Advances(k, row, NoRow, {})
      BY DEF Advances
    <3>2. QED  BY <2>2, <3>1
  <2>3. CASE \E reading \in Readings :
                run' = [run EXCEPT ![r] =
                          i(IF row = NoRow THEN Seed(reading) ELSE NextRow(row, reading),
                            EventsOf(k, row, reading))]
    <3>1. PICK reading \in Readings :
              run' = [run EXCEPT ![r] =
                        i(IF row = NoRow THEN Seed(reading) ELSE NextRow(row, reading),
                          EventsOf(k, row, reading))]
      BY <2>3
    <3>2. EventsOf(k, row, reading) \in SUBSET Alerts
      BY <1>2, AlertsOfReadings, CronAssumption
    <3>3. CASE row = NoRow
      BY <3>1, <3>2, <3>3, RowsOfReadings, CronAssumption DEF Advances
    <3>4. CASE row # NoRow
      <4>1. row \in Rows
        BY <1>2, <3>4
      <4>2. NextRow(row, reading) \in Rows
        BY <4>1, RowsOfReadings, CronAssumption
      <4>3. Advances(k, row, NextRow(row, reading), EventsOf(k, row, reading))
        BY <4>1, NextRowAdvances, CronAssumption
      <4>4. QED  BY <3>1, <3>2, <3>4, <4>2, <4>3
    <3>5. QED  BY <3>3, <3>4
  <2>4. QED  BY <2>0, <2>1, <2>2, <2>3
<1> DEFINE j == i(next, events)
<1>4. /\ j \in Invocations /\ j.at = "check" /\ j.prior = run[r].prior
      /\ j.next = [run[r].next EXCEPT ![k] = next] /\ j.events = run[r].events \cup events
  BY <1>1, <1>2 DEF Invocations, Seen
<1>5. run' = [run EXCEPT ![r] = j]
  BY <1>3
<1> HIDE DEF i, j
<1>6. run'[r] = j
  BY <1>4, <1>5, OneRun
<1>7. \A h \in Accounts : Advances(h, stored[h], j.next[h], j.events)
  <2>1. TAKE h \in Accounts
  <2>2. CASE h = k
    BY <1>2, <1>3, <1>4, <2>2, MoreAlerts
  <2>3. CASE h # k
    BY <1>2, <1>4, <2>3, MoreAlerts
  <2>4. QED  BY <2>2, <2>3
<1>8. RunOK(r)'
  BY <1>1, <1>2, <1>4, <1>6, <1>7 DEF RunOK
<1>9. QED  BY <1>1, <1>4, <1>5, <1>8, RunGoesOn

(* The alerts have been sent: what is left to store advances with those that
   reached somebody. *)
LEMMA SentOK ==
    ASSUME CronInv, NEW r \in Runs, run[r].at \in {"check", "deliver"},
           NEW told \in SUBSET run[r].events
    PROVE  LET i == Sent(run[r], told) IN
           /\ i \in Invocations /\ i.at = "save"
           /\ Owns(r) => \A k \in Accounts : Advances(k, stored[k], i.next[k], i.told)
<1> DEFINE i == Sent(run[r], told)
           eligible == [k \in Accounts |-> Eligible(run[r], told, k)]
<1>1. run[r] \in Invocations /\ RunOK(r) /\ stored \in [Accounts -> Rows \cup {NoRow}]
  BY DEF CronInv, CronTypeOK
<1>2. /\ eligible \in [Accounts -> Rows \cup {NoRow}]
      /\ told \in SUBSET Alerts /\ Blank \in [Accounts -> Rows \cup {NoRow}]
  BY <1>1 DEF Invocations, Eligible, Blank
<1>3. i = [run[r] EXCEPT !.at = "save", !.told = told, !.events = {}, !.prior = Blank,
                         !.next = eligible]
  BY DEF Sent
<1>4. \A k \in Accounts : eligible[k] = Eligible(run[r], told, k)
  OBVIOUS
<1> HIDE DEF eligible
<1>5. i \in Invocations /\ i.at = "save" /\ i.next = eligible /\ i.told = told
  BY <1>1, <1>2, <1>3 DEF Invocations
<1>6. ASSUME Owns(r), NEW k \in Accounts PROVE Advances(k, stored[k], eligible[k], told)
  <2>1. /\ run[r].prior = stored
        /\ Advances(k, stored[k], run[r].next[k], run[r].events)
    BY <1>1, <1>6 DEF RunOK
  <2>2. CASE told = run[r].events
    BY <1>4, <2>1, <2>2 DEF Eligible
  <2>3. CASE told # run[r].events /\ \E e \in run[r].events : e.account = k
    BY <1>1, <1>4, <2>1, <2>3, RowAdvancesToItself DEF Eligible
  <2>4. CASE ~\E e \in run[r].events : e.account = k
    BY <1>4, <2>1, <2>4 DEF Eligible, Advances
  <2>5. QED  BY <2>2, <2>3, <2>4
<1>7. QED  BY <1>5, <1>6 DEF i

(* The loop is over, with alerts to send or without. *)
LEMMA CheckedStep ==
    ASSUME CronInv, NEW r \in Runs, Checked(r)
    PROVE  CronInv'
<1>1. /\ run[r] \in Invocations /\ RunOK(r) /\ run[r].at = "check" /\ Owns(r)
      /\ leased' = TRUE /\ UNCHANGED <<stored, owner, sentAs>>
      /\ sentAs \in [Accounts -> SUBSET Alerts] /\ run \in [Runs -> Invocations]
  BY DEF CronInv, CronTypeOK, Checked, Asserted
<1>2. CASE run[r].events = {}
  <2> DEFINE i == Sent(run[r], {})
  <2>1. run' = [run EXCEPT ![r] = i]
    BY <1>2 DEF Checked
  <2>2. /\ i \in Invocations /\ i.at = "save"
        /\ \A k \in Accounts : Advances(k, stored[k], i.next[k], i.told)
    BY <1>1, SentOK
  <2> HIDE DEF i
  <2>3. run'[r] = i
    BY <2>1, <2>2, OneRun
  <2>4. RunOK(r)'
    BY <1>1, <2>2, <2>3 DEF RunOK
  <2>5. QED  BY <1>1, <2>1, <2>2, <2>4, RunGoesOn
<1>3. CASE run[r].events # {}
  <2> DEFINE i == [run[r] EXCEPT !.at = "deliver"]
  <2>1. run' = [run EXCEPT ![r] = i]
    BY <1>3 DEF Checked
  <2>2. /\ i \in Invocations /\ i.at = "deliver" /\ i.prior = run[r].prior
        /\ i.next = run[r].next /\ i.events = run[r].events
    BY <1>1 DEF Invocations
  <2> HIDE DEF i
  <2>3. run'[r] = i
    BY <2>1, <2>2, OneRun
  <2>4. RunOK(r)'
    BY <1>1, <2>2, <2>3 DEF RunOK, Owns
  <2>5. QED  BY <1>1, <2>1, <2>2, <2>4, RunGoesOn
<1>4. QED  BY <1>2, <1>3

(* The alerts reach somebody, or nobody. *)
LEMMA DispatchStep ==
    ASSUME CronInv, NEW r \in Runs, Dispatch(r)
    PROVE  CronInv'
<1>1. /\ run[r] \in Invocations /\ RunOK(r) /\ run[r].at = "deliver"
      /\ UNCHANGED <<stored, owner, leased>> /\ leased \in BOOLEAN
      /\ sentAs \in [Accounts -> SUBSET Alerts] /\ run[r].events \in SUBSET Alerts
  BY DEF CronInv, CronTypeOK, Dispatch, Invocations
<1>2. sentAs' \in [Accounts -> SUBSET Alerts]
  BY <1>1 DEF Dispatch
<1>3. PICK told \in SUBSET run[r].events : run' = [run EXCEPT ![r] = Sent(run[r], told)]
  BY DEF Dispatch
<1> DEFINE i == Sent(run[r], told)
<1>4. /\ i \in Invocations /\ i.at = "save"
      /\ Owns(r) => \A k \in Accounts : Advances(k, stored[k], i.next[k], i.told)
  BY <1>1, SentOK
<1>5. run' = [run EXCEPT ![r] = i]
  BY <1>3
<1> HIDE DEF i
<1>6. run'[r] = i
  BY <1>4, <1>5, OneRun
<1>7. RunOK(r)'
  BY <1>1, <1>4, <1>6 DEF RunOK, Owns
<1>8. QED  BY <1>1, <1>2, <1>4, <1>5, <1>7, RunGoesOn

(* The last check of the lease. *)
LEMMA FenceStep ==
    ASSUME CronInv, NEW r \in Runs, Fence(r)
    PROVE  CronInv'
<1> DEFINE i == [run[r] EXCEPT !.at = "commit"]
<1>1. /\ run[r] \in Invocations /\ RunOK(r) /\ run[r].at = "save" /\ Owns(r)
      /\ leased' = TRUE /\ UNCHANGED <<stored, owner, sentAs>>
      /\ sentAs \in [Accounts -> SUBSET Alerts] /\ run' = [run EXCEPT ![r] = i]
  BY DEF CronInv, CronTypeOK, Fence, Asserted
<1>2. i \in Invocations /\ i.at = "commit" /\ i.next = run[r].next /\ i.told = run[r].told
  BY <1>1 DEF Invocations
<1> HIDE DEF i
<1>3. run'[r] = i
  BY <1>1, <1>2, OneRun
<1>4. RunOK(r)'
  BY <1>1, <1>2, <1>3 DEF RunOK, Owns
<1>5. QED  BY <1>1, <1>2, <1>4, RunGoesOn

(* The commit: no other run may think that it owns the lease. *)
LEMMA CommitStep ==
    ASSUME CronInv, NEW r \in Runs, Commit(r)
    PROVE  CronInv'
<1> DEFINE i == [Waiting EXCEPT !.at = "release"]
<1>1. /\ run[r] \in Invocations /\ RunOK(r) /\ run[r].at = "commit" /\ Owns(r)
      /\ stored' = run[r].next /\ UNCHANGED <<owner, leased>>
      /\ run' = [run EXCEPT ![r] = i]
  BY DEF CronInv, CronTypeOK, Commit, RunOK
<1>2. i \in Invocations /\ i.at = "release"
  BY WaitingOK
<1> HIDE DEF i
<1>3. /\ run' \in [Runs -> Invocations] /\ run'[r] = i
      /\ \A q \in Runs : q # r => run'[q] = run[q]
  BY <1>1, <1>2, OneRun
<1>4. stored' \in [Accounts -> Rows \cup {NoRow}] /\ sentAs' \in [Accounts -> SUBSET Alerts]
  BY <1>1 DEF Invocations, Commit, CronInv, CronTypeOK
<1>5. CronTypeOK'
  BY <1>1, <1>3, <1>4 DEF CronInv, CronTypeOK
<1>6. ASSUME NEW q \in Runs PROVE RunOK(q)'
  <2>1. CASE q = r
    BY <1>2, <1>3, <2>1 DEF RunOK
  <2>2. CASE q # r
    <3>1. ~Owns(q)' /\ run'[q] = run[q] /\ RunOK(q) /\ ~Owns(q)
      BY <1>1, <1>3, <2>2 DEF CronInv, Owns
    <3>2. QED  BY <3>1 DEF RunOK
  <2>3. QED  BY <2>1, <2>2
<1>7. QED  BY <1>5, <1>6 DEF CronInv

(* A run gives up, gives the lease back, or dies. *)
LEMMA EndStep ==
    ASSUME CronInv, NEW r \in Runs, Abort(r) \/ Release(r) \/ Crash(r)
    PROVE  CronInv'
<1> DEFINE i == [Waiting EXCEPT !.at = "release"]
<1>1. i \in Invocations /\ i.at = "release" /\ Waiting \in Invocations /\ Waiting.at = "idle"
  BY WaitingOK
<1>2. leased \in BOOLEAN
  BY DEF CronInv, CronTypeOK
<1>3. CASE Abort(r)
  <2>1. run' = [run EXCEPT ![r] = i] /\ UNCHANGED <<stored, owner, leased, sentAs>>
    BY <1>3 DEF Abort
  <2> HIDE DEF i
  <2>2. QED  BY <1>1, <1>2, <2>1, RunEnds
<1>4. CASE Release(r)
  <2>1. /\ run' = [run EXCEPT ![r] = Waiting] /\ UNCHANGED stored /\ UNCHANGED sentAs
        /\ leased' \in BOOLEAN
        /\ (owner = r /\ owner' = NoRow) \/ (UNCHANGED owner /\ (leased => leased'))
    BY <1>2, <1>4 DEF Release, Owns
  <2>2. QED  BY <1>1, <2>1, RunEnds
<1>5. CASE Crash(r)
  <2>1. run' = [run EXCEPT ![r] = Waiting] /\ UNCHANGED <<stored, owner, leased, sentAs>>
    BY <1>5 DEF Crash
  <2>2. QED  BY <1>1, <1>2, <2>1, RunEnds
<1>6. QED  BY <1>3, <1>4, <1>5

(* The lease is over: not while its owner commits. *)
LEMMA ExpireStep == ASSUME CronInv, Expire PROVE CronInv'
<1>1. /\ leased' = FALSE /\ UNCHANGED <<stored, owner, run, sentAs>>
      /\ owner \in Runs => run[owner].at # "commit"
  BY DEF Expire, CronInv
<1>2. CronTypeOK'
  BY <1>1 DEF CronInv, CronTypeOK
<1>3. ASSUME NEW q \in Runs PROVE RunOK(q)'
  <2>1. run[q].at # "commit"
    BY <1>1 DEF CronInv, RunOK, Owns
  <2>2. QED  BY <1>1, <2>1, OthersKept
<1>4. QED  BY <1>2, <1>3 DEF CronInv

-----------------------------------------------------------------------------
LEMMA CronStep == ASSUME CronInv, [CronNext]_cronVars PROVE CronInv'
<1>1. CASE \E r \in Runs :
              \/ Claim(r) \/ ClaimUnanswered(r) \/ Renew(r) \/ Load(r) \/ Checked(r)
              \/ \E k \in Accounts : Check(r, k)
              \/ Dispatch(r) \/ Fence(r) \/ Commit(r) \/ Abort(r) \/ Release(r) \/ Crash(r)
  BY <1>1, ClaimStep, RenewStep, LoadStep, CheckedStep, CheckStep, DispatchStep, FenceStep,
     CommitStep, EndStep
<1>2. CASE Expire
  BY <1>2, ExpireStep
<1>3. CASE UNCHANGED cronVars
  <2>1. UNCHANGED stored /\ UNCHANGED owner /\ UNCHANGED leased /\ UNCHANGED run
        /\ UNCHANGED sentAs
    BY <1>3 DEF cronVars
  <2>2. CronTypeOK'
    BY <2>1 DEF CronInv, CronTypeOK
  <2>3. ASSUME NEW q \in Runs PROVE RunOK(q)'
    BY <2>1 DEF CronInv, RunOK, Owns
  <2>4. QED  BY <2>2, <2>3 DEF CronInv
<1>4. QED  BY <1>1, <1>2, <1>3 DEF CronNext

LEMMA CronStart == ASSUME ~Pauses, CronInit PROVE CronInv
<1>1. Waiting \in Invocations /\ Waiting.at = "idle"
  BY WaitingOK
<1>2. Blank \in [Accounts -> Rows \cup {NoRow}]
  BY DEF Blank
<1>3. CronTypeOK
  BY <1>1, <1>2 DEF CronInit, CronTypeOK
<1>4. ASSUME NEW r \in Runs PROVE RunOK(r)
  BY <1>1 DEF CronInit, RunOK
<1>5. QED  BY <1>3, <1>4 DEF CronInv

(* The invariant of the cycle holds, unless a process may sleep for a whole
   lease between its last check and its commit. *)
THEOREM CronInductive == ~Pauses /\ CronSpec => []CronInv
<1>1. ~Pauses /\ CronInit => CronInv
  BY CronStart
<1>2. CronInv /\ [CronNext]_cronVars => CronInv'
  BY CronStep
<1>3. QED  BY <1>1, <1>2, PTL DEF CronSpec

(* What is stored changes only in a commit, to rows that advance. *)
LEMMA StoredAdvances ==
    ASSUME CronInv, [CronNext]_cronVars, NEW k \in Accounts, stored'[k] # stored[k]
    PROVE  \E r \in Runs : /\ run[r].at = "commit"
                           /\ Advances(k, stored[k], stored'[k], run[r].told)
<1>1. PICK r \in Runs : Commit(r)
  BY DEF CronNext, cronVars, Claim, ClaimUnanswered, Renew, Load, Checked, Check, Dispatch,
         Fence, Abort, Release, Crash, Expire
<1>2. RunOK(r) /\ run[r].at = "commit" /\ stored' = run[r].next
  BY <1>1 DEF CronInv, Commit
<1>3. QED  BY <1>2 DEF RunOK

(* An alert is never silently lost, however runs overlap, crash, lose their
   leases and fail to deliver: AlertBeforeAdvance for any accounts, runs,
   readings, toggles and levels. *)
THEOREM NoAlertLost == ~Pauses /\ CronSpec => AlertBeforeAdvance
<1>1. ASSUME CronInv, [CronNext]_cronVars, NEW k \in Accounts,
             NEW type \in {"warning", "recovery"}, Hides(k, stored[k], stored'[k], type)
      PROVE  \E r \in Runs : run[r].at = "commit" /\ Told(r, k, type)
  <2>1. stored[k] \in Rows \cup {NoRow} /\ stored[k] # NoRow /\ stored'[k] # NoRow
    BY <1>1 DEF CronInv, CronTypeOK, Hides
  <2>2. stored'[k] # stored[k]
    <3>1. stored[k].stamp \in Nat /\ stored[k].peak \in Nat
      BY <2>1 DEF Rows
    <3>2. QED  BY <1>1, <3>1 DEF Hides, HidesWarning, HidesRecovery, RolledOver
  <2>3. PICK r \in Runs : /\ run[r].at = "commit"
                          /\ Advances(k, stored[k], stored'[k], run[r].told)
    BY <1>1, <2>2, StoredAdvances
  <2>4. QED  BY <1>1, <2>1, <2>3 DEF Advances, Told
<1>2. CronInv /\ [CronNext]_cronVars =>
         [\A k \in Accounts, type \in {"warning", "recovery"} :
            Hides(k, stored[k], stored'[k], type) =>
               \E r \in Runs : run[r].at = "commit" /\ Told(r, k, type)]_cronVars
  BY <1>1
<1>3. QED  BY <1>2, CronInductive, PTL DEF CronSpec, AlertBeforeAdvance

(* A stored row is never set back: NeverBehind, under the same condition. *)
THEOREM RowsGoForward == ~Pauses /\ CronSpec => NeverBehind
<1>1. ASSUME CronInv, [CronNext]_cronVars, NEW k \in Accounts,
             stored[k] # NoRow, stored'[k] # NoRow
      PROVE  NotBehind(stored[k], stored'[k])
  <2>1. CASE stored'[k] = stored[k]
    <3>1. stored[k] \in Rows
      BY <1>1 DEF CronInv, CronTypeOK
    <3>2. stored[k].stamp \in Nat /\ stored[k].peak \in Nat
      BY <3>1 DEF Rows
    <3>3. QED  BY <2>1, <3>2 DEF NotBehind
  <2>2. CASE stored'[k] # stored[k]
    BY <1>1, <2>2, StoredAdvances DEF Advances
  <2>3. QED  BY <2>1, <2>2
<1>2. CronInv /\ [CronNext]_cronVars =>
         [\A k \in Accounts : stored[k] # NoRow /\ stored'[k] # NoRow =>
             NotBehind(stored[k], stored'[k])]_cronVars
  BY <1>1
<1>3. QED  BY <1>2, CronInductive, PTL DEF CronSpec, NeverBehind

-----------------------------------------------------------------------------
(* The transaction of tab t fits the saved records: they are as it read them
   or have been lost, and it drops or keeps the records of other accounts. *)
TransactionOK(t) ==
    LET i == tab[t] IN
    /\ i.at # "idle" => holder = t /\ i.key \in LocalAccounts
    /\ i.at = "deliver" =>
          /\ i.next # NoRecord
          /\ \A k \in LocalAccounts : records[k] # NoRecord => i.doc[k] \in {records[k], NoRecord}
          /\ records[i.key] # NoRecord =>
                IF IsReset(records[i.key], i.next) THEN records[i.key].used
                ELSE i.next.cursor > records[i.key].cursor
    /\ i.at = "save" =>
          \A k \in LocalAccounts :
             Passes(records[k], i.doc[k], i.rules) => i.key = k /\ i.told

LocalInv == LocalTypeOK /\ \A t \in Tabs : TransactionOK(t)

(* A record that stays, or goes, passes nothing. *)
LEMMA StaysPassesNothing ==
    ASSUME NEW rec \in Records \cup {NoRecord}, NEW n \in {rec, NoRecord}, NEW rules
    PROVE  ~Passes(rec, n, rules)
<1>1. rec \in Records => rec.stamp \in Nat /\ rec.cursor \in Nat
  BY DEF Records
<1>2. QED  BY <1>1 DEF Passes, IsReset

(* The next record: it passes an event only when the reading tells it, and
   what a reading tells is an event that the record has not passed. *)
LEMMA NextRecordOK ==
    ASSUME NEW rec \in Records, NEW reading \in LocalReadings, NEW rules
    PROVE  LET n == NextRecord(rec, reading) IN
           /\ n \in Records
           /\ Passes(rec, n, rules) => Tells(rec, reading, rules)
           /\ Tells(rec, reading, rules) =>
                 IF IsReset(rec, n) THEN rec.used ELSE n.cursor > rec.cursor
<1> DEFINE n == NextRecord(rec, reading)
<1>1. /\ rec.stamp \in Nat /\ rec.cursor \in Nat /\ rec.used \in BOOLEAN
      /\ reading.stamp \in Nat /\ reading.crossed \in Nat /\ reading.used \in BOOLEAN
  BY LocalNotifyAssumption DEF Records, LocalNotifyAssumption
<1>2. /\ n.stamp = IF rec.stamp = 0 \/ IsReset(rec, reading) THEN reading.stamp ELSE rec.stamp
      /\ n.cursor = IF IsReset(rec, reading) \/ reading.crossed > rec.cursor
                    THEN reading.crossed ELSE rec.cursor
      /\ n.used = reading.used
      /\ n \in Records
  BY <1>1 DEF NextRecord, Records
<1> HIDE DEF n
<1>3. IsReset(rec, n) <=> IsReset(rec, reading)
  BY <1>1, <1>2 DEF IsReset
<1>4. Passes(rec, n, rules) => Tells(rec, reading, rules)
  BY <1>1, <1>2, <1>3 DEF Passes, Tells
<1>5. Tells(rec, reading, rules) => IF IsReset(rec, n) THEN rec.used ELSE n.cursor > rec.cursor
  BY <1>1, <1>2, <1>3 DEF Tells
<1>6. QED  BY <1>2, <1>4, <1>5 DEF n

(* A tab that moves while no other one is in a transaction. *)
LEMMA OneTab ==
    ASSUME LocalInv, NEW t \in Tabs, NEW i \in Transactions, tab' = [tab EXCEPT ![t] = i],
           holder \in {t, NoRecord}, holder' \in {t, NoRecord},
           records' \in [LocalAccounts -> Records \cup {NoRecord}], TransactionOK(t)'
    PROVE  LocalInv'
<1>1. tab' \in [Tabs -> Transactions] /\ \A q \in Tabs : q # t => tab'[q] = tab[q]
  BY DEF LocalInv, LocalTypeOK
<1>2. LocalTypeOK'
  BY <1>1 DEF LocalTypeOK
<1>3. ASSUME NEW q \in Tabs, q # t PROVE TransactionOK(q)'
  <2>1. tab[q].at = "idle"
    BY <1>3, LocalNotifyAssumption DEF LocalInv, TransactionOK, LocalNotifyAssumption
  <2>2. QED  BY <1>1, <1>3, <2>1 DEF TransactionOK
<1>4. QED  BY <1>2, <1>3 DEF LocalInv

(* A transaction begins: it saves silently what tells nothing. *)
LEMMA BeginStep ==
    ASSUME LocalInv, NEW t \in Tabs, NEW k \in LocalAccounts, NEW rules \in RuleSets,
           NEW shown \in SUBSET LocalAccounts, Begin(t, k, rules, shown)
    PROVE  LocalInv'
<1> DEFINE rec == records[k]
           doc == Pruned(records, shown)
           quiet(next) == [NoTransaction EXCEPT !.at = "save", !.key = k, !.rules = rules,
                                                !.doc = [doc EXCEPT ![k] = next]]
           loud(next) == [NoTransaction EXCEPT !.at = "deliver", !.key = k, !.rules = rules,
                                               !.doc = doc, !.next = next]
           first(reading) == [stamp |-> reading.stamp, cursor |-> reading.crossed,
                              used |-> reading.used]
<1>1. /\ records \in [LocalAccounts -> Records \cup {NoRecord}] /\ UNCHANGED records
      /\ tab \in [Tabs -> Transactions] /\ holder = NoRecord /\ holder' = t
      /\ rules \in SUBSET {"remaining", "reset"}
  BY LocalNotifyAssumption DEF LocalInv, LocalTypeOK, Begin, Free, LocalNotifyAssumption
<1>2. /\ rec \in Records \cup {NoRecord}
      /\ doc \in [LocalAccounts -> Records \cup {NoRecord}]
      /\ \A h \in LocalAccounts : doc[h] \in {records[h], NoRecord}
  BY <1>1 DEF Pruned
<1>3. NoTransaction \in Transactions
  BY DEF NoTransaction, NoRecords, Transactions
<1>4. \/ tab' = [tab EXCEPT ![t] = quiet(NoRecord)]
      \/ \E reading \in LocalReadings :
            IF rec = NoRecord THEN tab' = [tab EXCEPT ![t] = quiet(first(reading))]
            ELSE IF Tells(rec, reading, rules)
                 THEN tab' = [tab EXCEPT ![t] = loud(NextRecord(rec, reading))]
                 ELSE tab' = [tab EXCEPT ![t] = quiet(NextRecord(rec, reading))]
  BY DEF Begin
<1>5. ASSUME NEW next \in Records \cup {NoRecord}, ~Passes(rec, next, rules),
             tab' = [tab EXCEPT ![t] = quiet(next)]
      PROVE  LocalInv'
  <2> DEFINE i == quiet(next)
             saved == [doc EXCEPT ![k] = next]
  <2>1. /\ saved \in [LocalAccounts -> Records \cup {NoRecord}] /\ saved[k] = next
        /\ \A h \in LocalAccounts \ {k} : saved[h] = doc[h]
    BY <1>2
  <2>2. i = [NoTransaction EXCEPT !.at = "save", !.key = k, !.rules = rules, !.doc = saved]
    OBVIOUS
  <2> HIDE DEF saved
  <2>3. i \in Transactions /\ i.at = "save" /\ i.key = k /\ i.rules = rules /\ i.doc = saved
    BY <1>1, <1>3, <2>1, <2>2 DEF Transactions
  <2>4. tab' = [tab EXCEPT ![t] = i]
    BY <1>5
  <2> HIDE DEF i, quiet
  <2>5. tab'[t] = i
    BY <1>1, <2>4
  <2>6. \A h \in LocalAccounts : ~Passes(records[h], saved[h], rules)
    BY <1>1, <1>2, <1>5, <2>1, StaysPassesNothing
  <2>7. TransactionOK(t)'
    BY <1>1, <2>3, <2>5, <2>6 DEF TransactionOK
  <2>8. QED  BY <1>1, <2>3, <2>4, <2>7, OneTab
<1>6. ASSUME NEW next \in Records, tab' = [tab EXCEPT ![t] = loud(next)],
             IF IsReset(rec, next) THEN rec.used ELSE next.cursor > rec.cursor
      PROVE  LocalInv'
  <2> DEFINE i == loud(next)
  <2>1. /\ i \in Transactions /\ i.at = "deliver" /\ i.key = k /\ i.doc = doc /\ i.next = next
    BY <1>1, <1>2, <1>3 DEF Transactions
  <2>2. tab' = [tab EXCEPT ![t] = i]
    BY <1>6
  <2> HIDE DEF i, loud
  <2>3. tab'[t] = i
    BY <1>1, <2>2
  <2>4. next # NoRecord
    BY LocalNotifyAssumption DEF LocalNotifyAssumption, Records
  <2>5. TransactionOK(t)'
    BY <1>1, <1>2, <1>6, <2>1, <2>3, <2>4 DEF TransactionOK
  <2>6. QED  BY <1>1, <2>1, <2>2, <2>5, OneTab
<1> HIDE DEF quiet, loud, first
<1>7. CASE tab' = [tab EXCEPT ![t] = quiet(NoRecord)]
  BY <1>2, <1>5, <1>7, StaysPassesNothing
<1>8. ASSUME NEW reading \in LocalReadings, rec = NoRecord,
             tab' = [tab EXCEPT ![t] = quiet(first(reading))]
      PROVE  LocalInv'
  <2>1. first(reading) \in Records
    BY LocalNotifyAssumption DEF LocalNotifyAssumption, first, Records
  <2>2. ~Passes(rec, first(reading), rules)
    BY <1>8 DEF Passes
  <2>3. QED  BY <1>5, <1>8, <2>1, <2>2
<1>9. ASSUME NEW reading \in LocalReadings, rec # NoRecord,
             IF Tells(rec, reading, rules)
             THEN tab' = [tab EXCEPT ![t] = loud(NextRecord(rec, reading))]
             ELSE tab' = [tab EXCEPT ![t] = quiet(NextRecord(rec, reading))]
      PROVE  LocalInv'
  <2> DEFINE n == NextRecord(rec, reading)
  <2>1. /\ n \in Records /\ (Passes(rec, n, rules) => Tells(rec, reading, rules))
        /\ Tells(rec, reading, rules) =>
              IF IsReset(rec, n) THEN rec.used ELSE n.cursor > rec.cursor
    BY <1>2, <1>9, NextRecordOK
  <2>2. IF Tells(rec, reading, rules) THEN tab' = [tab EXCEPT ![t] = loud(n)]
        ELSE tab' = [tab EXCEPT ![t] = quiet(n)]
    BY <1>9
  <2> HIDE DEF n
  <2>3. QED  BY <1>5, <1>6, <2>1, <2>2
<1>10. QED  BY <1>4, <1>7, <1>8, <1>9

(* The delivery is settled. *)
LEMMA DeliverStep ==
    ASSUME LocalInv, NEW t \in Tabs, Deliver(t)
    PROVE  LocalInv'
<1>1. /\ tab \in [Tabs -> Transactions] /\ tab[t] \in Transactions /\ TransactionOK(t)
      /\ tab[t].at = "deliver" /\ UNCHANGED <<records, holder>>
      /\ records \in [LocalAccounts -> Records \cup {NoRecord}]
  BY DEF LocalInv, LocalTypeOK, Deliver
<1>2. PICK acknowledged \in BOOLEAN : tab' = [tab EXCEPT ![t] = After(tab[t], acknowledged)]
  BY DEF Deliver
<1> DEFINE i == After(tab[t], acknowledged)
           told == [tab[t].doc EXCEPT ![tab[t].key] = tab[t].next]
<1>3. tab[t].key \in LocalAccounts /\ holder = t
  BY <1>1 DEF TransactionOK
<1>4. /\ told \in [LocalAccounts -> Records \cup {NoRecord}] /\ told[tab[t].key] = tab[t].next
      /\ \A h \in LocalAccounts : h # tab[t].key => told[h] = tab[t].doc[h]
  BY <1>1, <1>3 DEF Transactions
<1>5. i = IF acknowledged THEN [tab[t] EXCEPT !.at = "save", !.told = TRUE, !.doc = told]
          ELSE [tab[t] EXCEPT !.at = "save"]
  BY DEF After
<1> HIDE DEF told
<1>6. /\ i \in Transactions /\ i.at = "save" /\ i.key = tab[t].key /\ i.rules = tab[t].rules
      /\ (i.doc = told /\ i.told) \/ i.doc = tab[t].doc
  <2>1. CASE acknowledged
    <3>1. i = [tab[t] EXCEPT !.at = "save", !.told = TRUE, !.doc = told]
      BY <1>5, <2>1
    <3>2. QED  BY <1>1, <1>4, <3>1 DEF Transactions
  <2>2. CASE ~acknowledged
    <3>1. i = [tab[t] EXCEPT !.at = "save"]
      BY <1>5, <2>2
    <3>2. QED  BY <1>1, <3>1 DEF Transactions
  <2>3. QED  BY <2>1, <2>2
<1>7. tab' = [tab EXCEPT ![t] = i]
  BY <1>2
<1> HIDE DEF i
<1>8. tab'[t] = i
  BY <1>1, <1>7
<1>9. ASSUME NEW h \in LocalAccounts, Passes(records[h], i.doc[h], i.rules)
      PROVE  i.key = h /\ i.told
  <2>1. records[h] \in Records \cup {NoRecord} /\ records[h] # NoRecord
    BY <1>1, <1>9 DEF Passes
  <2>2. tab[t].doc[h] \in {records[h], NoRecord}
    BY <1>1, <2>1 DEF TransactionOK
  <2>3. i.doc[h] # tab[t].doc[h]
    BY <1>9, <2>1, <2>2, StaysPassesNothing
  <2>4. QED  BY <1>4, <1>6, <2>3
<1>10. TransactionOK(t)'
  BY <1>1, <1>3, <1>6, <1>8, <1>9 DEF TransactionOK
<1>11. QED  BY <1>1, <1>3, <1>6, <1>7, <1>10, OneTab

(* The document is saved, or not, or the tab goes away. *)
LEMMA EndsStep ==
    ASSUME LocalInv, NEW t \in Tabs, Save(t) \/ CloseTab(t)
    PROVE  LocalInv'
<1>1. NoTransaction \in Transactions /\ NoTransaction.at = "idle"
  BY DEF NoTransaction, NoRecords, Transactions
<1>2. /\ tab[t].at # "idle" /\ holder' = NoRecord /\ tab' = [tab EXCEPT ![t] = NoTransaction]
      /\ records' \in {records, tab[t].doc}
  BY DEF Save, CloseTab
<1>3. /\ tab[t] \in Transactions /\ holder = t /\ tab'[t] = NoTransaction
      /\ records' \in [LocalAccounts -> Records \cup {NoRecord}]
  BY <1>2 DEF LocalInv, LocalTypeOK, TransactionOK, Transactions
<1>4. TransactionOK(t)'
  BY <1>1, <1>3 DEF TransactionOK
<1>5. QED  BY <1>1, <1>2, <1>3, <1>4, OneTab

LEMMA LocalStep == ASSUME LocalInv, [LocalNext]_localVars PROVE LocalInv'
<1>1. CASE \E t \in Tabs :
              \/ \E k \in LocalAccounts, rules \in RuleSets, shown \in SUBSET LocalAccounts :
                    Begin(t, k, rules, shown)
              \/ Deliver(t) \/ Save(t) \/ CloseTab(t)
  BY <1>1, BeginStep, DeliverStep, EndsStep
<1>2. CASE LoseRecords
  <2>1. records' = NoRecords /\ UNCHANGED holder /\ UNCHANGED tab
    BY <1>2 DEF LoseRecords
  <2>2. LocalTypeOK'
    BY <2>1 DEF LocalInv, LocalTypeOK, NoRecords
  <2>3. ASSUME NEW t \in Tabs PROVE TransactionOK(t)'
    BY <2>1 DEF LocalInv, TransactionOK, Passes, NoRecords
  <2>4. QED  BY <2>2, <2>3 DEF LocalInv
<1>3. CASE UNCHANGED localVars
  <2>1. UNCHANGED records /\ UNCHANGED holder /\ UNCHANGED tab
    BY <1>3 DEF localVars
  <2>2. LocalTypeOK'
    BY <2>1 DEF LocalInv, LocalTypeOK
  <2>3. ASSUME NEW t \in Tabs PROVE TransactionOK(t)'
    BY <2>1 DEF LocalInv, TransactionOK
  <2>4. QED  BY <2>2, <2>3 DEF LocalInv
<1>4. QED  BY <1>1, <1>2, <1>3 DEF LocalNext

(* The invariant of the on-device notifications. *)
THEOREM LocalInductive == LocalSpec => []LocalInv
<1>1. LocalInit => LocalInv
  <2> SUFFICES ASSUME LocalInit PROVE LocalInv
    OBVIOUS
  <2>1. NoTransaction \in Transactions /\ NoTransaction.at = "idle"
    BY DEF NoTransaction, NoRecords, Transactions
  <2>2. LocalTypeOK
    BY <2>1 DEF LocalInit, LocalTypeOK, NoRecords
  <2>3. ASSUME NEW t \in Tabs PROVE TransactionOK(t)
    BY <2>1 DEF LocalInit, TransactionOK
  <2>4. QED  BY <2>2, <2>3 DEF LocalInv
<1>2. LocalInv /\ [LocalNext]_localVars => LocalInv'
  BY LocalStep
<1>3. QED  BY <1>1, <1>2, PTL DEF LocalSpec

(* No tab hands the worker an event that a saved record has passed: ToldOnce,
   for any tabs, accounts, readings and rules.  An alert whose record could
   not be saved is shown again. *)
THEOREM EventsToldOnce == LocalSpec => []ToldOnce
<1>1. LocalInv => ToldOnce
  <2> SUFFICES ASSUME LocalInv, NEW t \in Tabs, tab[t].at = "deliver",
                      records[tab[t].key] # NoRecord
               PROVE  IF IsReset(records[tab[t].key], tab[t].next)
                      THEN records[tab[t].key].used
                      ELSE tab[t].next.cursor > records[tab[t].key].cursor
    BY DEF ToldOnce
  <2>1. QED  BY DEF LocalInv, TransactionOK
<1>2. QED  BY <1>1, LocalInductive, PTL

(* A record moves past an event only when the event was shown:
   ShownBeforeAdvance, for any tabs, accounts, readings and rules. *)
THEOREM ShownFirst == LocalSpec => ShownBeforeAdvance
<1>1. ASSUME LocalInv, [LocalNext]_localVars, NEW k \in LocalAccounts, NEW t \in Tabs,
             tab[t].at = "save", Passes(records[k], records'[k], tab[t].rules)
      PROVE  tab[t].key = k /\ tab[t].told
  <2>1. /\ records \in [LocalAccounts -> Records \cup {NoRecord}] /\ TransactionOK(t)
        /\ holder = t
    BY <1>1 DEF LocalInv, LocalTypeOK, TransactionOK
  <2>2. records[k] \in Records \cup {NoRecord} /\ records'[k] \notin {records[k], NoRecord}
    BY <1>1, <2>1, StaysPassesNothing
  <2>3. PICK s \in Tabs : Save(s) /\ records' = tab[s].doc
    BY <1>1, <2>2 DEF LocalNext, localVars, Begin, Deliver, Save, CloseTab, LoseRecords, NoRecords
  <2>4. s = t
    BY <1>1, <2>1, <2>3 DEF LocalInv, TransactionOK, Save
  <2>5. QED  BY <1>1, <2>1, <2>3, <2>4 DEF TransactionOK
<1>2. LocalInv /\ [LocalNext]_localVars =>
         [\A k \in LocalAccounts, t \in Tabs :
             /\ tab[t].at = "save"
             /\ Passes(records[k], records'[k], tab[t].rules)
             => tab[t].key = k /\ tab[t].told]_localVars
  BY <1>1
<1>3. QED  BY <1>2, LocalInductive, PTL DEF LocalSpec, ShownBeforeAdvance

-----------------------------------------------------------------------------
(* What a part promises the whole does: a behaviour of the notifications is
   one of each of its parts. *)
THEOREM PartsOfNotifications == NotifySpec => CronSpec /\ LocalSpec
<1>1. NotifyInit => CronInit /\ LocalInit
  BY DEF NotifyInit
<1>2. [NotifyNext]_notifyVars => [CronNext]_cronVars /\ [LocalNext]_localVars
  BY DEF NotifyNext, notifyVars
<1>3. QED  BY <1>1, <1>2, PTL DEF NotifySpec, CronSpec, LocalSpec
=============================================================================
