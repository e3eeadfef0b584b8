----------------------------- MODULE DashboardProps -----------------------------
(***************************************************************************)
(* What the dashboard promises of the edits made in it and of the order of *)
(* its cards.                                                              *)
(***************************************************************************)
EXTENDS Dashboard, CardOrder

(* Every variable keeps its type. *)
DashTypeOK ==
    /\ vault \in Vaults /\ known \in Vaults
    /\ shown \in [Cards -> Rows]
    /\ edits \in Seq(Edits) /\ Len(edits) <= MaxEdits
    /\ wrote \in [Cards \X Fields -> 0..MaxEdits]
    /\ adrift \in SUBSET Puts /\ overtaken \in SUBSET (1..MaxEdits)
    /\ failed \in Seq(1..MaxEdits) /\ queue \in Seq(Saves)
    /\ save \in SaveStates
    /\ saveState \in {"idle", "saving", "error"}
    /\ read \in [Reads -> ReadStates]
    /\ screen \in {"loading", "ready", "error"}
    /\ inFlight \in SUBSET Cards
    /\ usage \in [Usages -> Cards \cup {NoCard}]

In(s) == {s[i] : i \in DOMAIN s}
Pending == (In(failed) \cup In(queue) \cup In(save.todo)) \ {0}
Key(i) == <<edits[i].id, edits[i].field>>
LastOfKey(i) == \A j \in DOMAIN edits : Key(j) = Key(i) => j <= i

(* No edit is lost and no older one wins: an edit waits to be saved, or the
   last the vault took of its kind for its account is the last that was
   made, whatever failed, was unanswered, conflicted and was replayed.  Only
   one thing may undo the last edit after it was written: an older write
   that the tab gave up at its deadline, which the server carries out when
   the vault is back at the revision it was sent with. *)
EditsKept ==
    /\ \A i \in DOMAIN edits :
          LastOfKey(i) => i \in Pending \/ wrote[Key(i)] = i \/ i \in overtaken
    /\ saveState = "idle" /\ screen = "ready" => Pending = {}

Shows(i) == shown[edits[i].id].gone \/ shown[edits[i].id][edits[i].field] = edits[i].to

(* An edit that waits to be saved stays on the screen: an earlier save that
   ends or fails and a read that the focus began never take it back; only a
   newer edit or a reload that was asked for may. *)
PendingShown ==
    [][\A i \in Pending \cap Pending' :
          Shows(i) /\ ~Shows(i)' =>
             \/ Len(edits') > Len(edits)
             \/ \E r \in Explicit : read[r].at = "got" /\ read'[r].at = "none"]_dashVars

(* What these rest on.  The edits that wait are in the order they were made,
   those of the running save or of the failed one before the queued ones. *)
Ascends(s) == \A p, q \in DOMAIN s : p < q /\ s[q] # 0 => s[p] < s[q]

LineInv ==
    /\ Pending \subseteq DOMAIN edits
    /\ Ascends(save.todo) /\ Ascends(failed) /\ Ascends(queue)
    /\ \A i \in In(failed) \cup In(save.todo) : \A j \in In(queue) \ {0} : i < j
    /\ save.at # "idle" => failed = <<>>
    /\ save.at = "idle" => save.todo = <<>>
    /\ save.at = "answer" => save.todo # <<>>

(* So what was written, or may yet be of the writes given up, is not newer
   than what waits. *)
WroteInv ==
    /\ \A k \in Cards \X Fields : wrote[k] <= Len(edits)
    /\ \A i \in Pending : wrote[Key(i)] <= i
    /\ \A put \in adrift : put.edit \in DOMAIN edits /\ \A i \in Pending : put.edit <= i
    /\ save.at = "answer" /\ save.answer = "ok" =>
          LET i == Head(save.todo) IN wrote[Key(i)] = i \/ i \in overtaken

(* Of the reads, one is wanted at most; a load is not once there are rows to
   edit, and one the focus began is not while an edit waits.  Until there
   are rows, there is nothing to save. *)
ReadInv ==
    /\ \A r \in Reads :
          /\ read[r].at = "got" => read[r].wanted
          /\ read[r].at = "none" => ~read[r].wanted
    /\ \A r, s \in Reads : read[r].wanted /\ read[s].wanted => r = s
    /\ \A r \in Reads : read[r].wanted =>
          /\ read[r].by = "load" => screen # "ready"
          /\ read[r].by = "focus" => Pending = {}
    /\ screen # "ready" =>
          /\ edits = <<>> /\ failed = <<>> /\ queue = <<>>
          /\ save.at = "idle" /\ saveState = "idle"
          /\ \A u \in Usages : usage[u] = NoCard

DashInv == DashTypeOK /\ LineInv /\ WroteInv /\ ReadInv /\ EditsKept

-----------------------------------------------------------------------------
(* Every variable keeps its type; the order that waits and the holds are of
   the cards on the screen. *)
OrderTypeOK ==
    /\ ranking \in Rankings
    /\ visible \in Orders(Listed(visible))
    /\ pending # NoOrder => pending \in Orders(Listed(visible))
    /\ unsettled \in SUBSET Listed(visible)
    /\ touched \in SUBSET (Listed(visible) \X Channels)
    /\ marked \in SUBSET Boards
    /\ request \in SUBSET (Boards \X Batches)
    /\ running \in SUBSET Batches

(* Cards do not change places under the pointer or the focus: while a card
   is touched, those that stay keep their order, whatever refreshes, sort
   changes, connections and removals do. *)
OrderHeld ==
    [][touched # {} /\ touched' # {} =>
          Only(visible, Listed(visible')) = Only(visible', Listed(visible))]_orderVars

(* The order catches up: one that waits is held up by a card that is there
   to be left, and when no refresh runs nothing is awaited any more and the
   order shown, or the one that waits, is the one the last readings imply,
   although a refresh that ended during another one had its order refused. *)
OrderCatchesUp ==
    /\ pending # NoOrder => touched # {}
    /\ running = {} =>
          /\ unsettled = {}
          /\ (IF pending = NoOrder THEN visible ELSE pending) = Only(ranking, Listed(visible))

(* Whoever is marked or awaited has a request, of a refresh that is not over:
   what OrderCatchesUp rests on when the last refresh ends. *)
Requested == {a \in Boards : \E b \in Batches : <<a, b>> \in request}

OrderInv ==
    /\ OrderTypeOK
    /\ request \subseteq Boards \X running
    /\ marked \cup unsettled \subseteq Requested
    /\ OrderCatchesUp
=============================================================================
