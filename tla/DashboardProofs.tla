---------------------------- MODULE DashboardProofs ----------------------------
(***************************************************************************)
(* What the dashboard promises of its cards and of the edits made in it,   *)
(* for any accounts, requests, refreshes, edits and limits.                *)
(***************************************************************************)
EXTENDS Board, TLAPS

-----------------------------------------------------------------------------
(* Orders. *)

(* An order of some cards lists these. *)
LEMMA ListedOrder ==
    ASSUME NEW ids \in SUBSET Boards, NEW o \in Orders(ids)
    PROVE  Listed(o) = ids
BY DEF Listed, Orders

(* What is left of an order is one of what is left. *)
LEMMA OnlyOrder ==
    ASSUME NEW ids \in SUBSET Boards, NEW o \in Orders(ids), NEW left \in SUBSET ids
    PROVE  Only(o, left) \in Orders(left)
BY DEF Only, Orders

(* A new card at the end of an order makes one. *)
LEMMA AtEndOrder ==
    ASSUME NEW ids \in SUBSET Boards, NEW o \in Orders(ids), NEW a \in Boards \ ids
    PROVE  /\ AtEnd(o, a) \in Orders(ids \cup {a})
           /\ Only(AtEnd(o, a), ids) = o
<1>1. AtEnd(o, a) = o \cup ((ids \cup {a}) \X {a})
  BY ListedOrder DEF AtEnd
<1>2. o \in SUBSET (ids \X ids)
  BY DEF Orders
<1> DEFINE n == AtEnd(o, a)
<1>3. \A x, y : <<x, y>> \in n <=> <<x, y>> \in o \/ (x \in ids \cup {a} /\ y = a)
  BY <1>1
<1>4. n \in SUBSET ((ids \cup {a}) \X (ids \cup {a}))
  BY <1>1, <1>2
<1>5. Only(n, ids) = o
  BY <1>1, <1>2 DEF Only
<1>6. \A x, y : <<x, y>> \in o => x \in ids /\ y \in ids
  BY <1>2
<1> HIDE DEF n
<1>7. /\ \A x, y \in ids \cup {a} : <<x, y>> \in n \/ <<y, x>> \in n
      /\ \A x, y \in ids \cup {a} : <<x, y>> \in n /\ <<y, x>> \in n => x = y
      /\ \A x, y, z \in ids \cup {a} : <<x, y>> \in n /\ <<y, z>> \in n => <<x, z>> \in n
  BY <1>3, <1>6 DEF Orders
<1>8. n \in Orders(ids \cup {a})
  BY <1>4, <1>7 DEF Orders
<1>9. QED
  BY <1>5, <1>8 DEF n

(* NoOrder is none of them. *)
LEMMA OrdersAreSome ==
    ASSUME NEW ids \in SUBSET Boards, NEW o \in Orders(ids)
    PROVE  o # NoOrder
<1>1. o \in SUBSET (Boards \X Boards)
  BY DEF Orders
<1>2. QED
  BY <1>1, CardOrderAssumption

-----------------------------------------------------------------------------
(* The order of the cards. *)

LEMMA OrderInitInv == OrderInit => OrderInv
<1> SUFFICES ASSUME OrderInit PROVE OrderInv
  OBVIOUS
<1>1. Listed({}) = {} /\ \A o : Only(o, {}) = {}
  BY DEF Listed, Only
<1>2. {} \in Orders({})
  BY DEF Orders
<1>3. QED
  BY <1>1, <1>2 DEF OrderInit, OrderInv, OrderTypeOK, OrderCatchesUp, Requested

(* What an offered order makes of the order shown and of the one that waits. *)
LEMMA OfferStep ==
    ASSUME OrderInv, NEW rank \in Rankings, Offer(rank)
    PROVE  /\ visible' \in Orders(Listed(visible)) /\ Listed(visible') = Listed(visible)
           /\ pending' # NoOrder => pending' \in Orders(Listed(visible)) /\ Holds
           /\ Holds => visible' = visible
           /\ unsettled = {} =>
                 (IF pending' = NoOrder THEN visible' ELSE pending') = Only(rank, Listed(visible))
<1> DEFINE ids == Listed(visible)
           order == Only(rank, ids)
<1>1. ids \in SUBSET Boards /\ visible \in Orders(ids)
  BY DEF Listed, OrderInv, OrderTypeOK
<1>2. order \in Orders(ids) /\ order # NoOrder /\ Listed(order) = ids
  BY <1>1, OnlyOrder, OrdersAreSome, ListedOrder DEF Rankings
<1> HIDE DEF ids, order
<1>3. CASE unsettled # {}
  BY <1>1, <1>3 DEF Offer, OrderInv, OrderTypeOK, OrderCatchesUp, Holds, ids
<1>4. CASE unsettled = {} /\ Holds
  BY <1>1, <1>2, <1>4 DEF Offer, ids, order
<1>5. CASE unsettled = {} /\ ~Holds
  BY <1>1, <1>2, <1>5 DEF Offer, ids, order
<1>6. QED
  BY <1>3, <1>4, <1>5

LEMMA OrderStep == OrderInv /\ [OrderNext]_orderVars => OrderInv'
<1> SUFFICES ASSUME OrderInv, [OrderNext]_orderVars PROVE OrderInv'
  OBVIOUS
<1> DEFINE ids == Listed(visible)
<1> USE DEF OrderInv
<1>1. ids \in SUBSET Boards
  BY DEF Listed
<1>2. ASSUME SortChanged PROVE OrderInv'
  BY <1>2, OfferStep DEF SortChanged, refreshVars, OrderTypeOK, OrderCatchesUp, Requested, Holds
<1>3. ASSUME NEW b \in Batches, EndBatch(b) PROVE OrderInv'
  <2>1. request \subseteq Boards \X running'
    BY <1>3 DEF EndBatch, OrderTypeOK
  <2>2. running' = {} => unsettled = {}
    BY <2>1 DEF Requested
  <2>3. ranking \in Rankings /\ Offer(ranking)
    BY <1>3 DEF EndBatch, OrderTypeOK
  <2>4. QED
    BY <1>3, <2>1, <2>2, <2>3, OfferStep
       DEF EndBatch, OrderTypeOK, OrderCatchesUp, Requested, Holds
<1>4. ASSUME NEW b \in Batches, NEW cards \in SUBSET ids, StartBatch(b, cards) PROVE OrderInv'
  BY <1>1, <1>4 DEF StartBatch, Awaited, OrderTypeOK, OrderCatchesUp, Requested
<1>5. ASSUME NEW b \in Batches, NEW a \in Boards, Settle(a, b) PROVE OrderInv'
  <2>1. ranking' \in Rankings
    BY <1>5 DEF Settle, Moved, OrderTypeOK
  <2>2. b \in running
    BY <1>5 DEF Settle
  <2>3. marked' \cup unsettled' \subseteq Requested'
    BY <1>5 DEF Settle, Requested
  <2>4. QED
    BY <1>5, <2>1, <2>2, <2>3 DEF Settle, OrderTypeOK, OrderCatchesUp
<1>6. ASSUME NEW a \in Boards, CardAdded(a) PROVE OrderInv'
  <2> DEFINE rest == Only(ranking, Boards \ {a})
  <2>1. a \in Boards \ ids
    BY <1>6 DEF CardAdded
  <2>2. /\ visible' \in Orders(ids \cup {a}) /\ Only(visible', ids) = visible
        /\ Listed(visible') = ids \cup {a}
    BY <1>1, <1>6, <2>1, AtEndOrder, ListedOrder DEF CardAdded, OrderTypeOK
  <2>3. /\ rest \in Orders(Boards \ {a}) /\ ranking' = AtEnd(rest, a)
        /\ ranking' \in Rankings
    BY <1>6, OnlyOrder, AtEndOrder DEF CardAdded, OrderTypeOK, Rankings
  <2>4. pending # NoOrder =>
          /\ pending' \in Orders(ids \cup {a}) /\ pending' = AtEnd(pending, a)
          /\ pending' # NoOrder
    BY <1>1, <1>6, <2>1, AtEndOrder, OrdersAreSome DEF CardAdded, OrderTypeOK
  <2>5. pending = NoOrder => pending' = NoOrder
    BY <1>6 DEF CardAdded
  <2>6. ASSUME NEW o \in Orders(ids), o = Only(ranking, ids)
        PROVE  AtEnd(o, a) = Only(ranking', ids \cup {a})
    <3>1. Only(rest, ids) = o
      <4>1. (ids \X ids) \subseteq ((Boards \ {a}) \X (Boards \ {a}))
        BY <1>1, <2>1
      <4>2. QED
        BY <2>6, <4>1 DEF Only
    <3>2. Listed(rest) = Boards \ {a} /\ Listed(o) = ids
      BY <1>1, <2>3, <2>6, ListedOrder
    <3>3. ranking' = rest \cup (Boards \X {a}) /\ AtEnd(o, a) = o \cup ((ids \cup {a}) \X {a})
      BY <2>3, <3>2 DEF AtEnd
    <3>4. rest \in SUBSET ((Boards \ {a}) \X (Boards \ {a}))
      BY <2>3 DEF Orders
    <3>5. QED
      BY <1>1, <2>1, <3>1, <3>3, <3>4 DEF Only
  <2>7. OrderTypeOK'
    BY <1>6, <2>2, <2>3, <2>4, <2>5 DEF CardAdded, refreshVars, OrderTypeOK
  <2>8. OrderCatchesUp'
    BY <1>6, <2>2, <2>4, <2>5, <2>6 DEF CardAdded, refreshVars, OrderCatchesUp, OrderTypeOK
  <2>9. QED
    BY <1>6, <2>7, <2>8 DEF CardAdded, refreshVars, Requested
<1>7. ASSUME NEW a \in Boards, CardRemoved(a) PROVE OrderInv'
  <2> DEFINE left == ids \ {a}
             shrunk(o) == Only(o, left)
  <2>1. left \in SUBSET Boards /\ left \subseteq ids
    BY <1>1
  <2>2. /\ shrunk(visible) \in Orders(left)
        /\ pending # NoOrder => shrunk(pending) \in Orders(left) /\ shrunk(pending) # NoOrder
    BY <1>1, <2>1, OnlyOrder, OrdersAreSome DEF OrderTypeOK
  <2>3. \A o : shrunk(Only(o, ids)) = shrunk(o)
    BY <2>1 DEF Only
  <2>4. /\ visible' \in Orders(left) /\ Listed(visible') = left
        /\ pending' # NoOrder => pending' \in Orders(left) /\ touched' # {}
        /\ (IF pending' = NoOrder THEN visible' ELSE pending') =
              shrunk(IF pending = NoOrder THEN visible ELSE pending)
    <3>1. /\ visible' \in {shrunk(visible), shrunk(pending)}
          /\ pending = NoOrder => visible' = shrunk(visible) /\ pending' = NoOrder
          /\ pending # NoOrder /\ touched' = {} =>
                visible' = shrunk(pending) /\ pending' = NoOrder
          /\ pending # NoOrder /\ touched' # {} =>
                visible' = shrunk(visible) /\ pending' = shrunk(pending)
      BY <1>7, <2>2 DEF CardRemoved, Release
    <3>2. visible' \in Orders(left)
      BY <2>2, <3>1
    <3>3. QED
      BY <2>1, <2>2, <3>1, <3>2, ListedOrder
  <2>5. OrderTypeOK'
    BY <1>7, <2>1, <2>4 DEF CardRemoved, HoldsAfter, OrderTypeOK
  <2>6. OrderCatchesUp'
    BY <1>7, <2>3, <2>4 DEF CardRemoved, OrderCatchesUp
  <2>7. QED
    BY <1>7, <2>5, <2>6 DEF CardRemoved, Requested
<1>8. ASSUME NEW a \in Boards, NEW channel \in Channels, Touch(a, channel) PROVE OrderInv'
  <2>1. touched' # {} /\ touched' \in SUBSET (ids \X Channels)
    BY <1>8 DEF Touch, OrderTypeOK
  <2>2. QED
    BY <1>8, <2>1 DEF Touch, refreshVars, OrderTypeOK, OrderCatchesUp, Requested
<1>9. ASSUME NEW a \in Boards, NEW channel \in Channels, Leave(a, channel) PROVE OrderInv'
  <2>1. /\ visible' \in Orders(ids) /\ Listed(visible') = ids
        /\ pending' # NoOrder => pending' \in Orders(ids) /\ touched' # {}
        /\ (IF pending' = NoOrder THEN visible' ELSE pending') =
              (IF pending = NoOrder THEN visible ELSE pending)
    BY <1>1, <1>9, ListedOrder DEF Leave, Release, OrderTypeOK
  <2>2. OrderTypeOK'
    BY <1>9, <2>1 DEF Leave, refreshVars, OrderTypeOK
  <2>3. OrderCatchesUp'
    BY <1>9, <2>1 DEF Leave, refreshVars, OrderCatchesUp
  <2>4. QED
    BY <1>9, <2>2, <2>3 DEF Leave, refreshVars, Requested
<1>10. CASE UNCHANGED orderVars
  BY <1>10 DEF orderVars, OrderTypeOK, OrderCatchesUp, Requested
<1>11. QED
  BY <1>2, <1>3, <1>4, <1>5, <1>6, <1>7, <1>8, <1>9, <1>10 DEF OrderNext

THEOREM OrderInductive == OrderSpec => []OrderInv
<1>1. QED
  BY OrderInitInv, OrderStep, PTL DEF OrderSpec

(* The order that is shown in the end is the one the last readings imply. *)
THEOREM OrderSettles == OrderSpec => []OrderCatchesUp
<1>1. OrderInv => OrderCatchesUp
  BY DEF OrderInv
<1>2. QED
  BY <1>1, OrderInductive, PTL

(* No card moves under the pointer or the focus. *)
THEOREM HeldCards == OrderSpec => OrderHeld
<1> DEFINE Still == touched # {} /\ touched' # {} =>
                       Only(visible, Listed(visible')) = Only(visible', Listed(visible))
           ids == Listed(visible)
<1>1. OrderInv /\ [OrderNext]_orderVars => [Still]_orderVars
  <2> SUFFICES ASSUME OrderInv, OrderNext, touched # {}, touched' # {}
               PROVE  Only(visible, Listed(visible')) = Only(visible', ids)
    OBVIOUS
  <2>1. ids \in SUBSET Boards /\ visible \in Orders(ids)
    BY DEF Listed, OrderInv, OrderTypeOK
  <2>2. visible' = visible \/ \E a \in Boards : CardAdded(a) \/ CardRemoved(a)
    <3>1. ASSUME NEW rank, Offer(rank) PROVE visible' = visible
      BY <3>1 DEF Offer, Holds
    <3>2. ASSUME NEW a, NEW channel, Leave(a, channel) PROVE visible' = visible
      BY <3>2 DEF Leave, Release
    <3>3. QED
      BY <3>1, <3>2 DEF OrderNext, SortChanged, EndBatch, StartBatch, Settle, Touch
  <2>3. CASE visible' = visible
    BY <2>3
  <2>4. ASSUME NEW a \in Boards, CardAdded(a)
        PROVE  Only(visible, Listed(visible')) = Only(visible', ids)
    <3>1. a \in Boards \ ids /\ visible' = AtEnd(visible, a)
      BY <2>4 DEF CardAdded
    <3>2. Listed(visible') = ids \cup {a} /\ Only(visible', ids) = visible
      <4>1. visible' \in Orders(ids \cup {a}) /\ Only(visible', ids) = visible
        BY <2>1, <3>1, AtEndOrder
      <4>2. ids \cup {a} \in SUBSET Boards
        BY <2>1
      <4>3. QED
        BY <4>1, <4>2, ListedOrder
    <3>3. QED
      BY <2>1, <3>2 DEF Only, Orders
  <2>5. ASSUME NEW a \in Boards, CardRemoved(a)
        PROVE  Only(visible, Listed(visible')) = Only(visible', ids)
    <3>1. visible' = Only(visible, ids \ {a})
      BY <2>5 DEF CardRemoved, Release
    <3>2. Listed(visible') = ids \ {a}
      BY <2>1, <3>1, OnlyOrder, ListedOrder
    <3>3. QED
      BY <3>1, <3>2 DEF Only
  <2>6. QED
    BY <2>2, <2>3, <2>4, <2>5
<1>2. QED
  BY <1>1, OrderInductive, PTL DEF OrderSpec, OrderHeld

-----------------------------------------------------------------------------
(* Sequences of edits. *)

LEMMA InAppend ==
    ASSUME NEW S, NEW s \in Seq(S), NEW x \in S
    PROVE  Append(s, x) \in Seq(S) /\ In(Append(s, x)) = In(s) \cup {x}
<1>1. /\ Append(s, x) \in Seq(S)
      /\ Len(s) \in Nat /\ DOMAIN s = 1..Len(s) /\ DOMAIN Append(s, x) = 1..(Len(s) + 1)
  OBVIOUS
<1>2. \A i \in 1..(Len(s) + 1) : Append(s, x)[i] = IF i = Len(s) + 1 THEN x ELSE s[i]
  OBVIOUS
<1>3. In(Append(s, x)) = {IF i = Len(s) + 1 THEN x ELSE s[i] : i \in 1..(Len(s) + 1)}
  BY <1>1, <1>2 DEF In
<1>4. In(s) = {s[i] : i \in 1..Len(s)}
  BY <1>1 DEF In
<1>5. 1..(Len(s) + 1) = 1..Len(s) \cup {Len(s) + 1} /\ Len(s) + 1 \notin 1..Len(s)
  BY <1>1
<1>6. QED
  BY <1>1, <1>3, <1>4, <1>5

LEMMA InHead ==
    ASSUME NEW S, NEW s \in Seq(S), s # <<>>
    PROVE  /\ Head(s) \in S /\ Head(s) \in In(s) /\ Tail(s) \in Seq(S)
           /\ In(s) = In(Tail(s)) \cup {Head(s)}
<1>1. Len(s) \in Nat \ {0} /\ DOMAIN s = 1..Len(s) /\ Head(s) = s[1] /\ Head(s) \in S
  OBVIOUS
<1>2. /\ Tail(s) \in Seq(S) /\ DOMAIN Tail(s) = 1..(Len(s) - 1)
      /\ \A i \in 1..(Len(s) - 1) : Tail(s)[i] = s[i + 1]
  OBVIOUS
<1>3. \A i \in 1..Len(s) : i = 1 \/ (i - 1 \in 1..(Len(s) - 1) /\ s[i] = Tail(s)[i - 1])
  BY <1>1, <1>2
<1>4. In(s) \subseteq In(Tail(s)) \cup {Head(s)}
  <2>1. In(s) = {s[i] : i \in 1..Len(s)}
    BY <1>1 DEF In
  <2>2. In(Tail(s)) = {Tail(s)[i] : i \in 1..(Len(s) - 1)}
    BY <1>1, <1>2 DEF In
  <2>3. \A i \in 1..Len(s) : s[i] \in In(Tail(s)) \cup {Head(s)}
    BY <1>1, <1>3, <2>2
  <2>4. QED
    BY <2>1, <2>3
<1>5. In(Tail(s)) \subseteq In(s) /\ Head(s) \in In(s)
  BY <1>1, <1>2 DEF In
<1>6. QED
  BY <1>1, <1>2, <1>4, <1>5

LEMMA InEmpty == In(<<>>) = {} /\ Ascends(<<>>)
BY DEF In, Ascends

(* What ascends still does without its head, which is before all the rest. *)
LEMMA TailAscends ==
    ASSUME NEW S \in SUBSET Nat, NEW s \in Seq(S), s # <<>>, Ascends(s)
    PROVE  Ascends(Tail(s)) /\ \A x \in In(Tail(s)) \ {0} : Head(s) < x
<1>1. Len(s) \in Nat \ {0} /\ DOMAIN s = 1..Len(s) /\ Head(s) = s[1]
  OBVIOUS
<1>2. /\ Tail(s) \in Seq(S) /\ Len(Tail(s)) = Len(s) - 1 /\ DOMAIN Tail(s) = 1..(Len(s) - 1)
      /\ \A i \in 1..(Len(s) - 1) : Tail(s)[i] = s[i + 1]
  OBVIOUS
<1>3. \A p, q \in 1..Len(s) : p < q /\ s[q] # 0 => s[p] < s[q]
  BY <1>1 DEF Ascends
<1>4. \A p, q \in 1..(Len(s) - 1) : p < q /\ s[q + 1] # 0 => s[p + 1] < s[q + 1]
  BY <1>1, <1>3
<1>5. \A q \in 1..(Len(s) - 1) : s[q + 1] # 0 => s[1] < s[q + 1]
  BY <1>1, <1>3
<1>6. Ascends(Tail(s))
  BY <1>2, <1>4 DEF Ascends
<1>7. QED
  BY <1>1, <1>2, <1>5, <1>6 DEF In

(* A newer edit, or none, goes to the end. *)
LEMMA AppendAscends ==
    ASSUME NEW S, NEW s \in Seq(S), Ascends(s), NEW x \in S,
           x # 0 => \A y \in In(s) : y < x
    PROVE  Ascends(Append(s, x))
<1>1. Len(s) \in Nat /\ DOMAIN s = 1..Len(s) /\ DOMAIN Append(s, x) = 1..(Len(s) + 1)
  OBVIOUS
<1>2. \A i \in 1..(Len(s) + 1) : Append(s, x)[i] = IF i = Len(s) + 1 THEN x ELSE s[i]
  OBVIOUS
<1>3. \A p, q \in 1..(Len(s) + 1) : p < q => p \in 1..Len(s)
  BY <1>1
<1>4. QED
  BY <1>1, <1>2, <1>3 DEF Ascends, In

-----------------------------------------------------------------------------
(* Types. *)

LEMMA RecordTypes ==
    /\ NewVault \in Vaults /\ NoSave \in SaveStates /\ NoRead \in ReadStates
    /\ Connected \in Rows
    /\ NoSave.at = "idle" /\ NoSave.todo = <<>>
    /\ NoRead.at = "none" /\ NoRead.wanted = FALSE
<1>1. Connected \in Rows
  BY DashboardAssumption DEF Connected, Rows
<1>2. 0 \in 0..MaxElsewhere /\ 0 \in 0..MaxReplays
  BY DashboardAssumption
<1>3. NewVault \in Vaults
  BY <1>1, <1>2 DEF NewVault, Vaults
<1>4. <<>> \in Seq(1..MaxEdits)
  OBVIOUS
<1>5. QED
  BY <1>1, <1>2, <1>3, <1>4 DEF NoSave, SaveStates, NoRead, ReadStates

LEMMA AskedType ==
    ASSUME NEW by \in {"load", "reload", "focus"}
    PROVE  /\ Asked(by) \in ReadStates
           /\ Asked(by).at = "asked" /\ Asked(by).by = by /\ Asked(by).wanted = TRUE
BY RecordTypes DEF Asked, ReadStates, NoRead

LEMMA UnwantedType ==
    ASSUME NEW rd \in ReadStates
    PROVE  /\ Unwanted(rd) \in ReadStates
           /\ Unwanted(rd).at # "got"
           /\ Unwanted(rd).wanted = FALSE
BY RecordTypes DEF Unwanted, ReadStates, NoRead

LEMMA AfterEditType ==
    ASSUME NEW rows \in [Cards -> Rows], NEW e \in Edits
    PROVE  AfterEdit(rows, e) \in [Cards -> Rows]
<1> DEFINE row == [rows[e.id] EXCEPT ![e.field] = e.to]
<1>1. e.id \in Cards /\ rows[e.id] \in Rows
  BY DEF Edits
<1>2. CASE e.field = "label"
  <2>1. e.to \in Names
    BY <1>2 DEF Edits
  <2>2. row \in Rows
    BY <1>1, <1>2, <2>1 DEF Rows
  <2>3. QED
    BY <1>1, <2>2 DEF AfterEdit
<1>3. CASE e.field = "plan"
  <2>1. e.to \in Names
    BY <1>3 DEF Edits
  <2>2. row \in Rows
    BY <1>1, <1>3, <2>1 DEF Rows
  <2>3. QED
    BY <1>1, <2>2 DEF AfterEdit
<1>4. CASE e.field = "gone"
  <2>1. e.to = TRUE
    BY <1>4 DEF Edits
  <2>2. row \in Rows
    BY <1>1, <1>4, <2>1 DEF Rows
  <2>3. QED
    BY <1>1, <2>2 DEF AfterEdit
<1>5. QED
  BY <1>2, <1>3, <1>4 DEF Edits

LEMMA EditFacts ==
    ASSUME NEW e \in Edits
    PROVE  e.id \in Cards /\ e.field \in Fields
BY DEF Edits, Fields

LEMMA KeyFacts ==
    ASSUME DashTypeOK, NEW i \in DOMAIN edits
    PROVE  edits[i] \in Edits /\ Key(i) \in Cards \X Fields
<1>1. edits[i] \in Edits
  BY DEF DashTypeOK
<1>2. QED
  BY <1>1, EditFacts DEF Key

(* The edit that a save is about to write. *)
LEMMA HeadFacts ==
    ASSUME DashTypeOK, LineInv, save.todo # <<>>
    PROVE  /\ save.todo \in Seq(1..MaxEdits) /\ Head(save.todo) \in Pending
           /\ Head(save.todo) \in DOMAIN edits /\ Head(save.todo) \in 1..MaxEdits
<1>1. save.todo \in Seq(1..MaxEdits)
  BY DEF DashTypeOK, SaveStates
<1>2. Head(save.todo) \in In(save.todo) /\ Head(save.todo) \in 1..MaxEdits
  BY <1>1, InHead
<1>3. 0 \notin 1..MaxEdits
  OBVIOUS
<1>4. QED
  BY <1>1, <1>2, <1>3 DEF LineInv, Pending

LEMMA TouchedFacts ==
    ASSUME DashTypeOK, ReadInv
    PROVE  /\ Touched \in [Reads -> ReadStates]
           /\ \A r \in Reads :
                 /\ Touched[r].at = "got" => Touched[r] = read[r]
                 /\ Touched[r].at = "none" => ~Touched[r].wanted
                 /\ Touched[r].wanted =>
                       Touched[r] = read[r] /\ read[r].wanted /\ read[r].by # "focus"
<1>1. \A r \in Reads : read[r] \in ReadStates
  BY DEF DashTypeOK
<1> SUFFICES ASSUME NEW r \in Reads
             PROVE  LET rd == IF Outdates(r) THEN Unwanted(read[r]) ELSE read[r]
                    IN  /\ rd \in ReadStates
                        /\ rd.at = "got" => rd = read[r]
                        /\ rd.at = "none" => ~rd.wanted
                        /\ rd.wanted => rd = read[r] /\ read[r].wanted /\ read[r].by # "focus"
  BY DEF Touched
<1>2. CASE Outdates(r)
  <2> DEFINE rd == Unwanted(read[r])
  <2>1. rd \in ReadStates /\ rd.at # "got"
    BY <1>1, UnwantedType
  <2>2. QED
    BY <1>1, <1>2, <2>1, UnwantedType
<1>3. CASE ~Outdates(r)
  BY <1>1, <1>3 DEF Outdates, ReadInv
<1>4. QED
  BY <1>2, <1>3

(* An edit is a new one, that is queued. *)
LEMMA EditMade ==
    ASSUME DashTypeOK, NEW e \in Edits, MakesEdit(e)
    PROVE  /\ shown' \in [Cards -> Rows]
           /\ edits' = Append(edits, e) /\ edits' \in Seq(Edits)
           /\ Len(edits') = Len(edits) + 1 /\ Len(edits') <= MaxEdits
           /\ Len(edits) \in Nat /\ Len(edits') \in Saves
           /\ queue' = Append(queue, Len(edits')) /\ queue' \in Seq(Saves)
           /\ In(queue') = In(queue) \cup {Len(edits')}
           /\ saveState' = "saving"
           /\ read' = Touched
<1>1. edits \in Seq(Edits) /\ Len(edits) \in Nat /\ queue \in Seq(Saves) /\ MaxEdits \in Nat
  BY DashboardAssumption DEF DashTypeOK
<1>2. edits' = Append(edits, e) /\ edits' \in Seq(Edits) /\ Len(edits') = Len(edits) + 1
  BY <1>1 DEF MakesEdit
<1>3. Len(edits') <= MaxEdits /\ Len(edits') \in Saves
  BY <1>1, <1>2 DEF MakesEdit, Saves
<1>4. queue' = Append(queue, Len(edits'))
  BY <1>2 DEF MakesEdit
<1>5. shown' \in [Cards -> Rows]
  BY AfterEditType DEF MakesEdit, DashTypeOK
<1>6. QED
  BY <1>1, <1>2, <1>3, <1>4, <1>5, InAppend DEF MakesEdit

(* Whoever edits makes one of the edits. *)
Editing ==
    \/ \E a \in Cards : Rename(a) \/ RemoveCard(a)
    \/ \E u \in Usages : ProfileChanged(u)

LEMMA EditOf ==
    ASSUME DashTypeOK, Editing
    PROVE  /\ \E e \in Edits : MakesEdit(e)
           /\ UNCHANGED <<vault, known, putVars, failed, save, screen>>
<1>1. ASSUME NEW a \in Cards, Rename(a)
      PROVE  /\ \E e \in Edits : MakesEdit(e)
             /\ UNCHANGED <<vault, known, putVars, failed, save, screen>>
  <2>1. \A n \in Names : [id |-> a, field |-> "label", to |-> n] \in Edits
    BY DEF Edits
  <2>2. QED
    BY <1>1, <2>1 DEF Rename
<1>2. ASSUME NEW a \in Cards, RemoveCard(a)
      PROVE  /\ \E e \in Edits : MakesEdit(e)
             /\ UNCHANGED <<vault, known, putVars, failed, save, screen>>
  <2>1. [id |-> a, field |-> "gone", to |-> TRUE] \in Edits
    BY DEF Edits
  <2>2. QED
    BY <1>2, <2>1 DEF RemoveCard
<1>3. ASSUME NEW u \in Usages, ProfileChanged(u)
      PROVE  /\ \E e \in Edits : MakesEdit(e)
             /\ UNCHANGED <<vault, known, putVars, failed, save, screen>>
  <2>1. usage[u] \in Cards
    BY <1>3 DEF ProfileChanged, DashTypeOK
  <2>2. \A n \in Names : [id |-> usage[u], field |-> "plan", to |-> n] \in Edits
    BY <2>1 DEF Edits
  <2>3. QED
    BY <1>3, <2>2 DEF ProfileChanged
<1>4. QED
  BY <1>1, <1>2, <1>3 DEF Editing

(* A read that begins, and what it makes of the others. *)
LEMMA ReadBegun ==
    ASSUME DashTypeOK, ReadInv, NEW by \in {"load", "reload", "focus"}, BeginsRead(by)
    PROVE  /\ read' \in [Reads -> ReadStates]
           /\ \E r \in Reads :
                 /\ read'[r].at = "asked" /\ read'[r].by = by
                 /\ \A s \in Reads : s # r => ~read'[s].wanted
           /\ \A r \in Reads : read'[r].at # "got" /\ (read'[r].at = "none" => ~read'[r].wanted)
<1>1. PICK r \in Reads :
          /\ read[r].at = "none"
          /\ read' = [x \in Reads |-> IF x = r THEN Asked(by) ELSE Unwanted(read[x])]
  BY DEF BeginsRead
<1>2. \A x \in Reads : read[x] \in ReadStates
  BY DEF DashTypeOK
<1>3. \A x \in Reads \ {r} :
          /\ read'[x] \in ReadStates /\ read'[x].at # "got" /\ ~read'[x].wanted
  <2> SUFFICES ASSUME NEW x \in Reads \ {r}
               PROVE  /\ Unwanted(read[x]) \in ReadStates
                      /\ Unwanted(read[x]).at # "got" /\ ~Unwanted(read[x]).wanted
    BY <1>1
  <2>1. QED
    BY <1>2, UnwantedType
<1>4. /\ read'[r] = Asked(by) /\ Asked(by) \in ReadStates
      /\ Asked(by).at = "asked" /\ Asked(by).by = by
  BY <1>1, AskedType
<1>5. QED
  BY <1>1, <1>3, <1>4

LEMMA DashTypeInit == DashInit => DashTypeOK
<1> SUFFICES ASSUME DashInit PROVE DashTypeOK
  OBVIOUS
<1>1. shown \in [Cards -> Rows]
  BY RecordTypes DEF DashInit, Rows
<1>2. read \in [Reads -> ReadStates]
  BY RecordTypes, AskedType DEF DashInit
<1>3. wrote \in [Cards \X Fields -> 0..MaxEdits] /\ Len(edits) <= MaxEdits
  BY DashboardAssumption DEF DashInit
<1>4. usage \in [Usages -> Cards \cup {NoCard}] /\ inFlight \in SUBSET Cards
  BY DEF DashInit
<1>5. edits \in Seq(Edits) /\ failed \in Seq(1..MaxEdits) /\ queue \in Seq(Saves)
  BY DEF DashInit
<1>6. QED
  BY <1>1, <1>2, <1>3, <1>4, <1>5, RecordTypes DEF DashInit, DashTypeOK

(* What the server writes keeps its type. *)
LEMMA WritesType ==
    ASSUME DashTypeOK, NEW i \in DOMAIN edits, i \in 1..MaxEdits,
           UNCHANGED <<vault, wrote>> \/ Writes(i)
    PROVE  vault' \in Vaults /\ wrote' \in [Cards \X Fields -> 0..MaxEdits]
<1>1. CASE UNCHANGED <<vault, wrote>>
  BY <1>1 DEF DashTypeOK
<1>2. CASE Writes(i)
  <2>1. edits[i] \in Edits /\ Key(i) \in Cards \X Fields
    BY KeyFacts DEF DashTypeOK
  <2>2. vault' \in Vaults
    BY <1>2, <2>1, AfterEditType DEF Writes, Vaults, DashTypeOK
  <2>3. wrote' \in [Cards \X Fields -> 0..MaxEdits]
    BY <1>2, <2>1 DEF Writes, Key, DashTypeOK
  <2>4. QED
    BY <2>2, <2>3
<1>3. QED
  BY <1>1, <1>2

LEMMA DashTypeStep ==
    ASSUME DashTypeOK, LineInv, WroteInv, ReadInv, [DashNext]_dashVars
    PROVE  DashTypeOK'
<1> USE DEF DashTypeOK, putVars
<1>1. ASSUME NEW a \in Cards, Rename(a) PROVE DashTypeOK'
  BY <1>1, EditOf, EditMade, TouchedFacts DEF Editing, Rename, useVars
<1>2. ASSUME NEW a \in Cards, RemoveCard(a) PROVE DashTypeOK'
  BY <1>2, EditOf, EditMade, TouchedFacts DEF Editing, RemoveCard
<1>3. ASSUME NEW u \in Usages, ProfileChanged(u) PROVE DashTypeOK'
  <2>1. inFlight' \in SUBSET Cards /\ usage' \in [Usages -> Cards \cup {NoCard}]
    BY <1>3 DEF ProfileChanged, UsageEnds
  <2>2. QED
    BY <1>3, <2>1, EditOf, EditMade, TouchedFacts DEF Editing, ProfileChanged
<1>4. ASSUME NEW a \in Cards, Elsewhere(a) PROVE DashTypeOK'
  <2>1. PICK row : /\ row \in {Connected, vault.rows[a], [vault.rows[a] EXCEPT !.gone = TRUE]}
                                \cup {[vault.rows[a] EXCEPT !.label = n] : n \in Names}
                   /\ vault' = [rows |-> [vault.rows EXCEPT ![a] = row],
                                elsewhere |-> vault.elsewhere + 1]
    BY <1>4 DEF Elsewhere
  <2>2. vault.rows \in [Cards -> Rows] /\ vault.elsewhere \in 0..MaxElsewhere
    BY DEF Vaults
  <2>3. row \in Rows
    <3>1. vault.rows[a] \in Rows
      BY <2>2
    <3>2. /\ [vault.rows[a] EXCEPT !.gone = TRUE] \in Rows
          /\ \A n \in Names : [vault.rows[a] EXCEPT !.label = n] \in Rows
      BY <3>1 DEF Rows
    <3>3. QED
      BY <2>1, <3>1, <3>2, RecordTypes
  <2>4. vault.elsewhere + 1 \in 0..MaxElsewhere
    BY <1>4, <2>2, DashboardAssumption DEF Elsewhere
  <2>5. vault' \in Vaults
    BY <2>1, <2>2, <2>3, <2>4 DEF Vaults
  <2>6. QED
    BY <1>4, <2>5 DEF Elsewhere, useVars
<1>5. ASSUME RetrySave PROVE DashTypeOK'
  <2>1. queue' \in Seq(Saves)
    BY <1>5, DashboardAssumption DEF RetrySave, Saves
  <2>2. QED
    BY <1>5, <2>1, TouchedFacts DEF RetrySave, useVars
<1>6. ASSUME BeginSave PROVE DashTypeOK'
  <2>1. queue # <<>> /\ Head(queue) \in Saves /\ Tail(queue) \in Seq(Saves)
    BY <1>6, InHead DEF BeginSave
  <2>2. Head(queue) # 0 => Append(failed, Head(queue)) \in Seq(1..MaxEdits)
    BY <2>1, InAppend DEF Saves
  <2>3. 0 \in 0..MaxReplays /\ <<>> \in Seq(1..MaxEdits)
    BY DashboardAssumption
  <2>4. save' \in SaveStates
    BY <1>6, <2>2, <2>3 DEF BeginSave, SaveStates
  <2>5. QED
    BY <1>6, <2>1, <2>3, <2>4 DEF BeginSave, useVars
<1>7. ASSUME Put PROVE DashTypeOK'
  <2> DEFINE i == Head(save.todo)
             put == [edit |-> i, base |-> save.base]
  <2>1. i \in DOMAIN edits /\ i \in 1..MaxEdits
    BY <1>7, HeadFacts DEF Put
  <2>2. adrift' \in SUBSET Puts
    <3>1. put \in Puts
      BY <2>1 DEF Puts, SaveStates
    <3>2. adrift' = adrift \/ adrift' = adrift \cup {put}
      BY <1>7 DEF Put
    <3>3. QED
      BY <3>1, <3>2
  <2>3. vault' \in Vaults /\ wrote' \in [Cards \X Fields -> 0..MaxEdits]
    <3>1. UNCHANGED <<vault, wrote>> \/ Writes(i)
      BY <1>7 DEF Put
    <3>2. QED
      BY <2>1, <3>1, WritesType
  <2>4. save' \in SaveStates
    BY <1>7, <2>3 DEF Put, SaveStates
  <2>5. QED
    BY <1>7, <2>2, <2>3, <2>4 DEF Put, useVars
<1>8. ASSUME PutDone PROVE DashTypeOK'
  <2>1. save.todo # <<>> /\ save.todo \in Seq(1..MaxEdits) /\ Tail(save.todo) \in Seq(1..MaxEdits)
    <3>1. save.todo # <<>> /\ save.todo \in Seq(1..MaxEdits)
      BY <1>8 DEF PutDone, LineInv, SaveStates
    <3>2. QED
      BY <3>1, InHead
  <2>2. save' \in SaveStates /\ known' \in Vaults
    <3>1. 0 \in 0..MaxReplays
      BY DashboardAssumption
    <3>2. known' \in Vaults
      BY <1>8 DEF PutDone, SaveStates
    <3>3. save' \in SaveStates
      BY <1>8, <2>1, <3>1 DEF PutDone, SaveStates
    <3>4. QED
      BY <3>2, <3>3
  <2>3. QED
    BY <1>8, <2>2 DEF PutDone, useVars
<1>9. ASSUME PutConflicts PROVE DashTypeOK'
  <2>1. save.tries \in 0..MaxReplays /\ save.tries + 1 \in 0..MaxReplays
    BY <1>9, DashboardAssumption DEF PutConflicts, Replays, SaveStates
  <2>2. save' \in SaveStates
    BY <1>9, <2>1 DEF PutConflicts, SaveStates
  <2>3. QED
    BY <1>9, <2>2 DEF PutConflicts, useVars
<1>10. ASSUME SaveFails PROVE DashTypeOK'
  <2>1. failed' \in Seq(1..MaxEdits)
    BY <1>10 DEF SaveFails, Retained, SaveStates
  <2>2. QED
    BY <1>10, <2>1, RecordTypes DEF SaveFails, useVars
<1>11. ASSUME SaveEnds PROVE DashTypeOK'
  <2>1. save.base.rows \in [Cards -> Rows]
    BY DEF SaveStates, Vaults
  <2>2. QED
    BY <1>11, <2>1, RecordTypes DEF SaveEnds, useVars
<1>12. ASSUME LoadVault \/ ReloadVault \/ Focus PROVE DashTypeOK'
  <2>1. read' \in [Reads -> ReadStates]
    BY <1>12, ReadBegun DEF LoadVault, ReloadVault, Focus
  <2>2. QED
    BY <1>12, <2>1 DEF LoadVault, ReloadVault, Focus, saveVars, useVars
<1>13. ASSUME NEW r \in Reads, ServeRead(r) PROVE DashTypeOK'
  <2>1. [read[r] EXCEPT !.at = "got", !.got = vault] \in ReadStates
    BY DEF ReadStates
  <2>2. QED
    BY <1>13, <2>1 DEF ServeRead, saveVars, useVars
<1>14. ASSUME NEW r \in Reads, ReadDone(r) PROVE DashTypeOK'
  <2>1. read[r].got \in Vaults /\ read[r].got.rows \in [Cards -> Rows]
    BY DEF ReadStates, Vaults
  <2>2. read' \in [Reads -> ReadStates]
    BY <1>14, RecordTypes DEF ReadDone
  <2>3. QED
    BY <1>14, <2>1, <2>2 DEF ReadDone, useVars
<1>15. ASSUME NEW r \in Reads, ReadFails(r) PROVE DashTypeOK'
  BY <1>15, RecordTypes DEF ReadFails, saveVars, useVars
<1>16. ASSUME NEW u \in Usages, NEW a \in Cards, RefreshCard(u, a) PROVE DashTypeOK'
  BY <1>16 DEF RefreshCard, saveVars
<1>17. ASSUME NEW u \in Usages, UsageAnswered(u) PROVE DashTypeOK'
  BY <1>17 DEF UsageAnswered, UsageEnds, saveVars
<1>18. ASSUME NEW put \in adrift, LatePut(put) PROVE DashTypeOK'
  <2>1. put.edit \in DOMAIN edits /\ put.edit \in 1..MaxEdits
    BY DEF WroteInv, Puts
  <2>2. adrift' \in SUBSET Puts
    BY <1>18 DEF LatePut
  <2>3. UNCHANGED <<vault, wrote, overtaken>> \/ Writes(put.edit)
    BY <1>18 DEF LatePut
  <2>4. vault' \in Vaults /\ wrote' \in [Cards \X Fields -> 0..MaxEdits]
    BY <2>1, <2>3, WritesType
  <2>5. overtaken' \in SUBSET (1..MaxEdits)
    <3> DEFINE k == <<edits[put.edit].id, edits[put.edit].field>>
    <3>1. wrote[k] \in 0..MaxEdits
      BY <2>1, KeyFacts DEF Key
    <3>2. \A i \in {wrote[k]} : i > put.edit => i \in 1..MaxEdits
      BY <2>1, <3>1
    <3>3. overtaken' = overtaken \/ overtaken' = overtaken \cup {i \in {wrote[k]} : i > put.edit}
      BY <1>18 DEF LatePut
    <3>4. QED
      BY <3>2, <3>3
  <2>6. QED
    BY <1>18, <2>2, <2>4, <2>5 DEF LatePut, useVars
<1>19. CASE UNCHANGED dashVars
  BY <1>19 DEF dashVars
<1>20. QED
  BY <1>1, <1>2, <1>3, <1>4, <1>5, <1>6, <1>7, <1>8, <1>9, <1>10, <1>11, <1>12, <1>13,
     <1>14, <1>15, <1>16, <1>17, <1>18, <1>19 DEF DashNext

-----------------------------------------------------------------------------
(* No edit is lost and no older one wins. *)

LastKept ==
    \A i \in DOMAIN edits : LastOfKey(i) => i \in Pending \/ wrote[Key(i)] = i \/ i \in overtaken
SaveInv == LineInv /\ WroteInv /\ LastKept

LEMMA SameSaves ==
    ASSUME SaveInv, UNCHANGED <<edits, putVars, failed, queue, save>>
    PROVE  SaveInv' /\ Pending' = Pending
BY DEF putVars, SaveInv, LineInv, WroteInv, LastKept, Pending, Key, LastOfKey

(* The rest stays the same when nothing is written and nothing less waits. *)
LEMMA SamePending ==
    ASSUME SaveInv, LineInv', UNCHANGED <<edits, putVars>>, Pending' = Pending,
           ~(save'.at = "answer" /\ save'.answer = "ok")
    PROVE  SaveInv'
BY DEF putVars, SaveInv, WroteInv, LastKept, Key, LastOfKey

(* A new edit is the last of its kind, and waits. *)
LEMMA EditSaves ==
    ASSUME DashTypeOK, SaveInv, NEW e \in Edits, MakesEdit(e),
           UNCHANGED <<putVars, failed, save>>
    PROVE  SaveInv' /\ Pending' = Pending \cup {Len(edits')}
<1> USE DEF putVars
<1> DEFINE n == Len(edits) + 1
<1>1. /\ edits' = Append(edits, e) /\ edits \in Seq(Edits) /\ edits' \in Seq(Edits)
      /\ Len(edits) \in Nat /\ Len(edits') = n /\ queue' = Append(queue, n) /\ n \in Saves
      /\ In(queue') = In(queue) \cup {n} /\ queue \in Seq(Saves)
  BY EditMade DEF DashTypeOK
<1>2. /\ DOMAIN edits = 1..Len(edits) /\ DOMAIN edits' = DOMAIN edits \cup {n}
      /\ n \notin DOMAIN edits /\ n > 0
      /\ \A i \in DOMAIN edits : edits'[i] = edits[i] /\ i \in Nat /\ i < n
  BY <1>1
<1>3. edits'[n] = e
  BY <1>1
<1>4. Pending' = Pending \cup {n}
  BY <1>1, <1>2 DEF Pending
<1>5. \A i \in DOMAIN edits : Key(i)' = Key(i)
  BY <1>2 DEF Key
<1>6. <<edits'[n].id, edits'[n].field>> \in Cards \X Fields
  BY <1>3, EditFacts
<1>7. LineInv'
  <2>1. \A i \in In(queue) : i < n
    BY <1>1, <1>2 DEF SaveInv, LineInv, Pending
  <2>2. Ascends(queue')
    BY <1>1, <2>1, AppendAscends DEF SaveInv, LineInv
  <2>3. \A i \in In(failed) \cup In(save.todo) : i < n
    BY <1>2 DEF SaveInv, LineInv, Pending
  <2>4. QED
    BY <1>1, <1>2, <1>4, <2>2, <2>3 DEF SaveInv, LineInv
<1>8. WroteInv'
  <2>1. \A k \in Cards \X Fields : wrote[k] <= n /\ wrote[k] \in Nat
    BY <1>1 DEF SaveInv, WroteInv, DashTypeOK
  <2>2. wrote'[<<edits'[n].id, edits'[n].field>>] <= n
    BY <1>6, <2>1
  <2>3. \A i \in Pending : i \in DOMAIN edits /\ wrote'[Key(i)'] <= i
    BY <1>5 DEF SaveInv, LineInv, WroteInv
  <2>4. save.at = "answer" /\ save.answer = "ok" => Head(save.todo) \in DOMAIN edits
    BY HeadFacts DEF SaveInv, LineInv
  <2>5. (save.at = "answer" /\ save.answer = "ok" =>
            wrote[Key(Head(save.todo))] = Head(save.todo) \/ Head(save.todo) \in overtaken)'
    BY <1>2, <2>4 DEF SaveInv, WroteInv, Key
  <2>6. \A i \in Pending' : wrote'[Key(i)'] <= i
    <3>1. ASSUME NEW i, i = n PROVE wrote'[Key(i)'] <= i
      BY <2>2, <3>1 DEF Key
    <3>2. QED
      BY <1>4, <2>3, <3>1
  <2>7. \A put \in adrift' : put.edit \in DOMAIN edits' /\ \A i \in Pending' : put.edit <= i
    <3> SUFFICES ASSUME NEW put \in adrift
                 PROVE  put.edit \in DOMAIN edits' /\ \A i \in Pending' : put.edit <= i
      OBVIOUS
    <3>1. put.edit \in DOMAIN edits /\ \A i \in Pending : put.edit <= i
      BY DEF SaveInv, WroteInv
    <3>2. put.edit <= n
      BY <1>2, <3>1
    <3>3. QED
      BY <1>2, <1>4, <3>1, <3>2
  <2>8. QED
    BY <1>1, <2>1, <2>5, <2>6, <2>7 DEF WroteInv
<1>9. LastKept'
  <2> SUFFICES ASSUME NEW i \in DOMAIN edits', LastOfKey(i)'
               PROVE  i \in Pending' \/ wrote'[Key(i)'] = i \/ i \in overtaken'
    BY DEF LastKept
  <2>1. CASE i = n
    BY <1>4, <2>1
  <2>2. CASE i \in DOMAIN edits
    <3>1. LastOfKey(i)
      BY <1>2, <1>5, <2>2 DEF LastOfKey
    <3>2. QED
      BY <1>4, <1>5, <2>2, <3>1 DEF SaveInv, LastKept
  <2>3. QED
    BY <1>2, <2>1, <2>2
<1>10. QED
  BY <1>1, <1>4, <1>7, <1>8, <1>9 DEF SaveInv

(* A save begins with what failed before and the edit it brings. *)
LEMMA BeginSaves ==
    ASSUME DashTypeOK, SaveInv, BeginSave
    PROVE  SaveInv' /\ Pending' = Pending
<1> DEFINE h == Head(queue)
           todo == IF h = 0 THEN failed ELSE Append(failed, h)
<1>1. /\ queue \in Seq(Saves) /\ queue # <<>> /\ failed \in Seq(1..MaxEdits)
      /\ save.at = "idle" /\ save.todo = <<>>
  BY DEF BeginSave, DashTypeOK, SaveInv, LineInv
<1>2. /\ h \in Saves /\ h \in In(queue) /\ Tail(queue) \in Seq(Saves)
      /\ In(queue) = In(Tail(queue)) \cup {h}
  BY <1>1, InHead
<1>3. Saves \in SUBSET Nat /\ (1..MaxEdits) \subseteq Nat
  BY DashboardAssumption DEF Saves
<1>4. Ascends(Tail(queue)) /\ \A x \in In(Tail(queue)) \ {0} : h < x
  BY <1>1, <1>3, TailAscends DEF SaveInv, LineInv
<1>5. save'.todo = todo /\ save'.at = "send" /\ failed' = <<>> /\ queue' = Tail(queue)
      /\ UNCHANGED <<edits, putVars>>
  BY DEF BeginSave
<1>6. h # 0 => /\ todo \in Seq(1..MaxEdits) /\ In(todo) = In(failed) \cup {h}
               /\ Ascends(todo)
  <2> SUFFICES ASSUME h # 0
               PROVE  LET t == Append(failed, h)
                      IN  t \in Seq(1..MaxEdits) /\ In(t) = In(failed) \cup {h} /\ Ascends(t)
    OBVIOUS
  <2> HIDE DEF h
  <2>1. h \in 1..MaxEdits /\ \A y \in In(failed) : y < h
    BY <1>2, <1>3 DEF SaveInv, LineInv, Saves
  <2>2. Ascends(failed)
    BY DEF SaveInv, LineInv
  <2>3. Ascends(Append(failed, h))
    BY <1>1, <2>1, <2>2, AppendAscends
  <2>4. /\ Append(failed, h) \in Seq(1..MaxEdits)
        /\ In(Append(failed, h)) = In(failed) \cup {h}
    <3> DEFINE Numbers == 1..MaxEdits
    <3>1. failed \in Seq(Numbers) /\ h \in Numbers
      BY <1>1, <2>1
    <3> HIDE DEF Numbers
    <3>2. Append(failed, h) \in Seq(Numbers) /\ In(Append(failed, h)) = In(failed) \cup {h}
      BY <3>1, InAppend
    <3>3. QED
      BY <3>2 DEF Numbers
  <2>5. QED
    BY <2>3, <2>4
<1>7. h = 0 => todo = failed /\ Ascends(todo)
  BY DEF SaveInv, LineInv
<1>8. In(todo) = In(failed) \cup ({h} \ {0}) /\ Ascends(todo)
  BY <1>6, <1>7
<1>9. Pending = (In(failed) \cup In(queue)) \ {0}
  BY <1>1, InEmpty DEF Pending
<1>10. Pending' = Pending
  BY <1>2, <1>5, <1>8, <1>9, InEmpty DEF Pending
<1>11. \A i \in In(todo) : \A j \in In(Tail(queue)) \ {0} : i < j
  BY <1>2, <1>4, <1>8 DEF SaveInv, LineInv
<1> HIDE DEF h, todo
<1>12. LineInv'
  BY <1>4, <1>5, <1>8, <1>10, <1>11, InEmpty DEF SaveInv, LineInv
<1>13. QED
  BY <1>5, <1>10, <1>12, SamePending

(* What a write of edit i does to what was written: as long as nothing older
   waits, nothing newer than what waits is written. *)
Wrote(i) ==
    /\ wrote'[Key(i)] = i
    /\ \A k \in Cards \X Fields : k # Key(i) => wrote'[k] = wrote[k]
    /\ \A k \in Cards \X Fields : wrote'[k] <= Len(edits')
    /\ \A j \in Pending' : wrote'[Key(j)'] <= j

LEMMA WritesWrote ==
    ASSUME DashTypeOK, WroteInv, Pending \subseteq DOMAIN edits, NEW i \in DOMAIN edits,
           Writes(i), \A j \in Pending : i <= j,
           UNCHANGED <<edits, failed, queue>>, save'.todo = save.todo
    PROVE  Wrote(i)
<1>1. Pending' = Pending
  BY DEF Pending
<1>2. \A j \in DOMAIN edits : Key(j) \in Cards \X Fields /\ Key(j)' = Key(j)
  BY KeyFacts DEF Key
<1>3. /\ wrote'[Key(i)] = i
      /\ \A k \in Cards \X Fields : k # Key(i) => wrote'[k] = wrote[k]
  BY <1>2 DEF Writes, Key, DashTypeOK
<1>4. i <= Len(edits)
  BY DEF DashTypeOK
<1>5. QED
  BY <1>1, <1>2, <1>3, <1>4 DEF Wrote, WroteInv

(* The edit that is written is the oldest of those that wait, and so the
   newest that was written. *)
LEMMA PutSaves ==
    ASSUME DashTypeOK, SaveInv, Put
    PROVE  SaveInv' /\ Pending' = Pending
<1> DEFINE i == Head(save.todo)
<1>1. /\ save.todo # <<>> /\ save'.todo = save.todo
      /\ UNCHANGED <<edits, overtaken, failed, queue>>
      /\ save'.at = "answer" /\ save.at = "send"
  BY DEF Put, DashTypeOK, SaveStates
<1>2. /\ save.todo \in Seq(1..MaxEdits) /\ i \in Pending /\ i \in DOMAIN edits
      /\ i \in 1..MaxEdits
  BY <1>1, HeadFacts DEF SaveInv
<1>3. Pending' = Pending /\ LineInv'
  BY <1>1 DEF Pending, SaveInv, LineInv
<1>4. \A j \in Pending : i <= j
  <2>1. \A j \in In(Tail(save.todo)) \ {0} : i < j
    <3>1. Ascends(save.todo) /\ 1..MaxEdits \in SUBSET Nat
      BY DEF SaveInv, LineInv
    <3>2. QED
      BY <1>1, <1>2, <3>1, TailAscends
  <2>2. In(save.todo) = In(Tail(save.todo)) \cup {i} /\ i \in In(save.todo)
    BY <1>1, <1>2, InHead
  <2>3. failed = <<>>
    BY <1>1 DEF SaveInv, LineInv
  <2>4. \A j \in In(queue) \ {0} : i < j
    BY <2>2 DEF SaveInv, LineInv
  <2>5. \A j \in Pending : j = i \/ i < j
    BY <2>1, <2>2, <2>3, <2>4, InEmpty DEF Pending
  <2>6. Pending \in SUBSET Nat /\ i \in Nat
    BY <1>2 DEF SaveInv, LineInv, DashTypeOK
  <2>7. QED
    BY <2>5, <2>6
<1>5. \A put \in adrift' : put.edit \in DOMAIN edits' /\ \A j \in Pending' : put.edit <= j
  <2>1. adrift' = adrift \/ adrift' = adrift \cup {[edit |-> i, base |-> save.base]}
    BY DEF Put
  <2>2. QED
    BY <1>1, <1>2, <1>3, <1>4, <2>1 DEF SaveInv, WroteInv
<1>6. CASE UNCHANGED wrote /\ save'.answer # "ok"
  BY <1>1, <1>3, <1>5, <1>6 DEF SaveInv, WroteInv, LastKept, Key, LastOfKey
<1>7. CASE Writes(i)
  <2>1. i \in Nat /\ \A j \in DOMAIN edits : LastOfKey(j) /\ Key(j) = Key(i) => i <= j
    BY <1>2 DEF LastOfKey
  <2>2. \A j \in DOMAIN edits : LastOfKey(j) /\ wrote[Key(j)] = j /\ Key(j) = Key(i) => j = i
    <3>1. wrote[Key(i)] <= i
      BY <1>2 DEF SaveInv, WroteInv
    <3>2. DOMAIN edits \in SUBSET Nat
      BY DEF DashTypeOK
    <3>3. QED
      BY <2>1, <3>1, <3>2
  <2>3. Wrote(i)
    BY <1>1, <1>2, <1>4, <1>7, WritesWrote DEF SaveInv, LineInv
  <2>4. WroteInv'
    <3>1. (wrote[Key(Head(save.todo))] = Head(save.todo))'
      BY <1>1, <1>2, <2>3 DEF Key, Wrote
    <3>2. QED
      BY <1>3, <1>5, <2>3, <3>1 DEF Wrote, WroteInv
  <2>5. LastKept'
    <3> SUFFICES ASSUME NEW j \in DOMAIN edits, LastOfKey(j)'
                 PROVE  j \in Pending' \/ wrote'[Key(j)'] = j \/ j \in overtaken'
      BY <1>1 DEF LastKept
    <3>1. LastOfKey(j) /\ Key(j)' = Key(j)
      BY <1>1 DEF LastOfKey, Key
    <3>2. j \in Pending \/ wrote[Key(j)] = j \/ j \in overtaken
      BY <3>1 DEF SaveInv, LastKept
    <3>3. CASE Key(j) = Key(i)
      BY <1>1, <1>2, <1>3, <2>2, <3>1, <3>2, <3>3
    <3>4. CASE Key(j) # Key(i)
      BY <1>1, <1>3, <2>3, <3>1, <3>2, <3>4, KeyFacts DEF Wrote
    <3>5. QED
      BY <3>3, <3>4
  <2>6. QED
    BY <1>3, <2>4, <2>5 DEF SaveInv
<1>8. QED
  <2>1. (UNCHANGED wrote /\ save'.answer # "ok") \/ Writes(i)
    BY DEF Put, DashTypeOK, SaveStates
  <2>2. QED
    BY <1>6, <1>7, <2>1

(* An edit that was given up is not newer than what waits; of its kind, the
   one written last before it is the last written or overtaken. *)
LEMMA LateSaves ==
    ASSUME DashTypeOK, SaveInv, NEW put \in adrift, LatePut(put)
    PROVE  SaveInv' /\ Pending' = Pending
<1> DEFINE i == put.edit
<1>1. UNCHANGED <<edits, failed, queue, save>> /\ adrift' \subseteq adrift
  BY DEF LatePut
<1>2. /\ i \in DOMAIN edits /\ i \in 1..MaxEdits
      /\ \A j \in Pending : i <= j
  BY DEF SaveInv, WroteInv, DashTypeOK, Puts
<1>3. Pending' = Pending /\ LineInv'
  BY <1>1 DEF Pending, SaveInv, LineInv
<1>4. CASE UNCHANGED <<wrote, overtaken>>
  BY <1>1, <1>3, <1>4 DEF SaveInv, WroteInv, LastKept, Key, LastOfKey
<1>5. CASE /\ Writes(i)
           /\ overtaken' = overtaken \cup {j \in {wrote[Key(i)]} : j > i}
  <2> DEFINE Stands(j) == wrote[Key(j)] = j \/ j \in overtaken
  <2>1. Wrote(i)
    BY <1>1, <1>2, <1>5, WritesWrote DEF SaveInv, LineInv
  <2>2. \A j \in DOMAIN edits : Key(j)' = Key(j) /\ Key(j) \in Cards \X Fields /\ j \in Nat
    BY <1>1, KeyFacts DEF Key, DashTypeOK
  <2>3. \A j \in DOMAIN edits : i <= j /\ Stands(j) => Stands(j)'
    <3> SUFFICES ASSUME NEW j \in DOMAIN edits, i <= j, wrote[Key(j)] = j
                 PROVE  wrote'[Key(j)] = j \/ j \in overtaken'
      BY <1>5, <2>2
    <3>1. CASE Key(j) # Key(i)
      BY <2>1, <2>2, <3>1 DEF Wrote
    <3>2. CASE Key(j) = Key(i)
      <4>1. j = i \/ j > i
        BY <1>2, <2>2
      <4>2. QED
        BY <1>2, <1>5, <2>1, <2>2, <3>2, <4>1 DEF Wrote
    <3>3. QED
      BY <3>1, <3>2
  <2>4. \A j \in DOMAIN edits : Key(j) # Key(i) /\ Stands(j) => Stands(j)'
    BY <1>5, <2>1, <2>2 DEF Wrote
  <2>5. WroteInv'
    <3>1. save.at = "answer" /\ save.answer = "ok" =>
            Head(save.todo) \in Pending /\ Head(save.todo) \in DOMAIN edits
      BY HeadFacts DEF SaveInv, LineInv
    <3>2. (save.at = "answer" /\ save.answer = "ok" => Stands(Head(save.todo)))'
      BY <1>1, <1>2, <2>3, <3>1 DEF SaveInv, WroteInv
    <3>3. QED
      BY <1>1, <1>3, <2>1, <3>2 DEF Wrote, SaveInv, WroteInv
  <2>6. LastKept'
    <3> SUFFICES ASSUME NEW j \in DOMAIN edits, LastOfKey(j)' PROVE j \in Pending' \/ Stands(j)'
      BY <1>1 DEF LastKept
    <3>1. LastOfKey(j)
      BY <1>1 DEF LastOfKey, Key
    <3>2. Key(j) = Key(i) => i <= j
      BY <1>2, <3>1 DEF LastOfKey
    <3>3. j \in Pending \/ Stands(j)
      BY <3>1 DEF SaveInv, LastKept
    <3> HIDE DEF Stands
    <3>4. QED
      BY <1>3, <2>3, <2>4, <3>2, <3>3
  <2>7. QED
    BY <1>3, <2>5, <2>6 DEF SaveInv
<1>6. QED
  BY <1>4, <1>5 DEF LatePut, Key

(* A written edit waits no more. *)
LEMMA DoneSaves ==
    ASSUME DashTypeOK, SaveInv, PutDone
    PROVE  SaveInv' /\ Pending' \subseteq Pending
<1> DEFINE h == Head(save.todo)
<1>1. /\ save.at = "answer" /\ save.answer = "ok" /\ save.todo # <<>>
      /\ save'.at = "send" /\ save'.todo = Tail(save.todo)
      /\ UNCHANGED <<edits, putVars, failed, queue>>
  BY DEF PutDone, DashTypeOK, SaveStates, SaveInv, LineInv
<1>2. /\ save.todo \in Seq(1..MaxEdits) /\ h \in DOMAIN edits
      /\ In(save.todo) = In(Tail(save.todo)) \cup {h}
  BY <1>1, HeadFacts, InHead DEF SaveInv
<1>3. Ascends(Tail(save.todo))
  <2>1. Ascends(save.todo) /\ 1..MaxEdits \in SUBSET Nat
    BY DEF SaveInv, LineInv
  <2>2. QED
    BY <1>1, <1>2, <2>1, TailAscends
<1>4. Pending' \subseteq Pending /\ Pending \subseteq Pending' \cup {h}
  BY <1>1, <1>2 DEF Pending
<1>5. wrote[Key(h)] = h \/ h \in overtaken
  BY <1>1 DEF SaveInv, WroteInv
<1> HIDE DEF h
<1>6. LineInv'
  BY <1>1, <1>2, <1>3, <1>4 DEF SaveInv, LineInv
<1>7. WroteInv'
  BY <1>1, <1>4 DEF putVars, SaveInv, WroteInv, Key
<1>8. LastKept'
  BY <1>1, <1>4, <1>5 DEF putVars, SaveInv, LastKept, Key, LastOfKey
<1>9. QED
  BY <1>4, <1>6, <1>7, <1>8 DEF SaveInv

(* A save that fails leaves its edits to the next one. *)
LEMMA FailSaves ==
    ASSUME DashTypeOK, SaveInv, SaveFails
    PROVE  SaveInv' /\ Pending' = Pending
<1>1. /\ save.todo \in Seq(1..MaxEdits) /\ failed = <<>>
      /\ failed' = save.todo \o failed
      /\ save'.at = "idle" /\ save'.todo = <<>> /\ UNCHANGED <<edits, putVars, queue>>
  BY RecordTypes DEF SaveFails, Retained, DashTypeOK, SaveStates, SaveInv, LineInv
<1>2. failed' = save.todo
  BY <1>1
<1>3. Pending' = Pending
  BY <1>1, <1>2, InEmpty DEF Pending
<1>4. LineInv'
  BY <1>1, <1>2, <1>3, InEmpty DEF SaveInv, LineInv
<1>5. QED
  BY <1>1, <1>3, <1>4, SamePending

(* A retry, and a save that is over, bring nothing. *)
LEMMA OtherSaves ==
    ASSUME DashTypeOK, SaveInv, RetrySave \/ SaveEnds \/ PutConflicts
    PROVE  SaveInv' /\ Pending' = Pending
<1>1. CASE RetrySave
  <2>1. /\ queue \in Seq(Saves) /\ 0 \in Saves /\ queue' = Append(queue, 0)
        /\ UNCHANGED <<edits, putVars, failed, save>>
    BY <1>1, DashboardAssumption DEF RetrySave, Saves, DashTypeOK
  <2>2. In(queue') = In(queue) \cup {0} /\ Ascends(queue')
    BY <2>1, InAppend, AppendAscends DEF SaveInv, LineInv
  <2>3. Pending' = Pending
    BY <2>1, <2>2 DEF Pending
  <2>4. LineInv'
    BY <2>1, <2>2, <2>3 DEF SaveInv, LineInv
  <2>5. QED
    BY <2>1, <2>3, <2>4 DEF putVars, SaveInv, WroteInv, LastKept, Key, LastOfKey
<1>2. CASE SaveEnds
  <2>1. /\ save'.at = "idle" /\ save'.todo = save.todo
        /\ UNCHANGED <<edits, putVars, failed, queue>>
    BY <1>2, RecordTypes DEF SaveEnds
  <2>2. Pending' = Pending
    BY <2>1 DEF Pending
  <2>3. LineInv'
    BY <1>2, <2>1, <2>2 DEF SaveEnds, SaveInv, LineInv
  <2>4. QED
    BY <2>1, <2>2, <2>3, SamePending
<1>3. CASE PutConflicts
  <2>1. /\ save'.at = "send" /\ save'.todo = save.todo /\ save.at = "answer"
        /\ UNCHANGED <<edits, putVars, failed, queue>>
    BY <1>3 DEF PutConflicts, DashTypeOK, SaveStates
  <2>2. Pending' = Pending
    BY <2>1 DEF Pending
  <2>3. LineInv'
    BY <2>1, <2>2 DEF SaveInv, LineInv
  <2>4. QED
    BY <2>1, <2>2, <2>3, SamePending
<1>4. QED
  BY <1>1, <1>2, <1>3
LEMMA SaveStep ==
    ASSUME DashTypeOK, SaveInv, [DashNext]_dashVars
    PROVE  SaveInv' /\ (Editing \/ Pending' \subseteq Pending)
<1>1. CASE Editing
  BY <1>1, EditOf, EditSaves
<1>2. CASE BeginSave
  BY <1>2, BeginSaves
<1>3. CASE Put
  BY <1>3, PutSaves
<1>4. CASE PutDone
  BY <1>4, DoneSaves
<1>5. CASE SaveFails
  BY <1>5, FailSaves
<1>6. CASE RetrySave \/ SaveEnds \/ PutConflicts
  BY <1>6, OtherSaves
<1>7. CASE UNCHANGED <<edits, putVars, failed, queue, save>>
  BY <1>7, SameSaves
<1>8. ASSUME NEW a \in Cards, Elsewhere(a)
      PROVE  SaveInv' /\ Pending' = Pending
  BY <1>8 DEF Elsewhere, SaveInv, LineInv, WroteInv, LastKept, Pending, Key, LastOfKey
<1>9. ASSUME NEW put \in adrift, LatePut(put)
      PROVE  SaveInv' /\ Pending' = Pending
  BY <1>9, LateSaves
<1>10. QED
  <2>1. ASSUME LoadVault \/ ReloadVault \/ Focus
        PROVE  UNCHANGED <<edits, putVars, failed, queue, save>>
    BY <2>1 DEF LoadVault, ReloadVault, Focus, saveVars
  <2>2. ASSUME NEW r \in Reads, ServeRead(r) \/ ReadDone(r) \/ ReadFails(r)
        PROVE  UNCHANGED <<edits, putVars, failed, queue, save>>
    BY <2>2 DEF ServeRead, ReadDone, ReadFails, saveVars
  <2>3. ASSUME NEW u \in Usages, NEW a \in Cards, RefreshCard(u, a)
        PROVE  UNCHANGED <<edits, putVars, failed, queue, save>>
    BY <2>3 DEF RefreshCard, saveVars
  <2>4. ASSUME NEW u \in Usages, UsageAnswered(u)
        PROVE  UNCHANGED <<edits, putVars, failed, queue, save>>
    BY <2>4 DEF UsageAnswered, saveVars
  <2>5. UNCHANGED dashVars => UNCHANGED <<edits, putVars, failed, queue, save>>
    BY DEF dashVars, putVars
  <2>6. QED
    BY <1>1, <1>2, <1>3, <1>4, <1>5, <1>6, <1>7, <1>8, <1>9, <2>1, <2>2, <2>3, <2>4, <2>5
       DEF DashNext, Editing

-----------------------------------------------------------------------------
(* The reads and what the banner says. *)

IdleInv == saveState = "idle" /\ screen = "ready" => Pending = {}

(* Nothing waits before there are rows. *)
LEMMA NothingYet ==
    ASSUME LineInv, ReadInv, screen # "ready"
    PROVE  Pending = {}
<1>1. failed = <<>> /\ queue = <<>> /\ save.todo = <<>>
  BY DEF LineInv, ReadInv
<1>2. QED
  BY <1>1, InEmpty DEF Pending

LEMMA EditsReady ==
    ASSUME DashTypeOK, ReadInv, Editing
    PROVE  screen = "ready"
<1>1. \A u \in Usages : ProfileChanged(u) => usage[u] # NoCard
  BY DEF ProfileChanged
<1>2. QED
  BY <1>1 DEF Editing, Rename, RemoveCard, ReadInv

LEMMA ReadStep ==
    ASSUME DashTypeOK, LineInv, IdleInv, ReadInv, [DashNext]_dashVars,
           Editing \/ Pending' \subseteq Pending
    PROVE  ReadInv' /\ IdleInv'
<1>1. CASE Editing
  <2>1. /\ screen = "ready" /\ screen' = "ready" /\ read' = Touched
        /\ saveState' = "saving"
    BY <1>1, EditsReady, EditOf, EditMade
  <2>2. QED
    BY <2>1, TouchedFacts DEF ReadInv, IdleInv
<1>2. CASE RetrySave /\ Pending' \subseteq Pending
  <2>1. /\ screen = "ready" /\ screen' = "ready" /\ read' = Touched
        /\ saveState' = "saving"
    BY <1>2 DEF RetrySave, ReadInv
  <2>2. QED
    BY <2>1, TouchedFacts DEF ReadInv, IdleInv
<1>3. CASE (BeginSave \/ Put \/ PutDone \/ PutConflicts) /\ Pending' \subseteq Pending
  <2>1. screen = "ready" /\ UNCHANGED <<screen, read, saveState>>
    BY <1>3 DEF BeginSave, Put, PutDone, PutConflicts, ReadInv
  <2>2. QED
    BY <1>3, <2>1 DEF ReadInv, IdleInv
<1>4. CASE SaveFails /\ Pending' \subseteq Pending
  <2>1. screen = "ready" /\ UNCHANGED <<screen, read>> /\ saveState' \in {"error", saveState}
    BY <1>4 DEF SaveFails, ReadInv
  <2>2. QED
    BY <1>4, <2>1 DEF ReadInv, IdleInv
<1>5. CASE SaveEnds /\ Pending' \subseteq Pending
  <2>1. /\ screen = "ready" /\ UNCHANGED <<screen, read>>
        /\ save.todo = <<>> /\ failed = <<>>
        /\ queue = <<>> \/ UNCHANGED saveState
    BY <1>5 DEF SaveEnds, ReadInv, LineInv, NewestSave
  <2>2. queue = <<>> => Pending = {}
    BY <2>1, InEmpty DEF Pending
  <2>3. QED
    BY <1>5, <2>1, <2>2 DEF ReadInv, IdleInv
<1>6. CASE LoadVault /\ Pending' \subseteq Pending
  <2>1. screen # "ready" /\ screen' # "ready" /\ UNCHANGED <<saveVars, useVars>>
    BY <1>6 DEF LoadVault
  <2>2. BeginsRead("load")
    BY <1>6 DEF LoadVault
  <2>3. QED
    BY <2>1, <2>2, ReadBegun DEF ReadInv, IdleInv, saveVars, useVars
<1>7. CASE (ReloadVault \/ Focus) /\ Pending' \subseteq Pending
  <2>1. UNCHANGED <<screen, saveVars, useVars>>
    BY <1>7 DEF ReloadVault, Focus
  <2>2. \/ BeginsRead("reload")
        \/ BeginsRead("focus") /\ saveState = "idle"
    BY <1>7 DEF ReloadVault, Focus
  <2>3. saveState = "idle" => Pending = {}
    BY NothingYet DEF IdleInv
  <2>4. QED
    BY <1>7, <2>1, <2>2, <2>3, ReadBegun DEF ReadInv, IdleInv, saveVars, useVars
<1>8. ASSUME NEW r \in Reads, ServeRead(r), Pending' \subseteq Pending
      PROVE  ReadInv' /\ IdleInv'
  <2>1. /\ UNCHANGED <<screen, saveVars, useVars>>
        /\ \A x \in Reads : /\ read'[x].by = read[x].by /\ read'[x].wanted = read[x].wanted
                            /\ read'[x].at \in {"none", "got"} =>
                                  read'[x].at = read[x].at \/ (read'[x].wanted /\ read'[x].at = "got")
    BY <1>8 DEF ServeRead, DashTypeOK, ReadStates
  <2>2. QED
    BY <1>8, <2>1 DEF ReadInv, IdleInv, saveVars, useVars
<1>9. ASSUME NEW r \in Reads, ReadDone(r), Pending' \subseteq Pending
      PROVE  ReadInv' /\ IdleInv'
  <2>1. \A x \in Reads : /\ x # r => read'[x] = read[x]
                         /\ ~read'[x].wanted /\ read'[x].at # "got"
    BY <1>9, RecordTypes DEF ReadDone, DashTypeOK, ReadInv
  <2>2. UNCHANGED <<edits, failed, queue, save, usage>>
    BY <1>9 DEF ReadDone, useVars
  <2>3. \/ screen' = "ready"
        \/ UNCHANGED <<screen, saveState>>
    BY <1>9 DEF ReadDone
  <2>4. screen' = "ready" /\ saveState' = "idle" => Pending = {}
    <3>1. read[r].wanted
      BY <1>9 DEF ReadDone, ReadInv
    <3>2. read[r].by = "load" => screen # "ready"
      BY <3>1 DEF ReadInv
    <3>3. QED
      BY <1>9, <3>2, NothingYet DEF ReadDone, IdleInv
  <2>5. QED
    BY <1>9, <2>1, <2>2, <2>3, <2>4 DEF ReadInv, IdleInv
<1>10. ASSUME NEW r \in Reads, ReadFails(r), Pending' \subseteq Pending
       PROVE  ReadInv' /\ IdleInv'
  <2>1. \A x \in Reads : /\ x # r => read'[x] = read[x]
                         /\ x = r => read'[x] = NoRead
    BY <1>10 DEF ReadFails, DashTypeOK
  <2>2. UNCHANGED <<saveVars, useVars>>
    BY <1>10 DEF ReadFails
  <2>3. screen' = screen \/ (screen # "ready" /\ screen' # "ready")
    BY <1>10 DEF ReadFails, ReadInv
  <2>4. QED
    BY <1>10, <2>1, <2>2, <2>3, RecordTypes DEF ReadInv, IdleInv, saveVars, useVars
<1>11. ASSUME NEW u \in Usages, NEW a \in Cards, RefreshCard(u, a), Pending' \subseteq Pending
       PROVE  ReadInv' /\ IdleInv'
  BY <1>11 DEF RefreshCard, ReadInv, IdleInv, saveVars
<1>12. ASSUME NEW u \in Usages, UsageAnswered(u), Pending' \subseteq Pending
       PROVE  ReadInv' /\ IdleInv'
  BY <1>12 DEF UsageAnswered, UsageEnds, ReadInv, IdleInv, saveVars, DashTypeOK
<1>13. ASSUME NEW a \in Cards, Elsewhere(a), Pending' \subseteq Pending
       PROVE  ReadInv' /\ IdleInv'
  BY <1>13 DEF Elsewhere, ReadInv, IdleInv, useVars
<1>14. ASSUME NEW put \in adrift, LatePut(put), Pending' \subseteq Pending
       PROVE  ReadInv' /\ IdleInv'
  BY <1>14 DEF LatePut, ReadInv, IdleInv, useVars
<1>15. CASE UNCHANGED dashVars /\ Pending' \subseteq Pending
  BY <1>15 DEF dashVars, ReadInv, IdleInv
<1>16. QED
  BY <1>1, <1>2, <1>3, <1>4, <1>5, <1>6, <1>7, <1>8, <1>9, <1>10, <1>11, <1>12, <1>13,
     <1>14, <1>15 DEF DashNext, Editing
-----------------------------------------------------------------------------
LEMMA DashInitInv == DashInit => DashInv
<1> SUFFICES ASSUME DashInit PROVE DashInv
  OBVIOUS
<1>1. DashTypeOK
  BY DashTypeInit
<1>2. /\ edits = <<>> /\ failed = <<>> /\ queue = <<>> /\ save.at = "idle" /\ save.todo = <<>>
      /\ \A k \in Cards \X Fields : wrote[k] = 0
  BY RecordTypes DEF DashInit
<1>3. Pending = {} /\ DOMAIN edits = {}
  BY <1>2, InEmpty DEF Pending
<1>4. LineInv /\ WroteInv /\ EditsKept
  BY <1>2, <1>3, InEmpty DEF LineInv, WroteInv, EditsKept, DashInit
<1>5. ReadInv
  <2>1. PICK r \in Reads : read = [x \in Reads |-> IF x = r THEN Asked("load") ELSE NoRead]
    BY DEF DashInit
  <2>2. \A x \in Reads : /\ read[x].at # "got"
                         /\ read[x].wanted => x = r /\ read[x].by = "load"
                         /\ read[x].at = "none" => ~read[x].wanted
    BY <2>1, RecordTypes, AskedType
  <2>3. QED
    BY <1>2, <1>3, <2>2 DEF ReadInv, DashInit
<1>6. QED
  BY <1>1, <1>4, <1>5 DEF DashInv

LEMMA DashStep == DashInv /\ [DashNext]_dashVars => DashInv'
<1> SUFFICES ASSUME DashInv, [DashNext]_dashVars PROVE DashInv'
  OBVIOUS
<1>1. DashTypeOK /\ ReadInv /\ LineInv /\ WroteInv /\ SaveInv /\ IdleInv
  BY DEF DashInv, SaveInv, LastKept, IdleInv, EditsKept
<1>2. DashTypeOK'
  BY <1>1, DashTypeStep
<1>3. SaveInv' /\ (Editing \/ Pending' \subseteq Pending)
  BY <1>1, SaveStep
<1>4. ReadInv' /\ IdleInv'
  BY <1>1, <1>3, ReadStep
<1>5. QED
  BY <1>2, <1>3, <1>4 DEF DashInv, SaveInv, LastKept, IdleInv, EditsKept

THEOREM DashInductive == DashSpec => []DashInv
<1>1. QED
  BY DashInitInv, DashStep, PTL DEF DashSpec

(* The last edit of a kind waits or is the last that was written, unless a
   write the tab had given up was carried out after it. *)
THEOREM EditsStayKept == DashSpec => []EditsKept
<1>1. DashInv => EditsKept
  BY DEF DashInv
<1>2. QED
  BY <1>1, DashInductive, PTL

(* An edit that waits is not taken back by what the tab did not ask for: when
   a save ends nothing waits, and neither does it when what the focus asked
   for arrives. *)
THEOREM PendingStaysShown == DashSpec => PendingShown
<1> DEFINE Kept(i) == Shows(i) /\ ~Shows(i)' =>
             \/ Len(edits') > Len(edits)
             \/ \E r \in Explicit : read[r].at = "got" /\ read'[r].at = "none"
           Stays == \A i \in Pending \cap Pending' : Kept(i)
<1>1. DashInv /\ [DashNext]_dashVars => [Stays]_dashVars
  <2> SUFFICES ASSUME DashInv, DashNext, NEW i \in Pending \cap Pending' PROVE Kept(i)
    OBVIOUS
  <2>1. CASE Editing
    <3>1. Len(edits') = Len(edits) + 1 /\ Len(edits) \in Nat
      BY <2>1, EditOf, EditMade DEF DashInv
    <3>2. QED
      BY <3>1
  <2>2. CASE UNCHANGED <<shown, edits>>
    BY <2>2 DEF Shows
  <2>3. CASE SaveEnds
    <3>1. save.todo = <<>> /\ failed = <<>> /\ UNCHANGED edits
      BY <2>3 DEF SaveEnds, DashInv, LineInv
    <3>2. queue = <<>> => Pending = {}
      BY <3>1, InEmpty DEF Pending
    <3>3. queue # <<>> => UNCHANGED shown
      BY <2>3 DEF SaveEnds, NewestSave
    <3>4. QED
      BY <2>2, <3>1, <3>2, <3>3
  <2>4. ASSUME NEW r \in Reads, ReadDone(r) PROVE Kept(i)
    <3>1. read[r].at = "got" /\ read[r].wanted
      BY <2>4 DEF ReadDone, DashInv, ReadInv
    <3>2. read[r].by # "focus"
      BY <3>1 DEF DashInv, ReadInv
    <3>3. read'[r].at = "none"
      BY <2>4, RecordTypes DEF ReadDone, DashInv, DashTypeOK
    <3>4. QED
      BY <3>1, <3>2, <3>3 DEF Explicit
  <2>5. QED
    <3>1. RetrySave \/ BeginSave \/ Put \/ PutDone \/ PutConflicts \/ SaveFails =>
            UNCHANGED <<shown, edits>>
      BY DEF RetrySave, BeginSave, Put, PutDone, PutConflicts, SaveFails
    <3>2. LoadVault \/ ReloadVault \/ Focus => UNCHANGED <<shown, edits>>
      BY DEF LoadVault, ReloadVault, Focus, saveVars
    <3>3. \A r \in Reads : ServeRead(r) \/ ReadFails(r) => UNCHANGED <<shown, edits>>
      BY DEF ServeRead, ReadFails, saveVars
    <3>4. \A u \in Usages : UsageAnswered(u) \/ (\E a \in Cards : RefreshCard(u, a)) =>
            UNCHANGED <<shown, edits>>
      BY DEF UsageAnswered, RefreshCard, saveVars
    <3>5. /\ \A a \in Cards : Elsewhere(a) => UNCHANGED <<shown, edits>>
          /\ \A put \in adrift : LatePut(put) => UNCHANGED <<shown, edits>>
      BY DEF Elsewhere, LatePut
    <3> HIDE DEF Kept
    <3>6. QED
      BY <2>1, <2>2, <2>3, <2>4, <3>1, <3>2, <3>3, <3>4, <3>5 DEF DashNext, Editing
<1>2. QED
  BY <1>1, DashInductive, PTL DEF DashSpec, PendingShown

-----------------------------------------------------------------------------
(* The edits and the order are parts of the board that the others leave
   alone: what is proved of them holds of the whole. *)
THEOREM PartsOfBoard == BoardSpec => DashSpec /\ OrderSpec
<1>1. BoardInit => DashInit /\ OrderInit
  BY DEF BoardInit
<1>2. [BoardNext]_boardVars => [DashNext]_dashVars /\ [OrderNext]_orderVars
  BY DEF BoardNext, boardVars, dashVars, orderVars
<1>3. QED
  BY <1>1, <1>2, PTL DEF BoardSpec, DashSpec, OrderSpec
=============================================================================
