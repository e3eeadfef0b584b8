------------------------------- MODULE CardOrder -------------------------------
(***************************************************************************)
(* The order of the dashboard's cards.  Refreshes that overlap await       *)
(* readings and, when they are over, offer the order these imply; a card   *)
(* that is focused or pointed at holds the cards still until it is left.   *)
(*                                                                         *)
(* ranking stands for the readings and the sort mode.  Accounts come and   *)
(* go one at a time, at the end of the vault's list.                       *)
(*                                                                         *)
(* An order, a list of different ids in the code, is the set of the pairs  *)
(* <<a, b>> with a at b or before it.                                      *)
(***************************************************************************)

CONSTANTS
    Boards,         \* account ids
    Batches,        \* refreshes of all accounts or of one
    NoOrder

ASSUME CardOrderAssumption == \A o \in SUBSET (Boards \X Boards) : o # NoOrder

VARIABLES
    ranking,        \* the order the readings imply
    visible,        \* the order on the screen
    pending,        \* the order that waits, or NoOrder
    unsettled,      \* accounts whose reading is awaited
    touched,        \* <<account, channel>> pairs that hold the order
    marked,         \* accounts with a request that keeps others away
    request,        \* <<account, batch>> pairs: usage requests
    running         \* refreshes that are not over

orderVars == <<ranking, visible, pending, unsettled, touched, marked, request, running>>
refreshVars == <<marked, request, running>>

Channels == {"focus", "pointer"}
Orders(ids) == {o \in SUBSET (ids \X ids) :
    /\ \A a, b \in ids : <<a, b>> \in o \/ <<b, a>> \in o
    /\ \A a, b \in ids : <<a, b>> \in o /\ <<b, a>> \in o => a = b
    /\ \A a, b, c \in ids : <<a, b>> \in o /\ <<b, c>> \in o => <<a, c>> \in o}
Rankings == Orders(Boards)

Listed(o) == {a \in Boards : <<a, a>> \in o}
Only(o, ids) == o \cap (ids \X ids)
AtEnd(o, a) == o \cup ((Listed(o) \cup {a}) \X {a})
Moved(a) == {o \in Rankings : Only(o, Boards \ {a}) = Only(ranking, Boards \ {a})}

(* No card yet, and nothing to rank. *)
OrderInit ==
    /\ ranking \in Rankings
    /\ visible = {} /\ pending = NoOrder
    /\ unsettled = {} /\ touched = {}
    /\ marked = {} /\ request = {} /\ running = {}

-----------------------------------------------------------------------------
(* A plausible slip in acceptCandidate: the cards move under the pointer. *)
HoldsNever == FALSE

(* interactionIsActive *)
Holds == touched # {}

(* acceptCandidate, with the order that rank implies for the cards: it is
   refused while a reading is awaited. *)
Offer(rank) ==
    LET order == Only(rank, Listed(visible)) IN
    CASE unsettled # {} -> UNCHANGED <<visible, pending>>
      [] unsettled = {} /\ Holds -> pending' = order /\ UNCHANGED visible
      [] unsettled = {} /\ ~Holds -> visible' = order /\ pending' = NoOrder

(* releasePendingOrder, of an order and a set of holds. *)
Release(shown, waiting, holds) ==
    IF waiting # NoOrder /\ holds = {}
    THEN visible' = waiting /\ pending' = NoOrder
    ELSE visible' = shown /\ pending' = waiting

(* A plausible slip in refreshAccount: an account that is not refreshed now
   is not settled either. *)
AwaitedAll(ids, skipped) == unsettled \cup ids

(* The readings awaited once a refresh has begun. *)
Awaited(ids, skipped) == (unsettled \cup ids) \ skipped

(* refreshAll or refreshSingleAccount: of the accounts, some are refreshed
   already, and some are not refreshed now, which settles them at once. *)
StartBatch(b, ids) ==
    \E skipped \in SUBSET (ids \ marked) :
        LET started == (ids \ marked) \ skipped IN
        /\ b \notin running
        /\ ids # {}
        /\ running' = running \cup {b}
        /\ marked' = marked \cup started
        /\ request' = request \cup (started \X {b})
        /\ unsettled' = Awaited(ids, skipped)
        /\ UNCHANGED <<ranking, visible, pending, touched>>

(* A usage request ends; a card that is gone takes no reading. *)
Settle(a, b) ==
    /\ <<a, b>> \in request
    /\ request' = request \ {<<a, b>>}
    /\ marked' = marked \ {a}
    /\ unsettled' = unsettled \ {a}
    /\ ranking' \in IF a \in Listed(visible) THEN Moved(a) ELSE {ranking}
    /\ UNCHANGED <<visible, pending, touched, running>>

(* acceptSettledSnapshots, when a refresh has all its answers. *)
EndBatch(b) ==
    /\ b \in running /\ \A a \in Boards : <<a, b>> \notin request
    /\ running' = running \ {b}
    /\ Offer(ranking)
    /\ UNCHANGED <<ranking, unsettled, touched, marked, request>>

(* changeSortMode *)
SortChanged ==
    /\ ranking' \in Rankings
    /\ Offer(ranking')
    /\ UNCHANGED <<unsettled, touched, refreshVars>>

-----------------------------------------------------------------------------
(* accounts_changed: a new card is the last one, on the screen and among the
   readings. *)
CardAdded(a) ==
    /\ a \notin Listed(visible)
    /\ ranking' = AtEnd(Only(ranking, Boards \ {a}), a)
    /\ visible' = AtEnd(visible, a)
    /\ pending' = IF pending = NoOrder THEN NoOrder ELSE AtEnd(pending, a)
    /\ UNCHANGED <<unsettled, touched, refreshVars>>

HoldsAfter(ids) == {t \in touched : t[1] \in ids}

(* A card is removed here, which lets its account be refreshed again while
   its request goes on, or elsewhere. *)
CardRemoved(a) ==
    LET left == Listed(visible) \ {a} IN
    /\ a \in Listed(visible)
    /\ marked' \in {marked, marked \ {a}}
    /\ unsettled' = unsettled \cap left
    /\ touched' = HoldsAfter(left)
    /\ Release(Only(visible, left),
               IF pending = NoOrder THEN NoOrder ELSE Only(pending, left), touched')
    /\ UNCHANGED <<ranking, request, running>>

(* interaction_enter *)
Touch(a, channel) ==
    /\ a \in Listed(visible) /\ <<a, channel>> \notin touched
    /\ touched' = touched \cup {<<a, channel>>}
    /\ UNCHANGED <<ranking, visible, pending, unsettled, refreshVars>>

(* interaction_leave *)
Leave(a, channel) ==
    /\ <<a, channel>> \in touched
    /\ touched' = touched \ {<<a, channel>>}
    /\ Release(visible, pending, touched')
    /\ UNCHANGED <<ranking, unsettled, refreshVars>>

OrderNext ==
    \/ SortChanged
    \/ \E b \in Batches :
          \/ EndBatch(b) \/ StartBatch(b, Listed(visible))
          \/ \E a \in Listed(visible) : StartBatch(b, {a})
          \/ \E a \in Boards : Settle(a, b)
    \/ \E a \in Boards :
          \/ CardAdded(a) \/ CardRemoved(a)
          \/ \E channel \in Channels : Touch(a, channel) \/ Leave(a, channel)

OrderSpec == OrderInit /\ [][OrderNext]_orderVars
=============================================================================
