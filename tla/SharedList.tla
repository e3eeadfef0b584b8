----------------------------- MODULE SharedList -----------------------------
(* What the account vault (src/lib/vault.ts) promises to those who share it, *)
(* without copies, keys, backends and retries: a list to which each call adds *)
(* its change in one step, to the list that is there.  Copies that cannot be  *)
(* read may lose it, and whatever brings it back has every change somebody    *)
(* was told of.                                                               *)

CONSTANT Changes    \* each may be made to the list once

VARIABLES
    list,   \* the changes the list has been through; empty while it is lost
    lost,   \* nobody can say what the list is
    known   \* the changes somebody was told of

vars == <<list, lost, known>>

Init ==
    /\ list \in SUBSET Changes
    /\ lost = FALSE
    /\ known = {}

\* Whoever made the change is told, or not.
Save(c) ==
    /\ ~lost
    /\ list' = list \cup {c}
    /\ known' \in {known, known \cup list'}
    /\ UNCHANGED lost

\* What a call is given may be older than the list by then, not newer.
Read(seen) ==
    /\ ~lost => seen \subseteq list
    /\ known' = known \cup seen
    /\ UNCHANGED <<list, lost>>

Lose ==
    /\ lost' = TRUE /\ list' = {}
    /\ UNCHANGED known

Find ==
    /\ lost /\ lost' = FALSE
    /\ list' \in SUBSET Changes /\ known \subseteq list'
    /\ known' \in {known, known \cup list'}

\* The user gives the list up and starts with an empty one.
GiveUp ==
    /\ list' = {} /\ known' = {}
    /\ lost' \in BOOLEAN

Next ==
    \/ \E c \in Changes : Save(c)
    \/ \E seen \in SUBSET Changes : Read(seen)
    \/ Lose \/ Find \/ GiveUp

Spec == Init /\ [][Next]_vars

=============================================================================
