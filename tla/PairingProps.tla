------------------------------ MODULE PairingProps ------------------------------
(***************************************************************************)
(* What connecting from the dialog promises.                               *)
(***************************************************************************)
EXTENDS Pairing

(* Every variable keeps its type, and an owner holds no more codes than the
   cap. *)
PairTypeOK ==
    /\ code \in [Codes -> CodeRows]
    /\ helper \in [Helpers -> HelperStates]
    /\ panel \in PanelStates
    /\ tick \in [Ticks -> TickStates]
    /\ kept \in [Codes -> Nat]
    /\ Cardinality(CodesKept) <= MaxCodes

Told(answer, c) == \E t \in Ticks : tick[t].answer = answer /\ tick[t].id = c

(* A code settles once: however many helpers preflight it, claims time out
   and results come late, its account is saved at most once; a row that is
   done and the dialog's success card speak of a saved account; and a code
   that was told to have failed never turns out done. *)
CodeSettlesOnce ==
    /\ \A c \in Codes :
          /\ kept[c] <= 1
          /\ code[c].is = "done" => kept[c] = 1
          /\ Told("failed", c) => code[c].is \in {"failed", "gone"}
    /\ panel.is = "connected" /\ panel.id # NoCode => kept[panel.id] = 1

(* Timers fire, requests are answered or fail, time passes. *)
PairFairness ==
    /\ WF_pairVars(\E t \in Ticks : Poll(t))
    /\ \A t \in Ticks : WF_pairVars(Head(t) \/ Body(t) \/ PollFails(t))
    /\ \A c \in Codes : WF_pairVars(Elapses(c))
    /\ WF_pairVars(Connected)
    /\ WF_pairVars(CodeRefused \/ \E c \in Codes : CodeStarted(c))

(* Nothing that is under way will end the wait for a result. *)
Abandoned == panel.pair = "processing" /\ ~panel.polls /\ panel.is \in {"login", "pairing"}

(* The body of an answer about a code the dialog does not poll any more. *)
LateBody == \E t \in Ticks : panel.asks # t /\ Body(t)

(* A dialog that is busy, and cannot be closed, does not stay so before it has
   shown a success: what it waits for is answered or times out, although the
   helper's request died after it claimed the code.  The exception is a dialog
   that was told 'processing' of a code it no longer polls (line 563), and
   only the body of a late answer makes one. *)
BusyEnds ==
    /\ Busy ~> (~Busy \/ panel.is \in {"connected", "unsynced"} \/ Abandoned)
    /\ [][~Abandoned /\ Abandoned' => LateBody]_pairVars
=============================================================================
