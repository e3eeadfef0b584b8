------------------------------- MODULE MCBoard -------------------------------
(* The dashboard's parts with small sets of accounts, edits, reads and
   credentials: a rotating login, another that never rotates, and a token
   without a profile that is of the first. *)
EXTENDS Board, TLC

CONSTANTS cA, cB, tA, A, B

MCLoginOf == (cA :> A) @@ (cB :> B) @@ (tA :> A)

MCReadsAlike == Permutations(Reads) \cup Permutations(Connects) \cup Permutations(Boards)
=============================================================================
