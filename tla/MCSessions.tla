------------------------------ MODULE MCSessions ------------------------------
(* The ways into the program with two or three of everything that competes. *)
EXTENDS Sessions
=============================================================================
