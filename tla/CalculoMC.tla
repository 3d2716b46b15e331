----------------------------- MODULE CalculoMC -----------------------------
(***************************************************************************)
(* All the tables of three trainers and three pokenests with at most one   *)
(* pokemon of each held by each and free.                                  *)
(***************************************************************************)
EXTENDS Calculo, TLC

CONSTANTS e1, e2, e3, A, B, C

Iguales == Permutations({e1, e2, e3}) \cup Permutations({A, B, C})
=============================================================================
