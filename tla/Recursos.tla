------------------------------ MODULE Recursos ------------------------------
(***************************************************************************)
(* What a map promises about its pokemons, whatever its threads do: each   *)
(* one is free in its pokenest or held by one visit of a trainer.  A visit *)
(* takes them one at a time and only from the pokenest; nobody takes them  *)
(* from it except to give all it holds back together, and that is its end. *)
(***************************************************************************)
CONSTANTS Pokemons, Conexiones, Libre

VARIABLES lugar, terminadas

Init ==
    /\ lugar = [p \in Pokemons |-> Libre]
    /\ terminadas = {}

Tomar(c, p) ==
    /\ c \notin terminadas /\ UNCHANGED terminadas
    /\ lugar[p] = Libre
    /\ lugar' = [lugar EXCEPT ![p] = c]

Devolver(c) ==
    /\ c \notin terminadas /\ terminadas' = terminadas \cup {c}
    /\ lugar' = [p \in Pokemons |-> IF lugar[p] = c THEN Libre ELSE lugar[p]]

Next ==
    \/ \E c \in Conexiones : Devolver(c)
    \/ \E p \in Pokemons : lugar[p] = Libre /\ lugar'[p] # Libre /\ Tomar(lugar'[p], p)

Spec == Init /\ [][Next]_<<lugar, terminadas>>
=============================================================================
