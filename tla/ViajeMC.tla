------------------------------ MODULE ViajeMC -------------------------------
(***************************************************************************)
(* A journey over two maps, with two pokemons in the first and one in the  *)
(* second, for TLC.                                                        *)
(***************************************************************************)
EXTENDS Viaje

CONSTANTS m1, m2

DosMapas == <<m1, m2>>
DosYUno == [m \in {m1, m2} |-> IF m = m1 THEN 2 ELSE 1]
DosPartes == [m \in Mensajes |-> 2]

\* "s" or "n", and the newline.
UnaLetra == {<<"s", "nl">>, <<"n", "nl">>}
=============================================================================
