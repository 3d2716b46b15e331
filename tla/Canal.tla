------------------------------- MODULE Canal --------------------------------
(***************************************************************************)
(* What the two ends of a connection count on: the reader gets whole       *)
(* messages, each once and in the order they were sent, and NULL only when *)
(* the other end is closed and nothing is left.  A close may lose the      *)
(* messages sent last.                                                     *)
(***************************************************************************)
EXTENDS Naturals, Sequences

CONSTANTS Mensajes, Nulo, Ninguno

VARIABLES canal, viva, entregado

vars == <<canal, viva, entregado>>

Init == canal = <<>> /\ viva = FALSE /\ entregado = Ninguno

Conectar == canal' = <<>> /\ viva' = TRUE /\ entregado' = Ninguno

Poner(m) ==
    /\ viva
    /\ canal' = Append(canal, m)
    /\ UNCHANGED <<viva, entregado>>

Cortar ==
    /\ viva
    /\ viva' = FALSE
    /\ \E n \in 0 .. Len(canal) : canal' = SubSeq(canal, 1, n)
    /\ UNCHANGED entregado

Entregar ==
    /\ entregado = Ninguno
    /\ \/ canal # <<>> /\ entregado' = Head(canal) /\ canal' = Tail(canal)
       \/ canal = <<>> /\ ~viva /\ entregado' = Nulo /\ UNCHANGED canal
    /\ UNCHANGED viva

Tomar == entregado' = Ninguno /\ UNCHANGED <<canal, viva>>

Next == Conectar \/ (\E m \in Mensajes : Poner(m)) \/ Cortar \/ Entregar \/ Tomar

Spec == Init /\ [][Next]_vars
=============================================================================
