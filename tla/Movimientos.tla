---------------------------- MODULE Movimientos ----------------------------
(***************************************************************************)
(* How a trainer walks: the queue of single steps that takes it from its   *)
(* position to a pokenest (entrenador.c, calcularColaMovimientos) and what *)
(* the map does to the trainer's sprite for each step (interfaz_grafica.c, *)
(* moverEntrenador).  A position is a pair <<x, y>>.                       *)
(***************************************************************************)
EXTENDS Integers, Sequences

Sentidos == {"UP", "DOWN", "LEFT", "RIGHT"}

Posicion == Int \X Int

Origen == <<0, 0>>

\* |n|, the number of steps obtenerColaPosX/Y push for a difference n.
Abs(n) == IF n < 0 THEN -n ELSE n

\* intercarlarColas takes one step of the Y queue and one of the X queue while
\* both last, Y first, and then what is left of the longer one.
CalcularColaMovimientos(desde, hasta) ==
    LET dx == hasta[1] - desde[1]
        dy == hasta[2] - desde[2]
        enY == IF dy > 0 THEN "UP" ELSE "DOWN"
        enX == IF dx > 0 THEN "RIGHT" ELSE "LEFT"
        comun == 2 * (IF Abs(dx) < Abs(dy) THEN Abs(dx) ELSE Abs(dy))
        esY(k) == IF k <= comun THEN k % 2 = 1 ELSE Abs(dy) > Abs(dx)
    IN  [k \in 1 .. (Abs(dx) + Abs(dy)) |-> IF esY(k) THEN enY ELSE enX]

\* Mutation: UP and DOWN swapped.
MoverInvertido(pos, sentido) ==
    CASE sentido = "RIGHT" -> <<pos[1] + 1, pos[2]>>
      [] sentido = "LEFT"  -> <<pos[1] - 1, pos[2]>>
      [] sentido = "UP"    -> <<pos[1], pos[2] - 1>>
      [] sentido = "DOWN"  -> <<pos[1], pos[2] + 1>>

\* The position of a sprite after one step.
Mover(pos, sentido) ==
    CASE sentido = "RIGHT" -> <<pos[1] + 1, pos[2]>>
      [] sentido = "LEFT"  -> <<pos[1] - 1, pos[2]>>
      [] sentido = "UP"    -> <<pos[1], pos[2] + 1>>
      [] sentido = "DOWN"  -> <<pos[1], pos[2] - 1>>

\* getDistancia of planificador.c: the coordinates are summed before they are
\* subtracted and the sign is kept.
Distancia(pos, nido) == (nido[1] + nido[2]) - (pos[1] + pos[2])
=============================================================================
