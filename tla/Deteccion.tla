----------------------------- MODULE Deteccion -----------------------------
(***************************************************************************)
(* The deadlock detector of the map (mapa/src/deadlock.c), as operators on *)
(* the three tables it builds:                                             *)
(*   disponibles  [pokenest -> units free],                                *)
(*   asignacion   [trainer -> [pokenest -> units held]],                   *)
(*   necesidad    [trainer -> set of pokenests it waits for].              *)
(* A dictionary_remove or a dictionary_clean of a row of matrizNecesidad   *)
(* leaves the empty set: no reader of the table tells one from the other.  *)
(***************************************************************************)
EXTENDS Integers, Sequences

Tablas(disponibles, asignacion, necesidad) ==
    [disponibles |-> disponibles, asignacion |-> asignacion, necesidad |-> necesidad]

\* crearMatrizAsignacion keeps a row only for a trainer that holds something.
TieneAsignados(asignacion, e) ==
    \E n \in DOMAIN asignacion[e] : asignacion[e][n] > 0

\* Mutation: >= 0 for >= 1.
PuedeEjecutarSinUnidades(t, e) ==
    \A n \in t.necesidad[e] : t.disponibles[n] >= 0

\* Mutation: > 1 for >= 1.
PuedeEjecutarConDos(t, e) ==
    \A n \in t.necesidad[e] : t.disponibles[n] > 1

\* Every unit asked for is free; an empty row asks for nothing.
PuedeEjecutar(t, e) ==
    \A n \in t.necesidad[e] : t.disponibles[n] >= 1

\* Mutation: nobody else waits for one of the things e holds.
SufreInanicionPorUno(t, e) ==
    \E n \in DOMAIN t.asignacion[e] : \A o \in DOMAIN t.necesidad :
        t.asignacion[e][n] > 0 /\ (o # e => n \notin t.necesidad[o])

\* Nobody else waits for anything e holds.
SufreInanicion(t, e) ==
    \A n \in DOMAIN t.asignacion[e], o \in DOMAIN t.necesidad :
        t.asignacion[e][n] > 0 /\ o # e => n \notin t.necesidad[o]

\* aumentarDisponible: the units of e count as free from now on.
AumentarDisponible(disponibles, asignados) ==
    [n \in DOMAIN disponibles |-> disponibles[n] + asignados[n]]

\* One turn of matrizNecesidadIterator, for the row of trainer e.
Marcar(t, e) ==
    IF ~TieneAsignados(t.asignacion, e)
      THEN [t EXCEPT !.necesidad[e] = {}]
    ELSE IF PuedeEjecutar(t, e) \/ SufreInanicion(t, e)
      THEN [t EXCEPT !.disponibles = AumentarDisponible(@, t.asignacion[e]),
                     !.asignacion[e] = [n \in DOMAIN @ |-> 0],
                     !.necesidad[e] = {}]
    ELSE t

\* calcularMatriz visits each row once, in the order of the hash table.
CalcularMatriz(tablas, orden) ==
    LET paso[i \in 0 .. Len(orden)] ==
            IF i = 0 THEN tablas ELSE Marcar(paso[i - 1], orden[i])
    IN  paso[Len(orden)]

\* getDeadlock: the blocked trainers whose row is not empty afterwards.
GetDeadlock(t, bloqueados) == {e \in bloqueados : t.necesidad[e] # {}}
=============================================================================
