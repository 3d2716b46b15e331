------------------------------ MODULE Calculo ------------------------------
(***************************************************************************)
(* One run of calcularMatriz (mapa/src/deadlock.c) over any three tables:  *)
(* the rows of matrizNecesidad are visited once each, in the order of the  *)
(* hash table that holds them, which may be any.                           *)
(***************************************************************************)
EXTENDS Deteccion

CONSTANTS Bloqueados, Recursos, Unidades

ASSUME UnidadesAssumption == Unidades \subseteq Nat

VARIABLES
    inicial,        \* the tables as they were built
    tablas,         \* the tables now
    porVisitar      \* the rows the iterator has not reached

calculo == <<inicial, tablas, porVisitar>>

\* Each blocked trainer waits for one pokemon.  Any units may be free and held: one
\* that was just blocked may be waiting for what is there.
TablasPosibles ==
    {Tablas(d, a, [e \in Bloqueados |-> {n[e]}]) :
        d \in [Recursos -> Unidades],
        a \in [Bloqueados -> [Recursos -> Unidades]],
        n \in [Bloqueados -> Recursos]}

Init ==
    /\ inicial \in TablasPosibles
    /\ tablas = inicial
    /\ porVisitar = Bloqueados

Visitar(e) ==
    /\ e \in porVisitar
    /\ tablas' = Marcar(tablas, e)
    /\ porVisitar' = porVisitar \ {e}
    /\ UNCHANGED inicial

Next == \E e \in Bloqueados : Visitar(e)

Spec == Init /\ [][Next]_calculo
-----------------------------------------------------------------------------
\* Nothing outside S will ever free what e, in S, waits for.
SinSalida(t, S, e) ==
    \E n \in t.necesidad[e] :
        /\ t.disponibles[n] = 0
        /\ \A o \in Bloqueados \ S : t.asignacion[o][n] = 0

\* e holds what another one of S waits for.
Retiene(t, S, e) ==
    \E n \in Recursos, o \in S \ {e} : t.asignacion[e][n] > 0 /\ n \in t.necesidad[o]

\* S is a deadlock...
Interbloqueados(t, S) == \A e \in S : SinSalida(t, S, e)

\* ...and one of those a fight is about: all of S are needed in it.
Abrazo(t, S) == \A e \in S : SinSalida(t, S, e) /\ Retiene(t, S, e)

\* Those that wait for each other are never marked, whatever the order of the visits
\* and however many others are marked before: getDeadlock will list all of them.
AbrazoDetectado ==
    \A S \in SUBSET Bloqueados :
        Abrazo(inicial, S) => S \subseteq GetDeadlock(tablas, Bloqueados)

\* A trainer is only listed if what it waits for was not free, and if it holds
\* something somebody waits for.
ListadoConMotivo ==
    porVisitar = {} =>
        \A e \in GetDeadlock(tablas, Bloqueados) :
            /\ \E n \in inicial.necesidad[e] : inicial.disponibles[n] = 0
            /\ Retiene(inicial, Bloqueados, e)

\* "El entrenador %s se encuentra interbloqueado" (deadlock.c:309): a trainer that is
\* listed belongs to a deadlock.
ListadoInterbloqueado ==
    porVisitar = {} =>
        \A e \in GetDeadlock(tablas, Bloqueados) :
            \E S \in SUBSET Bloqueados : e \in S /\ Interbloqueados(inicial, S)
=============================================================================
