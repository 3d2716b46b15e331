--------------------------- MODULE Calculo_proofs ---------------------------
(***************************************************************************)
(* calcularMatriz lists every deadlock a fight is about, for any trainers, *)
(* pokenests and units, and whatever the order its rows are visited in.    *)
(*                                                                         *)
(* AbrazoDetectado is not inductive: it only speaks of the rows of         *)
(* necesidad.  A row survives its visit because of what the other tables   *)
(* say at that moment, so the invariant adds that the rows of the deadlock *)
(* were never touched, and that of what it waits for nothing was ever      *)
(* freed nor is held outside of it.                                        *)
(***************************************************************************)
EXTENDS Calculo, TLAPS

\* The tables have a row for each blocked trainer and a count for each pokenest.
TablasTipo(t) ==
    /\ t = [disponibles |-> t.disponibles, asignacion |-> t.asignacion,
            necesidad |-> t.necesidad]
    /\ t.disponibles \in [Recursos -> Nat]
    /\ t.asignacion \in [Bloqueados -> [Recursos -> Nat]]
    /\ t.necesidad \in [Bloqueados -> SUBSET Recursos]

\* Nothing that e, in S, waits for at first is free or held outside S later.
SigueSinSalida(S, e) ==
    \A n \in inicial.necesidad[e] :
        /\ inicial.disponibles[n] = 0
        /\ \A o \in Bloqueados \ S : inicial.asignacion[o][n] = 0
        => /\ tablas.disponibles[n] = 0
           /\ \A o \in Bloqueados \ S : tablas.asignacion[o][n] = 0

\* The rows of S are as they were built.
Intacto(S) ==
    \A e \in S :
        /\ tablas.necesidad[e] = inicial.necesidad[e]
        /\ tablas.asignacion[e] = inicial.asignacion[e]
        /\ SigueSinSalida(S, e)

Invariante ==
    /\ TablasTipo(inicial)
    /\ TablasTipo(tablas)
    /\ porVisitar \subseteq Bloqueados
    /\ \A S \in SUBSET Bloqueados : Abrazo(inicial, S) => Intacto(S)
-----------------------------------------------------------------------------
\* Marcar changes the rows of e and the count of what is free, and nothing else.
LEMMA MarcarTipo ==
    ASSUME NEW t, TablasTipo(t), NEW e \in Bloqueados
    PROVE  /\ TablasTipo(Marcar(t, e))
           /\ \A o \in Bloqueados \ {e} :
                 /\ Marcar(t, e).necesidad[o] = t.necesidad[o]
                 /\ Marcar(t, e).asignacion[o] = t.asignacion[o]
<1>1. CASE ~TieneAsignados(t.asignacion, e)
  <2>1. Marcar(t, e) = [t EXCEPT !.necesidad[e] = {}]
    BY <1>1 DEF Marcar
  <2> QED
    BY <2>1 DEF TablasTipo
<1>2. CASE /\ TieneAsignados(t.asignacion, e)
           /\ PuedeEjecutar(t, e) \/ SufreInanicion(t, e)
  <2> DEFINE d == AumentarDisponible(t.disponibles, t.asignacion[e])
             a == [t.asignacion EXCEPT ![e] = [n \in Recursos |-> 0]]
             r == [t.necesidad EXCEPT ![e] = {}]
  <2>1. Marcar(t, e) = [disponibles |-> d, asignacion |-> a, necesidad |-> r]
    BY <1>2 DEF Marcar, TablasTipo
  <2>2. d \in [Recursos -> Nat]
    BY DEF AumentarDisponible, TablasTipo
  <2>3. a \in [Bloqueados -> [Recursos -> Nat]] /\ r \in [Bloqueados -> SUBSET Recursos]
    BY DEF TablasTipo
  <2>4. \A o \in Bloqueados \ {e} : a[o] = t.asignacion[o] /\ r[o] = t.necesidad[o]
    BY DEF TablasTipo
  <2> HIDE DEF d, a, r
  <2> QED
    BY <2>1, <2>2, <2>3, <2>4 DEF TablasTipo
<1>3. CASE /\ TieneAsignados(t.asignacion, e)
           /\ ~PuedeEjecutar(t, e) /\ ~SufreInanicion(t, e)
  BY <1>3 DEF Marcar
<1> QED
  BY <1>1, <1>2, <1>3

\* What becomes free of a pokenest is what e held of it, and it holds it no more.
LEMMA MarcarLibera ==
    ASSUME NEW t, TablasTipo(t), NEW e \in Bloqueados, NEW n \in Recursos,
           t.disponibles[n] = 0, t.asignacion[e][n] = 0
    PROVE  Marcar(t, e).disponibles[n] = 0 /\ Marcar(t, e).asignacion[e][n] = 0
<1>1. CASE ~TieneAsignados(t.asignacion, e)
  BY <1>1 DEF Marcar, TablasTipo
<1>2. CASE /\ TieneAsignados(t.asignacion, e)
           /\ PuedeEjecutar(t, e) \/ SufreInanicion(t, e)
  <2>1. Marcar(t, e).disponibles = AumentarDisponible(t.disponibles, t.asignacion[e])
    BY <1>2 DEF Marcar, TablasTipo
  <2>2. Marcar(t, e).asignacion[e] = [m \in Recursos |-> 0]
    BY <1>2 DEF Marcar, TablasTipo
  <2> QED
    BY <2>1, <2>2 DEF AumentarDisponible, TablasTipo
<1>3. CASE /\ TieneAsignados(t.asignacion, e)
           /\ ~PuedeEjecutar(t, e) /\ ~SufreInanicion(t, e)
  BY <1>3 DEF Marcar
<1> QED
  BY <1>1, <1>2, <1>3

\* The visit of a row of a deadlock leaves the tables alone: its trainer holds
\* something another one of the deadlock waits for, and cannot go on.
LEMMA MarcarAbrazo ==
    ASSUME NEW t, TablasTipo(t), NEW S \in SUBSET Bloqueados, NEW e \in S,
           SinSalida(t, S, e), Retiene(t, S, e)
    PROVE  Marcar(t, e) = t
<1>1. PICK n \in Recursos, o \in S \ {e} :
         t.asignacion[e][n] > 0 /\ n \in t.necesidad[o]
  BY DEF Retiene
<1>2. TieneAsignados(t.asignacion, e)
  BY <1>1 DEF TieneAsignados, TablasTipo
<1>3. ~SufreInanicion(t, e)
  BY <1>1 DEF SufreInanicion, TablasTipo
<1>4. ~PuedeEjecutar(t, e)
  BY DEF PuedeEjecutar, SinSalida, TablasTipo
<1> QED
  BY <1>2, <1>3, <1>4 DEF Marcar
-----------------------------------------------------------------------------
LEMMA InvarianteInicial == Init => Invariante
<1> SUFFICES ASSUME Init PROVE Invariante
  OBVIOUS
<1>1. TablasTipo(inicial)
  BY UnidadesAssumption DEF Init, TablasPosibles, Tablas, TablasTipo
<1>2. ASSUME NEW S \in SUBSET Bloqueados PROVE Intacto(S)
  BY DEF Init, Intacto, SigueSinSalida
<1> QED
  BY <1>1, <1>2 DEF Init, Invariante

\* An untouched deadlock is still one.
LEMMA AbrazoSigue ==
    ASSUME Invariante, NEW S \in SUBSET Bloqueados, Abrazo(inicial, S)
    PROVE  \A e \in S : SinSalida(tablas, S, e) /\ Retiene(tablas, S, e)
<1>1. Intacto(S)
  BY DEF Invariante
<1> TAKE e \in S
<1>2. SinSalida(tablas, S, e)
  BY <1>1 DEF Abrazo, SinSalida, Intacto, SigueSinSalida
<1>3. Retiene(tablas, S, e)
  BY <1>1 DEF Abrazo, Retiene, Intacto
<1> QED
  BY <1>2, <1>3

LEMMA InvariantePaso == Invariante /\ [Next]_calculo => Invariante'
<1> SUFFICES ASSUME Invariante, [Next]_calculo PROVE Invariante'
  OBVIOUS
<1>1. CASE UNCHANGED calculo
  BY <1>1 DEF calculo, Invariante, Intacto, SigueSinSalida
<1>2. ASSUME NEW e \in Bloqueados, Visitar(e) PROVE Invariante'
  <2>1. inicial' = inicial /\ tablas' = Marcar(tablas, e) /\ porVisitar' \subseteq Bloqueados
    BY <1>2 DEF Visitar, Invariante
  <2>2. TablasTipo(inicial') /\ TablasTipo(tablas')
    BY <2>1, MarcarTipo DEF Invariante
  <2>3. ASSUME NEW S \in SUBSET Bloqueados, Abrazo(inicial, S) PROVE Intacto(S)'
    <3>1. CASE e \in S
      <4>1. tablas' = tablas
        BY <2>1, <2>3, <3>1, AbrazoSigue, MarcarAbrazo DEF Invariante
      <4> QED
        BY <2>1, <2>3, <4>1 DEF Invariante, Intacto, SigueSinSalida
    <3>2. CASE e \notin S
      <4>1. Intacto(S)
        BY <2>3 DEF Invariante
      <4>2. \A o \in Bloqueados \ {e} : /\ tablas'.necesidad[o] = tablas.necesidad[o]
                                        /\ tablas'.asignacion[o] = tablas.asignacion[o]
        BY <2>1, MarcarTipo DEF Invariante
      <4>3. ASSUME NEW f \in S PROVE SigueSinSalida(S, f)'
        <5> SUFFICES ASSUME NEW n \in inicial.necesidad[f],
                            inicial.disponibles[n] = 0,
                            \A o \in Bloqueados \ S : inicial.asignacion[o][n] = 0
                     PROVE  /\ tablas'.disponibles[n] = 0
                            /\ \A o \in Bloqueados \ S : tablas'.asignacion[o][n] = 0
          BY <2>1 DEF SigueSinSalida
        <5>1. n \in Recursos
          BY DEF Invariante, TablasTipo
        <5>2. /\ tablas.disponibles[n] = 0
              /\ \A o \in Bloqueados \ S : tablas.asignacion[o][n] = 0
          BY <4>1, <4>3 DEF Intacto, SigueSinSalida
        <5>3. tablas'.disponibles[n] = 0 /\ tablas'.asignacion[e][n] = 0
          BY <2>1, <3>2, <5>1, <5>2, MarcarLibera DEF Invariante
        <5> QED
          BY <4>2, <5>2, <5>3
      <4>4. ASSUME NEW f \in S
            PROVE  /\ tablas'.necesidad[f] = inicial.necesidad[f]
                   /\ tablas'.asignacion[f] = inicial.asignacion[f]
        BY <3>2, <4>1, <4>2 DEF Intacto
      <4> QED
        BY <2>1, <4>3, <4>4 DEF Intacto
    <3> QED
      BY <3>1, <3>2
  <2> QED
    BY <2>1, <2>2, <2>3 DEF Invariante
<1> QED
  BY <1>1, <1>2 DEF Next

LEMMA InvarianteAlcanza == Invariante => AbrazoDetectado
<1> SUFFICES ASSUME Invariante, NEW S \in SUBSET Bloqueados, Abrazo(inicial, S), NEW e \in S
             PROVE  e \in GetDeadlock(tablas, Bloqueados)
  BY DEF AbrazoDetectado
<1>1. PICK n \in tablas.necesidad[e] : TRUE
  BY AbrazoSigue DEF SinSalida
<1> QED
  BY <1>1 DEF GetDeadlock, Invariante, TablasTipo

\* getDeadlock lists every trainer of a deadlock in which each one holds what another
\* waits for (deadlock.c, calcularMatriz and getDeadlock), in any map.
THEOREM Deteccion_Completa == Spec => []AbrazoDetectado
<1>1. Spec => []Invariante
  BY InvarianteInicial, InvariantePaso, PTL DEF Spec
<1> QED
  BY <1>1, InvarianteAlcanza, PTL
-----------------------------------------------------------------------------
(***************************************************************************)
(* The other direction: nobody is listed without a motive.  The rows only  *)
(* lose what they ask for and the units free only grow, so what a visit    *)
(* finds was already so at the beginning.                                  *)
(***************************************************************************)
Motivo(e) ==
    /\ \E n \in inicial.necesidad[e] : inicial.disponibles[n] = 0
    /\ Retiene(inicial, Bloqueados, e)

InvarianteMotivo ==
    /\ TablasTipo(inicial)
    /\ TablasTipo(tablas)
    /\ porVisitar \subseteq Bloqueados
    /\ \A e \in Bloqueados : tablas.necesidad[e] \subseteq inicial.necesidad[e]
    /\ \A n \in Recursos : tablas.disponibles[n] >= inicial.disponibles[n]
    /\ \A e \in porVisitar : tablas.asignacion[e] = inicial.asignacion[e]
    /\ \A e \in Bloqueados \ porVisitar : tablas.necesidad[e] # {} => Motivo(e)

\* A visit takes nothing from what is free, and adds nothing to what is asked for.
LEMMA MarcarMonotona ==
    ASSUME NEW t, TablasTipo(t), NEW e \in Bloqueados
    PROVE  /\ \A n \in Recursos : Marcar(t, e).disponibles[n] >= t.disponibles[n]
           /\ Marcar(t, e).necesidad[e] \subseteq t.necesidad[e]
<1>1. CASE ~TieneAsignados(t.asignacion, e)
  BY <1>1 DEF Marcar, TablasTipo
<1>2. CASE /\ TieneAsignados(t.asignacion, e)
           /\ PuedeEjecutar(t, e) \/ SufreInanicion(t, e)
  <2>1. Marcar(t, e).disponibles = AumentarDisponible(t.disponibles, t.asignacion[e])
    BY <1>2 DEF Marcar, TablasTipo
  <2>2. Marcar(t, e).necesidad[e] = {}
    BY <1>2 DEF Marcar, TablasTipo
  <2>3. \A n \in Recursos : t.disponibles[n] \in Nat /\ t.asignacion[e][n] \in Nat
    BY DEF TablasTipo
  <2> QED
    BY <2>1, <2>2, <2>3 DEF AumentarDisponible, TablasTipo
<1>3. CASE /\ TieneAsignados(t.asignacion, e)
           /\ ~PuedeEjecutar(t, e) /\ ~SufreInanicion(t, e)
  <2>1. Marcar(t, e) = t
    BY <1>3 DEF Marcar
  <2> QED
    BY <2>1 DEF TablasTipo
<1> QED
  BY <1>1, <1>2, <1>3

\* A row that its visit leaves: its trainer can neither go on nor is left alone.
LEMMA MarcarDeja ==
    ASSUME NEW t, TablasTipo(t), NEW e \in Bloqueados, Marcar(t, e).necesidad[e] # {}
    PROVE  /\ Marcar(t, e) = t
           /\ \E n \in t.necesidad[e] : t.disponibles[n] = 0
           /\ Retiene(t, Bloqueados, e)
<1>1. TieneAsignados(t.asignacion, e)
  BY DEF Marcar, TablasTipo
<1>2. ~PuedeEjecutar(t, e) /\ ~SufreInanicion(t, e)
  BY <1>1 DEF Marcar, TablasTipo
<1>3. \E n \in t.necesidad[e] : t.disponibles[n] = 0
  BY <1>2 DEF PuedeEjecutar, TablasTipo
<1>4. Retiene(t, Bloqueados, e)
  BY <1>2 DEF SufreInanicion, Retiene, TablasTipo
<1> QED
  BY <1>1, <1>2, <1>3, <1>4 DEF Marcar

LEMMA MotivoInicial == Init => InvarianteMotivo
<1> SUFFICES ASSUME Init PROVE InvarianteMotivo
  OBVIOUS
<1>1. TablasTipo(inicial)
  BY UnidadesAssumption DEF Init, TablasPosibles, Tablas, TablasTipo
<1>2. \A n \in Recursos : tablas.disponibles[n] >= inicial.disponibles[n]
  BY <1>1 DEF Init, TablasTipo
<1> QED
  BY <1>1, <1>2 DEF Init, InvarianteMotivo

LEMMA MotivoPaso == InvarianteMotivo /\ [Next]_calculo => InvarianteMotivo'
<1> SUFFICES ASSUME InvarianteMotivo, [Next]_calculo PROVE InvarianteMotivo'
  OBVIOUS
<1>1. CASE UNCHANGED calculo
  BY <1>1 DEF calculo, InvarianteMotivo, Motivo
<1>2. ASSUME NEW e \in Bloqueados, Visitar(e) PROVE InvarianteMotivo'
  <2>1. /\ inicial' = inicial /\ tablas' = Marcar(tablas, e)
        /\ e \in porVisitar /\ porVisitar' = porVisitar \ {e}
    BY <1>2 DEF Visitar
  <2>2. TablasTipo(inicial') /\ TablasTipo(tablas')
    BY <2>1, MarcarTipo DEF InvarianteMotivo
  <2>3. \A o \in Bloqueados \ {e} : /\ tablas'.necesidad[o] = tablas.necesidad[o]
                                    /\ tablas'.asignacion[o] = tablas.asignacion[o]
    BY <2>1, MarcarTipo DEF InvarianteMotivo
  <2>4. /\ \A n \in Recursos : tablas'.disponibles[n] >= tablas.disponibles[n]
        /\ tablas'.necesidad[e] \subseteq tablas.necesidad[e]
    BY <2>1, MarcarMonotona DEF InvarianteMotivo
  <2>5. \A o \in Bloqueados : tablas'.necesidad[o] \subseteq inicial.necesidad[o]
    BY <2>3, <2>4 DEF InvarianteMotivo
  <2>6. \A n \in Recursos : tablas'.disponibles[n] >= inicial.disponibles[n]
    BY <2>2, <2>4 DEF InvarianteMotivo, TablasTipo
  <2>7. ASSUME tablas'.necesidad[e] # {} PROVE Motivo(e)
    <3>1. /\ \E n \in tablas.necesidad[e] : tablas.disponibles[n] = 0
          /\ Retiene(tablas, Bloqueados, e)
      BY <2>1, <2>7, MarcarDeja DEF InvarianteMotivo
    <3>2. \E n \in inicial.necesidad[e] : inicial.disponibles[n] = 0
      BY <3>1 DEF InvarianteMotivo, TablasTipo
    <3>3. Retiene(inicial, Bloqueados, e)
      BY <2>1, <3>1 DEF Retiene, InvarianteMotivo
    <3> QED
      BY <3>2, <3>3 DEF Motivo
  <2>8. ASSUME NEW o \in Bloqueados \ porVisitar', tablas'.necesidad[o] # {}
        PROVE  Motivo(o)'
    <3>1. Motivo(o)
      BY <2>1, <2>3, <2>7, <2>8 DEF InvarianteMotivo
    <3> QED
      BY <2>1, <3>1 DEF Motivo
  <2>9. \A o \in porVisitar' : tablas'.asignacion[o] = inicial'.asignacion[o]
    BY <2>1, <2>3 DEF InvarianteMotivo
  <2> QED
    BY <2>1, <2>2, <2>5, <2>6, <2>8, <2>9 DEF InvarianteMotivo
<1> QED
  BY <1>1, <1>2 DEF Next

LEMMA MotivoAlcanza == InvarianteMotivo => ListadoConMotivo
  BY DEF InvarianteMotivo, ListadoConMotivo, Motivo, GetDeadlock, TablasTipo

\* A trainer is sent to fight only if what it waits for was not free and somebody
\* waits for something it holds (deadlock.c, puedeEjecutar and sufreInanicion).
THEOREM Deteccion_ConMotivo == Spec => []ListadoConMotivo
<1>1. Spec => []InvarianteMotivo
  BY MotivoInicial, MotivoPaso, PTL DEF Spec
<1> QED
  BY <1>1, MotivoAlcanza, PTL
=============================================================================
