--------------------------- MODULE Cuentas_proofs ---------------------------
(***************************************************************************)
(* What the map keeps of each trainer against what is true of it, for any  *)
(* map: the pokemons it counts as captured and those the trainer has got,  *)
(* whom the detector chooses to fight, the turn that is left to it, and    *)
(* whom SRDF can choose.  Last, what holds of a map without fights.        *)
(***************************************************************************)
EXTENDS Conversacion_proofs, WellFoundedInduction

\* The least of some naturals, for the inductions.
LEMMA MinimoNat ==
    ASSUME NEW T \in SUBSET Nat, T # {}
    PROVE  \E k \in T : \A j \in T : k <= j
<1> DEFINE R == OpToRel(<, Nat)
<1>1. IsWellFoundedOn(R, Nat)
  BY NatLessThanWellFounded
<1>2. \A j, k \in Nat : j < k => <<j, k>> \in R
  BY DEF OpToRel
<1> HIDE DEF R
<1>3. PICK k \in T : \A j \in T : <<j, k>> \notin R
  BY <1>1, WFMin
<1>4. ASSUME NEW j \in T PROVE k <= j
  <2>1. j \in Nat /\ k \in Nat /\ ~(j < k)
    BY <1>2, <1>3
  <2> QED
    BY <2>1
<1> QED
  BY <1>3, <1>4

-----------------------------------------------------------------------------
(***************************************************************************)
(* What calcularMatriz computes, by induction on the rows it has visited.  *)
(***************************************************************************)
\* t with the first k rows of an order marked, one after another.
Pasos(f, t, orden, k) ==
    f = [i \in 0 .. k |-> IF i = 0 THEN t ELSE Marcar(f[i - 1], orden[i])]

LEMMA HayPasos == ASSUME NEW t, NEW orden PROVE \A k \in Nat : \E f : Pasos(f, t, orden, k)
<1> DEFINE Falla == {k \in Nat : ~\E f : Pasos(f, t, orden, k)}
<1> SUFFICES ASSUME Falla # {} PROVE FALSE
  OBVIOUS
<1>1. PICK k \in Falla : \A j \in Falla : k <= j
  BY MinimoNat
<1>2. CASE k = 0
  <2> DEFINE f == [i \in 0 .. 0 |-> t]
  <2>1. Pasos(f, t, orden, 0)
    BY DEF Pasos
  <2> QED
    BY <1>2, <2>1
<1>3. CASE k # 0
  <2>1. k - 1 \in Nat /\ k - 1 \notin Falla
    BY <1>1, <1>3
  <2>2. PICK f : Pasos(f, t, orden, k - 1)
    BY <2>1
  <2> DEFINE g == [i \in 0 .. k |-> IF i = k THEN Marcar(f[k - 1], orden[k]) ELSE f[i]]
             h == [i \in 0 .. k |-> IF i = 0 THEN t ELSE Marcar(g[i - 1], orden[i])]
  <2>3. ASSUME NEW i \in 0 .. k PROVE g[i] = h[i]
    <3>1. CASE i = 0
      BY <1>3, <2>1, <2>2, <3>1 DEF Pasos
    <3>2. CASE i = k
      BY <1>3, <2>1, <3>2
    <3>3. CASE i # 0 /\ i # k
      <4>1. i \in 0 .. k - 1 /\ i - 1 \in 0 .. k - 1 /\ i - 1 # k
        BY <2>1, <3>3
      <4>2. f[i] = Marcar(f[i - 1], orden[i])
        BY <2>2, <3>3, <4>1 DEF Pasos
      <4>3. g[i] = f[i] /\ g[i - 1] = f[i - 1] /\ h[i] = Marcar(g[i - 1], orden[i])
        BY <2>1, <3>3, <4>1
      <4> QED
        BY <4>2, <4>3
    <3> QED
      BY <3>1, <3>2, <3>3
  <2>4. g = h
    BY <2>3
  <2>5. Pasos(g, t, orden, k)
    BY <2>4 DEF Pasos
  <2> QED
    BY <2>5
<1> QED
  BY <1>2, <1>3

LEMMA CalcularMatrizPasos ==
    ASSUME NEW t, NEW S, NEW orden \in Seq(S)
    PROVE  \E f : Pasos(f, t, orden, Len(orden)) /\ CalcularMatriz(t, orden) = f[Len(orden)]
<1> DEFINE paso == CHOOSE f : f = [i \in 0 .. Len(orden) |->
                                     IF i = 0 THEN t ELSE Marcar(f[i - 1], orden[i])]
<1>1. Len(orden) \in Nat
  OBVIOUS
<1>2. \E f : f = [i \in 0 .. Len(orden) |->
                     IF i = 0 THEN t ELSE Marcar(f[i - 1], orden[i])]
  <2>1. PICK f : Pasos(f, t, orden, Len(orden))
    BY <1>1, HayPasos
  <2> QED
    BY <2>1 DEF Pasos
<1>3. Pasos(paso, t, orden, Len(orden))
  BY <1>2 DEF Pasos
<1>4. CalcularMatriz(t, orden) = paso[Len(orden)]
  BY DEF CalcularMatriz
<1> QED
  BY <1>3, <1>4

\* Tables for the trainers of S.
Bien(t, S) ==
    /\ t = [disponibles |-> t.disponibles, asignacion |-> t.asignacion,
            necesidad |-> t.necesidad]
    /\ t.disponibles \in [Pokenests -> Nat]
    /\ t.asignacion \in [S -> [Pokenests -> Nat]]
    /\ t.necesidad \in [S -> SUBSET Pokenests]

\* A row survives its visit as it was, and only if its trainer holds something.
LEMMA MarcarFila ==
    ASSUME NEW t, NEW S, Bien(t, S), NEW e \in S
    PROVE  /\ Bien(Marcar(t, e), S)
           /\ \A o \in S \ {e} :
                 /\ Marcar(t, e).necesidad[o] = t.necesidad[o]
                 /\ Marcar(t, e).asignacion[o] = t.asignacion[o]
           /\ \/ Marcar(t, e).necesidad[e] = {}
              \/ Marcar(t, e) = t /\ TieneAsignados(t.asignacion, e)
<1>1. CASE ~TieneAsignados(t.asignacion, e)
  <2>1. Marcar(t, e) = [t EXCEPT !.necesidad[e] = {}]
    BY <1>1 DEF Marcar
  <2> QED
    BY <2>1 DEF Bien
<1>2. CASE /\ TieneAsignados(t.asignacion, e)
           /\ PuedeEjecutar(t, e) \/ SufreInanicion(t, e)
  <2> DEFINE d == AumentarDisponible(t.disponibles, t.asignacion[e])
             a == [t.asignacion EXCEPT ![e] = [n \in Pokenests |-> 0]]
             r == [t.necesidad EXCEPT ![e] = {}]
  <2>1. Marcar(t, e) = [disponibles |-> d, asignacion |-> a, necesidad |-> r]
    BY <1>2 DEF Marcar, Bien
  <2>2. d \in [Pokenests -> Nat]
    BY DEF AumentarDisponible, Bien
  <2>3. a \in [S -> [Pokenests -> Nat]] /\ r \in [S -> SUBSET Pokenests] /\ r[e] = {}
    BY DEF Bien
  <2>4. \A o \in S \ {e} : a[o] = t.asignacion[o] /\ r[o] = t.necesidad[o]
    BY DEF Bien
  <2> HIDE DEF d, a, r
  <2> QED
    BY <2>1, <2>2, <2>3, <2>4 DEF Bien
<1>3. CASE /\ TieneAsignados(t.asignacion, e)
           /\ ~PuedeEjecutar(t, e) /\ ~SufreInanicion(t, e)
  BY <1>3 DEF Marcar
<1> QED
  BY <1>1, <1>2, <1>3

\* So whoever is left in matrizNecesidad holds something.
LEMMA FilaConUnidades ==
    ASSUME NEW t, NEW S, Bien(t, S), NEW orden \in Seq(S),
           NEW e \in S, EnCola(orden, e), CalcularMatriz(t, orden).necesidad[e] # {}
    PROVE  TieneAsignados(t.asignacion, e)
<1>1. PICK f : Pasos(f, t, orden, Len(orden)) /\ CalcularMatriz(t, orden) = f[Len(orden)]
  BY CalcularMatrizPasos
<1>2. Len(orden) \in Nat
  OBVIOUS
<1> DEFINE Vale(k) == /\ Bien(f[k], S)
                      /\ f[k].necesidad[e] = {} \/ f[k].asignacion[e] = t.asignacion[e]
                      /\ \A j \in 1 .. k : orden[j] = e =>
                            \/ f[k].necesidad[e] = {}
                            \/ TieneAsignados(t.asignacion, e)
           Falla == {k \in Nat : k <= Len(orden) /\ ~Vale(k)}
<1>3. ASSUME Falla # {} PROVE FALSE
  <2>1. PICK k \in Falla : \A j \in Falla : k <= j
    BY <1>3, MinimoNat
  <2>2. k \in Nat /\ k <= Len(orden) /\ ~Vale(k)
    BY <2>1
  <2>3. CASE k = 0
    <3>1. f[0] = t
      BY <1>1, <1>2 DEF Pasos
    <3> QED
      BY <2>2, <2>3, <3>1
  <2>4. CASE k # 0
    <3>1. k - 1 \in Nat /\ k - 1 <= Len(orden) /\ k - 1 \notin Falla /\ k \in 1 .. Len(orden)
      BY <2>1, <2>2, <2>4, <1>2
    <3>2. Vale(k - 1)
      BY <3>1
    <3>3. f[k] = Marcar(f[k - 1], orden[k]) /\ orden[k] \in S
      BY <1>1, <1>2, <2>2, <2>4 DEF Pasos
    <3>4. /\ Bien(f[k], S)
          /\ orden[k] # e => /\ f[k].necesidad[e] = f[k - 1].necesidad[e]
                             /\ f[k].asignacion[e] = f[k - 1].asignacion[e]
          /\ orden[k] = e =>
                \/ f[k].necesidad[e] = {}
                \/ f[k] = f[k - 1] /\ TieneAsignados(f[k - 1].asignacion, e)
      <4>1. PICK o \in S : o = orden[k]
        BY <3>3
      <4> DEFINE u == f[k - 1]
      <4> Bien(u, S)
        BY <3>2
      <4> HIDE DEF u
      <4>2. Bien(Marcar(u, o), S)
        BY MarcarFila
      <4>3. o # e => /\ Marcar(u, o).necesidad[e] = u.necesidad[e]
                     /\ Marcar(u, o).asignacion[e] = u.asignacion[e]
        BY MarcarFila
      <4>4. \/ Marcar(u, o).necesidad[o] = {}
            \/ Marcar(u, o) = u /\ TieneAsignados(u.asignacion, o)
        BY MarcarFila
      <4>5. f[k] = Marcar(u, o)
        BY <3>3, <4>1 DEF u
      <4> QED
        BY <4>1, <4>2, <4>3, <4>4, <4>5 DEF u
    <3>5. \A j \in 1 .. k : j = k \/ j \in 1 .. k - 1
      BY <2>2
    <3>6. CASE orden[k] # e
      BY <2>2, <3>2, <3>4, <3>5, <3>6
    <3>7. CASE orden[k] = e /\ f[k].necesidad[e] = {}
      BY <2>2, <3>4, <3>7
    <3>8. CASE orden[k] = e /\ f[k].necesidad[e] # {}
      <4>1. f[k] = f[k - 1] /\ TieneAsignados(f[k - 1].asignacion, e)
        BY <3>4, <3>8
      <4>2. f[k - 1].asignacion[e] = t.asignacion[e]
        BY <3>2, <3>8, <4>1
      <4>3. TieneAsignados(t.asignacion, e)
        BY <4>1, <4>2 DEF TieneAsignados
      <4> QED
        BY <2>2, <3>4, <4>1, <4>2, <4>3
    <3> QED
      BY <3>6, <3>7, <3>8
  <2> QED
    BY <2>3, <2>4
<1>4. Vale(Len(orden))
  BY <1>2, <1>3
<1> HIDE DEF Vale
<1>5. PICK j \in 1 .. Len(orden) : orden[j] = e
  BY DEF EnCola
<1> QED
  BY <1>1, <1>4, <1>5 DEF Vale

-----------------------------------------------------------------------------
(***************************************************************************)
(* Whoever fights holds something.                                         *)
(***************************************************************************)
Peleadoras == \A c \in Conexiones : EnCola(pelea, c) => \E n \in Pokenests : atrapados[c][n] # {}

LEMMA EnDeadlockTiene ==
    ASSUME Tipos, NEW orden \in Ordenes(Miembros(bloqueados)), NEW c \in Miembros(bloqueados),
           CalcularMatriz(TablasDeDeadlock, orden).necesidad[c] # {}
    PROVE  \E n \in Pokenests : atrapados[c][n] # {}
<1> DEFINE E == Miembros(bloqueados)
           asignacion == [d \in E |-> [n \in Pokenests |->
               IF d \in Miembros(colaBlock) THEN Cardinality(atrapados[d][n]) ELSE 0]]
           necesidad == [d \in E |-> {msj[d].pokemon}]
<1> USE DEF Tipos, TypeOK
<1>1. /\ bloqueados \in Seq(Conexiones) /\ orden \in Seq(E) /\ EnCola(orden, c)
      /\ E \subseteq Conexiones
  <2>1. bloqueados \in Seq(Conexiones)
    BY DEF TipoDeadlock
  <2>2. E \subseteq Conexiones
    BY <2>1, ElementOfSeq DEF Miembros
  <2>3. EnCola(orden, c) /\ \A d : EnCola(orden, d) => d \in E
    BY <2>1, OrdenesUnaVez
  <2>4. orden \in Seq(E)
    <3>1. orden \in Seq(Conexiones)
      BY <2>1, OrdenesUnaVez
    <3>2. \A i \in 1 .. Len(orden) : orden[i] \in E
      BY <2>3 DEF EnCola
    <3> QED
      BY <3>1, <3>2
  <2> QED
    BY <2>1, <2>2, <2>3, <2>4
<1>2. \A d \in E, n \in Pokenests : Cardinality(atrapados[d][n]) \in Nat
  BY <1>1, NidosFinitos, FS_CardinalityType
<1>3. asignacion \in [E -> [Pokenests -> Nat]]
  BY <1>2
<1>4. necesidad \in [E -> SUBSET Pokenests]
  BY <1>1 DEF TipoInfo, MsjGuardado
<1> DEFINE t == TablasDeDeadlock
<1>5. Bien(t, E) /\ t.asignacion = asignacion
  <2>1. t = [disponibles |-> cantidad, asignacion |-> asignacion, necesidad |-> necesidad]
    BY DEF TablasDeDeadlock, Tablas
  <2>2. cantidad \in [Pokenests -> Nat]
    BY DEF TipoRecursos
  <2> HIDE DEF asignacion, necesidad, t, E
  <2> QED
    BY <1>3, <1>4, <2>1, <2>2 DEF Bien
<1>6. TieneAsignados(t.asignacion, c)
  <2> c \in E
    OBVIOUS
  <2> t.asignacion = asignacion /\ CalcularMatriz(t, orden).necesidad[c] # {} /\ Bien(t, E)
    BY <1>5
  <2> HIDE DEF t, E, asignacion
  <2> QED
    BY <1>1, FilaConUnidades
<1>7. PICK n \in Pokenests : asignacion[c][n] > 0
  BY <1>3, <1>5, <1>6 DEF TieneAsignados
<1>8. Cardinality(atrapados[c][n]) > 0
  BY <1>1, <1>2, <1>7
<1>9. atrapados[c][n] # {}
  BY <1>1, <1>8, NidosFinitos, FS_EmptySet
<1> QED
  BY <1>9

\* The detector chooses them, and only a loser, who is out of pelea, loses its own.
LEMMA NextPeleadoras == Tipos /\ Lugares /\ Peleadoras /\ [Next]_vars => Peleadoras'
<1> SUFFICES ASSUME Tipos, Lugares, Peleadoras, [Next]_vars PROVE Peleadoras'
  OBVIOUS
<1> USE DEF Tipos, TypeOK
<1>1. CASE D_Calcula
  <2>1. PICK orden \in Ordenes(Miembros(bloqueados)) :
           pelea' \in Ordenes(GetDeadlock(CalcularMatriz(TablasDeDeadlock, orden),
                                          Miembros(bloqueados)))
    BY <1>1 DEF D_Calcula
  <2> DEFINE S == GetDeadlock(CalcularMatriz(TablasDeDeadlock, orden), Miembros(bloqueados))
  <2>2. /\ S \subseteq Miembros(bloqueados)
        /\ \A c \in S : CalcularMatriz(TablasDeDeadlock, orden).necesidad[c] # {}
    BY DEF GetDeadlock
  <2> HIDE DEF S
  <2>3. \A c : EnCola(pelea', c) => c \in S
    <3>1. pelea' \in Ordenes(S)
      BY <2>1 DEF S
    <3> QED
      BY <2>2, <3>1, OrdenesUnaVez DEF TipoDeadlock
  <2>4. \A c \in S : \E n \in Pokenests : atrapados[c][n] # {}
    BY <2>2, EnDeadlockTiene
  <2>5. UNCHANGED atrapados
    BY <1>1 DEF D_Calcula, recursos
  <2> QED
    BY <2>3, <2>4, <2>5 DEF Peleadoras
<1>2. CASE ~D_Calcula
  <2>1. UNCHANGED pelea \/ (pelea # <<>> /\ pelea' = Tail(pelea))
    <3>1. CASE UNCHANGED deadlock \/ UNCHANGED vars
      BY <3>1 DEF deadlock, vars
    <3>2. CASE Interbloqueo
      BY <1>2, <3>2 DEF Interbloqueo, D_Chequea, D_Lock, D_Desafia, D_Elige, D_EligeNull,
         D_SacaCaido, D_Libera, D_Mata, D_Entrega, D_Saca, D_Espera, D_EsperaNull,
         D_AvisaReady, D_SenalReady, D_EntregaNull, D_Rebloquea, D_AvisaVacio,
         D_SenalVacio, D_Suelta, D_Despierta, EnD, deadlock, Punteros, PunteroDeadlock
    <3>3. CASE Planificar
      BY <3>1, <3>3 DEF Planificar, P_Chequea, P_Duerme, P_Otorga, P_Atiende, P_Cercano,
         P_RecibeMoverse, P_RecibeCapturar, P_RecibeFin, P_AvisaVacio, P_SenalVacio,
         P_SenalBlock
    <3>4. CASE Bloquear
      BY <3>1, <3>4 DEF Bloquear, B_Chequea, B_DuermeVacio, B_Lock, B_Entrega, B_Rebloquea,
         B_Pregunta, B_DuermeBlock, B_Despierta, B_Recibe, B_RecibeFin, B_AvisaReady,
         B_SenalReady
    <3>5. CASE Atender \/ Recargar
      BY <3>1, <3>5 DEF Atender, M_Select, M_Acepta, M_AceptaNull, M_AvisaReady,
         M_SenalReady, M_Revisa, M_Borra, M_Saca, M_AvisaBlock, M_Termina, Recargar
    <3>6. CASE \E c \in Conexiones : E_Conecta(c) \/ Avanza(c) \/ E_Cae(c)
      BY <3>1, <3>6 DEF E_Conecta, E_Cae, Avanza, E_Saluda, E_Camina, E_Captura, E_Pelea,
         E_Muere, E_Otro
    <3> QED
      BY <3>1, <3>2, <3>3, <3>4, <3>5, <3>6 DEF Next
  <2>2. \A c \in Conexiones : EnCola(pelea', c) => EnCola(pelea, c)
    BY <2>1, ColaTail DEF TipoDeadlock
  <2>3. \A c \in Conexiones : EnCola(pelea, c) => ~EnCola(peleadores, c)
    BY DEF Lugares, Separado
  <2>4. ASSUME NEW c \in Conexiones, EnCola(pelea, c), NEW n \in Pokenests
        PROVE  atrapados[c][n] \subseteq atrapados'[c][n]
    <3>1. CASE UNCHANGED recursos
      BY <3>1 DEF recursos
    <3>2. ASSUME NEW d \in Conexiones, NEW m \in MsjGuardado, Entregar(d, m)
          PROVE  atrapados[c][n] \subseteq atrapados'[c][n]
      <4>1. m.pokemon \in Pokenests
        BY DEF MsjGuardado
      <4> QED
        BY <3>2, <4>1 DEF Entregar, TipoRecursos
    <3>3. ASSUME NEW d \in Conexiones, EnCola(peleadores, d), LiberarRecursos(d)
          PROVE  atrapados[c][n] \subseteq atrapados'[c][n]
      BY <2>3, <2>4, <3>3 DEF LiberarRecursos, TipoRecursos
    <3> QED
      BY <3>1, <3>2, <3>3, QuienMueve
  <2> QED
    BY <2>2, <2>4 DEF Peleadoras
<1> QED
  BY <1>1, <1>2

LEMMA Spec_Peleadoras == Spec /\ []Disciplina => []Peleadoras
<1>1. Init => Peleadoras
  BY ColaVacia DEF Init, Peleadoras
<1> QED
  BY <1>1, NextPeleadoras, Spec_Tipos, Spec_Lugares, PTL DEF Spec

-----------------------------------------------------------------------------
(***************************************************************************)
(* What the map writes: a delivery, to a trainer that was told nothing     *)
(* else, or one message to somebody that is not being given a pokemon.     *)
(***************************************************************************)
LEMMA LoQueEscribe ==
    ASSUME Sabido, [Next]_vars
    PROVE  \/ /\ UNCHANGED <<procesos, aEntrenador>>
              /\ UNCHANGED recursos \/ \E c \in Conexiones : LiberarRecursos(c)
           \/ /\ UNCHANGED procesos
              /\ \E c \in Conexiones \ destruidos, m \in MsjGuardado :
                    Entregar(c, m) /\ Nada(c) /\ pcE[c] # "fuera"
           \/ /\ UNCHANGED <<procesos, recursos>>
              /\ \E h \in Conexiones :
                    /\ ~EnPremio(h) /\ ~EnPremio(h)'
                    /\ \A d \in Conexiones \ {h} : aEntrenador'[d] = aEntrenador[d]
           \/ \E h \in Conexiones : E_Conecta(h) \/ Avanza(h) \/ E_Cae(h)
<1> USE DEF Sabido, Tipos, TypeOK
\* One that is served is asked nothing in the meantime.
<1>1. ASSUME NEW c \in Conexiones, Bloqueado(c), ~EnDesafio(c), ~EnPremio(c)
      PROVE  Nada(c) /\ pcE[c] # "fuera"
  BY <1>1 DEF Papeles, UnPapel, Conversacion, Charla
<1>2. ASSUME NEW h \in Conexiones, NEW tramas, Enviar(h, tramas)
      PROVE  \A d \in Conexiones \ {h} : aEntrenador'[d] = aEntrenador[d]
  BY <1>2 DEF Enviar, TipoRed
<1>3. CASE Planificar
  <2>1. /\ UNCHANGED <<procesos, recursos, peleadores, entB, pcD>>
        /\ pcB' = "recibe" <=> pcB = "recibe"
    BY <1>3 DEF Planificar, P_Chequea, P_Duerme, P_Otorga, P_Atiende, P_Cercano,
       P_RecibeMoverse, P_RecibeCapturar, P_RecibeFin, P_AvisaVacio, P_SenalVacio,
       P_SenalBlock, SenalBlockEmpty, SenalBlock, block, deadlock
  <2>2. \A h \in Conexiones : EnPremio(h)' <=> EnPremio(h)
    BY <2>1 DEF EnPremio
  <2>3. CASE UNCHANGED aEntrenador
    BY <2>1, <2>3
  <2>4. CASE P_Otorga
    <3>1. Head(colaReady) \in Conexiones /\ EnCola(colaReady, Head(colaReady))
      BY <2>4, ColaTail DEF P_Otorga, EnP, Punteros, PunteroPlanificador, TipoColas
    <3>2. ~EnPremio(Head(colaReady))
      BY <3>1 DEF Papeles, UnPapel
    <3>3. Enviar(Head(colaReady), <<msj[Head(colaReady)]>>)
      BY <2>4 DEF P_Otorga
    <3> QED
      BY <1>2, <2>1, <2>2, <3>1, <3>2, <3>3
  <2>5. CASE P_Atiende /\ ~UNCHANGED aEntrenador
    <3>1. PICK i \in PidenUbicacion : Enviar(colaReady[i], <<msj[colaReady[i]]>>)
      BY <2>5 DEF P_Atiende, Primero
    <3>2. colaReady[i] \in Conexiones /\ EnCola(colaReady, colaReady[i])
      BY <3>1, ElementOfSeq DEF PidenUbicacion, TipoColas, EnCola
    <3>3. ~EnPremio(colaReady[i])
      BY <3>2 DEF Papeles, UnPapel
    <3> QED
      BY <1>2, <2>1, <2>2, <3>1, <3>2, <3>3
  <2>6. CASE P_RecibeMoverse /\ ~UNCHANGED aEntrenador
    <3>1. entP \in Conexiones /\ ~EnPremio(entP)
      BY <2>6 DEF P_RecibeMoverse, EnP, Punteros, PunteroPlanificador, Papeles, UnPapel, EnTurno
    <3>2. \E m : Enviar(entP, <<m>>)
      BY <2>6 DEF P_RecibeMoverse
    <3> QED
      BY <1>2, <2>1, <2>2, <3>1, <3>2
  <2>7. CASE ~P_Otorga /\ ~P_Atiende /\ ~P_RecibeMoverse
    BY <1>3, <2>3, <2>7 DEF Planificar, P_Chequea, P_Duerme, P_Cercano, P_RecibeCapturar,
       P_RecibeFin, P_AvisaVacio, P_SenalVacio, P_SenalBlock, red
  <2> QED
    BY <2>3, <2>4, <2>5, <2>6, <2>7
<1>4. CASE B_Entrega
  <2>1. /\ UNCHANGED procesos /\ Entregar(entB, msj[entB])
        /\ entB \in Conexiones \ destruidos /\ msj[entB] \in MsjGuardado
    BY <1>4 DEF B_Entrega, EnB, Punteros, PunteroBlock, TipoInfo, Lugares, Derrotado
  <2>2. Bloqueado(entB) /\ ~EnDesafio(entB) /\ ~EnPremio(entB)
    <3>1. pcB = "pokemon" /\ ~EnManos(entB)
      BY <1>4, <2>1 DEF B_Entrega, EnB, Lugares, Separado
    <3> QED
      BY <2>1, <3>1, ColaTail DEF Bloqueado, EnDesafio, EnPremio, EnManos, Punteros,
         PunteroDeadlock, TipoDeadlock
  <2> QED
    BY <1>1, <2>1, <2>2
<1>5. CASE Bloquear /\ ~B_Entrega
  BY <1>5 DEF Bloquear, B_Chequea, B_DuermeVacio, B_Lock, B_Rebloquea, B_Pregunta,
     B_DuermeBlock, B_Despierta, B_Recibe, B_RecibeFin, B_AvisaReady, B_SenalReady, red
<1>6. CASE D_Entrega
  <2> DEFINE m == Con(msj[Head(peleadores)], "CAPTURAR_POKEMON")
  <2>1. PICK c \in Conexiones : c = Head(peleadores) /\ EnCola(peleadores, c)
    BY <1>6, ColaTail DEF D_Entrega, TipoDeadlock
  <2>2. m \in MsjGuardado
    BY <2>1, ConTipo DEF TipoInfo, Acciones
  <2>3. UNCHANGED procesos /\ Entregar(c, m) /\ c \notin destruidos /\ pcD = "entrega"
    BY <1>6, <2>1 DEF D_Entrega, EnD, Lugares, Derrotado
  <2>4. Bloqueado(c) /\ ~EnDesafio(c) /\ ~EnPremio(c)
    BY <2>1, <2>3 DEF Bloqueado, EnDesafio, EnPremio, EnManos, Lugares, Separado
  <2> QED
    BY <1>1, <2>2, <2>3, <2>4
<1>7. CASE D_Desafia
  <2>1. PICK c \in Conexiones : c = Head(pelea) /\ EnCola(pelea, c)
    BY <1>7, ColaTail DEF D_Desafia, EnD, TipoDeadlock, Punteros, PunteroDeadlock
  <2>2. UNCHANGED <<procesos, recursos, block>> /\ pcD = "desafia" /\ pcD' = "elige"
    BY <1>7 DEF D_Desafia, EnD
  <2>3. ~EnPremio(c) /\ ~EnPremio(c)'
    BY <2>1, <2>2 DEF EnPremio, Lugares, Separado, EnManos, block
  <2>4. \A d \in Conexiones \ {c} : aEntrenador'[d] = aEntrenador[d]
    BY <1>2, <1>7, <2>1 DEF D_Desafia
  <2> QED
    BY <2>2, <2>3, <2>4
<1>8. CASE D_Mata
  <2>1. PICK c \in Conexiones : c = entD
    BY <1>8 DEF D_Mata, EnD, Punteros, PunteroDeadlock
  <2>2. UNCHANGED <<procesos, recursos, block>> /\ pcD = "mata" /\ pcD' = "entrega"
    BY <1>8 DEF D_Mata, EnD
  <2>3. ~EnPremio(c) /\ ~EnPremio(c)'
    BY <2>1, <2>2 DEF EnPremio, Lugares, Separado, EnManos, block
  <2>4. \A d \in Conexiones \ {c} : aEntrenador'[d] = aEntrenador[d]
    BY <1>2, <1>8, <2>1 DEF D_Mata
  <2> QED
    BY <2>2, <2>3, <2>4
<1>9. CASE D_Libera
  <2>1. UNCHANGED <<procesos, aEntrenador>> /\ \E c \in Conexiones : LiberarRecursos(c)
    <3>1. \A i \in 1 .. Len(peleadores) : peleadores[i] \in Conexiones
      BY ElementOfSeq DEF TipoDeadlock
    <3> QED
      BY <1>9, <3>1 DEF D_Libera, red
  <2> QED
    BY <2>1
<1>10. CASE Interbloqueo /\ ~D_Entrega /\ ~D_Desafia /\ ~D_Mata /\ ~D_Libera
  BY <1>10 DEF Interbloqueo, D_Chequea, D_Lock, D_Calcula, D_Elige, D_EligeNull, D_SacaCaido,
     D_Saca, D_Espera, D_EsperaNull, D_AvisaReady, D_SenalReady, D_EntregaNull,
     D_Rebloquea, D_AvisaVacio, D_SenalVacio, D_Suelta, D_Despierta, red
<1>11. CASE Atender \/ Recargar \/ UNCHANGED vars
  BY <1>11 DEF Atender, M_Select, M_Acepta, M_AceptaNull, M_AvisaReady, M_SenalReady,
     M_Revisa, M_Borra, M_Saca, M_AvisaBlock, M_Termina, Recargar, vars, red
<1> QED
  BY <1>3, <1>4, <1>5, <1>6, <1>7, <1>8, <1>9, <1>10, <1>11 DEF Next

-----------------------------------------------------------------------------
(***************************************************************************)
(* The backpack of a trainer and what the map believes is in it.           *)
(***************************************************************************)
Tiene(c) == UNION {atrapados[c][n] : n \in Pokenests}

\* The delivery that has not been read.
EnCamino(c) == IF Len(aEntrenador[c]) = 2 THEN 1 ELSE 0

\* Only in its first life does a trainer bring nothing from another.
Mochila(c) ==
    /\ Abierta(c) => Cardinality(Tiene(c)) <= mochila[Simbolo(c)] + EnCamino(c)
    /\ Abierta(c) /\ Vida(c) = 1 /\ c \notin destruidos =>
          Cardinality(Tiene(c)) = mochila[Simbolo(c)] + EnCamino(c)
    /\ pcE[c] = "fuera" => Tiene(c) = {} /\ (Vida(c) = 1 => mochila[Simbolo(c)] = 0)

Mochilas == \A c \in Conexiones : Mochila(c)

LEMMA TieneFinito == TipoRecursos => \A c \in Conexiones : IsFiniteSet(Tiene(c))
<1> SUFFICES ASSUME TipoRecursos, NEW c \in Conexiones PROVE IsFiniteSet(Tiene(c))
  OBVIOUS
<1>1. Tiene(c) \in SUBSET Pokemons
  BY DEF TipoRecursos, Tiene
<1> QED
  BY <1>1, FS_Subset, ConstantesAssumption

LEMMA EntregarTiene ==
    ASSUME TipoRecursos, UnicoLugar, NEW c \in Conexiones \ destruidos, NEW m \in MsjGuardado,
           Entregar(c, m)
    PROVE  /\ Cardinality(Tiene(c)') = Cardinality(Tiene(c)) + 1
           /\ \A d \in Conexiones \ {c} : Tiene(d)' = Tiene(d)
           /\ UNCHANGED destruidos
<1>1. m.pokemon \in Pokenests
  BY DEF MsjGuardado
<1>2. PICK p \in libres[m.pokemon] :
         atrapados' = [atrapados EXCEPT ![c][m.pokemon] = @ \cup {p}]
  BY DEF Entregar
<1>3. /\ atrapados'[c][m.pokemon] = atrapados[c][m.pokemon] \cup {p}
      /\ \A n \in Pokenests \ {m.pokemon} : atrapados'[c][n] = atrapados[c][n]
      /\ \A d \in Conexiones \ {c} : atrapados'[d] = atrapados[d]
  BY <1>1, <1>2 DEF TipoRecursos
<1>4. Tiene(c)' = Tiene(c) \cup {p}
  BY <1>1, <1>3 DEF Tiene
<1>5. p \notin Tiene(c)
  BY <1>1 DEF Tiene, UnicoLugar, TipoRecursos
<1>6. Cardinality(Tiene(c) \cup {p}) = Cardinality(Tiene(c)) + 1
  BY <1>5, TieneFinito, FS_AddElement
<1>7. \A d \in Conexiones \ {c} : Tiene(d)' = Tiene(d)
  BY <1>3 DEF Tiene
<1>8. UNCHANGED destruidos
  BY DEF Entregar
<1> QED
  BY <1>4, <1>6, <1>7, <1>8

\* Two frames for a trainer are a delivery.
LEMMA DosTramas ==
    ASSUME Sabido, NEW c \in Conexiones, Len(aEntrenador[c]) = 2
    PROVE  EnPremio(c) /\ Entregado(c)
<1>1. Len(<<>>) = 0
  BY EmptySeq
<1>2. /\ ~Nada(c) /\ ~SeFue(c) /\ (\A K : ~Vuelta(c, K)) /\ (\A K : ~Ida(c, K))
  BY <1>1 DEF Nada, SeFue, Vuelta, Ida
<1>3. ~(pcE[c] = "conectado" /\ Nada(c))
  BY <1>2
<1> QED
  BY <1>2, <1>3 DEF Sabido, Conversacion, Charla, Saludo, Turno, Desafio, Premio, Aviso

SoloAlPremiado == \A c \in Conexiones : Len(aEntrenador[c]) = 2 => EnPremio(c)

LEMMA DosTramasDespues == Sabido' => SoloAlPremiado'
<1>1. Sabido => SoloAlPremiado
  BY DosTramas DEF SoloAlPremiado
<1> QED
  BY <1>1, PTL

\* A visit the step does not touch.
LEMMA MochilaSigue ==
    ASSUME NEW c \in Conexiones, Mochila(c), pcE'[c] = pcE[c],
           Tiene(c)' = Tiene(c), EnCamino(c)' = EnCamino(c), destruidos \subseteq destruidos',
           Abierta(c) \/ (pcE[c] = "fuera" /\ Vida(c) = 1) =>
              mochila'[Simbolo(c)] = mochila[Simbolo(c)]
    PROVE  Mochila(c)'
<1>1. Abierta(c)' <=> Abierta(c)
  BY DEF Abierta
<1> DEFINE k == Cardinality(Tiene(c))
<1>2. k' = k
  OBVIOUS
<1> HIDE DEF k
<1> QED
  BY <1>1, <1>2 DEF Mochila, k

\* Of the visits of a trainer one at most is going on, and then the first has begun.
LEMMA OtraVisita ==
    ASSUME Visitas, NEW h \in Conexiones, Abierta(h), NEW c \in Conexiones \ {h},
           Simbolo(c) = Simbolo(h)
    PROVE  ~Abierta(c) /\ ~(pcE[c] = "fuera" /\ Vida(c) = 1)
<1>1. Vida(c) \in Nat \ {0} /\ Vida(h) \in Nat \ {0}
  BY ConstantesAssumption DEF Conexiones, Vida
<1>2. Vida(c) # Vida(h)
  BY DEF Conexiones, Vida, Simbolo
<1>3. CASE Vida(c) < Vida(h)
  BY <1>3 DEF Visitas, Abierta
<1>4. CASE Vida(h) < Vida(c)
  BY <1>1, <1>4 DEF Visitas, Abierta
<1> QED
  BY <1>1, <1>2, <1>3, <1>4

\* Both sides of a delivery are counted at once, and so is its arrival.
LEMMA NextMochilas ==
    Sabido /\ Sabido' /\ UnicoLugar /\ Mochilas /\ [Next]_vars => Mochilas'
<1> SUFFICES ASSUME Sabido, Sabido', UnicoLugar, Mochilas, [Next]_vars PROVE Mochilas'
  OBVIOUS
<1> USE DEF Sabido, Tipos, TypeOK
<1>1. \A c \in Conexiones : Len(aEntrenador[c]) = 2 => EnPremio(c)
  BY DosTramas
<1>2. \A c \in Conexiones : Len(aEntrenador'[c]) = 2 => EnPremio(c)'
  BY DosTramasDespues DEF SoloAlPremiado
<1>3. \A c \in Conexiones : Simbolo(c) \in Entrenadores /\ mochila[Simbolo(c)] \in Nat
  BY SimboloTipo DEF TipoProcesos
<1>4. UNCHANGED atrapados => \A c \in Conexiones : Tiene(c)' = Tiene(c)
  BY DEF Tiene
<1>5. CASE UNCHANGED <<procesos, aEntrenador, recursos>>
  <2>1. ASSUME NEW c \in Conexiones PROVE Mochila(c)'
    BY <1>4, <1>5, MochilaSigue DEF Mochilas, procesos, recursos, EnCamino
  <2> QED
    BY <2>1 DEF Mochilas
\* liberarRecursos: nothing is what the one that lost holds.
<1>6. ASSUME UNCHANGED <<procesos, aEntrenador>>, NEW h \in Conexiones, LiberarRecursos(h)
      PROVE  Mochilas'
  <2>1. /\ Tiene(h)' = {} /\ destruidos' = destruidos \cup {h}
        /\ \A d \in Conexiones \ {h} : Tiene(d)' = Tiene(d)
    BY <1>6 DEF LiberarRecursos, Tiene, TipoRecursos
  <2>2. ASSUME NEW c \in Conexiones \ {h} PROVE Mochila(c)'
    BY <1>6, <2>1, <2>2, MochilaSigue DEF Mochilas, procesos, EnCamino
  <2>3. Cardinality(Tiene(h)') = 0
    BY <2>1, FS_EmptySet
  <2>4. Mochila(h)'
    BY <1>3, <1>6, <2>1, <2>3 DEF Mochilas, Mochila, procesos, EnCamino
  <2> QED
    BY <2>2, <2>4 DEF Mochilas
\* A delivery, of which a trainer that left hears nothing.
<1>7. ASSUME UNCHANGED procesos, NEW h \in Conexiones \ destruidos, NEW m \in MsjGuardado,
             Entregar(h, m), Nada(h), pcE[h] # "fuera"
      PROVE  Mochilas'
  <2>1. /\ IF Abierta(h) THEN Len(aEntrenador'[h]) = 2 ELSE aEntrenador'[h] = <<>>
        /\ \A d \in Conexiones \ {h} : aEntrenador'[d] = aEntrenador[d]
    BY <1>7, EntregarDos DEF Nada
  <2>2. /\ Cardinality(Tiene(h)') = Cardinality(Tiene(h)) + 1
        /\ \A d \in Conexiones \ {h} : Tiene(d)' = Tiene(d)
        /\ UNCHANGED destruidos
    BY <1>7, EntregarTiene
  <2>3. ASSUME NEW c \in Conexiones \ {h} PROVE Mochila(c)'
    BY <1>7, <2>1, <2>2, <2>3, MochilaSigue DEF Mochilas, procesos, EnCamino
  <2>4. EnCamino(h) = 0 /\ (Abierta(h) => EnCamino(h)' = 1)
    BY <1>7, <2>1, EmptySeq DEF EnCamino, Nada
  <2>5. Cardinality(Tiene(h)) \in Nat
    BY TieneFinito, FS_CardinalityType
  <2>6. Mochila(h)'
    BY <1>3, <1>7, <2>2, <2>4, <2>5 DEF Mochilas, Mochila, procesos, Abierta
  <2> QED
    BY <2>3, <2>6 DEF Mochilas
<1>8. ASSUME UNCHANGED <<procesos, recursos>>, NEW h \in Conexiones,
             ~EnPremio(h), ~EnPremio(h)',
             \A d \in Conexiones \ {h} : aEntrenador'[d] = aEntrenador[d]
      PROVE  Mochilas'
  <2>1. \A c \in Conexiones : EnCamino(c)' = EnCamino(c)
    BY <1>1, <1>2, <1>8 DEF EnCamino
  <2>2. ASSUME NEW c \in Conexiones PROVE Mochila(c)'
    BY <1>4, <1>8, <2>1, MochilaSigue DEF Mochilas, procesos, recursos
  <2> QED
    BY <2>2 DEF Mochilas
<1>9. ASSUME NEW h \in Conexiones, E_Conecta(h) \/ Avanza(h) \/ E_Cae(h)
      PROVE  Mochilas'
  <2>1. UNCHANGED recursos /\ \A d \in Conexiones \ {h} :
           aEntrenador'[d] = aEntrenador[d] /\ pcE'[d] = pcE[d]
    BY <1>9 DEF E_Conecta, E_Cae, Avanza, E_Saluda, E_Camina, E_Captura, E_Pelea, E_Muere,
       E_Otro, Leer, TipoRed, TipoProcesos
  <2>2. \A c \in Conexiones : Tiene(c)' = Tiene(c)
    BY <1>4, <2>1 DEF recursos
  <2>3. ASSUME UNCHANGED mochila, NEW c \in Conexiones \ {h} PROVE Mochila(c)'
    BY <2>1, <2>2, <2>3, MochilaSigue DEF Mochilas, recursos, EnCamino
  <2>4. CASE ~Abierta(h)' /\ pcE'[h] # "fuera" /\ UNCHANGED mochila
    BY <2>3, <2>4 DEF Mochilas, Mochila
  <2>5. CASE E_Conecta(h)
    <3>1. UNCHANGED <<mochila, aEntrenador>> /\ pcE[h] = "fuera" /\ pcE'[h] = "conectado"
      BY <2>5 DEF E_Conecta, EnE, TipoProcesos
    <3>2. EnCamino(h)' = 0
      BY <3>1, DosTramas DEF EnCamino, Entregado
    <3>3. Cardinality(Tiene(h)') = 0
      BY <2>2, <3>1, FS_EmptySet DEF Mochilas, Mochila
    <3>4. Mochila(h)'
      BY <1>3, <3>1, <3>2, <3>3 DEF Mochilas, Mochila
    <3> QED
      BY <2>3, <3>1, <3>4 DEF Mochilas
  <2>6. CASE E_Saluda(h)
    <3>1. UNCHANGED <<mochila, aEntrenador>> /\ pcE[h] = "conectado" /\ pcE'[h] = "mensaje"
      BY <2>6 DEF E_Saluda, EnE, TipoProcesos
    <3>2. EnCamino(h)' = EnCamino(h) /\ UNCHANGED destruidos
      BY <2>1, <3>1 DEF EnCamino, recursos
    <3>3. Mochila(h)'
      BY <2>2, <3>1, <3>2 DEF Mochilas, Mochila, Abierta
    <3> QED
      BY <2>3, <3>1, <3>3 DEF Mochilas
  <2>7. CASE E_Camina(h) \/ (E_Pelea(h) /\ mochila[Simbolo(h)] # 0)
    <3>1. /\ UNCHANGED <<mochila, pcE>> /\ pcE[h] = "mensaje" /\ aEntrenador[h] # <<>>
          /\ Head(aEntrenador[h]).accion # "CAPTURAR_POKEMON" /\ Leer(h)
      BY <2>7 DEF E_Camina, E_Pelea, EnE
    <3>2. Len(aEntrenador[h]) = 1
      BY <3>1, LoQueLee
    <3>3. aEntrenador'[h] = <<>>
      BY <3>1, <3>2, UnMensaje DEF Leer, TipoRed
    <3>4. EnCamino(h)' = EnCamino(h)
      BY <3>2, <3>3, EmptySeq DEF EnCamino
    <3>5. Mochila(h)'
      BY <2>1, <2>2, <3>1, <3>4, MochilaSigue DEF Mochilas, recursos
    <3> QED
      BY <2>3, <3>1, <3>5 DEF Mochilas
  <2>8. CASE E_Muere(h) \/ E_Cae(h) \/ (E_Pelea(h) /\ mochila[Simbolo(h)] = 0)
    <3>1. UNCHANGED mochila /\ pcE'[h] \in {"muerto", "caido"}
      BY <2>8 DEF E_Muere, E_Cae, E_Pelea, TipoProcesos
    <3> QED
      BY <2>4, <3>1 DEF Abierta
  <2>9. CASE E_Otro(h)
    BY <2>9, LoQueLee DEF E_Otro, EnE
  <2>10. CASE E_Captura(h)
    <3>1. pcE[h] = "mensaje" /\ Head(aEntrenador[h]).accion = "CAPTURAR_POKEMON"
          /\ Len(aEntrenador[h]) > 1
      BY <2>10 DEF E_Captura, EnE
    <3>2. aEntrenador[h] # <<>> /\ Len(aEntrenador[h]) = 2
      BY <3>1, LoQueLee, EmptySeq
    \* What it counts is no other visit's.
    <3>3. ASSUME NEW c \in Conexiones \ {h} PROVE Mochila(c)'
      <4>1. CASE Simbolo(c) # Simbolo(h)
        <5>1. mochila'[Simbolo(c)] = mochila[Simbolo(c)]
          BY <1>3, <2>10, <4>1 DEF E_Captura, TipoProcesos
        <5> QED
          BY <2>1, <2>2, <5>1, MochilaSigue DEF Mochilas, recursos, EnCamino
      <4>2. CASE Simbolo(c) = Simbolo(h)
        <5>1. ~Abierta(c) /\ ~(pcE[c] = "fuera" /\ Vida(c) = 1)
          BY <3>1, <4>2, OtraVisita DEF Abierta
        <5> QED
          BY <2>1, <2>2, <5>1, MochilaSigue DEF Mochilas, recursos, EnCamino
      <4> QED
        BY <4>1, <4>2
    <3>4. CASE objetivos[h] = <<>>
      <4>1. pcE'[h] = "cumplido"
        BY <2>10, <3>4 DEF E_Captura, TipoProcesos
      <4> QED
        BY <3>3, <4>1 DEF Mochilas, Mochila, Abierta
    <3>5. CASE objetivos[h] # <<>>
      <4>1. /\ UNCHANGED pcE /\ mochila'[Simbolo(h)] = mochila[Simbolo(h)] + 1
            /\ aEntrenador'[h] = Tail(Tail(aEntrenador[h]))
        BY <1>3, <2>10, <3>5 DEF E_Captura, TipoProcesos, TipoRed
      <4>2. aEntrenador'[h] = <<>>
        BY <3>2, <4>1, UnMensaje DEF TipoRed
      <4>3. EnCamino(h) = 1 /\ EnCamino(h)' = 0
        BY <3>2, <4>2, EmptySeq DEF EnCamino
      <4>4. Cardinality(Tiene(h)) \in Nat
        BY TieneFinito, FS_CardinalityType
      <4>5. Mochila(h)'
        BY <1>3, <2>1, <2>2, <3>1, <4>1, <4>3, <4>4 DEF Mochilas, Mochila, Abierta, recursos
      <4> QED
        BY <3>3, <4>5 DEF Mochilas
    <3> QED
      BY <3>4, <3>5
  <2> QED
    BY <1>9, <2>5, <2>6, <2>7, <2>8, <2>9, <2>10 DEF Avanza
<1> QED
  BY <1>5, <1>6, <1>7, <1>8, <1>9, LoQueEscribe

LEMMA Spec_Mochilas ==
    Spec /\ []Disciplina /\ []PeleaResuelta /\ MismoAlgoritmo => []Mochilas
<1>1. Init => Mochilas
  <2> SUFFICES ASSUME Init, NEW c \in Conexiones PROVE Mochila(c)
    BY DEF Mochilas
  <2>1. Tiene(c) = {} /\ pcE[c] = "fuera" /\ mochila[Simbolo(c)] = 0
    BY SimboloTipo DEF Init, Tiene
  <2> QED
    BY <2>1 DEF Mochila, Abierta
<1> QED
  BY <1>1, NextMochilas, Spec_Sabido, Spec_UnicoLugar, PTL DEF Spec

\* The frames with a pokemon are counted.
LEMMA EnCaminoVale ==
    ASSUME Sabido, NEW c \in Conexiones
    PROVE  Cardinality({i \in 1 .. Len(aEntrenador[c]) : aEntrenador[c][i].accion = "POKEMON"})
             = EnCamino(c)
<1> DEFINE I == {i \in 1 .. Len(aEntrenador[c]) : aEntrenador[c][i].accion = "POKEMON"}
<1>1. Len(<<>>) = 0
  BY EmptySeq
<1>2. CASE Entregado(c)
  <2>1. I = {2} /\ EnCamino(c) = 1
    BY <1>2 DEF Entregado, EnCamino
  <2> QED
    BY <2>1, FS_Singleton
<1>3. CASE ~Entregado(c)
  <2>1. Len(aEntrenador[c]) = 0 \/ (Len(aEntrenador[c]) = 1 /\ aEntrenador[c][1].accion # "POKEMON")
    BY <1>1, <1>3, Formas DEF Nada
  <2>2. I = {} /\ EnCamino(c) = 0
    BY <2>1 DEF EnCamino
  <2> QED
    BY <2>2, FS_EmptySet
<1> QED
  BY <1>2, <1>3

(***************************************************************************)
(* In those histories what the map believes that a trainer holds in its    *)
(* first life is what the trainer has got, and the pokemon on its way.     *)
(***************************************************************************)
THEOREM Spec_MochilaAlDia ==
    Spec /\ []Disciplina /\ []PeleaResuelta /\ MismoAlgoritmo => []MochilaAlDia
<1>1. Sabido /\ Mochilas => MochilaAlDia
  BY EnCaminoVale DEF Mochilas, Mochila, MochilaAlDia, Tiene
<1> QED
  BY <1>1, Spec_Mochilas, Spec_Sabido, PTL

(***************************************************************************)
(* In those histories no trainer process dies by itself: whoever is asked  *)
(* for its best pokemon has one, because the detector found it in the way  *)
(* of another, and nobody finds a pokemon where a message should be.       *)
(***************************************************************************)
THEOREM Spec_NadieCae ==
    Spec /\ []Disciplina /\ []PeleaResuelta /\ MismoAlgoritmo => []NadieCae
<1>1. Sabido /\ Mochilas /\ Peleadoras => NadieCae
  <2> SUFFICES ASSUME Sabido, Mochilas, Peleadoras,
                      NEW c \in Conexiones, pcE[c] = "mensaje", aEntrenador[c] # <<>>
               PROVE  CASE Head(aEntrenador[c]).accion = "BATALLA_POKEMON" ->
                             mochila[Simbolo(c)] > 0
                        [] OTHER -> Head(aEntrenador[c]).accion # "POKEMON"
    BY DEF NadieCae
  <2> DEFINE a == Head(aEntrenador[c]).accion
  <2>1. /\ a # "POKEMON"
        /\ a = "BATALLA_POKEMON" => EnDesafio(c) /\ Len(aEntrenador[c]) = 1
    BY LoQueLee
  <2>2. ASSUME a = "BATALLA_POKEMON" PROVE mochila[Simbolo(c)] > 0
    <3>1. EnCola(pelea, c)
      BY <2>1, <2>2, ColaTail
      DEF EnDesafio, Sabido, Tipos, TypeOK, TipoDeadlock, Punteros, PunteroDeadlock
    <3>2. PICK n \in Pokenests : atrapados[c][n] # {}
      BY <3>1 DEF Peleadoras
    <3>3. Tiene(c) # {}
      BY <3>2 DEF Tiene
    <3>4. Cardinality(Tiene(c)) \in Nat \ {0}
      BY <3>3, TieneFinito, FS_CardinalityType, FS_EmptySet DEF Sabido, Tipos, TypeOK
    <3>5. EnCamino(c) = 0
      BY <2>1, <2>2 DEF EnCamino
    <3>6. mochila[Simbolo(c)] \in Nat
      BY SimboloTipo DEF Sabido, Tipos, TypeOK, TipoProcesos
    <3> QED
      BY <3>4, <3>5, <3>6 DEF Mochilas, Mochila, Abierta
  <2> QED
    BY <2>1, <2>2
<1> QED
  BY <1>1, Spec_Mochilas, Spec_Peleadoras, Spec_Sabido, PTL

-----------------------------------------------------------------------------
(***************************************************************************)
(* What the other threads do to the trainers that hiloPlanificador will    *)
(* find in colaReady: they add some to it, those that were blocked or have *)
(* just been accepted, and leave alone the ones there are.                 *)
(***************************************************************************)
Esperan(c) ==
    /\ EnCola(colaReady, c) => EnCola(colaReady', c) /\ msj'[c] = msj[c]
    /\ EnCola(colaReady', c) => EnCola(colaReady, c) \/ Bloqueado(c) \/ quantum'[c] = 0
    /\ quantum'[c] \in {quantum[c], 0}
    /\ Bloqueado(c)' => Bloqueado(c)

\* A step that moves at most one trainer, one of those they have in their hands.
LEMMA EsperanSalvo ==
    ASSUME Tipos, Lugares, NEW h \in Conexiones, ~EnCola(colaReady, h),
           Bloqueado(h) \/ quantum'[h] = 0,
           colaReady' \in {colaReady, Append(colaReady, h)},
           \A c \in Conexiones \ {h} : msj'[c] = msj[c] /\ quantum'[c] = quantum[c],
           quantum'[h] \in {quantum[h], 0},
           \A c \in Conexiones : Bloqueado(c)' => Bloqueado(c)
    PROVE  \A c \in Conexiones : Esperan(c)
<1>1. \A c \in Conexiones : /\ EnCola(colaReady, c) => EnCola(colaReady', c)
                            /\ EnCola(colaReady', c) => EnCola(colaReady, c) \/ c = h
  <2>1. \A c : EnCola(Append(colaReady, h), c) <=> EnCola(colaReady, c) \/ c = h
    BY ColaAppend DEF Tipos, TypeOK, TipoColas
  <2>2. CASE UNCHANGED colaReady
    BY <2>2
  <2>3. CASE colaReady' = Append(colaReady, h)
    BY <2>1, <2>3
  <2> QED
    BY <2>2, <2>3
<1> QED
  BY <1>1 DEF Esperan

LEMMA BloquearEspera ==
    ASSUME Tipos, Lugares, Bloquear
    PROVE  /\ \A c \in Conexiones : Esperan(c)
           /\ UNCHANGED entP
           /\ pcP' = pcP \/ (pcP = "dormido" /\ pcP' = "chequea")
<1> USE DEF Tipos, TypeOK
<1>1. UNCHANGED <<entP, deadlock, bloqueados, pelea, peleadores, entD>>
  BY DEF Bloquear, B_Chequea, B_DuermeVacio, B_Lock, B_Entrega, B_Rebloquea, B_Pregunta,
     B_DuermeBlock, B_Despierta, B_Recibe, B_RecibeFin, B_AvisaReady, B_SenalReady,
     planificador, deadlock
<1>2. pcP' = pcP \/ (pcP = "dormido" /\ pcP' = "chequea")
  BY DEF Bloquear, B_Chequea, B_DuermeVacio, B_Lock, B_Entrega, B_Rebloquea, B_Pregunta,
     B_DuermeBlock, B_Despierta, B_Recibe, B_RecibeFin, B_AvisaReady, B_SenalReady,
     SenalPlanificador, planificador
<1> SUFFICES ASSUME NEW c \in Conexiones PROVE Esperan(c)
  BY <1>1, <1>2
<1>3. CASE B_Lock
  <2>1. /\ UNCHANGED <<colaReady, info>>
        /\ \/ UNCHANGED <<colaBlock, entB>>
           \/ colaBlock # <<>> /\ entB' = Head(colaBlock) /\ colaBlock' = Tail(colaBlock)
    BY <1>3 DEF B_Lock
  <2>2. EnCola(colaBlock', c) \/ entB' = c => EnCola(colaBlock, c) \/ entB = c
    BY <2>1, ColaTail DEF TipoColas
  <2>3. Bloqueado(c)' => Bloqueado(c)
    BY <1>1, <2>2 DEF Bloqueado, EnManos
  <2> QED
    BY <1>1, <1>2, <2>1, <2>3 DEF Esperan, info
<1>4. CASE B_Rebloquea
  <2>1. /\ UNCHANGED <<colaReady, msj>> /\ entB \in Conexiones /\ entB' = Nadie
        /\ colaBlock' = Append(colaBlock, entB)
        /\ quantum' = [quantum EXCEPT ![entB] = 0]
    BY <1>4 DEF B_Rebloquea, EnB, Punteros, PunteroBlock
  <2>2. Bloqueado(c)' => Bloqueado(c)
    BY <1>1, <2>1, ColaAppend, ConstantesAssumption DEF Bloqueado, EnManos, TipoColas
  <2> QED
    BY <1>1, <1>2, <2>1, <2>2 DEF Esperan, TipoInfo
<1>5. CASE B_Recibe \/ B_RecibeFin
  <2>1. PICK h \in Conexiones : h = entB /\ Bloqueado(h) /\ ~EnCola(colaReady, h)
    BY <1>5 DEF B_Recibe, B_RecibeFin, EnB, Punteros, PunteroBlock, Bloqueado, Lugares, Separado
  <2>2. /\ colaReady' \in {colaReady, Append(colaReady, h)}
        /\ UNCHANGED <<quantum, colaBlock>> /\ entB' = Nadie
    BY <1>5, <2>1 DEF B_Recibe, B_RecibeFin, colas
  <2>3. \A d \in Conexiones \ {h} : msj'[d] = msj[d]
    BY <1>5, <2>1 DEF B_Recibe, B_RecibeFin, GuardarNull, TipoInfo
  <2>4. \A d \in Conexiones : Bloqueado(d)' => Bloqueado(d)
    BY <1>1, <2>2, ConstantesAssumption DEF Bloqueado, EnManos
  <2> QED
    BY <1>1, <1>2, <2>1, <2>2, <2>3, <2>4, EsperanSalvo
<1>6. CASE ~B_Lock /\ ~B_Rebloquea /\ ~B_Recibe /\ ~B_RecibeFin
  <2>1. UNCHANGED <<colas, info, entB>>
    BY <1>6 DEF Bloquear, B_Chequea, B_DuermeVacio, B_Entrega, B_Pregunta,
     B_DuermeBlock, B_Despierta, B_AvisaReady, B_SenalReady
  <2> QED
    BY <1>1, <1>2, <2>1 DEF Esperan, Bloqueado, EnManos, colas, info
<1> QED
  BY <1>3, <1>4, <1>5, <1>6

LEMMA AtenderEspera ==
    ASSUME Tipos, Lugares, Atender
    PROVE  /\ \A c \in Conexiones : Esperan(c)
           /\ UNCHANGED entP
           /\ pcP' = pcP \/ (pcP = "dormido" /\ pcP' = "chequea")
<1> USE DEF Tipos, TypeOK
<1>1. UNCHANGED <<entP, entB, deadlock, bloqueados, pelea, peleadores, entD>>
  BY DEF Atender, M_Select, M_Acepta, M_AceptaNull, M_AvisaReady, M_SenalReady, M_Revisa,
     M_Borra, M_Saca, M_AvisaBlock, M_Termina, planificador, block, deadlock
<1>2. pcP' = pcP \/ (pcP = "dormido" /\ pcP' = "chequea")
  BY DEF Atender, M_Select, M_Acepta, M_AceptaNull, M_AvisaReady, M_SenalReady, M_Revisa,
     M_Borra, M_Saca, M_AvisaBlock, M_Termina, SenalPlanificador, planificador
<1> SUFFICES ASSUME NEW c \in Conexiones PROVE Esperan(c)
  BY <1>1, <1>2
<1>3. CASE M_Acepta
  <2>1. PICK h \in Conexiones : h = Head(pendientes) /\ EnCola(pendientes, h)
    BY <1>3, ColaTail DEF M_Acepta, EnM, Punteros, PunteroPrincipal, TipoRed
  <2>2. /\ ~EnCola(colaReady, h) /\ colaReady' = Append(colaReady, h)
        /\ quantum' = [quantum EXCEPT ![h] = 0] /\ UNCHANGED colaBlock
        /\ \A d \in Conexiones \ {h} : msj'[d] = msj[d]
    BY <1>3, <2>1 DEF M_Acepta, Lugares, Separado, TipoInfo
  <2>3. \A d \in Conexiones : Bloqueado(d)' => Bloqueado(d)
    BY <1>1, <2>2 DEF Bloqueado, EnManos
  <2>4. quantum'[h] = 0 /\ \A d \in Conexiones \ {h} : quantum'[d] = quantum[d]
    BY <2>2 DEF TipoInfo
  <2> QED
    BY <1>1, <1>2, <2>1, <2>2, <2>3, <2>4, EsperanSalvo
<1>4. CASE M_Saca
  <2>1. /\ UNCHANGED <<colaReady, info>>
        /\ \E s : colaBlock' \in PopEntrenador(colaBlock, tamM, s)
    BY <1>4 DEF M_Saca
  <2>2. \A d : EnCola(colaBlock', d) => EnCola(colaBlock, d)
    BY <2>1, ColaPop DEF TipoColas, TipoPrincipal
  <2> QED
    BY <1>1, <1>2, <2>1, <2>2 DEF Esperan, Bloqueado, EnManos, info
<1>5. CASE ~M_Acepta /\ ~M_Saca
  <2>1. UNCHANGED <<colas, info>>
    BY <1>5 DEF Atender, M_Select, M_AceptaNull, M_AvisaReady, M_SenalReady, M_Revisa,
       M_Borra, M_AvisaBlock, M_Termina
  <2> QED
    BY <1>1, <1>2, <2>1 DEF Esperan, Bloqueado, EnManos, colas, info
<1> QED
  BY <1>3, <1>4, <1>5

LEMMA InterbloqueoEspera ==
    ASSUME Tipos, Lugares, Interbloqueo
    PROVE  /\ \A c \in Conexiones : Esperan(c)
           /\ UNCHANGED entP
           /\ pcP' = pcP \/ (pcP = "dormido" /\ pcP' = "chequea")
<1> USE DEF Tipos, TypeOK
<1> Nadie \notin Conexiones
  BY ConstantesAssumption
<1>1. UNCHANGED <<entP, entB>>
  BY DEF Interbloqueo, D_Chequea, D_Lock, D_Calcula, D_Desafia, D_Elige, D_EligeNull,
     D_SacaCaido, D_Libera, D_Mata, D_Entrega, D_Saca, D_Espera, D_EsperaNull, D_AvisaReady,
     D_SenalReady, D_EntregaNull, D_Rebloquea, D_AvisaVacio, D_SenalVacio, D_Suelta,
     D_Despierta, planificador, block
<1>2. pcP' = pcP \/ (pcP = "dormido" /\ pcP' = "chequea")
  BY DEF Interbloqueo, D_Chequea, D_Lock, D_Calcula, D_Desafia, D_Elige, D_EligeNull,
     D_SacaCaido, D_Libera, D_Mata, D_Entrega, D_Saca, D_Espera, D_EsperaNull, D_AvisaReady,
     D_SenalReady, D_EntregaNull, D_Rebloquea, D_AvisaVacio, D_SenalVacio, D_Suelta,
     D_Despierta, SenalPlanificador, planificador
<1> SUFFICES ASSUME NEW c \in Conexiones PROVE Esperan(c)
  BY <1>1, <1>2
\* Nobody is blocked that was not.
<1>3. ASSUME NEW d \in Conexiones PROVE Bloqueado(d)' => Bloqueado(d)
  <2>1. CASE D_Lock
    <3>1. bloqueados' = colaBlock /\ UNCHANGED <<colaBlock, pelea, peleadores, entD>>
      BY <2>1 DEF D_Lock, colas
    <3> QED
      BY <1>1, <3>1 DEF Bloqueado, EnManos
  <2>2. CASE D_Calcula
    <3>1. UNCHANGED <<colaBlock, peleadores, entD>> /\ bloqueados' = <<>>
      BY <2>2 DEF D_Calcula, colas
    <3>2. PICK S \in SUBSET Miembros(bloqueados) : pelea' \in Ordenes(S)
      BY <2>2 DEF D_Calcula, GetDeadlock
    <3>3. EnCola(pelea', d) => d \in S
      BY <3>2, OrdenesUnaVez DEF TipoDeadlock
    <3>4. d \in S => EnCola(bloqueados, d)
      BY DEF Miembros, EnCola
    <3> QED
      BY <1>1, <3>1, <3>3, <3>4, ColaVacia DEF Bloqueado, EnManos
  <2>3. CASE D_Elige
    <3>1. /\ pelea # <<>> /\ pelea' = Tail(pelea)
          /\ peleadores' = Append(peleadores, Head(pelea))
          /\ UNCHANGED <<colaBlock, bloqueados, entD>>
      BY <2>3 DEF D_Elige, EnD, Punteros, PunteroDeadlock, colas
    <3>2. EnCola(pelea', d) \/ EnCola(peleadores', d) => EnCola(pelea, d) \/ EnCola(peleadores, d)
      BY <3>1, ColaTail, ColaAppend DEF TipoDeadlock
    <3> QED
      BY <1>1, <3>1, <3>2 DEF Bloqueado, EnManos
  <2>4. CASE D_SacaCaido
    <3>1. /\ pelea # <<>> /\ pelea' = Tail(pelea) /\ UNCHANGED <<bloqueados, peleadores, entD>>
          /\ \E s : colaBlock' \in PopEntrenador(colaBlock, tamD, s)
      BY <2>4 DEF D_SacaCaido, SacarDeBlock, EnD, Punteros, PunteroDeadlock
    <3>2. EnCola(colaBlock', d) => EnCola(colaBlock, d)
      BY <3>1, ColaPop DEF TipoColas, TipoDeadlock
    <3>3. EnCola(pelea', d) => EnCola(pelea, d)
      BY <3>1, ColaTail DEF TipoDeadlock
    <3> QED
      BY <1>1, <3>1, <3>2, <3>3 DEF Bloqueado, EnManos
  <2>5. CASE D_Libera
    <3>1. PICK i \in 1 .. Len(peleadores) :
            entD' = peleadores[i] /\ peleadores' = Quitar(peleadores, i)
      BY <2>5 DEF D_Libera
    <3>2. EnCola(peleadores', d) \/ entD' = d => EnCola(peleadores, d)
      <4>1. EnCola(peleadores, peleadores[i])
        BY DEF EnCola
      <4> QED
        BY <3>1, <4>1, ColaQuitar DEF TipoDeadlock, Lugares, UnaVez
    <3>3. UNCHANGED <<colaBlock, bloqueados, pelea>>
      BY <2>5 DEF D_Libera, colas
    <3> QED
      BY <1>1, <3>2, <3>3 DEF Bloqueado, EnManos
  <2>6. CASE D_Mata \/ D_Saca
    <3>1. /\ entD' \in {entD, Nadie} /\ UNCHANGED <<bloqueados, pelea, peleadores>>
          /\ \E s : colaBlock' \in PopEntrenador(colaBlock, tamD, s)
      BY <2>6 DEF D_Mata, D_Saca, SacarDeBlock
    <3>2. EnCola(colaBlock', d) => EnCola(colaBlock, d)
      BY <3>1, ColaPop DEF TipoColas, TipoDeadlock
    <3> QED
      BY <1>1, <3>1, <3>2 DEF Bloqueado, EnManos
  <2>7. CASE D_Espera
    <3>1. /\ peleadores # <<>> /\ peleadores' = Tail(peleadores)
          /\ UNCHANGED <<colaBlock, bloqueados, pelea, entD>>
      BY <2>7 DEF D_Espera, EnD, Punteros, PunteroDeadlock
    <3>2. EnCola(peleadores', d) => EnCola(peleadores, d)
      BY <3>1, ColaTail DEF TipoDeadlock
    <3> QED
      BY <1>1, <3>1, <3>2 DEF Bloqueado, EnManos
  <2>8. CASE D_Rebloquea
    <3>1. /\ peleadores # <<>> /\ peleadores' = Tail(peleadores)
          /\ UNCHANGED <<bloqueados, pelea, entD>>
      BY <2>8 DEF D_Rebloquea, EnD, Punteros, PunteroDeadlock
    <3>2. PICK h \in Conexiones :
            h = Head(peleadores) /\ EnCola(peleadores, h)
              /\ \E q \in PopEntrenador(colaBlock, tamD, Simbolo(h)) : colaBlock' = Append(q, h)
      BY <2>8, <3>1, ColaTail DEF D_Rebloquea, TipoDeadlock
    <3>3. PICK q \in PopEntrenador(colaBlock, tamD, Simbolo(h)) : colaBlock' = Append(q, h)
      BY <3>2
    <3>4. q \in Seq(Conexiones) /\ \A e : EnCola(q, e) => EnCola(colaBlock, e)
      BY <3>3, ColaPop, PopEntrenadorTipo DEF TipoColas, TipoDeadlock
    <3>5. EnCola(colaBlock', d) => EnCola(colaBlock, d) \/ d = h
      BY <3>3, <3>4, ColaAppend
    <3>6. EnCola(peleadores', d) => EnCola(peleadores, d)
      BY <3>1, ColaTail DEF TipoDeadlock
    <3> QED
      BY <1>1, <3>1, <3>2, <3>5, <3>6 DEF Bloqueado, EnManos
  <2>9. CASE \/ D_Chequea \/ D_Desafia \/ D_EligeNull \/ D_Entrega \/ D_EsperaNull
             \/ D_AvisaReady \/ D_SenalReady \/ D_EntregaNull \/ D_AvisaVacio
             \/ D_SenalVacio \/ D_Suelta \/ D_Despierta
    <3>1. UNCHANGED <<colaBlock, bloqueados, pelea, peleadores, entD>>
      BY <2>9 DEF D_Chequea, D_Desafia, D_EligeNull, D_Entrega, D_EsperaNull, D_AvisaReady,
         D_SenalReady, D_EntregaNull, D_AvisaVacio, D_SenalVacio, D_Suelta, D_Despierta,
         colas, deadlock
    <3> QED
      BY <1>1, <3>1 DEF Bloqueado, EnManos
  <2> QED
    BY <2>1, <2>2, <2>3, <2>4, <2>5, <2>6, <2>7, <2>8, <2>9 DEF Interbloqueo
\* The one it writes to, or makes ready, is in its hands.
<1>4. \A h \in Conexiones : EnManos(h) => ~EnCola(colaReady, h) /\ Bloqueado(h)
  BY DEF Lugares, Separado, Bloqueado
<1>5. pelea # <<>> => Head(pelea) \in Conexiones /\ EnManos(Head(pelea))
  BY ColaTail DEF TipoDeadlock, EnManos
<1>6. peleadores # <<>> => Head(peleadores) \in Conexiones /\ EnManos(Head(peleadores))
  BY ColaTail DEF TipoDeadlock, EnManos
<1>7. CASE D_Desafia \/ D_Mata \/ D_Entrega \/ D_Espera \/ D_Rebloquea
  <2>1. PICK h \in Conexiones :
          /\ EnManos(h)
          /\ colaReady' \in {colaReady, Append(colaReady, h)}
          /\ msj' = msj \/ \E m : msj' = [msj EXCEPT ![h] = m]
          /\ quantum' \in {quantum, [quantum EXCEPT ![h] = 0]}
    <3>1. CASE D_Desafia
      <4>1. pelea # <<>> /\ UNCHANGED <<colaReady, quantum>>
        BY <3>1 DEF D_Desafia, EnD, Punteros, PunteroDeadlock, colas
      <4>2. \E m : msj' = [msj EXCEPT ![Head(pelea)] = m]
        BY <3>1 DEF D_Desafia
      <4> QED
        BY <1>5, <4>1, <4>2
    <3>2. CASE D_Mata
      <4>1. entD \in Conexiones /\ EnManos(entD) /\ UNCHANGED <<colaReady, quantum>>
        BY <3>2 DEF D_Mata, EnD, Punteros, PunteroDeadlock, EnManos
      <4>2. \E m : msj' = [msj EXCEPT ![entD] = m]
        BY <3>2 DEF D_Mata
      <4> QED
        BY <4>1, <4>2
    <3>3. CASE D_Entrega
      <4>1. peleadores # <<>> /\ UNCHANGED <<colaReady, quantum>>
        BY <3>3 DEF D_Entrega, colas
      <4>2. \E m : msj' = [msj EXCEPT ![Head(peleadores)] = m]
        BY <3>3 DEF D_Entrega
      <4> QED
        BY <1>6, <4>1, <4>2
    <3>4. CASE D_Espera
      <4>1. peleadores # <<>> /\ UNCHANGED quantum
        BY <3>4 DEF D_Espera, EnD, Punteros, PunteroDeadlock
      <4>2. /\ \E m : msj' = [msj EXCEPT ![Head(peleadores)] = m]
            /\ colaReady' \in {colaReady, Append(colaReady, Head(peleadores))}
        BY <3>4 DEF D_Espera
      <4> QED
        BY <1>6, <4>1, <4>2
    <3>5. CASE D_Rebloquea
      <4>1. peleadores # <<>> /\ UNCHANGED <<colaReady, msj>>
        BY <3>5 DEF D_Rebloquea, EnD, Punteros, PunteroDeadlock
      <4>2. quantum' = [quantum EXCEPT ![Head(peleadores)] = 0]
        BY <3>5 DEF D_Rebloquea
      <4> QED
        BY <1>6, <4>1, <4>2
    <3> QED
      BY <1>7, <3>1, <3>2, <3>3, <3>4, <3>5
  <2>2. ~EnCola(colaReady, h) /\ Bloqueado(h)
    BY <1>4, <2>1
  <2>3. /\ \A d \in Conexiones \ {h} : msj'[d] = msj[d] /\ quantum'[d] = quantum[d]
        /\ quantum'[h] \in {quantum[h], 0}
    BY <2>1 DEF TipoInfo
  <2> QED
    BY <1>1, <1>2, <1>3, <2>1, <2>2, <2>3, EsperanSalvo
<1>8. CASE ~(D_Desafia \/ D_Mata \/ D_Entrega \/ D_Espera \/ D_Rebloquea)
  <2>1. UNCHANGED <<colaReady, info>>
    BY <1>8 DEF Interbloqueo, D_Chequea, D_Lock, D_Calcula, D_Elige, D_EligeNull, D_SacaCaido,
       D_Libera, D_Saca, D_EsperaNull, D_AvisaReady, D_SenalReady, D_EntregaNull,
       D_AvisaVacio, D_SenalVacio, D_Suelta, D_Despierta, colas
  <2> QED
    BY <1>1, <1>2, <1>3, <2>1 DEF Esperan, info
<1> QED
  BY <1>7, <1>8

\* Nobody else takes a trainer out of colaReady, or touches what it says there.
LEMMA LosDemas ==
    ASSUME Tipos, Lugares, [Next]_vars, ~Planificar
    PROVE  /\ \A c \in Conexiones : Esperan(c)
           /\ UNCHANGED entP
           /\ pcP' = pcP \/ (pcP = "dormido" /\ pcP' = "chequea")
<1>1. CASE \/ Recargar \/ UNCHANGED vars
           \/ \E h \in Conexiones : E_Conecta(h) \/ Avanza(h) \/ E_Cae(h)
  <2>1. UNCHANGED <<colas, info, planificador, block, deadlock>>
    BY <1>1 DEF Recargar, vars, E_Conecta, E_Cae, Avanza, E_Saluda, E_Camina, E_Captura,
       E_Pelea, E_Muere, E_Otro
  <2> QED
    BY <2>1 DEF Esperan, Bloqueado, EnManos, colas, info, planificador, block, deadlock
<1> QED
  BY <1>1, BloquearEspera, InterbloqueoEspera, AtenderEspera DEF Next

-----------------------------------------------------------------------------
(***************************************************************************)
(* SRDF.  When the distances are compared somebody of colaReady does not   *)
(* wait for its position, and hiloPlanificador is the only one that could  *)
(* take it away.                                                           *)
(***************************************************************************)
Elegible ==
    /\ pcP \in {"atiende", "cercano"} => colaReady # <<>>
    /\ pcP = "cercano" =>
          \E c \in Conexiones :
             EnCola(colaReady, c) /\ msj[c].accion # "UBICACION_POKENEST"

LEMMA NextElegible == Tipos /\ Lugares /\ Elegible /\ [Next]_vars => Elegible'
<1> SUFFICES ASSUME Tipos, Lugares, Elegible, [Next]_vars PROVE Elegible'
  OBVIOUS
<1> USE DEF Tipos, TypeOK
<1>1. CASE P_Atiende
  <2>1. colaReady # <<>> /\ pcP' = "cercano"
    BY <1>1 DEF P_Atiende, EnP, Elegible
  <2>2. CASE PidenUbicacion = {} /\ UNCHANGED <<msj, colaReady>>
    <3>1. 1 \in 1 .. Len(colaReady) /\ colaReady[1] \in Conexiones
      BY <2>1, LenProperties, EmptySeq, ElementOfSeq DEF TipoColas
    <3>2. msj[colaReady[1]].accion # "UBICACION_POKENEST"
      BY <2>2, <3>1 DEF PidenUbicacion
    <3> QED
      BY <2>1, <2>2, <3>1, <3>2 DEF Elegible, EnCola
  <2>3. CASE ~(PidenUbicacion = {} /\ UNCHANGED <<msj, colaReady>>)
    <3>1. PICK i \in 1 .. Len(colaReady) :
            /\ msj' = [msj EXCEPT ![colaReady[i]].accion = "UBICACION_POKENEST_OTORGADA"]
            /\ \E q \in SinEntrenador(colaReady, Simbolo(colaReady[i])) :
                  colaReady' = Append(q, colaReady[i])
      BY <1>1, <2>3 DEF P_Atiende, Primero, PidenUbicacion
    <3>2. PICK q \in SinEntrenador(colaReady, Simbolo(colaReady[i])) :
            colaReady' = Append(q, colaReady[i])
      BY <3>1
    <3>3. q \in Seq(Conexiones) /\ colaReady[i] \in Conexiones
      BY SinUno DEF TipoColas
    <3>4. EnCola(colaReady', colaReady[i])
      BY <3>2, <3>3, ColaAppend
    <3>5. msj'[colaReady[i]].accion = "UBICACION_POKENEST_OTORGADA"
      BY <3>1, <3>3 DEF TipoInfo, MsjGuardado
    <3>6. colaReady' # <<>>
      BY <3>4, ColaVacia
    <3> QED
      BY <3>3, <3>4, <3>5, <3>6 DEF Elegible
  <2> QED
    BY <2>2, <2>3
<1>2. CASE P_Cercano
  <2>1. pcP' = "recibe" \/ UNCHANGED <<pcP, colaReady, msj>>
    BY <1>2 DEF P_Cercano, info
  <2> QED
    BY <2>1 DEF Elegible
<1>3. CASE Planificar /\ ~P_Atiende /\ ~P_Cercano
  <2>1. /\ pcP' # "cercano"
        /\ pcP' = "atiende" => colaReady # <<>> /\ UNCHANGED colaReady
    BY <1>3 DEF Planificar, P_Chequea, P_Duerme, P_Otorga, P_RecibeMoverse,
       P_RecibeCapturar, P_RecibeFin, P_AvisaVacio, P_SenalVacio, P_SenalBlock, EnP, colas
  <2> QED
    BY <2>1 DEF Elegible
<1>4. CASE ~Planificar
  <2>1. pcP' \in {"atiende", "cercano"} => pcP' = pcP
    BY <1>4, LosDemas
  <2>2. \A c \in Conexiones : EnCola(colaReady, c) => EnCola(colaReady', c) /\ msj'[c] = msj[c]
    BY <1>4, LosDemas DEF Esperan
  <2>3. colaReady # <<>> => \E c \in Conexiones : EnCola(colaReady, c)
    BY ColaTail DEF TipoColas
  <2>4. colaReady # <<>> => colaReady' # <<>>
    BY <2>2, <2>3, ColaVacia
  <2> QED
    BY <2>1, <2>2, <2>4 DEF Elegible
<1> QED
  BY <1>1, <1>2, <1>3, <1>4

(***************************************************************************)
(* While the map's locks do what they are for, getEntrenadorMasCercano     *)
(* always finds somebody: it never returns the NULL its caller would use.  *)
(***************************************************************************)
THEOREM Spec_PlanificadorEncuentra == Spec /\ []Disciplina => []PlanificadorEncuentra
<1>1. Init => Elegible
  BY DEF Init, Elegible
<1>2. Elegible => PlanificadorEncuentra
  BY DEF Elegible, PlanificadorEncuentra, Candidatos, PidenUbicacion, EnCola
<1> QED
  BY <1>1, <1>2, NextElegible, Spec_Tipos, Spec_Lugares, PTL DEF Spec
-----------------------------------------------------------------------------
(***************************************************************************)
(* Round robin.  A turn begins with the quantum at 0: that of somebody     *)
(* that was blocked, or that asks for its first position, is 0 already,    *)
(* and getReadyRR resets the others.                                       *)
(***************************************************************************)
Cuantum(c) ==
    /\ quantum[c] <= LargoDeTurno
    /\ entP = c => quantum[c] < LargoDeTurno
    /\ EnCola(colaReady, c) /\ msj[c].accion = "UBICACION_POKENEST" => quantum[c] = 0
    /\ Bloqueado(c) => quantum[c] = 0

Cuantums == algoritmo = "RR" => \A c \in Conexiones : Cuantum(c)

\* One that hiloPlanificador leaves alone.
LEMMA CuantumAjeno ==
    ASSUME NEW c \in Conexiones, Cuantum(c), quantum'[c] = quantum[c], msj'[c] = msj[c],
           entP' = c => entP = c, EnCola(colaReady', c) => EnCola(colaReady, c),
           Bloqueado(c)' => Bloqueado(c)
    PROVE  Cuantum(c)'
  BY DEF Cuantum

LEMMA NextCuantums ==
    Sabido /\ Cuantums /\ UNCHANGED algoritmo /\ [Next]_vars => Cuantums'
<1> SUFFICES ASSUME Sabido, Cuantums, UNCHANGED algoritmo, [Next]_vars,
                    algoritmo = "RR"
             PROVE  \A c \in Conexiones : Cuantum(c)'
  BY DEF Cuantums
<1> USE DEF Sabido, Tipos, TypeOK
<1> Nadie \notin Conexiones /\ Quantum \in Nat /\ LargoDeTurno \in Nat
    /\ LargoDeTurno > 1 /\ Quantum <= LargoDeTurno
  BY ConstantesAssumption DEF LargoDeTurno
<1>1. \A c \in Conexiones : Cuantum(c) /\ quantum[c] \in Nat
  BY DEF Cuantums, TipoInfo
<1>2. CASE P_Otorga
  <2>1. PICK h \in Conexiones : h = Head(colaReady) /\ EnCola(colaReady, h)
    BY <1>2, ColaTail DEF P_Otorga, EnP, Punteros, PunteroPlanificador, TipoColas
  <2>2. /\ entP' = h /\ colaReady' = Tail(colaReady) /\ colaReady # <<>>
        /\ quantum' = [quantum EXCEPT ![h] =
                          IF msj[h].accion = "UBICACION_POKENEST" THEN @ + 1 ELSE 0]
        /\ \A c \in Conexiones \ {h} : msj'[c] = msj[c]
        /\ UNCHANGED <<colaBlock, entB, bloqueados, pelea, peleadores, entD>>
    BY <1>2, <2>1 DEF P_Otorga, EnP, Punteros, PunteroPlanificador, TipoInfo, block, deadlock
  <2>3. /\ \A c : EnCola(colaReady', c) => EnCola(colaReady, c)
        /\ ~EnCola(colaReady', h)
    BY <2>1, <2>2, ColaTail DEF TipoColas, Lugares, UnaVez
  <2>4. \A c \in Conexiones : Bloqueado(c)' => Bloqueado(c)
    BY <2>2 DEF Bloqueado, EnManos
  <2>5. ASSUME NEW c \in Conexiones \ {h} PROVE Cuantum(c)'
    BY <1>1, <2>2, <2>3, <2>4, CuantumAjeno DEF TipoInfo
  <2>6. quantum'[h] \in {0, 1}
    BY <1>1, <2>1, <2>2 DEF Cuantum, TipoInfo
  <2>7. ~Bloqueado(h)'
    BY <2>1, <2>4 DEF Papeles, UnPapel
  <2>8. Cuantum(h)'
    BY <2>3, <2>6, <2>7 DEF Cuantum
  <2> QED
    BY <2>5, <2>8
<1>3. CASE P_RecibeMoverse
  <2>1. PICK h \in Conexiones : h = entP /\ pcP = "recibe"
    BY <1>3 DEF P_RecibeMoverse, EnP, Punteros, PunteroPlanificador
  <2>2. PICK m \in Proximo(h) :
          /\ quantum' = [quantum EXCEPT ![h] = @ + 1]
          /\ IF SigueTurno(h)
               THEN UNCHANGED <<colaReady, entP>> /\ msj' = [msj EXCEPT ![h] = Con(m, "LIBERADO")]
               ELSE /\ colaReady' = Append(colaReady, h) /\ entP' = Nadie
                    /\ msj' = [msj EXCEPT ![h] = m]
    BY <1>3, <2>1 DEF P_RecibeMoverse
  <2>3. UNCHANGED <<colaBlock, entB, bloqueados, pelea, peleadores, entD>>
    BY <1>3 DEF P_RecibeMoverse, block, deadlock
  <2>4. \A c \in Conexiones : Bloqueado(c)' => Bloqueado(c)
    BY <2>3 DEF Bloqueado, EnManos
  <2>5. \A c \in Conexiones \ {h} : EnCola(colaReady', c) => EnCola(colaReady, c)
    <3>1. \A c : EnCola(Append(colaReady, h), c) <=> EnCola(colaReady, c) \/ c = h
      BY ColaAppend DEF TipoColas
    <3>2. colaReady' \in {colaReady, Append(colaReady, h)}
      BY <2>2
    <3>3. CASE UNCHANGED colaReady
      BY <3>3
    <3>4. CASE colaReady' = Append(colaReady, h)
      BY <3>1, <3>4
    <3> QED
      BY <3>2, <3>3, <3>4
  <2>6. \A c \in Conexiones \ {h} : msj'[c] = msj[c]
    <3>1. \E x : msj' = [msj EXCEPT ![h] = x]
      BY <2>2
    <3> QED
      BY <3>1 DEF TipoInfo
  <2>7. ASSUME NEW c \in Conexiones \ {h} PROVE Cuantum(c)'
    BY <1>1, <2>1, <2>2, <2>4, <2>5, <2>6, CuantumAjeno DEF TipoInfo
  <2>8. quantum'[h] = quantum[h] + 1 /\ quantum[h] < LargoDeTurno
    BY <1>1, <2>1, <2>2 DEF Cuantum, TipoInfo
  <2>9. ~Bloqueado(h)' /\ ~EnCola(colaReady, h)
    BY <2>1, <2>4 DEF Papeles, UnPapel, EnTurno, Lugares, Separado
  <2>10. m.accion # "UBICACION_POKENEST"
    BY <2>1, LoQueRecibe DEF EnTurno
  <2>11. Cuantum(h)'
    <3>1. CASE SigueTurno(h)
      BY <1>1, <2>1, <2>2, <2>8, <2>9, <3>1 DEF Cuantum, SigueTurno
    <3>2. CASE ~SigueTurno(h)
      <4>1. msj'[h] = m
        BY <2>2, <3>2 DEF TipoInfo
      <4> QED
        BY <1>1, <2>2, <2>8, <2>9, <2>10, <3>2, <4>1 DEF Cuantum
    <3> QED
      BY <3>1, <3>2
  <2> QED
    BY <2>7, <2>11
<1>4. CASE P_RecibeCapturar
  <2>1. PICK h \in Conexiones : h = entP /\ pcP = "recibe"
    BY <1>4 DEF P_RecibeCapturar, EnP, Punteros, PunteroPlanificador
  <2>2. /\ quantum' = [quantum EXCEPT ![h] = 0] /\ colaBlock' = Append(colaBlock, h)
        /\ entP' = Nadie /\ \A c \in Conexiones \ {h} : msj'[c] = msj[c]
        /\ UNCHANGED <<colaReady, entB, bloqueados, pelea, peleadores, entD>>
    BY <1>4, <2>1 DEF P_RecibeCapturar, TipoInfo, block, deadlock
  <2>3. \A c \in Conexiones \ {h} : EnCola(colaBlock', c) => EnCola(colaBlock, c)
    BY <2>2, ColaAppend DEF TipoColas
  <2>4. \A c \in Conexiones \ {h} : Bloqueado(c)' => Bloqueado(c)
    BY <2>2, <2>3 DEF Bloqueado, EnManos
  <2>5. ASSUME NEW c \in Conexiones \ {h} PROVE Cuantum(c)'
    BY <1>1, <2>2, <2>4, CuantumAjeno DEF TipoInfo
  <2>6. quantum'[h] = 0
    BY <2>2 DEF TipoInfo
  <2>7. Cuantum(h)'
    BY <2>2, <2>6 DEF Cuantum
  <2> QED
    BY <2>5, <2>7
<1>5. CASE P_RecibeFin
  <2>1. PICK h \in Conexiones : h = entP
    BY <1>5 DEF P_RecibeFin, EnP, Punteros, PunteroPlanificador
  <2>2. /\ entP' = Nadie /\ \A c \in Conexiones \ {h} : msj'[c] = msj[c]
        /\ UNCHANGED <<quantum, colaReady, colaBlock, entB, bloqueados, pelea, peleadores, entD>>
    BY <1>5, <2>1 DEF P_RecibeFin, GuardarNull, TipoInfo, colas, block, deadlock
  <2>3. \A c \in Conexiones : Bloqueado(c)' => Bloqueado(c)
    BY <2>2 DEF Bloqueado, EnManos
  <2>4. ASSUME NEW c \in Conexiones \ {h} PROVE Cuantum(c)'
    BY <1>1, <2>2, <2>3, CuantumAjeno
  <2>5. ~EnCola(colaReady, h)
    BY <2>1 DEF Lugares, Separado
  <2>6. Cuantum(h)'
    BY <1>1, <2>2, <2>3, <2>5 DEF Cuantum
  <2> QED
    BY <2>4, <2>6
<1>6. CASE P_Atiende \/ P_Cercano
  BY <1>6 DEF P_Atiende, P_Cercano, EnP, Algoritmo
<1>7. CASE P_Chequea \/ P_Duerme \/ P_AvisaVacio \/ P_SenalVacio \/ P_SenalBlock
  <2>1. UNCHANGED <<info, colas, entP, entB, deadlock>>
    BY <1>7 DEF P_Chequea, P_Duerme, P_AvisaVacio, P_SenalVacio, P_SenalBlock, block
  <2> QED
    BY <1>1, <2>1, CuantumAjeno DEF info, colas, deadlock, Bloqueado, EnManos
<1>8. CASE ~Planificar
  <2>1. UNCHANGED entP /\ \A c \in Conexiones : Esperan(c)
    BY <1>8, LosDemas
  <2>2. ASSUME NEW c \in Conexiones PROVE Cuantum(c)'
    BY <1>1, <2>1 DEF Esperan, Cuantum
  <2> QED
    BY <2>2
<1> QED
  BY <1>2, <1>3, <1>4, <1>5, <1>6, <1>7, <1>8 DEF Planificar

(***************************************************************************)
(* With round robin, for every quantum, no trainer uses more than the      *)
(* operations of its turn.                                                 *)
(***************************************************************************)
THEOREM Spec_TurnoAcotado ==
    Spec /\ []Disciplina /\ []PeleaResuelta /\ MismoAlgoritmo => []TurnoAcotado
<1>1. Init => Cuantums
  <2> SUFFICES ASSUME Init, NEW c \in Conexiones PROVE Cuantum(c)
    BY DEF Cuantums
  <2>1. quantum[c] = 0 /\ entP = Nadie
    BY DEF Init
  <2> QED
    BY <2>1, ConstantesAssumption DEF Cuantum, LargoDeTurno
<1>2. Sabido /\ Cuantums /\ UNCHANGED algoritmo /\ [Next]_vars => Cuantums'
  BY NextCuantums
<1>3. Cuantums => TurnoAcotado
  BY DEF Cuantums, Cuantum, TurnoAcotado
<1>4. [UNCHANGED algoritmo]_algoritmo => UNCHANGED algoritmo
  OBVIOUS
<1> QED
  BY <1>1, <1>2, <1>3, <1>4, Spec_Sabido, PTL DEF Spec, MismoAlgoritmo

-----------------------------------------------------------------------------
(***************************************************************************)
(* Without fights.  Nobody is asked to fight, so nobody is served with     *)
(* that message; and where only one algorithm can be configured, or the    *)
(* map is not reloaded, the algorithm is always the same.                  *)
(***************************************************************************)
SinPelea ==
    \A c \in Conexiones :
        /\ msj[c].accion # "BATALLA_POKEMON"
        /\ \A i \in 1 .. Len(aMapa[c]) : aMapa[c][i].accion # "BATALLA_POKEMON"

\* No trainer asks for a fight.
LEMMA LoQueContesta ==
    ASSUME Tipos, NEW c \in Conexiones, Avanza(c)
    PROVE  \/ UNCHANGED aMapa
           \/ \E m \in Mensaje : m.accion # "BATALLA_POKEMON" /\ Responder(c, m)
<1> USE DEF Tipos, TypeOK
<1> DEFINE h == Head(aEntrenador[c])
<1>1. aEntrenador[c] # <<>> => h \in MsjGuardado
  BY LeidoTipo
<1>2. objetivos[c] # <<>> => Head(objetivos[c]) \in Pokenests
  BY HeadTailProperties DEF TipoProcesos
<1>3. ASSUME NEW a \in Acciones, NEW n \in Pokenests, a # "BATALLA_POKEMON"
      PROVE  Pedido(a, n) \in Mensaje /\ Pedido(a, n).accion # "BATALLA_POKEMON"
  BY <1>3, PedidoTipo DEF Pedido
<1>4. ASSUME NEW m \in MsjGuardado, NEW a \in Acciones, a # "BATALLA_POKEMON"
      PROVE  Con(m, a) \in Mensaje /\ Con(m, a).accion # "BATALLA_POKEMON"
  BY <1>4 DEF Con, MsjGuardado, Mensaje
<1>5. CASE E_Saluda(c)
  <2>1. objetivos[c] # <<>>
    BY <1>5 DEF E_Saluda, EnE, Punteros, PunteroEntrenador
  <2>2. Responder(c, Pedido("UBICACION_POKENEST", Head(objetivos[c])))
    BY <1>5 DEF E_Saluda, Responder
  <2> QED
    BY <1>2, <1>3, <2>1, <2>2 DEF Acciones
<1>6. CASE E_Camina(c)
  <2>1. aEntrenador[c] # <<>> /\ h \in MsjGuardado
    BY <1>1, <1>6 DEF E_Camina
  <2> DEFINE ubica == h.accion = "UBICACION_POKENEST"
             camino == IF ubica THEN CalcularColaMovimientos(posE[c], Ubicacion[h.pokemon])
                                ELSE movimientos[c]
  <2>2. camino \in Seq(Sentidos)
    BY <2>1, CaminoTipo, ConstantesAssumption DEF TipoProcesos, MsjGuardado
  <2>3. \/ Responder(c, Con(h, "CAPTURAR_POKEMON"))
        \/ camino # <<>> /\ Responder(c, [h EXCEPT !.accion = "MOVERSE",
                                                  !.movimiento = Head(camino)])
    BY <1>6 DEF E_Camina
  <2> HIDE DEF camino
  <2>4. CASE Responder(c, Con(h, "CAPTURAR_POKEMON"))
    BY <1>4, <2>1, <2>4 DEF Acciones
  <2>5. CASE camino # <<>> /\ Responder(c, [h EXCEPT !.accion = "MOVERSE",
                                                    !.movimiento = Head(camino)])
    <3>1. Head(camino) \in Sentidos
      BY <2>2, <2>5, HeadTailProperties
    <3> DEFINE m == [h EXCEPT !.accion = "MOVERSE", !.movimiento = Head(camino)]
    <3>2. m \in Mensaje /\ m.accion = "MOVERSE"
      BY <2>1, <3>1 DEF MsjGuardado, Mensaje, Acciones
    <3> HIDE DEF m
    <3> QED
      BY <2>5, <3>2 DEF m
  <2> QED
    BY <2>3, <2>4, <2>5
<1>7. CASE E_Captura(c)
  <2>1. aEntrenador[c] # <<>>
    <3>1. aEntrenador[c] \in Seq(MsjGuardado) /\ Len(aEntrenador[c]) > 1
      BY <1>7 DEF E_Captura, TipoRed
    <3> QED
      BY <3>1, DosTramasTipo
  <2>2. \/ Responder(c, Con(h, "OBJETIVO_CUMPLIDO"))
        \/ /\ objetivos[c] # <<>>
           /\ Responder(c, Pedido("UBICACION_POKENEST", Head(objetivos[c])))
    BY <1>7 DEF E_Captura
  <2> QED
    BY <1>1, <1>2, <1>3, <1>4, <2>1, <2>2 DEF Acciones
<1>8. CASE E_Pelea(c)
  <2>1. UNCHANGED aMapa \/ Responder(c, TramaPokemon(h.pokemon))
    BY <1>8 DEF E_Pelea
  <2>2. h.pokemon \in Pokenests
    BY <1>1, <1>8 DEF E_Pelea, MsjGuardado
  <2>3. TramaPokemon(h.pokemon) \in Mensaje /\ TramaPokemon(h.pokemon).accion = "POKEMON"
    BY <2>2, TramaTipo DEF TramaPokemon
  <2> QED
    BY <2>1, <2>3
<1>9. CASE E_Muere(c)
  BY <1>9 DEF E_Muere
<1>10. CASE E_Otro(c)
  <2>1. \/ UNCHANGED aMapa
        \/ /\ Responder(c, h)
           /\ h.accion \in {"UBICACION_POKENEST_OTORGADA", "OBJETIVO_CUMPLIDO"}
           /\ h \in MsjGuardado
    BY <1>1, <1>10 DEF E_Otro
  <2>2. ASSUME h.accion \in {"UBICACION_POKENEST_OTORGADA", "OBJETIVO_CUMPLIDO"},
               h \in MsjGuardado
        PROVE  h \in Mensaje /\ h.accion # "BATALLA_POKEMON"
    BY <2>2 DEF MsjGuardado, Mensaje, Acciones
  <2> QED
    BY <2>1, <2>2
<1> QED
  BY <1>5, <1>6, <1>7, <1>8, <1>9, <1>10 DEF Avanza

LEMMA NextSinPelea == Tipos /\ Quieto /\ SinPelea /\ [Next]_vars => SinPelea'
<1> SUFFICES ASSUME Tipos, Quieto, SinPelea, [Next]_vars PROVE SinPelea'
  OBVIOUS
<1> USE DEF Tipos, TypeOK
<1> DEFINE Otra(m) == m.accion # "BATALLA_POKEMON"
\* The map keeps a message it has just read, or another with an action of its own.
<1>1. ASSUME NEW c \in Conexiones, NEW m \in Proximo(c)
      PROVE  m \in Mensaje /\ Otra(m) /\ Otra(Con(m, "LIBERADO")) /\ Otra(Con(m, "NULL"))
  <2>1. m = aMapa[c][1] /\ aMapa[c] # <<>> /\ aMapa[c] \in Seq(Mensaje)
    BY <1>1 DEF Proximo, HayMensaje, TipoRed
  <2>2. 1 \in 1 .. Len(aMapa[c])
    BY <2>1, LenProperties, EmptySeq
  <2>3. m \in Mensaje /\ Otra(m)
    BY <2>1, <2>2, ElementOfSeq DEF SinPelea
  <2> QED
    BY <2>3 DEF Con, Mensaje
<1>2. \A c \in Conexiones : msj[c] \in MsjGuardado /\ Otra(msj[c])
  BY DEF SinPelea, TipoInfo
\* What the map reads is taken from what the trainer wrote.
<1>3. ASSUME NEW c \in Conexiones, Tomar(c), aMapa[c] # <<>>
      PROVE  \A d \in Conexiones : \A i \in 1 .. Len(aMapa'[d]) : Otra(aMapa'[d][i])
  <2>1. aMapa'[c] = Tail(aMapa[c]) /\ \A d \in Conexiones \ {c} : aMapa'[d] = aMapa[d]
    BY <1>3 DEF Tomar, TipoRed
  <2>2. aMapa[c] \in Seq(Mensaje)
    BY DEF TipoRed
  <2>3. /\ Len(aMapa[c]) \in Nat /\ Len(Tail(aMapa[c])) = Len(aMapa[c]) - 1
        /\ \A i \in 1 .. Len(Tail(aMapa[c])) : Tail(aMapa[c])[i] = aMapa[c][i + 1]
    BY <1>3, <2>2, HeadTailProperties, LenProperties
  <2>4. \A i \in 1 .. Len(aMapa'[c]) : Otra(aMapa'[c][i])
    BY <2>1, <2>3 DEF SinPelea
  <2> QED
    BY <2>1, <2>4 DEF SinPelea
<1>4. ASSUME NEW c \in Conexiones, NEW m \in Mensaje, Otra(m), Responder(c, m)
      PROVE  \A d \in Conexiones : \A i \in 1 .. Len(aMapa'[d]) : Otra(aMapa'[d][i])
  <2>1. aMapa'[c] = Append(aMapa[c], m) /\ \A d \in Conexiones \ {c} : aMapa'[d] = aMapa[d]
    BY <1>4 DEF Responder, TipoRed
  <2>2. aMapa[c] \in Seq(Mensaje)
    BY DEF TipoRed
  <2>3. \A i \in 1 .. Len(aMapa'[c]) :
           (i \in 1 .. Len(aMapa[c]) /\ aMapa'[c][i] = aMapa[c][i]) \/ aMapa'[c][i] = m
    BY <2>1, <2>2, AppendProperties, LenProperties
  <2> QED
    BY <1>4, <2>1, <2>3 DEF SinPelea
\* The three threads of the map that may write.
<1>5. CASE Planificar
  <2>1. CASE UNCHANGED <<msj, aMapa>>
    BY <2>1 DEF SinPelea
  <2>2. CASE P_Otorga \/ P_Atiende
    <3>1. /\ UNCHANGED aMapa
          /\ msj' = msj \/ \E h \in Conexiones :
                msj' = [msj EXCEPT ![h].accion = "UBICACION_POKENEST_OTORGADA"]
      BY <2>2, ColaTail, ElementOfSeq
      DEF P_Otorga, P_Atiende, EnP, Punteros, PunteroPlanificador, Primero, PidenUbicacion,
          TipoColas
    <3> QED
      BY <1>2, <3>1 DEF SinPelea, TipoInfo, MsjGuardado
  <2>3. CASE P_RecibeMoverse \/ P_RecibeCapturar \/ P_RecibeFin
    <3>1. PICK h \in Conexiones : h = entP
      BY <2>3 DEF P_RecibeMoverse, P_RecibeCapturar, P_RecibeFin, EnP, Punteros,
         PunteroPlanificador
    <3>2. CASE UNCHANGED aMapa /\ GuardarNull(h)
      BY <1>2, <3>2 DEF SinPelea, GuardarNull, TipoInfo, MsjGuardado
    <3>3. CASE \E m \in Proximo(h) :
                 Tomar(h) /\ \E x \in {m, Con(m, "LIBERADO")} : msj' = [msj EXCEPT ![h] = x]
      <4>1. aMapa[h] # <<>> /\ Tomar(h) /\ \E x : Otra(x) /\ msj' = [msj EXCEPT ![h] = x]
        BY <1>1, <3>3 DEF Proximo, HayMensaje
      <4>2. \A c \in Conexiones : Otra(msj'[c])
        BY <1>2, <4>1 DEF TipoInfo
      <4> QED
        BY <1>3, <4>1, <4>2 DEF SinPelea
    <3> QED
      BY <2>3, <3>1, <3>2, <3>3 DEF P_RecibeMoverse, P_RecibeCapturar, P_RecibeFin
  <2> QED
    BY <1>5, <2>1, <2>2, <2>3 DEF Planificar, P_Chequea, P_Duerme, P_Cercano, P_AvisaVacio,
       P_SenalVacio, P_SenalBlock, info, red
<1>6. CASE Bloquear
  <2>1. CASE UNCHANGED <<msj, aMapa>>
    BY <2>1 DEF SinPelea
  <2>2. CASE B_Recibe \/ B_RecibeFin
    <3>1. PICK h \in Conexiones : h = entB
      BY <2>2 DEF B_Recibe, B_RecibeFin, EnB, Punteros, PunteroBlock
    <3>2. CASE UNCHANGED aMapa /\ GuardarNull(h)
      BY <1>2, <3>2 DEF SinPelea, GuardarNull, TipoInfo, MsjGuardado
    <3>3. CASE \E m \in Proximo(h) :
                 Tomar(h) /\ \E x \in {m, Con(m, "LIBERADO")} : msj' = [msj EXCEPT ![h] = x]
      <4>1. aMapa[h] # <<>> /\ Tomar(h) /\ \E x : Otra(x) /\ msj' = [msj EXCEPT ![h] = x]
        BY <1>1, <3>3 DEF Proximo, HayMensaje
      <4>2. \A c \in Conexiones : Otra(msj'[c])
        BY <1>2, <4>1 DEF TipoInfo
      <4> QED
        BY <1>3, <4>1, <4>2 DEF SinPelea
    <3> QED
      BY <2>2, <3>1, <3>2, <3>3 DEF B_Recibe, B_RecibeFin
  <2> QED
    BY <1>6, <2>1, <2>2 DEF Bloquear, B_Chequea, B_DuermeVacio, B_Lock, B_Entrega,
       B_Rebloquea, B_Pregunta, B_DuermeBlock, B_Despierta, B_AvisaReady, B_SenalReady,
       info, red
<1>7. CASE Interbloqueo
  <2>1. UNCHANGED <<info, red>>
    BY <1>7 DEF Quieto, Interbloqueo, D_Chequea, D_Lock, D_Calcula, D_Desafia, D_Elige,
       D_EligeNull, D_SacaCaido, D_Libera, D_Mata, D_Entrega, D_Saca, D_Espera,
       D_EsperaNull, D_AvisaReady, D_SenalReady, D_EntregaNull, D_Rebloquea,
       D_AvisaVacio, D_SenalVacio, D_Suelta, D_Despierta, EnD
  <2> QED
    BY <2>1 DEF SinPelea, info, red
<1>8. CASE Atender
  <2>1. CASE UNCHANGED <<msj, aMapa>>
    BY <2>1 DEF SinPelea
  <2>2. CASE M_Acepta
    <3>1. PICK h \in Conexiones :
            \E m \in Proximo(h) : Tomar(h) /\ msj' = [msj EXCEPT ![h] = m]
      <4>1. Head(pendientes) \in Conexiones
        BY <2>2, ColaTail DEF M_Acepta, EnM, Punteros, PunteroPrincipal, TipoRed
      <4> QED
        BY <2>2, <4>1 DEF M_Acepta
    <3>2. aMapa[h] # <<>> /\ Tomar(h) /\ \E x : Otra(x) /\ msj' = [msj EXCEPT ![h] = x]
      BY <1>1, <3>1 DEF Proximo, HayMensaje
    <3>3. \A c \in Conexiones : Otra(msj'[c])
      BY <1>2, <3>2 DEF TipoInfo
    <3> QED
      BY <1>3, <3>2, <3>3 DEF SinPelea
  <2> QED
    BY <1>8, <2>1, <2>2 DEF Atender, M_Select, M_AceptaNull, M_AvisaReady, M_SenalReady,
       M_Revisa, M_Borra, M_Saca, M_AvisaBlock, M_Termina, info, red
<1>9. CASE Recargar \/ UNCHANGED vars
  BY <1>9 DEF Recargar, vars, info, red, SinPelea
<1>10. CASE \E c \in Conexiones : E_Conecta(c) \/ Avanza(c) \/ E_Cae(c)
  <2>1. UNCHANGED msj
    BY <1>10 DEF E_Conecta, E_Cae, Avanza, E_Saluda, E_Camina, E_Captura, E_Pelea, E_Muere,
       E_Otro, info
  <2>2. UNCHANGED aMapa \/ \E c \in Conexiones, m \in Mensaje : Otra(m) /\ Responder(c, m)
    <3>1. PICK c \in Conexiones : E_Conecta(c) \/ Avanza(c) \/ E_Cae(c)
      BY <1>10
    <3>2. CASE E_Conecta(c) \/ E_Cae(c)
      BY <3>2 DEF E_Conecta, E_Cae
    <3>3. CASE Avanza(c)
      BY <3>3, LoQueContesta
    <3> QED
      BY <3>1, <3>2, <3>3
  <2>3. CASE UNCHANGED aMapa
    BY <2>1, <2>3 DEF SinPelea
  <2> QED
    BY <1>4, <2>1, <2>2 DEF SinPelea
<1> QED
  BY <1>5, <1>6, <1>7, <1>8, <1>9, <1>10 DEF Next

LEMMA Spec_PeleaResuelta ==
    ASSUME Batallas \subseteq {FALSE}
    PROVE  Spec => []PeleaResuelta
<1>1. Init => SinPelea
  <2> SUFFICES ASSUME Init, NEW c \in Conexiones
               PROVE  /\ msj[c].accion # "BATALLA_POKEMON"
                      /\ \A i \in 1 .. Len(aMapa[c]) : aMapa[c][i].accion # "BATALLA_POKEMON"
    BY DEF SinPelea
  <2>1. msj[c] = Con(Pedido("UBICACION_POKENEST", Head(Objetivos[Simbolo(c)])), "NULL")
    BY DEF Init
  <2>2. msj[c].accion = "NULL"
    BY <2>1 DEF Con, Pedido
  <2>3. aMapa[c] = <<>>
    BY DEF Init
  <2> QED
    BY <2>2, <2>3
<1>2. Tipos /\ Quieto /\ SinPelea /\ [Next]_vars => SinPelea'
  BY NextSinPelea
<1>3. Tipos /\ SinPelea => PeleaResuelta
  BY DEF Tipos, Punteros, PunteroBlock, SinPelea, PeleaResuelta
<1> QED
  BY <1>1, <1>2, <1>3, Spec_Tipos, Spec_Quieto, PTL DEF Spec

\* Either the map is never reloaded, or every configuration names the same one.
UnSoloAlgoritmo == Recargas = 0 \/ \A a, b \in Algoritmos : a = b

LEMMA Spec_MismoAlgoritmo ==
    ASSUME UnSoloAlgoritmo
    PROVE  Spec => MismoAlgoritmo
<1> DEFINE Fijo == Recargas = 0 => recargas = 0
<1>1. Init => Fijo
  BY DEF Init
<1>2. Fijo /\ [Next]_vars => Fijo' /\ (TypeOK /\ TypeOK' => UNCHANGED algoritmo)
  <2> SUFFICES ASSUME Fijo, [Next]_vars
               PROVE  Fijo' /\ (TypeOK /\ TypeOK' => UNCHANGED algoritmo)
    OBVIOUS
  <2>1. CASE Recargar
    <3>1. recargas # 0
      BY <2>1 DEF Recargar
    <3>2. \A a, b \in Algoritmos : a = b
      BY <3>1 DEF UnSoloAlgoritmo
    <3>3. Recargas # 0
      BY <3>1
    <3> QED
      BY <3>2, <3>3 DEF TypeOK, TipoProceso
  <2>2. CASE ~Recargar
    <3>1. UNCHANGED config
      <4>1. CASE Planificar
        BY <4>1 DEF Planificar, P_Chequea, P_Duerme, P_Otorga, P_Atiende, P_Cercano,
           P_RecibeMoverse, P_RecibeCapturar, P_RecibeFin, P_AvisaVacio, P_SenalVacio,
           P_SenalBlock
      <4>2. CASE Bloquear
        BY <4>2 DEF Bloquear, B_Chequea, B_DuermeVacio, B_Lock, B_Entrega, B_Rebloquea,
           B_Pregunta, B_DuermeBlock, B_Despierta, B_Recibe, B_RecibeFin, B_AvisaReady,
           B_SenalReady
      <4>3. CASE Interbloqueo
        BY <4>3 DEF Interbloqueo, D_Chequea, D_Lock, D_Calcula, D_Desafia, D_Elige,
           D_EligeNull, D_SacaCaido, D_Libera, D_Mata, D_Entrega, D_Saca, D_Espera,
           D_EsperaNull, D_AvisaReady, D_SenalReady, D_EntregaNull, D_Rebloquea,
           D_AvisaVacio, D_SenalVacio, D_Suelta, D_Despierta
      <4>4. CASE Atender \/ UNCHANGED vars
        BY <4>4 DEF Atender, M_Select, M_Acepta, M_AceptaNull, M_AvisaReady, M_SenalReady,
           M_Revisa, M_Borra, M_Saca, M_AvisaBlock, M_Termina, vars
      <4>5. CASE \E c \in Conexiones : E_Conecta(c) \/ Avanza(c) \/ E_Cae(c)
        BY <4>5 DEF E_Conecta, E_Cae, Avanza, E_Saluda, E_Camina, E_Captura, E_Pelea,
           E_Muere, E_Otro
      <4> QED
        BY <2>2, <4>1, <4>2, <4>3, <4>4, <4>5 DEF Next
    <3> QED
      BY <3>1 DEF config
  <2> QED
    BY <2>1, <2>2
<1>3. UNCHANGED algoritmo => [UNCHANGED algoritmo]_algoritmo
  OBVIOUS
<1> HIDE DEF Fijo
<1> QED
  BY <1>1, <1>2, <1>3, Spec_TypeOK, PTL DEF Spec, MismoAlgoritmo

(***************************************************************************)
(* For every map played without fights where one algorithm is configured,  *)
(* with nothing assumed of its locks: whatever trainer is killed, between  *)
(* a trainer and the map there is one message at most, no thread waits for *)
(* somebody that waits for the map, no frame is read in the place of       *)
(* another, what the map counts of a trainer is what the trainer has, and  *)
(* no trainer dies by itself.                                              *)
(***************************************************************************)
THEOREM SinBatallasEnOrden ==
    ASSUME Batallas \subseteq {FALSE}, UnSoloAlgoritmo
    PROVE  Spec => [](/\ PedidoRespuesta /\ NadieEsperaANadie /\ TramasEnOrden
                      /\ MochilaAlDia /\ NadieCae /\ PlanificadorEncuentra)
  BY Spec_SinBatallas, Spec_PeleaResuelta, Spec_MismoAlgoritmo, Spec_PedidoRespuesta,
     Spec_NadieEsperaANadie, Spec_TramasEnOrden, Spec_MochilaAlDia, Spec_NadieCae,
     Spec_PlanificadorEncuentra, PTL

(***************************************************************************)
(* Under the same conditions, and for every quantum, with round robin no   *)
(* trainer uses more than the operations of its turn.                      *)
(***************************************************************************)
THEOREM SinBatallasTurnoAcotado ==
    ASSUME Batallas \subseteq {FALSE}, UnSoloAlgoritmo
    PROVE  Spec => []TurnoAcotado
  BY Spec_SinBatallas, Spec_PeleaResuelta, Spec_MismoAlgoritmo, Spec_TurnoAcotado, PTL
=============================================================================
