--------------------------- MODULE Lugares_proofs ---------------------------
(***************************************************************************)
(* Where each visit is, for any map, with fights, deaths and disconnected  *)
(* trainers, as long as the two locks do what they are there for           *)
(* (Disciplina): once in one queue or in the hands of one thread, and in   *)
(* none of them once it lost a fight; and what the map promises about its  *)
(* pokemons.                                                               *)
(*                                                                         *)
(* EnUnSoloLugar is not inductive: hiloDeadlock puts a winner in colaReady *)
(* without looking whether popEntrenador took it out of colaBlock.  So the *)
(* invariant says who is in the hands of hiloDeadlock, that nobody else    *)
(* has it, and that it is among the elements that popEntrenador counted.   *)
(***************************************************************************)
EXTENDS Tipos_proofs
-----------------------------------------------------------------------------
(***************************************************************************)
(* No pokemon is lost or duplicated and cantidadPokemons is always right.  *)
(* Three of the steps of the system move pokemons, through two operators:  *)
(* Entregar takes one out of its pokenest for a visit, and LiberarRecursos *)
(* puts back all those of one visit.  UnicoLugar is what makes the sets    *)
(* that LiberarRecursos joins disjoint, so that adding their sizes counts  *)
(* right: the two invariants are inductive together.                       *)
(***************************************************************************)
Pasan == UnicoLugar /\ CantidadExacta

LEMMA NidosFinitos ==
    ASSUME TipoRecursos
    PROVE  /\ \A n \in Pokenests : IsFiniteSet(libres[n])
           /\ \A c \in Conexiones, n \in Pokenests : IsFiniteSet(atrapados[c][n])
  BY FS_Subset, ConstantesAssumption DEF TipoRecursos

(***************************************************************************)
(* A delivery.                                                             *)
(***************************************************************************)
LEMMA EntregarPokemons ==
    ASSUME TipoRecursos, Pasan, NEW c \in Conexiones, NEW m \in MsjGuardado, Entregar(c, m)
    PROVE  Pasan'
<1> DEFINE n == m.pokemon
<1>1. n \in Pokenests
  BY DEF MsjGuardado
<1>2. CASE c \in destruidos
  BY <1>2 DEF Entregar, Pasan, UnicoLugar, CantidadExacta
<1>3. CASE c \notin destruidos
  <2>1. PICK p \in libres[n] :
          /\ libres' = [libres EXCEPT ![n] = @ \ {p}]
          /\ atrapados' = [atrapados EXCEPT ![c][n] = @ \cup {p}]
          /\ cantidad' = [cantidad EXCEPT ![n] = @ - 1]
    BY <1>3 DEF Entregar
  <2>2. p \in Pokemons /\ n = Nido[p]
    BY <1>1, <2>1 DEF TipoRecursos, Pasan, UnicoLugar
  <2>3. CantidadExacta'
    <3>1. Cardinality(libres[n] \ {p}) = Cardinality(libres[n]) - 1
      BY <1>1, <2>1, NidosFinitos, FS_RemoveElement
    <3> QED
      BY <1>1, <2>1, <3>1 DEF TipoRecursos, Pasan, CantidadExacta
  <2>4. UnicoLugar'
    <3> SUFFICES ASSUME NEW q \in Pokemons
                 PROVE  /\ \A k \in Pokenests : q \in libres'[k] => k = Nido[q]
                        /\ \A d \in Conexiones, k \in Pokenests :
                              q \in atrapados'[d][k] => k = Nido[q]
                        /\ q \in libres'[Nido[q]] =>
                              \A d \in Conexiones : q \notin atrapados'[d][Nido[q]]
                        /\ q \notin libres'[Nido[q]] =>
                              \E d \in Conexiones :
                                 /\ q \in atrapados'[d][Nido[q]]
                                 /\ \A e \in Conexiones \ {d} :
                                       q \notin atrapados'[e][Nido[q]]
      BY DEF UnicoLugar
    <3> Nido[q] \in Pokenests
      BY ConstantesAssumption
    <3>1. /\ \A k \in Pokenests : q \in libres'[k] <=>
                q \in libres[k] /\ ~(k = n /\ q = p)
          /\ \A d \in Conexiones, k \in Pokenests : q \in atrapados'[d][k] <=>
                q \in atrapados[d][k] \/ (d = c /\ k = n /\ q = p)
      BY <1>1, <2>1 DEF TipoRecursos
    <3>2. CASE q = p
      BY <2>1, <2>2, <3>1, <3>2 DEF Pasan, UnicoLugar
    <3>3. CASE q # p
      BY <3>1, <3>3 DEF Pasan, UnicoLugar
    <3> QED
      BY <3>2, <3>3
  <2> QED
    BY <2>3, <2>4 DEF Pasan
<1> QED
  BY <1>2, <1>3

(***************************************************************************)
(* A loser's reset.                                                        *)
(***************************************************************************)
LEMMA LiberarPokemons ==
    ASSUME TipoRecursos, Pasan, NEW c \in Conexiones, LiberarRecursos(c)
    PROVE  Pasan'
<1>1. \A n \in Pokenests : libres[n] \cap atrapados[c][n] = {}
  BY DEF TipoRecursos, Pasan, UnicoLugar
<1>2. CantidadExacta'
  <2> SUFFICES ASSUME NEW n \in Pokenests
               PROVE  cantidad'[n] = Cardinality(libres'[n])
    BY DEF CantidadExacta
  <2>1. /\ cantidad'[n] = cantidad[n] + Cardinality(atrapados[c][n])
        /\ libres'[n] = libres[n] \cup atrapados[c][n]
    BY DEF LiberarRecursos
  <2>2. IsFiniteSet(libres[n]) /\ IsFiniteSet(atrapados[c][n])
    BY NidosFinitos
  <2>3. Cardinality(libres[n] \cup atrapados[c][n])
          = Cardinality(libres[n]) + Cardinality(atrapados[c][n])
    <3>1. Cardinality(libres[n] \cup atrapados[c][n])
            = Cardinality(libres[n]) + Cardinality(atrapados[c][n])
                - Cardinality(libres[n] \cap atrapados[c][n])
      BY <2>2, FS_Union
    <3>2. Cardinality(libres[n] \cap atrapados[c][n]) = 0
      BY <1>1, FS_EmptySet
    <3>3. Cardinality(libres[n]) \in Nat /\ Cardinality(atrapados[c][n]) \in Nat
      BY <2>2, FS_CardinalityType
    <3> QED
      BY <3>1, <3>2, <3>3
  <2> QED
    BY <2>1, <2>3 DEF Pasan, CantidadExacta
<1>3. UnicoLugar'
  <2> SUFFICES ASSUME NEW q \in Pokemons
               PROVE  /\ \A k \in Pokenests : q \in libres'[k] => k = Nido[q]
                      /\ \A d \in Conexiones, k \in Pokenests :
                            q \in atrapados'[d][k] => k = Nido[q]
                      /\ q \in libres'[Nido[q]] =>
                            \A d \in Conexiones : q \notin atrapados'[d][Nido[q]]
                      /\ q \notin libres'[Nido[q]] =>
                            \E d \in Conexiones :
                               /\ q \in atrapados'[d][Nido[q]]
                               /\ \A e \in Conexiones \ {d} :
                                     q \notin atrapados'[e][Nido[q]]
    BY DEF UnicoLugar
  <2> Nido[q] \in Pokenests
    BY ConstantesAssumption
  <2>1. /\ \A k \in Pokenests : q \in libres'[k] <=> q \in libres[k] \/ q \in atrapados[c][k]
        /\ \A d \in Conexiones, k \in Pokenests :
              q \in atrapados'[d][k] <=> q \in atrapados[d][k] /\ d # c
    BY DEF LiberarRecursos, TipoRecursos
  <2> QED
    BY <2>1 DEF Pasan, UnicoLugar
<1> QED
  BY <1>2, <1>3 DEF Pasan

(***************************************************************************)
(* Only those two move pokemons.                                           *)
(***************************************************************************)
LEMMA QuienMueve ==
    ASSUME Tipos, [Next]_vars
    PROVE  \/ UNCHANGED recursos
           \/ \E c \in Conexiones, m \in MsjGuardado : Entregar(c, m)
           \/ \E c \in Conexiones : EnCola(peleadores, c) /\ LiberarRecursos(c)
<1> USE DEF Tipos, TypeOK, recursos
<1>1. CASE UNCHANGED vars
  BY <1>1 DEF vars
<1>2. CASE Planificar
  BY <1>2 DEF Planificar, P_Chequea, P_Duerme, P_Otorga, P_Atiende, P_Cercano,
     P_RecibeMoverse, P_RecibeCapturar, P_RecibeFin, P_AvisaVacio, P_SenalVacio,
     P_SenalBlock
<1>3. CASE Bloquear
  <2>1. CASE B_Entrega
    <3>1. entB \in Conexiones /\ msj[entB] \in MsjGuardado
      BY <2>1 DEF B_Entrega, EnB, Punteros, PunteroBlock, TipoInfo
    <3> QED
      BY <2>1, <3>1 DEF B_Entrega
  <2>2. CASE ~B_Entrega
    BY <1>3, <2>2 DEF Bloquear, B_Chequea, B_DuermeVacio, B_Lock, B_Rebloquea,
       B_Pregunta, B_DuermeBlock, B_Despierta, B_Recibe, B_RecibeFin, B_AvisaReady,
       B_SenalReady
  <2> QED
    BY <2>1, <2>2
<1>4. CASE Interbloqueo
  <2>1. CASE D_Entrega
    <3>1. Head(peleadores) \in Conexiones
      BY <2>1, HeadTailProperties DEF D_Entrega, TipoDeadlock
    <3>2. Con(msj[Head(peleadores)], "CAPTURAR_POKEMON") \in MsjGuardado
      BY <3>1, ConTipo DEF TipoInfo, Acciones
    <3> QED
      BY <2>1, <3>1, <3>2 DEF D_Entrega
  <2>2. CASE D_Libera
    <3>1. \A i \in 1 .. Len(peleadores) :
             peleadores[i] \in Conexiones /\ EnCola(peleadores, peleadores[i])
      BY ElementOfSeq DEF TipoDeadlock, EnCola
    <3> QED
      BY <2>2, <3>1 DEF D_Libera
  <2>3. CASE ~D_Entrega /\ ~D_Libera
    BY <1>4, <2>3 DEF Interbloqueo, D_Chequea, D_Lock, D_Calcula, D_Desafia, D_Elige,
       D_EligeNull, D_SacaCaido, D_Mata, D_Saca, D_Espera, D_EsperaNull, D_AvisaReady,
       D_SenalReady, D_EntregaNull, D_Rebloquea, D_AvisaVacio, D_SenalVacio, D_Suelta,
       D_Despierta
  <2> QED
    BY <2>1, <2>2, <2>3
<1>5. CASE Atender
  BY <1>5 DEF Atender, M_Select, M_Acepta, M_AceptaNull, M_AvisaReady, M_SenalReady,
     M_Revisa, M_Borra, M_Saca, M_AvisaBlock, M_Termina
<1>6. CASE Recargar
  BY <1>6 DEF Recargar
<1>7. CASE \E c \in Conexiones : E_Conecta(c) \/ Avanza(c) \/ E_Cae(c)
  BY <1>7 DEF E_Conecta, E_Cae, Avanza, E_Saluda, E_Camina, E_Captura, E_Pelea,
     E_Muere, E_Otro
<1> QED
  BY <1>1, <1>2, <1>3, <1>4, <1>5, <1>6, <1>7 DEF Next
-----------------------------------------------------------------------------
LEMMA InitPasan == Init => Pasan
  BY ConstantesAssumption DEF Init, Pasan, UnicoLugar, CantidadExacta, DelNido

LEMMA NextPasan == Tipos /\ Pasan /\ [Next]_vars => Pasan'
<1> SUFFICES ASSUME Tipos, Pasan, [Next]_vars PROVE Pasan'
  OBVIOUS
<1>1. TipoRecursos
  BY DEF Tipos, TypeOK
<1>2. CASE UNCHANGED recursos
  BY <1>2 DEF Pasan, UnicoLugar, CantidadExacta, recursos
<1> QED
  BY <1>1, <1>2, QuienMueve, EntregarPokemons, LiberarPokemons

LEMMA Spec_Pasan == Spec => []Pasan
  BY InitPasan, NextPasan, Spec_Tipos, PTL DEF Spec

(***************************************************************************)
(* Every pokemon of the map is, at any time, free in the pokenest it was   *)
(* born in or held by exactly one visit of one trainer: obtenerPokemon and *)
(* liberarRecursos neither lose nor duplicate any.                         *)
(***************************************************************************)
THEOREM Spec_UnicoLugar == Spec => []UnicoLugar
<1>1. Pasan => UnicoLugar
  BY DEF Pasan
<1> QED
  BY <1>1, Spec_Pasan, PTL

(***************************************************************************)
(* The count that hiloBlock and the detector decide with is the number of  *)
(* pokemons in the pokenest.                                               *)
(***************************************************************************)
THEOREM Spec_CantidadExacta == Spec => []CantidadExacta
<1>1. Pasan => CantidadExacta
  BY DEF Pasan
<1> QED
  BY <1>1, Spec_Pasan, PTL
-----------------------------------------------------------------------------
(***************************************************************************)
(* Where each visit is.                                                    *)
(***************************************************************************)
\* Those hiloDeadlock is dealing with: they are in colaBlock too, until it takes
\* them out.
EnManos(c) ==
    EnCola(bloqueados, c) \/ EnCola(pelea, c) \/ EnCola(peleadores, c) \/ entD = c

UnaVez ==
    /\ SinRepetidos(pendientes) /\ SinRepetidos(colaReady) /\ SinRepetidos(colaBlock)
    /\ SinRepetidos(pelea) /\ SinRepetidos(peleadores)

Separado(c) ==
    /\ EnCola(pendientes, c) =>
          /\ ~EnCola(colaReady, c) /\ ~EnCola(colaBlock, c)
          /\ entP # c /\ entB # c /\ ~EnManos(c)
    /\ EnCola(colaReady, c) =>
          ~EnCola(colaBlock, c) /\ entP # c /\ entB # c /\ ~EnManos(c)
    /\ EnCola(colaBlock, c) => entP # c /\ entB # c
    /\ entP = c => entB # c /\ ~EnManos(c)
    /\ entB = c => ~EnManos(c)
    /\ EnCola(pelea, c) => ~EnCola(peleadores, c) /\ entD # c
    /\ EnCola(peleadores, c) => entD # c

\* A visit that has not begun is nowhere.
SinEmpezar(c) ==
    pcE[c] = "fuera" =>
        /\ ~EnCola(pendientes, c) /\ ~EnCola(colaReady, c) /\ ~EnCola(colaBlock, c)
        /\ entP # c /\ entB # c /\ ~EnManos(c) /\ c \notin destruidos

\* One that lost is only, until it is told, in colaBlock.
Derrotado(c) ==
    c \in destruidos =>
        /\ ~EnCola(pendientes, c) /\ ~EnCola(colaReady, c) /\ entP # c /\ entB # c
        /\ ~EnCola(bloqueados, c) /\ ~EnCola(pelea, c) /\ ~EnCola(peleadores, c)
        /\ EnCola(colaBlock, c) => entD = c

\* What each thread has in its hands at each point.
Manos ==
    /\ pcP # "recibe" => entP = Nadie
    /\ pcB \notin {"pokemon", "recibe"} => entB = Nadie
    /\ pcD # "mata" => entD = Nadie
    /\ pcD # "calcula" => bloqueados = <<>>
    /\ pcD \notin {"desafia", "elige", "sacaCaido"} => \A c \in Conexiones : ~EnCola(pelea, c)
    /\ pcD \in {"chequea", "lock", "despierta", "calcula", "suelta"} =>
          \A c \in Conexiones : ~EnCola(peleadores, c)

\* The one popEntrenador is to take out, while hiloDeadlock is in it.
Saliente == IF pcD = "mata" THEN entD ELSE Head(peleadores)

Cuenta ==
    /\ pcD \in {"mata", "saca", "rebloquea"} =>
          /\ tamD <= Len(colaBlock)
          /\ \A i \in tamD + 1 .. Len(colaBlock) : colaBlock[i] # Saliente
    /\ pcD = "espera" => ~EnCola(colaBlock, Head(peleadores))

Lugares ==
    /\ UnaVez /\ Manos /\ Cuenta
    /\ \A c \in Conexiones : Separado(c) /\ SinEmpezar(c) /\ Derrotado(c)
-----------------------------------------------------------------------------
(***************************************************************************)
(* The orders in which hiloDeadlock visits some trainers name each of them *)
(* once.                                                                   *)
(***************************************************************************)
LEMMA OrdenesUnaVez ==
    ASSUME NEW cola \in Seq(Conexiones), NEW S \in SUBSET Miembros(cola), NEW o \in Ordenes(S)
    PROVE  /\ o \in Seq(Conexiones) /\ SinRepetidos(o)
           /\ \A c : EnCola(o, c) <=> c \in S
<1>1. o \in Seq(Conexiones)
  BY OrdenesTipo
<1>2. IsFiniteSet(S)
  <2>1. cola \in Surjection(1 .. Len(cola), Miembros(cola))
    <3>1. cola \in [1 .. Len(cola) -> Miembros(cola)]
      BY LenProperties DEF Miembros
    <3> QED
      BY <3>1 DEF Surjection, Miembros
  <2>2. IsFiniteSet(1 .. Len(cola))
    BY FS_Interval
  <2> QED
    BY <2>1, <2>2, FS_Surjection, FS_Subset
<1>3. Cardinality(S) \in Nat
  BY <1>2, FS_CardinalityType
<1>4. o \in [1 .. Cardinality(S) -> S] /\ \A c \in S : \E i \in DOMAIN o : o[i] = c
  BY DEF Ordenes
<1>5. Len(o) = Cardinality(S)
  BY <1>1, <1>3, <1>4, LenProperties
<1>6. SinRepetidos(o)
  <2>1. o \in Surjection(1 .. Cardinality(S), S)
    BY <1>4 DEF Surjection
  <2>2. IsFiniteSet(1 .. Cardinality(S)) /\ Cardinality(1 .. Cardinality(S)) = Cardinality(S)
    BY <1>3, FS_Interval
  <2>3. o \in Injection(1 .. Cardinality(S), S)
    BY <2>1, <2>2, FS_SurjSameCardinalityImpliesInj
  <2> QED
    BY <1>5, <2>3 DEF Injection, IsInjective, SinRepetidos
<1>7. \A c : EnCola(o, c) <=> c \in S
  BY <1>4, <1>5 DEF EnCola
<1> QED
  BY <1>1, <1>6, <1>7
-----------------------------------------------------------------------------
lugares == <<pendientes, colaReady, colaBlock, entP, entB, entD, bloqueados, pelea,
             peleadores, destruidos>>

\* A step that moves nobody.
LEMMA Quietos ==
    ASSUME Lugares, UNCHANGED lugares, Manos', Cuenta',
           \A c \in Conexiones : pcE'[c] = "fuera" => pcE[c] = "fuera"
    PROVE  Lugares'
<1>1. UnaVez'
  BY DEF Lugares, UnaVez, lugares
<1>2. \A c \in Conexiones : Separado(c)' /\ SinEmpezar(c)' /\ Derrotado(c)'
  BY DEF Lugares, Separado, SinEmpezar, Derrotado, EnManos, lugares
<1> QED
  BY <1>1, <1>2 DEF Lugares

LEMMA QuietosVale ==
    ASSUME Manos, Cuenta, UNCHANGED <<lugares, pcD, tamD>>,
           pcP' = "recibe" <=> pcP = "recibe",
           pcB' \in {"pokemon", "recibe"} <=> pcB \in {"pokemon", "recibe"}
    PROVE  Manos' /\ Cuenta'
  BY DEF Manos, Cuenta, Saliente, lugares

\* Out of the queue, and to the end of it.
LEMMA SinUno ==
    ASSUME NEW cola \in Seq(Conexiones), NEW i \in 1 .. Len(cola),
           NEW q \in SinEntrenador(cola, Simbolo(cola[i]))
    PROVE  /\ q \in Seq(Conexiones) /\ cola[i] \in Conexiones /\ EnCola(cola, cola[i])
           /\ \A c : EnCola(q, c) => EnCola(cola, c) /\ c # cola[i]
           /\ \A c : EnCola(Append(q, cola[i]), c) => EnCola(cola, c)
           /\ SinRepetidos(cola) => SinRepetidos(q) /\ SinRepetidos(Append(q, cola[i]))
<1>1. Len(cola) \in Nat /\ cola[i] \in Conexiones /\ EnCola(cola, cola[i])
  BY LenProperties, ElementOfSeq DEF EnCola
<1>2. q \in PopEntrenador(cola, Len(cola), Simbolo(cola[i]))
  BY DEF SinEntrenador
<1>3. q \in Seq(Conexiones)
  BY <1>1, <1>2, PopEntrenadorTipo
<1>4. /\ \A c : EnCola(q, c) => EnCola(cola, c)
      /\ SinRepetidos(cola) => SinRepetidos(q)
      /\ ~EnCola(q, cola[i])
  BY <1>1, <1>2, ColaPop
<1> QED
  BY <1>1, <1>3, <1>4, ColaAppend

(***************************************************************************)
(* hiloPlanificador.                                                       *)
(***************************************************************************)
LEMMA PlanificarLugares == Tipos /\ Lugares /\ Planificar => Lugares'
<1> SUFFICES ASSUME Tipos, Lugares, Planificar PROVE Lugares'
  OBVIOUS
<1> USE DEF Tipos, TypeOK
<1> Nadie \notin Conexiones
  BY ConstantesAssumption
<1>1. CASE P_Chequea \/ P_Duerme \/ P_AvisaVacio \/ P_SenalVacio \/ P_SenalBlock
  <2>1. /\ UNCHANGED <<lugares, pcD, tamD, pcE>>
        /\ pcP' = "recibe" <=> pcP = "recibe"
        /\ pcB' \in {"pokemon", "recibe"} <=> pcB \in {"pokemon", "recibe"}
    BY <1>1 DEF P_Chequea, P_Duerme, P_AvisaVacio, P_SenalVacio, P_SenalBlock, EnP,
       SenalBlockEmpty, SenalBlock, lugares, recursos, colas, red, block, deadlock, procesos
  <2> QED
    BY <2>1, Quietos, QuietosVale DEF Lugares
<1>2. CASE P_Otorga
  <2>1. colaReady # <<>> /\ entP' = Head(colaReady) /\ colaReady' = Tail(colaReady)
        /\ pcP = "otorga" /\ pcP' = "recibe"
        /\ UNCHANGED <<pendientes, colaBlock, entB, entD, bloqueados, pelea, peleadores,
                      destruidos, pcD, tamD, pcE, pcB>>
    BY <1>2 DEF P_Otorga, EnP, Punteros, PunteroPlanificador, recursos, block, deadlock, procesos
  <2>2. /\ entP' \in Conexiones
        /\ \A c : EnCola(colaReady, c) <=> EnCola(colaReady', c) \/ c = entP'
        /\ SinRepetidos(colaReady') /\ ~EnCola(colaReady', entP')
    BY <2>1, ColaTail DEF TipoColas, Lugares, UnaVez
  <2>3. UnaVez' /\ Manos' /\ Cuenta'
    BY <2>1, <2>2 DEF Lugares, UnaVez, Manos, Cuenta, Saliente
  <2>4. entP = Nadie
    BY <2>1 DEF Lugares, Manos
  <2>5. ASSUME NEW c \in Conexiones
        PROVE  Separado(c)' /\ SinEmpezar(c)' /\ Derrotado(c)'
    BY <2>1, <2>2, <2>4 DEF Lugares, Separado, SinEmpezar, Derrotado, EnManos
  <2> QED
    BY <2>3, <2>5 DEF Lugares
<1>3. CASE P_Atiende /\ UNCHANGED colaReady
  <2>1. /\ UNCHANGED <<lugares, pcD, tamD, pcE>>
        /\ pcP' = "recibe" <=> pcP = "recibe"
        /\ pcB' \in {"pokemon", "recibe"} <=> pcB \in {"pokemon", "recibe"}
    BY <1>3 DEF P_Atiende, EnP, lugares, recursos, block, deadlock, procesos
  <2> QED
    BY <2>1, Quietos, QuietosVale DEF Lugares
<1>4. CASE P_Atiende /\ ~UNCHANGED colaReady
  <2>1. /\ pcP = "atiende" /\ pcP' = "cercano"
        /\ UNCHANGED <<pendientes, colaBlock, entP, entB, entD, bloqueados, pelea, peleadores,
                      destruidos, pcD, tamD, pcE, pcB>>
    BY <1>4 DEF P_Atiende, EnP, recursos, block, deadlock, procesos
  <2>2. PICK i \in 1 .. Len(colaReady) :
          \E q \in SinEntrenador(colaReady, Simbolo(colaReady[i])) :
             colaReady' = Append(q, colaReady[i])
    BY <1>4 DEF P_Atiende, Primero, PidenUbicacion
  <2>3. /\ \A c : EnCola(colaReady', c) => EnCola(colaReady, c)
        /\ SinRepetidos(colaReady')
    <3>1. PICK q \in SinEntrenador(colaReady, Simbolo(colaReady[i])) :
            colaReady' = Append(q, colaReady[i])
      BY <2>2
    <3>2. colaReady \in Seq(Conexiones) /\ SinRepetidos(colaReady)
      BY DEF TipoColas, Lugares, UnaVez
    <3> QED
      BY <3>1, <3>2, SinUno
  <2>4. UnaVez' /\ Manos' /\ Cuenta'
    BY <2>1, <2>3 DEF Lugares, UnaVez, Manos, Cuenta, Saliente
  <2>5. ASSUME NEW c \in Conexiones
        PROVE  Separado(c)' /\ SinEmpezar(c)' /\ Derrotado(c)'
    BY <2>1, <2>3 DEF Lugares, Separado, SinEmpezar, Derrotado, EnManos
  <2> QED
    BY <2>4, <2>5 DEF Lugares
<1>5. CASE P_Cercano /\ fallo' = "nulo" /\ UNCHANGED <<colaReady, entP, pcP>>
  <2>1. /\ UNCHANGED <<lugares, pcD, tamD, pcE>>
        /\ pcP' = "recibe" <=> pcP = "recibe"
        /\ pcB' \in {"pokemon", "recibe"} <=> pcB \in {"pokemon", "recibe"}
    BY <1>5 DEF P_Cercano, EnP, lugares, recursos, red, block, deadlock, procesos
  <2> QED
    BY <2>1, Quietos, QuietosVale DEF Lugares
<1>6. CASE P_Cercano /\ ~(fallo' = "nulo" /\ UNCHANGED <<colaReady, entP, pcP>>)
  <2>1. /\ pcP = "cercano" /\ pcP' = "recibe"
        /\ UNCHANGED <<pendientes, colaBlock, entB, entD, bloqueados, pelea, peleadores,
                      destruidos, pcD, tamD, pcE, pcB>>
    BY <1>6 DEF P_Cercano, EnP, recursos, red, block, deadlock, procesos
  <2>2. PICK i \in 1 .. Len(colaReady) :
          /\ colaReady' \in SinEntrenador(colaReady, Simbolo(colaReady[i]))
          /\ entP' = colaReady[i]
    BY <1>6 DEF P_Cercano, Primero, MasCercanos, Candidatos
  <2>3. /\ entP' \in Conexiones /\ EnCola(colaReady, entP')
        /\ \A c : EnCola(colaReady', c) => EnCola(colaReady, c) /\ c # entP'
        /\ SinRepetidos(colaReady')
    BY <2>2, SinUno DEF TipoColas, Lugares, UnaVez
  <2>4. UnaVez' /\ Manos' /\ Cuenta'
    BY <2>1, <2>3 DEF Lugares, UnaVez, Manos, Cuenta, Saliente
  <2>5. entP = Nadie
    BY <2>1 DEF Lugares, Manos
  <2>6. ASSUME NEW c \in Conexiones
        PROVE  Separado(c)' /\ SinEmpezar(c)' /\ Derrotado(c)'
    BY <2>1, <2>3, <2>5 DEF Lugares, Separado, SinEmpezar, Derrotado, EnManos
  <2> QED
    BY <2>4, <2>6 DEF Lugares
<1>7. CASE P_RecibeMoverse /\ UNCHANGED <<colaReady, entP, pcP>>
  <2>1. /\ UNCHANGED <<lugares, pcD, tamD, pcE>>
        /\ pcP' = "recibe" <=> pcP = "recibe"
        /\ pcB' \in {"pokemon", "recibe"} <=> pcB \in {"pokemon", "recibe"}
    BY <1>7 DEF P_RecibeMoverse, EnP, lugares, recursos, block, deadlock, procesos
  <2> QED
    BY <2>1, Quietos, QuietosVale DEF Lugares
<1>8. CASE P_RecibeMoverse /\ ~UNCHANGED <<colaReady, entP, pcP>>
  <2>1. /\ pcP = "recibe" /\ pcP' = "entra" /\ entP \in Conexiones /\ entP' = Nadie
        /\ colaReady' = Append(colaReady, entP)
        /\ UNCHANGED <<pendientes, colaBlock, entB, entD, bloqueados, pelea, peleadores,
                      destruidos, pcD, tamD, pcE, pcB>>
    BY <1>8 DEF P_RecibeMoverse, EnP, Punteros, PunteroPlanificador, recursos, block,
       deadlock, procesos
  <2>2. ~EnCola(colaReady, entP)
    BY <2>1 DEF Lugares, Separado
  <2>3. /\ \A c : EnCola(colaReady', c) <=> EnCola(colaReady, c) \/ c = entP
        /\ SinRepetidos(colaReady')
    BY <2>1, <2>2, ColaAppend DEF TipoColas, Lugares, UnaVez
  <2>4. UnaVez' /\ Manos' /\ Cuenta'
    BY <2>1, <2>3 DEF Lugares, UnaVez, Manos, Cuenta, Saliente
  <2>5. ASSUME NEW c \in Conexiones
        PROVE  Separado(c)' /\ SinEmpezar(c)' /\ Derrotado(c)'
    BY <2>1, <2>3 DEF Lugares, Separado, SinEmpezar, Derrotado, EnManos
  <2> QED
    BY <2>4, <2>5 DEF Lugares
\* While popEntrenador is at work the queue may only grow, and by others.
<1>9. CASE P_RecibeCapturar
  <2>1. /\ pcP = "recibe" /\ pcP' = "avisaVacio" /\ entP \in Conexiones /\ entP' = Nadie
        /\ colaBlock' = Append(colaBlock, entP)
        /\ UNCHANGED <<pendientes, colaReady, entB, entD, bloqueados, pelea, peleadores,
                      destruidos, pcD, tamD, pcE, pcB>>
    BY <1>9 DEF P_RecibeCapturar, EnP, Punteros, PunteroPlanificador, recursos, block,
       deadlock, procesos
  <2>2. ~EnCola(colaBlock, entP) /\ ~EnManos(entP)
    BY <2>1 DEF Lugares, Separado
  <2>3. /\ \A c : EnCola(colaBlock', c) <=> EnCola(colaBlock, c) \/ c = entP
        /\ SinRepetidos(colaBlock')
    BY <2>1, <2>2, ColaAppend DEF TipoColas, Lugares, UnaVez
  <2>4. UnaVez' /\ Manos'
    BY <2>1, <2>3 DEF Lugares, UnaVez, Manos
  <2>5. Cuenta'
    <3>1. /\ pcD = "mata" => entD = Saliente
          /\ pcD \in {"saca", "rebloquea", "espera"} =>
                EnCola(peleadores, Head(peleadores))
      BY HeadTailProperties, ColaTail DEF Saliente, TipoDeadlock, Punteros, PunteroDeadlock
    <3>2. /\ pcD \in {"mata", "saca", "rebloquea"} => entP # Saliente
          /\ pcD = "espera" => entP # Head(peleadores)
      BY <2>2, <3>1 DEF EnManos, Saliente
    <3>3. /\ Len(colaBlock) \in Nat /\ Len(colaBlock') = Len(colaBlock) + 1
          /\ \A i \in 1 .. Len(colaBlock) : colaBlock'[i] = colaBlock[i]
          /\ colaBlock'[Len(colaBlock) + 1] = entP
      BY <2>1, AppendProperties, LenProperties DEF TipoColas
    <3>4. ASSUME pcD \in {"mata", "saca", "rebloquea"}
          PROVE  /\ tamD <= Len(colaBlock')
                 /\ \A i \in tamD + 1 .. Len(colaBlock') : colaBlock'[i] # Saliente
      <4>1. tamD <= Len(colaBlock) /\ tamD \in Nat
        BY <3>4 DEF Lugares, Cuenta, TipoDeadlock
      <4>2. ASSUME NEW i \in tamD + 1 .. Len(colaBlock')
            PROVE  colaBlock'[i] # Saliente
        <5>1. i \in tamD + 1 .. Len(colaBlock) \/ i = Len(colaBlock) + 1
          BY <3>3, <4>1
        <5>2. CASE i \in tamD + 1 .. Len(colaBlock)
          <6>1. colaBlock[i] # Saliente
            BY <3>4, <5>2 DEF Lugares, Cuenta
          <6>2. i \in 1 .. Len(colaBlock)
            BY <3>3, <4>1, <5>2
          <6> QED
            BY <3>3, <6>1, <6>2
        <5>3. CASE i = Len(colaBlock) + 1
          BY <3>2, <3>3, <3>4, <5>3
        <5> QED
          BY <5>1, <5>2, <5>3
      <4> QED
        BY <3>3, <4>1, <4>2
    <3>5. Saliente' = Saliente
      BY <2>1 DEF Saliente
    <3> QED
      BY <2>1, <2>3, <3>2, <3>4, <3>5 DEF Cuenta, Lugares
  <2>6. ASSUME NEW c \in Conexiones
        PROVE  Separado(c)' /\ SinEmpezar(c)' /\ Derrotado(c)'
    BY <2>1, <2>3 DEF Lugares, Separado, SinEmpezar, Derrotado, EnManos
  <2> QED
    BY <2>4, <2>5, <2>6 DEF Lugares
<1>10. CASE P_RecibeFin
  <2>1. /\ pcP = "recibe" /\ pcP' = "entra" /\ entP' = Nadie
        /\ UNCHANGED <<pendientes, colaReady, colaBlock, entB, entD, bloqueados, pelea,
                      peleadores, destruidos, pcD, tamD, pcE, pcB>>
    BY <1>10 DEF P_RecibeFin, EnP, recursos, colas, block, deadlock, procesos
  <2>2. UnaVez' /\ Manos' /\ Cuenta'
    BY <2>1 DEF Lugares, UnaVez, Manos, Cuenta, Saliente
  <2>3. ASSUME NEW c \in Conexiones
        PROVE  Separado(c)' /\ SinEmpezar(c)' /\ Derrotado(c)'
    BY <2>1 DEF Lugares, Separado, SinEmpezar, Derrotado, EnManos
  <2> QED
    BY <2>2, <2>3 DEF Lugares
<1> QED
  BY <1>1, <1>2, <1>3, <1>4, <1>5, <1>6, <1>7, <1>8, <1>9, <1>10 DEF Planificar

(***************************************************************************)
(* hiloBlock.  While it works hiloDeadlock has nobody in its hands.        *)
(***************************************************************************)
LEMMA BloquearLugares ==
    ASSUME Tipos, Lugares, Bloquear, Exclusion, Exclusion'
    PROVE  Lugares'
<1> USE DEF Tipos, TypeOK
<1> Nadie \notin Conexiones
  BY ConstantesAssumption
<1>1. CASE \/ B_Chequea \/ B_DuermeVacio \/ B_Entrega \/ B_Pregunta \/ B_DuermeBlock
           \/ B_Despierta \/ B_AvisaReady \/ B_SenalReady
           \/ B_Lock /\ UNCHANGED <<colaBlock, entB, pcB>>
  <2>1. /\ UNCHANGED <<lugares, pcD, tamD, pcE>>
        /\ pcP' = "recibe" <=> pcP = "recibe"
        /\ pcB' \in {"pokemon", "recibe"} <=> pcB \in {"pokemon", "recibe"}
    BY <1>1 DEF B_Chequea, B_DuermeVacio, B_Entrega, B_Pregunta, B_DuermeBlock,
       B_Despierta, B_AvisaReady, B_SenalReady, B_Lock, EnB, Entregar, SenalPlanificador,
       lugares, recursos, colas, red, planificador, deadlock, procesos
  <2> QED
    BY <2>1, Quietos, QuietosVale DEF Lugares
<1>2. CASE B_Lock /\ ~UNCHANGED <<colaBlock, entB, pcB>>
  <2>1. /\ pcB = "lock" /\ pcB' = "pokemon" /\ colaBlock # <<>>
        /\ entB' = Head(colaBlock) /\ colaBlock' = Tail(colaBlock)
        /\ UNCHANGED <<pendientes, colaReady, entP, entD, bloqueados, pelea, peleadores,
                      destruidos, pcP, pcD, tamD, pcE>>
    BY <1>2 DEF B_Lock, EnB, recursos, red, planificador, deadlock, procesos
  <2>2. pcD \in {"chequea", "lock", "despierta"}
    BY <2>1 DEF Exclusion, DentroB, DentroD
  <2>3. entD = Nadie /\ entB = Nadie /\ \A c \in Conexiones : ~EnManos(c)
    BY <2>1, <2>2, ColaVacia DEF Lugares, Manos, EnManos
  <2>4. /\ entB' \in Conexiones
        /\ \A c : EnCola(colaBlock, c) <=> EnCola(colaBlock', c) \/ c = entB'
        /\ SinRepetidos(colaBlock') /\ ~EnCola(colaBlock', entB')
    BY <2>1, ColaTail DEF TipoColas, Lugares, UnaVez
  <2>5. UnaVez' /\ Manos' /\ Cuenta'
    BY <2>1, <2>2, <2>4 DEF Lugares, UnaVez, Manos, Cuenta
  <2>6. ASSUME NEW c \in Conexiones
        PROVE  Separado(c)' /\ SinEmpezar(c)' /\ Derrotado(c)'
    BY <2>1, <2>3, <2>4 DEF Lugares, Separado, SinEmpezar, Derrotado, EnManos
  <2> QED
    BY <2>5, <2>6 DEF Lugares
<1>3. CASE B_Rebloquea
  <2>1. /\ pcB = "pokemon" /\ pcB' = "pregunta" /\ entB \in Conexiones /\ entB' = Nadie
        /\ colaBlock' = Append(colaBlock, entB)
        /\ UNCHANGED <<pendientes, colaReady, entP, entD, bloqueados, pelea, peleadores,
                      destruidos, pcP, pcD, tamD, pcE>>
    BY <1>3 DEF B_Rebloquea, EnB, Punteros, PunteroBlock, recursos, red, planificador,
       deadlock, procesos
  <2>2. pcD \in {"chequea", "lock", "despierta"}
    BY <2>1 DEF Exclusion, DentroB, DentroD
  <2>3. ~EnCola(colaBlock, entB)
    BY <2>1 DEF Lugares, Separado
  <2>4. /\ \A c : EnCola(colaBlock', c) <=> EnCola(colaBlock, c) \/ c = entB
        /\ SinRepetidos(colaBlock')
    BY <2>1, <2>3, ColaAppend DEF TipoColas, Lugares, UnaVez
  <2>5. UnaVez' /\ Manos' /\ Cuenta'
    BY <2>1, <2>2, <2>4 DEF Lugares, UnaVez, Manos, Cuenta
  <2>6. ASSUME NEW c \in Conexiones
        PROVE  Separado(c)' /\ SinEmpezar(c)' /\ Derrotado(c)'
    BY <2>1, <2>4 DEF Lugares, Separado, SinEmpezar, Derrotado, EnManos
  <2> QED
    BY <2>5, <2>6 DEF Lugares
<1>4. CASE B_Recibe
  <2>1. /\ pcB = "recibe" /\ pcB' = "avisaReady" /\ entB \in Conexiones /\ entB' = Nadie
        /\ colaReady' = Append(colaReady, entB)
        /\ UNCHANGED <<pendientes, colaBlock, entP, entD, bloqueados, pelea, peleadores,
                      destruidos, pcP, pcD, tamD, pcE>>
    BY <1>4 DEF B_Recibe, EnB, Punteros, PunteroBlock, recursos, planificador, deadlock,
       procesos
  <2>2. ~EnCola(colaReady, entB)
    BY <2>1 DEF Lugares, Separado
  <2>3. /\ \A c : EnCola(colaReady', c) <=> EnCola(colaReady, c) \/ c = entB
        /\ SinRepetidos(colaReady')
    BY <2>1, <2>2, ColaAppend DEF TipoColas, Lugares, UnaVez
  <2>4. UnaVez' /\ Manos' /\ Cuenta'
    BY <2>1, <2>3 DEF Lugares, UnaVez, Manos, Cuenta, Saliente
  <2>5. ASSUME NEW c \in Conexiones
        PROVE  Separado(c)' /\ SinEmpezar(c)' /\ Derrotado(c)'
    BY <2>1, <2>3 DEF Lugares, Separado, SinEmpezar, Derrotado, EnManos
  <2> QED
    BY <2>4, <2>5 DEF Lugares
<1>5. CASE B_RecibeFin
  <2>1. /\ pcB' = "chequea" /\ entB' = Nadie
        /\ UNCHANGED <<pendientes, colaReady, colaBlock, entP, entD, bloqueados, pelea,
                      peleadores, destruidos, pcP, pcD, tamD, pcE>>
    BY <1>5 DEF B_RecibeFin, EnB, recursos, colas, planificador, deadlock, procesos
  <2>2. UnaVez' /\ Manos' /\ Cuenta'
    BY <2>1 DEF Lugares, UnaVez, Manos, Cuenta, Saliente
  <2>3. ASSUME NEW c \in Conexiones
        PROVE  Separado(c)' /\ SinEmpezar(c)' /\ Derrotado(c)'
    BY <2>1 DEF Lugares, Separado, SinEmpezar, Derrotado, EnManos
  <2> QED
    BY <2>2, <2>3 DEF Lugares
<1> QED
  BY <1>1, <1>2, <1>3, <1>4, <1>5 DEF Bloquear

(***************************************************************************)
(* hiloDeadlock.  When it takes mutexBlockDeadlock hiloBlock has nobody in *)
(* its hands; and popEntrenador visits the one it is to take out, because  *)
(* nobody else makes the queue shorter meanwhile.                          *)
(***************************************************************************)
LEMMA InterbloqueoLugares ==
    ASSUME Tipos, Lugares, Interbloqueo, Exclusion, Exclusion'
    PROVE  Lugares'
<1> USE DEF Tipos, TypeOK
<1> Nadie \notin Conexiones
  BY ConstantesAssumption
<1>1. CASE \/ D_Chequea \/ D_Desafia \/ D_EligeNull \/ D_Entrega \/ D_EsperaNull
           \/ D_AvisaReady \/ D_SenalReady \/ D_EntregaNull \/ D_AvisaVacio
           \/ D_SenalVacio \/ D_Suelta \/ D_Despierta
  <2>1. /\ UNCHANGED <<lugares, pcE>>
        /\ pcP' = "recibe" <=> pcP = "recibe"
        /\ pcB' \in {"pokemon", "recibe"} <=> pcB \in {"pokemon", "recibe"}
    BY <1>1 DEF D_Chequea, D_Desafia, D_EligeNull, D_Entrega, D_EsperaNull, D_AvisaReady,
       D_SenalReady, D_EntregaNull, D_AvisaVacio, D_SenalVacio, D_Suelta, D_Despierta,
       Entregar, EnD, SenalPlanificador, SenalBlockEmpty, SenalBlock, lugares, recursos,
       colas, red, planificador, block, deadlock, procesos
  <2>2. \/ UNCHANGED <<pcD, tamD>>
        \/ pcD = "chequea" /\ pcD' \in {"lock", "despierta"}
        \/ pcD = "desafia" /\ pcD' = "elige"
        \/ pcD = "elige" /\ pcD' = "sacaCaido"
        \/ pcD = "entrega" /\ pcD' \in {"saca", "rebloquea"} /\ tamD' = Len(colaBlock)
        \/ pcD = "avisaReady" /\ pcD' \in {"senalReady", "entrega"}
        \/ pcD = "avisaVacio" /\ pcD' \in {"senalVacio", "entrega"}
        \/ pcD \in {"senalReady", "senalVacio"} /\ pcD' = "entrega"
        \/ pcD = "suelta" /\ pcD' = "despierta"
        \/ pcD = "entrega" /\ peleadores = <<>> /\ pcD' = "despierta"
        \/ pcD = "despierta" /\ pcD' = "chequea"
    BY <1>1 DEF D_Chequea, D_Desafia, D_EligeNull, D_Entrega, D_EsperaNull, D_AvisaReady,
       D_SenalReady, D_EntregaNull, D_AvisaVacio, D_SenalVacio, D_Suelta, D_Despierta, EnD,
       deadlock
  <2>3. Manos'
    BY <2>1, <2>2, ColaVacia DEF Lugares, Manos, lugares
  <2>4. Cuenta'
    <3>1. Len(colaBlock) \in Nat
      BY LenProperties DEF TipoColas
    <3>2. \A i \in Len(colaBlock) + 1 .. Len(colaBlock) : FALSE
      BY <3>1
    <3> QED
      BY <2>1, <2>2, <3>1, <3>2 DEF Lugares, Cuenta, Saliente, lugares
  <2> QED
    BY <2>1, <2>3, <2>4, Quietos
<1>2. CASE D_Lock
  <2>1. /\ pcD = "lock" /\ pcD' = "calcula" /\ bloqueados' = colaBlock
        /\ UNCHANGED <<pendientes, colaReady, colaBlock, entP, entB, entD, pelea,
                      peleadores, destruidos, pcP, pcB, pcE>>
    BY <1>2 DEF D_Lock, EnD, recursos, colas, red, planificador, block, procesos
  <2>2. entB = Nadie /\ entD = Nadie
    BY <2>1 DEF Exclusion, DentroB, DentroD, Lugares, Manos
  <2>3. UnaVez' /\ Manos' /\ Cuenta'
    BY <2>1 DEF Lugares, UnaVez, Manos, Cuenta
  <2>4. ASSUME NEW c \in Conexiones
        PROVE  Separado(c)' /\ SinEmpezar(c)' /\ Derrotado(c)'
    BY <2>1, <2>2 DEF Lugares, Separado, SinEmpezar, Derrotado, EnManos
  <2> QED
    BY <2>3, <2>4 DEF Lugares
<1>3. CASE D_Calcula
  <2>1. /\ pcD = "calcula" /\ pcD' \in {"suelta", "desafia"} /\ bloqueados' = <<>>
        /\ UNCHANGED <<pendientes, colaReady, colaBlock, entP, entB, entD, peleadores,
                      destruidos, pcP, pcB, pcE>>
    BY <1>3 DEF D_Calcula, EnD, recursos, colas, red, planificador, block, procesos
  <2>2. PICK S \in SUBSET Miembros(bloqueados) :
          pelea' \in Ordenes(S) /\ pcD' = IF S = {} THEN "suelta" ELSE "desafia"
    BY <1>3 DEF D_Calcula, GetDeadlock
  <2>3. /\ SinRepetidos(pelea')
        /\ \A c : EnCola(pelea', c) <=> c \in S
    BY <2>2, OrdenesUnaVez DEF TipoDeadlock
  <2>4. \A c : EnCola(pelea', c) => EnCola(bloqueados, c)
    BY <2>3 DEF Miembros, EnCola
  <2>5. UnaVez' /\ Manos' /\ Cuenta'
    BY <2>1, <2>2, <2>3 DEF Lugares, UnaVez, Manos, Cuenta
  <2>6. entD = Nadie /\ \A c \in Conexiones : ~EnCola(peleadores, c)
    BY <2>1 DEF Lugares, Manos
  <2>7. ASSUME NEW c \in Conexiones
        PROVE  Separado(c)' /\ SinEmpezar(c)' /\ Derrotado(c)'
    BY <2>1, <2>4, <2>6, ColaVacia DEF Lugares, Separado, SinEmpezar, Derrotado, EnManos
  <2> QED
    BY <2>5, <2>7 DEF Lugares
<1>4. CASE D_Elige
  <2> DEFINE h == Head(pelea)
  <2>1. /\ pcD = "elige" /\ pcD' = Siguiente(pelea', caido) /\ pelea # <<>>
        /\ pelea' = Tail(pelea) /\ peleadores' = Append(peleadores, h)
        /\ UNCHANGED <<pendientes, colaReady, colaBlock, entP, entB, entD, bloqueados,
                      destruidos, pcP, pcB, pcE>>
    BY <1>4 DEF D_Elige, EnD, Punteros, PunteroDeadlock, recursos, colas, planificador,
       block, procesos
  <2>2. /\ h \in Conexiones /\ SinRepetidos(pelea') /\ ~EnCola(pelea', h)
        /\ \A c : EnCola(pelea, c) <=> EnCola(pelea', c) \/ c = h
    BY <2>1, ColaTail DEF TipoDeadlock, Lugares, UnaVez
  <2> HIDE DEF h
  <2>3. ~EnCola(peleadores, h)
    BY <2>2 DEF Lugares, Separado
  <2>4. /\ SinRepetidos(peleadores')
        /\ \A c : EnCola(peleadores', c) <=> EnCola(peleadores, c) \/ c = h
    BY <2>1, <2>2, <2>3, ColaAppend DEF TipoDeadlock, Lugares, UnaVez
  <2>5. UnaVez' /\ Manos' /\ Cuenta'
    BY <2>1, <2>2, <2>4, ColaVacia DEF Lugares, UnaVez, Manos, Cuenta, Siguiente
  <2>6. ASSUME NEW c \in Conexiones
        PROVE  Separado(c)' /\ SinEmpezar(c)' /\ Derrotado(c)'
    BY <2>1, <2>2, <2>4 DEF Lugares, Separado, SinEmpezar, Derrotado, EnManos
  <2> QED
    BY <2>5, <2>6 DEF Lugares
<1>5. CASE D_SacaCaido
  <2>1. /\ pcD = "sacaCaido" /\ pcD' = Siguiente(pelea', TRUE) /\ pelea # <<>>
        /\ pelea' = Tail(pelea)
        /\ colaBlock' \in PopEntrenador(colaBlock, tamD, Simbolo(Head(pelea)))
        /\ UNCHANGED <<pendientes, colaReady, entP, entB, entD, bloqueados, peleadores,
                      destruidos, pcP, pcB, pcE>>
    BY <1>5 DEF D_SacaCaido, SacarDeBlock, EnD, Punteros, PunteroDeadlock, recursos, red,
       planificador, block, procesos
  <2>2. /\ SinRepetidos(pelea') /\ \A c : EnCola(pelea', c) => EnCola(pelea, c)
    BY <2>1, ColaTail DEF TipoDeadlock, Lugares, UnaVez
  <2>3. /\ SinRepetidos(colaBlock') /\ \A c : EnCola(colaBlock', c) => EnCola(colaBlock, c)
    BY <2>1, ColaPop DEF TipoColas, TipoDeadlock, Lugares, UnaVez
  <2>4. UnaVez' /\ Manos' /\ Cuenta'
    BY <2>1, <2>2, <2>3, ColaVacia DEF Lugares, UnaVez, Manos, Cuenta, Siguiente
  <2>5. ASSUME NEW c \in Conexiones
        PROVE  Separado(c)' /\ SinEmpezar(c)' /\ Derrotado(c)'
    BY <2>1, <2>2, <2>3 DEF Lugares, Separado, SinEmpezar, Derrotado, EnManos
  <2> QED
    BY <2>4, <2>5 DEF Lugares
<1>6. CASE D_Libera
  <2>1. /\ pcD = "libera" /\ pcD' = "mata" /\ tamD' = Len(colaBlock)
        /\ UNCHANGED <<pendientes, colaReady, colaBlock, entP, entB, bloqueados, pelea,
                      pcP, pcB, pcE>>
    BY <1>6 DEF D_Libera, EnD, colas, red, planificador, block, procesos
  <2>2. PICK i \in 1 .. Len(peleadores) :
          /\ entD' = peleadores[i] /\ peleadores' = Quitar(peleadores, i)
          /\ destruidos' = destruidos \cup {peleadores[i]}
    BY <1>6 DEF D_Libera, LiberarRecursos
  <2>3. /\ entD' \in Conexiones /\ EnCola(peleadores, entD')
        /\ SinRepetidos(peleadores')
        /\ \A c : EnCola(peleadores', c) => EnCola(peleadores, c) /\ c # entD'
    <3>1. peleadores \in Seq(Conexiones) /\ SinRepetidos(peleadores)
      BY DEF TipoDeadlock, Lugares, UnaVez
    <3>2. peleadores[i] \in Conexiones /\ EnCola(peleadores, peleadores[i])
      BY <3>1, ElementOfSeq DEF EnCola
    <3> QED
      BY <2>2, <3>1, <3>2, ColaQuitar
  <2>4. UnaVez' /\ Manos'
    BY <2>1, <2>3 DEF Lugares, UnaVez, Manos
  <2>5. Cuenta'
    <3>1. Len(colaBlock) \in Nat
      BY LenProperties DEF TipoColas
    <3>2. \A k \in Len(colaBlock) + 1 .. Len(colaBlock) : FALSE
      BY <3>1
    <3> QED
      BY <2>1, <3>1, <3>2 DEF Cuenta
  <2>6. entD = Nadie /\ bloqueados = <<>>
    BY <2>1 DEF Lugares, Manos
  <2>7. ASSUME NEW c \in Conexiones
        PROVE  Separado(c)' /\ SinEmpezar(c)' /\ Derrotado(c)'
    BY <2>1, <2>2, <2>3, <2>6, ColaVacia
    DEF Lugares, Separado, SinEmpezar, Derrotado, EnManos
  <2> QED
    BY <2>4, <2>5, <2>7 DEF Lugares
<1>7. CASE D_Mata
  <2>1. /\ pcD = "mata" /\ pcD' = "entrega" /\ entD \in Conexiones /\ entD' = Nadie
        /\ colaBlock' \in PopEntrenador(colaBlock, tamD, Simbolo(entD))
        /\ UNCHANGED <<pendientes, colaReady, entP, entB, bloqueados, pelea, peleadores,
                      destruidos, pcP, pcB, pcE>>
    BY <1>7 DEF D_Mata, SacarDeBlock, EnD, Punteros, PunteroDeadlock, recursos,
       planificador, block, procesos
  <2>2. tamD <= Len(colaBlock) /\ \A i \in tamD + 1 .. Len(colaBlock) : colaBlock[i] # entD
    BY <2>1 DEF Lugares, Cuenta, Saliente
  <2>3. /\ SinRepetidos(colaBlock') /\ ~EnCola(colaBlock', entD)
        /\ \A c : EnCola(colaBlock', c) => EnCola(colaBlock, c)
    BY <2>1, <2>2, ColaPop DEF TipoColas, TipoDeadlock, Lugares, UnaVez
  <2>4. UnaVez' /\ Manos' /\ Cuenta'
    BY <2>1, <2>3 DEF Lugares, UnaVez, Manos, Cuenta
  <2>5. ASSUME NEW c \in Conexiones
        PROVE  Separado(c)' /\ SinEmpezar(c)' /\ Derrotado(c)'
    BY <2>1, <2>3 DEF Lugares, Separado, SinEmpezar, Derrotado, EnManos
  <2> QED
    BY <2>4, <2>5 DEF Lugares
<1>8. CASE D_Saca
  <2>1. /\ pcD = "saca" /\ pcD' = "espera"
        /\ colaBlock' \in PopEntrenador(colaBlock, tamD, Simbolo(Head(peleadores)))
        /\ UNCHANGED <<pendientes, colaReady, entP, entB, entD, bloqueados, pelea, peleadores,
                      destruidos, pcP, pcB, pcE>>
    BY <1>8 DEF D_Saca, SacarDeBlock, EnD, recursos, red, planificador, block, procesos
  <2>2. /\ tamD <= Len(colaBlock)
        /\ \A i \in tamD + 1 .. Len(colaBlock) : colaBlock[i] # Head(peleadores)
    BY <2>1 DEF Lugares, Cuenta, Saliente
  <2>3. /\ SinRepetidos(colaBlock') /\ ~EnCola(colaBlock', Head(peleadores))
        /\ \A c : EnCola(colaBlock', c) => EnCola(colaBlock, c)
    BY <2>1, <2>2, ColaPop DEF TipoColas, TipoDeadlock, Lugares, UnaVez
  <2>4. UnaVez' /\ Manos' /\ Cuenta'
    BY <2>1, <2>3 DEF Lugares, UnaVez, Manos, Cuenta
  <2>5. ASSUME NEW c \in Conexiones
        PROVE  Separado(c)' /\ SinEmpezar(c)' /\ Derrotado(c)'
    BY <2>1, <2>3 DEF Lugares, Separado, SinEmpezar, Derrotado, EnManos
  <2> QED
    BY <2>4, <2>5 DEF Lugares
<1>9. CASE D_Espera
  <2> DEFINE h == Head(peleadores)
  <2>1. /\ pcD = "espera" /\ pcD' \in {"entrega", "avisaReady"} /\ peleadores # <<>>
        /\ peleadores' = Tail(peleadores)
        /\ UNCHANGED colaReady \/ colaReady' = Append(colaReady, h)
        /\ UNCHANGED <<pendientes, colaBlock, entP, entB, entD, bloqueados, pelea,
                      destruidos, pcP, pcB, pcE>>
    BY <1>9 DEF D_Espera, EnD, Punteros, PunteroDeadlock, recursos, planificador, block,
       procesos
  <2>2. /\ h \in Conexiones /\ SinRepetidos(peleadores') /\ ~EnCola(peleadores', h)
        /\ \A c : EnCola(peleadores, c) <=> EnCola(peleadores', c) \/ c = h
    BY <2>1, ColaTail DEF TipoDeadlock, Lugares, UnaVez
  <2>3. ~EnCola(colaBlock, h) /\ bloqueados = <<>>
    BY <2>1 DEF Lugares, Cuenta, Manos
  <2> HIDE DEF h
  <2>4. ~EnCola(colaReady, h) /\ ~EnCola(pelea, h) /\ h # entD
    BY <2>2 DEF Lugares, Separado, EnManos
  <2>5. /\ SinRepetidos(colaReady')
        /\ \A c : EnCola(colaReady', c) => EnCola(colaReady, c) \/ c = h
    <3>1. colaReady \in Seq(Conexiones) /\ SinRepetidos(colaReady)
      BY DEF TipoColas, Lugares, UnaVez
    <3>2. CASE UNCHANGED colaReady
      BY <3>1, <3>2
    <3>3. CASE colaReady' = Append(colaReady, h)
      BY <2>2, <2>4, <3>1, <3>3, ColaAppend
    <3> QED
      BY <2>1, <3>2, <3>3
  <2>6. UnaVez' /\ Manos' /\ Cuenta'
    BY <2>1, <2>2, <2>5 DEF Lugares, UnaVez, Manos, Cuenta
  <2>7. ASSUME NEW c \in Conexiones
        PROVE  Separado(c)' /\ SinEmpezar(c)' /\ Derrotado(c)'
    BY <2>1, <2>2, <2>3, <2>4, <2>5, ColaVacia
    DEF Lugares, Separado, SinEmpezar, Derrotado, EnManos
  <2> QED
    BY <2>6, <2>7 DEF Lugares
<1>10. CASE D_Rebloquea
  <2> DEFINE h == Head(peleadores)
  <2>1. /\ pcD = "rebloquea" /\ pcD' = "avisaVacio" /\ peleadores # <<>>
        /\ peleadores' = Tail(peleadores)
        /\ UNCHANGED <<pendientes, colaReady, entP, entB, entD, bloqueados, pelea,
                      destruidos, pcP, pcB, pcE>>
    BY <1>10 DEF D_Rebloquea, EnD, Punteros, PunteroDeadlock, recursos, red, planificador,
       block, procesos
  <2>2. PICK q \in PopEntrenador(colaBlock, tamD, Simbolo(h)) : colaBlock' = Append(q, h)
    BY <1>10 DEF D_Rebloquea
  <2>3. /\ h \in Conexiones /\ SinRepetidos(peleadores')
        /\ \A c : EnCola(peleadores, c) <=> EnCola(peleadores', c) \/ c = h
        /\ ~EnCola(peleadores', h)
    BY <2>1, ColaTail DEF TipoDeadlock, Lugares, UnaVez
  <2>4. tamD <= Len(colaBlock) /\ \A i \in tamD + 1 .. Len(colaBlock) : colaBlock[i] # h
    BY <2>1 DEF Lugares, Cuenta, Saliente
  <2> HIDE DEF h
  <2>5. /\ q \in Seq(Conexiones) /\ SinRepetidos(q) /\ ~EnCola(q, h)
        /\ \A c : EnCola(q, c) => EnCola(colaBlock, c)
    BY <2>2, <2>4, ColaPop, PopEntrenadorTipo DEF TipoColas, TipoDeadlock, Lugares, UnaVez
  <2>6. /\ SinRepetidos(colaBlock')
        /\ \A c : EnCola(colaBlock', c) => EnCola(colaBlock, c) \/ c = h
    BY <2>2, <2>3, <2>5, ColaAppend
  <2>7. UnaVez' /\ Manos' /\ Cuenta'
    BY <2>1, <2>3, <2>6 DEF Lugares, UnaVez, Manos, Cuenta
  <2>8. ASSUME NEW c \in Conexiones
        PROVE  Separado(c)' /\ SinEmpezar(c)' /\ Derrotado(c)'
    BY <2>1, <2>3, <2>6 DEF Lugares, Separado, SinEmpezar, Derrotado, EnManos
  <2> QED
    BY <2>7, <2>8 DEF Lugares
<1> QED
  BY <1>1, <1>2, <1>3, <1>4, <1>5, <1>6, <1>7, <1>8, <1>9, <1>10 DEF Interbloqueo

(***************************************************************************)
(* main.  It is not in popEntrenador while hiloDeadlock is.                *)
(***************************************************************************)
LEMMA AtenderLugares ==
    ASSUME Tipos, Lugares, Atender, UnPopPorVez
    PROVE  Lugares'
<1> USE DEF Tipos, TypeOK
<1> Nadie \notin Conexiones
  BY ConstantesAssumption
<1>1. CASE \/ M_Select \/ M_AceptaNull \/ M_AvisaReady \/ M_SenalReady \/ M_Revisa
           \/ M_Borra \/ M_AvisaBlock \/ M_Termina
  <2>1. /\ UNCHANGED <<lugares, pcD, tamD, pcE>>
        /\ pcP' = "recibe" <=> pcP = "recibe"
        /\ pcB' \in {"pokemon", "recibe"} <=> pcB \in {"pokemon", "recibe"}
    BY <1>1 DEF M_Select, M_AceptaNull, M_AvisaReady, M_SenalReady, M_Revisa, M_Borra,
       M_AvisaBlock, M_Termina, SenalPlanificador, SenalBlock, lugares, recursos, colas, red,
       planificador, block, deadlock, procesos
  <2> QED
    BY <2>1, Quietos, QuietosVale DEF Lugares
<1>2. CASE M_Acepta
  <2> DEFINE h == Head(pendientes)
  <2>1. /\ pendientes # <<>> /\ pendientes' = Tail(pendientes)
        /\ colaReady' = Append(colaReady, h)
        /\ UNCHANGED <<colaBlock, entP, entB, entD, bloqueados, pelea, peleadores,
                      destruidos, pcP, pcB, pcD, tamD, pcE>>
    BY <1>2 DEF M_Acepta, EnM, Punteros, PunteroPrincipal, recursos, planificador, block,
       deadlock, procesos
  <2>2. /\ h \in Conexiones /\ SinRepetidos(pendientes') /\ ~EnCola(pendientes', h)
        /\ \A c : EnCola(pendientes, c) <=> EnCola(pendientes', c) \/ c = h
    BY <2>1, ColaTail DEF TipoRed, Lugares, UnaVez
  <2> HIDE DEF h
  <2>3. ~EnCola(colaReady, h)
    BY <2>2 DEF Lugares, Separado
  <2>4. /\ SinRepetidos(colaReady')
        /\ \A c : EnCola(colaReady', c) <=> EnCola(colaReady, c) \/ c = h
    BY <2>1, <2>2, <2>3, ColaAppend DEF TipoColas, Lugares, UnaVez
  <2>5. UnaVez' /\ Manos' /\ Cuenta'
    BY <2>1, <2>2, <2>4 DEF Lugares, UnaVez, Manos, Cuenta, Saliente
  <2>6. ASSUME NEW c \in Conexiones
        PROVE  Separado(c)' /\ SinEmpezar(c)' /\ Derrotado(c)'
    BY <2>1, <2>2, <2>4 DEF Lugares, Separado, SinEmpezar, Derrotado, EnManos
  <2> QED
    BY <2>5, <2>6 DEF Lugares
<1>3. CASE M_Saca
  <2>1. /\ pcM = "saca"
        /\ \E s \in SimboloLeido(entM) : colaBlock' \in PopEntrenador(colaBlock, tamM, s)
        /\ UNCHANGED <<pendientes, colaReady, entP, entB, entD, bloqueados, pelea, peleadores,
                      destruidos, pcP, pcB, pcD, tamD, pcE>>
    BY <1>3 DEF M_Saca, EnM, recursos, red, planificador, block, deadlock, procesos
  <2>2. /\ SinRepetidos(colaBlock') /\ \A c : EnCola(colaBlock', c) => EnCola(colaBlock, c)
    BY <2>1, ColaPop DEF TipoColas, TipoPrincipal, Lugares, UnaVez
  <2>3. UnaVez' /\ Manos' /\ Cuenta'
    BY <2>1, <2>2 DEF Lugares, UnaVez, Manos, Cuenta, UnPopPorVez
  <2>4. ASSUME NEW c \in Conexiones
        PROVE  Separado(c)' /\ SinEmpezar(c)' /\ Derrotado(c)'
    BY <2>1, <2>2 DEF Lugares, Separado, SinEmpezar, Derrotado, EnManos
  <2> QED
    BY <2>3, <2>4 DEF Lugares
<1> QED
  BY <1>1, <1>2, <1>3 DEF Atender

(***************************************************************************)
(* A trainer: only its connect() puts it anywhere.                         *)
(***************************************************************************)
LEMMA EntrenadorLugares ==
    ASSUME Tipos, Lugares, NEW e \in Conexiones, E_Conecta(e) \/ Avanza(e) \/ E_Cae(e)
    PROVE  Lugares'
<1> USE DEF Tipos, TypeOK
<1>1. CASE E_Conecta(e)
  <2>1. /\ pendientes' = Append(pendientes, e) /\ pcE[e] = "fuera"
        /\ UNCHANGED <<colaReady, colaBlock, entP, entB, entD, bloqueados, pelea,
                      peleadores, destruidos, pcP, pcB, pcD, tamD>>
        /\ \A c \in Conexiones : pcE'[c] = "fuera" => pcE[c] = "fuera" /\ c # e
    BY <1>1 DEF E_Conecta, EnE, TipoProcesos, recursos, colas, planificador, block, deadlock
  <2>2. ~EnCola(pendientes, e)
    BY <2>1 DEF Lugares, SinEmpezar
  <2>3. /\ SinRepetidos(pendientes')
        /\ \A c : EnCola(pendientes', c) <=> EnCola(pendientes, c) \/ c = e
    BY <2>1, <2>2, ColaAppend DEF TipoRed, Lugares, UnaVez
  <2>4. UnaVez' /\ Manos' /\ Cuenta'
    BY <2>1, <2>3 DEF Lugares, UnaVez, Manos, Cuenta, Saliente
  <2>5. ASSUME NEW c \in Conexiones
        PROVE  Separado(c)' /\ SinEmpezar(c)' /\ Derrotado(c)'
    BY <2>1, <2>3 DEF Lugares, Separado, SinEmpezar, Derrotado, EnManos
  <2> QED
    BY <2>4, <2>5 DEF Lugares
<1>2. CASE Avanza(e) \/ E_Cae(e)
  <2>1. /\ UNCHANGED <<lugares, pcP, pcB, pcD, tamD>>
        /\ \A c \in Conexiones : pcE'[c] = "fuera" => pcE[c] = "fuera"
    BY <1>2 DEF Avanza, E_Saluda, E_Camina, E_Captura, E_Pelea, E_Muere, E_Otro, E_Cae,
       EnE, TipoProcesos, lugares, recursos, colas, planificador, block, deadlock
  <2> QED
    BY <2>1, Quietos, QuietosVale DEF Lugares
<1> QED
  BY <1>1, <1>2

LEMMA InitLugares == Init => Lugares
<1> SUFFICES ASSUME Init PROVE Lugares
  OBVIOUS
<1>1. /\ pendientes = <<>> /\ colaReady = <<>> /\ colaBlock = <<>>
      /\ bloqueados = <<>> /\ pelea = <<>> /\ peleadores = <<>>
      /\ entP = Nadie /\ entB = Nadie /\ entD = Nadie /\ destruidos = {}
      /\ pcP = "entra" /\ pcB = "chequea" /\ pcD = "chequea"
  BY DEF Init
<1>2. UnaVez /\ Manos /\ Cuenta
  BY <1>1, ColaVacia DEF UnaVez, Manos, Cuenta
<1>3. ASSUME NEW c \in Conexiones
      PROVE  Separado(c) /\ SinEmpezar(c) /\ Derrotado(c)
  BY <1>1, ColaVacia, ConstantesAssumption DEF Separado, SinEmpezar, Derrotado, EnManos
<1> QED
  BY <1>2, <1>3 DEF Lugares

LEMMA NextLugares ==
    Tipos /\ Lugares /\ Disciplina /\ Disciplina' /\ [Next]_vars => Lugares'
<1> SUFFICES ASSUME Tipos, Lugares, Disciplina, Disciplina', [Next]_vars
             PROVE  Lugares'
  OBVIOUS
<1>1. CASE UNCHANGED vars \/ Recargar
  <2>1. UNCHANGED <<lugares, pcP, pcB, pcD, tamD, pcE>>
    BY <1>1 DEF vars, Recargar, lugares, recursos, colas, red, planificador, block, deadlock,
       procesos
  <2> QED
    BY <2>1, Quietos, QuietosVale DEF Lugares
<1>2. Exclusion /\ Exclusion' /\ UnPopPorVez
  BY DEF Disciplina
<1> QED
  BY <1>1, <1>2, PlanificarLugares, BloquearLugares, InterbloqueoLugares, AtenderLugares,
     EntrenadorLugares DEF Next
-----------------------------------------------------------------------------
LEMMA Spec_Lugares == Spec /\ []Disciplina => []Lugares
  BY InitLugares, NextLugares, Spec_Tipos, PTL DEF Spec

LEMMA VecesVale ==
    ASSUME NEW cola \in Seq(Conexiones), NEW c, SinRepetidos(cola)
    PROVE  Veces(cola, c) = IF EnCola(cola, c) THEN 1 ELSE 0
<1> DEFINE I == {i \in 1 .. Len(cola) : cola[i] = c}
<1>1. CASE EnCola(cola, c)
  <2>1. PICK i \in 1 .. Len(cola) : cola[i] = c
    BY <1>1 DEF EnCola
  <2>2. I = {i}
    BY <2>1 DEF SinRepetidos
  <2> QED
    BY <1>1, <2>2, FS_Singleton DEF Veces
<1>2. CASE ~EnCola(cola, c)
  <2>1. I = {}
    BY <1>2 DEF EnCola
  <2> QED
    BY <1>2, <2>1, FS_EmptySet DEF Veces
<1> QED
  BY <1>1, <1>2

(***************************************************************************)
(* With any number of trainers, lives and pokemons, and with fights,       *)
(* deaths and trainers that leave, no visit is in two queues, twice in one *)
(* or in a queue and in the hands of the thread that serves it, in every   *)
(* history where hiloBlock and hiloDeadlock exclude each other and         *)
(* popEntrenador is not entered twice at a time.                           *)
(***************************************************************************)
THEOREM Spec_EnUnSoloLugar == Spec /\ []Disciplina => []EnUnSoloLugar
<1>1. Tipos /\ Lugares => EnUnSoloLugar
  <2> SUFFICES ASSUME Tipos, Lugares, NEW c \in Conexiones
               PROVE  Veces(colaReady, c) + Veces(colaBlock, c)
                        + Cardinality({e \in {<<"P", entP>>, <<"B", entB>>} : e[2] = c}) <= 1
    BY DEF EnUnSoloLugar
  <2> DEFINE H == {e \in {<<"P", entP>>, <<"B", entB>>} : e[2] = c}
  <2>1. /\ Veces(colaReady, c) = IF EnCola(colaReady, c) THEN 1 ELSE 0
        /\ Veces(colaBlock, c) = IF EnCola(colaBlock, c) THEN 1 ELSE 0
    BY VecesVale DEF Tipos, TypeOK, TipoColas, Lugares, UnaVez
  <2>2. Separado(c)
    BY DEF Lugares
  <2>3. CASE entP = c
    <3>1. H = {<<"P", c>>} /\ ~EnCola(colaReady, c) /\ ~EnCola(colaBlock, c)
      BY <2>2, <2>3 DEF Separado
    <3>2. Cardinality(H) = 1
      BY <3>1, FS_Singleton
    <3> QED
      BY <2>1, <3>1, <3>2
  <2>4. CASE entP # c /\ entB = c
    <3>1. H = {<<"B", c>>} /\ ~EnCola(colaReady, c) /\ ~EnCola(colaBlock, c)
      BY <2>2, <2>4 DEF Separado
    <3>2. Cardinality(H) = 1
      BY <3>1, FS_Singleton
    <3> QED
      BY <2>1, <3>1, <3>2
  <2>5. CASE entP # c /\ entB # c
    <3>1. H = {}
      BY <2>5
    <3>2. Cardinality(H) = 0
      BY <3>1, FS_EmptySet
    <3> QED
      BY <2>1, <2>2, <3>2 DEF Separado
  <2> QED
    BY <2>3, <2>4, <2>5
<1> QED
  BY <1>1, Spec_Lugares, Spec_Tipos, PTL

\* A dictionary destroyed is empty, and nothing is put in it any more: that would
\* be the end of the map.
Vaciado == \A c \in destruidos : \A n \in Pokenests : atrapados[c][n] = {}

LEMMA Spec_Vaciado == Spec => []Vaciado
<1>1. Init => Vaciado
  BY DEF Init, Vaciado
<1>2. Tipos /\ Vaciado /\ [Next]_vars => Vaciado'
  <2> SUFFICES ASSUME Tipos, Vaciado, [Next]_vars PROVE Vaciado'
    OBVIOUS
  <2> USE DEF Tipos, TypeOK, TipoRecursos
  <2>1. CASE UNCHANGED recursos
    BY <2>1 DEF Vaciado, recursos
  <2>2. ASSUME NEW c \in Conexiones, NEW m \in MsjGuardado, Entregar(c, m)
        PROVE  Vaciado'
    <3>1. CASE c \in destruidos
      BY <2>2, <3>1 DEF Entregar, Vaciado
    <3>2. CASE c \notin destruidos
      BY <2>2, <3>2 DEF Entregar, Vaciado
    <3> QED
      BY <3>1, <3>2
  <2>3. ASSUME NEW c \in Conexiones, LiberarRecursos(c)
        PROVE  Vaciado'
    BY <2>3 DEF LiberarRecursos, Vaciado
  <2> QED
    BY <2>1, <2>2, <2>3, QuienMueve
<1> QED
  BY <1>1, <1>2, Spec_Tipos, PTL DEF Spec

(***************************************************************************)
(* In those histories a trainer that lost a fight and was told is in no    *)
(* queue and in no hand, and no pokemon reaches it any more, for any map.  *)
(***************************************************************************)
THEOREM Spec_DerrotadoFuera == Spec /\ []Disciplina => []DerrotadoFuera
<1>1. Tipos /\ Lugares /\ Vaciado => DerrotadoFuera
  <2> SUFFICES ASSUME Tipos, Lugares, Vaciado, NEW c \in destruidos
               PROVE  /\ \A n \in Pokenests : atrapados[c][n] = {}
                      /\ pcD # "mata" =>
                            /\ ~EnCola(colaReady, c) /\ ~EnCola(colaBlock, c)
                            /\ c \notin {entP, entB}
    BY DEF DerrotadoFuera
  <2>1. c \in Conexiones
    BY DEF Tipos, TypeOK, TipoRecursos
  <2> QED
    BY <2>1, ConstantesAssumption DEF Lugares, Derrotado, Manos, Vaciado
<1> QED
  BY <1>1, Spec_Lugares, Spec_Tipos, Spec_Vaciado, PTL
-----------------------------------------------------------------------------
(***************************************************************************)
(* What the map promises about its pokemons.  UnicoLugar makes Lugar the   *)
(* visit that holds each one, whichever CHOOSE takes.                      *)
(***************************************************************************)
LugarExacto ==
    \A p \in Pokemons :
        /\ Lugar[p] \in Conexiones \cup {Nadie}
        /\ \A c \in Conexiones : Lugar[p] = c <=> p \in atrapados[c][Nido[p]]
        /\ p \in libres[Nido[p]] => Lugar[p] = Nadie

LEMMA LugarVale == UnicoLugar => LugarExacto
<1> SUFFICES ASSUME UnicoLugar, NEW p \in Pokemons
             PROVE  /\ Lugar[p] \in Conexiones \cup {Nadie}
                    /\ \A c \in Conexiones : Lugar[p] = c <=> p \in atrapados[c][Nido[p]]
                    /\ p \in libres[Nido[p]] => Lugar[p] = Nadie
  BY DEF LugarExacto
<1> DEFINE tienen == {c \in Conexiones : p \in atrapados[c][Nido[p]]}
<1>1. Lugar[p] = IF tienen = {} THEN Nadie ELSE CHOOSE c \in tienen : TRUE
  BY DEF Lugar
<1>2. \A c, d \in tienen : c = d
  BY DEF UnicoLugar
<1>3. p \in libres[Nido[p]] => tienen = {}
  BY DEF UnicoLugar
<1>4. CASE tienen = {}
  BY <1>1, <1>4, ConstantesAssumption
<1>5. CASE tienen # {}
  <2>1. Lugar[p] \in tienen
    BY <1>1, <1>5
  <2> QED
    BY <1>2, <1>3, <2>1
<1> QED
  BY <1>4, <1>5

LEMMA LugarValeDespues == UnicoLugar' => LugarExacto'
  BY LugarVale, PTL

\* One place of Lugar changes.
LEMMA LugarSalvo ==
    ASSUME NEW p \in Pokemons, NEW c, Lugar'[p] = c,
           \A q \in Pokemons : q # p => Lugar'[q] = Lugar[q]
    PROVE  Lugar' = [Lugar EXCEPT ![p] = c]
<1> DEFINE F(q, t) == LET tienen == {d \in Conexiones : q \in t[d][Nido[q]]}
                      IN  IF tienen = {} THEN Nadie ELSE CHOOSE d \in tienen : TRUE
<1>1. Lugar = [q \in Pokemons |-> F(q, atrapados)]
  BY DEF Lugar
<1>2. Lugar' = [q \in Pokemons |-> F(q, atrapados')]
  BY DEF Lugar
<1> HIDE DEF F
<1> QED
  BY <1>1, <1>2

LEMMA EntregarPromesa ==
    ASSUME Tipos, UnicoLugar, UnicoLugar', NEW c \in Conexiones, NEW m \in MsjGuardado,
           Entregar(c, m)
    PROVE  [Promesa!Next]_<<Lugar, destruidos>>
<1> DEFINE n == m.pokemon
<1>1. n \in Pokenests
  BY DEF MsjGuardado
<1>2. CASE c \in destruidos
  <2>1. UNCHANGED <<atrapados, destruidos>>
    BY <1>2 DEF Entregar
  <2> QED
    BY <2>1 DEF Lugar
<1>3. CASE c \notin destruidos
  <2>1. PICK p \in libres[n] : atrapados' = [atrapados EXCEPT ![c][n] = @ \cup {p}]
    BY <1>3 DEF Entregar
  <2>2. p \in Pokemons /\ n = Nido[p]
    BY <1>1, <2>1 DEF Tipos, TypeOK, TipoRecursos, UnicoLugar
  <2>3. UNCHANGED destruidos
    BY DEF Entregar
  <2>4. \A d \in Conexiones, q \in Pokemons :
           q \in atrapados'[d][Nido[q]] <=> q \in atrapados[d][Nido[q]] \/ (d = c /\ q = p)
    BY <1>1, <2>1, <2>2, ConstantesAssumption DEF Tipos, TypeOK, TipoRecursos
  <2>5. Lugar[p] = Nadie /\ Lugar'[p] = c
    BY <2>1, <2>2, <2>4, LugarVale, LugarValeDespues DEF LugarExacto
  <2>6. Lugar' = [Lugar EXCEPT ![p] = c]
    <3>1. ASSUME NEW q \in Pokemons, q # p
          PROVE  Lugar'[q] = Lugar[q]
      <4>1. \A d \in Conexiones : Lugar'[q] = d <=> Lugar[q] = d
        BY <2>4, <3>1, LugarVale, LugarValeDespues DEF LugarExacto
      <4> QED
        BY <4>1, LugarVale, LugarValeDespues DEF LugarExacto
    <3> QED
      BY <2>2, <2>5, <3>1, LugarSalvo
  <2> QED
    BY <1>3, <2>2, <2>3, <2>5, <2>6, ConstantesAssumption DEF Promesa!Next, Promesa!Tomar
<1> QED
  BY <1>2, <1>3

LEMMA LiberarPromesa ==
    ASSUME Tipos, UnicoLugar, UnicoLugar', NEW c \in Conexiones \ destruidos,
           LiberarRecursos(c)
    PROVE  [Promesa!Next]_<<Lugar, destruidos>>
<1>1. \A d \in Conexiones, q \in Pokemons :
         q \in atrapados'[d][Nido[q]] <=> q \in atrapados[d][Nido[q]] /\ d # c
  BY ConstantesAssumption DEF LiberarRecursos, Tipos, TypeOK, TipoRecursos
<1>2. ASSUME NEW q \in Pokemons
      PROVE  Lugar'[q] = IF Lugar[q] = c THEN Nadie ELSE Lugar[q]
  <2>1. \A d \in Conexiones : Lugar'[q] = d <=> Lugar[q] = d /\ d # c
    BY <1>1, LugarVale, LugarValeDespues DEF LugarExacto
  <2> QED
    BY <2>1, LugarVale, LugarValeDespues DEF LugarExacto
<1>3. Lugar' = [q \in Pokemons |-> IF Lugar[q] = c THEN Nadie ELSE Lugar[q]]
  <2> DEFINE F(q, t) == LET tienen == {d \in Conexiones : q \in t[d][Nido[q]]}
                        IN  IF tienen = {} THEN Nadie ELSE CHOOSE d \in tienen : TRUE
  <2>1. Lugar' = [q \in Pokemons |-> F(q, atrapados')]
    BY DEF Lugar
  <2> HIDE DEF F
  <2> QED
    BY <1>2, <2>1
<1>4. destruidos' = destruidos \cup {c}
  BY DEF LiberarRecursos
<1> QED
  BY <1>3, <1>4 DEF Promesa!Next, Promesa!Devolver

(***************************************************************************)
(* In the histories where the two locks do what they are there for, every  *)
(* map keeps the promise of module Recursos: obtenerPokemon takes one free *)
(* pokemon for a visit that has not ended, liberarRecursos gives back all  *)
(* those of one visit, once, and no other step moves any.                  *)
(***************************************************************************)
THEOREM Spec_CumplePromesa == Spec /\ []Disciplina => CumplePromesa
<1>1. Init => Promesa!Init
  <2> SUFFICES ASSUME Init PROVE Promesa!Init
    OBVIOUS
  <2>1. \A p \in Pokemons : {c \in Conexiones : p \in atrapados[c][Nido[p]]} = {}
    BY ConstantesAssumption DEF Init
  <2>2. Lugar = [p \in Pokemons |-> Nadie]
    BY <2>1 DEF Lugar
  <2>3. destruidos = {}
    BY DEF Init
  <2> QED
    BY <2>2, <2>3 DEF Promesa!Init
<1>2. Tipos /\ Lugares /\ UnicoLugar /\ UnicoLugar' /\ [Next]_vars
        => [Promesa!Next]_<<Lugar, destruidos>>
  <2> SUFFICES ASSUME Tipos, Lugares, UnicoLugar, UnicoLugar', [Next]_vars
               PROVE  [Promesa!Next]_<<Lugar, destruidos>>
    OBVIOUS
  <2>1. CASE UNCHANGED recursos
    BY <2>1 DEF recursos, Lugar
  <2>2. ASSUME NEW c \in Conexiones, EnCola(peleadores, c)
        PROVE  c \notin destruidos
    BY <2>2 DEF Lugares, Derrotado
  <2> QED
    BY <2>1, <2>2, QuienMueve, EntregarPromesa, LiberarPromesa
<1> QED
  BY <1>1, <1>2, Spec_Tipos, Spec_Lugares, Spec_UnicoLugar, PTL
  DEF Spec, CumplePromesa, Promesa!Spec

(***************************************************************************)
(* Without fights hiloDeadlock takes no lock and touches no queue: all of  *)
(* this holds in every history.                                            *)
(***************************************************************************)
Quieto == ~batalla /\ pcD \in {"chequea", "despierta"}

LEMMA Spec_Quieto ==
    ASSUME Batallas \subseteq {FALSE}
    PROVE  Spec => []Quieto
<1> USE DEF Quieto
<1>1. Init => Quieto
  BY DEF Init
<1>2. Quieto /\ [Next]_vars => Quieto'
  <2> SUFFICES ASSUME Quieto, [Next]_vars PROVE Quieto'
    OBVIOUS
  <2>1. CASE UNCHANGED vars
    BY <2>1 DEF vars, config, deadlock
  <2>2. CASE Planificar
    BY <2>2 DEF Planificar, P_Chequea, P_Duerme, P_Otorga, P_Atiende, P_Cercano,
       P_RecibeMoverse, P_RecibeCapturar, P_RecibeFin, P_AvisaVacio, P_SenalVacio,
       P_SenalBlock, config, deadlock
  <2>3. CASE Bloquear
    <3>1. UNCHANGED <<config, deadlock>>
      BY <2>3 DEF Bloquear, B_Chequea, B_DuermeVacio, B_Lock, B_Entrega, B_Rebloquea,
         B_Pregunta, B_DuermeBlock, B_Despierta, B_Recibe, B_RecibeFin, B_AvisaReady,
         B_SenalReady
    <3> QED
      BY <3>1 DEF config, deadlock
  <2>4. CASE Interbloqueo
    <3>1. D_Chequea \/ D_Despierta
      BY <2>4 DEF Interbloqueo, D_Chequea, D_Lock, D_Calcula, D_Desafia, D_Elige,
         D_EligeNull, D_SacaCaido, D_Libera, D_Mata, D_Entrega, D_Saca, D_Espera,
         D_EsperaNull, D_AvisaReady, D_SenalReady, D_EntregaNull, D_Rebloquea,
         D_AvisaVacio, D_SenalVacio, D_Suelta, EnD
    <3> QED
      BY <3>1 DEF D_Chequea, D_Despierta, config
  <2>5. CASE Atender
    BY <2>5 DEF Atender, M_Select, M_Acepta, M_AceptaNull, M_AvisaReady, M_SenalReady,
       M_Revisa, M_Borra, M_Saca, M_AvisaBlock, M_Termina, config, deadlock
  <2>6. CASE Recargar
    BY <2>6 DEF Recargar, deadlock
  <2>7. CASE \E c \in Conexiones : E_Conecta(c) \/ Avanza(c) \/ E_Cae(c)
    BY <2>7 DEF E_Conecta, E_Cae, Avanza, E_Saluda, E_Camina, E_Captura, E_Pelea,
       E_Muere, E_Otro, config, deadlock
  <2> QED
    BY <2>1, <2>2, <2>3, <2>4, <2>5, <2>6, <2>7 DEF Next
<1> HIDE DEF Quieto
<1> QED
  BY <1>1, <1>2, PTL DEF Spec

LEMMA Spec_SinBatallas ==
    ASSUME Batallas \subseteq {FALSE}
    PROVE  Spec => []Disciplina
<1>1. Quieto => Disciplina
  BY DEF Quieto, Disciplina, Exclusion, UnPopPorVez, DentroD
<1> QED
  BY <1>1, Spec_Quieto, PTL

(***************************************************************************)
(* For every map that is played without fights, with nothing assumed of    *)
(* its locks: no visit is in two places, and the promise about the         *)
(* pokemons is kept, whoever is killed and however often it is reloaded.   *)
(***************************************************************************)
THEOREM SinBatallas ==
    ASSUME Batallas \subseteq {FALSE}
    PROVE  Spec => []EnUnSoloLugar /\ CumplePromesa
  BY Spec_SinBatallas, Spec_EnUnSoloLugar, Spec_CumplePromesa, PTL
=============================================================================
