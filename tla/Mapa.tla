-------------------------------- MODULE Mapa --------------------------------
(***************************************************************************)
(* One map and the trainers that play it: the four threads of the map      *)
(* process and the trainer processes, each a module of its own, over the   *)
(* state of module Estado.                                                 *)
(***************************************************************************)
EXTENDS Planificador, HiloBlock, HiloDeadlock, Principal, Entrenador

\* cargarMapa, the variables of each thread before its loop, and no trainer yet.
Init ==
    /\ libres = [n \in Pokenests |-> DelNido(n)]
    /\ cantidad = [n \in Pokenests |-> Cardinality(DelNido(n))]
    /\ atrapados = [c \in Conexiones |-> [n \in Pokenests |-> {}]]
    /\ destruidos = {}
    /\ colaReady = <<>> /\ colaBlock = <<>>
    /\ msj = [c \in Conexiones |->
                 Con(Pedido("UBICACION_POKENEST", Head(Objetivos[Simbolo(c)])), "NULL")]
    /\ quantum = [c \in Conexiones |-> 0]
    /\ gui = [e \in Entrenadores |-> <<>>]
    /\ aMapa = [c \in Conexiones |-> <<>>]
    /\ aEntrenador = [c \in Conexiones |-> <<>>]
    /\ pendientes = <<>>
    /\ pcE = [c \in Conexiones |-> "fuera"]
    /\ objetivos = [c \in Conexiones |-> Objetivos[Simbolo(c)]]
    /\ movimientos = [c \in Conexiones |-> <<>>]
    /\ posE = [c \in Conexiones |-> Origen]
    /\ mochila = [e \in Entrenadores |-> 0]
    /\ algoritmo \in Algoritmos /\ batalla \in Batallas /\ recargas = Recargas
    /\ duenio = "nadie"
    /\ pcP = "entra" /\ entP = Nadie /\ algP = algoritmo
    /\ pcB = "chequea" /\ entB = Nadie
    /\ pcD = "chequea" /\ bloqueados = <<>> /\ pelea = <<>> /\ peleadores = <<>>
    /\ caido = FALSE /\ entD = Nadie /\ tamD = 0
    /\ pcM = "select" /\ clientes = <<>> /\ descriptores = {} /\ iM = 1
    /\ entM = Nadie /\ tamM = 0
    /\ fallo = "no"

Next ==
    \/ Planificar
    \/ Bloquear
    \/ Interbloqueo
    \/ Atender
    \/ Recargar
    \/ \E c \in Conexiones : E_Conecta(c) \/ Avanza(c) \/ E_Cae(c)

\* The threads of the map run on (the system schedules them, and a signal handler
\* never keeps them), and so does a trainer that is connected.  Nothing says that
\* a trainer ever connects, is killed, or that the map is told to reload.
Justicia ==
    /\ WF_vars(Planificar)
    /\ WF_vars(Bloquear)
    /\ WF_vars(Interbloqueo)
    /\ WF_vars(Atender)
    /\ \A c \in Conexiones : WF_vars(Avanza(c))

Spec == Init /\ [][Next]_vars

SpecJusta == Spec /\ Justicia
-----------------------------------------------------------------------------
\* hiloBlock and hiloDeadlock between their lock and their unlock of
\* mutexBlockDeadlock.
DentroB == pcB \in {"pokemon", "recibe", "pregunta"}
DentroD == pcD \notin {"chequea", "lock", "despierta"}

\* The two never work on the blocked trainers at the same time.
Exclusion == ~(DentroB /\ DentroD)

\* main and hiloDeadlock are not in popEntrenador at the same time: the size each of
\* them counted before its mutex is still that of colaBlock, or less.
UnPopPorVez == ~(pcM = "saca" /\ pcD \in {"mata", "saca", "rebloquea"})

\* What the two locks of the map are there for.
Disciplina == Exclusion /\ UnPopPorVez
-----------------------------------------------------------------------------
\* Every variable has a value of its type.
TipoRecursos ==
    /\ libres \in [Pokenests -> SUBSET Pokemons]
    /\ cantidad \in [Pokenests -> Nat]
    /\ atrapados \in [Conexiones -> [Pokenests -> SUBSET Pokemons]]
    /\ destruidos \subseteq Conexiones

TipoColas == colaReady \in Seq(Conexiones) /\ colaBlock \in Seq(Conexiones)

TipoInfo ==
    /\ msj \in [Conexiones -> MsjGuardado]
    /\ quantum \in [Conexiones -> Nat]
    /\ gui \in [Entrenadores -> Seq(Posicion)]

\* The map may send the message of a t_info_entrenador that has none: it dies of it.
TipoRed ==
    /\ aMapa \in [Conexiones -> Seq(Mensaje)]
    /\ aEntrenador \in [Conexiones -> Seq(MsjGuardado)]
    /\ pendientes \in Seq(Conexiones)

TipoProcesos ==
    /\ pcE \in [Conexiones -> {"fuera", "conectado", "mensaje", "cumplido",
                               "muerto", "caido"}]
    /\ objetivos \in [Conexiones -> Seq(Pokenests)]
    /\ movimientos \in [Conexiones -> Seq(Sentidos)]
    /\ posE \in [Conexiones -> Posicion]
    /\ mochila \in [Entrenadores -> Nat]

TipoProceso ==
    /\ algoritmo \in Algoritmos /\ batalla \in Batallas /\ recargas \in Nat
    /\ duenio \in {"nadie", "block", "deadlock"}
    /\ fallo \in {"no", "nulo", "liberada", "trama", "sigpipe"}

TipoPlanificador ==
    /\ pcP \in {"entra", "chequea", "porDormir", "dormido", "otorga", "atiende",
                "cercano", "recibe", "avisaVacio", "senalVacio", "senalBlock"}
    /\ entP \in Conexiones \cup {Nadie} /\ algP \in Algoritmos

TipoBlock ==
    /\ pcB \in {"chequea", "porDormirVacio", "dormidoVacio", "lock", "pokemon",
                "recibe", "pregunta", "porDormirBlock", "dormidoBlock",
                "despierto", "avisaReady", "senalReady"}
    /\ entB \in Conexiones \cup {Nadie}

TipoDeadlock ==
    /\ pcD \in {"chequea", "lock", "calcula", "desafia", "elige", "sacaCaido",
                "libera", "mata", "entrega", "saca", "espera", "avisaReady",
                "senalReady", "rebloquea", "avisaVacio", "senalVacio", "suelta",
                "despierta"}
    /\ bloqueados \in Seq(Conexiones) /\ pelea \in Seq(Conexiones)
    /\ peleadores \in Seq(Conexiones) /\ caido \in BOOLEAN
    /\ entD \in Conexiones \cup {Nadie} /\ tamD \in Nat

TipoPrincipal ==
    /\ pcM \in {"select", "acepta", "avisaReady", "senalReady", "revisa", "saca",
                "avisaBlock"}
    /\ clientes \in Seq(Conexiones) /\ descriptores \subseteq Conexiones
    /\ iM \in Nat \ {0} /\ entM \in Conexiones \cup {Nadie} /\ tamM \in Nat

TypeOK ==
    /\ TipoRecursos /\ TipoColas /\ TipoInfo /\ TipoRed /\ TipoProcesos
    /\ TipoProceso /\ TipoPlanificador /\ TipoBlock /\ TipoDeadlock /\ TipoPrincipal
-----------------------------------------------------------------------------
(***************************************************************************)
(* Pokemons.                                                               *)
(***************************************************************************)
\* Each pokemon is in exactly one place, its own pokenest or one visit's
\* pokemonsAtrapados: no delivery, fight or reset of a trainer loses one or gives
\* it to two (obtenerPokemon, agregarPokemon and liberarRecursos).
UnicoLugar ==
    \A p \in Pokemons :
        /\ \A n \in Pokenests : p \in libres[n] => n = Nido[p]
        /\ \A c \in Conexiones, n \in Pokenests : p \in atrapados[c][n] => n = Nido[p]
        /\ p \in libres[Nido[p]] => \A c \in Conexiones : p \notin atrapados[c][Nido[p]]
        /\ p \notin libres[Nido[p]] =>
              \E c \in Conexiones :
                 /\ p \in atrapados[c][Nido[p]]
                 /\ \A d \in Conexiones \ {c} : p \notin atrapados[d][Nido[p]]

\* cantidadPokemons, which hiloBlock and the detector read instead of the queue
\* of the pokenest, is how many that queue has.
CantidadExacta == \A n \in Pokenests : cantidad[n] = Cardinality(libres[n])

\* Where each pokemon is, for the specification of what the map promises.
Lugar ==
    [p \in Pokemons |->
        LET tienen == {c \in Conexiones : p \in atrapados[c][Nido[p]]}
        IN  IF tienen = {} THEN Nadie ELSE CHOOSE c \in tienen : TRUE]

Promesa == INSTANCE Recursos WITH
    Libre <- Nadie, lugar <- Lugar, terminadas <- destruidos

\* Every step of the map takes one free pokemon for a visit, gives back all those
\* of one visit that ends, or does nothing to them.
CumplePromesa == Promesa!Spec
-----------------------------------------------------------------------------
(***************************************************************************)
(* Trainers in the hands of the threads.                                   *)
(***************************************************************************)
Veces(cola, c) == Cardinality({i \in 1 .. Len(cola) : cola[i] = c})

\* A visit is once in one queue or in the hands of one of the threads that take it
\* out of them: nobody serves it twice.  (The deadlock thread leaves its trainers
\* in colaBlock until it has served them.)
EnUnSoloLugar ==
    \A c \in Conexiones :
        Veces(colaReady, c) + Veces(colaBlock, c)
          + Cardinality({e \in {<<"P", entP>>, <<"B", entB>>} : e[2] = c}) <= 1

\* The threads that are inside recv() for c.
EnRecv(c) ==
    \/ pcP = "recibe" /\ entP = c
    \/ pcB = "recibe" /\ entB = c
    \/ pcD = "elige" /\ Head(pelea) = c
    \/ pcD = "espera" /\ Head(peleadores) = c
    \/ pcM = "acepta" /\ Head(pendientes) = c

\* It sent its message and is inside recv(), for an answer or for the second frame.
EsperaAlMapa(c) ==
    /\ pcE[c] = "mensaje"
    /\ aMapa[c] = <<>>
    /\ \/ aEntrenador[c] = <<>>
       \/ Len(aEntrenador[c]) = 1 /\ aEntrenador[c][1].accion = "CAPTURAR_POKEMON"

\* A thread of the map never waits for a trainer that is waiting for the map.
NadieEsperaANadie == \A c \in Conexiones : ~(EnRecv(c) /\ EsperaAlMapa(c))

\* Between a trainer and the map there is at most one message, or the two frames
\* that give a pokemon: whoever reads finds the answer to what it asked last.
PedidoRespuesta ==
    \A c \in Conexiones :
        /\ Len(aMapa[c]) + Len(aEntrenador[c]) > 1 =>
              /\ aMapa[c] = <<>> /\ Len(aEntrenador[c]) = 2
              /\ aEntrenador[c][1].accion = "CAPTURAR_POKEMON"
        /\ \A i \in 1 .. Len(aEntrenador[c]) :
              aEntrenador[c][i].accion = "POKEMON" => i = Len(aEntrenador[c])

\* A trainer that lost is served by nobody and holds nothing: after it is told,
\* it is in no queue and no hand, and no pokemon reaches it any more.
DerrotadoFuera ==
    \A c \in destruidos :
        /\ \A n \in Pokenests : atrapados[c][n] = {}
        /\ pcD # "mata" =>
              ~EnCola(colaReady, c) /\ ~EnCola(colaBlock, c) /\ c \notin {entP, entB}

\* What the map believes a trainer holds in its first life is what the trainer has got
\* or is getting.  (It does not empty its list when it dies, and brings it to the next.)
MochilaAlDia ==
    \A c \in Conexiones \ destruidos :
        Abierta(c) /\ Vida(c) = 1 =>
            Cardinality(UNION {atrapados[c][n] : n \in Pokenests})
              = mochila[Simbolo(c)]
                  + Cardinality({i \in 1 .. Len(aEntrenador[c]) :
                                    aEntrenador[c][i].accion = "POKEMON"})

\* No trainer process dies by itself: it is never asked for its best pokemon
\* without having one, and never reads a pokemon where a message should be.
NadieCae ==
    \A c \in Conexiones :
        pcE[c] = "mensaje" /\ aEntrenador[c] # <<>> =>
            CASE Head(aEntrenador[c]).accion = "BATALLA_POKEMON" -> mochila[Simbolo(c)] > 0
              [] OTHER -> Head(aEntrenador[c]).accion # "POKEMON"

\* The map reads no pokemon where a message should be, and gives none to a trainer
\* whose dictionary was destroyed.
TramasEnOrden == fallo \notin {"trama", "liberada"}

\* A connected trainer that is waiting for the map is somewhere the map will find
\* it: in a queue or in the hands of a thread.
NingunoOlvidado ==
    \A c \in Conexiones :
        EsperaAlMapa(c) /\ fallo = "no" =>
            \/ EnCola(colaReady, c) \/ EnCola(colaBlock, c)
            \/ EnCola(pendientes, c) \/ c \in {entP, entB}
            \/ EnCola(peleadores, c) \/ entD = c
-----------------------------------------------------------------------------
(***************************************************************************)
(* Turns and positions.                                                    *)
(***************************************************************************)
\* While a trainer waits for a pokemon its sprite stands on the pokenest: the way
\* it computed, the steps it sent and the steps the map drew agree.  It is so in its
\* first life (in a second one the sprite of the first may still be drawn, and is the
\* one that moves) and until it leaves (main may take the sprite of who left away
\* before it is out of colaBlock).
PosicionAlCapturar ==
    \A c \in Conexiones :
        /\ Vida(c) = 1 /\ pcE[c] = "mensaje"
        /\ EnCola(colaBlock, c) \/ (entB = c /\ pcB = "pokemon")
        => /\ gui[Simbolo(c)] # <<>>
           /\ gui[Simbolo(c)][1] = Ubicacion[msj[c].pokemon]

\* The operations of a turn.  With a quantum of 1 they may be two: getReadyRR counts
\* the position it answers without comparing it with the quantum, and the trainer
\* moves before isTurno does.
LargoDeTurno == IF Quantum = 1 THEN 2 ELSE Quantum

\* With round robin no trainer uses more than the operations of its turn, in whatever
\* order the turns of the others, the blocks and the fights come between its own.
TurnoAcotado == algoritmo = "RR" => \A c \in Conexiones : quantum[c] <= LargoDeTurno

\* getEntrenadorMasCercano always finds one: while the position is given to one
\* trainer of the queue, somebody else may only come to it.
PlanificadorEncuentra == pcP = "cercano" => Candidatos # {}
-----------------------------------------------------------------------------
(***************************************************************************)
(* What must happen.                                                       *)
(***************************************************************************)
\* Everybody blocked waits for a pokemon that is not free and is held by another
\* one of them.
EsperaCircular ==
    /\ Len(colaBlock) > 1
    /\ \A c \in Miembros(colaBlock) :
          /\ ~HayPokemon(msj[c].pokemon)
          /\ \E d \in Miembros(colaBlock) \ {c} : atrapados[d][msj[c].pokemon] # {}

\* With fights on, trainers that wait for each other do not wait forever: each of
\* them dies in a fight or gets the pokemon it waits for.
CicloSeRompe ==
    \A c \in Conexiones :
        (EsperaCircular /\ EnCola(colaBlock, c))
            ~> \/ EnCola(colaReady, c)
               \/ pcE[c] \in {"cumplido", "muerto"}
               \/ fallo # "no"

\* hiloBlock does not sleep on condBlock while somebody is blocked: a signal that
\* comes between its last look at the queue and the wait is lost, but the period
\* of hiloDeadlock brings another.
DespiertaPorPeriodo ==
    pcB = "dormidoBlock" ~> (pcB # "dormidoBlock" \/ colaBlock = <<>> \/ fallo # "no")

\* hiloPlanificador is not left asleep, or about to sleep, while somebody is ready:
\* the four places that add to colaReady signal it when they see one trainer there.
ReadyEsAtendida ==
    (colaReady # <<>> /\ pcP \in {"porDormir", "dormido"})
        ~> (pcP \notin {"porDormir", "dormido"} \/ fallo # "no")

\* While hiloPlanificador is awake, a trainer that is ready gets its turn.
TurnoLlega ==
    \A c \in Conexiones :
        (EnCola(colaReady, c) /\ pcP \notin {"porDormir", "dormido"})
            ~> (entP = c \/ fallo # "no")
=============================================================================
