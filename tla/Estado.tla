------------------------------- MODULE Estado -------------------------------
(***************************************************************************)
(* The state a map process (mapa/src) shares between its four threads, and *)
(* the trainers (entrenador/src) connected to it.  The threads and the     *)
(* trainer are modules of their own over this state; module Mapa puts them *)
(* together.                                                               *)
(*                                                                         *)
(* A trainer plays a map once per life, over a new socket and with a new   *)
(* t_info_entrenador in the map: the pair <<trainer, life>> identifies     *)
(* that visit, and everything the map keeps per t_info_entrenador is       *)
(* indexed by it.                                                          *)
(***************************************************************************)
EXTENDS Colas, Movimientos, Deteccion

CONSTANTS
    Entrenadores,   \* the trainers
    Vidas,          \* how many lives each of them starts with
    Pokenests,      \* the pokenests of the map
    Ubicacion,      \* [Pokenests -> Posicion]
    Pokemons,       \* the pokemons of the map, each a value of its own
    Nido,           \* [Pokemons -> Pokenests]: where each one is born
    Objetivos,      \* [Entrenadores -> Seq(Pokenests)]: what each must capture
    Quantum,        \* mapa->quantum
    Algoritmos,     \* the values mapa->algoritmo may have
    Batallas,       \* the values mapa->batalla may have
    Recargas,       \* bound on the SIGUSR2 the map receives
    Caidas,         \* bound on the trainer processes that are killed
    Nadie           \* NULL, for a pointer to a t_info_entrenador

Conexiones == Entrenadores \X (1 .. Vidas)

ASSUME ConstantesAssumption ==
    /\ Vidas \in Nat \ {0}
    /\ Ubicacion \in [Pokenests -> Posicion]
    /\ Nido \in [Pokemons -> Pokenests]
    /\ IsFiniteSet(Pokemons)
    /\ Objetivos \in [Entrenadores -> Seq(Pokenests) \ {<<>>}]
    /\ Quantum \in Nat \ {0}
    /\ Algoritmos \subseteq {"RR", "SRDF"}
    /\ Batallas \subseteq BOOLEAN
    /\ Recargas \in Nat
    /\ Caidas \in Nat
    /\ Nadie \notin Conexiones

VARIABLES
    \* pokenests: what is left in each and the count beside it; what each
    \* visit holds, by the pokenest it was caught at (pokemonsAtrapados); the
    \* visits whose pokemonsAtrapados was destroyed
    libres, cantidad, atrapados, destruidos,
    colaReady, colaBlock,
    \* fields of t_info_entrenador
    msj, quantum,
    \* guiMapa: the sprites of each symbol, oldest first
    gui,
    \* the two directions of each socket, and the backlog of listen()
    aMapa, aEntrenador, pendientes,
    \* the trainer process of each visit
    pcE, objetivos, movimientos, posE, mochila,
    \* mapa->algoritmo, mapa->batalla, and the reloads left
    algoritmo, batalla, recargas,
    \* mutexBlockDeadlock
    duenio,
    \* hiloPlanificador, hiloBlock, hiloDeadlock, main: where each is, and its
    \* local variables
    pcP, entP, algP,
    pcB, entB,
    pcD, bloqueados, pelea, peleadores, caido, entD, tamD,
    pcM, clientes, descriptores, iM, entM, tamM,
    \* what killed the map process, or "no"
    fallo

recursos == <<libres, cantidad, atrapados, destruidos>>
colas == <<colaReady, colaBlock>>
info == <<msj, quantum>>
red == <<aMapa, aEntrenador, pendientes>>
procesos == <<pcE, objetivos, movimientos, posE, mochila>>
config == <<algoritmo, batalla, recargas>>
planificador == <<pcP, entP, algP>>
block == <<pcB, entB>>
deadlock == <<pcD, bloqueados, pelea, peleadores, caido, entD, tamD>>
principal == <<pcM, clientes, descriptores, iM, entM, tamM>>

vars == <<recursos, colas, info, gui, red, procesos, config, duenio,
          planificador, block, deadlock, principal, fallo>>

\* Nothing happens once the map process is dead.
Vivo == fallo = "no"

\* Each thread of the map, and each trainer, is about to do pc.
EnP(pc) == Vivo /\ pcP = pc
EnB(pc) == Vivo /\ pcB = pc
EnD(pc) == Vivo /\ pcD = pc
EnM(pc) == Vivo /\ pcM = pc
EnE(c, pc) == Vivo /\ pcE[c] = pc
-----------------------------------------------------------------------------
(***************************************************************************)
(* Messages.  One kind of record stands for a t_msj_entrenador and for the *)
(* frame with a pokemon, told apart by "accion" (on the wire both are a    *)
(* length and the bytes, and only the order tells them apart).             *)
(***************************************************************************)
Acciones == {"UBICACION_POKENEST", "UBICACION_POKENEST_OTORGADA", "MOVERSE",
             "CAPTURAR_POKEMON", "OBJETIVO_CUMPLIDO", "BATALLA_POKEMON",
             "MUERTE_ENTRENADOR"}

Mensaje == [accion : Acciones \cup {"POKEMON"}, pokemon : Pokenests,
            movimiento : Sentidos]

\* entrenador->msjEntrenador: the last message received, NULL, or a pointer to
\* memory already freed.
MsjGuardado == [accion : Acciones \cup {"POKEMON", "NULL", "LIBERADO"},
                pokemon : Pokenests, movimiento : Sentidos]

MsjValido(c) == msj[c].accion \notin {"NULL", "LIBERADO"}

TramaPokemon(n) == [accion |-> "POKEMON", pokemon |-> n, movimiento |-> "UP"]

Con(m, accion) == [m EXCEPT !.accion = accion]
-----------------------------------------------------------------------------
(***************************************************************************)
(* Sockets, as the map uses them (Sockets/socketes.c).                     *)
(***************************************************************************)
\* The trainer's end is open while its process runs the handler of this visit.
Abierta(c) == pcE[c] \in {"conectado", "mensaje"}

HayMensaje(c) == aMapa[c] # <<>>

\* The next message of c, if it has come.
Proximo(c) == IF HayMensaje(c) THEN {Head(aMapa[c])} ELSE {}

\* It is taken from the socket.
Tomar(c) == aMapa' = [aMapa EXCEPT ![c] = Tail(@)]

\* recv returns 0 once everything sent before the close was read.
Cerrada(c) == aMapa[c] = <<>> /\ ~Abierta(c)

\* Mutation: only the first frame is sent.
EnviarPrimera(c, tramas) ==
    aEntrenador' = IF Abierta(c) THEN [aEntrenador EXCEPT ![c] = Append(@, Head(tramas))]
                                 ELSE aEntrenador

\* Mutation: the frames are sent in the opposite order.
EnviarAlReves(c, tramas) ==
    aEntrenador' =
        IF Abierta(c)
          THEN [aEntrenador EXCEPT
                   ![c] = @ \o [i \in 1 .. Len(tramas) |-> tramas[Len(tramas) + 1 - i]]]
          ELSE aEntrenador

\* Mutation: the frames are sent twice.
EnviarDosVeces(c, tramas) ==
    aEntrenador' = IF Abierta(c) THEN [aEntrenador EXCEPT ![c] = @ \o tramas \o tramas]
                                 ELSE aEntrenador

\* enviarMsjEntrenador and enviarPokemon: what is sent to a closed end is lost.
Enviar(c, tramas) ==
    aEntrenador' = IF Abierta(c) THEN [aEntrenador EXCEPT ![c] = @ \o tramas]
                                 ELSE aEntrenador

\* What reading a field of entrenador->msjEntrenador does to the process.
UsarMsj(c) == IF MsjValido(c) THEN fallo ELSE "nulo"

\* recibirMsjEntrenador and recibirPokemon return NULL: the pointer is kept.
GuardarNull(c) == msj' = [msj EXCEPT ![c].accion = "NULL"]
-----------------------------------------------------------------------------
(***************************************************************************)
(* Condition variables: one thread waits on each of them.                  *)
(***************************************************************************)
\* pthread_cond_signal(&condPlanificador)
SenalPlanificador == pcP' = IF pcP = "dormido" THEN "chequea" ELSE pcP

\* pthread_cond_signal(&condBlockEmpty)
SenalBlockEmpty == pcB' = IF pcB = "dormidoVacio" THEN "chequea" ELSE pcB

\* pthread_cond_signal(&condBlock)
SenalBlock == pcB' = IF pcB = "dormidoBlock" THEN "despierto" ELSE pcB
-----------------------------------------------------------------------------
(***************************************************************************)
(* Pokenests and captured pokemons (pokemon_utils.c).                      *)
(***************************************************************************)
DelNido(n) == {p \in Pokemons : Nido[p] = n}

HayPokemon(n) == cantidad[n] > 0

\* obtenerPokemon, agregarPokemon and the two sends that follow them: one of the
\* pokemons of the pokenest the trainer asked for goes to visit c (which one does
\* not matter), and so do the message and the frame with it.  The pokemon cannot
\* be added to a dictionary already destroyed; and the first send to a closed end
\* may bring back a reset in time for the second to raise SIGPIPE, which nothing
\* catches.
Entregar(c, m) ==
    /\ HayPokemon(m.pokemon)
    /\ IF c \in destruidos
         THEN fallo' = "liberada" /\ UNCHANGED <<libres, cantidad, atrapados, aEntrenador>>
         ELSE /\ \E p \in libres[m.pokemon] :
                    /\ libres' = [libres EXCEPT ![m.pokemon] = @ \ {p}]
                    /\ atrapados' = [atrapados EXCEPT ![c][m.pokemon] = @ \cup {p}]
              /\ cantidad' = [cantidad EXCEPT ![m.pokemon] = @ - 1]
              /\ Enviar(c, <<m, TramaPokemon(m.pokemon)>>)
              /\ \/ fallo' = UsarMsj(c)
                 \/ ~Abierta(c) /\ fallo' = "sigpipe"
    /\ UNCHANGED destruidos

\* Mutation: the trainer keeps what went back.
LiberarRecursosSinVaciar(c) ==
    /\ libres' = [n \in Pokenests |-> libres[n] \cup atrapados[c][n]]
    /\ cantidad' = [n \in Pokenests |-> cantidad[n] + Cardinality(atrapados[c][n])]
    /\ destruidos' = destruidos \cup {c}
    /\ UNCHANGED atrapados

\* Mutation: the dictionary is destroyed with the pokemons in it.
LiberarRecursosPerdidos(c) ==
    /\ atrapados' = [atrapados EXCEPT ![c] = [n \in Pokenests |-> {}]]
    /\ destruidos' = destruidos \cup {c}
    /\ UNCHANGED <<libres, cantidad>>

\* Mutation: cantidadPokemons is not updated.
LiberarRecursosSinContar(c) ==
    /\ libres' = [n \in Pokenests |-> libres[n] \cup atrapados[c][n]]
    /\ atrapados' = [atrapados EXCEPT ![c] = [n \in Pokenests |-> {}]]
    /\ destruidos' = destruidos \cup {c}
    /\ UNCHANGED cantidad

\* liberarRecursos: everything visit c holds goes back, pokenest by pokenest, and
\* its dictionary is destroyed.
LiberarRecursos(c) ==
    /\ libres' = [n \in Pokenests |-> libres[n] \cup atrapados[c][n]]
    /\ cantidad' = [n \in Pokenests |-> cantidad[n] + Cardinality(atrapados[c][n])]
    /\ atrapados' = [atrapados EXCEPT ![c] = [n \in Pokenests |-> {}]]
    /\ destruidos' = destruidos \cup {c}
=============================================================================
