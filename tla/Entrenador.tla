----------------------------- MODULE Entrenador -----------------------------
(***************************************************************************)
(* The trainer process during its visits to one map                        *)
(* (entrenador/src/main.c, iniciarMapa and the loop of initEntrenador;     *)
(* entrenador/src/entrenador.c, gestionarEntrenador).  It answers what the *)
(* map sends, one message at a time, until it has all its pokemons or      *)
(* dies; after a death it comes back while it has lives.                   *)
(*                                                                         *)
(* pcE: fuera -> conectado -> mensaje -> mensaje                           *)
(*                            mensaje -> cumplido | muerto                 *)
(*               conectado, mensaje -> caido        its process is killed  *)
(***************************************************************************)
EXTENDS Estado

Vida(c) == c[2]

\* The visit before this one ended with a death, if there was one.
PuedeEmpezar(c) ==
    \A d \in Conexiones :
        Simbolo(d) = Simbolo(c) /\ Vida(d) = Vida(c) - 1 => pcE[d] = "muerto"

\* connect(): the map will accept it when it can.  Position and goals start anew.
E_Conecta(c) ==
    /\ EnE(c, "fuera")
    /\ PuedeEmpezar(c)
    /\ pcE' = [pcE EXCEPT ![c] = "conectado"]
    /\ pendientes' = Append(pendientes, c)
    /\ UNCHANGED <<recursos, colas, info, gui, aMapa, aEntrenador, objetivos,
                   movimientos, posE, mochila, config, duenio, planificador,
                   block, deadlock, principal, fallo>>

Pedido(accion, n) == [accion |-> accion, pokemon |-> n, movimiento |-> "UP"]

\* The first message asks for the position of the first pokenest.
E_Saluda(c) ==
    /\ EnE(c, "conectado")
    /\ pcE' = [pcE EXCEPT ![c] = "mensaje"]
    /\ aMapa' = [aMapa EXCEPT ![c] =
                    Append(@, Pedido("UBICACION_POKENEST", Head(objetivos[c])))]
    /\ objetivos' = [objetivos EXCEPT ![c] = Tail(@)]
    /\ UNCHANGED <<recursos, colas, info, gui, aEntrenador, pendientes,
                   movimientos, posE, mochila, config, duenio, planificador,
                   block, deadlock, principal, fallo>>

Responder(c, m) == aMapa' = [aMapa EXCEPT ![c] = Append(@, m)]

\* Mutation: the message is read and stays there.
LeerSinSacar(c) == UNCHANGED aEntrenador

Leer(c) == aEntrenador' = [aEntrenador EXCEPT ![c] = Tail(@)]

\* UBICACION_POKENEST computes the way; UBICACION_POKENEST and MOVERSE take the
\* next step of it, or ask for the pokemon at the end.  The position is updated
\* only when a way of some length ends.
E_Camina(c) ==
    /\ EnE(c, "mensaje")
    /\ aEntrenador[c] # <<>>
    /\ Head(aEntrenador[c]).accion \in {"UBICACION_POKENEST", "MOVERSE"}
    /\ LET m == Head(aEntrenador[c])
           destino == Ubicacion[m.pokemon]
           ubica == m.accion = "UBICACION_POKENEST"
           camino == IF ubica THEN CalcularColaMovimientos(posE[c], destino)
                              ELSE movimientos[c]
       IN  IF camino = <<>>
             THEN /\ Responder(c, Con(m, "CAPTURAR_POKEMON"))
                  /\ posE' = IF ubica THEN posE ELSE [posE EXCEPT ![c] = destino]
                  /\ movimientos' = [movimientos EXCEPT ![c] = <<>>]
             ELSE /\ Responder(c, [m EXCEPT !.accion = "MOVERSE",
                                            !.movimiento = Head(camino)])
                  /\ movimientos' = [movimientos EXCEPT ![c] = Tail(camino)]
                  /\ UNCHANGED posE
    /\ Leer(c)
    /\ UNCHANGED <<recursos, colas, info, gui, pendientes, pcE, objetivos, mochila,
                   config, duenio, planificador, block, deadlock, principal, fallo>>

\* CAPTURAR_POKEMON, and the pokemon in the next frame: on to the next pokenest, or
\* OBJETIVO_CUMPLIDO and the socket is closed.
E_Captura(c) ==
    /\ EnE(c, "mensaje")
    /\ Len(aEntrenador[c]) > 1
    /\ Head(aEntrenador[c]).accion = "CAPTURAR_POKEMON"
    /\ LET m == Head(aEntrenador[c])
       IN  IF objetivos[c] = <<>>
             THEN /\ Responder(c, Con(m, "OBJETIVO_CUMPLIDO"))
                  /\ pcE' = [pcE EXCEPT ![c] = "cumplido"]
                  /\ mochila' = [mochila EXCEPT ![Simbolo(c)] = 0]
                  /\ aEntrenador' = [aEntrenador EXCEPT ![c] = <<>>]
                  /\ UNCHANGED objetivos
             ELSE /\ Responder(c, Pedido("UBICACION_POKENEST", Head(objetivos[c])))
                  /\ objetivos' = [objetivos EXCEPT ![c] = Tail(@)]
                  /\ mochila' = [mochila EXCEPT ![Simbolo(c)] = @ + 1]
                  /\ aEntrenador' = [aEntrenador EXCEPT ![c] = Tail(Tail(@))]
                  /\ UNCHANGED pcE
    /\ UNCHANGED <<recursos, colas, info, gui, pendientes, movimientos, posE,
                   config, duenio, planificador, block, deadlock, principal, fallo>>

\* BATALLA_POKEMON: its best pokemon is the only answer; with none it dies of NULL.
E_Pelea(c) ==
    /\ EnE(c, "mensaje")
    /\ aEntrenador[c] # <<>>
    /\ Head(aEntrenador[c]).accion = "BATALLA_POKEMON"
    /\ IF mochila[Simbolo(c)] = 0
         THEN /\ pcE' = [pcE EXCEPT ![c] = "caido"]
              /\ aEntrenador' = [aEntrenador EXCEPT ![c] = <<>>]
              /\ UNCHANGED aMapa
         ELSE /\ Responder(c, TramaPokemon(Head(aEntrenador[c]).pokemon))
              /\ Leer(c)
              /\ UNCHANGED pcE
    /\ UNCHANGED <<recursos, colas, info, gui, pendientes, objetivos, movimientos,
                   posE, mochila, config, duenio, planificador, block, deadlock,
                   principal, fallo>>

\* MUERTE_ENTRENADOR: the socket is closed and a life is gone.
E_Muere(c) ==
    /\ EnE(c, "mensaje")
    /\ aEntrenador[c] # <<>>
    /\ Head(aEntrenador[c]).accion = "MUERTE_ENTRENADOR"
    /\ pcE' = [pcE EXCEPT ![c] = "muerto"]
    /\ aEntrenador' = [aEntrenador EXCEPT ![c] = <<>>]
    /\ UNCHANGED <<recursos, colas, info, gui, aMapa, pendientes, objetivos,
                   movimientos, posE, mochila, config, duenio, planificador,
                   block, deadlock, principal, fallo>>

\* Any other action is outside the switch, and the message is sent back.  A pokemon
\* read as a t_msj_entrenador gives lengths from nowhere: the process ends there.
E_Otro(c) ==
    /\ EnE(c, "mensaje")
    /\ aEntrenador[c] # <<>>
    /\ Head(aEntrenador[c]).accion \in
           {"UBICACION_POKENEST_OTORGADA", "OBJETIVO_CUMPLIDO", "POKEMON"}
    /\ IF Head(aEntrenador[c]).accion = "POKEMON"
         THEN /\ pcE' = [pcE EXCEPT ![c] = "caido"]
              /\ aEntrenador' = [aEntrenador EXCEPT ![c] = <<>>]
              /\ UNCHANGED aMapa
         ELSE /\ Responder(c, Head(aEntrenador[c]))
              /\ Leer(c)
              /\ UNCHANGED pcE
    /\ UNCHANGED <<recursos, colas, info, gui, pendientes, objetivos, movimientos,
                   posE, mochila, config, duenio, planificador, block, deadlock,
                   principal, fallo>>

\* The process is killed, between any two of its steps.
E_Cae(c) ==
    /\ Vivo
    /\ Cardinality({d \in Conexiones : pcE[d] = "caido"}) < Caidas
    /\ Abierta(c)
    /\ pcE' = [pcE EXCEPT ![c] = "caido"]
    /\ aEntrenador' = [aEntrenador EXCEPT ![c] = <<>>]
    /\ UNCHANGED <<recursos, colas, info, gui, aMapa, pendientes, objetivos,
                   movimientos, posE, mochila, config, duenio, planificador,
                   block, deadlock, principal, fallo>>

\* What a trainer does by itself once it is connected.
Avanza(c) ==
    \/ E_Saluda(c) \/ E_Camina(c) \/ E_Captura(c) \/ E_Pelea(c) \/ E_Muere(c)
    \/ E_Otro(c)
=============================================================================
