----------------------------- MODULE HiloBlock -----------------------------
(***************************************************************************)
(* hiloBlock (mapa/src/planificador.c): takes the blocked trainers one by  *)
(* one and gives each the pokemon it waits for, while there are any.       *)
(*                                                                         *)
(* pcB: chequea -> porDormirVacio -> dormidoVacio -> chequea               *)
(*      chequea -> lock -> pokemon                                         *)
(*      pokemon -> recibe -> chequea                a trainer that leaves  *)
(*                 recibe -> avisaReady [-> senalReady] -> chequea         *)
(*      pokemon -> pregunta -> chequea                                     *)
(*                 pregunta -> porDormirBlock -> dormidoBlock              *)
(*                          -> despierto -> chequea                        *)
(***************************************************************************)
EXTENDS Estado

\* "while(queue_is_empty(colaBlock))", read before mutexGestionHilos is taken.
B_Chequea ==
    /\ EnB("chequea")
    /\ pcB' = IF colaBlock = <<>> THEN "porDormirVacio" ELSE "lock"
    /\ UNCHANGED <<recursos, colas, info, gui, red, procesos, config, duenio,
                   planificador, entB, deadlock, principal, fallo>>

\* pthread_cond_wait(&condBlockEmpty)
B_DuermeVacio ==
    /\ EnB("porDormirVacio")
    /\ pcB' = "dormidoVacio"
    /\ UNCHANGED <<recursos, colas, info, gui, red, procesos, config, duenio,
                   planificador, entB, deadlock, principal, fallo>>

\* Mutation: queue_peek for queue_pop.
B_LockSinSacar ==
    /\ EnB("lock")
    /\ duenio = "nadie"
    /\ duenio' = "block"
    /\ IF colaBlock = <<>>
         THEN fallo' = "nulo" /\ UNCHANGED <<entB, pcB>>
         ELSE entB' = Head(colaBlock) /\ pcB' = "pokemon" /\ UNCHANGED fallo
    /\ UNCHANGED <<recursos, colas, info, gui, red, procesos, config,
                   planificador, deadlock, principal>>

\* mutexBlockDeadlock and getBlock; main may have emptied the queue since it was
\* looked at.
B_Lock ==
    /\ EnB("lock")
    /\ duenio = "nadie"
    /\ duenio' = "block"
    /\ IF colaBlock = <<>>
         THEN fallo' = "nulo" /\ UNCHANGED <<colaBlock, entB, pcB>>
         ELSE /\ entB' = Head(colaBlock)
              /\ colaBlock' = Tail(colaBlock)
              /\ pcB' = "pokemon"
              /\ UNCHANGED fallo
    /\ UNCHANGED <<recursos, colaReady, info, gui, red, procesos, config,
                   planificador, deadlock, principal>>

\* There is one: it is noted, and the message and the pokemon are sent.
B_Entrega ==
    /\ EnB("pokemon")
    /\ Entregar(entB, msj[entB])
    /\ pcB' = "recibe"
    /\ UNCHANGED <<colas, info, gui, aMapa, pendientes, procesos, config, duenio,
                   planificador, entB, deadlock, principal>>

\* There is none: the trainer goes to the end of colaBlock.
B_Rebloquea ==
    /\ EnB("pokemon")
    /\ ~HayPokemon(msj[entB].pokemon)
    /\ colaBlock' = Append(colaBlock, entB)
    /\ quantum' = [quantum EXCEPT ![entB] = 0]
    /\ entB' = Nadie
    /\ pcB' = "pregunta"
    /\ UNCHANGED <<recursos, colaReady, msj, gui, red, procesos, config, duenio,
                   planificador, deadlock, principal, fallo>>

SePuedeAtenderUnEntrenador ==
    \E i \in 1 .. Len(colaBlock) : HayPokemon(msj[colaBlock[i]].pokemon)

\* Either way mutexBlockDeadlock is unlocked; if nobody can be served the
\* thread goes on to wait.
B_Pregunta ==
    /\ EnB("pregunta")
    /\ duenio' = "nadie"
    /\ pcB' = IF SePuedeAtenderUnEntrenador THEN "chequea" ELSE "porDormirBlock"
    /\ UNCHANGED <<recursos, colas, info, gui, red, procesos, config,
                   planificador, entB, deadlock, principal, fallo>>

\* pthread_cond_wait(&condBlock)
B_DuermeBlock ==
    /\ EnB("porDormirBlock")
    /\ pcB' = "dormidoBlock"
    /\ UNCHANGED <<recursos, colas, info, gui, red, procesos, config, duenio,
                   planificador, entB, deadlock, principal, fallo>>

\* Awake, it falls into the unlock after the if: the second one for the one lock
\* it took.  A default mutex has no owner check, so it ends free whoever holds it.
B_Despierta ==
    /\ EnB("despierto")
    /\ duenio' = "nadie"
    /\ pcB' = "chequea"
    /\ UNCHANGED <<recursos, colas, info, gui, red, procesos, config,
                   planificador, entB, deadlock, principal, fallo>>

\* The next request, awaited with the mutex taken.  UBICACION_POKENEST: ready.
B_Recibe ==
    /\ EnB("recibe")
    /\ \E m \in Proximo(entB) :
          /\ Tomar(entB)
          /\ m.accion # "OBJETIVO_CUMPLIDO"
          /\ msj' = [msj EXCEPT ![entB] = m]
          /\ fallo' = IF m.accion = "POKEMON" THEN "trama" ELSE fallo
    /\ duenio' = "nadie"
    /\ colaReady' = Append(colaReady, entB)
    /\ entB' = Nadie
    /\ pcB' = "avisaReady"
    /\ UNCHANGED <<recursos, colaBlock, quantum, gui, aEntrenador, pendientes,
                   procesos, config, planificador, deadlock, principal>>

\* NULL, or OBJETIVO_CUMPLIDO, whose message is freed and still pointed to.
B_RecibeFin ==
    /\ EnB("recibe")
    /\ \/ Cerrada(entB) /\ GuardarNull(entB) /\ UNCHANGED aMapa
       \/ \E m \in Proximo(entB) :
             /\ Tomar(entB)
             /\ m.accion = "OBJETIVO_CUMPLIDO"
             /\ msj' = [msj EXCEPT ![entB] = Con(m, "LIBERADO")]
    /\ duenio' = "nadie"
    /\ entB' = Nadie
    /\ pcB' = "chequea"
    /\ UNCHANGED <<recursos, colas, quantum, gui, aEntrenador, pendientes, procesos,
                   config, planificador, deadlock, principal, fallo>>

\* "if(queue_size(colaReady) == 1)", without a mutex.
B_AvisaReady ==
    /\ EnB("avisaReady")
    /\ pcB' = IF Len(colaReady) = 1 THEN "senalReady" ELSE "chequea"
    /\ UNCHANGED <<recursos, colas, info, gui, red, procesos, config, duenio,
                   planificador, entB, deadlock, principal, fallo>>

B_SenalReady ==
    /\ EnB("senalReady")
    /\ SenalPlanificador
    /\ pcB' = "chequea"
    /\ UNCHANGED <<recursos, colas, info, gui, red, procesos, config, duenio,
                   entP, algP, entB, deadlock, principal, fallo>>

Bloquear ==
    \/ B_Chequea \/ B_DuermeVacio \/ B_Lock \/ B_Entrega \/ B_Rebloquea
    \/ B_Pregunta \/ B_DuermeBlock \/ B_Despierta \/ B_Recibe \/ B_RecibeFin
    \/ B_AvisaReady \/ B_SenalReady
=============================================================================
