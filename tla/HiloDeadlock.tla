---------------------------- MODULE HiloDeadlock ----------------------------
(***************************************************************************)
(* hiloDeadlock (mapa/src/deadlock.c): every tiempoChequeoDeadlock it      *)
(* looks for trainers that wait for each other; it makes them fight, the   *)
(* loser gives its pokemons back and dies, and the others are served.      *)
(*                                                                         *)
(* pcD: chequea -> [lock -> calcula -> ... -> suelta ->] despierta         *)
(*              -> chequea                                                 *)
(*      calcula -> { desafia -> elige [-> sacaCaido] }  for each in pelea  *)
(*              -> [libera -> mata ->]                  unless one left    *)
(*                 { entrega -> saca -> espera [-> avisaReady [->          *)
(*                                              senalReady]]               *)
(*                 | entrega -> rebloquea -> avisaVacio [-> senalVacio] }  *)
(*                                              for each in peleadores     *)
(***************************************************************************)
EXTENDS Estado

\* "if(mapa->batalla && queue_size(colaBlock) > 1)", without a mutex.
D_Chequea ==
    /\ EnD("chequea")
    /\ pcD' = IF batalla /\ Len(colaBlock) > 1 THEN "lock" ELSE "despierta"
    /\ UNCHANGED <<recursos, colas, info, gui, red, procesos, config, duenio,
                   planificador, block, bloqueados, pelea, peleadores, caido,
                   entD, tamD, principal, fallo>>

\* mutexBlockDeadlock, and clonarCola.
D_Lock ==
    /\ EnD("lock")
    /\ duenio = "nadie"
    /\ duenio' = "deadlock"
    /\ bloqueados' = colaBlock
    /\ pcD' = "calcula"
    /\ UNCHANGED <<recursos, colas, info, gui, red, procesos, config,
                   planificador, block, pelea, peleadores, caido, entD, tamD,
                   principal, fallo>>

Miembros(cola) == {cola[i] : i \in 1 .. Len(cola)}

\* The orders in which a set of trainers may be visited: that of the hash table,
\* which its size and its keys decide, or that of times counted in seconds.
Ordenes(S) ==
    {o \in [1 .. Cardinality(S) -> S] : \A c \in S : \E i \in DOMAIN o : o[i] = c}

\* crearVectorDisponibles, crearMatrizAsignacion (which goes through colaBlock as
\* it is now, whatever its parameter) and crearMatrizNecesidad.
TablasDeDeadlock ==
    LET E == Miembros(bloqueados)
    IN  Tablas(cantidad,
               [c \in E |-> [n \in Pokenests |->
                   IF c \in Miembros(colaBlock) THEN Cardinality(atrapados[c][n]) ELSE 0]],
               [c \in E |-> {msj[c].pokemon}])

\* calcularMatriz, getDeadlock and, in prepararPeleadores, list_sort.
D_Calcula ==
    /\ EnD("calcula")
    /\ \E orden \in Ordenes(Miembros(bloqueados)) :
          LET enDeadlock == GetDeadlock(CalcularMatriz(TablasDeDeadlock, orden),
                                        Miembros(bloqueados))
          IN  /\ pelea' \in Ordenes(enDeadlock)
              /\ pcD' = IF enDeadlock = {} THEN "suelta" ELSE "desafia"
    /\ fallo' = IF \E c \in Miembros(bloqueados) : ~MsjValido(c) THEN "nulo" ELSE fallo
    /\ bloqueados' = <<>>
    /\ UNCHANGED <<recursos, colas, info, gui, red, procesos, config, duenio,
                   planificador, block, peleadores, caido, entD, tamD, principal>>

\* prepararPeleadores asks each one for its best pokemon...
D_Desafia ==
    /\ EnD("desafia")
    /\ LET c == Head(pelea)
       IN  /\ msj' = [msj EXCEPT ![c].accion = "BATALLA_POKEMON"]
           /\ Enviar(c, <<Con(msj[c], "BATALLA_POKEMON")>>)
           /\ fallo' = UsarMsj(c)
    /\ pcD' = "elige"
    /\ UNCHANGED <<recursos, colas, quantum, gui, aMapa, pendientes, procesos,
                   config, duenio, planificador, block, bloqueados, pelea,
                   peleadores, caido, entD, tamD, principal>>

\* ...and once all were asked there is a fight, unless somebody left.
Siguiente(resto, huboCaido) ==
    IF resto # <<>> THEN "desafia" ELSE IF huboCaido THEN "entrega" ELSE "libera"

\* recibirPokemon: a fighter.
D_Elige ==
    /\ EnD("elige")
    /\ \E m \in Proximo(Head(pelea)) :
          /\ Tomar(Head(pelea))
          /\ fallo' = IF m.accion # "POKEMON" THEN "trama" ELSE fallo
    /\ peleadores' = Append(peleadores, Head(pelea))
    /\ pelea' = Tail(pelea)
    /\ pcD' = Siguiente(Tail(pelea), caido)
    /\ UNCHANGED <<recursos, colas, info, gui, aEntrenador, pendientes, procesos,
                   config, duenio, planificador, block, bloqueados, caido, entD,
                   tamD, principal>>

\* recibirPokemon is NULL: popEntrenador counts colaBlock...
D_EligeNull ==
    /\ EnD("elige")
    /\ Cerrada(Head(pelea))
    /\ tamD' = Len(colaBlock)
    /\ pcD' = "sacaCaido"
    /\ UNCHANGED <<recursos, colas, info, gui, red, procesos, config, duenio,
                   planificador, block, bloqueados, pelea, peleadores, caido,
                   entD, principal, fallo>>

\* Mutation: it stays in the queue.
SacarDeBlockNada(c) ==
    /\ fallo' = UsarMsj(c)
    /\ tamD' = 0
    /\ UNCHANGED colaBlock

\* popEntrenador(colaBlock, &mutexColaBlock, c), from where it takes the mutex.
SacarDeBlock(c) ==
    /\ colaBlock' \in PopEntrenador(colaBlock, tamD, Simbolo(c))
    /\ fallo' = IF PopDeMas(colaBlock, tamD, Simbolo(c)) THEN "nulo" ELSE UsarMsj(c)
    /\ tamD' = 0

\* ...and takes it out.  What it holds stays with it.
D_SacaCaido ==
    /\ EnD("sacaCaido")
    /\ SacarDeBlock(Head(pelea))
    /\ caido' = TRUE
    /\ pelea' = Tail(pelea)
    /\ pcD' = Siguiente(Tail(pelea), TRUE)
    /\ UNCHANGED <<recursos, colaReady, info, gui, red, procesos, config, duenio,
                   planificador, block, bloqueados, peleadores, entD, principal>>

\* ejecutarBatalla: pkmn_battle says who loses; liberarRecursos takes its pokemons.
D_Libera ==
    /\ EnD("libera")
    /\ \E i \in 1 .. Len(peleadores) :
          /\ entD' = peleadores[i]
          /\ peleadores' = Quitar(peleadores, i)
          /\ LiberarRecursos(peleadores[i])
    /\ tamD' = Len(colaBlock)
    /\ pcD' = "mata"
    /\ UNCHANGED <<colas, info, gui, red, procesos, config, duenio, planificador,
                   block, bloqueados, pelea, caido, principal, fallo>>

\* The loser leaves colaBlock and is told.
D_Mata ==
    /\ EnD("mata")
    /\ SacarDeBlock(entD)
    /\ msj' = [msj EXCEPT ![entD].accion = "MUERTE_ENTRENADOR"]
    /\ Enviar(entD, <<Con(msj[entD], "MUERTE_ENTRENADOR")>>)
    /\ entD' = Nadie
    /\ pcD' = "entrega"
    /\ UNCHANGED <<recursos, colaReady, quantum, gui, aMapa, pendientes, procesos,
                   config, duenio, planificador, block, bloqueados, pelea,
                   peleadores, caido, principal>>

\* entregarPokemons, the next winner: there is a pokemon for it.
D_Entrega ==
    /\ EnD("entrega")
    /\ peleadores # <<>>
    /\ LET c == Head(peleadores)
           m == Con(msj[c], "CAPTURAR_POKEMON")
       IN  /\ Entregar(c, m)
           /\ msj' = [msj EXCEPT ![c] = m]
    /\ tamD' = Len(colaBlock)
    /\ pcD' = "saca"
    /\ UNCHANGED <<colas, quantum, gui, aMapa, pendientes, procesos, config, duenio,
                   planificador, block, bloqueados, pelea, peleadores, caido,
                   entD, principal>>

D_Saca ==
    /\ EnD("saca")
    /\ SacarDeBlock(Head(peleadores))
    /\ pcD' = "espera"
    /\ UNCHANGED <<recursos, colaReady, info, gui, red, procesos, config, duenio,
                   planificador, block, bloqueados, pelea, peleadores, caido,
                   entD, principal>>

\* Its next request: ready again, or OBJETIVO_CUMPLIDO.
D_Espera ==
    /\ EnD("espera")
    /\ \E m \in Proximo(Head(peleadores)) :
          /\ Tomar(Head(peleadores))
          /\ msj' = [msj EXCEPT ![Head(peleadores)] = m]
          /\ fallo' = IF m.accion = "POKEMON" THEN "trama" ELSE fallo
          /\ IF m.accion = "OBJETIVO_CUMPLIDO"
               THEN pcD' = "entrega" /\ UNCHANGED colaReady
               ELSE /\ pcD' = "avisaReady"
                    /\ colaReady' = Append(colaReady, Head(peleadores))
    /\ peleadores' = Tail(peleadores)
    /\ UNCHANGED <<recursos, colaBlock, quantum, gui, aEntrenador, pendientes,
                   procesos, config, duenio, planificador, block, bloqueados,
                   pelea, caido, entD, tamD, principal>>

\* NULL: the branch taken for it reads msjEntrenador->accion.
D_EsperaNull ==
    /\ EnD("espera")
    /\ Cerrada(Head(peleadores))
    /\ fallo' = "nulo"
    /\ UNCHANGED <<recursos, colas, info, gui, red, procesos, config, duenio,
                   planificador, block, deadlock, principal>>

\* "if(queue_size(colaReady) == 1)", without a mutex.
D_AvisaReady ==
    /\ EnD("avisaReady")
    /\ pcD' = IF Len(colaReady) = 1 THEN "senalReady" ELSE "entrega"
    /\ UNCHANGED <<recursos, colas, info, gui, red, procesos, config, duenio,
                   planificador, block, bloqueados, pelea, peleadores, caido,
                   entD, tamD, principal, fallo>>

D_SenalReady ==
    /\ EnD("senalReady")
    /\ SenalPlanificador
    /\ pcD' = "entrega"
    /\ UNCHANGED <<recursos, colas, info, gui, red, procesos, config, duenio,
                   entP, algP, block, bloqueados, pelea, peleadores, caido,
                   entD, tamD, principal, fallo>>

\* There is none for it: popEntrenador counts colaBlock...
D_EntregaNull ==
    /\ EnD("entrega")
    /\ peleadores # <<>>
    /\ ~HayPokemon(msj[Head(peleadores)].pokemon)
    /\ tamD' = Len(colaBlock)
    /\ pcD' = "rebloquea"
    /\ UNCHANGED <<recursos, colas, info, gui, red, procesos, config, duenio,
                   planificador, block, bloqueados, pelea, peleadores, caido,
                   entD, principal, fallo>>

\* ...and the winner goes to the end of colaBlock, its message still that of the
\* fight.
D_Rebloquea ==
    /\ EnD("rebloquea")
    /\ LET c == Head(peleadores)
       IN  /\ \E q \in PopEntrenador(colaBlock, tamD, Simbolo(c)) :
                 colaBlock' = Append(q, c)
           /\ fallo' = IF PopDeMas(colaBlock, tamD, Simbolo(c)) THEN "nulo" ELSE UsarMsj(c)
           /\ quantum' = [quantum EXCEPT ![c] = 0]
    /\ tamD' = 0
    /\ peleadores' = Tail(peleadores)
    /\ pcD' = "avisaVacio"
    /\ UNCHANGED <<recursos, colaReady, msj, gui, red, procesos, config, duenio,
                   planificador, block, bloqueados, pelea, caido, entD, principal>>

\* "if(queue_size(colaBlock) == 1)", without a mutex.
D_AvisaVacio ==
    /\ EnD("avisaVacio")
    /\ pcD' = IF Len(colaBlock) = 1 THEN "senalVacio" ELSE "entrega"
    /\ UNCHANGED <<recursos, colas, info, gui, red, procesos, config, duenio,
                   planificador, block, bloqueados, pelea, peleadores, caido,
                   entD, tamD, principal, fallo>>

D_SenalVacio ==
    /\ EnD("senalVacio")
    /\ SenalBlockEmpty
    /\ pcD' = "entrega"
    /\ UNCHANGED <<recursos, colas, info, gui, red, procesos, config, duenio,
                   planificador, entB, bloqueados, pelea, peleadores, caido,
                   entD, tamD, principal, fallo>>

\* All served, or nobody in deadlock.
D_Suelta ==
    /\ \/ EnD("suelta")
       \/ EnD("entrega") /\ peleadores = <<>>
    /\ duenio' = "nadie"
    /\ caido' = FALSE
    /\ pcD' = "despierta"
    /\ UNCHANGED <<recursos, colas, info, gui, red, procesos, config,
                   planificador, block, bloqueados, pelea, peleadores, entD,
                   tamD, principal, fallo>>

\* Mutation: the period does not signal condBlock.
D_DespiertaSinSenal ==
    /\ EnD("despierta")
    /\ pcD' = "chequea"
    /\ UNCHANGED <<recursos, colas, info, gui, red, procesos, config, duenio,
                   planificador, block, bloqueados, pelea, peleadores, caido,
                   entD, tamD, principal, fallo>>

\* "if(!queue_is_empty(colaBlock))" signal condBlock; then it sleeps.
D_Despierta ==
    /\ EnD("despierta")
    /\ IF colaBlock = <<>> THEN UNCHANGED pcB ELSE SenalBlock
    /\ pcD' = "chequea"
    /\ UNCHANGED <<recursos, colas, info, gui, red, procesos, config, duenio,
                   planificador, entB, bloqueados, pelea, peleadores, caido,
                   entD, tamD, principal, fallo>>

Interbloqueo ==
    \/ D_Chequea \/ D_Lock \/ D_Calcula \/ D_Desafia \/ D_Elige
    \/ D_EligeNull \/ D_SacaCaido \/ D_Libera \/ D_Mata \/ D_Entrega \/ D_Saca
    \/ D_Espera \/ D_EsperaNull \/ D_AvisaReady \/ D_SenalReady \/ D_EntregaNull
    \/ D_Rebloquea \/ D_AvisaVacio \/ D_SenalVacio \/ D_Suelta \/ D_Despierta
=============================================================================
