----------------------------- MODULE Principal -----------------------------
(***************************************************************************)
(* The main thread of the map (mapa/src/main.c): one select() loop that    *)
(* accepts trainers and notices the ones that left.  The two signals it    *)
(* handles are here too, SIGUSR2 as an action.                             *)
(*                                                                         *)
(* pcM: select -> acepta -> avisaReady [-> senalReady] -> revisa           *)
(*      select -> revisa                                                   *)
(*      revisa -> revisa                            a client still there   *)
(*      revisa -> saca -> avisaBlock -> revisa      a client that left     *)
(*      revisa -> select                                                   *)
(***************************************************************************)
EXTENDS Estado

\* Something to read, or the end of the connection.
Legible(c) == HayMensaje(c) \/ ~Abierta(c)

Legibles == {c \in Conexiones : EnCola(clientes, c) /\ Legible(c)}

\* select() returns: it marks the descriptors that can be read.
M_Select ==
    /\ EnM("select")
    /\ pendientes # <<>> \/ Legibles # {}
    /\ descriptores' = Legibles
    /\ iM' = 1
    /\ pcM' = IF pendientes # <<>> THEN "acepta" ELSE "revisa"
    /\ UNCHANGED <<recursos, colas, info, gui, red, procesos, config, duenio,
                   planificador, block, deadlock, clientes, entM, tamM, fallo>>

\* accept, and the first message, waited for.  The new descriptor is marked too,
\* though select() did not see it, and the trainer becomes ready.
M_Acepta ==
    /\ EnM("acepta")
    /\ \E c \in {Head(pendientes)} : \E m \in Proximo(c) :
          /\ Tomar(c)
          /\ msj' = [msj EXCEPT ![c] = m]
          /\ quantum' = [quantum EXCEPT ![c] = 0]
          /\ gui' = [gui EXCEPT ![Simbolo(c)] = Append(@, Origen)]
          /\ clientes' = Append(clientes, c)
          /\ descriptores' = descriptores \cup {c}
          /\ colaReady' = Append(colaReady, c)
    /\ pendientes' = Tail(pendientes)
    /\ pcM' = "avisaReady"
    /\ UNCHANGED <<recursos, colaBlock, aEntrenador, procesos, config, duenio,
                   planificador, block, deadlock, iM, entM, tamM, fallo>>

\* It left before its first message, which is used all the same.
M_AceptaNull ==
    /\ EnM("acepta")
    /\ Cerrada(Head(pendientes))
    /\ fallo' = "nulo"
    /\ UNCHANGED <<recursos, colas, info, gui, red, procesos, config, duenio,
                   planificador, block, deadlock, principal>>

\* "if(queue_size(colaReady) == 1)", without a mutex.
M_AvisaReady ==
    /\ EnM("avisaReady")
    /\ pcM' = IF Len(colaReady) = 1 THEN "senalReady" ELSE "revisa"
    /\ UNCHANGED <<recursos, colas, info, gui, red, procesos, config, duenio,
                   planificador, block, deadlock, clientes, descriptores, iM,
                   entM, tamM, fallo>>

M_SenalReady ==
    /\ EnM("senalReady")
    /\ SenalPlanificador
    /\ pcM' = "revisa"
    /\ UNCHANGED <<recursos, colas, info, gui, red, procesos, config, duenio,
                   entP, algP, block, deadlock, clientes, descriptores, iM, entM,
                   tamM, fallo>>

\* The loop over the clients: the next one is not marked, or recv(MSG_PEEK)
\* finds something to read.  On a marked client with nothing to read any more
\* that is still there, recv blocks: there is no step.
M_Revisa ==
    /\ EnM("revisa")
    /\ iM <= Len(clientes)
    /\ clientes[iM] \in descriptores => HayMensaje(clientes[iM])
    /\ iM' = iM + 1
    /\ UNCHANGED <<recursos, colas, info, gui, red, procesos, config, duenio,
                   planificador, block, deadlock, pcM, clientes, descriptores,
                   entM, tamM, fallo>>

\* recv returns 0: its sprite goes, and popEntrenador counts colaBlock.
M_Borra ==
    /\ EnM("revisa")
    /\ iM <= Len(clientes)
    /\ clientes[iM] \in descriptores
    /\ Cerrada(clientes[iM])
    /\ LET s == Simbolo(clientes[iM])
       IN  gui' = IF gui[s] = <<>> THEN gui ELSE [gui EXCEPT ![s] = Tail(@)]
    /\ entM' = clientes[iM]
    /\ tamM' = Len(colaBlock)
    /\ pcM' = "saca"
    /\ UNCHANGED <<recursos, colas, info, red, procesos, config, duenio,
                   planificador, block, deadlock, clientes, descriptores, iM, fallo>>

\* popEntrenador compares with msjEntrenador->simbolo: there may be no message
\* any more, or a freed one, whose byte can be any symbol by now.
SimboloLeido(c) ==
    IF msj[c].accion = "LIBERADO" THEN Entrenadores \cup {Nadie} ELSE {Simbolo(c)}

M_Saca ==
    /\ EnM("saca")
    /\ \E s \in SimboloLeido(entM) :
          /\ colaBlock' \in PopEntrenador(colaBlock, tamM, s)
          /\ fallo' = IF \/ tamM > 0 /\ msj[entM].accion = "NULL"
                         \/ PopDeMas(colaBlock, tamM, s)
                        THEN "nulo" ELSE fallo
    /\ tamM' = 0
    /\ pcM' = "avisaBlock"
    /\ UNCHANGED <<recursos, colaReady, info, gui, red, procesos, config, duenio,
                   planificador, block, deadlock, clientes, descriptores, iM, entM>>

\* condBlock is signalled if somebody is blocked; the client leaves the list, the
\* next one takes its place in it, and the loop goes on to the one after that.
M_AvisaBlock ==
    /\ EnM("avisaBlock")
    /\ IF colaBlock = <<>> THEN UNCHANGED pcB ELSE SenalBlock
    /\ clientes' = Quitar(clientes, iM)
    /\ entM' = Nadie
    /\ iM' = iM + 1
    /\ pcM' = "revisa"
    /\ UNCHANGED <<recursos, colas, info, gui, red, procesos, config, duenio,
                   planificador, entB, deadlock, descriptores, tamM, fallo>>

\* Mutation: the clients are numbered from 0.
M_TerminaDesdeCero ==
    /\ EnM("revisa")
    /\ iM > Len(clientes)
    /\ descriptores' = {}
    /\ iM' = 0
    /\ pcM' = "select"
    /\ UNCHANGED <<recursos, colas, info, gui, red, procesos, config, duenio,
                   planificador, block, deadlock, clientes, entM, tamM, fallo>>

\* The loop is over: back to select().
M_Termina ==
    /\ EnM("revisa")
    /\ iM > Len(clientes)
    /\ descriptores' = {}
    /\ iM' = 1
    /\ pcM' = "select"
    /\ UNCHANGED <<recursos, colas, info, gui, red, procesos, config, duenio,
                   planificador, block, deadlock, clientes, entM, tamM, fallo>>

\* SIGUSR2: recargarPlanificador reads the map's file again, at any moment.
Recargar ==
    /\ Vivo
    /\ recargas > 0
    /\ recargas' = recargas - 1
    /\ algoritmo' \in Algoritmos
    /\ batalla' \in Batallas
    /\ UNCHANGED <<recursos, colas, info, gui, red, procesos, duenio,
                   planificador, block, deadlock, principal, fallo>>

Atender ==
    \/ M_Select \/ M_Acepta \/ M_AceptaNull \/ M_AvisaReady \/ M_SenalReady
    \/ M_Revisa \/ M_Borra \/ M_Saca \/ M_AvisaBlock \/ M_Termina
=============================================================================
