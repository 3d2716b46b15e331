---------------------------- MODULE Planificador ----------------------------
(***************************************************************************)
(* hiloPlanificador (mapa/src/planificador.c): picks a trainer of          *)
(* colaReady, by round robin or by the shortest distance (SRDF), and       *)
(* serves it until its turn ends, it blocks or it leaves.                  *)
(*                                                                         *)
(* pcP: entra, chequea -> porDormir -> dormido -> chequea     nobody ready *)
(*      entra, chequea -> otorga                -> recibe     RR           *)
(*      entra, chequea -> atiende -> cercano    -> recibe     SRDF         *)
(*      recibe -> recibe                           the turn goes on        *)
(*      recibe -> entra                            the turn is over        *)
(*      recibe -> avisaVacio [-> senalVacio] -> senalBlock -> entra        *)
(*                                                 the trainer was blocked *)
(***************************************************************************)
EXTENDS Estado

\* quienSigue reads mapa->algoritmo once, when it is entered; then it looks at the
\* queue, without a mutex, until somebody is there.
P_Chequea ==
    /\ EnP("entra") \/ EnP("chequea")
    /\ algP' = IF pcP = "entra" THEN algoritmo ELSE algP
    /\ pcP' = IF colaReady = <<>> THEN "porDormir"
              ELSE IF algP' = "SRDF" THEN "atiende" ELSE "otorga"
    /\ UNCHANGED <<recursos, colas, info, gui, red, procesos, config, duenio,
                   entP, block, deadlock, principal, fallo>>

\* pthread_cond_wait(&condPlanificador): whoever signalled before is not heard.
P_Duerme ==
    /\ EnP("porDormir")
    /\ pcP' = "dormido"
    /\ UNCHANGED <<recursos, colas, info, gui, red, procesos, config, duenio,
                   entP, algP, block, deadlock, principal, fallo>>

\* Mutation: the answer withheld is never sent.
P_OtorgaSinResponder ==
    /\ EnP("otorga")
    /\ LET c == Head(colaReady)
           ubica == msj[c].accion = "UBICACION_POKENEST"
       IN  /\ entP' = c
           /\ IF ubica THEN Enviar(c, <<msj[c]>>) ELSE UNCHANGED aEntrenador
           /\ quantum' = [quantum EXCEPT ![c] = IF ubica THEN @ + 1 ELSE 0]
           /\ msj' = IF ubica
                       THEN [msj EXCEPT ![c].accion = "UBICACION_POKENEST_OTORGADA"]
                       ELSE msj
    /\ colaReady' = Tail(colaReady)
    /\ pcP' = "recibe"
    /\ UNCHANGED <<recursos, colaBlock, gui, aMapa, pendientes, procesos, config,
                   duenio, algP, block, deadlock, principal, fallo>>

\* getReadyRR: the head of the queue gets the position it asked for, or the
\* answer withheld when its last turn ended.
P_Otorga ==
    /\ EnP("otorga")
    /\ LET c == Head(colaReady)
           ubica == msj[c].accion = "UBICACION_POKENEST"
       IN  /\ entP' = c
           /\ Enviar(c, <<msj[c]>>)
           /\ quantum' = [quantum EXCEPT ![c] = IF ubica THEN @ + 1 ELSE 0]
           /\ msj' = IF ubica
                       THEN [msj EXCEPT ![c].accion = "UBICACION_POKENEST_OTORGADA"]
                       ELSE msj
    /\ colaReady' = Tail(colaReady)
    /\ pcP' = "recibe"
    /\ UNCHANGED <<recursos, colaBlock, gui, aMapa, pendientes, procesos, config,
                   duenio, algP, block, deadlock, principal, fallo>>

\* Mutation: those that already got theirs count too.
PidenUbicacionTodos ==
    {i \in 1 .. Len(colaReady) :
        msj[colaReady[i]].accion \in {"UBICACION_POKENEST", "UBICACION_POKENEST_OTORGADA"}}

\* Those of colaReady that still wait for a position.
PidenUbicacion ==
    {i \in 1 .. Len(colaReady) : msj[colaReady[i]].accion = "UBICACION_POKENEST"}

\* The first of some indices.
Primero(I) == {i \in I : \A j \in I : i <= j}

\* atenderAlPrimeroSinPokenest: the first of them gets it and goes to the end.
P_Atiende ==
    /\ EnP("atiende")
    /\ \/ /\ PidenUbicacion = {}
          /\ UNCHANGED <<msj, aEntrenador, colaReady>>
       \/ \E i \in Primero(PidenUbicacion) :
             LET c == colaReady[i]
             IN  /\ Enviar(c, <<msj[c]>>)
                 /\ msj' = [msj EXCEPT ![c].accion = "UBICACION_POKENEST_OTORGADA"]
                 /\ \E q \in SinEntrenador(colaReady, Simbolo(c)) :
                       colaReady' = Append(q, c)
    /\ pcP' = "cercano"
    /\ UNCHANGED <<recursos, colaBlock, quantum, gui, aMapa, pendientes, procesos,
                   config, duenio, entP, algP, block, deadlock, principal, fallo>>

\* Those getEntrenadorMasCercano compares, and how far each one is.
Candidatos == (1 .. Len(colaReady)) \ PidenUbicacion

DistanciaDe(i) ==
    LET c == colaReady[i]
    IN  Distancia(gui[Simbolo(c)][1], Ubicacion[msj[c].pokemon])

MasCercanos ==
    {i \in Candidatos : \A j \in Candidatos : DistanciaDe(i) <= DistanciaDe(j)}

\* getEntrenadorMasCercano: the first at the least distance leaves the queue.
\* getDistanciaEntrenador needs the sprite of each one it compares; and with
\* nobody to compare the loop of hiloPlanificador would go on with NULL.
P_Cercano ==
    /\ EnP("cercano")
    /\ IF Candidatos = {} \/ \E i \in Candidatos : gui[Simbolo(colaReady[i])] = <<>>
         THEN /\ fallo' = "nulo"
              /\ UNCHANGED <<colaReady, entP, pcP>>
         ELSE \E i \in Primero(MasCercanos) :
                 /\ colaReady' \in SinEntrenador(colaReady, Simbolo(colaReady[i]))
                 /\ entP' = colaReady[i]
                 /\ pcP' = "recibe"
                 /\ UNCHANGED fallo
    /\ UNCHANGED <<recursos, colaBlock, info, gui, red, procesos, config, duenio,
                   algP, block, deadlock, principal>>

\* Mutation: <= for <.
SigueTurnoUnoMas(c) == algoritmo = "SRDF" \/ quantum[c] + 1 <= Quantum

\* Mutation: another comparison for <.
SigueTurnoDistinto(c) == algoritmo = "SRDF" \/ quantum[c] + 1 # Quantum

\* isTurno
SigueTurno(c) == algoritmo = "SRDF" \/ quantum[c] + 1 < Quantum

\* MOVERSE: the sprite moves and, while the turn lasts, the trainer gets its
\* answer (and the message is freed); otherwise it goes back to colaReady with
\* the answer withheld.  An action outside the switch takes the same path
\* without the sprite.
P_RecibeMoverse ==
    /\ EnP("recibe")
    /\ \E m \in Proximo(entP) :
          /\ Tomar(entP)
          /\ m.accion \notin {"CAPTURAR_POKEMON", "OBJETIVO_CUMPLIDO"}
          /\ LET c == entP
                 s == Simbolo(entP)
                 mueve == m.accion = "MOVERSE"
             IN  /\ gui' = IF mueve /\ gui[s] # <<>>
                             THEN [gui EXCEPT ![s][1] = Mover(@, m.movimiento)]
                             ELSE gui
                 /\ fallo' = IF mueve /\ gui[s] = <<>> THEN "nulo"
                             ELSE IF m.accion = "POKEMON" THEN "trama" ELSE fallo
                 /\ quantum' = IF algoritmo = "SRDF" THEN quantum
                               ELSE [quantum EXCEPT ![c] = @ + 1]
                 /\ IF SigueTurno(c)
                      THEN /\ Enviar(c, <<m>>)
                           /\ msj' = [msj EXCEPT ![c] = Con(m, "LIBERADO")]
                           /\ UNCHANGED <<colaReady, entP, pcP>>
                      ELSE /\ msj' = [msj EXCEPT ![c] = m]
                           /\ colaReady' = Append(colaReady, c)
                           /\ entP' = Nadie
                           /\ pcP' = "entra"
                           /\ UNCHANGED aEntrenador
    /\ UNCHANGED <<recursos, colaBlock, pendientes, procesos, config, duenio,
                   algP, block, deadlock, principal>>

\* CAPTURAR_POKEMON: addToBlock, which also resets the quantum.
P_RecibeCapturar ==
    /\ EnP("recibe")
    /\ \E m \in Proximo(entP) :
          /\ Tomar(entP)
          /\ m.accion = "CAPTURAR_POKEMON"
          /\ msj' = [msj EXCEPT ![entP] = m]
    /\ quantum' = [quantum EXCEPT ![entP] = 0]
    /\ colaBlock' = Append(colaBlock, entP)
    /\ entP' = Nadie
    /\ pcP' = "avisaVacio"
    /\ UNCHANGED <<recursos, colaReady, gui, aEntrenador, pendientes, procesos,
                   config, duenio, algP, block, deadlock, principal, fallo>>

\* "if(queue_size(colaBlock) == 1)", without a mutex.
P_AvisaVacio ==
    /\ EnP("avisaVacio")
    /\ pcP' = IF Len(colaBlock) = 1 THEN "senalVacio" ELSE "senalBlock"
    /\ UNCHANGED <<recursos, colas, info, gui, red, procesos, config, duenio,
                   entP, algP, block, deadlock, principal, fallo>>

P_SenalVacio ==
    /\ EnP("senalVacio")
    /\ SenalBlockEmpty
    /\ pcP' = "senalBlock"
    /\ UNCHANGED <<recursos, colas, info, gui, red, procesos, config, duenio,
                   entP, algP, entB, deadlock, principal, fallo>>

P_SenalBlock ==
    /\ EnP("senalBlock")
    /\ SenalBlock
    /\ pcP' = "entra"
    /\ UNCHANGED <<recursos, colas, info, gui, red, procesos, config, duenio,
                   entP, algP, entB, deadlock, principal, fallo>>

\* NULL, because the trainer left, or OBJETIVO_CUMPLIDO: its t_info_entrenador is
\* forgotten.
P_RecibeFin ==
    /\ EnP("recibe")
    /\ \/ Cerrada(entP) /\ GuardarNull(entP) /\ UNCHANGED aMapa
       \/ \E m \in Proximo(entP) :
             /\ Tomar(entP)
             /\ m.accion = "OBJETIVO_CUMPLIDO"
             /\ msj' = [msj EXCEPT ![entP] = m]
    /\ entP' = Nadie
    /\ pcP' = "entra"
    /\ UNCHANGED <<recursos, colas, quantum, gui, aEntrenador, pendientes, procesos,
                   config, duenio, algP, block, deadlock, principal, fallo>>

Planificar ==
    \/ P_Chequea \/ P_Duerme \/ P_Otorga \/ P_Atiende \/ P_Cercano
    \/ P_RecibeMoverse \/ P_RecibeCapturar \/ P_RecibeFin
    \/ P_AvisaVacio \/ P_SenalVacio \/ P_SenalBlock
=============================================================================
