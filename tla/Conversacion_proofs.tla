------------------------- MODULE Conversacion_proofs -------------------------
(***************************************************************************)
(* What is on the wire between each trainer and the map, for any map: who  *)
(* has to speak, by the place where the trainer is.  The invariant says it *)
(* for the five places where there may be something (a trainer to accept,  *)
(* in its turn, asked for its pokemon, given one, told that it lost), and  *)
(* that there is nothing anywhere else.                                    *)
(***************************************************************************)
EXTENDS Lugares_proofs

\* "supuestamente se arreglo el deadlock" (deadlock.c:515): whoever fought and comes
\* back to colaBlock is not served by hiloBlock, which would send it what its
\* msjEntrenador still says, BATALLA_POKEMON, before the pokemon.
PeleaResuelta == pcB = "recibe" => msj[entB].accion # "BATALLA_POKEMON"

\* The configuration may be reloaded, but the algorithm is always the same.
MismoAlgoritmo == [][UNCHANGED algoritmo]_algoritmo
-----------------------------------------------------------------------------
(***************************************************************************)
(* The two directions of a connection: nothing in them, one message of     *)
(* some kinds to the trainer, one to the map, or closed by the trainer.    *)
(***************************************************************************)
Nada(c) == aMapa[c] = <<>> /\ aEntrenador[c] = <<>>

Ida(c, K) ==
    /\ pcE[c] = "mensaje" /\ aMapa[c] = <<>>
    /\ Len(aEntrenador[c]) = 1 /\ aEntrenador[c][1].accion \in K

Vuelta(c, K) ==
    /\ pcE[c] # "conectado" /\ aEntrenador[c] = <<>>
    /\ Len(aMapa[c]) = 1 /\ aMapa[c][1].accion \in K

SeFue(c) == Nada(c) /\ ~Abierta(c)

\* The two frames of a delivery.
Entregado(c) ==
    /\ pcE[c] = "mensaje" /\ aMapa[c] = <<>>
    /\ Len(aEntrenador[c]) = 2
    /\ aEntrenador[c][1].accion = "CAPTURAR_POKEMON"
    /\ aEntrenador[c][2].accion = "POKEMON"

\* What may be said in each place.
Saludo(c) ==
    (pcE[c] = "conectado" /\ Nada(c)) \/ Vuelta(c, {"UBICACION_POKENEST"}) \/ SeFue(c)
Turno(c) ==
    \/ Ida(c, {"UBICACION_POKENEST", "MOVERSE"})
    \/ Vuelta(c, {"MOVERSE", "CAPTURAR_POKEMON"})
    \/ SeFue(c)
Desafio(c) == Ida(c, {"BATALLA_POKEMON"}) \/ Vuelta(c, {"POKEMON"}) \/ SeFue(c)
Premio(c) ==
    \/ Entregado(c)
    \/ Vuelta(c, {"UBICACION_POKENEST", "OBJETIVO_CUMPLIDO"})
    \/ SeFue(c)
Aviso(c) == Nada(c) \/ Ida(c, {"MUERTE_ENTRENADOR"})

\* The places.  Under SRDF a trainer may be given its position and wait in colaReady.
EnTurno(c) ==
    entP = c \/ (EnCola(colaReady, c) /\ msj[c].accion = "UBICACION_POKENEST_OTORGADA")
EnDesafio(c) == pcD = "elige" /\ c = Head(pelea)
EnPremio(c) ==
    (entB = c /\ pcB = "recibe") \/ (pcD \in {"saca", "espera"} /\ c = Head(peleadores))
Avisado(c) == c \in destruidos /\ entD # c

Charla(c) ==
    /\ EnCola(pendientes, c) => Saludo(c)
    /\ EnTurno(c) => Turno(c)
    /\ EnDesafio(c) => Desafio(c)
    /\ EnPremio(c) => Premio(c)
    /\ Avisado(c) => Aviso(c)
    /\ ~EnCola(pendientes, c) => pcE[c] # "conectado"
    /\ \/ EnCola(pendientes, c) \/ EnTurno(c) \/ EnDesafio(c) \/ EnPremio(c)
       \/ Avisado(c) \/ Nada(c)

\* Blocked, with hiloBlock or with hiloDeadlock.
Bloqueado(c) == EnCola(colaBlock, c) \/ entB = c \/ EnManos(c)

\* The message the map keeps of those that are waiting for it.
Guardado(c) ==
    /\ EnCola(colaReady, c) =>
          msj[c].accion \in {"UBICACION_POKENEST"} \cup
              (IF algoritmo = "RR" THEN {"MOVERSE"} ELSE {"UBICACION_POKENEST_OTORGADA"})
    /\ Bloqueado(c) => msj[c].accion \in {"CAPTURAR_POKEMON", "BATALLA_POKEMON"}

\* quienSigue goes where the algorithm says.
Algoritmo ==
    /\ algP = algoritmo
    /\ pcP = "otorga" => algoritmo = "RR"
    /\ pcP \in {"atiende", "cercano"} => algoritmo = "SRDF"

Conversacion == \A c \in Conexiones : Charla(c) /\ Guardado(c)
-----------------------------------------------------------------------------
(***************************************************************************)
(* One message read, one or two sent.                                      *)
(***************************************************************************)
LEMMA TomarUno ==
    ASSUME TipoRed, NEW c \in Conexiones, NEW m \in Proximo(c), Tomar(c),
           aMapa[c] # <<>> => Len(aMapa[c]) = 1
    PROVE  /\ Len(aMapa[c]) = 1 /\ m = aMapa[c][1] /\ aMapa'[c] = <<>>
           /\ \A d \in Conexiones \ {c} : aMapa'[d] = aMapa[d]
<1>1. aMapa[c] \in Seq(Mensaje) /\ aMapa[c] # <<>> /\ m = Head(aMapa[c])
  BY DEF TipoRed, Proximo, HayMensaje
<1>2. Tail(aMapa[c]) = <<>>
  <2>1. Len(aMapa[c]) = 1
    BY <1>1
  <2>2. Tail(aMapa[c]) \in Seq(Mensaje) /\ Len(Tail(aMapa[c])) = 0
    BY <1>1, <2>1, HeadTailProperties
  <2> QED
    BY <2>2, EmptySeq
<1>3. Head(aMapa[c]) = aMapa[c][1]
  BY <1>1
<1> QED
  BY <1>1, <1>2, <1>3 DEF TipoRed, Tomar

LEMMA EnviarUno ==
    ASSUME TipoRed, NEW c \in Conexiones, NEW m \in MsjGuardado, Enviar(c, <<m>>),
           aEntrenador[c] = <<>>
    PROVE  /\ IF Abierta(c) THEN Len(aEntrenador'[c]) = 1 /\ aEntrenador'[c][1] = m
                            ELSE aEntrenador'[c] = <<>>
           /\ \A d \in Conexiones \ {c} : aEntrenador'[d] = aEntrenador[d]
<1>1. <<>> \o <<m>> = <<m>>
  OBVIOUS
<1> QED
  BY <1>1 DEF TipoRed, Enviar

\* A delivery to a trainer that was told nothing else.
LEMMA EntregarDos ==
    ASSUME TipoRed, NEW c \in Conexiones \ destruidos, NEW m \in MsjGuardado, Entregar(c, m),
           aEntrenador[c] = <<>>
    PROVE  /\ IF Abierta(c)
                THEN /\ Len(aEntrenador'[c]) = 2 /\ aEntrenador'[c][1] = m
                     /\ aEntrenador'[c][2].accion = "POKEMON"
                ELSE aEntrenador'[c] = <<>>
           /\ \A d \in Conexiones \ {c} : aEntrenador'[d] = aEntrenador[d]
           /\ fallo' \notin {"trama", "liberada"} \/ fallo' = fallo
<1> DEFINE t == TramaPokemon(m.pokemon)
<1>1. t.accion = "POKEMON"
  BY DEF TramaPokemon
<1>2. /\ <<>> \o <<m, t>> = <<m, t>> /\ Len(<<m, t>>) = 2
      /\ <<m, t>>[1] = m /\ <<m, t>>[2] = t
  OBVIOUS
<1>3. Enviar(c, <<m, t>>)
  BY DEF Entregar
<1>4. IF Abierta(c) THEN aEntrenador'[c] = <<m, t>> ELSE aEntrenador'[c] = <<>>
  BY <1>2, <1>3 DEF TipoRed, Enviar
<1>5. \A d \in Conexiones \ {c} : aEntrenador'[d] = aEntrenador[d]
  BY <1>3 DEF TipoRed, Enviar
<1>6. fallo' \notin {"trama", "liberada"} \/ fallo' = fallo
  BY DEF Entregar, UsarMsj
<1> HIDE DEF t
<1> QED
  BY <1>1, <1>2, <1>4, <1>5, <1>6
-----------------------------------------------------------------------------
(***************************************************************************)
(* A step that says nothing to a trainer, and leaves it where it was.      *)
(***************************************************************************)
Ajeno(c) ==
    /\ aMapa'[c] = aMapa[c] /\ aEntrenador'[c] = aEntrenador[c] /\ pcE'[c] = pcE[c]
    /\ msj'[c] = msj[c] /\ algoritmo' = algoritmo
    /\ EnCola(pendientes', c) <=> EnCola(pendientes, c)
    /\ EnCola(colaReady', c) <=> EnCola(colaReady, c)
    /\ entP' = c <=> entP = c
    /\ EnDesafio(c)' <=> EnDesafio(c)
    /\ EnPremio(c)' <=> EnPremio(c)
    /\ Avisado(c)' <=> Avisado(c)
    /\ Bloqueado(c)' => Bloqueado(c)

LEMMA AjenoVale ==
    ASSUME NEW c \in Conexiones, Charla(c), Guardado(c), Ajeno(c)
    PROVE  Charla(c)' /\ Guardado(c)'
<1>1. Nada(c)' <=> Nada(c)
  BY DEF Ajeno, Nada
<1>2. SeFue(c)' <=> SeFue(c)
  BY <1>1 DEF Ajeno, SeFue, Abierta
<1>3. \A K : (Ida(c, K)' <=> Ida(c, K)) /\ (Vuelta(c, K)' <=> Vuelta(c, K))
  BY DEF Ajeno, Ida, Vuelta
<1>4. /\ Saludo(c)' <=> Saludo(c)
      /\ Turno(c)' <=> Turno(c)
      /\ Desafio(c)' <=> Desafio(c)
      /\ Premio(c)' <=> Premio(c)
      /\ Aviso(c)' <=> Aviso(c)
  BY <1>1, <1>2, <1>3 DEF Ajeno, Saludo, Turno, Desafio, Premio, Aviso, Entregado
<1>5. EnTurno(c)' <=> EnTurno(c)
  BY DEF Ajeno, EnTurno
<1>6. Charla(c)'
  BY <1>1, <1>4, <1>5 DEF Ajeno, Charla
<1>7. Guardado(c)'
  BY DEF Ajeno, Guardado
<1> QED
  BY <1>6, <1>7

\* One step, one trainer.
LEMMA UnoSolo ==
    ASSUME Conversacion, NEW h \in Conexiones, Charla(h)', Guardado(h)',
           \A c \in Conexiones \ {h} : Ajeno(c)
    PROVE  Conversacion'
  BY AjenoVale DEF Conversacion

LEMMA Ninguno ==
    ASSUME Conversacion, \A c \in Conexiones : Ajeno(c)
    PROVE  Conversacion'
  BY AjenoVale DEF Conversacion

\* A step that touches no queue, no message and no connection.
callados == <<lugares, aMapa, aEntrenador, pcE, msj, algoritmo>>

LEMMA Callado ==
    ASSUME Conversacion, UNCHANGED callados,
           pcB' = "recibe" <=> pcB = "recibe",
           pcD' = "elige" <=> pcD = "elige",
           pcD' \in {"saca", "espera"} <=> pcD \in {"saca", "espera"}
    PROVE  Conversacion'
<1>1. ASSUME NEW c \in Conexiones PROVE Ajeno(c)
  BY DEF Ajeno, callados, lugares, EnDesafio, EnPremio, Avisado, Bloqueado, EnManos
<1> QED
  BY <1>1, Ninguno
-----------------------------------------------------------------------------
(***************************************************************************)
(* Nobody is in two of the places.                                         *)
(***************************************************************************)
UnPapel(c) ==
    /\ EnCola(pendientes, c) =>
          ~EnTurno(c) /\ ~EnDesafio(c) /\ ~EnPremio(c) /\ ~Avisado(c)
    /\ EnTurno(c) => ~EnDesafio(c) /\ ~EnPremio(c) /\ ~Avisado(c) /\ ~Bloqueado(c)
    /\ EnDesafio(c) => ~EnPremio(c) /\ ~Avisado(c) /\ Bloqueado(c)
    /\ EnPremio(c) => ~Avisado(c) /\ Bloqueado(c)
    /\ Bloqueado(c) => ~EnCola(pendientes, c) /\ ~EnCola(colaReady, c) /\ entP # c
    /\ EnCola(colaReady, c) =>
          ~EnCola(pendientes, c) /\ ~EnDesafio(c) /\ ~EnPremio(c) /\ ~Avisado(c)
    /\ EnCola(colaBlock, c) /\ ~EnManos(c) => ~EnDesafio(c) /\ ~EnPremio(c) /\ ~Avisado(c)
    /\ Avisado(c) => pcE[c] # "fuera" /\ entB # c /\ ~Bloqueado(c)
    /\ pcE[c] = "fuera" => ~Bloqueado(c) /\ ~EnCola(colaReady, c) /\ entP # c

Papeles == \A c \in Conexiones : UnPapel(c)

LEMMA PapelesVale == Tipos /\ Lugares => Papeles
<1> SUFFICES ASSUME Tipos, Lugares, NEW c \in Conexiones PROVE UnPapel(c)
  BY DEF Papeles
<1> USE DEF Tipos, TypeOK
<1>1. EnDesafio(c) => EnCola(pelea, c)
  BY ColaTail DEF EnDesafio, TipoDeadlock, Punteros, PunteroDeadlock, Lugares, UnaVez
<1>2. EnPremio(c) => entB = c \/ EnCola(peleadores, c)
  BY ColaTail DEF EnPremio, TipoDeadlock, Punteros, PunteroDeadlock, Lugares, UnaVez
<1>3. Separado(c) /\ SinEmpezar(c) /\ Derrotado(c)
  BY DEF Lugares
<1>4. EnTurno(c) => entP = c \/ EnCola(colaReady, c)
  BY DEF EnTurno
<1> QED
  BY <1>1, <1>2, <1>3, <1>4 DEF UnPapel, Separado, SinEmpezar, Derrotado, EnManos, Avisado,
     Bloqueado

LEMMA PapelesDespues == Tipos' /\ Lugares' => Papeles'
  BY PapelesVale, PTL

\* A trainer begins a visit when the one before it ended with a death, of which it was
\* told by hiloDeadlock, who had destroyed its dictionary.
Visitas ==
    /\ entD # Nadie => entD \in destruidos
    /\ \A c, d \in Conexiones :
          Simbolo(c) = Simbolo(d) /\ Vida(c) < Vida(d) /\ pcE[d] # "fuera"
            => pcE[c] = "muerto"
    /\ \A c \in Conexiones : pcE[c] = "muerto" => c \in destruidos

\* So no two visits of colaReady show the same symbol, and popEntrenador takes out one.
LEMMA SinTocayos ==
    ASSUME Tipos, Lugares, Visitas, NEW i \in 1 .. Len(colaReady),
           NEW q \in SinEntrenador(colaReady, Simbolo(colaReady[i]))
    PROVE  /\ q \in Seq(Conexiones) /\ colaReady[i] \in Conexiones
           /\ \A c \in Conexiones : EnCola(q, c) <=> EnCola(colaReady, c) /\ c # colaReady[i]
<1> DEFINE h == colaReady[i]
<1>1. colaReady \in Seq(Conexiones)
  BY DEF Tipos, TypeOK, TipoColas
<1>2. /\ q \in Seq(Conexiones) /\ h \in Conexiones /\ EnCola(colaReady, h)
      /\ \A c : EnCola(q, c) => EnCola(colaReady, c) /\ c # h
  BY <1>1, SinUno
<1>3. ASSUME NEW c \in Conexiones, EnCola(colaReady, c), Simbolo(c) = Simbolo(h)
      PROVE  c = h
  <2>1. pcE[c] \notin {"fuera", "muerto"} /\ pcE[h] \notin {"fuera", "muerto"}
    BY <1>2, <1>3 DEF Lugares, SinEmpezar, Derrotado, Visitas
  <2>2. ~(Vida(c) < Vida(h)) /\ ~(Vida(h) < Vida(c))
    BY <1>2, <1>3, <2>1 DEF Visitas
  <2>3. Vida(c) \in Int /\ Vida(h) \in Int
    BY <1>2, ConstantesAssumption DEF Conexiones, Vida
  <2>4. Vida(c) = Vida(h)
    BY <2>2, <2>3
  <2> QED
    BY <1>2, <1>3, <2>4 DEF Conexiones, Simbolo, Vida
<1> QED
  BY <1>1, <1>2, <1>3, ColaSinEntrenador

Sabido == Tipos /\ Lugares /\ Papeles /\ Conversacion /\ Algoritmo /\ Visitas
-----------------------------------------------------------------------------
(***************************************************************************)
(* hiloPlanificador.                                                       *)
(***************************************************************************)
LEMMA PlanificarCharla ==
    ASSUME Sabido, Papeles', Lugares', Planificar
    PROVE  Conversacion'
<1> USE DEF Sabido, Tipos, TypeOK
<1> Nadie \notin Conexiones
  BY ConstantesAssumption
<1> DEFINE otros == <<pendientes, colaBlock, entB, entD, bloqueados, pelea, peleadores,
                      destruidos, pcD, pcB, pcE, algoritmo>>
<1>1. CASE P_Chequea \/ P_Duerme \/ P_AvisaVacio \/ P_SenalVacio \/ P_SenalBlock
  <2>1. /\ UNCHANGED <<callados, pcD>>
        /\ pcB' = "recibe" <=> pcB = "recibe"
    BY <1>1 DEF P_Chequea, P_Duerme, P_AvisaVacio, P_SenalVacio, P_SenalBlock, EnP,
       SenalBlockEmpty, SenalBlock, callados, lugares, recursos, colas, red, block, deadlock,
       procesos, info, config
  <2> QED
    BY <2>1, Callado
<1>2. CASE P_Otorga
  <2>1. PICK h \in Conexiones :
          /\ pcP = "otorga" /\ entP' = h /\ UNCHANGED <<otros, aMapa>>
          /\ msj' = IF msj[h].accion = "UBICACION_POKENEST"
                      THEN [msj EXCEPT ![h].accion = "UBICACION_POKENEST_OTORGADA"]
                      ELSE msj
          /\ Enviar(h, <<msj[h]>>)
          /\ EnCola(colaReady, h) /\ ~EnCola(colaReady', h)
          /\ \A c : EnCola(colaReady, c) <=> EnCola(colaReady', c) \/ c = h
    <3>1. colaReady # <<>> /\ colaReady' = Tail(colaReady)
      BY <1>2 DEF P_Otorga, EnP, Punteros, PunteroPlanificador
    <3>2. /\ Head(colaReady) \in Conexiones /\ EnCola(colaReady, Head(colaReady))
          /\ ~EnCola(colaReady', Head(colaReady))
          /\ \A c : EnCola(colaReady, c) <=> EnCola(colaReady', c) \/ c = Head(colaReady)
      BY <3>1, ColaTail DEF TipoColas, Lugares, UnaVez
    <3> QED
      BY <1>2, <3>1, <3>2 DEF P_Otorga, EnP, recursos, block, deadlock, procesos, config
  <2>2. entP = Nadie
    BY <2>1 DEF Lugares, Manos
  <2>3. algoritmo = "RR" /\ msj[h].accion \in {"UBICACION_POKENEST", "MOVERSE"}
    BY <2>1 DEF Algoritmo, Conversacion, Guardado
  <2>4. Nada(h) /\ pcE[h] # "conectado"
    BY <2>1, <2>2, <2>3 DEF Papeles, UnPapel, Conversacion, Charla, EnTurno
  <2>5. /\ IF Abierta(h) THEN Len(aEntrenador'[h]) = 1 /\ aEntrenador'[h][1] = msj[h]
                         ELSE aEntrenador'[h] = <<>>
        /\ \A d \in Conexiones \ {h} : aEntrenador'[d] = aEntrenador[d]
    BY <2>1, <2>4, EnviarUno DEF TipoInfo, Nada
  <2>6. Turno(h)'
    BY <2>1, <2>3, <2>4, <2>5 DEF Turno, Ida, SeFue, Nada, Abierta
  <2>7. Charla(h)'
    BY <2>1, <2>4, <2>6 DEF Papeles, UnPapel, Charla, EnTurno
  <2>8. Guardado(h)'
    BY <2>1 DEF Papeles, UnPapel, Guardado
  <2>9. ASSUME NEW c \in Conexiones \ {h} PROVE Ajeno(c)
    BY <2>1, <2>2, <2>5 DEF Ajeno, EnDesafio, EnPremio, Avisado, Bloqueado, EnManos, TipoInfo
  <2> QED
    BY <2>7, <2>8, <2>9, UnoSolo
<1>3. CASE P_Atiende /\ UNCHANGED <<msj, aEntrenador, colaReady>>
  <2>1. UNCHANGED <<callados, pcD, pcB>>
    BY <1>3 DEF P_Atiende, callados, lugares, recursos, block, deadlock, procesos, config
  <2> QED
    BY <2>1, Callado
<1>4. CASE P_Atiende /\ ~UNCHANGED <<msj, aEntrenador, colaReady>>
  <2>1. pcP = "atiende" /\ UNCHANGED <<otros, aMapa, entP>>
    BY <1>4 DEF P_Atiende, EnP, recursos, block, deadlock, procesos, config
  <2>2. PICK i \in PidenUbicacion :
          /\ Enviar(colaReady[i], <<msj[colaReady[i]]>>)
          /\ msj' = [msj EXCEPT ![colaReady[i]].accion = "UBICACION_POKENEST_OTORGADA"]
          /\ \E q \in SinEntrenador(colaReady, Simbolo(colaReady[i])) :
                colaReady' = Append(q, colaReady[i])
    BY <1>4 DEF P_Atiende, Primero
  <2>3. PICK h \in Conexiones :
          /\ Enviar(h, <<msj[h]>>) /\ EnCola(colaReady, h)
          /\ msj[h].accion = "UBICACION_POKENEST"
          /\ msj' = [msj EXCEPT ![h].accion = "UBICACION_POKENEST_OTORGADA"]
          /\ \A c \in Conexiones : EnCola(colaReady', c) <=> EnCola(colaReady, c)
    <3>1. i \in 1 .. Len(colaReady) /\ msj[colaReady[i]].accion = "UBICACION_POKENEST"
      BY <2>2 DEF PidenUbicacion
    <3>2. PICK q \in SinEntrenador(colaReady, Simbolo(colaReady[i])) :
             colaReady' = Append(q, colaReady[i])
      BY <2>2
    <3>3. /\ q \in Seq(Conexiones) /\ colaReady[i] \in Conexiones
          /\ \A c \in Conexiones : EnCola(q, c) <=> EnCola(colaReady, c) /\ c # colaReady[i]
      BY <3>1, SinTocayos
    <3>4. EnCola(colaReady, colaReady[i])
      BY <3>1 DEF EnCola
    <3>5. \A c \in Conexiones : EnCola(colaReady', c) <=> EnCola(colaReady, c)
      BY <3>2, <3>3, <3>4, ColaAppend
    <3> QED
      BY <2>2, <3>1, <3>3, <3>4, <3>5
  <2>4. algoritmo = "SRDF" /\ entP = Nadie
    BY <2>1 DEF Algoritmo, Lugares, Manos
  <2>5. Nada(h) /\ pcE[h] # "conectado"
    BY <2>3, <2>4 DEF Papeles, UnPapel, Conversacion, Charla, EnTurno
  <2>6. /\ IF Abierta(h) THEN Len(aEntrenador'[h]) = 1 /\ aEntrenador'[h][1] = msj[h]
                         ELSE aEntrenador'[h] = <<>>
        /\ \A d \in Conexiones \ {h} : aEntrenador'[d] = aEntrenador[d]
    BY <2>3, <2>5, EnviarUno DEF TipoInfo, Nada
  <2>7. Turno(h)'
    BY <2>1, <2>3, <2>5, <2>6 DEF Turno, Ida, SeFue, Nada, Abierta
  <2>8. msj'[h].accion = "UBICACION_POKENEST_OTORGADA"
    BY <2>3 DEF TipoInfo, MsjGuardado
  <2>9. Charla(h)'
    BY <2>1, <2>3, <2>5, <2>7, <2>8 DEF Papeles, UnPapel, Charla, EnTurno
  <2>10. Guardado(h)'
    BY <2>1, <2>3, <2>4, <2>8 DEF Papeles, UnPapel, Guardado
  <2>11. ASSUME NEW c \in Conexiones \ {h} PROVE Ajeno(c)
    BY <2>1, <2>3, <2>6 DEF Ajeno, EnDesafio, EnPremio, Avisado, Bloqueado, EnManos, TipoInfo
  <2> QED
    BY <2>9, <2>10, <2>11, UnoSolo
<1>5. CASE P_Cercano /\ fallo' = "nulo" /\ UNCHANGED <<colaReady, entP, pcP>>
  <2>1. UNCHANGED <<callados, pcD, pcB>>
    BY <1>5 DEF P_Cercano, callados, lugares, recursos, red, info, block, deadlock, procesos,
       config
  <2> QED
    BY <2>1, Callado
\* It waited in colaReady with its answer, and its turn goes on.
<1>6. CASE P_Cercano /\ ~(fallo' = "nulo" /\ UNCHANGED <<colaReady, entP, pcP>>)
  <2>1. /\ pcP = "cercano" /\ UNCHANGED <<otros, aMapa, aEntrenador, msj>>
    BY <1>6 DEF P_Cercano, EnP, recursos, red, info, block, deadlock, procesos, config
  <2>2. PICK i \in Candidatos :
          /\ colaReady' \in SinEntrenador(colaReady, Simbolo(colaReady[i]))
          /\ entP' = colaReady[i]
    BY <1>6 DEF P_Cercano, Primero, MasCercanos
  <2>3. PICK h \in Conexiones :
          /\ entP' = h /\ EnCola(colaReady, h) /\ msj[h].accion # "UBICACION_POKENEST"
          /\ \A c \in Conexiones : EnCola(colaReady', c) <=> EnCola(colaReady, c) /\ c # h
    <3>1. i \in 1 .. Len(colaReady) /\ msj[colaReady[i]].accion # "UBICACION_POKENEST"
      BY <2>2 DEF Candidatos, PidenUbicacion
    <3>2. EnCola(colaReady, colaReady[i])
      BY <3>1 DEF EnCola
    <3> QED
      BY <2>2, <3>1, <3>2, SinTocayos
  <2>4. algoritmo = "SRDF" /\ entP = Nadie
    BY <2>1 DEF Algoritmo, Lugares, Manos
  <2>5. msj[h].accion = "UBICACION_POKENEST_OTORGADA"
    BY <2>3, <2>4 DEF Conversacion, Guardado
  <2>6. EnTurno(h) /\ Turno(h) /\ pcE[h] # "conectado"
    BY <2>3, <2>5 DEF Papeles, UnPapel, Conversacion, Charla, EnTurno
  <2>7. Turno(h)'
    BY <2>1, <2>6 DEF Turno, Ida, Vuelta, SeFue, Nada, Abierta
  <2>8. Charla(h)'
    BY <2>1, <2>3, <2>6, <2>7 DEF Papeles, UnPapel, Charla, EnTurno
  <2>9. Guardado(h)'
    BY <2>3 DEF Papeles, UnPapel, Guardado
  <2>10. ASSUME NEW c \in Conexiones \ {h} PROVE Ajeno(c)
    BY <2>1, <2>3, <2>4 DEF Ajeno, EnDesafio, EnPremio, Avisado, Bloqueado, EnManos
  <2> QED
    BY <2>8, <2>9, <2>10, UnoSolo
\* Its answer is MOVERSE: it is sent back, or withheld in colaReady.
<1>7. CASE P_RecibeMoverse
  <2>1. PICK h \in Conexiones, m \in Proximo(entP) :
          /\ pcP = "recibe" /\ entP = h /\ Tomar(h) /\ UNCHANGED otros
          /\ m.accion \notin {"CAPTURAR_POKEMON", "OBJETIVO_CUMPLIDO"}
          /\ IF SigueTurno(h)
               THEN /\ Enviar(h, <<m>>) /\ UNCHANGED <<colaReady, entP>>
                    /\ msj' = [msj EXCEPT ![h] = Con(m, "LIBERADO")]
               ELSE /\ msj' = [msj EXCEPT ![h] = m] /\ colaReady' = Append(colaReady, h)
                    /\ entP' = Nadie /\ UNCHANGED aEntrenador
    BY <1>7 DEF P_RecibeMoverse, EnP, Punteros, PunteroPlanificador, recursos, block, deadlock,
       procesos, config
  <2>2. m \in Proximo(h) /\ m \in MsjGuardado /\ aMapa[h] # <<>>
    BY <2>1, ProximoTipo
  <2>3. Vuelta(h, {"MOVERSE", "CAPTURAR_POKEMON"})
    BY <2>1, <2>2 DEF Conversacion, Charla, EnTurno, Turno, Ida, SeFue, Nada
  <2>4. /\ m = aMapa[h][1] /\ aMapa'[h] = <<>>
        /\ \A d \in Conexiones \ {h} : aMapa'[d] = aMapa[d]
    BY <2>1, <2>2, <2>3, TomarUno DEF Vuelta
  <2>5. m.accion = "MOVERSE" /\ aEntrenador[h] = <<>> /\ pcE[h] # "conectado"
    BY <2>1, <2>3, <2>4 DEF Vuelta
  <2>6. CASE SigueTurno(h)
    <3>1. /\ IF Abierta(h) THEN Len(aEntrenador'[h]) = 1 /\ aEntrenador'[h][1] = m
                           ELSE aEntrenador'[h] = <<>>
          /\ \A d \in Conexiones \ {h} : aEntrenador'[d] = aEntrenador[d]
      BY <2>1, <2>2, <2>5, <2>6, EnviarUno
    <3>2. Turno(h)'
      BY <2>1, <2>4, <2>5, <3>1 DEF Turno, Ida, SeFue, Nada, Abierta
    <3>3. Charla(h)'
      BY <2>1, <2>5, <2>6, <3>2 DEF Papeles, UnPapel, Charla, EnTurno
    <3>5. ~EnCola(colaReady, h)
      BY <2>1 DEF Lugares, Separado
    <3>6. ASSUME NEW c \in Conexiones \ {h} PROVE Ajeno(c)
      BY <2>1, <2>4, <2>6, <3>1 DEF Ajeno, EnDesafio, EnPremio, Avisado, Bloqueado, EnManos,
         TipoInfo
    <3>7. Guardado(h)'
      BY <2>1, <2>6, <3>5 DEF Guardado, Papeles, UnPapel, EnTurno
    <3> QED
      BY <3>3, <3>6, <3>7, UnoSolo
  <2>7. CASE ~SigueTurno(h)
    <3>1. algoritmo = "RR"
      <4>1. algoritmo # "SRDF"
        BY <2>7 DEF SigueTurno
      <4> QED
        BY <4>1, ConstantesAssumption DEF TipoProceso
    <3>2. \A c : EnCola(colaReady', c) <=> EnCola(colaReady, c) \/ c = h
      <4>1. colaReady' = Append(colaReady, h)
        BY <2>1, <2>7
      <4> QED
        BY <4>1, ColaAppend DEF TipoColas
    <3>3. Nada(h)' /\ pcE'[h] # "conectado"
      BY <2>1, <2>4, <2>5, <2>7 DEF Nada
    <3>4. msj'[h] = m
      BY <2>1, <2>7 DEF TipoInfo
    <3>5. Charla(h)' /\ Guardado(h)'
      BY <2>1, <2>5, <2>7, <3>1, <3>2, <3>3, <3>4
      DEF Papeles, UnPapel, Charla, Guardado, EnTurno
    <3>6. ASSUME NEW c \in Conexiones \ {h} PROVE Ajeno(c)
      BY <2>1, <2>4, <2>7, <3>2 DEF Ajeno, EnDesafio, EnPremio, Avisado, Bloqueado, EnManos,
         TipoInfo
    <3> QED
      BY <3>5, <3>6, UnoSolo
  <2> QED
    BY <2>6, <2>7
<1>8. CASE P_RecibeCapturar
  <2>1. PICK h \in Conexiones, m \in Proximo(entP) :
          /\ pcP = "recibe" /\ entP = h /\ Tomar(h) /\ entP' = Nadie
          /\ UNCHANGED <<pendientes, colaReady, entB, entD, bloqueados, pelea, peleadores,
                      destruidos, pcD, pcB, pcE, algoritmo, aEntrenador>>
          /\ m.accion = "CAPTURAR_POKEMON" /\ msj' = [msj EXCEPT ![h] = m]
          /\ colaBlock' = Append(colaBlock, h)
    BY <1>8 DEF P_RecibeCapturar, EnP, Punteros, PunteroPlanificador, recursos, block, deadlock,
       procesos, config
  <2>2. m \in Proximo(h) /\ aMapa[h] # <<>>
    BY <2>1, ProximoTipo
  <2>3. Vuelta(h, {"MOVERSE", "CAPTURAR_POKEMON"})
    BY <2>1, <2>2 DEF Conversacion, Charla, EnTurno, Turno, Ida, SeFue, Nada
  <2>4. aMapa'[h] = <<>> /\ \A d \in Conexiones \ {h} : aMapa'[d] = aMapa[d]
    BY <2>1, <2>2, <2>3, TomarUno DEF Vuelta
  <2>5. \A c : EnCola(colaBlock', c) <=> EnCola(colaBlock, c) \/ c = h
    BY <2>1, ColaAppend DEF TipoColas
  <2>6. Nada(h)' /\ pcE'[h] # "conectado" /\ msj'[h] = m
    BY <2>1, <2>3, <2>4 DEF Nada, Vuelta, TipoInfo
  <2>7. Charla(h)' /\ Guardado(h)'
    <3>1. /\ ~EnCola(pendientes, h) /\ ~EnDesafio(h) /\ ~EnPremio(h) /\ ~Avisado(h)
          /\ ~EnCola(colaReady, h) /\ entB # h
      BY <2>1 DEF Papeles, UnPapel, EnTurno, Lugares, Separado
    <3>2. /\ ~EnCola(pendientes', h) /\ ~EnDesafio(h)' /\ ~EnPremio(h)' /\ ~Avisado(h)'
          /\ ~EnCola(colaReady', h) /\ ~EnTurno(h)'
      BY <2>1, <3>1 DEF EnTurno, EnDesafio, EnPremio, Avisado
    <3> QED
      BY <2>1, <2>6, <3>2 DEF Charla, Guardado
  <2>8. ASSUME NEW c \in Conexiones \ {h} PROVE Ajeno(c)
    BY <2>1, <2>4, <2>5 DEF Ajeno, EnDesafio, EnPremio, Avisado, Bloqueado, EnManos, TipoInfo
  <2> QED
    BY <2>7, <2>8, UnoSolo
\* It left in its turn: it cannot have reached its goals there.
<1>9. CASE P_RecibeFin
  <2>1. PICK h \in Conexiones :
          /\ pcP = "recibe" /\ entP = h /\ entP' = Nadie /\ UNCHANGED <<otros, colaReady>>
          /\ UNCHANGED aEntrenador
          /\ \/ Cerrada(h) /\ GuardarNull(h) /\ UNCHANGED aMapa
             \/ \E m \in Proximo(h) :
                   Tomar(h) /\ m.accion = "OBJETIVO_CUMPLIDO" /\ msj' = [msj EXCEPT ![h] = m]
    <3>1. entP \in Conexiones
      BY <1>9 DEF P_RecibeFin, EnP, Punteros, PunteroPlanificador
    <3>2. /\ pcP = "recibe" /\ entP' = Nadie /\ UNCHANGED <<otros, colaReady, aEntrenador>>
      BY <1>9 DEF P_RecibeFin, EnP, recursos, colas, block, deadlock, procesos, config
    <3> QED
      BY <1>9, <3>1, <3>2 DEF P_RecibeFin
  <2>2. Turno(h) /\ pcE[h] # "conectado"
    BY <2>1 DEF Papeles, UnPapel, Conversacion, Charla, EnTurno
  <2>3. ASSUME NEW m \in Proximo(h), Tomar(h), m.accion = "OBJETIVO_CUMPLIDO" PROVE FALSE
    <3>1. Vuelta(h, {"MOVERSE", "CAPTURAR_POKEMON"})
      BY <2>2, <2>3, ProximoTipo DEF Turno, Ida, SeFue, Nada
    <3> QED
      BY <2>3, <3>1, TomarUno DEF Vuelta
  <2>4. Cerrada(h) /\ UNCHANGED aMapa /\ \A c \in Conexiones \ {h} : msj'[c] = msj[c]
    BY <2>1, <2>3 DEF GuardarNull, TipoInfo
  <2>5. Nada(h)
    BY <2>2, <2>4 DEF Cerrada, Turno, Ida, Vuelta, SeFue, Abierta
  <2>6. ~EnCola(colaReady, h) /\ ~Bloqueado(h)
    BY <2>1 DEF Lugares, Separado, Papeles, UnPapel, EnTurno
  <2>7. Charla(h)' /\ Guardado(h)'
    BY <2>1, <2>2, <2>4, <2>5, <2>6 DEF Papeles, UnPapel, Charla, Guardado, Nada, Bloqueado,
       EnManos, EnTurno, EnDesafio, EnPremio, Avisado
  <2>8. ASSUME NEW c \in Conexiones \ {h} PROVE Ajeno(c)
    BY <2>1, <2>4 DEF Ajeno, EnDesafio, EnPremio, Avisado, Bloqueado, EnManos
  <2> QED
    BY <2>7, <2>8, UnoSolo
<1> QED
  BY <1>1, <1>2, <1>3, <1>4, <1>5, <1>6, <1>7, <1>8, <1>9 DEF Planificar

(***************************************************************************)
(* hiloBlock.                                                              *)
(***************************************************************************)
LEMMA BloquearCharla ==
    ASSUME Sabido, Papeles', PeleaResuelta', Bloquear
    PROVE  Conversacion'
<1> USE DEF Sabido, Tipos, TypeOK
<1> Nadie \notin Conexiones
  BY ConstantesAssumption
<1> DEFINE otros == <<pendientes, entP, entD, bloqueados, pelea, peleadores, destruidos, pcD,
                      pcE, algoritmo>>
<1>1. CASE \/ B_Chequea \/ B_DuermeVacio \/ B_Pregunta \/ B_DuermeBlock \/ B_Despierta
           \/ B_AvisaReady \/ B_SenalReady \/ (B_Lock /\ UNCHANGED <<colaBlock, entB, pcB>>)
  <2>1. UNCHANGED <<callados, pcD>> /\ (pcB' = "recibe" <=> pcB = "recibe")
    BY <1>1 DEF B_Chequea, B_DuermeVacio, B_Pregunta, B_DuermeBlock, B_Despierta,
       B_AvisaReady, B_SenalReady, B_Lock, EnB, SenalPlanificador, callados, lugares, recursos,
       colas, red, planificador, deadlock, procesos, info, config
  <2> QED
    BY <2>1, Callado
<1>2. CASE B_Lock /\ ~UNCHANGED <<colaBlock, entB, pcB>>
  <2>1. /\ pcB = "lock" /\ pcB' = "pokemon" /\ colaBlock # <<>>
        /\ entB' = Head(colaBlock) /\ colaBlock' = Tail(colaBlock)
        /\ UNCHANGED <<otros, colaReady, aMapa, aEntrenador, msj>>
    BY <1>2 DEF B_Lock, EnB, recursos, red, info, planificador, deadlock, procesos, config
  <2>2. /\ entB' \in Conexiones
        /\ \A c : EnCola(colaBlock, c) <=> EnCola(colaBlock', c) \/ c = entB'
    BY <2>1, ColaTail DEF TipoColas
  <2>3. ASSUME NEW c \in Conexiones PROVE Ajeno(c)
    BY <2>1, <2>2 DEF Ajeno, EnDesafio, EnPremio, Avisado, Bloqueado, EnManos
  <2> QED
    BY <2>3, Ninguno
<1>3. CASE B_Rebloquea
  <2>1. /\ pcB = "pokemon" /\ pcB' = "pregunta" /\ entB \in Conexiones /\ entB' = Nadie
        /\ colaBlock' = Append(colaBlock, entB)
        /\ UNCHANGED <<otros, colaReady, aMapa, aEntrenador, msj>>
    BY <1>3 DEF B_Rebloquea, EnB, Punteros, PunteroBlock, recursos, red, planificador, deadlock,
       procesos, config
  <2>2. \A c : EnCola(colaBlock', c) <=> EnCola(colaBlock, c) \/ c = entB
    BY <2>1, ColaAppend DEF TipoColas
  <2>3. ASSUME NEW c \in Conexiones PROVE Ajeno(c)
    BY <2>1, <2>2 DEF Ajeno, EnDesafio, EnPremio, Avisado, Bloqueado, EnManos
  <2> QED
    BY <2>3, Ninguno
\* PeleaResuelta: the message it kept is the one it was blocked for.
<1>4. CASE B_Entrega
  <2>1. PICK h \in Conexiones :
          /\ pcB = "pokemon" /\ pcB' = "recibe" /\ entB = h /\ entB' = h
          /\ Entregar(h, msj[h])
          /\ UNCHANGED <<otros, colaReady, colaBlock, aMapa, msj>>
    BY <1>4 DEF B_Entrega, EnB, Punteros, PunteroBlock, Entregar, colas, info, planificador,
       deadlock, procesos, config
  <2>2. h \notin destruidos
    BY <2>1 DEF Lugares, Derrotado
  <2>3. /\ ~EnCola(pendientes, h) /\ ~EnTurno(h) /\ ~EnDesafio(h) /\ ~EnPremio(h)
        /\ ~Avisado(h) /\ ~EnManos(h)
    <3>1. Bloqueado(h) /\ ~EnManos(h)
      BY <2>1 DEF Bloqueado, Lugares, Separado
    <3>2. EnPremio(h)' /\ (EnPremio(h) => EnCola(peleadores, h))
      BY <2>1, ColaTail DEF EnPremio, TipoDeadlock, Punteros, PunteroDeadlock
    <3>3. EnDesafio(h)' <=> EnDesafio(h)
      BY <2>1 DEF EnDesafio
    <3> QED
      BY <2>1, <2>2, <3>1, <3>2, <3>3 DEF Papeles, UnPapel, EnManos, Avisado
  <2>4. Nada(h) /\ pcE[h] # "conectado" /\ msj[h].accion = "CAPTURAR_POKEMON"
    <3>1. Bloqueado(h)
      BY <2>1 DEF Bloqueado
    <3> QED
      BY <2>1, <2>3, <3>1 DEF Conversacion, Charla, Guardado, PeleaResuelta
  <2>5. /\ IF Abierta(h)
             THEN /\ Len(aEntrenador'[h]) = 2 /\ aEntrenador'[h][1] = msj[h]
                  /\ aEntrenador'[h][2].accion = "POKEMON"
             ELSE aEntrenador'[h] = <<>>
        /\ \A d \in Conexiones \ {h} : aEntrenador'[d] = aEntrenador[d]
    BY <2>1, <2>2, <2>4, EntregarDos DEF TipoInfo, Nada
  <2>6. Premio(h)'
    BY <2>1, <2>4, <2>5 DEF Premio, Entregado, SeFue, Nada, Abierta
  <2>7. Charla(h)' /\ Guardado(h)'
    <3>1. EnPremio(h)' /\ Bloqueado(h)'
      BY <2>1 DEF EnPremio, Bloqueado
    <3> QED
      BY <2>1, <2>4, <2>6, <3>1 DEF Papeles, UnPapel, Charla, Guardado
  <2>8. ASSUME NEW c \in Conexiones \ {h} PROVE Ajeno(c)
    BY <2>1, <2>5 DEF Ajeno, EnDesafio, EnPremio, Avisado, Bloqueado, EnManos
  <2> QED
    BY <2>7, <2>8, UnoSolo
<1>5. CASE B_Recibe \/ B_RecibeFin
  <2>1. PICK h \in Conexiones :
          /\ pcB = "recibe" /\ pcB' # "recibe" /\ entB = h /\ entB' = Nadie
          /\ UNCHANGED <<otros, colaBlock, aEntrenador>>
    BY <1>5 DEF B_Recibe, B_RecibeFin, EnB, Punteros, PunteroBlock, recursos, colas,
       planificador, deadlock, procesos, config
  <2>2. EnPremio(h) /\ Premio(h) /\ pcE[h] # "conectado"
    BY <2>1 DEF EnPremio, Papeles, UnPapel, Conversacion, Charla
  <2>3. /\ ~EnCola(pendientes, h) /\ ~EnTurno(h) /\ ~EnDesafio(h) /\ ~Avisado(h)
        /\ ~EnManos(h) /\ ~EnCola(colaReady, h) /\ ~EnCola(colaBlock, h) /\ entP # h
    BY <2>1, <2>2 DEF Papeles, UnPapel, Lugares, Separado
  <2>4. ~EnPremio(h)' /\ ~EnDesafio(h)' /\ ~Avisado(h)' /\ ~EnManos(h)'
    <3>1. EnPremio(h)' => EnCola(peleadores, h)
      BY <2>1, ColaTail DEF EnPremio, TipoDeadlock, Punteros, PunteroDeadlock
    <3> QED
      BY <2>1, <2>3, <3>1 DEF EnDesafio, Avisado, EnManos
  <2>5. CASE B_Recibe
    <3>1. PICK m \in Proximo(h) :
            /\ Tomar(h) /\ m.accion # "OBJETIVO_CUMPLIDO" /\ msj' = [msj EXCEPT ![h] = m]
            /\ colaReady' = Append(colaReady, h)
      BY <2>1, <2>5 DEF B_Recibe
    <3>2. Vuelta(h, {"UBICACION_POKENEST", "OBJETIVO_CUMPLIDO"})
      BY <2>2, <3>1, ProximoTipo DEF Premio, Entregado, SeFue, Nada
    <3>3. /\ m = aMapa[h][1] /\ aMapa'[h] = <<>>
          /\ \A d \in Conexiones \ {h} : aMapa'[d] = aMapa[d]
      BY <3>1, <3>2, TomarUno DEF Vuelta
    <3>4. msj'[h].accion = "UBICACION_POKENEST" /\ Nada(h)' /\ pcE'[h] # "conectado"
      BY <2>1, <2>2, <3>1, <3>2, <3>3 DEF Vuelta, Nada, TipoInfo
    <3>5. \A c : EnCola(colaReady', c) <=> EnCola(colaReady, c) \/ c = h
      BY <3>1, ColaAppend DEF TipoColas
    <3>6. Charla(h)' /\ Guardado(h)'
      BY <2>1, <2>3, <2>4, <3>4, <3>5 DEF Charla, Guardado, EnTurno, Bloqueado
    <3>7. ASSUME NEW c \in Conexiones \ {h} PROVE Ajeno(c)
      BY <2>1, <3>1, <3>3, <3>5 DEF Ajeno, EnDesafio, EnPremio, Avisado, Bloqueado, EnManos,
         TipoInfo
    <3> QED
      BY <3>6, <3>7, UnoSolo
  <2>6. CASE B_RecibeFin
    <3>1. /\ UNCHANGED colaReady /\ \A c \in Conexiones \ {h} : msj'[c] = msj[c]
          /\ \/ Cerrada(h) /\ UNCHANGED aMapa
             \/ \E m \in Proximo(h) : Tomar(h)
      BY <2>1, <2>6 DEF B_RecibeFin, GuardarNull, TipoInfo, colas
    <3>2. aMapa'[h] = <<>> /\ \A d \in Conexiones \ {h} : aMapa'[d] = aMapa[d]
      <4>1. CASE Cerrada(h) /\ UNCHANGED aMapa
        BY <4>1 DEF Cerrada
      <4>2. ASSUME NEW m \in Proximo(h), Tomar(h)
            PROVE  aMapa'[h] = <<>> /\ \A d \in Conexiones \ {h} : aMapa'[d] = aMapa[d]
        <5>1. aMapa[h] # <<>> => Len(aMapa[h]) = 1
          BY <2>2 DEF Premio, Entregado, Vuelta, SeFue, Nada
        <5> QED
          BY <4>2, <5>1, TomarUno
      <4> QED
        BY <3>1, <4>1, <4>2
    <3>3. aEntrenador[h] = <<>>
      <4>1. aMapa[h] # <<>> \/ ~Abierta(h)
        BY <3>1, ProximoTipo DEF Cerrada
      <4> QED
        BY <2>2, <4>1 DEF Premio, Entregado, Vuelta, SeFue, Nada, Abierta
    <3>4. Charla(h)' /\ Guardado(h)'
      BY <2>1, <2>2, <2>3, <2>4, <3>1, <3>2, <3>3
      DEF Charla, Guardado, EnTurno, Bloqueado, Nada
    <3>5. ASSUME NEW c \in Conexiones \ {h} PROVE Ajeno(c)
      BY <2>1, <3>1, <3>2 DEF Ajeno, EnDesafio, EnPremio, Avisado, Bloqueado, EnManos
    <3> QED
      BY <3>4, <3>5, UnoSolo
  <2> QED
    BY <1>5, <2>5, <2>6
<1> QED
  BY <1>1, <1>2, <1>3, <1>4, <1>5 DEF Bloquear

(***************************************************************************)
(* hiloDeadlock.                                                           *)
(***************************************************************************)
LEMMA InterbloqueoCharla ==
    ASSUME Sabido, Papeles', Lugares', Interbloqueo
    PROVE  Conversacion'
<1> USE DEF Sabido, Tipos, TypeOK
<1> Nadie \notin Conexiones
  BY ConstantesAssumption
<1> DEFINE otros == <<pendientes, colaReady, entP, entB, destruidos, pcE, algoritmo>>
<1>1. CASE \/ D_Chequea \/ D_EsperaNull \/ D_AvisaReady \/ D_SenalReady \/ D_EntregaNull
           \/ D_AvisaVacio \/ D_SenalVacio \/ D_Suelta \/ D_Despierta
  <2>1. /\ UNCHANGED callados
        /\ pcB' = "recibe" <=> pcB = "recibe"
        /\ pcD' = "elige" <=> pcD = "elige"
        /\ pcD' \in {"saca", "espera"} <=> pcD \in {"saca", "espera"}
    BY <1>1 DEF D_Chequea, D_EsperaNull, D_AvisaReady, D_SenalReady, D_EntregaNull,
       D_AvisaVacio, D_SenalVacio, D_Suelta, D_Despierta, EnD, SenalPlanificador,
       SenalBlockEmpty, SenalBlock, callados, lugares, recursos, colas, red, planificador,
       block, deadlock, procesos, info, config
  <2> QED
    BY <2>1, Callado
<1>2. CASE D_Lock
  <2>1. /\ pcD = "lock" /\ pcD' = "calcula" /\ bloqueados' = colaBlock
        /\ UNCHANGED <<otros, colaBlock, entD, pelea, peleadores, pcB, aMapa, aEntrenador, msj>>
    BY <1>2 DEF D_Lock, EnD, recursos, colas, red, planificador, block, procesos, info, config
  <2>2. ASSUME NEW c \in Conexiones PROVE Ajeno(c)
    BY <2>1 DEF Ajeno, EnDesafio, EnPremio, Avisado, Bloqueado, EnManos
  <2> QED
    BY <2>2, Ninguno
<1>3. CASE D_Calcula
  <2>1. /\ pcD = "calcula" /\ pcD' \in {"suelta", "desafia"} /\ bloqueados' = <<>>
        /\ UNCHANGED <<otros, colaBlock, entD, peleadores, pcB, aMapa, aEntrenador, msj>>
    BY <1>3 DEF D_Calcula, EnD, recursos, colas, red, planificador, block, procesos, info,
       config
  <2>2. PICK S \in SUBSET Miembros(bloqueados) : pelea' \in Ordenes(S)
    BY <1>3 DEF D_Calcula, GetDeadlock
  <2>3. \A c : EnCola(pelea', c) <=> c \in S
    BY <2>2, OrdenesUnaVez DEF TipoDeadlock
  <2>4. \A c : EnCola(pelea', c) => EnCola(bloqueados, c)
    BY <2>3 DEF Miembros, EnCola
  <2>5. ASSUME NEW c \in Conexiones PROVE Ajeno(c)
    BY <2>1, <2>4, ColaVacia DEF Ajeno, EnDesafio, EnPremio, Avisado, Bloqueado, EnManos
  <2> QED
    BY <2>5, Ninguno
\* Whoever is to fight is silent, and is asked for its best pokemon.
<1>4. CASE D_Desafia
  <2>1. PICK h \in Conexiones :
          /\ pcD = "desafia" /\ pcD' = "elige" /\ h = Head(pelea) /\ EnCola(pelea, h)
          /\ msj' = [msj EXCEPT ![h].accion = "BATALLA_POKEMON"]
          /\ Enviar(h, <<Con(msj[h], "BATALLA_POKEMON")>>)
          /\ UNCHANGED <<otros, colaBlock, entD, bloqueados, pelea, peleadores, pcB, aMapa>>
    <3>1. Head(pelea) \in Conexiones /\ EnCola(pelea, Head(pelea))
      BY <1>4, ColaTail DEF D_Desafia, EnD, TipoDeadlock, Punteros, PunteroDeadlock
    <3> QED
      BY <1>4, <3>1 DEF D_Desafia, EnD, recursos, colas, planificador, block, procesos, config
  <2>2. Bloqueado(h)
    BY <2>1 DEF Bloqueado, EnManos
  <2>3. /\ ~EnCola(pendientes, h) /\ ~EnTurno(h) /\ ~EnDesafio(h) /\ ~EnPremio(h)
        /\ ~Avisado(h)
    <3>1. h \notin destruidos /\ entB # h
      BY <2>1 DEF Lugares, Derrotado, Separado, EnManos
    <3>2. ~EnTurno(h) /\ ~EnCola(pendientes, h)
      BY <2>2 DEF Papeles, UnPapel
    <3> QED
      BY <2>1, <3>1, <3>2 DEF EnDesafio, EnPremio, Avisado
  <2>4. Nada(h) /\ pcE[h] # "conectado"
    BY <2>3 DEF Conversacion, Charla
  <2>5. Con(msj[h], "BATALLA_POKEMON") \in MsjGuardado
    BY DEF Con, TipoInfo, MsjGuardado, Acciones
  <2>6. /\ IF Abierta(h) THEN /\ Len(aEntrenador'[h]) = 1
                             /\ aEntrenador'[h][1] = Con(msj[h], "BATALLA_POKEMON")
                         ELSE aEntrenador'[h] = <<>>
        /\ \A d \in Conexiones \ {h} : aEntrenador'[d] = aEntrenador[d]
    BY <2>1, <2>4, <2>5, EnviarUno DEF Nada
  <2>7. Con(msj[h], "BATALLA_POKEMON").accion = "BATALLA_POKEMON"
    BY DEF Con, TipoInfo, MsjGuardado
  <2>8. Desafio(h)'
    BY <2>1, <2>4, <2>6, <2>7 DEF Desafio, Ida, SeFue, Nada, Abierta
  <2>9. Charla(h)' /\ Guardado(h)'
    <3>1. EnDesafio(h)' /\ Bloqueado(h)' /\ msj'[h].accion = "BATALLA_POKEMON"
      BY <2>1, <2>2 DEF EnDesafio, Bloqueado, EnManos, TipoInfo, MsjGuardado
    <3> QED
      BY <2>1, <2>4, <2>8, <3>1 DEF Papeles, UnPapel, Charla, Guardado
  <2>10. ASSUME NEW c \in Conexiones \ {h} PROVE Ajeno(c)
    BY <2>1, <2>6 DEF Ajeno, EnDesafio, EnPremio, Avisado, Bloqueado, EnManos, TipoInfo
  <2> QED
    BY <2>9, <2>10, UnoSolo
<1>5. CASE D_Elige
  <2>1. PICK h \in Conexiones :
          /\ pcD = "elige" /\ h = Head(pelea) /\ EnCola(pelea, h)
          /\ pcD' \notin {"elige", "saca", "espera"}
          /\ pelea' = Tail(pelea) /\ peleadores' = Append(peleadores, h)
          /\ \A c : EnCola(pelea, c) <=> EnCola(pelea', c) \/ c = h
          /\ \E m \in Proximo(h) : Tomar(h)
          /\ UNCHANGED <<otros, colaBlock, entD, bloqueados, pcB, aEntrenador, msj>>
    <3>1. pelea # <<>> /\ pelea' = Tail(pelea)
      BY <1>5 DEF D_Elige, EnD, Punteros, PunteroDeadlock
    <3>2. /\ Head(pelea) \in Conexiones /\ EnCola(pelea, Head(pelea))
          /\ \A c : EnCola(pelea, c) <=> EnCola(pelea', c) \/ c = Head(pelea)
      BY <3>1, ColaTail DEF TipoDeadlock, Lugares, UnaVez
    <3> QED
      BY <1>5, <3>1, <3>2 DEF D_Elige, EnD, Siguiente, recursos, colas, planificador, block,
         procesos, info, config
  <2>2. EnDesafio(h) /\ Bloqueado(h)
    BY <2>1 DEF EnDesafio, Bloqueado, EnManos
  <2>3. Desafio(h) /\ pcE[h] # "conectado"
    BY <2>2 DEF Conversacion, Charla, Papeles, UnPapel
  <2>4. aMapa[h] # <<>>
    BY <2>1, ProximoTipo
  <2>5. Vuelta(h, {"POKEMON"})
    BY <2>3, <2>4 DEF Desafio, Ida, SeFue, Nada
  <2>6. aMapa'[h] = <<>> /\ \A d \in Conexiones \ {h} : aMapa'[d] = aMapa[d]
    BY <2>1, <2>5, TomarUno DEF Vuelta
  <2>7. \A c : EnCola(peleadores', c) <=> EnCola(peleadores, c) \/ c = h
    BY <2>1, ColaAppend DEF TipoDeadlock
  <2>8. Charla(h)' /\ Guardado(h)'
    <3>1. /\ ~EnCola(pendientes', h) /\ ~EnTurno(h)' /\ ~EnDesafio(h)' /\ ~EnPremio(h)'
          /\ ~Avisado(h)' /\ ~EnCola(colaReady', h)
      <4>1. ~EnCola(pendientes, h) /\ ~EnCola(colaReady, h) /\ entP # h /\ entB # h
            /\ ~Avisado(h)
        BY <2>1, <2>2 DEF Papeles, UnPapel, Lugares, Separado, EnManos
      <4> QED
        BY <2>1, <4>1 DEF EnTurno, EnDesafio, EnPremio, Avisado
    <3>2. Nada(h)'
      BY <2>1, <2>5, <2>6 DEF Nada, Vuelta
    <3>3. msj'[h].accion \in {"CAPTURAR_POKEMON", "BATALLA_POKEMON"}
      BY <2>1, <2>2 DEF Conversacion, Guardado
    <3> QED
      BY <2>1, <2>3, <3>1, <3>2, <3>3 DEF Charla, Guardado
  <2>9. ASSUME NEW c \in Conexiones \ {h} PROVE Ajeno(c)
    BY <2>1, <2>6, <2>7 DEF Ajeno, EnDesafio, EnPremio, Avisado, Bloqueado, EnManos
  <2> QED
    BY <2>8, <2>9, UnoSolo
\* It left instead of answering.
<1>6. CASE D_EligeNull
  <2>1. PICK h \in Conexiones :
          /\ pcD = "elige" /\ h = Head(pelea) /\ pcD' = "sacaCaido" /\ Cerrada(h)
          /\ UNCHANGED <<otros, colaBlock, entD, bloqueados, pelea, peleadores, pcB, aMapa,
                        aEntrenador, msj>>
    <3>1. Head(pelea) \in Conexiones
      BY <1>6, ColaTail DEF D_EligeNull, EnD, TipoDeadlock, Punteros, PunteroDeadlock
    <3> QED
      BY <1>6, <3>1 DEF D_EligeNull, EnD, recursos, colas, red, planificador, block, procesos,
         info, config
  <2>2. EnDesafio(h) /\ Desafio(h) /\ pcE[h] # "conectado"
    BY <2>1 DEF EnDesafio, Conversacion, Charla, Papeles, UnPapel
  <2>3. Nada(h)
    BY <2>1, <2>2 DEF Cerrada, Desafio, Ida, Vuelta, SeFue, Abierta
  <2>4. Charla(h)' /\ Guardado(h)'
    <3>1. ~EnDesafio(h)' /\ Nada(h)' /\ (EnPremio(h)' <=> EnPremio(h))
          /\ (Avisado(h)' <=> Avisado(h)) /\ (Bloqueado(h)' <=> Bloqueado(h))
          /\ (EnTurno(h)' <=> EnTurno(h))
      BY <2>1, <2>3
      DEF EnDesafio, Nada, EnPremio, Avisado, Bloqueado, EnManos, EnTurno
    <3>2. ~EnPremio(h) /\ ~Avisado(h) /\ ~EnTurno(h) /\ ~EnCola(pendientes, h)
      BY <2>2 DEF Papeles, UnPapel
    <3> QED
      BY <2>1, <2>2, <3>1, <3>2 DEF Conversacion, Charla, Guardado
  <2>5. ASSUME NEW c \in Conexiones \ {h} PROVE Ajeno(c)
    BY <2>1 DEF Ajeno, EnDesafio, EnPremio, Avisado, Bloqueado, EnManos
  <2> QED
    BY <2>4, <2>5, UnoSolo
<1>7. CASE D_SacaCaido
  <2>1. /\ pcD = "sacaCaido" /\ pcD' \notin {"elige", "saca", "espera"}
        /\ pelea # <<>> /\ pelea' = Tail(pelea)
        /\ colaBlock' \in PopEntrenador(colaBlock, tamD, Simbolo(Head(pelea)))
        /\ UNCHANGED <<otros, entD, bloqueados, peleadores, pcB, aMapa, aEntrenador, msj>>
    BY <1>7 DEF D_SacaCaido, SacarDeBlock, Siguiente, EnD, Punteros, PunteroDeadlock, recursos,
       red, planificador, block, procesos, info, config
  <2>2. \A c : EnCola(pelea', c) => EnCola(pelea, c)
    BY <2>1, ColaTail DEF TipoDeadlock, Lugares, UnaVez
  <2>3. \A c : EnCola(colaBlock', c) => EnCola(colaBlock, c)
    BY <2>1, ColaPop DEF TipoColas, TipoDeadlock, Lugares, UnaVez
  <2>4. ASSUME NEW c \in Conexiones PROVE Ajeno(c)
    BY <2>1, <2>2, <2>3 DEF Ajeno, EnDesafio, EnPremio, Avisado, Bloqueado, EnManos
  <2> QED
    BY <2>4, Ninguno
<1>8. CASE D_Libera
  <2>1. /\ pcD = "libera" /\ pcD' = "mata"
        /\ UNCHANGED <<pendientes, colaReady, entP, entB, pcE, algoritmo, colaBlock, bloqueados,
                      pelea, pcB, aMapa, aEntrenador, msj>>
    BY <1>8 DEF D_Libera, EnD, colas, red, planificador, block, procesos, info, config
  <2>2. PICK i \in 1 .. Len(peleadores) :
          /\ entD' = peleadores[i] /\ peleadores' = Quitar(peleadores, i)
          /\ destruidos' = destruidos \cup {peleadores[i]}
    BY <1>8 DEF D_Libera, LiberarRecursos
  <2>3. /\ entD' \in Conexiones /\ EnCola(peleadores, entD')
        /\ \A c : EnCola(peleadores', c) => EnCola(peleadores, c) /\ c # entD'
    <3>1. peleadores \in Seq(Conexiones) /\ SinRepetidos(peleadores)
      BY DEF TipoDeadlock, Lugares, UnaVez
    <3>2. peleadores[i] \in Conexiones /\ EnCola(peleadores, peleadores[i])
      BY <3>1, ElementOfSeq DEF EnCola
    <3> QED
      BY <2>2, <3>1, <3>2, ColaQuitar
  <2>4. entD = Nadie /\ entD' \notin destruidos
    BY <2>1, <2>3 DEF Lugares, Manos, Derrotado
  <2>5. ASSUME NEW c \in Conexiones PROVE Ajeno(c)
    BY <2>1, <2>2, <2>3, <2>4 DEF Ajeno, EnDesafio, EnPremio, Avisado, Bloqueado, EnManos
  <2> QED
    BY <2>5, Ninguno
\* Who lost is silent too, and is told.
<1>9. CASE D_Mata
  <2>1. PICK h \in Conexiones :
          /\ pcD = "mata" /\ pcD' = "entrega" /\ entD = h /\ entD' = Nadie
          /\ colaBlock' \in PopEntrenador(colaBlock, tamD, Simbolo(h))
          /\ Enviar(h, <<Con(msj[h], "MUERTE_ENTRENADOR")>>)
          /\ \A c \in Conexiones \ {h} : msj'[c] = msj[c]
          /\ UNCHANGED <<otros, bloqueados, pelea, peleadores, pcB, aMapa>>
    BY <1>9 DEF D_Mata, SacarDeBlock, EnD, Punteros, PunteroDeadlock, TipoInfo, recursos,
       planificador, block, procesos, config
  <2>2. \A c : EnCola(colaBlock', c) => EnCola(colaBlock, c)
    BY <2>1, ColaPop DEF TipoColas, TipoDeadlock, Lugares, UnaVez
  <2>3. /\ ~EnCola(pendientes, h) /\ ~EnTurno(h) /\ ~EnDesafio(h) /\ ~EnPremio(h)
        /\ ~Avisado(h)
    <3>1. Bloqueado(h) /\ entB # h
      BY <2>1 DEF Bloqueado, EnManos, Lugares, Separado
    <3> QED
      BY <2>1, <3>1 DEF Papeles, UnPapel, EnDesafio, EnPremio, Avisado
  <2>4. Nada(h) /\ pcE[h] # "conectado"
    BY <2>3 DEF Conversacion, Charla
  <2>5. Con(msj[h], "MUERTE_ENTRENADOR") \in MsjGuardado
    BY DEF Con, TipoInfo, MsjGuardado, Acciones
  <2>6. /\ IF Abierta(h) THEN /\ Len(aEntrenador'[h]) = 1
                             /\ aEntrenador'[h][1] = Con(msj[h], "MUERTE_ENTRENADOR")
                         ELSE aEntrenador'[h] = <<>>
        /\ \A d \in Conexiones \ {h} : aEntrenador'[d] = aEntrenador[d]
    BY <2>1, <2>4, <2>5, EnviarUno DEF Nada
  <2>7. Con(msj[h], "MUERTE_ENTRENADOR").accion = "MUERTE_ENTRENADOR"
    BY DEF Con, TipoInfo, MsjGuardado
  <2>8. Aviso(h)'
    BY <2>1, <2>4, <2>6, <2>7 DEF Aviso, Ida, Nada, Abierta
  <2>9. Charla(h)' /\ Guardado(h)'
    <3>1. Avisado(h)'
      BY <2>1 DEF Avisado, Visitas
    <3> QED
      BY <2>1, <2>4, <2>8, <3>1 DEF Papeles, UnPapel, Charla, Guardado
  <2>10. ASSUME NEW c \in Conexiones \ {h} PROVE Ajeno(c)
    BY <2>1, <2>2, <2>6 DEF Ajeno, EnDesafio, EnPremio, Avisado, Bloqueado, EnManos
  <2> QED
    BY <2>9, <2>10, UnoSolo
\* A winner: its message says again what it was blocked for.
<1>10. CASE D_Entrega
  <2>1. PICK h \in Conexiones :
          /\ pcD = "entrega" /\ pcD' = "saca" /\ h = Head(peleadores) /\ EnCola(peleadores, h)
          /\ Entregar(h, Con(msj[h], "CAPTURAR_POKEMON"))
          /\ msj' = [msj EXCEPT ![h] = Con(msj[h], "CAPTURAR_POKEMON")]
          /\ UNCHANGED <<otros, colaBlock, entD, bloqueados, pelea, peleadores, pcB, aMapa>>
    <3>1. Head(peleadores) \in Conexiones /\ EnCola(peleadores, Head(peleadores))
      BY <1>10, ColaTail DEF D_Entrega, TipoDeadlock
    <3> QED
      BY <1>10, <3>1 DEF D_Entrega, Entregar, EnD, colas, planificador, block, procesos, config
  <2>2. h \notin destruidos /\ Bloqueado(h) /\ entB # h
    BY <2>1 DEF Lugares, Derrotado, Separado, Bloqueado, EnManos
  <2>3. /\ ~EnCola(pendientes, h) /\ ~EnTurno(h) /\ ~EnDesafio(h) /\ ~EnPremio(h)
        /\ ~Avisado(h)
    BY <2>1, <2>2 DEF Papeles, UnPapel, EnDesafio, EnPremio, Avisado
  <2>4. Nada(h) /\ pcE[h] # "conectado"
    BY <2>3 DEF Conversacion, Charla
  <2>5. /\ Con(msj[h], "CAPTURAR_POKEMON") \in MsjGuardado
        /\ Con(msj[h], "CAPTURAR_POKEMON").accion = "CAPTURAR_POKEMON"
    BY DEF Con, TipoInfo, MsjGuardado, Acciones
  <2>6. /\ IF Abierta(h)
             THEN /\ Len(aEntrenador'[h]) = 2
                  /\ aEntrenador'[h][1] = Con(msj[h], "CAPTURAR_POKEMON")
                  /\ aEntrenador'[h][2].accion = "POKEMON"
             ELSE aEntrenador'[h] = <<>>
        /\ \A d \in Conexiones \ {h} : aEntrenador'[d] = aEntrenador[d]
    BY <2>1, <2>2, <2>4, <2>5, EntregarDos DEF Nada
  <2>7. Premio(h)'
    BY <2>1, <2>4, <2>5, <2>6 DEF Premio, Entregado, SeFue, Nada, Abierta
  <2>8. Charla(h)' /\ Guardado(h)'
    <3>1. EnPremio(h)' /\ Bloqueado(h)' /\ msj'[h].accion = "CAPTURAR_POKEMON"
      BY <2>1, <2>2, <2>5 DEF EnPremio, Bloqueado, EnManos, TipoInfo
    <3> QED
      BY <2>1, <2>4, <2>7, <3>1 DEF Papeles, UnPapel, Charla, Guardado
  <2>9. ASSUME NEW c \in Conexiones \ {h} PROVE Ajeno(c)
    BY <2>1, <2>6 DEF Ajeno, EnDesafio, EnPremio, Avisado, Bloqueado, EnManos, TipoInfo
  <2> QED
    BY <2>8, <2>9, UnoSolo
<1>11. CASE D_Saca
  <2>1. /\ pcD = "saca" /\ pcD' = "espera"
        /\ colaBlock' \in PopEntrenador(colaBlock, tamD, Simbolo(Head(peleadores)))
        /\ UNCHANGED <<otros, entD, bloqueados, pelea, peleadores, pcB, aMapa, aEntrenador, msj>>
    BY <1>11 DEF D_Saca, SacarDeBlock, EnD, recursos, red, planificador, block, procesos, info,
       config
  <2>2. \A c : EnCola(colaBlock', c) => EnCola(colaBlock, c)
    BY <2>1, ColaPop DEF TipoColas, TipoDeadlock, Lugares, UnaVez
  <2>3. ASSUME NEW c \in Conexiones PROVE Ajeno(c)
    BY <2>1, <2>2 DEF Ajeno, EnDesafio, EnPremio, Avisado, Bloqueado, EnManos
  <2> QED
    BY <2>3, Ninguno
<1>12. CASE D_Espera
  <2>1. PICK h \in Conexiones :
          /\ pcD = "espera" /\ h = Head(peleadores) /\ EnCola(peleadores, h)
          /\ peleadores' = Tail(peleadores) /\ ~EnCola(peleadores', h)
          /\ \A c : EnCola(peleadores, c) <=> EnCola(peleadores', c) \/ c = h
          /\ UNCHANGED <<pendientes, entP, entB, destruidos, pcE, algoritmo, colaBlock, entD,
                        bloqueados, pelea, pcB, aEntrenador>>
    <3>1. peleadores # <<>> /\ peleadores' = Tail(peleadores)
      BY <1>12 DEF D_Espera, EnD, Punteros, PunteroDeadlock
    <3>2. /\ Head(peleadores) \in Conexiones /\ EnCola(peleadores, Head(peleadores))
          /\ ~EnCola(peleadores', Head(peleadores))
          /\ \A c : EnCola(peleadores, c) <=> EnCola(peleadores', c) \/ c = Head(peleadores)
      BY <3>1, ColaTail DEF TipoDeadlock, Lugares, UnaVez
    <3> QED
      BY <1>12, <3>1, <3>2 DEF D_Espera, EnD, recursos, planificador, block, procesos, config
  <2>2. PICK m \in Proximo(h) :
          /\ Tomar(h) /\ msj' = [msj EXCEPT ![h] = m]
          /\ IF m.accion = "OBJETIVO_CUMPLIDO"
               THEN pcD' = "entrega" /\ UNCHANGED colaReady
               ELSE pcD' = "avisaReady" /\ colaReady' = Append(colaReady, h)
    BY <1>12, <2>1 DEF D_Espera
  <2>3. EnPremio(h) /\ Premio(h) /\ pcE[h] # "conectado" /\ aMapa[h] # <<>>
    BY <2>1, <2>2, ProximoTipo DEF EnPremio, Conversacion, Charla, Papeles, UnPapel
  <2>4. Vuelta(h, {"UBICACION_POKENEST", "OBJETIVO_CUMPLIDO"})
    BY <2>3 DEF Premio, Entregado, SeFue, Nada
  <2>5. /\ m = aMapa[h][1] /\ aMapa'[h] = <<>>
        /\ \A d \in Conexiones \ {h} : aMapa'[d] = aMapa[d]
    BY <2>2, <2>4, TomarUno DEF Vuelta
  <2>6. /\ m.accion \in {"UBICACION_POKENEST", "OBJETIVO_CUMPLIDO"} /\ msj'[h] = m
        /\ Nada(h)'
    BY <2>1, <2>2, <2>4, <2>5 DEF Vuelta, Nada, TipoInfo
  <2>7. /\ \A c \in Conexiones \ {h} : EnCola(colaReady', c) <=> EnCola(colaReady, c)
        /\ m.accion = "OBJETIVO_CUMPLIDO" => ~EnCola(colaReady', h)
    <3>1. ~EnCola(colaReady, h)
      BY <2>1 DEF Lugares, Separado, EnManos
    <3>2. CASE m.accion = "OBJETIVO_CUMPLIDO"
      BY <2>2, <3>1, <3>2
    <3>3. CASE m.accion # "OBJETIVO_CUMPLIDO"
      <4>1. colaReady' = Append(colaReady, h)
        BY <2>2, <3>3
      <4> QED
        BY <3>3, <4>1, ColaAppend DEF TipoColas
    <3> QED
      BY <3>2, <3>3
  <2>8. /\ ~EnCola(pendientes', h) /\ ~EnTurno(h)' /\ ~EnDesafio(h)' /\ ~EnPremio(h)'
        /\ ~Avisado(h)' /\ ~Bloqueado(h)'
    <3>1. /\ ~EnCola(pendientes, h) /\ entP # h /\ ~Avisado(h) /\ entB # h
          /\ ~EnCola(colaBlock, h) /\ ~EnCola(pelea, h) /\ entD # h /\ bloqueados = <<>>
      BY <2>1, <2>3 DEF Papeles, UnPapel, Lugares, Separado, Cuenta, Manos, EnManos
    <3>2. ~EnCola(bloqueados, h)
      BY <3>1, ColaVacia
    <3> QED
      BY <2>1, <2>2, <2>6, <3>1, <3>2
      DEF EnTurno, EnDesafio, EnPremio, Avisado, Bloqueado, EnManos
  <2>9. Charla(h)' /\ Guardado(h)'
    BY <2>1, <2>3, <2>6, <2>7, <2>8 DEF Charla, Guardado
  <2>10. ASSUME NEW c \in Conexiones \ {h} PROVE Ajeno(c)
    BY <2>1, <2>2, <2>5, <2>7 DEF Ajeno, EnDesafio, EnPremio, Avisado, Bloqueado, EnManos,
       TipoInfo
  <2> QED
    BY <2>9, <2>10, UnoSolo
<1>13. CASE D_Rebloquea
  <2>1. PICK h \in Conexiones, q \in PopEntrenador(colaBlock, tamD, Simbolo(Head(peleadores))) :
          /\ pcD = "rebloquea" /\ pcD' = "avisaVacio"
          /\ \A c : EnCola(peleadores, c) <=> EnCola(peleadores', c) \/ c = h
          /\ colaBlock' = Append(q, h)
          /\ UNCHANGED <<otros, entD, bloqueados, pelea, pcB, aMapa, aEntrenador, msj>>
    <3>1. peleadores # <<>> /\ peleadores' = Tail(peleadores)
      BY <1>13 DEF D_Rebloquea, EnD, Punteros, PunteroDeadlock
    <3>2. /\ Head(peleadores) \in Conexiones
          /\ \A c : EnCola(peleadores, c) <=> EnCola(peleadores', c) \/ c = Head(peleadores)
      BY <3>1, ColaTail DEF TipoDeadlock, Lugares, UnaVez
    <3> QED
      BY <1>13, <3>1, <3>2 DEF D_Rebloquea, EnD, recursos, red, planificador, block, procesos,
         config
  <2>2. \A c : EnCola(colaBlock', c) => EnCola(colaBlock, c) \/ c = h
    <3>1. q \in Seq(Conexiones) /\ \A c : EnCola(q, c) => EnCola(colaBlock, c)
      BY <2>1, ColaPop, PopEntrenadorTipo DEF TipoColas, TipoDeadlock, Lugares, UnaVez
    <3> QED
      BY <2>1, <3>1, ColaAppend
  <2>3. ASSUME NEW c \in Conexiones PROVE Ajeno(c)
    BY <2>1, <2>2 DEF Ajeno, EnDesafio, EnPremio, Avisado, Bloqueado, EnManos
  <2> QED
    BY <2>3, Ninguno
<1> QED
  BY <1>1, <1>2, <1>3, <1>4, <1>5, <1>6, <1>7, <1>8, <1>9, <1>10, <1>11, <1>12, <1>13
  DEF Interbloqueo

(***************************************************************************)
(* main.                                                                   *)
(***************************************************************************)
LEMMA AtenderCharla ==
    ASSUME Sabido, Papeles', Atender
    PROVE  Conversacion'
<1> USE DEF Sabido, Tipos, TypeOK
<1> DEFINE otros == <<entP, entB, entD, bloqueados, pelea, peleadores, destruidos, pcB, pcD,
                      pcE, algoritmo, aEntrenador>>
<1>1. CASE \/ M_Select \/ M_AceptaNull \/ M_AvisaReady \/ M_SenalReady \/ M_Revisa
           \/ M_Borra \/ M_AvisaBlock \/ M_Termina
  <2>1. UNCHANGED <<callados, pcD>> /\ (pcB' = "recibe" <=> pcB = "recibe")
    BY <1>1 DEF M_Select, M_AceptaNull, M_AvisaReady, M_SenalReady, M_Revisa, M_Borra,
       M_AvisaBlock, M_Termina, SenalPlanificador, SenalBlock, callados, lugares, recursos,
       colas, red, planificador, block, deadlock, procesos, info, config
  <2> QED
    BY <2>1, Callado
\* The first message: where is the first pokenest.
<1>2. CASE M_Acepta
  <2>1. PICK h \in Conexiones, m \in Proximo(Head(pendientes)) :
          /\ h = Head(pendientes) /\ EnCola(pendientes, h) /\ ~EnCola(pendientes', h)
          /\ \A c : EnCola(pendientes, c) <=> EnCola(pendientes', c) \/ c = h
          /\ Tomar(h) /\ msj' = [msj EXCEPT ![h] = m] /\ colaReady' = Append(colaReady, h)
          /\ UNCHANGED <<otros, colaBlock>>
    <3>1. pendientes # <<>> /\ pendientes' = Tail(pendientes)
      BY <1>2 DEF M_Acepta, EnM, Punteros, PunteroPrincipal
    <3>2. /\ Head(pendientes) \in Conexiones /\ EnCola(pendientes, Head(pendientes))
          /\ ~EnCola(pendientes', Head(pendientes))
          /\ \A c : EnCola(pendientes, c) <=> EnCola(pendientes', c) \/ c = Head(pendientes)
      BY <3>1, ColaTail DEF TipoRed, Lugares, UnaVez
    <3> QED
      BY <1>2, <3>2 DEF M_Acepta, recursos, planificador, block, deadlock, procesos, config
  <2>2. m \in Proximo(h) /\ aMapa[h] # <<>>
    BY <2>1, ProximoTipo
  <2>3. Vuelta(h, {"UBICACION_POKENEST"})
    BY <2>1, <2>2 DEF Conversacion, Charla, Saludo, SeFue, Nada
  <2>4. /\ m = aMapa[h][1] /\ aMapa'[h] = <<>>
        /\ \A d \in Conexiones \ {h} : aMapa'[d] = aMapa[d]
    BY <2>1, <2>2, <2>3, TomarUno DEF Vuelta
  <2>5. msj'[h].accion = "UBICACION_POKENEST" /\ Nada(h)' /\ pcE'[h] # "conectado"
    BY <2>1, <2>3, <2>4 DEF Vuelta, Nada, TipoInfo
  <2>6. \A c : EnCola(colaReady', c) <=> EnCola(colaReady, c) \/ c = h
    BY <2>1, ColaAppend DEF TipoColas
  <2>7. Charla(h)' /\ Guardado(h)'
    <3>1. /\ ~EnTurno(h)' /\ ~EnDesafio(h)' /\ ~EnPremio(h)' /\ ~Avisado(h)'
          /\ ~Bloqueado(h)'
      <4>1. /\ ~EnTurno(h) /\ ~EnDesafio(h) /\ ~EnPremio(h) /\ ~Avisado(h) /\ ~Bloqueado(h)
        BY <2>1 DEF Papeles, UnPapel
      <4> QED
        BY <2>1, <2>5, <4>1
        DEF EnTurno, EnDesafio, EnPremio, Avisado, Bloqueado, EnManos
    <3> QED
      BY <2>1, <2>5, <3>1 DEF Charla, Guardado
  <2>8. ASSUME NEW c \in Conexiones \ {h} PROVE Ajeno(c)
    BY <2>1, <2>4, <2>6 DEF Ajeno, EnDesafio, EnPremio, Avisado, Bloqueado, EnManos, TipoInfo
  <2> QED
    BY <2>7, <2>8, UnoSolo
<1>3. CASE M_Saca
  <2>1. /\ UNCHANGED <<otros, pendientes, colaReady, aMapa, msj>>
        /\ \A c : EnCola(colaBlock', c) => EnCola(colaBlock, c)
    <3>1. UNCHANGED <<otros, pendientes, colaReady, aMapa, msj>>
      BY <1>3 DEF M_Saca, recursos, red, planificador, block, deadlock, procesos, info, config
    <3>2. tamM \in Nat /\ colaBlock \in Seq(Conexiones) /\ SinRepetidos(colaBlock)
      BY DEF TipoColas, TipoPrincipal, Lugares, UnaVez
    <3> QED
      BY <1>3, <3>1, <3>2, ColaPop DEF M_Saca
  <2>2. ASSUME NEW c \in Conexiones PROVE Ajeno(c)
    BY <2>1 DEF Ajeno, EnDesafio, EnPremio, Avisado, Bloqueado, EnManos
  <2> QED
    BY <2>2, Ninguno
<1> QED
  BY <1>1, <1>2, <1>3 DEF Atender

(***************************************************************************)
(* A trainer, which is where it was after a step of its own.               *)
(***************************************************************************)
enMapa == <<lugares, pcB, pcD, msj, algoritmo>>

LEMMA Responde ==
    ASSUME Sabido, NEW h \in Conexiones, UNCHANGED enMapa,
           \A c \in Conexiones \ {h} :
              aMapa'[c] = aMapa[c] /\ aEntrenador'[c] = aEntrenador[c] /\ pcE'[c] = pcE[c],
           pcE'[h] # "conectado",
           EnCola(pendientes, h) => Saludo(h)',
           EnTurno(h) => Turno(h)',
           EnDesafio(h) => Desafio(h)',
           EnPremio(h) => Premio(h)',
           Avisado(h) => Aviso(h)',
           \/ EnCola(pendientes, h) \/ EnTurno(h) \/ EnDesafio(h) \/ EnPremio(h)
           \/ Avisado(h) \/ Nada(h)'
    PROVE  Conversacion'
<1> USE DEF enMapa, lugares
<1>1. /\ EnTurno(h)' <=> EnTurno(h)
      /\ EnDesafio(h)' <=> EnDesafio(h)
      /\ EnPremio(h)' <=> EnPremio(h)
      /\ Avisado(h)' <=> Avisado(h)
      /\ Bloqueado(h)' <=> Bloqueado(h)
  BY DEF EnTurno, EnDesafio, EnPremio, Avisado, Bloqueado, EnManos
<1>2. Charla(h)'
  BY <1>1 DEF Charla
<1>3. Guardado(h)'
  BY <1>1 DEF Sabido, Conversacion, Guardado
<1>4. ASSUME NEW c \in Conexiones \ {h} PROVE Ajeno(c)
  BY DEF Ajeno, EnDesafio, EnPremio, Avisado, Bloqueado, EnManos
<1> QED
  BY <1>2, <1>3, <1>4, UnoSolo DEF Sabido

\* Nothing is left after one message, or after two.
LEMMA UnMensaje ==
    ASSUME NEW M, NEW s \in Seq(M)
    PROVE  /\ Len(s) = 1 => s # <<>> /\ Tail(s) = <<>>
           /\ Len(s) = 2 => s # <<>> /\ Tail(Tail(s)) = <<>>
<1>1. Len(s) = 1 => s # <<>> /\ Tail(s) = <<>>
  <2> SUFFICES ASSUME Len(s) = 1 PROVE s # <<>> /\ Tail(s) = <<>>
    OBVIOUS
  <2>1. s # <<>>
    BY EmptySeq
  <2>2. Tail(s) \in Seq(M) /\ Len(Tail(s)) = 0
    BY <2>1, HeadTailProperties
  <2> QED
    BY <2>1, <2>2, EmptySeq
<1>2. Len(s) = 2 => s # <<>> /\ Tail(Tail(s)) = <<>>
  <2> SUFFICES ASSUME Len(s) = 2 PROVE s # <<>> /\ Tail(Tail(s)) = <<>>
    OBVIOUS
  <2>1. s # <<>>
    BY EmptySeq
  <2>2. Tail(s) \in Seq(M) /\ Len(Tail(s)) = 1
    BY <2>1, HeadTailProperties
  <2>3. Tail(s) # <<>>
    <3>1. Len(<<>>) = 0 /\ 1 # 0
      BY EmptySeq
    <3> QED
      BY <2>2, <3>1, Zenon
  <2>4. Tail(Tail(s)) \in Seq(M) /\ Len(Tail(Tail(s))) = 0
    BY <2>2, <2>3, HeadTailProperties
  <2> QED
    BY <2>1, <2>4, EmptySeq
<1> QED
  BY <1>1, <1>2

\* What a trainer reads says where it is.
LEMMA LoQueLee ==
    ASSUME Sabido, NEW h \in Conexiones, pcE[h] = "mensaje", aEntrenador[h] # <<>>
    PROVE  LET a == Head(aEntrenador[h]).accion
           IN  /\ ~EnCola(pendientes, h) /\ aMapa[h] = <<>>
               /\ \/ /\ EnTurno(h) /\ ~EnDesafio(h) /\ ~EnPremio(h) /\ ~Avisado(h)
                     /\ a \in {"UBICACION_POKENEST", "MOVERSE"} /\ Len(aEntrenador[h]) = 1
                  \/ /\ EnDesafio(h) /\ ~EnTurno(h) /\ ~EnPremio(h) /\ ~Avisado(h)
                     /\ a = "BATALLA_POKEMON" /\ Len(aEntrenador[h]) = 1
                  \/ /\ EnPremio(h) /\ ~EnTurno(h) /\ ~EnDesafio(h) /\ ~Avisado(h)
                     /\ a = "CAPTURAR_POKEMON" /\ Len(aEntrenador[h]) = 2
                  \/ /\ Avisado(h) /\ ~EnTurno(h) /\ ~EnDesafio(h) /\ ~EnPremio(h)
                     /\ a = "MUERTE_ENTRENADOR" /\ Len(aEntrenador[h]) = 1
<1> USE DEF Sabido, Tipos, TypeOK
<1>1. aMapa[h] \in Seq(Mensaje) /\ aEntrenador[h] \in Seq(MsjGuardado) /\ Charla(h)
  BY DEF TipoRed, Conversacion
<1>2. ~EnCola(pendientes, h) /\ ~Nada(h)
  BY <1>1 DEF Charla, Saludo, Vuelta, SeFue, Nada
<1>3. Head(aEntrenador[h]) = aEntrenador[h][1]
  BY <1>1
<1>4. CASE EnTurno(h)
  <2>1. Ida(h, {"UBICACION_POKENEST", "MOVERSE"})
    BY <1>1, <1>4 DEF Charla, Turno, Vuelta, SeFue, Nada
  <2> QED
    BY <1>2, <1>3, <1>4, <2>1 DEF Ida, Papeles, UnPapel
<1>5. CASE EnDesafio(h)
  <2>1. Ida(h, {"BATALLA_POKEMON"})
    BY <1>1, <1>5 DEF Charla, Desafio, Vuelta, SeFue, Nada
  <2> QED
    BY <1>2, <1>3, <1>5, <2>1 DEF Ida, Papeles, UnPapel
<1>6. CASE EnPremio(h)
  <2>1. Entregado(h)
    BY <1>1, <1>6 DEF Charla, Premio, Vuelta, SeFue, Nada
  <2> QED
    BY <1>2, <1>3, <1>6, <2>1 DEF Entregado, Papeles, UnPapel
<1>7. CASE Avisado(h)
  <2>1. Ida(h, {"MUERTE_ENTRENADOR"})
    BY <1>1, <1>7 DEF Charla, Aviso, Nada
  <2> QED
    BY <1>2, <1>3, <1>7, <2>1 DEF Ida, Papeles, UnPapel
<1> QED
  BY <1>1, <1>2, <1>4, <1>5, <1>6, <1>7 DEF Charla

LEMMA EntrenadorCharla ==
    ASSUME Sabido, Papeles', NEW h \in Conexiones, E_Conecta(h) \/ Avanza(h) \/ E_Cae(h)
    PROVE  Conversacion'
<1> USE DEF Sabido, Tipos, TypeOK
<1> Nadie \notin Conexiones
  BY ConstantesAssumption
<1>1. aMapa[h] \in Seq(Mensaje) /\ aEntrenador[h] \in Seq(MsjGuardado) /\ Charla(h)
  BY DEF TipoRed, Conversacion
<1>2. CASE E_Conecta(h)
  <2>1. /\ pcE[h] = "fuera" /\ pcE' = [pcE EXCEPT ![h] = "conectado"]
        /\ pendientes' = Append(pendientes, h)
        /\ UNCHANGED <<colaReady, colaBlock, entP, entB, entD, bloqueados, pelea, peleadores,
                      destruidos, pcB, pcD, msj, algoritmo, aMapa, aEntrenador>>
    BY <1>2 DEF E_Conecta, EnE, recursos, colas, planificador, block, deadlock, info, config
  <2>2. \A c : EnCola(pendientes', c) <=> EnCola(pendientes, c) \/ c = h
    BY <2>1, ColaAppend DEF TipoRed
  <2>3. /\ ~EnCola(pendientes, h) /\ ~EnTurno(h) /\ ~EnDesafio(h) /\ ~EnPremio(h)
        /\ ~Avisado(h)
    BY <2>1 DEF Papeles, UnPapel, EnTurno, Lugares, SinEmpezar
  <2>4. Nada(h)' /\ pcE'[h] = "conectado"
    BY <1>1, <2>1, <2>3 DEF Charla, Nada, TipoProcesos
  <2>5. Charla(h)' /\ Guardado(h)'
    <3>1. EnCola(pendientes', h) /\ Saludo(h)'
      BY <2>2, <2>4 DEF Saludo
    <3> QED
      BY <3>1 DEF Papeles, UnPapel, Charla, Guardado
  <2>6. ASSUME NEW c \in Conexiones \ {h} PROVE Ajeno(c)
    BY <2>1, <2>2 DEF Ajeno, EnDesafio, EnPremio, Avisado, Bloqueado, EnManos, TipoProcesos
  <2> QED
    BY <2>5, <2>6, UnoSolo
<1>3. CASE E_Saluda(h)
  <2> DEFINE m == Pedido("UBICACION_POKENEST", Head(objetivos[h]))
  <2>1. /\ pcE[h] = "conectado" /\ pcE' = [pcE EXCEPT ![h] = "mensaje"]
        /\ aMapa' = [aMapa EXCEPT ![h] = Append(@, m)]
        /\ UNCHANGED <<enMapa, aEntrenador>>
    BY <1>3 DEF E_Saluda, EnE, enMapa, lugares, recursos, colas, planificador, block,
       deadlock, info, config
  <2>2. EnCola(pendientes, h) /\ Nada(h)
    BY <1>1, <2>1 DEF Charla, Saludo, Vuelta, SeFue, Abierta
  <2>3. aMapa'[h] = Append(<<>>, m) /\ aEntrenador'[h] = <<>> /\ pcE'[h] = "mensaje"
    BY <2>1, <2>2 DEF Nada, TipoRed, TipoProcesos
  <2>4. m.accion = "UBICACION_POKENEST"
    BY DEF Pedido
  <2> HIDE DEF m
  <2>5. Len(aMapa'[h]) = 1 /\ aMapa'[h][1] = m
    BY <2>3
  <2>6. Saludo(h)'
    BY <2>3, <2>4, <2>5 DEF Saludo, Vuelta
  <2>7. ~EnTurno(h) /\ ~EnDesafio(h) /\ ~EnPremio(h) /\ ~Avisado(h)
    BY <2>2 DEF Papeles, UnPapel
  <2> QED
    BY <2>1, <2>2, <2>3, <2>6, <2>7, Responde DEF TipoRed, TipoProcesos
<1>4. CASE E_Camina(h)
  <2>1. /\ pcE[h] = "mensaje" /\ aEntrenador[h] # <<>>
        /\ Head(aEntrenador[h]).accion \in {"UBICACION_POKENEST", "MOVERSE"}
        /\ aEntrenador' = [aEntrenador EXCEPT ![h] = Tail(@)]
        /\ UNCHANGED <<enMapa, pcE>>
    BY <1>4 DEF E_Camina, EnE, Leer, enMapa, lugares, recursos, colas, planificador, block,
       deadlock, info, config
  <2>2. /\ ~EnCola(pendientes, h) /\ EnTurno(h) /\ ~EnDesafio(h) /\ ~EnPremio(h)
        /\ ~Avisado(h) /\ aMapa[h] = <<>> /\ Len(aEntrenador[h]) = 1
    BY <2>1, LoQueLee
  <2>3. aEntrenador'[h] = <<>> /\ pcE'[h] = "mensaje"
    <3>1. Tail(aEntrenador[h]) = <<>>
      BY <1>1, <2>2, UnMensaje
    <3> QED
      BY <2>1, <2>2, <3>1 DEF TipoRed
  <2> DEFINE n == Head(aEntrenador[h])
             camino == IF n.accion = "UBICACION_POKENEST"
                         THEN CalcularColaMovimientos(posE[h], Ubicacion[n.pokemon])
                         ELSE movimientos[h]
             pide == Con(n, "CAPTURAR_POKEMON")
             anda == [n EXCEPT !.accion = "MOVERSE", !.movimiento = Head(camino)]
  <2>4. Responder(h, pide) \/ Responder(h, anda)
    BY <1>4 DEF E_Camina
  <2>5. pide.accion = "CAPTURAR_POKEMON" /\ anda.accion = "MOVERSE"
    <3>1. n \in MsjGuardado
      BY <1>1, <2>1
    <3> QED
      BY <3>1 DEF Con, MsjGuardado
  <2>6. /\ \/ aMapa' = [aMapa EXCEPT ![h] = Append(@, pide)]
           \/ aMapa' = [aMapa EXCEPT ![h] = Append(@, anda)]
    BY <2>4 DEF Responder
  <2> HIDE DEF n, camino, pide, anda
  <2>7. /\ aMapa'[h] = Append(<<>>, pide) \/ aMapa'[h] = Append(<<>>, anda)
        /\ \A c \in Conexiones \ {h} : aMapa'[c] = aMapa[c]
    BY <2>2, <2>6 DEF TipoRed
  <2>8. Len(aMapa'[h]) = 1 /\ aMapa'[h][1].accion \in {"MOVERSE", "CAPTURAR_POKEMON"}
    BY <2>5, <2>7
  <2>9. Turno(h)'
    BY <2>3, <2>8 DEF Turno, Vuelta
  <2>10. \A c \in Conexiones \ {h} : aEntrenador'[c] = aEntrenador[c] /\ pcE'[c] = pcE[c]
    BY <2>1 DEF TipoRed
  <2> QED
    BY <2>1, <2>2, <2>3, <2>7, <2>9, <2>10, Responde
<1>5. CASE E_Captura(h)
  <2>1. PICK m :
          /\ pcE[h] = "mensaje" /\ aEntrenador[h] # <<>>
          /\ Head(aEntrenador[h]).accion = "CAPTURAR_POKEMON"
          /\ m.accion \in {"OBJETIVO_CUMPLIDO", "UBICACION_POKENEST"}
          /\ aMapa' = [aMapa EXCEPT ![h] = Append(@, m)]
          /\ aEntrenador' = [aEntrenador EXCEPT ![h] = <<>>]
             \/ aEntrenador' = [aEntrenador EXCEPT ![h] = Tail(Tail(@))]
          /\ UNCHANGED pcE \/ pcE' = [pcE EXCEPT ![h] = "cumplido"]
          /\ UNCHANGED enMapa
    <3>1. /\ pcE[h] = "mensaje" /\ aEntrenador[h] # <<>>
          /\ Head(aEntrenador[h]).accion = "CAPTURAR_POKEMON"
          /\ aEntrenador' = [aEntrenador EXCEPT ![h] = <<>>]
             \/ aEntrenador' = [aEntrenador EXCEPT ![h] = Tail(Tail(@))]
          /\ UNCHANGED pcE \/ pcE' = [pcE EXCEPT ![h] = "cumplido"]
          /\ UNCHANGED enMapa
      BY <1>1, <1>5 DEF E_Captura, EnE, enMapa, lugares, recursos, colas, planificador, block,
         deadlock, info, config
    <3>2. Head(aEntrenador[h]) \in MsjGuardado
      BY <1>1, <3>1
    <3>3. \E m : /\ m.accion \in {"OBJETIVO_CUMPLIDO", "UBICACION_POKENEST"}
                 /\ aMapa' = [aMapa EXCEPT ![h] = Append(@, m)]
      BY <1>5, <3>2 DEF E_Captura, Responder, Con, Pedido, MsjGuardado
    <3> QED
      BY <3>1, <3>3
  <2>2. /\ ~EnCola(pendientes, h) /\ EnPremio(h) /\ ~EnDesafio(h) /\ ~EnTurno(h)
        /\ ~Avisado(h) /\ aMapa[h] = <<>> /\ Len(aEntrenador[h]) = 2
    BY <2>1, LoQueLee
  <2>3. /\ aEntrenador'[h] = <<>> /\ aMapa'[h] = Append(<<>>, m)
        /\ pcE'[h] \in {"mensaje", "cumplido"}
    <3>1. Tail(Tail(aEntrenador[h])) = <<>>
      BY <1>1, <2>2, UnMensaje
    <3> QED
      BY <2>1, <2>2, <3>1 DEF TipoRed, TipoProcesos
  <2>4. Len(aMapa'[h]) = 1 /\ aMapa'[h][1] = m
    BY <2>3
  <2>5. Premio(h)'
    BY <2>1, <2>3, <2>4 DEF Premio, Vuelta
  <2> QED
    BY <2>1, <2>2, <2>3, <2>5, Responde DEF TipoRed, TipoProcesos
<1>6. CASE E_Pelea(h)
  <2>1. /\ pcE[h] = "mensaje" /\ aEntrenador[h] # <<>>
        /\ Head(aEntrenador[h]).accion = "BATALLA_POKEMON"
        /\ \/ /\ pcE' = [pcE EXCEPT ![h] = "caido"] /\ UNCHANGED aMapa
              /\ aEntrenador' = [aEntrenador EXCEPT ![h] = <<>>]
           \/ /\ aMapa' = [aMapa EXCEPT ![h] =
                              Append(@, TramaPokemon(Head(aEntrenador[h]).pokemon))]
              /\ aEntrenador' = [aEntrenador EXCEPT ![h] = Tail(@)] /\ UNCHANGED pcE
        /\ UNCHANGED enMapa
    BY <1>6 DEF E_Pelea, EnE, Leer, Responder, enMapa, lugares, recursos, colas, planificador,
       block, deadlock, info, config
  <2>2. /\ ~EnCola(pendientes, h) /\ EnDesafio(h) /\ ~EnTurno(h) /\ ~EnPremio(h)
        /\ ~Avisado(h) /\ aMapa[h] = <<>> /\ Len(aEntrenador[h]) = 1
    BY <2>1, LoQueLee
  <2>3. CASE pcE' = [pcE EXCEPT ![h] = "caido"] /\ UNCHANGED aMapa
    <3>1. Nada(h)' /\ pcE'[h] = "caido"
      BY <2>1, <2>2, <2>3 DEF Nada, TipoRed, TipoProcesos
    <3>2. Desafio(h)'
      BY <3>1 DEF Desafio, SeFue, Abierta
    <3> QED
      BY <2>1, <2>2, <2>3, <3>1, <3>2, Responde DEF TipoRed, TipoProcesos
  <2>4. CASE ~(pcE' = [pcE EXCEPT ![h] = "caido"] /\ UNCHANGED aMapa)
    <3> DEFINE m == TramaPokemon(Head(aEntrenador[h]).pokemon)
    <3>1. /\ aEntrenador'[h] = <<>> /\ aMapa'[h] = Append(<<>>, m)
          /\ pcE'[h] = "mensaje"
      <4>1. Tail(aEntrenador[h]) = <<>>
        BY <1>1, <2>2, UnMensaje
      <4> QED
        BY <2>1, <2>2, <2>4, <4>1 DEF TipoRed
    <3>2. m.accion = "POKEMON"
      BY DEF TramaPokemon
    <3> HIDE DEF m
    <3>3. Len(aMapa'[h]) = 1 /\ aMapa'[h][1] = m
      BY <3>1
    <3>4. Desafio(h)'
      BY <3>1, <3>2, <3>3 DEF Desafio, Vuelta
    <3> QED
      BY <2>1, <2>2, <2>4, <3>1, <3>4, Responde DEF TipoRed
  <2> QED
    BY <2>3, <2>4
<1>7. CASE E_Muere(h)
  <2>1. /\ pcE[h] = "mensaje" /\ aEntrenador[h] # <<>>
        /\ Head(aEntrenador[h]).accion = "MUERTE_ENTRENADOR"
        /\ pcE' = [pcE EXCEPT ![h] = "muerto"]
        /\ aEntrenador' = [aEntrenador EXCEPT ![h] = <<>>]
        /\ UNCHANGED <<enMapa, aMapa>>
    BY <1>7 DEF E_Muere, EnE, enMapa, lugares, recursos, colas, planificador, block, deadlock,
       info, config
  <2>2. /\ ~EnCola(pendientes, h) /\ Avisado(h) /\ ~EnTurno(h) /\ ~EnPremio(h)
        /\ ~EnDesafio(h) /\ aMapa[h] = <<>>
    BY <2>1, LoQueLee
  <2>3. Nada(h)' /\ pcE'[h] = "muerto"
    BY <2>1, <2>2 DEF Nada, TipoRed, TipoProcesos
  <2>4. Aviso(h)'
    BY <2>3 DEF Aviso
  <2> QED
    BY <2>1, <2>2, <2>3, <2>4, Responde DEF TipoRed, TipoProcesos
<1>8. CASE E_Otro(h)
  <2>1. /\ pcE[h] = "mensaje" /\ aEntrenador[h] # <<>>
        /\ Head(aEntrenador[h]).accion \in
               {"UBICACION_POKENEST_OTORGADA", "OBJETIVO_CUMPLIDO", "POKEMON"}
    BY <1>8 DEF E_Otro, EnE
  <2> QED
    BY <2>1, LoQueLee
\* Killed: its answer may still arrive.
<1>9. CASE E_Cae(h)
  <2>1. /\ pcE' = [pcE EXCEPT ![h] = "caido"]
        /\ aEntrenador' = [aEntrenador EXCEPT ![h] = <<>>]
        /\ UNCHANGED <<enMapa, aMapa>>
    BY <1>9 DEF E_Cae, enMapa, lugares, recursos, colas, planificador, block, deadlock, info,
       config
  <2>2. aEntrenador'[h] = <<>> /\ pcE'[h] = "caido" /\ aMapa'[h] = aMapa[h]
    BY <2>1 DEF TipoRed, TipoProcesos
  <2>3. /\ \A K : Vuelta(h, K) => Vuelta(h, K)'
        /\ \A K : Ida(h, K) => SeFue(h)' /\ Nada(h)'
        /\ Nada(h) => SeFue(h)' /\ Nada(h)'
        /\ Entregado(h) => SeFue(h)'
    BY <2>2 DEF Vuelta, Ida, SeFue, Nada, Entregado, Abierta
  <2>4. /\ Saludo(h) => Saludo(h)'
        /\ Turno(h) => Turno(h)'
        /\ Desafio(h) => Desafio(h)'
        /\ Premio(h) => Premio(h)'
        /\ Aviso(h) => Aviso(h)'
    BY <2>3 DEF Saludo, Turno, Desafio, Premio, Aviso, SeFue
  <2> QED
    BY <1>1, <2>1, <2>2, <2>3, <2>4, Responde DEF Charla, TipoRed, TipoProcesos
<1> QED
  BY <1>2, <1>3, <1>4, <1>5, <1>6, <1>7, <1>8, <1>9 DEF Avanza
-----------------------------------------------------------------------------
(***************************************************************************)
(* The visits of a trainer follow one another, and the planner thread goes *)
(* where its algorithm says.                                               *)
(***************************************************************************)
LEMMA NextVisitas == Sabido /\ [Next]_vars => Visitas'
<1> SUFFICES ASSUME Sabido, [Next]_vars PROVE Visitas'
  OBVIOUS
<1> USE DEF Sabido, Tipos, TypeOK
<1>1. destruidos \subseteq destruidos' /\ (entD' # Nadie => entD' \in destruidos')
  <2>1. CASE UNCHANGED <<destruidos, entD>>
    BY <2>1 DEF Visitas
  <2>2. CASE D_Libera \/ D_Mata
    BY <2>2 DEF D_Libera, D_Mata, LiberarRecursos, recursos
  <2>3. UNCHANGED <<destruidos, entD>> \/ D_Libera \/ D_Mata
    <3>1. CASE Planificar
      BY <3>1 DEF Planificar, P_Chequea, P_Duerme, P_Otorga, P_Atiende, P_Cercano,
         P_RecibeMoverse, P_RecibeCapturar, P_RecibeFin, P_AvisaVacio, P_SenalVacio,
         P_SenalBlock, recursos, deadlock
    <3>2. CASE Bloquear
      BY <3>2 DEF Bloquear, B_Chequea, B_DuermeVacio, B_Lock, B_Entrega, B_Rebloquea,
         B_Pregunta, B_DuermeBlock, B_Despierta, B_Recibe, B_RecibeFin, B_AvisaReady,
         B_SenalReady, Entregar, recursos, deadlock
    <3>3. CASE Interbloqueo /\ ~D_Libera /\ ~D_Mata
      BY <3>3 DEF Interbloqueo, D_Chequea, D_Lock, D_Calcula, D_Desafia, D_Elige,
         D_EligeNull, D_SacaCaido, D_Entrega, D_Saca, D_Espera, D_EsperaNull, D_AvisaReady,
         D_SenalReady, D_EntregaNull, D_Rebloquea, D_AvisaVacio, D_SenalVacio, D_Suelta,
         D_Despierta, Entregar, recursos, deadlock
    <3>4. CASE Atender
      BY <3>4 DEF Atender, M_Select, M_Acepta, M_AceptaNull, M_AvisaReady, M_SenalReady,
         M_Revisa, M_Borra, M_Saca, M_AvisaBlock, M_Termina, recursos, deadlock
    <3>5. CASE Recargar \/ UNCHANGED vars
      BY <3>5 DEF Recargar, vars, recursos, deadlock
    <3>6. CASE \E c \in Conexiones : E_Conecta(c) \/ Avanza(c) \/ E_Cae(c)
      BY <3>6 DEF E_Conecta, E_Cae, Avanza, E_Saluda, E_Camina, E_Captura, E_Pelea,
         E_Muere, E_Otro, recursos, deadlock
    <3> QED
      BY <3>1, <3>2, <3>3, <3>4, <3>5, <3>6 DEF Next
  <2> QED
    BY <2>1, <2>2, <2>3
<1>2. CASE UNCHANGED pcE
  BY <1>1, <1>2 DEF Visitas
<1>3. ASSUME NEW h \in Conexiones, E_Conecta(h)
      PROVE  Visitas'
  <2>1. pcE[h] = "fuera" /\ PuedeEmpezar(h) /\ pcE' = [pcE EXCEPT ![h] = "conectado"]
    BY <1>3 DEF E_Conecta, EnE
  <2>2. \A c \in Conexiones : pcE'[c] = IF c = h THEN "conectado" ELSE pcE[c]
    BY <2>1 DEF TipoProcesos
  <2>3. \A c \in Conexiones : Vida(c) \in 1 .. Vidas /\ c = <<Simbolo(c), Vida(c)>>
    BY DEF Conexiones, Simbolo, Vida
  <2>4. ASSUME NEW c \in Conexiones, Simbolo(c) = Simbolo(h), Vida(c) < Vida(h)
        PROVE  pcE[c] = "muerto"
    <3> DEFINE d == <<Simbolo(h), Vida(h) - 1>>
    <3>1. Vida(h) - 1 \in 1 .. Vidas /\ Simbolo(h) \in Entrenadores
      BY <2>3, <2>4, ConstantesAssumption DEF Conexiones, Simbolo
    <3>2. d \in Conexiones /\ Simbolo(d) = Simbolo(h) /\ Vida(d) = Vida(h) - 1
      BY <3>1 DEF Conexiones, Simbolo, Vida
    <3> HIDE DEF d
    <3>3. pcE[d] = "muerto"
      BY <2>1, <3>2 DEF PuedeEmpezar
    <3>4. CASE Vida(c) = Vida(h) - 1
      BY <2>1, <2>4, <3>4 DEF PuedeEmpezar
    <3>5. CASE Vida(c) # Vida(h) - 1
      <4>1. Vida(c) < Vida(d)
        BY <2>3, <2>4, <3>1, <3>2, <3>5, ConstantesAssumption
      <4> QED
        BY <2>4, <3>2, <3>3, <4>1 DEF Visitas
    <3> QED
      BY <3>4, <3>5
  <2>5. ASSUME NEW c \in Conexiones, NEW d \in Conexiones, Simbolo(c) = Simbolo(d),
               Vida(c) < Vida(d), pcE'[d] # "fuera"
        PROVE  pcE'[c] = "muerto"
    <3>1. CASE d = h
      <4>1. c # h
        BY <2>3, <2>5, <3>1, ConstantesAssumption
      <4> QED
        BY <2>2, <2>4, <2>5, <3>1, <4>1
    <3>2. CASE d # h
      BY <2>1, <2>2, <2>5, <3>2 DEF Visitas
    <3> QED
      BY <3>1, <3>2
  <2>6. \A c \in Conexiones : pcE'[c] = "muerto" => c \in destruidos'
    BY <1>1, <2>2 DEF Visitas
  <2> QED
    BY <1>1, <2>5, <2>6 DEF Visitas
\* The others do not begin a visit; and one that dies was told.
<1>4. ASSUME NEW h \in Conexiones, Avanza(h) \/ E_Cae(h)
      PROVE  Visitas'
  <2>1. /\ pcE[h] \in {"conectado", "mensaje"} /\ pcE'[h] # "fuera"
        /\ \A c \in Conexiones \ {h} : pcE'[c] = pcE[c]
    BY <1>4 DEF Avanza, E_Saluda, E_Camina, E_Captura, E_Pelea, E_Muere, E_Otro, E_Cae, EnE,
       Abierta, TipoProcesos
  <2>2. pcE'[h] = "muerto" => h \in destruidos
    <3>1. CASE E_Muere(h)
      <4>1. /\ pcE[h] = "mensaje" /\ aEntrenador[h] # <<>>
            /\ Head(aEntrenador[h]).accion = "MUERTE_ENTRENADOR"
        BY <3>1 DEF E_Muere, EnE
      <4> QED
        BY <4>1, LoQueLee DEF Avisado
    <3>2. CASE ~E_Muere(h)
      BY <1>4, <3>2 DEF Avanza, E_Saluda, E_Camina, E_Captura, E_Pelea, E_Otro, E_Cae, EnE,
         TipoProcesos
    <3> QED
      BY <3>1, <3>2
  <2> QED
    BY <1>1, <2>1, <2>2 DEF Visitas
<1>5. \/ UNCHANGED pcE
      \/ \E c \in Conexiones : E_Conecta(c) \/ Avanza(c) \/ E_Cae(c)
  <2>1. CASE Planificar
    BY <2>1 DEF Planificar, P_Chequea, P_Duerme, P_Otorga, P_Atiende, P_Cercano,
       P_RecibeMoverse, P_RecibeCapturar, P_RecibeFin, P_AvisaVacio, P_SenalVacio,
       P_SenalBlock, procesos
  <2>2. CASE Bloquear
    BY <2>2 DEF Bloquear, B_Chequea, B_DuermeVacio, B_Lock, B_Entrega, B_Rebloquea,
       B_Pregunta, B_DuermeBlock, B_Despierta, B_Recibe, B_RecibeFin, B_AvisaReady,
       B_SenalReady, procesos
  <2>3. CASE Interbloqueo
    BY <2>3 DEF Interbloqueo, D_Chequea, D_Lock, D_Calcula, D_Desafia, D_Elige,
       D_EligeNull, D_SacaCaido, D_Libera, D_Mata, D_Entrega, D_Saca, D_Espera,
       D_EsperaNull, D_AvisaReady, D_SenalReady, D_EntregaNull, D_Rebloquea, D_AvisaVacio,
       D_SenalVacio, D_Suelta, D_Despierta, procesos
  <2>4. CASE Atender
    BY <2>4 DEF Atender, M_Select, M_Acepta, M_AceptaNull, M_AvisaReady, M_SenalReady,
       M_Revisa, M_Borra, M_Saca, M_AvisaBlock, M_Termina, procesos
  <2>5. CASE Recargar \/ UNCHANGED vars
    BY <2>5 DEF Recargar, vars, procesos
  <2> QED
    BY <2>1, <2>2, <2>3, <2>4, <2>5 DEF Next
<1> QED
  BY <1>2, <1>3, <1>4, <1>5

LEMMA NextAlgoritmo == Tipos /\ Algoritmo /\ UNCHANGED algoritmo /\ [Next]_vars => Algoritmo'
<1> SUFFICES ASSUME Tipos, Algoritmo, UNCHANGED algoritmo, [Next]_vars PROVE Algoritmo'
  OBVIOUS
<1>1. CASE P_Chequea
  <2>1. /\ algP' = algoritmo
        /\ pcP' \in {"porDormir", "atiende", "otorga"}
        /\ pcP' = "atiende" => algoritmo = "SRDF"
        /\ pcP' = "otorga" => algoritmo # "SRDF"
    BY <1>1 DEF P_Chequea, Algoritmo
  <2>2. algoritmo \in {"RR", "SRDF"}
    BY ConstantesAssumption DEF Tipos, TypeOK, TipoProceso
  <2> QED
    BY <2>1, <2>2 DEF Algoritmo
<1>2. CASE ~P_Chequea
  <2>1. /\ algP' = algP
        /\ pcP' = "otorga" => pcP = "otorga"
        /\ pcP' \in {"atiende", "cercano"} => pcP \in {"atiende", "cercano"}
    <3>1. CASE Planificar
      BY <1>2, <3>1 DEF Planificar, P_Duerme, P_Otorga, P_Atiende, P_Cercano,
         P_RecibeMoverse, P_RecibeCapturar, P_RecibeFin, P_AvisaVacio, P_SenalVacio,
         P_SenalBlock, EnP
    <3>2. CASE Bloquear
      BY <3>2 DEF Bloquear, B_Chequea, B_DuermeVacio, B_Lock, B_Entrega, B_Rebloquea,
         B_Pregunta, B_DuermeBlock, B_Despierta, B_Recibe, B_RecibeFin, B_AvisaReady,
         B_SenalReady, SenalPlanificador, planificador
    <3>3. CASE Interbloqueo
      BY <3>3 DEF Interbloqueo, D_Chequea, D_Lock, D_Calcula, D_Desafia, D_Elige,
         D_EligeNull, D_SacaCaido, D_Libera, D_Mata, D_Entrega, D_Saca, D_Espera,
         D_EsperaNull, D_AvisaReady, D_SenalReady, D_EntregaNull, D_Rebloquea,
         D_AvisaVacio, D_SenalVacio, D_Suelta, D_Despierta, SenalPlanificador, planificador
    <3>4. CASE Atender
      BY <3>4 DEF Atender, M_Select, M_Acepta, M_AceptaNull, M_AvisaReady, M_SenalReady,
         M_Revisa, M_Borra, M_Saca, M_AvisaBlock, M_Termina, SenalPlanificador, planificador
    <3>5. CASE Recargar \/ UNCHANGED vars
      BY <3>5 DEF Recargar, vars, planificador
    <3>6. CASE \E c \in Conexiones : E_Conecta(c) \/ Avanza(c) \/ E_Cae(c)
      BY <3>6 DEF E_Conecta, E_Cae, Avanza, E_Saluda, E_Camina, E_Captura, E_Pelea,
         E_Muere, E_Otro, planificador
    <3> QED
      BY <3>1, <3>2, <3>3, <3>4, <3>5, <3>6 DEF Next
  <2> QED
    BY <2>1 DEF Algoritmo
<1> QED
  BY <1>1, <1>2

LEMMA InitConversacion == Init => Conversacion /\ Algoritmo /\ Visitas
<1> SUFFICES ASSUME Init PROVE Conversacion /\ Algoritmo /\ Visitas
  OBVIOUS
<1>1. /\ pendientes = <<>> /\ colaReady = <<>> /\ colaBlock = <<>>
      /\ bloqueados = <<>> /\ pelea = <<>> /\ peleadores = <<>>
      /\ entP = Nadie /\ entB = Nadie /\ entD = Nadie /\ destruidos = {}
      /\ pcP = "entra" /\ pcB = "chequea" /\ pcD = "chequea" /\ algP = algoritmo
      /\ \A c \in Conexiones : aMapa[c] = <<>> /\ aEntrenador[c] = <<>> /\ pcE[c] = "fuera"
  BY DEF Init
<1>2. ASSUME NEW c \in Conexiones PROVE Charla(c) /\ Guardado(c)
  <2>1. /\ ~EnCola(pendientes, c) /\ ~EnCola(colaReady, c) /\ ~Bloqueado(c) /\ ~EnTurno(c)
        /\ ~EnDesafio(c) /\ ~EnPremio(c) /\ ~Avisado(c)
    BY <1>1, ColaVacia, ConstantesAssumption
    DEF Bloqueado, EnManos, EnTurno, EnDesafio, EnPremio, Avisado
  <2> QED
    BY <1>1, <2>1 DEF Charla, Guardado, Nada
<1> QED
  BY <1>1, <1>2 DEF Conversacion, Algoritmo, Visitas

LEMMA NextConversacion ==
    ASSUME Sabido, Papeles', Lugares', PeleaResuelta', UNCHANGED algoritmo, [Next]_vars
    PROVE  Conversacion'
<1>1. CASE Recargar \/ UNCHANGED vars
  <2>1. UNCHANGED <<callados, pcB, pcD>>
    BY <1>1 DEF Recargar, vars, callados, lugares, recursos, colas, red, planificador, block,
       deadlock, procesos, info
  <2> QED
    BY <2>1, Callado DEF Sabido
<1> QED
  BY <1>1, PlanificarCharla, BloquearCharla, InterbloqueoCharla, AtenderCharla,
     EntrenadorCharla DEF Next

LEMMA Spec_Sabido ==
    Spec /\ []Disciplina /\ []PeleaResuelta /\ MismoAlgoritmo => []Sabido
<1>1. Init => Conversacion /\ Algoritmo /\ Visitas
  BY InitConversacion
<1>2. Tipos /\ Lugares => Papeles
  BY PapelesVale
<1>3. Tipos /\ Lugares /\ Papeles /\ Lugares' /\ Papeles' /\ PeleaResuelta'
        /\ Conversacion /\ Algoritmo /\ Visitas /\ [Next]_vars /\ UNCHANGED algoritmo
          => Conversacion' /\ Algoritmo' /\ Visitas'
  <2> SUFFICES ASSUME Tipos, Lugares, Papeles, Lugares', Papeles', PeleaResuelta',
                      Conversacion, Algoritmo, Visitas, [Next]_vars, UNCHANGED algoritmo
               PROVE  Conversacion' /\ Algoritmo' /\ Visitas'
    OBVIOUS
  <2>1. Sabido
    BY DEF Sabido
  <2>2. Conversacion'
    BY <2>1, NextConversacion
  <2>3. Algoritmo'
    BY <2>1, NextAlgoritmo
  <2>4. Visitas'
    BY <2>1, NextVisitas
  <2> QED
    BY <2>2, <2>3, <2>4
<1>4. [UNCHANGED algoritmo]_algoritmo => UNCHANGED algoritmo
  OBVIOUS
<1> QED
  BY <1>1, <1>2, <1>3, <1>4, Spec_Tipos, Spec_Lugares, PTL DEF Spec, MismoAlgoritmo, Sabido
-----------------------------------------------------------------------------
(***************************************************************************)
(* What follows for those that read.                                       *)
(***************************************************************************)
\* Every connection has one of these shapes.
LEMMA Formas ==
    ASSUME Sabido, NEW c \in Conexiones
    PROVE  \/ Nada(c)
           \/ /\ aMapa[c] = <<>> /\ Len(aEntrenador[c]) = 1 /\ pcE[c] = "mensaje"
              /\ aEntrenador[c][1].accion \in
                    {"UBICACION_POKENEST", "MOVERSE", "BATALLA_POKEMON", "MUERTE_ENTRENADOR"}
           \/ aEntrenador[c] = <<>> /\ Len(aMapa[c]) = 1
           \/ Entregado(c)
<1>1. Charla(c)
  BY DEF Sabido, Conversacion
<1> DEFINE Pregunta == /\ aMapa[c] = <<>> /\ Len(aEntrenador[c]) = 1 /\ pcE[c] = "mensaje"
                       /\ aEntrenador[c][1].accion \in {"UBICACION_POKENEST", "MOVERSE",
                             "BATALLA_POKEMON", "MUERTE_ENTRENADOR"}
           Respuesta == aEntrenador[c] = <<>> /\ Len(aMapa[c]) = 1
<1>2. /\ Ida(c, {"UBICACION_POKENEST", "MOVERSE"}) => Pregunta
      /\ Ida(c, {"BATALLA_POKEMON"}) => Pregunta
      /\ Ida(c, {"MUERTE_ENTRENADOR"}) => Pregunta
      /\ \A K : Vuelta(c, K) => Respuesta
      /\ SeFue(c) => Nada(c)
  BY DEF Ida, Vuelta, SeFue
<1> HIDE DEF Pregunta, Respuesta
<1>3. Nada(c) \/ Pregunta \/ Respuesta \/ Entregado(c)
  BY <1>1, <1>2 DEF Charla, Saludo, Turno, Desafio, Premio, Aviso
<1> QED
  BY <1>3 DEF Pregunta, Respuesta

(***************************************************************************)
(* With any number of trainers, with fights, deaths and trainers that are  *)
(* killed, there is never more than one message between a trainer and the  *)
(* map, or the two frames that give it a pokemon, in every history where   *)
(* the locks do what they are there for, whoever fought is not served      *)
(* before it answers (PeleaResuelta) and the algorithm is not changed.     *)
(***************************************************************************)
THEOREM Spec_PedidoRespuesta ==
    Spec /\ []Disciplina /\ []PeleaResuelta /\ MismoAlgoritmo => []PedidoRespuesta
<1>1. Sabido => PedidoRespuesta
  <2> SUFFICES ASSUME Sabido, NEW c \in Conexiones
               PROVE  /\ Len(aMapa[c]) + Len(aEntrenador[c]) > 1 =>
                            /\ aMapa[c] = <<>> /\ Len(aEntrenador[c]) = 2
                            /\ aEntrenador[c][1].accion = "CAPTURAR_POKEMON"
                      /\ \A i \in 1 .. Len(aEntrenador[c]) :
                            aEntrenador[c][i].accion = "POKEMON" => i = Len(aEntrenador[c])
    BY DEF PedidoRespuesta
  <2>1. Len(<<>>) = 0
    BY EmptySeq
  <2>2. CASE Nada(c)
    BY <2>1, <2>2 DEF Nada
  <2>3. CASE aMapa[c] = <<>> /\ Len(aEntrenador[c]) = 1
    BY <2>1, <2>3
  <2>4. CASE aEntrenador[c] = <<>> /\ Len(aMapa[c]) = 1
    BY <2>1, <2>4
  <2>5. CASE Entregado(c)
    BY <2>1, <2>5 DEF Entregado
  <2> QED
    BY <2>2, <2>3, <2>4, <2>5, Formas
<1> QED
  BY <1>1, Spec_Sabido, PTL

(***************************************************************************)
(* In those histories no thread of the map is inside recv() for a trainer  *)
(* that is itself waiting for the map: nobody waits for anybody.           *)
(***************************************************************************)
THEOREM Spec_NadieEsperaANadie ==
    Spec /\ []Disciplina /\ []PeleaResuelta /\ MismoAlgoritmo => []NadieEsperaANadie
<1>1. Sabido => NadieEsperaANadie
  <2> SUFFICES ASSUME Sabido, NEW c \in Conexiones, EnRecv(c), EsperaAlMapa(c) PROVE FALSE
    BY DEF NadieEsperaANadie
  <2> USE DEF Sabido, Tipos, TypeOK
  <2>1. Charla(c)
    BY DEF Conversacion
  <2>2. /\ pcE[c] = "mensaje" /\ aMapa[c] = <<>>
        /\ \/ aEntrenador[c] = <<>>
           \/ Len(aEntrenador[c]) = 1 /\ aEntrenador[c][1].accion = "CAPTURAR_POKEMON"
    BY DEF EsperaAlMapa
  <2>3. ~Saludo(c) /\ ~Turno(c) /\ ~Desafio(c) /\ ~Premio(c)
    <3>1. Len(<<>>) = 0
      BY EmptySeq
    <3>2. ~SeFue(c) /\ \A K : ~Vuelta(c, K)
      BY <2>2, <3>1 DEF SeFue, Vuelta, Abierta
    <3>3. \A K : "CAPTURAR_POKEMON" \notin K => ~Ida(c, K)
      BY <2>2, <3>1 DEF Ida
    <3>4. ~Entregado(c)
      BY <2>2, <3>1 DEF Entregado
    <3> QED
      BY <2>2, <3>2, <3>3, <3>4 DEF Saludo, Turno, Desafio, Premio
  <2>4. pcM = "acepta" => EnCola(pendientes, Head(pendientes))
    BY ColaTail DEF TipoRed, Punteros, PunteroPrincipal, Lugares, UnaVez
  <2> QED
    BY <2>1, <2>3, <2>4 DEF EnRecv, Charla, EnTurno, EnDesafio, EnPremio
<1> QED
  BY <1>1, Spec_Sabido, PTL

\* What the map reads says nothing but the answer it waits for there.
LEMMA LoQueRecibe ==
    ASSUME Sabido, NEW c \in Conexiones, NEW m \in Proximo(c)
    PROVE  /\ EnCola(pendientes, c) => m.accion = "UBICACION_POKENEST"
           /\ EnTurno(c) => m.accion \in {"MOVERSE", "CAPTURAR_POKEMON"}
           /\ EnDesafio(c) => m.accion = "POKEMON"
           /\ EnPremio(c) => m.accion \in {"UBICACION_POKENEST", "OBJETIVO_CUMPLIDO"}
<1> USE DEF Sabido, Tipos, TypeOK
<1>1. aMapa[c] # <<>> /\ m = aMapa[c][1]
  BY DEF TipoRed, Proximo, HayMensaje
<1>2. ~Nada(c) /\ ~SeFue(c) /\ ~Entregado(c) /\ \A K : ~Ida(c, K)
  BY <1>1 DEF Nada, SeFue, Entregado, Ida
<1>3. \A K : Vuelta(c, K) => m.accion \in K
  BY <1>1 DEF Vuelta
<1>4. Charla(c)
  BY DEF Conversacion
<1> QED
  BY <1>2, <1>3, <1>4 DEF Charla, Saludo, Turno, Desafio, Premio

LEMMA NextEnOrden == Sabido /\ TramasEnOrden /\ [Next]_vars => TramasEnOrden'
<1> SUFFICES ASSUME Sabido, TramasEnOrden, [Next]_vars PROVE TramasEnOrden'
  OBVIOUS
<1> USE DEF Sabido, Tipos, TypeOK
<1>1. CASE UNCHANGED fallo
  BY <1>1 DEF TramasEnOrden
<1>2. CASE fallo' \in {"nulo", "sigpipe"}
  BY <1>2 DEF TramasEnOrden
<1>3. CASE P_RecibeMoverse
  <2>1. entP \in Conexiones /\ EnTurno(entP)
    BY <1>3 DEF P_RecibeMoverse, EnP, Punteros, PunteroPlanificador, EnTurno
  <2>2. PICK m \in Proximo(entP) : fallo' \in {"nulo", fallo} \/ m.accion = "POKEMON"
    BY <1>3 DEF P_RecibeMoverse
  <2>3. m.accion \in {"MOVERSE", "CAPTURAR_POKEMON"}
    BY <2>1, LoQueRecibe
  <2> QED
    BY <2>2, <2>3 DEF TramasEnOrden
<1>4. CASE B_Recibe
  <2>1. entB \in Conexiones /\ EnPremio(entB)
    BY <1>4 DEF B_Recibe, EnB, Punteros, PunteroBlock, EnPremio
  <2>2. PICK m \in Proximo(entB) : fallo' = fallo \/ m.accion = "POKEMON"
    BY <1>4 DEF B_Recibe
  <2>3. m.accion \in {"UBICACION_POKENEST", "OBJETIVO_CUMPLIDO"}
    BY <2>1, LoQueRecibe
  <2> QED
    BY <2>2, <2>3 DEF TramasEnOrden
<1>5. CASE D_Elige
  <2>1. PICK c \in Conexiones : c = Head(pelea) /\ EnDesafio(c)
    BY <1>5, ColaTail DEF D_Elige, EnD, Punteros, PunteroDeadlock, TipoDeadlock, EnDesafio
  <2>2. PICK m \in Proximo(c) : fallo' = fallo \/ m.accion # "POKEMON"
    BY <1>5, <2>1 DEF D_Elige
  <2>3. m.accion = "POKEMON"
    BY <2>1, LoQueRecibe
  <2> QED
    BY <2>2, <2>3 DEF TramasEnOrden
<1>6. CASE D_Espera
  <2>1. PICK c \in Conexiones : c = Head(peleadores) /\ EnPremio(c)
    BY <1>6, ColaTail DEF D_Espera, EnD, Punteros, PunteroDeadlock, TipoDeadlock, EnPremio
  <2>2. PICK m \in Proximo(c) : fallo' = fallo \/ m.accion = "POKEMON"
    BY <1>6, <2>1 DEF D_Espera
  <2>3. m.accion \in {"UBICACION_POKENEST", "OBJETIVO_CUMPLIDO"}
    BY <2>1, LoQueRecibe
  <2> QED
    BY <2>2, <2>3 DEF TramasEnOrden
\* Nobody that lost is served.
<1>7. ASSUME NEW c \in Conexiones \ destruidos, NEW m, Entregar(c, m)
      PROVE  UNCHANGED fallo \/ fallo' \in {"nulo", "sigpipe"}
  BY <1>7 DEF Entregar, UsarMsj
<1>8. CASE B_Entrega
  <2>1. entB \in Conexiones \ destruidos
    BY <1>8 DEF B_Entrega, EnB, Punteros, PunteroBlock, Lugares, Derrotado
  <2> QED
    BY <1>1, <1>2, <1>7, <1>8, <2>1 DEF B_Entrega
<1>9. CASE D_Entrega
  <2>1. Head(peleadores) \in Conexiones \ destruidos
    BY <1>9, ColaTail DEF D_Entrega, TipoDeadlock, Lugares, Derrotado
  <2> QED
    BY <1>1, <1>2, <1>7, <1>9, <2>1 DEF D_Entrega
<1>10. CASE Planificar /\ ~P_RecibeMoverse
  <2>1. UNCHANGED fallo \/ fallo' = "nulo"
    BY <1>10 DEF Planificar, P_Chequea, P_Duerme, P_Otorga, P_Atiende, P_Cercano,
       P_RecibeCapturar, P_RecibeFin, P_AvisaVacio, P_SenalVacio, P_SenalBlock
  <2> QED
    BY <1>1, <1>2, <2>1
<1>11. CASE Bloquear /\ ~B_Recibe /\ ~B_Entrega
  <2>1. UNCHANGED fallo \/ fallo' = "nulo"
    BY <1>11 DEF Bloquear, B_Chequea, B_DuermeVacio, B_Lock, B_Rebloquea, B_Pregunta,
       B_DuermeBlock, B_Despierta, B_RecibeFin, B_AvisaReady, B_SenalReady
  <2> QED
    BY <1>1, <1>2, <2>1
<1>12. CASE Interbloqueo /\ ~D_Elige /\ ~D_Espera /\ ~D_Entrega
  <2>1. UNCHANGED fallo \/ fallo' = "nulo"
    BY <1>12 DEF Interbloqueo, D_Chequea, D_Lock, D_Calcula, D_Desafia, D_EligeNull,
       D_SacaCaido, D_Libera, D_Mata, D_Saca, D_EsperaNull, D_AvisaReady, D_SenalReady,
       D_EntregaNull, D_Rebloquea, D_AvisaVacio, D_SenalVacio, D_Suelta, D_Despierta,
       SacarDeBlock, UsarMsj
  <2> QED
    BY <1>1, <1>2, <2>1
<1>13. CASE Atender
  <2>1. UNCHANGED fallo \/ fallo' = "nulo"
    BY <1>13 DEF Atender, M_Select, M_Acepta, M_AceptaNull, M_AvisaReady, M_SenalReady,
       M_Revisa, M_Borra, M_Saca, M_AvisaBlock, M_Termina
  <2> QED
    BY <1>1, <1>2, <2>1
<1>14. CASE Recargar \/ UNCHANGED vars
  BY <1>1, <1>14 DEF Recargar, vars
<1>15. CASE \E c \in Conexiones : E_Conecta(c) \/ Avanza(c) \/ E_Cae(c)
  BY <1>1, <1>15 DEF E_Conecta, E_Cae, Avanza, E_Saluda, E_Camina, E_Captura, E_Pelea,
     E_Muere, E_Otro
<1> QED
  BY <1>3, <1>4, <1>5, <1>6, <1>8, <1>9, <1>10, <1>11, <1>12, <1>13, <1>14, <1>15 DEF Next

(***************************************************************************)
(* In those histories no thread of the map takes a pokemon for a message,  *)
(* or a message for the pokemon of a fight, and none gives a pokemon to a  *)
(* trainer whose dictionary was destroyed.                                 *)
(***************************************************************************)
THEOREM Spec_TramasEnOrden ==
    Spec /\ []Disciplina /\ []PeleaResuelta /\ MismoAlgoritmo => []TramasEnOrden
<1>1. Init => TramasEnOrden
  BY DEF Init, TramasEnOrden
<1> QED
  BY <1>1, NextEnOrden, Spec_Sabido, PTL DEF Spec
=============================================================================
