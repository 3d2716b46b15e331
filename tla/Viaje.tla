------------------------------- MODULE Viaje --------------------------------
(***************************************************************************)
(* The journey of one trainer process over the maps of its hojaDeViaje:    *)
(* initEntrenador and iniciarMapa, the signal handlers and the question at *)
(* the end of a game (entrenador/src/main.c), what it keeps on disk and in *)
(* its list (entrenador/src/entrenador.c).  It reads through Tramas.  The  *)
(* walk inside a map is the subject of Entrenador: here a request for a    *)
(* place is answered once and the pokemon is asked for.                    *)
(*                                                                         *)
(* pila is the stack of the process.  A "juego" is an initEntrenador:      *)
(*   viaje -> recibe -> pokemon -> guarda -> medalla -> viaje (next map)   *)
(*            recibe -> resta -> perdido -> viaje (same map) | pregunta    *)
(* "usr1" and "term" are the handlers; one runs over whatever is below,    *)
(* the other one and a new juego started in a handler included.            *)
(***************************************************************************)
EXTENDS Tramas, Integers

CONSTANTS
    HojaDeViaje,    \* the names of the maps, in order
    Cuantos,        \* how many pokemons obj[mapa] lists
    VidasIniciales,
    Lineas,         \* what the player may type, characters of a line
    Senales,        \* bound: SIGUSR1 and SIGTERM that arrive
    Fallos          \* bound: connections that fail

ASSUME ViajeAssumption ==
    /\ Len(HojaDeViaje) \in Nat
    /\ \A i \in 1 .. Len(HojaDeViaje) : Cuantos[HojaDeViaje[i]] \in Nat \ {0}
    /\ VidasIniciales \in Nat \ {0} /\ Senales \in Nat /\ Fallos \in Nat
    /\ \A l \in Lineas : l # <<>>
ASSUME MensajesAssumption ==
    {"UBICACION", "CAPTURAR", "POKEMON", "BATALLA", "MUERTE"} \subseteq Mensajes

VARIABLES
    pila,
    vidas,
    lista,          \* entrenador->pokemones
    bill,           \* the files in Dir de Bill
    copias,         \* the cp processes still running, by the file they copy
    medallas,
    cliente,        \* "nulo", "abierto", or "cerrado" (what it points to is freed)
    teclado,        \* typed and not read by getc()
    pedido,         \* what the map has to answer: "nada" while it has answered
    liberado,       \* entrenador was freed
    fin,            \* "no", or how the process ended
    senales, fallos,
    sinConexion, rendido    \* history: maps skipped, and a game given up

partida == <<vidas, lista, bill, medallas>>
historia == <<sinConexion, rendido>>
vars == <<conexion, pila, partida, copias, cliente, teclado, pedido, liberado, fin,
          senales, fallos, historia>>

Marco(tipo, fase, v) ==
    [tipo |-> tipo, fase |-> fase, v |-> v, var |-> 1, resta |-> 0, msj |-> "vivo"]

\* The loop of initEntrenador at its var-th map, with all its pokemons to be caught.
EnMapa(f, var) ==
    [f EXCEPT !.fase = "viaje", !.var = var,
              !.resta = IF var <= Len(HojaDeViaje) THEN Cuantos[HojaDeViaje[var]] ELSE 0]

initEntrenador == EnMapa(Marco("juego", "viaje", 0), 1)

Cima == pila[Len(pila)]
Cambia(f) == pila' = [pila EXCEPT ![Len(pila)] = f]
Llama(f) == pila' = Append(pila, f)
Retorna == pila' = SubSeq(pila, 1, Len(pila) - 1)

Juego(fase) == fin = "no" /\ Cima.tipo = "juego" /\ Cima.fase = fase
Pasa(fase) == Cambia([Cima EXCEPT !.fase = fase])
Mapa == HojaDeViaje[Cima.var]
Termina(como) == fin' = como /\ UNCHANGED <<pila, liberado>>

Init ==
    /\ InitTramas
    /\ pila = <<initEntrenador>> /\ vidas = VidasIniciales
    /\ lista = {} /\ bill = {} /\ copias = {} /\ medallas = {}
    /\ cliente = "nulo" /\ teclado = <<>> /\ pedido = "nada"
    /\ liberado = FALSE /\ fin = "no"
    /\ senales = 0 /\ fallos = 0 /\ sinConexion = {} /\ rendido = FALSE
-----------------------------------------------------------------------------
(***************************************************************************)
(* initEntrenador, iniciarMapa.                                            *)
(***************************************************************************)
MaestroPokemon ==
    /\ Juego("viaje") /\ Cima.var > Len(HojaDeViaje)
    /\ Termina("maestro")
    /\ UNCHANGED <<conexion, partida, copias, cliente, teclado, pedido, senales,
                   fallos, historia>>

\* The first message goes out from msjEntrenador and frees it.
iniciarMapa ==
    /\ Juego("viaje") /\ Cima.var <= Len(HojaDeViaje)
    /\ socketConectado
    /\ cliente' = "abierto" /\ pedido' = "UBICACION"
    /\ Cambia([Cima EXCEPT !.fase = "recibe", !.resta = @ - 1, !.msj = "liberado"])
    /\ UNCHANGED <<partida, copias, teclado, liberado, fin, senales, fallos, historia>>

\* EXIT_FAILURE is not OBJETIVO_PERDIDO: the loop goes on with the next map.
NoConecta ==
    /\ Juego("viaje") /\ Cima.var <= Len(HojaDeViaje)
    /\ fallos < Fallos /\ fallos' = fallos + 1
    /\ cliente' = "nulo" /\ sinConexion' = sinConexion \cup {Mapa}
    /\ Cambia(EnMapa(Cima, Cima.var + 1))
    /\ UNCHANGED <<conexion, partida, copias, teclado, pedido, liberado, fin, senales,
                   rendido>>

\* From the second connection on msjEntrenador is used after it was freed, and so is
\* entrenador in a loop that goes on after a nested game was given up: the memory
\* still holds what it held (the actions above) or the process dies.
UsaLiberado ==
    /\ Juego("viaje") /\ Cima.var <= Len(HojaDeViaje)
    /\ Cima.msj = "liberado" \/ liberado
    /\ Termina("nulo")
    /\ UNCHANGED <<conexion, partida, copias, cliente, teclado, pedido, senales,
                   fallos, historia>>

\* Mutation: --var forgotten.
VuelveAlMapaSiguiente ==
    /\ Juego("perdido") /\ vidas > 0
    /\ Cambia(EnMapa(Cima, Cima.var + 1))
    /\ UNCHANGED <<conexion, partida, copias, cliente, teclado, pedido, liberado, fin,
                   senales, fallos, historia>>

\* OBJETIVO_PERDIDO with lives left: cargarPokemons and the same map again.
VuelveAlMapa ==
    /\ Juego("perdido") /\ vidas > 0
    /\ Cambia(EnMapa(Cima, Cima.var))
    /\ UNCHANGED <<conexion, partida, copias, cliente, teclado, pedido, liberado, fin,
                   senales, fallos, historia>>

PierdeElJuego ==
    /\ Juego("perdido") /\ vidas <= 0
    /\ Pasa("pregunta")
    /\ UNCHANGED <<conexion, partida, copias, cliente, teclado, pedido, liberado, fin,
                   senales, fallos, historia>>
-----------------------------------------------------------------------------
(***************************************************************************)
(* gestionarEntrenador.                                                    *)
(***************************************************************************)
Recibiendo == Juego("recibe") \/ Juego("pokemon")

Recv ==
    /\ Recibiendo /\ (recibirSize \/ recibirBuffer)
    /\ UNCHANGED <<pila, partida, copias, cliente, teclado, pedido, liberado, fin,
                   senales, fallos, historia>>

\* The map closed: the message is NULL, and mensaje->accion is read.
RecibeNulo ==
    /\ Recibiendo /\ Toma(Nulo)
    /\ Termina("nulo")
    /\ UNCHANGED <<partida, copias, cliente, teclado, pedido, senales, fallos, historia>>

RecibeUbicacion ==
    /\ Juego("recibe") /\ Toma("UBICACION")
    /\ pedido' = "CAPTURAR"
    /\ UNCHANGED <<pila, partida, copias, cliente, teclado, liberado, fin, senales,
                   fallos, historia>>

RecibeCapturar ==
    /\ Juego("recibe") /\ Toma("CAPTURAR")
    /\ Pasa("pokemon")
    /\ UNCHANGED <<partida, copias, cliente, teclado, pedido, liberado, fin, senales,
                   fallos, historia>>

\* How many of this map's pokemons a game has: all but those left and the one asked.
Tiene(j) == Cuantos[HojaDeViaje[j.var]] - j.resta - 1

Capturado == <<Mapa, Tiene(Cima) + 1>>

\* list_add, and guardarEnLoDeBill starts a cp.
RecibePokemon ==
    /\ Juego("pokemon") /\ Toma("POKEMON")
    /\ lista' = lista \cup {Capturado} /\ copias' = copias \cup {Capturado}
    /\ Pasa("guarda")
    /\ UNCHANGED <<vidas, bill, medallas, cliente, teclado, pedido, liberado, fin,
                   senales, fallos, historia>>

\* A cp ends.  system() waits for its own; one that a handler left behind ends when
\* it ends.
TerminaCopia(p) ==
    /\ p \in copias /\ fin = "no"
    /\ copias' = copias \ {p} /\ bill' = bill \cup {p}
    /\ UNCHANGED <<conexion, pila, vidas, lista, medallas, cliente, teclado, pedido,
                   liberado, fin, senales, fallos, historia>>

Guardado == Juego("guarda") /\ Capturado \notin copias

\* Mutation: the queue of pokemons not looked at.
SiguientePokemonSinMirar ==
    /\ Guardado
    /\ pedido' = "UBICACION"
    /\ Cambia([Cima EXCEPT !.fase = "recibe", !.resta = @ - 1])
    /\ UNCHANGED <<conexion, partida, copias, cliente, teclado, liberado, fin, senales,
                   fallos, historia>>

SiguientePokemon ==
    /\ Guardado /\ Cima.resta > 0
    /\ pedido' = "UBICACION"
    /\ Cambia([Cima EXCEPT !.fase = "recibe", !.resta = @ - 1])
    /\ UNCHANGED <<conexion, partida, copias, cliente, teclado, liberado, fin, senales,
                   fallos, historia>>

obtenerMedalla ==
    /\ Guardado /\ Cima.resta = 0
    /\ medallas' = medallas \cup {Mapa}
    /\ Pasa("medalla")
    /\ UNCHANGED <<conexion, vidas, lista, bill, copias, cliente, teclado, pedido,
                   liberado, fin, senales, fallos, historia>>

\* Mutation: list_clean forgotten.
borrarPokemonsSinLista == bill' = {} /\ UNCHANGED lista

borrarPokemons == bill' = {} /\ lista' = {}

ObjetivoCumplido ==
    /\ Juego("medalla")
    /\ borrarPokemons
    /\ cliente' = "cerrado" /\ pedido' = "nada"
    /\ Cambia(EnMapa(Cima, Cima.var + 1))
    /\ UNCHANGED <<conexion, vidas, medallas, copias, teclado, liberado, fin, senales,
                   fallos, historia>>

RecibeBatalla ==
    /\ Juego("recibe") /\ Toma("BATALLA")
    /\ IF lista = {}
         THEN Termina("nulo") /\ UNCHANGED pedido
         ELSE pedido' = "POKEMON" /\ UNCHANGED <<pila, liberado, fin>>
    /\ UNCHANGED <<partida, copias, cliente, teclado, senales, fallos, historia>>

\* vidas -= 1 is a read and a write: a handler may run in between.
RecibeMuerte ==
    /\ Juego("recibe") /\ Toma("MUERTE")
    /\ Cambia([Cima EXCEPT !.fase = "resta", !.v = vidas])
    /\ UNCHANGED <<partida, copias, cliente, teclado, pedido, liberado, fin, senales,
                   fallos, historia>>

\* Mutation: the life is not lost.
RestaVidaNada ==
    /\ Juego("resta")
    /\ cliente' = "cerrado" /\ pedido' = "nada"
    /\ Pasa("perdido")
    /\ UNCHANGED <<conexion, partida, copias, teclado, liberado, fin, senales, fallos,
                   historia>>

RestaVida ==
    /\ Juego("resta")
    /\ vidas' = Cima.v - 1
    /\ cliente' = "cerrado" /\ pedido' = "nada"
    /\ Pasa("perdido")
    /\ UNCHANGED <<conexion, lista, bill, medallas, copias, teclado, liberado, fin,
                   senales, fallos, historia>>
-----------------------------------------------------------------------------
(***************************************************************************)
(* sig_handler.  A signal is blocked while its own handler is in the stack.*)
(***************************************************************************)
Llega(tipo) ==
    /\ fin = "no" /\ senales < Senales /\ senales' = senales + 1
    /\ \A i \in 1 .. Len(pila) : pila[i].tipo # tipo

\* The read of vidas + 1, and of vidas > 1 and vidas - 1.
SIGUSR1 ==
    /\ Llega("usr1")
    /\ Llama(Marco("usr1", "suma", vidas))
    /\ UNCHANGED <<conexion, partida, copias, cliente, teclado, pedido, liberado, fin,
                   fallos, historia>>

\* Mutation: it takes the last life and plays on.
SIGTERMUltima ==
    /\ Llega("term")
    /\ Llama(Marco("term", IF vidas > 0 THEN "quita" ELSE "cierra", vidas))
    /\ UNCHANGED <<conexion, partida, copias, cliente, teclado, pedido, liberado, fin,
                   fallos, historia>>

SIGTERM ==
    /\ Llega("term")
    /\ Llama(Marco("term", IF vidas > 1 THEN "quita" ELSE "cierra", vidas))
    /\ UNCHANGED <<conexion, partida, copias, cliente, teclado, pedido, liberado, fin,
                   fallos, historia>>

\* The write, and back to what was interrupted.
Escribe(fase, v) ==
    /\ fin = "no" /\ Cima.fase = fase
    /\ vidas' = v
    /\ Retorna
    /\ UNCHANGED <<conexion, lista, bill, medallas, copias, cliente, teclado, pedido,
                   liberado, fin, senales, fallos, historia>>

SumaVida == Escribe("suma", Cima.v + 1)
QuitaVida == Escribe("quita", Cima.v - 1)

\* Without lives: closeSocket(cliente->ptrSocket), and cliente may be NULL.
CierraSocket ==
    /\ fin = "no" /\ Cima.fase = "cierra"
    /\ IF cliente = "nulo"
         THEN Termina("nulo") /\ UNCHANGED <<cliente, pedido>>
         ELSE /\ cliente' = "cerrado" /\ pedido' = "nada"
              /\ Pasa("pregunta")
              /\ UNCHANGED <<liberado, fin>>
    /\ UNCHANGED <<conexion, partida, copias, teclado, senales, fallos, historia>>
-----------------------------------------------------------------------------
(***************************************************************************)
(* "Desea reiniciar el juego? s/n", in initEntrenador and in the handler.  *)
(***************************************************************************)
Pregunta == fin = "no" /\ Cima.fase = "pregunta"

\* getc() reads one character; the rest of the line stays for the next question.
Teclea ==
    /\ Pregunta /\ teclado = <<>>
    /\ teclado' \in Lineas
    /\ UNCHANGED <<conexion, pila, partida, copias, cliente, pedido, liberado, fin,
                   senales, fallos, historia>>

Responde(si) ==
    /\ Pregunta /\ teclado # <<>> /\ (Head(teclado) = "s") = si
    /\ teclado' = Tail(teclado)
    /\ borrarPokemons

\* recargarEntrenador, and a new journey over the question.
recargarEntrenador ==
    /\ Responde(TRUE)
    /\ vidas' = VidasIniciales
    /\ Llama(initEntrenador)
    /\ UNCHANGED <<conexion, medallas, copias, cliente, pedido, liberado, fin, senales,
                   fallos, historia>>

\* The loop below this initEntrenador, to which its return gives control.
Continua ==
    /\ Cima.tipo = "juego" /\ Len(pila) > 1
    /\ pila[Len(pila) - 1].tipo = "juego"

\* freeEntrenador; a second time is a double free, and the first may die too: it takes
\* for t_info_pokemon the names still queued in the maps.  Main's and the handler's own
\* process ends, but a nested initEntrenador just returns and the loop that called
\* it goes on with its next map.
SeRinde ==
    /\ Responde(FALSE)
    /\ rendido' = TRUE /\ liberado' = TRUE
    /\ \/ fin' = "nulo"
       \/ ~liberado /\ fin' = IF Continua THEN "no" ELSE "rendido"
    /\ IF Continua
         THEN LET abajo == Len(pila) - 1
              IN  pila' = Append(SubSeq(pila, 1, abajo - 1),
                                 EnMapa(pila[abajo], pila[abajo].var + 1))
         ELSE UNCHANGED pila
    /\ UNCHANGED <<conexion, vidas, medallas, copias, cliente, pedido, senales, fallos,
                   sinConexion>>
-----------------------------------------------------------------------------
(***************************************************************************)
(* The map at the other end: it answers what it was asked.                 *)
(***************************************************************************)
delEntrenador == <<pila, partida, copias, cliente, teclado, liberado, fin, senales,
                   fallos, historia>>

EnElMapa == cliente = "abierto" /\ fin = "no"

\* The game that is in the map: the last initEntrenador called.
Ultimo == CHOOSE i \in 1 .. Len(pila) :
              /\ pila[i].tipo = "juego"
              /\ \A k \in i + 1 .. Len(pila) : pila[k].tipo # "juego"

Contesta(de, m, luego) ==
    /\ EnElMapa /\ pedido \in de
    /\ enviarBuffer(m)
    /\ pedido' = luego
    /\ UNCHANGED delEntrenador

DaUbicacion == Contesta({"UBICACION"}, "UBICACION", "nada")

\* A pokemon is two frames; a fight is asked of a trainer that holds some, and ends
\* with a death, a pokemon for the winner or another fight.
DaCapturar == Contesta({"CAPTURAR", "POKEMON"}, "CAPTURAR", "segunda")
DaPokemon == Contesta({"segunda"}, "POKEMON", "nada")
DaBatalla ==
    /\ EnElMapa /\ Tiene(pila[Ultimo]) > 0
    /\ Contesta({"CAPTURAR", "POKEMON"}, "BATALLA", "nada")
DaMuerte == Contesta({"POKEMON"}, "MUERTE", "nada")

\* The map dies, or its connection does.
CaeMapa ==
    /\ EnElMapa /\ Cortar
    /\ pedido' = "nada"
    /\ UNCHANGED delEntrenador
-----------------------------------------------------------------------------
Entrenador ==
    \/ MaestroPokemon \/ iniciarMapa \/ UsaLiberado \/ VuelveAlMapa \/ PierdeElJuego
    \/ Recv \/ RecibeNulo \/ RecibeUbicacion \/ RecibeCapturar \/ RecibePokemon
    \/ SiguientePokemon \/ obtenerMedalla \/ ObjetivoCumplido \/ RecibeBatalla
    \/ RecibeMuerte \/ RestaVida \/ SumaVida \/ QuitaVida \/ CierraSocket
    \/ recargarEntrenador \/ SeRinde

MapaResponde == DaUbicacion \/ DaCapturar \/ DaPokemon \/ DaBatalla \/ DaMuerte

Next ==
    \/ Entrenador \/ MapaResponde \/ Teclea
    \/ \E p \in copias : TerminaCopia(p)
    \/ NoConecta \/ SIGUSR1 \/ SIGTERM \/ CaeMapa

\* The process runs and a cp ends.  Nothing is assumed of the others: no map has to
\* answer (it may leave a trainer blocked, or ready, for ever), no player has to type,
\* and no signal, failed connection or fall has to come.
Justicia ==
    /\ WF_vars(Entrenador)
    /\ WF_vars(\E p \in copias : TerminaCopia(p))

Spec == Init /\ [][Next]_vars /\ Justicia
-----------------------------------------------------------------------------
(***************************************************************************)
(* Properties.                                                             *)
(***************************************************************************)
Fases == {"viaje", "recibe", "pokemon", "guarda", "medalla", "resta", "perdido",
          "pregunta", "suma", "quita", "cierra"}

TypeOK ==
    /\ \A i \in 1 .. Len(pila) :
          /\ pila[i].tipo \in {"juego", "usr1", "term"} /\ pila[i].fase \in Fases
          /\ pila[i].resta \in Nat /\ pila[i].v \in Int
    /\ pila # <<>> /\ vidas \in Int
    /\ medallas \cup sinConexion \subseteq {HojaDeViaje[i] : i \in 1 .. Len(HojaDeViaje)}
    /\ cliente \in {"nulo", "abierto", "cerrado"}
    /\ fin \in {"no", "maestro", "rendido", "nulo"}

\* A game that was not given up is only played with a life: between the loss of a
\* life in a map, the lives that SIGUSR1 gives and SIGTERM takes, and the updates of
\* vidas that interrupt each other, none goes on in a map with 0 or less.
JuegaConVida ==
    pila[Ultimo].fase \in {"viaje", "recibe", "pokemon", "guarda", "medalla"}
        => vidas > 0 \/ liberado

\* Whoever becomes a maestro pokemon without giving up got the medal of every map it
\* could connect to, in this game or in one it restarted.
MaestroConMedallas ==
    fin = "maestro" /\ ~rendido =>
        \A i \in 1 .. Len(HojaDeViaje) : HojaDeViaje[i] \in medallas \cup sinConexion

\* Dir de Bill and entrenador->pokemones agree but for the copies under way; a cp
\* that a restart left behind may leave a file of the game that ended.
BillAlDia ==
    /\ lista \subseteq bill \cup copias
    /\ \/ bill \subseteq lista
       \/ \E i \in 1 .. Len(pila) : pila[i].tipo = "term" /\ pila[i].fase = "pregunta"

\* The process is stopped by somebody else: in recv() with nothing to read while the
\* map owes it an answer, or in getc() with nothing typed.
EsperaAOtro ==
    \/ Recibiendo /\ EnElMapa /\ flujo = <<>> /\ pedido # "nada"
    \/ Pregunta /\ teclado = <<>>

\* It is asked to fight again and again, and neither dies nor gets a pokemon.
PeleaSinFin == []<><<DaBatalla>>_vars /\ <>[][~DaMuerte /\ ~DaCapturar]_vars

\* The process goes on for ever only by what the others do: it ends, its message was
\* cut, it waits from then on for its map or its player, or it fights without end.
\* Its own loops all end: lives run out, a second game given up comes back to a loop
\* that ends, and the rest of the line typed answers the next question.
ViajeTermina ==
    \/ <>(fin # "no" \/ (Recibiendo /\ Girando))
    \/ <>[]EsperaAOtro
    \/ PeleaSinFin

\* "Me rendi" is the end of the journey, not "Me converti en maestro pokemon".
RendidoNoEsMaestro == rendido => fin # "maestro"
=============================================================================
