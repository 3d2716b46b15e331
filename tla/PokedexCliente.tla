--------------------------- MODULE PokedexCliente ---------------------------
(***************************************************************************)
(* The clients of the pokedex (pokedex_cliente/src/pokedex_cliente.c), one *)
(* for each thread of the server, and the two together.  FUSE calls a      *)
(* callback; it sends a request over the only socket and waits for the     *)
(* answer, which it turns into what the kernel gets.  The scripts mount    *)
(* with -s, so a client makes one call at a time.                          *)
(***************************************************************************)
EXTENDS PokedexCuidado

CONSTANTS
    Largos,     \* the names longer than OSADA_FILENAME_LENGTH
    ConPunto,   \* the names with a '.' or a ','
    MuerenEn,   \* the scenarios in which a client may be killed
    CallanEn    \* those in which there are no more calls after a slip, a bound

VARIABLES
    cliente,    \* "vivo", "muerto", or "cortado": killed before the data of its write
    llamada,    \* the callback a client is in, as the request it sends
    pedido,     \* sent and not yet received
    toco        \* history: the thread changed what can be seen of the files for this call

clientes == <<cliente, llamada, pedido, toco, tropezo>>
todo == <<vars, registro, clientes>>

Init ==
    /\ InitServidor
    /\ cliente = [h \in Hilos |-> "vivo"]
    /\ llamada = [h \in Hilos |-> SinMensaje]
    /\ pedido = [h \in Hilos |-> SinMensaje]
    /\ toco = [h \in Hilos |-> FALSE]
    /\ tropezo = FALSE
-----------------------------------------------------------------------------
\* The callbacks that return without asking the server: a name that does not fit, a
\* directory whose name looks like a file.
NombreNuevo(m) == IF m.accion = "RENAME" THEN NombreFile(m.nuevoNombre) ELSE NombreFile(m.path)

SinPedido(m) ==
    \/ /\ m.accion \in {"GETATTR", "MKDIR", "RENAME", "CREATE", "TRUNCATE"}
       /\ NombreNuevo(m) \in Largos
    \/ m.accion = "MKDIR" /\ NombreNuevo(m) \in ConPunto

\* Between the request and the answer of a callback.
EnLlamada(h) == llamada[h] # SinMensaje

\* A callback sends its request.  Bounds: no calls to a server that died, nor after a
\* slip in some scenarios.
Llamar(h) ==
    /\ vivo /\ cliente[h] = "vivo" /\ ~EnLlamada(h)
    /\ escenario \in CallanEn => ~tropezo
    /\ \E m \in Pedidos(escenario, h) :
          /\ LoPide(m) /\ ~SinPedido(m)
          /\ llamada' = [llamada EXCEPT ![h] = m]
          /\ pedido' = [pedido EXCEPT ![h] = m]
    /\ toco' = [toco EXCEPT ![h] = FALSE]
    /\ UNCHANGED <<vars, registro, cliente, tropezo>>

\* Mutation: every callback does what that of mkdir does.
RetornoSinError(m, r) == IF m.accion \in {"READ", "GETATTR"} /\ r # "OK" THEN "ENOENT" ELSE "0"

\* What the kernel gets for each answer: mkdir never fails, an empty directory is not
\* found, read and getattr know one error, utimens changes the sign of its error twice
\* and gives a number that is none, and the others pass it on.
Retorno(m, r) ==
    CASE m.accion = "MKDIR" -> "0"
      [] m.accion = "READDIR" /\ r = "VACIA" -> "ENOENT"
      [] m.accion \in {"READ", "GETATTR"} /\ r # "OK" -> "ENOENT"
      [] r \in {"OK", "VACIA", "0"} -> "0"
      [] m.accion = "UTIMENS" -> "POSITIVO"
      [] OTHER -> r

Retornar(h) ==
    /\ cliente[h] = "vivo" /\ respuesta[h] # "NULL"
    /\ llamada' = [llamada EXCEPT ![h] = SinMensaje]
    /\ respuesta' = [respuesta EXCEPT ![h] = "NULL"]
    /\ toco' = [toco EXCEPT ![h] = FALSE]
    /\ UNCHANGED <<disco, cerrojos, pc, loc, msj, proceso, registro, cliente, pedido, tropezo>>

\* The server died: recibirMsjGetattr and recibirMsjRead take what is in memory for an
\* error, the others read through a NULL.
RetornarSinServidor(h) ==
    /\ ~vivo /\ cliente[h] = "vivo" /\ EnLlamada(h) /\ respuesta[h] = "NULL"
    /\ \/ /\ llamada[h].accion \in {"READ", "GETATTR"}
          /\ UNCHANGED cliente
       \/ cliente' = [cliente EXCEPT ![h] = "muerto"]
    /\ llamada' = [llamada EXCEPT ![h] = SinMensaje]
    /\ UNCHANGED <<vars, registro, pedido, toco, tropezo>>

\* The process of the client is killed; a write is two sends.
Morir(h) ==
    /\ escenario \in MuerenEn
    /\ vivo /\ cliente[h] = "vivo"
    /\ \E como \in {"muerto"} \cup (IF pedido[h].accion = "WRITE" THEN {"cortado"} ELSE {}) :
          cliente' = [cliente EXCEPT ![h] = como]
    /\ llamada' = [llamada EXCEPT ![h] = SinMensaje]
    /\ UNCHANGED <<vars, registro, pedido, toco, tropezo>>
-----------------------------------------------------------------------------
(***************************************************************************)
(* The threads of the server at the other end of the sockets.              *)
(***************************************************************************)
\* poke_write waits for its data in the loop of recibirBuffer: for ever, if the client
\* was killed in between.
RecibirPedido(h) ==
    /\ pedido[h] # SinMensaje /\ cliente[h] # "cortado"
    /\ Recibir(h, pedido[h])
    /\ pedido' = [pedido EXCEPT ![h] = SinMensaje]
    /\ UNCHANGED <<cliente, llamada, toco, tropezo>>

RecibirNulo(h) ==
    /\ cliente[h] = "muerto" /\ pedido[h] = SinMensaje
    /\ Desconectar(h)
    /\ UNCHANGED clientes

\* The names, places and sizes of the files; what a slot not in use has is not seen.
Visible ==
    [s \in Archivos |-> IF tablaArchivos[s].state = "DELETED" THEN Vacio
                        ELSE [tablaArchivos[s] EXCEPT !.first_block = FIN]]

AtenderPedido(h) ==
    /\ Atender(h)
    /\ toco' = [toco EXCEPT ![h] = @ \/ Visible' # Visible]
    /\ tropezo' = (tropezo \/ Resbala)
    /\ UNCHANGED <<registro, cliente, llamada, pedido>>

Next ==
    \E h \in Hilos :
        \/ Llamar(h) \/ Retornar(h) \/ RetornarSinServidor(h) \/ Morir(h)
        \/ Aceptar(h) /\ UNCHANGED clientes
        \/ RecibirPedido(h) \/ RecibirNulo(h) \/ AtenderPedido(h)

\* The clients run, and the server as it says; none has to call or die.
JusticiaClientes ==
    \A h \in Hilos :
        /\ WF_todo(Retornar(h)) /\ WF_todo(RetornarSinServidor(h)) /\ WF_todo(RecibirPedido(h))

Spec == Init /\ [][Next]_todo /\ Justicia /\ JusticiaClientes
-----------------------------------------------------------------------------
\* The call of h was answered, and the kernel will be told that it was done.
Contestada(h) == EnLlamada(h) /\ respuesta[h] # "NULL"
Lograda(h) == Contestada(h) /\ Retorno(llamada[h], respuesta[h]) = "0"

\* What a callback tells the kernel is what happened: after a call that fails no file
\* has another name, place or size, and a call that creates a file and does not fail
\* did it.  mkdir never fails, and two clients may delete the same file.
RetornoVeraz ==
    \A h \in Hilos :
        /\ Contestada(h) /\ ~Lograda(h) => ~toco[h]
        /\ Lograda(h) /\ llamada[h].accion = "CREATE" => toco[h]

\* Every call returns, or its client dies with the server: a chain has an end, no
\* thread keeps the lock of a file, also when its client was killed, and nobody waits
\* for it for ever.
TodaLlamadaVuelve ==
    \A h \in Hilos : EnLlamada(h) ~> ~EnLlamada(h)
=============================================================================
