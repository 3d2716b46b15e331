-------------------------- MODULE PokedexServidor --------------------------
(***************************************************************************)
(* The pokedex server (pokedex_servidor/src/pokedex_servidor.c and         *)
(* main.c): a thread per client, that receives a request, runs it on the   *)
(* OSADA file system and answers.                                          *)
(***************************************************************************)
EXTENDS Osada

CONSTANTS
    Escenarios,     \* what the clients may be doing
    Pedidos(_, _),  \* the requests that the client of a thread sends in a scenario
    MaxTamanio      \* bound on the size of a file

Acciones == {"READ", "READDIR", "GETATTR", "MKDIR", "WRITE", "RENAME", "RM", "RMDIR",
             "CREATE", "TRUNCATE", "UTIMENS"}

Mensaje == [accion : Acciones, path : Rutas \ {<<>>}, nuevoNombre : Rutas, size : Nat,
            off : Nat]

VARIABLE registro   \* log_serv points to a log: each thread opens one and closes the last

ASSUME ServidorAssumption ==
    /\ \A e \in Escenarios : \A h \in Hilos : Pedidos(e, h) \subseteq Mensaje
    \* No kernel renames to the root.
    /\ \A e \in Escenarios : \A h \in Hilos : \A m \in Pedidos(e, h) :
          m.accion = "RENAME" => m.nuevoNombre # <<>>
    /\ MaxTamanio \in Nat

-----------------------------------------------------------------------------
\* "VACIA" is an OK with a list of no files.
Respuestas == {"NULL", "OK", "VACIA", "0", "ERROR", "ENOENT", "EDQUOT", "ENOSPC", "EPERM",
               "EFBIG"}

Vacio == [state |-> "DELETED", fname |-> "", parent_directory |-> RAIZ, file_size |-> 0,
          first_block |-> FIN]

\* The disk is mapped, with no file in it, and the server listens.
InitServidor ==
    /\ bitmap = {}
    /\ tablaAsignacion = [b \in Posiciones |-> IF b = FIN THEN MemoriaPrevia ELSE FIN]
    /\ tablaArchivos = [s \in Archivos |-> Vacio]
    /\ escritor = [s \in Archivos |-> Nadie]
    /\ lectores = [s \in Archivos |-> {}]
    /\ pc = [h \in Hilos |-> "fuera"]
    /\ loc = [h \in Hilos |-> SinLocales]
    /\ escenario \in Escenarios
    /\ msj = [h \in Hilos |-> SinMensaje]
    /\ respuesta = [h \in Hilos |-> "NULL"]
    /\ vivo = TRUE /\ registro = TRUE
-----------------------------------------------------------------------------
\* What the kernel of a client sees of a path (getattr) before it sends a request: it
\* creates what is not there and uses what is, and it writes anywhere.  All of it may
\* have changed when the request is attended.
PosicionDe(path) ==
    LET primera == GetOsadaFile(Head(path), RAIZ)
    IN  IF Len(path) = 1 \/ primera = NULO THEN primera ELSE GetOsadaFile(path[2], primera)

LoPide(m) ==
    /\ m.accion \in {"CREATE", "MKDIR"} => PosicionDe(m.path) = NULO
    /\ m.accion \notin {"CREATE", "MKDIR", "GETATTR"} => PosicionDe(m.path) # NULO
    /\ m.accion = "WRITE" => m.off + m.size <= MaxTamanio

\* The step for which each handler looks its path up first.
Entrada(accion) ==
    CASE accion \in {"READ", "MKDIR", "WRITE"} -> "existe"
      [] accion \in {"GETATTR", "UTIMENS"} -> "consultar"
      [] accion = "READDIR" -> "readdir"
      [] accion = "CREATE" -> "asignar"
      [] accion = "RM" -> "borrar"
      [] accion = "RMDIR" -> "borrarDir"
      [] accion = "TRUNCATE" -> "truncar"
      [] accion = "RENAME" -> "renOrigen"

\* newOsadaFile begins with the directory where the file will be.
RutaBuscada(m) == IF m.accion = "CREATE" THEN PathPadre(m.path) ELSE m.path

\* main accepts a connection and creates its thread, which opens its log.
Aceptar(h) ==
    /\ En(h, "fuera")
    /\ Ir(h, "recibir")
    /\ registro' = TRUE
    /\ UNCHANGED <<disco, cerrojos, proceso>>

\* recibirMsjPokedex gives m; renameFile answers at once if both paths are the same.
Recibir(h, m) ==
    /\ En(h, "recibir")
    /\ \/ /\ m.accion = "RENAME" /\ m.path = m.nuevoNombre
          /\ Responder(h, "EPERM")
       \/ /\ m.accion # "RENAME" \/ m.path # m.nuevoNombre
          /\ Poner(h, Salto(RutaBuscada(m), Entrada(m.accion)),
                   ConRuta(SinLocales, RutaBuscada(m), Entrada(m.accion)))
          /\ msj' = [msj EXCEPT ![h] = m]
          /\ UNCHANGED respuesta
    /\ UNCHANGED <<disco, cerrojos, proceso, registro>>

\* recibirMsjPokedex gives NULL: the thread destroys log_serv and ends.  It is the log
\* of the thread that came last, and what a second one destroys is freed memory: the
\* process may die.
Desconectar(h) ==
    /\ En(h, "recibir")
    /\ \/ Ir(h, "fin") /\ UNCHANGED <<disco, cerrojos, proceso>>
       \/ ~registro /\ Caer
    /\ registro' = FALSE

\* A handler writes to the log that another thread destroyed, and the process dies; or
\* it does not, and goes on.
UsarRegistroLiberado(h) ==
    /\ ~registro
    /\ \E p \in {"existe", "consultar", "readdir"} : En(h, p)
    /\ msj[h].accion \in {"READ", "WRITE", "GETATTR", "READDIR"}
    /\ Caer

\* isExist: the state is read after mutexTabla is released.
IsExist(h, tipo) ==
    \E s \in {loc[h].info} \cap Archivos : tablaArchivos[s].state = tipo

\* poke_read and poke_write: readFile and writeFile look the path up again.
UsarExistente(h) ==
    /\ En(h, "existe") /\ msj[h].accion \in {"READ", "WRITE"}
    /\ \/ /\ IsExist(h, "REGULAR")
          /\ GetInfoFile(h, msj[h].path, IF msj[h].accion = "READ" THEN "leer" ELSE "escribir",
                         SinLocales)
       \/ /\ ~IsExist(h, "REGULAR")
          /\ Responder(h, IF msj[h].accion = "READ" THEN "ERROR" ELSE "ENOENT")
    /\ UNCHANGED <<disco, cerrojos, proceso>>

\* poke_mkdir: the directory must not exist.
CrearInexistente(h) ==
    /\ En(h, "existe") /\ msj[h].accion = "MKDIR"
    /\ \/ /\ ~IsExist(h, "DIRECTORY")
          /\ GetInfoFile(h, PathPadre(msj[h].path), "asignar", SinLocales)
       \/ /\ IsExist(h, "DIRECTORY")
          /\ Responder(h, "ENOENT")
    /\ UNCHANGED <<disco, cerrojos, proceso>>

\* poke_getattr and poke_utimens: the date of a file is not modelled.
Consultar(h) ==
    /\ En(h, "consultar")
    /\ Responder(h, IF loc[h].info # NULO THEN "OK"
                    ELSE IF msj[h].accion = "GETATTR" THEN "ERROR" ELSE "ENOENT")
    /\ UNCHANGED <<disco, cerrojos, proceso>>

\* poke_readdir
Readdir(h) ==
    /\ En(h, "readdir") /\ loc[h].info # NULO
    /\ Responder(h, IF GetListFiles(loc[h].info) = {} THEN "VACIA" ELSE "OK")
    /\ UNCHANGED <<disco, cerrojos, proceso>>

\* The directory is not there: enviarMsjReaddir counts the files of a NULL list.
ReaddirNada(h) == En(h, "readdir") /\ loc[h].info = NULO /\ Caer
-----------------------------------------------------------------------------
Crear(h) == AsignarEnTablaDeArchivos(h) \/ NoAsignar(h)

LeerArchivo(h) == LeerNada(h) \/ LockearLectura(h) \/ Leer(h)

EscribirArchivo(h) ==
    \/ EscribirNada(h) \/ Escribir(h) \/ ReservarPrimero(h) \/ Ubicar(h)
    \/ ReservarSiguiente(h) \/ EnlazarUltimo(h) \/ LockearEscritura(h)
    \/ CopiarPrimero(h) \/ SumarBloque(h) \/ CerrarCadena(h) \/ GuardarTamanio(h)

BorrarArchivo(h) ==
    \/ NoBorrar(h) \/ Borrar(h) \/ LiberarBloques(h) \/ BorrarDirectorio(h)
    \/ Listar(h) \/ ListarNada(h) \/ Marcar(h)

RenombrarArchivo(h) ==
    \/ RenombrarNada(h) \/ RenombrarOrigen(h) \/ RenombrarPadre(h)
    \/ ReemplazarDestino(h) \/ Renombrar(h)

TruncarArchivo(h) ==
    \/ TruncarNada(h) \/ TruncarVacio(h) \/ ReservarTruncado(h) \/ TruncarCreciendo(h)
    \/ TruncarAchicando(h) \/ TruncarLee(h) \/ TruncarEscribe(h) \/ TruncarTamanio(h)
    \/ IndiceInvalido(h)

\* A step of the thread that is not in recv.
Atender(h) ==
    \/ Buscar(h) \/ UsarExistente(h) \/ CrearInexistente(h) \/ Consultar(h)
    \/ Readdir(h) \/ ReaddirNada(h) \/ UsarRegistroLiberado(h) \/ Crear(h) \/ LeerArchivo(h)
    \/ EscribirArchivo(h) \/ BorrarArchivo(h) \/ RenombrarArchivo(h) \/ TruncarArchivo(h)

\* The system schedules every thread, and a lock that is released over and over is
\* handed to the one that waits for it.
Justicia ==
    \A h \in Hilos :
        /\ WF_vars(Atender(h)) /\ WF_vars(Aceptar(h))
        /\ SF_vars(LockearEscritura(h)) /\ SF_vars(LockearLectura(h))
-----------------------------------------------------------------------------
\* Every table, lock, request and answer keeps its type, and so do the local variables of
\* each thread; the positions of the bitmap, of the allocation table and of the threads
\* are those of the disk, or the end of a chain.
TypeOK ==
    /\ bitmap \subseteq Bloques
    /\ tablaAsignacion \in [Posiciones -> Posiciones]
    /\ tablaArchivos \in [Archivos -> Archivo]
    /\ escritor \in [Archivos -> Hilos \cup {Nadie}]
    /\ lectores \in [Archivos -> SUBSET Hilos]
    /\ pc \in [Hilos -> Etapas] /\ loc \in [Hilos -> Local]
    /\ msj \in [Hilos -> Mensaje \cup {SinMensaje}]
    /\ respuesta \in [Hilos -> Respuestas]
    /\ vivo \in BOOLEAN /\ registro \in BOOLEAN

\* Who copies to file s, and who copies from it.
EstaEscribiendo(h, s) == pc[h] \in {"copiar", "bloque", "tamanio"} /\ loc[h].file = s
EstaLeyendo(h, s) == pc[h] = "leyendo" /\ loc[h].file = s

\* The lock of a file is held by those that copy its data and by nobody else, one that
\* writes or any that read: it is taken before the first byte and released on every way
\* out, so that nobody waits for a thread that is not working.
Cerrojos ==
    \A s \in Archivos :
        /\ \A h \in Hilos : /\ escritor[s] = h <=> EstaEscribiendo(h, s)
                            /\ h \in lectores[s] <=> EstaLeyendo(h, s)
        /\ escritor[s] # Nadie => lectores[s] = {}

\* What the client says of rmdir: a directory is deleted only while it is empty.
\* deleteDirectory lists it and marks it in two steps, and a file may be created there
\* in between.
DirectorioVacio ==
    [][\A s \in Archivos :
           (tablaArchivos[s].state = "DIRECTORY" /\ tablaArchivos'[s].state = "DELETED")
               => GetListFiles(s) = {}]_vars
=============================================================================
