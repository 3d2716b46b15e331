------------------------------- MODULE Osada -------------------------------
(***************************************************************************)
(* The OSADA file system (pokedex_servidor/src/osada_utils.c): the bitmap, *)
(* the allocation table and the file table, all in shared memory, and the  *)
(* steps of each of its operations.  Every client has a thread of the      *)
(* server (module PokedexServidor), which runs one operation at a time.    *)
(*                                                                         *)
(*   lookup    buscar                                                      *)
(*   create    asignar                                                     *)
(*   read      leer -> leyendo                                             *)
(*   write     escribir [-> primero] -> ubicar [-> reservar -> enlazar]    *)
(*             -> cerrar -> copiar [-> bloque] -> tamanio                  *)
(*   delete    borrar -> liberar -> marcar                                 *)
(*             borrarDir -> listar -> marcar                               *)
(*   rename    renOrigen -> renPadre -> renDestino [-> delete] -> renombrar*)
(*   truncate  truncar -> tPrimero -> tBloque -> tFin                      *)
(*             truncar -> tLee -> tEscribe -> tFin                         *)
(*                                                                         *)
(* Only the mutexes and the lock of a write protect what a step does; the  *)
(* rest of the accesses to the tables have no protection in the code, and  *)
(* the steps of several threads are interleaved here.                      *)
(***************************************************************************)
EXTENDS Integers, SequencesExt

CONSTANTS
    Hilos,          \* the threads of the server, one per client
    Nombres,        \* the names of files and directories
    NBloques,       \* data blocks of the disk: at most 8, so that their bits share a byte
    NArchivos,      \* TABLE_FILE_SIZE
    TamBloque,      \* OSADA_BLOCK_SIZE
    MemoriaPrevia,  \* what is before the allocation table: first_block of a slot not in use
    Nadie           \* no thread

\* 0xFFFFFFFF, -1 as an int
FIN == -1
\* NULL, and 0xFFFF, as the result of a lookup
NULO == -1
RAIZ == 65535

Bloques == 0 .. NBloques - 1
Archivos == 0 .. NArchivos - 1
Posiciones == Bloques \cup {FIN}

ASSUME OsadaAssumption ==
    /\ NBloques \in 1 .. 8
    /\ NArchivos \in 1 .. 2048
    /\ TamBloque \in Nat \ {0}
    /\ MemoriaPrevia \in Posiciones
    /\ Nadie \notin Hilos

VARIABLES
    bitmap,           \* the positions taken
    tablaAsignacion,  \* the block after each block; at FIN, the word before the table
    tablaArchivos,
    escritor, lectores,  \* locks[i]: who holds it to write and to read
    pc, loc,          \* where each thread is, and its local variables
    msj,              \* the request each thread attends
    respuesta,        \* the answer each client has, if it waits for none
    escenario,        \* what the clients are doing: the requests they may send
    vivo              \* FALSE once the process of the server is dead

disco == <<bitmap, tablaAsignacion, tablaArchivos>>
cerrojos == <<escritor, lectores>>
proceso == <<escenario, vivo>>
vars == <<disco, cerrojos, pc, loc, msj, respuesta, proceso>>

Rutas == UNION {[1 .. n -> Nombres] : n \in 0 .. 2}

Archivo == [state : {"DELETED", "REGULAR", "DIRECTORY"}, fname : Nombres \cup {""},
            parent_directory : Archivos \cup {RAIZ}, file_size : Nat,
            first_block : Posiciones]

\* The steps of the operations above, of a lookup for a handler, and out of them.
Etapas ==
    {"fuera", "recibir", "fin", "buscar", "existe", "consultar", "readdir", "asignar", "leer",
     "leyendo", "escribir", "primero", "ubicar", "reservar", "enlazar", "cerrar", "copiar",
     "bloque", "tamanio", "borrar", "liberar", "borrarDir", "listar", "marcar", "renOrigen",
     "renPadre", "renDestino", "renombrar", "truncar", "tPrimero", "tBloque", "tLee",
     "tEscribe", "tFin"}

\* The local variables that live across steps.
Local == [subpaths : Rutas, padre : Archivos \cup {RAIZ}, sigue : Etapas,
          info : Archivos \cup {NULO, RAIZ}, file : Archivos \cup {NULO},
          origen : Archivos \cup {NULO}, destino : Archivos \cup {NULO, RAIZ},
          posBlockPadre : Posiciones, faltan : Nat, bloques : Seq(Posiciones),
          leido : SUBSET Bloques]

SinLocales == [subpaths |-> <<>>, padre |-> RAIZ, sigue |-> "recibir", info |-> NULO,
               file |-> NULO, origen |-> NULO, destino |-> NULO, posBlockPadre |-> FIN,
               faltan |-> 0, bloques |-> <<>>, leido |-> {}]

SinMensaje == [accion |-> "NULL", path |-> <<>>, nuevoNombre |-> <<>>, size |-> 0,
               off |-> 0]

En(h, p) == vivo /\ pc[h] = p

Poner(h, p, l) == pc' = [pc EXCEPT ![h] = p] /\ loc' = [loc EXCEPT ![h] = l]

Pasar(h, p, l) == Poner(h, p, l) /\ UNCHANGED <<msj, respuesta>>

Ir(h, p) == Pasar(h, p, loc[h])

\* The answer is sent and the request freed; the thread goes back to recv.
Responder(h, r) ==
    /\ Poner(h, "recibir", SinLocales)
    /\ msj' = [msj EXCEPT ![h] = SinMensaje]
    /\ respuesta' = [respuesta EXCEPT ![h] = r]

\* A null pointer is read: the process dies.
Caer == vivo' = FALSE /\ UNCHANGED <<disco, cerrojos, pc, loc, msj, respuesta, escenario>>
-----------------------------------------------------------------------------
(***************************************************************************)
(* Bitmap and allocation table.                                            *)
(***************************************************************************)
Techo(bytes) == (bytes + TamBloque - 1) \div TamBloque

\* Mutation: the search that finds no position ends in 0.
PosLibreCero == IF Bloques \subseteq bitmap THEN 0 ELSE Min(Bloques \ bitmap)

\* getPosLibreBitmap
PosLibre == IF Bloques \subseteq bitmap THEN FIN ELSE Min(Bloques \ bitmap)

\* Mutations: the bit is not set; -1 is not left out.
ReservarSinOcupar(pos) == bitmap' = bitmap
ReservarSinMirar(pos) == bitmap' = bitmap \cup {pos}

\* reservarPosicionBitmap, under mutexBitmap: pos is PosLibre.
Reservar(pos) == bitmap' = bitmap \cup ({pos} \ {FIN})

\* hayDisponiblesBitmap: the loop compares before it counts, and never compares
\* after the last bit.
HayDisponibles(n) == Cardinality((0 .. NBloques - 2) \ bitmap) >= n

\* The positions that the first n links from p lead to; nothing follows one of fines.
Camino(p, n, fines) ==
    LET Pos[i \in 0 .. n] == IF i = 0 THEN p
                             ELSE IF Pos[i - 1] \in fines THEN FIN
                             ELSE tablaAsignacion[Pos[i - 1]]
    IN  Pos

\* The position reached from p after n links, past the end of the chain if n is too
\* many.
Recorrer(p, n) == Camino(p, n, {})[n]

GetPosBlock(s, n) ==
    LET p == tablaArchivos[s].first_block
    IN  IF p = FIN THEN FIN ELSE Recorrer(p, n)

\* blocks[desde] .. blocks[hasta - 1], as getPosBlocks leaves them.
GetPosBlocks(p, desde, hasta) ==
    [i \in 1 .. hasta - desde |-> Recorrer(p, desde + i - 1)]

\* The blocks of the chain that begins in p, as the loops of countBlocks and
\* getUltPosBlock visit them; they do not end if it closes on itself.
Cadena(p) == Camino(p, NBloques, {FIN})

Termina(p) == Cadena(p)[NBloques] = FIN

CountBlocks(p) == Cardinality({i \in 0 .. NBloques : Cadena(p)[i] # FIN})

\* getUltPosBlock: its variable is not initialised and keeps what it had on the stack
\* when the chain has one block.
UltPosBlock(p) ==
    IF CountBlocks(p) > 1 THEN {Cadena(p)[CountBlocks(p) - 1]} ELSE Bloques

\* tablaAsignacion[padre] = hijo
Enlazar(padre, hijo) == tablaAsignacion' = [tablaAsignacion EXCEPT ![padre] = hijo]
-----------------------------------------------------------------------------
(***************************************************************************)
(* Lookups.                                                                *)
(***************************************************************************)
PathPadre(path) == Front(path)
NombreFile(path) == Last(path)

\* getOsadaFile, under mutexTabla.
GetOsadaFile(nombre, padre) ==
    LET Iguales == {s \in Archivos : /\ tablaArchivos[s].state # "DELETED"
                                     /\ tablaArchivos[s].fname = nombre
                                     /\ tablaArchivos[s].parent_directory = padre}
    IN  IF Iguales = {} THEN NULO ELSE Min(Iguales)

\* getInfoFile(path) is called, and p follows with the result in info: an empty path is
\* the root.
Salto(path, p) == IF path = <<>> THEN p ELSE "buscar"

ConRuta(l, path, p) ==
    IF path = <<>> THEN [l EXCEPT !.info = RAIZ]
                   ELSE [l EXCEPT !.subpaths = path, !.padre = RAIZ, !.sigue = p]

GetInfoFile(h, path, p, l) == Pasar(h, Salto(path, p), ConRuta(l, path, p))

\* One turn of the loop of getInfoFile: each name is looked up in the directory found
\* before, which may be gone by now.
Buscar(h) ==
    /\ En(h, "buscar")
    /\ LET l == loc[h]
           s == GetOsadaFile(Head(l.subpaths), l.padre)
       IN  IF s = NULO \/ Len(l.subpaths) = 1
             THEN Pasar(h, l.sigue, [l EXCEPT !.info = s, !.subpaths = <<>>, !.padre = RAIZ,
                                              !.sigue = "recibir"])
             ELSE Pasar(h, "buscar", [l EXCEPT !.subpaths = Tail(@), !.padre = s])
    /\ UNCHANGED <<disco, cerrojos, proceso>>
-----------------------------------------------------------------------------
(***************************************************************************)
(* newOsadaFile.                                                           *)
(***************************************************************************)
\* Mutation: the state of the slots is not looked at.
BorradosSinMirar == Archivos

Borrados == {s \in Archivos : tablaArchivos[s].state = "DELETED"}

Nuevo(tipo, path, padre) ==
    [state |-> tipo, fname |-> NombreFile(path), parent_directory |-> padre,
     file_size |-> 0, first_block |-> FIN]

TipoNuevo(accion) == IF accion = "MKDIR" THEN "DIRECTORY" ELSE "REGULAR"

\* asignarEnTablaDeArchivos, under mutexTabla: the first slot that is free.
AsignarEnTablaDeArchivos(h) ==
    /\ En(h, "asignar") /\ loc[h].info # NULO /\ Borrados # {}
    /\ tablaArchivos' = [tablaArchivos EXCEPT
           ![Min(Borrados)] = Nuevo(TipoNuevo(msj[h].accion), msj[h].path, loc[h].info)]
    /\ Responder(h, "OK")
    /\ UNCHANGED <<bitmap, tablaAsignacion, cerrojos, proceso>>

\* There is no directory, or no slot.
NoAsignar(h) ==
    /\ En(h, "asignar")
    /\ \/ loc[h].info = NULO /\ Responder(h, "ENOENT")
       \/ loc[h].info # NULO /\ Borrados = {} /\ Responder(h, "EDQUOT")
    /\ UNCHANGED <<disco, cerrojos, proceso>>
-----------------------------------------------------------------------------
(***************************************************************************)
(* readFile.                                                               *)
(***************************************************************************)
\* The -ENOENT of readFile is sent as a size, and the copy of that many bytes is
\* beyond the memory of the process.
LeerNada(h) == En(h, "leer") /\ loc[h].info = NULO /\ Caer

LockearLectura(h) ==
    /\ En(h, "leer")
    /\ \E s \in {loc[h].info} \cap Archivos :
           /\ escritor[s] = Nadie
           /\ lectores' = [lectores EXCEPT ![s] = @ \cup {h}]
           /\ Pasar(h, "leyendo", [loc[h] EXCEPT !.info = NULO, !.file = s])
    /\ UNCHANGED <<disco, escritor, proceso>>

\* The blocks are copied and the lock released; reading changes nothing.
Leer(h) ==
    /\ En(h, "leyendo")
    /\ lectores' = [lectores EXCEPT ![loc[h].file] = @ \ {h}]
    /\ Responder(h, "OK")
    /\ UNCHANGED <<disco, escritor, proceso>>
-----------------------------------------------------------------------------
(***************************************************************************)
(* writeFile.  Until cerrar nothing is locked; locks[i] is taken to write  *)
(* for the rest.                                                           *)
(***************************************************************************)
\* file is not checked: another client may have deleted it since isExist found it.
EscribirNada(h) == En(h, "escribir") /\ loc[h].info = NULO /\ Caer

Escribir(h) ==
    /\ En(h, "escribir")
    /\ \E s \in {loc[h].info} \cap Archivos :
           Pasar(h, IF tablaArchivos[s].first_block = FIN THEN "primero" ELSE "ubicar",
                 [loc[h] EXCEPT !.info = NULO, !.file = s])
    /\ UNCHANGED <<disco, cerrojos, proceso>>

\* The first block of a file that has none.
ReservarPrimero(h) ==
    /\ En(h, "primero")
    /\ LET pos == PosLibre
       IN  /\ Reservar(pos)
           /\ tablaArchivos' = [tablaArchivos EXCEPT ![loc[h].file].first_block = pos]
           /\ IF pos = FIN
                THEN Responder(h, "ENOSPC") /\ UNCHANGED tablaAsignacion
                ELSE Enlazar(pos, FIN) /\ Ir(h, "ubicar")
    /\ UNCHANGED <<cerrojos, proceso>>

\* The block where the write begins, or one more at the end of the chain.
Ubicar(h) ==
    /\ En(h, "ubicar")
    /\ LET pos == GetPosBlock(loc[h].file, msj[h].off \div TamBloque)
       IN  Pasar(h, IF pos = FIN THEN "reservar" ELSE "cerrar",
                 [loc[h] EXCEPT !.posBlockPadre = pos])
    /\ UNCHANGED <<disco, cerrojos, proceso>>

ReservarSiguiente(h) ==
    /\ En(h, "reservar")
    /\ Reservar(PosLibre)
    /\ Pasar(h, "enlazar", [loc[h] EXCEPT !.posBlockPadre = PosLibre])
    /\ UNCHANGED <<tablaAsignacion, tablaArchivos, cerrojos, proceso>>

\* It is linked after the last one, and with a full bitmap it is -1 that is linked.
EnlazarUltimo(h) ==
    /\ En(h, "enlazar")
    /\ LET primero == tablaArchivos[loc[h].file].first_block
           pos == loc[h].posBlockPadre
       IN  /\ Termina(primero)
           /\ \E ultimo \in UltPosBlock(primero) :
                  tablaAsignacion' =
                      [tablaAsignacion EXCEPT ![ultimo] = pos, ![pos] = FIN]
    /\ Ir(h, "cerrar")
    /\ UNCHANGED <<bitmap, tablaArchivos, cerrojos, proceso>>

LockearEscritura(h) ==
    /\ En(h, "cerrar")
    /\ LET s == loc[h].file
       IN  /\ escritor[s] = Nadie /\ lectores[s] = {}
           /\ escritor' = [escritor EXCEPT ![s] = h]
    /\ Ir(h, "copiar")
    /\ UNCHANGED <<disco, lectores, proceso>>

\* Mutation: the lock is not released.
SoltarNada(h) == escritor' = escritor

Soltar(h) == escritor' = [escritor EXCEPT ![loc[h].file] = Nadie]

\* The blocks that what does not fit in the first one needs.
BloquesQueFaltan(m) ==
    LET disponible == TamBloque - (m.off % TamBloque)
    IN  IF m.size > disponible THEN Techo(m.size - disponible) ELSE 0

\* The first block is copied; are there blocks for the rest?
CopiarPrimero(h) ==
    /\ En(h, "copiar")
    /\ LET n == BloquesQueFaltan(msj[h])
       IN  \/ /\ n = 0
              /\ Ir(h, "tamanio")
              /\ UNCHANGED escritor
           \/ /\ n > 0 /\ HayDisponibles(n)
              /\ Pasar(h, "bloque", [loc[h] EXCEPT !.faltan = n])
              /\ UNCHANGED escritor
           \/ /\ n > 0 /\ ~HayDisponibles(n)
              /\ Soltar(h)
              /\ Responder(h, "ENOSPC")
    /\ UNCHANGED <<disco, lectores, proceso>>

\* One turn of the loop of a write ("bloque") or of a truncate ("tBloque"): what could
\* not be reserved is skipped.
SumarBloque(h) ==
    /\ \E p \in {"bloque", "tBloque"} :
           /\ En(h, p) /\ loc[h].faltan > 0
           /\ LET pos == PosLibre
                  l == [loc[h] EXCEPT !.faltan = @ - 1]
              IN  \/ /\ pos # FIN
                     /\ Reservar(pos)
                     /\ Enlazar(l.posBlockPadre, pos)
                     /\ Pasar(h, p, [l EXCEPT !.posBlockPadre = pos])
                  \/ /\ pos = FIN
                     /\ Pasar(h, p, l)
                     /\ UNCHANGED <<bitmap, tablaAsignacion>>
    /\ UNCHANGED <<tablaArchivos, cerrojos, proceso>>

\* The end of the chain.
CerrarCadena(h) ==
    /\ En(h, "bloque") /\ loc[h].faltan = 0
    /\ Enlazar(loc[h].posBlockPadre, FIN)
    /\ Ir(h, "tamanio")
    /\ UNCHANGED <<bitmap, tablaArchivos, cerrojos, proceso>>

GuardarTamanio(h) ==
    /\ En(h, "tamanio")
    /\ tablaArchivos' = [tablaArchivos EXCEPT
                             ![loc[h].file].file_size = msj[h].size + msj[h].off]
    /\ Soltar(h)
    /\ Responder(h, "OK")
    /\ UNCHANGED <<bitmap, tablaAsignacion, lectores, proceso>>
-----------------------------------------------------------------------------
(***************************************************************************)
(* deleteFile and deleteDirectory, of a request or of a rename that        *)
(* replaces its destination.  Nothing is locked but the bitmap.            *)
(***************************************************************************)
RutaBorrada(h) == IF msj[h].accion = "RENAME" THEN msj[h].nuevoNombre ELSE msj[h].path

\* delete returns: its result is not looked at by renameFile.
Volver(h, r) ==
    IF msj[h].accion = "RENAME" THEN Ir(h, "renombrar")
                                ELSE Responder(h, r)

NoBorrar(h) ==
    /\ \/ En(h, "borrar") /\ loc[h].info = NULO
       \/ /\ En(h, "borrarDir")
          /\ \A s \in {loc[h].info} \cap Archivos : tablaArchivos[s].state # "DIRECTORY"
    /\ Volver(h, "ENOENT")
    /\ UNCHANGED <<disco, cerrojos, proceso>>

\* As many blocks of the chain as the size of the file needs.
Borrar(h) ==
    /\ En(h, "borrar")
    /\ \E s \in {loc[h].info} \cap Archivos :
           LET f == tablaArchivos[s]
           IN  Pasar(h, "liberar",
                     [loc[h] EXCEPT !.info = NULO, !.file = s,
                          !.bloques = GetPosBlocks(f.first_block, 0, Techo(f.file_size))])
    /\ UNCHANGED <<disco, cerrojos, proceso>>

\* liberarBloques, under mutexBitmap; to clear the bit -1 changes nothing.
LiberarBloques(h) ==
    /\ En(h, "liberar")
    /\ bitmap' = bitmap \ ToSet(loc[h].bloques)
    /\ Pasar(h, "marcar", [loc[h] EXCEPT !.bloques = <<>>])
    /\ UNCHANGED <<tablaAsignacion, tablaArchivos, cerrojos, proceso>>

BorrarDirectorio(h) ==
    /\ En(h, "borrarDir")
    /\ \E s \in {loc[h].info} \cap Archivos :
           /\ tablaArchivos[s].state = "DIRECTORY"
           /\ GetInfoFile(h, RutaBorrada(h), "listar", [loc[h] EXCEPT !.file = s])
    /\ UNCHANGED <<disco, cerrojos, proceso>>

\* getListFiles, under mutexTabla.
GetListFiles(posicion) ==
    {s \in Archivos : tablaArchivos[s].state # "DELETED"
                      /\ tablaArchivos[s].parent_directory = posicion}

\* Is the directory empty?
Listar(h) ==
    /\ En(h, "listar") /\ loc[h].info # NULO
    /\ \/ /\ GetListFiles(loc[h].info) = {}
          /\ Ir(h, "marcar")
       \/ /\ GetListFiles(loc[h].info) # {}
          /\ Volver(h, "EPERM")
    /\ UNCHANGED <<disco, cerrojos, proceso>>

\* It is gone since the first lookup: list_is_empty is called with NULL.
ListarNada(h) == En(h, "listar") /\ loc[h].info = NULO /\ Caer

Marcar(h) ==
    /\ En(h, "marcar")
    /\ tablaArchivos' = [tablaArchivos EXCEPT ![loc[h].file].state = "DELETED"]
    /\ Volver(h, "OK")
    /\ UNCHANGED <<bitmap, tablaAsignacion, cerrojos, proceso>>
-----------------------------------------------------------------------------
(***************************************************************************)
(* renameFile: the source, the new parent and the destination are looked   *)
(* up one after the other, and the destination is deleted if there is one. *)
(***************************************************************************)
RenombrarNada(h) ==
    /\ En(h, "renOrigen") \/ En(h, "renPadre")
    /\ loc[h].info = NULO
    /\ Responder(h, "ENOENT")
    /\ UNCHANGED <<disco, cerrojos, proceso>>

RenombrarOrigen(h) ==
    /\ En(h, "renOrigen") /\ loc[h].info # NULO
    /\ GetInfoFile(h, PathPadre(msj[h].nuevoNombre), "renPadre",
                   [loc[h] EXCEPT !.origen = loc[h].info])
    /\ UNCHANGED <<disco, cerrojos, proceso>>

RenombrarPadre(h) ==
    /\ En(h, "renPadre") /\ loc[h].info # NULO
    /\ GetInfoFile(h, msj[h].nuevoNombre, "renDestino",
                   [loc[h] EXCEPT !.destino = loc[h].info])
    /\ UNCHANGED <<disco, cerrojos, proceso>>

\* delete(newPath, newFile->state) looks newPath up again.
ReemplazarDestino(h) ==
    /\ En(h, "renDestino")
    /\ \/ loc[h].info = NULO /\ Ir(h, "renombrar")
       \/ \E s \in {loc[h].info} \cap Archivos :
              GetInfoFile(h, msj[h].nuevoNombre,
                          IF tablaArchivos[s].state = "DIRECTORY" THEN "borrarDir"
                                                                  ELSE "borrar",
                          loc[h])
    /\ UNCHANGED <<disco, cerrojos, proceso>>

Renombrar(h) ==
    /\ En(h, "renombrar")
    /\ tablaArchivos' = [tablaArchivos EXCEPT
           ![loc[h].origen].fname = NombreFile(msj[h].nuevoNombre),
           ![loc[h].origen].parent_directory = loc[h].destino]
    /\ Responder(h, "OK")
    /\ UNCHANGED <<bitmap, tablaAsignacion, cerrojos, proceso>>
-----------------------------------------------------------------------------
(***************************************************************************)
(* truncateOsadaFile.  Nothing is locked but the bitmap while it reserves; *)
(* the size in bytes is compared with a number of blocks.                  *)
(***************************************************************************)
TruncarNada(h) ==
    /\ En(h, "truncar") /\ loc[h].info = NULO
    /\ Responder(h, "ENOENT")
    /\ UNCHANGED <<disco, cerrojos, proceso>>

\* A file with no block: one is reserved for it, and then as many as the size needs.
TruncarVacio(h) ==
    /\ En(h, "truncar")
    /\ \E s \in {loc[h].info} \cap Archivos :
           LET n == Techo(msj[h].size)
           IN  /\ tablaArchivos[s].first_block = FIN
               /\ \/ /\ HayDisponibles(n)
                     /\ Pasar(h, "tPrimero",
                              [loc[h] EXCEPT !.info = NULO, !.file = s, !.faltan = n])
                  \/ ~HayDisponibles(n) /\ Responder(h, "EFBIG")
    /\ UNCHANGED <<disco, cerrojos, proceso>>

ReservarTruncado(h) ==
    /\ En(h, "tPrimero")
    /\ LET pos == PosLibre
       IN  /\ Reservar(pos)
           /\ tablaArchivos' = [tablaArchivos EXCEPT ![loc[h].file].first_block = pos]
           /\ Enlazar(pos, FIN)
           /\ Pasar(h, "tBloque", [loc[h] EXCEPT !.posBlockPadre = pos])
    /\ UNCHANGED <<cerrojos, proceso>>

\* Fewer blocks than bytes are asked for: the difference is appended.
TruncarCreciendo(h) ==
    /\ En(h, "truncar")
    /\ \E s \in {loc[h].info} \cap Archivos :
           LET primero == tablaArchivos[s].first_block
               n == msj[h].size - CountBlocks(primero)
           IN  /\ primero # FIN /\ Termina(primero) /\ n > 0
               /\ \/ /\ HayDisponibles(n)
                     /\ \E ultimo \in UltPosBlock(primero) :
                            Pasar(h, "tBloque", [loc[h] EXCEPT !.info = NULO, !.file = s,
                                                     !.posBlockPadre = ultimo, !.faltan = n])
                  \/ ~HayDisponibles(n) /\ Responder(h, "EFBIG")
    /\ UNCHANGED <<disco, cerrojos, proceso>>

\* Otherwise the blocks from the size-th on are taken, of which the loop leaves out
\* the first ones, as many as the size; the file is empty if the size is 0.
TruncarAchicando(h) ==
    /\ En(h, "truncar")
    /\ \E s \in {loc[h].info} \cap Archivos :
           LET primero == tablaArchivos[s].first_block
               size == msj[h].size
               sobrantes == CountBlocks(primero) - size
               desde == GetPosBlock(s, size)
           IN  /\ primero # FIN /\ Termina(primero) /\ sobrantes >= 0
               /\ tablaArchivos' =
                      IF desde = primero THEN [tablaArchivos EXCEPT ![s].first_block = FIN]
                                         ELSE tablaArchivos
               /\ Pasar(h, IF size < sobrantes THEN "tLee" ELSE "tFin",
                        [loc[h] EXCEPT !.info = NULO, !.file = s,
                             !.bloques = GetPosBlocks(desde, size, sobrantes)])
    /\ UNCHANGED <<bitmap, tablaAsignacion, cerrojos, proceso>>

\* An index out of the memory of the process: what getUltPosBlock leaves without a
\* value, in a write or in a truncate, or the -1 of a full bitmap as a first block,
\* which is unsigned (with pointers of 32 bits it is the word before the table).
IndiceInvalido(h) ==
    /\ \/ En(h, "tPrimero") /\ PosLibre = FIN
       \/ En(h, "enlazar") /\ CountBlocks(tablaArchivos[loc[h].file].first_block) <= 1
       \/ /\ En(h, "truncar")
          /\ \E s \in {loc[h].info} \cap Archivos :
                 /\ CountBlocks(tablaArchivos[s].first_block) = 1
                 /\ msj[h].size > 1 /\ HayDisponibles(msj[h].size - 1)
    /\ Caer

\* liberarBitmap with no mutex: the byte is read,
TruncarLee(h) ==
    /\ En(h, "tLee")
    /\ Pasar(h, "tEscribe", [loc[h] EXCEPT !.leido = bitmap])
    /\ UNCHANGED <<disco, cerrojos, proceso>>

\* and written back without the bit, and without what others did to it since.
TruncarEscribe(h) ==
    /\ En(h, "tEscribe")
    /\ LET pos == Head(loc[h].bloques)
           quedan == Tail(loc[h].bloques)
       IN  /\ bitmap' = loc[h].leido \ {pos}
           /\ Enlazar(pos, FIN)
           /\ Pasar(h, IF quedan = <<>> THEN "tFin" ELSE "tLee",
                    [loc[h] EXCEPT !.bloques = quedan, !.leido = {}])
    /\ UNCHANGED <<tablaArchivos, cerrojos, proceso>>

TruncarTamanio(h) ==
    /\ \/ En(h, "tFin")
       \/ En(h, "tBloque") /\ loc[h].faltan = 0
    /\ tablaArchivos' = [tablaArchivos EXCEPT ![loc[h].file].file_size = msj[h].size]
    /\ Responder(h, "0")
    /\ UNCHANGED <<bitmap, tablaAsignacion, cerrojos, proceso>>
=============================================================================
