----------------------------- MODULE PokedexMC -----------------------------
(***************************************************************************)
(* Small disks and clients for TLC.                                        *)
(***************************************************************************)
EXTENDS PokedexCliente

CONSTANTS h1, h2

Pedido(accion, path) ==
    [accion |-> accion, path |-> path, nuevoNombre |-> <<>>, size |-> 0, off |-> 0]

Escribe(path, size, offs) ==
    {[Pedido("WRITE", path) EXCEPT !.size = size, !.off = o] : o \in offs}

Renombra(path, nuevo) == [Pedido("RENAME", path) EXCEPT !.nuevoNombre = nuevo]

Trunca(path, size) == [Pedido("TRUNCATE", path) EXCEPT !.size = size]

a == <<"a">>
c == <<"c">>
d == <<"d">>
dx == <<"d", "x">>
largo == <<"unNombreDemasiadoLargo">>
punto == <<"p.">>

De(uno, otro) == [h \in Hilos |-> IF h = h1 THEN uno ELSE otro]

\* Each client has a file of its own, and one deletes it.
CadaUno == De({Pedido("CREATE", a)} \cup Escribe(a, 3, {0}),
              {Pedido("CREATE", c)} \cup Escribe(c, 2, {0}))

\* One makes and fills a directory, the other lists it and both delete it.
MismoDirectorio == De({Pedido("MKDIR", d), Pedido("CREATE", dx), Pedido("RMDIR", d)},
                      {Pedido("READDIR", d), Pedido("RM", dx), Pedido("RMDIR", d)})

\* One writes a file that the other reads and renames.
Lector == De({Pedido("CREATE", a)} \cup Escribe(a, 2, {0}),
             {Pedido("READ", a), Renombra(a, c)})

\* The file that one truncates is read and deleted by the other; so is the one it
\* renames.
Desaparece == De({Pedido("CREATE", a), Trunca(a, 0)}, {Pedido("READ", a), Pedido("RM", a)})
Renombrado == De({Pedido("CREATE", a), Renombra(a, c)}, {Pedido("READ", a), Pedido("RM", a)})

\* A client replaces a file by another.
Reemplazo == De({Pedido("CREATE", a), Renombra(a, c), Renombra(c, c), Pedido("GETATTR", c)}
                \cup Escribe(a, 3, {0}), {})

\* A client replaces a directory, which may not be empty, by another; both may make
\* it, and there may be no slot for a file.
Directorios == De({Pedido("MKDIR", c), Pedido("MKDIR", d), Pedido("CREATE", dx),
                   Pedido("CREATE", a), Renombra(c, d)}, {Pedido("MKDIR", d)})

\* A client adds blocks to a file of several and empties it.
Vaciado == De({Pedido("CREATE", a), Pedido("CREATE", c), Trunca(a, 0)}
              \cup Escribe(a, 4, {0}) \cup Escribe(a, 2, {4}) \cup Escribe(c, 2, {0}), {})

\* A client gives blocks to an empty file, and the disk becomes full.
Agrandado == De({Pedido("CREATE", a), Pedido("CREATE", c), Trunca(a, 3)}
                \cup Escribe(a, 3, {0}) \cup Escribe(c, 3, {0}), {})

\* A file whose only block is full when it is written from its end, and names that do
\* not reach the server.
UnBloque == De({Pedido("CREATE", a), Pedido("UTIMENS", a)} \cup Escribe(a, 2, {0, 2}),
               {Pedido("CREATE", largo), Pedido("MKDIR", largo), Pedido("MKDIR", punto)})

\* One of two files grows over its only block or past its end, or is cut to fewer bytes
\* than blocks.
Solitario == De({Pedido("CREATE", a), Pedido("CREATE", c), Trunca(a, 1), Trunca(a, 2)}
                \cup Escribe(a, 6, {0}) \cup Escribe(a, 2, {0, 2}) \cup Escribe(c, 2, {0})
                \cup Escribe(c, 3, {4}), {})

\* A file is deleted, and its links are left to the one that grows.
Heredado == De({Pedido("CREATE", a), Pedido("RM", a), Pedido("CREATE", c), Trunca(c, 2)}
               \cup Escribe(a, 6, {0}), {})

\* Both write the same file.
DosEscriben == De({Pedido("CREATE", a)} \cup Escribe(a, 3, {0}), Escribe(a, 4, {0}))

\* One empties its file while the other writes another.
CortaAlLado == De({Pedido("CREATE", a), Trunca(a, 0)} \cup Escribe(a, 2, {0}),
                  {Pedido("CREATE", c)} \cup Escribe(c, 2, {0}))

\* One replaces the file that the other writes.
EnUso == De({Pedido("CREATE", a), Renombra(a, c)}, Escribe(c, 2, {0}))

\* Both take the last blocks, and there are not enough; one adds another.
Lleno == De({Pedido("CREATE", a)} \cup Escribe(a, 6, {0}) \cup Escribe(a, 2, {6}),
            {Pedido("CREATE", c)} \cup Escribe(c, 4, {0}))

Casos == [CadaUno |-> CadaUno, MismoDirectorio |-> MismoDirectorio, Lector |-> Lector,
          Desaparece |-> Desaparece, Renombrado |-> Renombrado, Reemplazo |-> Reemplazo,
          Directorios |-> Directorios, Vaciado |-> Vaciado, Agrandado |-> Agrandado,
          UnBloque |-> UnBloque, Solitario |-> Solitario, Heredado |-> Heredado,
          DosEscriben |-> DosEscriben, CortaAlLado |-> CortaAlLado, EnUso |-> EnUso,
          Lleno |-> Lleno]

TodosLosCasos == DOMAIN Casos

PedidosDe(e, h) == Casos[e][h]
=============================================================================
