--------------------------- MODULE PokedexCuidado ---------------------------
(***************************************************************************)
(* What keeps the files of the pokedex apart, and what breaks it: the      *)
(* steps of osada_utils.c in which a thread slips.  Until the first of     *)
(* them every block taken has one owner, and what is said here of the      *)
(* chains holds for any number of clients, files and blocks                *)
(* (Pokedex_proofs); after it nothing is said.                             *)
(***************************************************************************)
EXTENDS PokedexServidor

VARIABLE tropezo   \* history: a thread slipped

\* The steps in which a write or a truncate has its file in hand, and those in which
\* deleteFile and deleteDirectory are about to mark it.
DeArchivo == {"primero", "ubicar", "reservar", "enlazar", "cerrar", "copiar", "bloque",
              "tamanio", "liberar", "marcar", "tPrimero", "tBloque", "tLee", "tEscribe",
              "tFin"}

EnArchivo(h, s) == pc[h] \in DeArchivo /\ loc[h].file = s

\* Nobody writes or cuts a file while another thread writes, cuts or deletes it, nor
\* after it was deleted: nothing in the code prevents it, locks[i] is taken late and by
\* writes only.
Separados ==
    \A h \in Hilos, s \in Archivos :
        EnArchivo(h, s) => /\ tablaArchivos[s].state # "DELETED"
                           /\ \A g \in Hilos : EnArchivo(g, s) => g = h

Bloque0(s) == tablaArchivos[s].first_block

\* More links are followed than the chain has, and what is read before the allocation
\* table is not an end.
SeSale(p, n) == tablaAsignacion[FIN] # FIN /\ \E i \in 0 .. n - 1 : Camino(p, n, {})[i] = FIN

\* The next step of h goes wrong by itself: a walk leaves the chain; a block is reserved
\* with the bitmap full; one is added to a chain of one block, whose last one
\* getUltPosBlock does not find; bytes are cut as if they were blocks, and blocks that
\* stay in the chain released; the last block added by a truncate keeps an old link; and
\* the byte of the bitmap changed after it was read to clear a bit.
Tropieza(h) ==
    \/ pc[h] = "ubicar" /\ SeSale(Bloque0(loc[h].file), msj[h].off \div TamBloque)
    \/ /\ pc[h] = "borrar"
       /\ \E s \in {loc[h].info} \cap Archivos :
              SeSale(Bloque0(s), Techo(tablaArchivos[s].file_size) - 1)
    \/ pc[h] \in {"reservar", "tPrimero"} /\ PosLibre = FIN
    \/ pc[h] = "enlazar" /\ CountBlocks(Bloque0(loc[h].file)) <= 1
    \/ /\ pc[h] = "truncar"
       /\ \E s \in {loc[h].info} \cap Archivos :
              LET n == CountBlocks(Bloque0(s))
                  size == msj[h].size
              IN  \/ n = 1 /\ size > 1 /\ HayDisponibles(size - 1)
                  \/ 0 < size /\ size < n - size
    \/ pc[h] = "tBloque" /\ loc[h].faltan = 0 /\ tablaAsignacion[loc[h].posBlockPadre] # FIN
    \/ pc[h] = "tEscribe" /\ bitmap # loc[h].leido

\* A step slips.
Resbala == (\E h \in Hilos : pc'[h] # pc[h] /\ Tropieza(h)) \/ ~Separados'
-----------------------------------------------------------------------------
\* The live files, but those whose blocks were just released by a delete.
Vivos == {s \in Archivos : /\ tablaArchivos[s].state = "REGULAR"
                           /\ \A h \in Hilos : EnArchivo(h, s) => pc[h] # "marcar"}

\* While a write or a truncate adds blocks to a file its chain ends in the last one.
Agrega(h, s) == pc[h] \in {"bloque", "tBloque"} /\ loc[h].file = s

Punta(s) == {loc[h].posBlockPadre : h \in {g \in Hilos : Agrega(g, s)}}

CadenaDe(s) == Camino(Bloque0(s), NBloques, Punta(s) \cup {FIN})

BloquesDe(s) == Range(CadenaDe(s)) \ {FIN}

\* Until a thread slips, no block is in the chains of two files: what is written,
\* truncated or deleted through one of them never appears in the other, while the blocks
\* are reserved, linked, cut, released and reserved again by threads that lock the bitmap
\* and little else.
SinCompartir ==
    ~tropezo => \A s, t \in Vivos : s # t => BloquesDe(s) \cap BloquesDe(t) = {}

\* Until a thread slips, every block of a file is taken in the bitmap, also between the
\* steps of a truncate that clears the bits one by one without the mutex and of a rename
\* that deletes its destination: the next reservation will not give it to another file.
CadenaOcupada == ~tropezo => \A s \in Vivos : BloquesDe(s) \subseteq bitmap

\* Nor does a step of a thread change the chain of a file that no thread changes.
AislaArchivos ==
    [][~tropezo' => \A s \in Vivos : \/ \E h \in Hilos : EnArchivo(h, s) \/ EnArchivo(h, s)'
                                     \/ CadenaDe(s)' = CadenaDe(s)]_<<vars, tropezo>>
-----------------------------------------------------------------------------
\* The owner of a block is a file, nobody, or the thread that set it apart: a write that
\* has not linked it yet, a truncate that has not released it yet.
LIBRE == NULO
APARTADO == RAIZ

Duenios == [Bloques -> Archivos \cup {LIBRE, APARTADO}]

Suyos(d, s) == {b \in Bloques : d[b] = s}

\* A file that a delete has not released.
Vive(s) == /\ tablaArchivos[s].state # "DELETED"
           /\ \A h \in Hilos : pc[h] = "marcar" => loc[h].file # s

\* d gives each block an owner: blocks with one are taken, their files are alive, a file
\* begins in a block of its own and is linked to its own, but for the last one while a
\* write or a truncate extends it.
ReparteDisco(d) ==
    /\ d \in Duenios
    /\ \A b \in Bloques : d[b] # LIBRE => b \in bitmap
    /\ \A b \in Bloques : d[b] \in Archivos => Vive(d[b])
    /\ \A s \in Archivos : Vive(s) => Bloque0(s) \in Suyos(d, s) \cup {FIN}
    /\ \A b \in Bloques : d[b] \in Archivos /\ b \notin Punta(d[b]) =>
                             tablaAsignacion[b] \in Suyos(d, d[b]) \cup {FIN}

\* The blocks that a thread with step p set apart.
Apartados(p, l) == IF p = "enlazar" THEN {l.posBlockPadre}
                   ELSE IF p \in {"tLee", "tEscribe"} THEN ToSet(l.bloques) ELSE {}

\* What a thread at step p has in its variables is of its file, or set apart and once.
HiloReparte(d, p, l) ==
    /\ Apartados(p, l) \subseteq Suyos(d, APARTADO)
    /\ p \in {"tLee", "tEscribe"} => IsInjective(l.bloques)
    /\ p \in {"cerrar", "copiar", "bloque", "tBloque"} => l.posBlockPadre \in Suyos(d, l.file)
    /\ p = "liberar" => \A b \in ToSet(l.bloques) : b \in Suyos(d, l.file) \cup {FIN}

ReparteHilos(d) ==
    /\ \A h \in Hilos : HiloReparte(d, pc[h], loc[h])
    /\ \A g, h \in Hilos : g # h =>
          Apartados(pc[g], loc[g]) \cap Apartados(pc[h], loc[h]) = {}

Reparte(d) == ReparteDisco(d) /\ ReparteHilos(d)

\* The invariant of the proofs.
Reparto == \E d \in Duenios : Reparte(d)

\* The disk begins shared out, and a step that is no slip keeps it so, whatever the steps
\* between the reservation of a block, its link, its release and the next reservation:
\* this is why the chains of two files never meet and the bits of a chain are set, and
\* what the slips break.
RepartoConCuidado ==
    /\ Reparto
    /\ [][~Resbala /\ Separados /\ Reparto => Reparto']_<<disco, pc, loc>>
=============================================================================
