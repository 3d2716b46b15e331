--------------------------- MODULE Pokedex_proofs ---------------------------
(***************************************************************************)
(* The server of the pokedex and its clients, for any clients, requests,   *)
(* files and blocks: types, the locks of the files, what a call gets, and  *)
(* the owners of the blocks until a thread slips.                          *)
(***************************************************************************)
EXTENDS PokedexCliente, FiniteSetTheorems, SequenceTheorems, WellFoundedInduction, TLAPS

(***************************************************************************)
(* Paths, positions and chains.                                            *)
(***************************************************************************)
\* The least of some naturals, for the inductions and for the first free position.
LEMMA MinimoNat ==
    ASSUME NEW T \in SUBSET Nat, T # {}
    PROVE  \E k \in T : \A j \in T : k <= j
<1> DEFINE R == OpToRel(<, Nat)
<1>1. IsWellFoundedOn(R, Nat)
  BY NatLessThanWellFounded
<1>2. \A j, k \in Nat : j < k => <<j, k>> \in R
  BY DEF OpToRel
<1> HIDE DEF R
<1>3. PICK k \in T : \A j \in T : <<j, k>> \notin R
  BY <1>1, WFMin
<1>4. ASSUME NEW j \in T PROVE k <= j
  <2>1. j \in Nat /\ k \in Nat /\ ~(j < k)
    BY <1>2, <1>3
  <2> QED
    BY <2>1
<1> QED
  BY <1>3, <1>4

LEMMA MinEsta ==
    ASSUME NEW T \in SUBSET Nat, T # {}
    PROVE  Min(T) \in T
<1>1. \E k \in T : \A j \in T : k <= j
  BY MinimoNat
<1> QED
  BY <1>1 DEF Min

\* A path is at most two names, so is what is left of it.
LEMMA RutaEs == \A r : r \in Rutas <=> r \in Seq(Nombres) /\ Len(r) <= 2
<1>1. ASSUME NEW r \in Rutas PROVE r \in Seq(Nombres) /\ Len(r) <= 2
  <2>1. PICK n \in 0 .. 2 : r \in [1 .. n -> Nombres]
    BY DEF Rutas
  <2>2. n \in Nat /\ Len(r) = n
    BY <2>1
  <2> QED
    BY <2>1, <2>2
<1>2. ASSUME NEW r \in Seq(Nombres), Len(r) <= 2 PROVE r \in Rutas
  <2>1. Len(r) \in Nat /\ r \in [1 .. Len(r) -> Nombres]
    BY LenProperties
  <2>2. Len(r) \in 0 .. 2
    BY <1>2, <2>1
  <2> QED
    BY <2>1, <2>2 DEF Rutas
<1> QED
  BY <1>1, <1>2

LEMMA PartesDeRuta ==
    ASSUME NEW r \in Rutas, r # <<>>
    PROVE  /\ Head(r) \in Nombres /\ Tail(r) \in Rutas
           /\ PathPadre(r) \in Rutas /\ NombreFile(r) \in Nombres
           /\ Len(r) # 1 => Tail(r) # <<>>
<1>1. r \in Seq(Nombres) /\ Len(r) \in 1 .. 2
  <2>1. r \in Seq(Nombres) /\ Len(r) <= 2
    BY RutaEs
  <2>2. Len(r) \in Nat \ {0}
    BY <2>1, EmptySeq
  <2>3. \A n \in Nat \ {0} : n <= 2 => n \in 1 .. 2
    OBVIOUS
  <2> QED
    BY <2>1, <2>2, <2>3
<1>2. Head(r) \in Nombres /\ Tail(r) \in Seq(Nombres) /\ Len(Tail(r)) = Len(r) - 1
  BY <1>1, HeadTailProperties
<1>3. Front(r) \in Seq(Nombres) /\ Len(Front(r)) = Len(r) - 1
  <2>2. \A i \in 1 .. Len(r) - 1 : r[i] \in Nombres
    BY <1>1
  <2>3. 1 \in Int /\ Len(r) - 1 \in Int
    BY <1>1
  <2>4. SubSeq(r, 1, Len(r) - 1) \in Seq(Nombres)
    BY <2>2, <2>3, SubSeqProperties
  <2>5. Len(SubSeq(r, 1, Len(r) - 1)) = IF 1 <= Len(r) - 1 THEN Len(r) - 1 - 1 + 1 ELSE 0
    BY <2>2, <2>3, SubSeqProperties
  <2>6. Len(r) \in 1 .. 2 => (IF 1 <= Len(r) - 1 THEN Len(r) - 1 - 1 + 1 ELSE 0) = Len(r) - 1
    OBVIOUS
  <2> QED
    BY <1>1, <2>4, <2>5, <2>6 DEF Front
<1>4. Last(r) \in Nombres
  BY <1>1 DEF Last
<1>5. Len(r) # 1 => Tail(r) # <<>>
  <2>1. Len(<<>>) = 0
    BY EmptySeq
  <2> QED
    BY <1>1, <1>2, <2>1
<1>6. Len(Tail(r)) <= 2 /\ Len(Front(r)) <= 2
  BY <1>1, <1>2, <1>3
<1>7. Tail(r) \in Rutas /\ Front(r) \in Rutas
  BY <1>2, <1>3, <1>6, RutaEs
<1> QED
  BY <1>2, <1>4, <1>5, <1>7 DEF PathPadre, NombreFile

LEMMA RutaVacia == <<>> \in Rutas
<1>1. <<>> \in Seq(Nombres) /\ Len(<<>>) <= 2
  BY EmptySeq
<1> QED
  BY <1>1, RutaEs

\* What is closed under the links holds along the whole way.
LEMMA Cerrado ==
    ASSUME NEW n \in Nat, NEW f, NEW S, f[0] \in S,
           \A i \in 1 .. n : f[i - 1] \in S => f[i] \in S
    PROVE  \A i \in 0 .. n : f[i] \in S
<1> DEFINE Falla == {k \in Nat : k <= n /\ f[k] \notin S}
<1>1. ASSUME Falla # {} PROVE FALSE
  <2>1. PICK k \in Falla : \A j \in Falla : k <= j
    BY <1>1, MinimoNat
  <2>2. k \in Nat /\ k <= n /\ k # 0 /\ f[k] \notin S
    BY <2>1
  <2>3. k - 1 \in Nat /\ k - 1 <= n /\ k - 1 \notin Falla /\ k \in 1 .. n
    BY <2>1, <2>2
  <2> QED
    BY <2>2, <2>3
<1> QED
  BY <1>1

\* The positions of Camino, over any allocation table.
Paso(t, fines, q) == IF q \in fines THEN FIN ELSE t[q]

\* The function that Camino defines, for a table t that need not be the one of the disk.
Senda(t, p, n, fines) ==
    LET Pos[i \in 0 .. n] == IF i = 0 THEN p
                             ELSE IF Pos[i - 1] \in fines THEN FIN
                             ELSE t[Pos[i - 1]]
    IN  Pos

\* What determines it: where it begins and how it goes on.
EsSenda(f, t, p, n, fines) ==
    /\ f \in [0 .. n -> Posiciones]
    /\ f[0] = p
    /\ \A i \in 1 .. n : f[i] = Paso(t, fines, f[i - 1])

\* There is such a way of every length: the shortest length without one would be one more
\* than a length with it.
LEMMA HaySenda ==
    ASSUME NEW t \in [Posiciones -> Posiciones], NEW p \in Posiciones, NEW fines
    PROVE  \A n \in Nat : \E f : EsSenda(f, t, p, n, fines)
<1> DEFINE Va(f, n) == f[0] = p /\ \A i \in 1 .. n : f[i] = Paso(t, fines, f[i - 1])
           Falla == {n \in Nat : ~\E f \in [0 .. n -> Posiciones] : Va(f, n)}
<1> SUFFICES ASSUME Falla # {} PROVE FALSE
  BY DEF EsSenda
<1>1. PICK n \in Falla : \A m \in Falla : n <= m
  BY MinimoNat
<1>2. CASE n = 0
  <2>1. [i \in 0 .. 0 |-> p] \in [0 .. 0 -> Posiciones] /\ Va([i \in 0 .. 0 |-> p], 0)
    OBVIOUS
  <2> QED
    BY <1>2, <2>1
<1>3. CASE n # 0
  <2>1. n \in Nat /\ n - 1 \in Nat /\ n - 1 \notin Falla
    BY <1>1, <1>3
  <2>2. PICK f \in [0 .. n - 1 -> Posiciones] : Va(f, n - 1)
    BY <2>1
  <2> DEFINE g == [i \in 0 .. n |-> IF i = n THEN Paso(t, fines, f[n - 1]) ELSE f[i]]
  <2>3. Paso(t, fines, f[n - 1]) \in Posiciones
    BY <2>1 DEF Paso, Posiciones
  <2>4. ASSUME NEW i \in 0 .. n PROVE g[i] \in Posiciones
    BY <2>1, <2>3
  <2>5. g[0] = p
    BY <1>3, <2>1, <2>2
  <2>6. ASSUME NEW i \in 1 .. n PROVE g[i] = Paso(t, fines, g[i - 1])
    <3>1. CASE i = n
      BY <2>1, <3>1
    <3>2. CASE i # n
      <4>1. i \in 1 .. n - 1 /\ i \in 0 .. n /\ i - 1 \in 0 .. n /\ i - 1 # n
        BY <2>1, <3>2
      <4>2. f[i] = Paso(t, fines, f[i - 1])
        BY <2>2, <4>1
      <4>3. g[i] = f[i] /\ g[i - 1] = f[i - 1]
        BY <3>2, <4>1
      <4> QED
        BY <4>2, <4>3
    <3> QED
      BY <3>1, <3>2
  <2>7. g \in [0 .. n -> Posiciones]
    BY <2>4
  <2> HIDE DEF g
  <2>8. Va(g, n)
    BY <2>5, <2>6
  <2> QED
    BY <2>1, <2>7, <2>8
<1> QED
  BY <1>2, <1>3

\* So the function is what its definition says, which TLAPS does not take for granted.
LEMMA SendaEs ==
    ASSUME NEW t \in [Posiciones -> Posiciones], NEW p \in Posiciones, NEW fines,
           NEW n \in Nat
    PROVE  EsSenda(Senda(t, p, n, fines), t, p, n, fines)
<1>0. PICK f : EsSenda(f, t, p, n, fines)
  BY HaySenda
<1> DEFINE Es(x) == x = [i \in 0 .. n |-> IF i = 0 THEN p
                                          ELSE IF x[i - 1] \in fines THEN FIN
                                          ELSE t[x[i - 1]]]
           s == CHOOSE x : Es(x)
<1>1. \E x : Es(x)
  <2> DEFINE g == [i \in 0 .. n |-> IF i = 0 THEN p
                                    ELSE IF f[i - 1] \in fines THEN FIN ELSE t[f[i - 1]]]
  <2>2. ASSUME NEW i \in 0 .. n PROVE f[i] = g[i]
    <3>1. CASE i = 0
      BY <1>0, <3>1 DEF EsSenda
    <3>2. CASE i # 0
      <4>1. i \in 1 .. n
        BY <3>2
      <4>2. f[i] = Paso(t, fines, f[i - 1])
        BY <1>0, <4>1 DEF EsSenda
      <4>3. g[i] = IF f[i - 1] \in fines THEN FIN ELSE t[f[i - 1]]
        BY <3>2
      <4> QED
        BY <4>2, <4>3 DEF Paso
    <3> QED
      BY <3>1, <3>2
  <2>3. f = g
    BY <1>0, <2>2 DEF EsSenda
  <2> QED
    BY <2>3
<1>2. Es(s)
  BY <1>1
<1>3. Senda(t, p, n, fines) = s
  BY DEF Senda
<1> HIDE DEF s
<1>4. s[0] = p
  BY <1>2
<1>5. ASSUME NEW i \in 1 .. n PROVE s[i] = Paso(t, fines, s[i - 1])
  <2>1. i \in 0 .. n /\ i # 0
    OBVIOUS
  <2> QED
    BY <1>2, <2>1 DEF Paso
<1>6. \A i \in 0 .. n : s[i] \in Posiciones
  <2>1. \A i \in 1 .. n : s[i - 1] \in Posiciones => s[i] \in Posiciones
    BY <1>5 DEF Paso, Posiciones
  <2>2. s[0] \in Posiciones
    BY <1>4
  <2> HIDE DEF Es
  <2> QED
    BY <2>1, <2>2, Cerrado
<1>7. s \in [0 .. n -> Posiciones]
  BY <1>2, <1>6
<1> QED
  BY <1>3, <1>4, <1>5, <1>7 DEF EsSenda
-----------------------------------------------------------------------------
\* Where the disk is.
TipoDisco ==
    /\ bitmap \subseteq Bloques
    /\ tablaAsignacion \in [Posiciones -> Posiciones]
    /\ tablaArchivos \in [Archivos -> Archivo]

\* Positions, blocks and marks are numbers, and the marks are none of the others.
LEMMA Numeros ==
    /\ NBloques \in Nat \ {0} /\ NArchivos \in Nat /\ TamBloque \in Nat \ {0}
    /\ Bloques \subseteq Nat /\ Archivos \subseteq Nat
    /\ Bloques \subseteq Posiciones /\ FIN \in Posiciones /\ FIN \notin Bloques
    /\ NULO \notin Archivos /\ RAIZ \notin Archivos /\ NULO # RAIZ
  BY OsadaAssumption DEF Bloques, Archivos, Posiciones, FIN, NULO, RAIZ

\* The walks of getPosBlock, countBlocks and getUltPosBlock over the table of the disk.
LEMMA CaminoEs ==
    ASSUME TipoDisco, NEW p \in Posiciones, NEW n \in Nat, NEW fines
    PROVE  EsSenda(Camino(p, n, fines), tablaAsignacion, p, n, fines)
<1>1. Camino(p, n, fines) = Senda(tablaAsignacion, p, n, fines)
  BY DEF Camino, Senda
<1> QED
  BY <1>1, SendaEs DEF TipoDisco

LEMMA RecorrerTipo ==
    ASSUME TipoDisco, NEW p \in Posiciones, NEW n \in Nat
    PROVE  Recorrer(p, n) \in Posiciones
<1>1. Camino(p, n, {}) \in [0 .. n -> Posiciones] /\ n \in 0 .. n
  BY CaminoEs DEF EsSenda
<1> QED
  BY <1>1 DEF Recorrer

LEMMA GetPosBlockTipo ==
    ASSUME TipoDisco, NEW s \in Archivos, NEW n \in Nat
    PROVE  GetPosBlock(s, n) \in Posiciones
<1>1. tablaArchivos[s].first_block \in Posiciones
  BY DEF TipoDisco, Archivo
<1> QED
  BY <1>1, RecorrerTipo, Numeros DEF GetPosBlock

LEMMA GetPosBlocksTipo ==
    ASSUME TipoDisco, NEW p \in Posiciones, NEW desde \in Nat, NEW hasta \in Nat
    PROVE  /\ GetPosBlocks(p, desde, hasta) \in Seq(Posiciones)
           /\ desde < hasta => GetPosBlocks(p, desde, hasta) # <<>>
<1> DEFINE n == IF desde < hasta THEN hasta - desde ELSE 0
           q == GetPosBlocks(p, desde, hasta)
<1>1. n \in Nat /\ 1 .. hasta - desde = 1 .. n
  OBVIOUS
<1>2. \A i \in 1 .. n : desde + i - 1 \in Nat
  OBVIOUS
<1>3. q = [i \in 1 .. n |-> Recorrer(p, desde + i - 1)]
  BY <1>1 DEF GetPosBlocks
<1>4. \A i \in 1 .. n : Recorrer(p, desde + i - 1) \in Posiciones
  BY <1>2, RecorrerTipo
<1>5. q \in [1 .. n -> Posiciones]
  BY <1>3, <1>4
<1> HIDE DEF q
<1>6. q \in Seq(Posiciones)
  BY <1>1, <1>5, SeqDef
<1>7. ASSUME desde < hasta PROVE q # <<>>
  <2>1. 1 \in DOMAIN q
    BY <1>5, <1>7
  <2>2. 1 \notin DOMAIN <<>>
    OBVIOUS
  <2> QED
    BY <2>1, <2>2
<1> QED
  BY <1>6, <1>7 DEF q

\* The chain ends at most after all the blocks.
LEMMA CadenaEs ==
    ASSUME TipoDisco, NEW p \in Posiciones
    PROVE  EsSenda(Cadena(p), tablaAsignacion, p, NBloques, {FIN})
  BY CaminoEs, Numeros DEF Cadena

LEMMA CountBlocksTipo ==
    ASSUME TipoDisco, NEW p \in Posiciones
    PROVE  CountBlocks(p) \in 0 .. NBloques + 1
<1> DEFINE I == 0 .. NBloques
           J == {i \in I : Cadena(p)[i] # FIN}
<1>1. IsFiniteSet(I) /\ Cardinality(I) = NBloques + 1
  BY Numeros, FS_Interval
<1>2. IsFiniteSet(J) /\ Cardinality(J) <= Cardinality(I)
  BY <1>1, FS_Subset
<1>3. Cardinality(J) \in Nat
  BY <1>2, FS_CardinalityType
<1>4. CountBlocks(p) = Cardinality(J)
  BY DEF CountBlocks
<1> HIDE DEF J, I
<1> QED
  BY <1>1, <1>2, <1>3, <1>4, Numeros

\* What is not initialised is some block.
LEMMA UltPosBlockTipo ==
    ASSUME TipoDisco, NEW p \in Posiciones
    PROVE  UltPosBlock(p) \subseteq Posiciones
<1>1. CASE CountBlocks(p) > 1
  <2>1. CountBlocks(p) - 1 \in 0 .. NBloques
    BY <1>1, CountBlocksTipo, Numeros
  <2>2. Cadena(p) \in [0 .. NBloques -> Posiciones]
    BY CadenaEs DEF EsSenda
  <2> QED
    BY <1>1, <2>1, <2>2 DEF UltPosBlock
<1>2. CASE ~(CountBlocks(p) > 1)
  BY <1>2, Numeros DEF UltPosBlock
<1> QED
  BY <1>1, <1>2

\* A free position is one of the disk that is not taken.
LEMMA PosLibreTipo ==
    /\ PosLibre \in Posiciones
    /\ PosLibre # FIN => PosLibre \in Bloques \ bitmap
    /\ PosLibre = FIN => Bloques \subseteq bitmap
<1>1. CASE Bloques \subseteq bitmap
  BY <1>1, Numeros DEF PosLibre
<1>2. CASE ~(Bloques \subseteq bitmap)
  <2>1. Bloques \ bitmap # {} /\ Bloques \ bitmap \in SUBSET Nat
    BY <1>2, Numeros
  <2>2. Min(Bloques \ bitmap) \in Bloques \ bitmap
    BY <2>1, MinEsta
  <2> QED
    BY <1>2, <2>2, Numeros DEF PosLibre
<1> QED
  BY <1>1, <1>2

\* A lookup finds a file or nothing.
LEMMA GetOsadaFileTipo ==
    ASSUME NEW nombre, NEW padre
    PROVE  /\ GetOsadaFile(nombre, padre) \in Archivos \cup {NULO}
           /\ GetOsadaFile(nombre, padre) # NULO =>
                 tablaArchivos[GetOsadaFile(nombre, padre)].state # "DELETED"
<1> DEFINE I == {s \in Archivos : /\ tablaArchivos[s].state # "DELETED"
                                  /\ tablaArchivos[s].fname = nombre
                                  /\ tablaArchivos[s].parent_directory = padre}
<1>1. GetOsadaFile(nombre, padre) = IF I = {} THEN NULO ELSE Min(I)
  BY DEF GetOsadaFile
<1>2. I \in SUBSET Nat
  BY Numeros
<1>3. I # {} => Min(I) \in I
  BY <1>2, MinEsta
<1> QED
  BY <1>1, <1>3

LEMMA MinBorrados ==
    Borrados # {} => Min(Borrados) \in Archivos /\ tablaArchivos[Min(Borrados)].state = "DELETED"
<1>1. Borrados \in SUBSET Nat
  BY Numeros DEF Borrados
<1>2. Borrados # {} => Min(Borrados) \in Borrados
  BY <1>1, MinEsta
<1> QED
  BY <1>2 DEF Borrados

LEMMA TechoTipo == \A b \in Nat : Techo(b) \in Nat
  BY Numeros DEF Techo

LEMMA BloquesQueFaltanTipo ==
    ASSUME NEW m, m.size \in Nat, m.off \in Nat
    PROVE  BloquesQueFaltan(m) \in Nat
<1> DEFINE d == TamBloque - (m.off % TamBloque)
<1>1. d \in Int
  BY Numeros
<1>2. m.size > d => m.size - d \in Nat
  BY <1>1
<1>3. BloquesQueFaltan(m) = IF m.size > d THEN Techo(m.size - d) ELSE 0
  BY DEF BloquesQueFaltan
<1> HIDE DEF d
<1> QED
  BY <1>2, <1>3, TechoTipo
-----------------------------------------------------------------------------
(***************************************************************************)
(* Where each thread may be, by the request it attends, and what its local *)
(* variables hold there.                                                   *)
(***************************************************************************)
\* The step that follows the lookup, if there is one under way.
Lugar(p, l) == IF p = "buscar" THEN l.sigue ELSE p

\* The steps in which a thread may be while it attends each request.
EnEtapa(accion, p) ==
    \/ accion = "NULL" /\ p \in {"fuera", "recibir", "fin"}
    \/ accion = "READ" /\ p \in {"existe", "leer", "leyendo"}
    \/ accion = "WRITE" /\ p \in {"existe", "escribir", "primero", "ubicar", "reservar",
                                  "enlazar", "cerrar", "copiar", "bloque", "tamanio"}
    \/ accion = "MKDIR" /\ p \in {"existe", "asignar"}
    \/ accion = "CREATE" /\ p = "asignar"
    \/ accion \in {"GETATTR", "UTIMENS"} /\ p = "consultar"
    \/ accion = "READDIR" /\ p = "readdir"
    \/ accion = "RM" /\ p \in {"borrar", "liberar", "marcar"}
    \/ accion = "RMDIR" /\ p \in {"borrarDir", "listar", "marcar"}
    \/ accion = "RENAME" /\ p \in {"renOrigen", "renPadre", "renDestino", "borrar", "liberar",
                                   "marcar", "borrarDir", "listar", "renombrar"}
    \/ accion = "TRUNCATE" /\ p \in {"truncar", "tPrimero", "tBloque", "tLee", "tEscribe",
                                     "tFin"}

\* The steps that work on the file of the thread.
ConArchivo == {"leyendo", "primero", "ubicar", "reservar", "enlazar", "cerrar", "copiar",
               "bloque", "tamanio", "liberar", "listar", "marcar", "tPrimero", "tBloque",
               "tLee", "tEscribe", "tFin"}

\* The steps that follow a lookup.
Buscables == {"existe", "consultar", "readdir", "asignar", "leer", "escribir", "borrar",
              "borrarDir", "listar", "renOrigen", "renPadre", "renDestino", "truncar"}

\* What may be asked.
Pedible(m) ==
    /\ m \in Mensaje \cup {SinMensaje}
    /\ m.accion = "RENAME" => m.nuevoNombre # <<>>

\* A thread at step p, with local variables l and request m: it has a file in hand where it
\* uses one, a path where it looks one up, and blocks where it clears them.
Hilo(p, l, m) ==
    /\ l \in Local
    /\ Pedible(m)
    /\ EnEtapa(m.accion, Lugar(p, l))
    /\ p = "buscar" => l.subpaths # <<>> /\ l.sigue \in Buscables
    /\ Lugar(p, l) \in ConArchivo => l.file \in Archivos
    /\ p \notin {"buscar", "asignar", "renPadre"} => l.info # RAIZ
    /\ Lugar(p, l) \in {"tLee", "tEscribe"} => l.bloques # <<>>
    /\ m.accion = "RENAME" =>
          /\ Lugar(p, l) # "renOrigen" => l.origen \in Archivos
          /\ Lugar(p, l) \notin {"renOrigen", "renPadre"} => l.destino \in Archivos \cup {RAIZ}

\* Where the threads are.
TipoHilos ==
    /\ pc \in [Hilos -> Etapas]
    /\ loc \in [Hilos -> Local]
    /\ msj \in [Hilos -> Mensaje \cup {SinMensaje}]
    /\ respuesta \in [Hilos -> Respuestas]
    /\ \A h \in Hilos : Hilo(pc[h], loc[h], msj[h])

LEMMA SinLocalesTipo == SinLocales \in Local
<1>1. <<>> \in Rutas /\ <<>> \in Seq(Posiciones)
  BY RutaVacia, EmptySeq
<1>2. /\ RAIZ \in Archivos \cup {RAIZ} /\ "recibir" \in Etapas
      /\ NULO \in Archivos \cup {NULO, RAIZ} /\ NULO \in Archivos \cup {NULO}
      /\ FIN \in Posiciones /\ 0 \in Nat /\ {} \in SUBSET Bloques
  BY DEF Etapas, Posiciones
<1> QED
  BY <1>1, <1>2, Zenon DEF SinLocales, Local

LEMMA HiloLibre ==
    ASSUME NEW p \in {"fuera", "recibir", "fin"}
    PROVE  Hilo(p, SinLocales, SinMensaje)
<1>1. SinLocales \in Local
  BY SinLocalesTipo
<1>2. SinMensaje.accion = "NULL" /\ SinLocales.info # RAIZ
  BY Numeros DEF SinMensaje, SinLocales
<1> QED
  BY <1>1, <1>2 DEF Hilo, Pedible, EnEtapa, Lugar, ConArchivo

\* A thread goes on, or answers.
LEMMA PasarVale ==
    ASSUME TipoHilos, NEW h \in Hilos, NEW p \in Etapas, NEW l, Pasar(h, p, l),
           Hilo(p, l, msj[h])
    PROVE  TipoHilos'
<1>1. l \in Local
  BY DEF Hilo
<1>2. /\ pc' = [pc EXCEPT ![h] = p] /\ loc' = [loc EXCEPT ![h] = l]
      /\ msj' = msj /\ respuesta' = respuesta
  BY DEF Pasar, Poner
<1>3. /\ pc' \in [Hilos -> Etapas] /\ loc' \in [Hilos -> Local]
      /\ \A g \in Hilos : pc'[g] = (IF g = h THEN p ELSE pc[g])
                          /\ loc'[g] = (IF g = h THEN l ELSE loc[g])
  BY <1>1, <1>2 DEF TipoHilos
<1>4. ASSUME NEW g \in Hilos PROVE Hilo(pc'[g], loc'[g], msj'[g])
  <2>1. CASE g = h
    BY <1>2, <1>3, <2>1
  <2>2. CASE g # h
    BY <1>2, <1>3, <2>2 DEF TipoHilos
  <2> QED
    BY <2>1, <2>2
<1> QED
  BY <1>2, <1>3, <1>4 DEF TipoHilos

LEMMA ResponderVale ==
    ASSUME TipoHilos, NEW h \in Hilos, NEW r \in Respuestas, Responder(h, r)
    PROVE  TipoHilos'
<1>1. SinLocales \in Local /\ Hilo("recibir", SinLocales, SinMensaje)
  BY HiloLibre, SinLocalesTipo
<1>2. /\ pc' = [pc EXCEPT ![h] = "recibir"] /\ loc' = [loc EXCEPT ![h] = SinLocales]
      /\ msj' = [msj EXCEPT ![h] = SinMensaje] /\ respuesta' = [respuesta EXCEPT ![h] = r]
  BY DEF Responder, Poner
<1>3. /\ pc' \in [Hilos -> Etapas] /\ loc' \in [Hilos -> Local]
      /\ msj' \in [Hilos -> Mensaje \cup {SinMensaje}] /\ respuesta' \in [Hilos -> Respuestas]
      /\ \A g \in Hilos : /\ pc'[g] = (IF g = h THEN "recibir" ELSE pc[g])
                          /\ loc'[g] = (IF g = h THEN SinLocales ELSE loc[g])
                          /\ msj'[g] = (IF g = h THEN SinMensaje ELSE msj[g])
  <2>1. pc' \in [Hilos -> Etapas] /\ \A g \in Hilos : pc'[g] = (IF g = h THEN "recibir" ELSE pc[g])
    BY <1>2 DEF TipoHilos, Etapas
  <2>2. loc' \in [Hilos -> Local] /\ \A g \in Hilos : loc'[g] = (IF g = h THEN SinLocales ELSE loc[g])
    BY <1>1, <1>2 DEF TipoHilos
  <2>3. /\ msj' \in [Hilos -> Mensaje \cup {SinMensaje}]
        /\ \A g \in Hilos : msj'[g] = (IF g = h THEN SinMensaje ELSE msj[g])
    BY <1>2 DEF TipoHilos
  <2>4. respuesta' \in [Hilos -> Respuestas]
    BY <1>2 DEF TipoHilos
  <2> QED
    BY <2>1, <2>2, <2>3, <2>4
<1>4. ASSUME NEW g \in Hilos PROVE Hilo(pc'[g], loc'[g], msj'[g])
  <2>1. CASE g = h
    BY <1>1, <1>3, <2>1
  <2>2. CASE g # h
    BY <1>3, <2>2 DEF TipoHilos
  <2> QED
    BY <2>1, <2>2
<1> QED
  BY <1>3, <1>4 DEF TipoHilos

\* A lookup begins, for a step that may follow it.
LEMMA BuscaVale ==
    ASSUME NEW l \in Local, NEW m, NEW path \in Rutas, NEW p \in Etapas, p \in Buscables,
           path = <<>> => p \in {"asignar", "renPadre"},
           Hilo(p, [l EXCEPT !.info = NULO], m)
    PROVE  Hilo(Salto(path, p), ConRuta(l, path, p), m)
<1>1. CASE path = <<>>
  <2> DEFINE k == [l EXCEPT !.info = RAIZ]
             n == [l EXCEPT !.info = NULO]
  <2>1. /\ k \in Local /\ k.file = l.file /\ k.origen = l.origen /\ k.destino = l.destino
        /\ n.file = l.file /\ n.origen = l.origen /\ n.destino = l.destino
    BY DEF Local
  <2>2. Salto(path, p) = p /\ ConRuta(l, path, p) = k /\ p \in {"asignar", "renPadre"}
    BY <1>1 DEF Salto, ConRuta
  <2>3. Lugar(p, k) = p /\ Lugar(p, n) = p
    BY DEF Lugar, Buscables
  <2> HIDE DEF k, n
  <2>4. Hilo(p, n, m)
    BY DEF n
  <2> QED
    BY <2>1, <2>2, <2>3, <2>4 DEF Hilo, ConArchivo
<1>2. CASE path # <<>>
  <2> DEFINE k == [l EXCEPT !.subpaths = path, !.padre = RAIZ, !.sigue = p]
             n == [l EXCEPT !.info = NULO]
  <2>1. /\ k \in Local /\ k.file = l.file /\ k.origen = l.origen /\ k.destino = l.destino
        /\ n.file = l.file /\ n.origen = l.origen /\ n.destino = l.destino
        /\ k.subpaths = path /\ k.sigue = p /\ k.bloques = l.bloques /\ n.bloques = l.bloques
    BY DEF Local
  <2>2. p # "buscar" /\ Salto(path, p) = "buscar" /\ ConRuta(l, path, p) = k
    BY <1>2 DEF Salto, ConRuta, Buscables
  <2>3. Lugar("buscar", k) = p /\ Lugar(p, n) = p
    BY <2>1, <2>2 DEF Lugar
  <2> HIDE DEF k, n
  <2>4. Hilo(p, n, m)
    BY DEF n
  <2> QED
    <3>1. k.sigue \in Buscables
      BY <2>1
    <3>2. EnEtapa(m.accion, p) /\ (p \in ConArchivo => n.file \in Archivos)
          /\ Pedible(m) /\ (p \in {"tLee", "tEscribe"} => n.bloques # <<>>)
          /\ (m.accion = "RENAME" =>
                 /\ p # "renOrigen" => n.origen \in Archivos
                 /\ p \notin {"renOrigen", "renPadre"} => n.destino \in Archivos \cup {RAIZ})
      BY <2>3, <2>4 DEF Hilo
    <3> QED
      BY <1>2, <2>1, <2>2, <2>3, <3>1, <3>2 DEF Hilo
<1> QED
  BY <1>1, <1>2
-----------------------------------------------------------------------------
\* Who has the lock of each file.
TipoCerrojos ==
    /\ escritor \in [Archivos -> Hilos \cup {Nadie}]
    /\ lectores \in [Archivos -> SUBSET Hilos]

\* The types of the server.
Tipos == TipoDisco /\ TipoCerrojos /\ TipoHilos

LEMMA DiscoIgual == TipoDisco /\ UNCHANGED disco => TipoDisco'
  BY DEF TipoDisco, disco

LEMMA CerrojosIgual == TipoCerrojos /\ UNCHANGED cerrojos => TipoCerrojos'
  BY DEF TipoCerrojos, cerrojos

\* Every request has at least one step, and a lookup is none of them.
LEMMA EnEtapaEs ==
    ASSUME NEW a, NEW p, EnEtapa(a, p)
    PROVE  p \in Etapas \ {"buscar"}
  BY DEF EnEtapa, Etapas

\* The thread is at step p, with what TipoHilos says of it.
LEMMA EnPaso ==
    ASSUME TipoHilos, NEW h \in Hilos, NEW p, pc[h] = p
    PROVE  /\ Hilo(p, loc[h], msj[h]) /\ loc[h] \in Local /\ Pedible(msj[h])
           /\ msj[h].accion \in Acciones \cup {"NULL"}
           /\ msj[h].size \in Nat /\ msj[h].off \in Nat
           /\ msj[h].path \in Rutas /\ msj[h].nuevoNombre \in Rutas
           /\ msj[h].accion # "NULL" => msj[h].path # <<>>
           /\ msj[h].accion = "RENAME" => msj[h].nuevoNombre # <<>>
<1>1. Hilo(p, loc[h], msj[h]) /\ loc[h] \in Local /\ Pedible(msj[h])
      /\ msj[h] \in Mensaje \cup {SinMensaje}
  BY DEF TipoHilos, Hilo
<1> DEFINE m == msj[h]
<1>2. CASE m \in Mensaje
  BY <1>1, <1>2 DEF Mensaje, Pedible
<1>3. CASE m = SinMensaje
  BY <1>1, <1>3, RutaVacia DEF SinMensaje
<1> QED
  BY <1>1, <1>2, <1>3

LEMMA IrVale ==
    ASSUME TipoHilos, NEW h \in Hilos, NEW p, Ir(h, p),
           pc[h] # "buscar",
           EnEtapa(msj[h].accion, p),
           p \in ConArchivo => loc[h].file \in Archivos,
           pc[h] \in {"asignar", "renPadre"} => loc[h].info # RAIZ,
           p \notin {"tLee", "tEscribe"},
           msj[h].accion = "RENAME" => pc[h] \notin {"renOrigen", "renPadre"}
    PROVE  TipoHilos'
<1>1. Hilo(pc[h], loc[h], msj[h])
  BY EnPaso
<1>2. p \in Etapas /\ p # "buscar"
  BY EnEtapaEs
<1>3. Lugar(p, loc[h]) = p /\ Lugar(pc[h], loc[h]) = pc[h]
  BY <1>2 DEF Lugar
<1>4. Hilo(p, loc[h], msj[h])
  BY <1>1, <1>2, <1>3 DEF Hilo
<1> QED
  BY <1>2, <1>4, PasarVale DEF Ir

LEMMA BuscarVale ==
    ASSUME Tipos, NEW h \in Hilos, Buscar(h)
    PROVE  TipoHilos'
<1> DEFINE l == loc[h]
           s == GetOsadaFile(Head(l.subpaths), l.padre)
           k == [l EXCEPT !.info = s, !.subpaths = <<>>, !.padre = RAIZ, !.sigue = "recibir"]
           n == [l EXCEPT !.subpaths = Tail(@), !.padre = s]
<1>1. pc[h] = "buscar" /\ Hilo("buscar", l, msj[h]) /\ l \in Local /\ TipoHilos
  BY EnPaso DEF Buscar, En, Tipos
<1>2. l.subpaths # <<>> /\ l.subpaths \in Rutas
  BY <1>1 DEF Hilo, Local
<1>3. s \in Archivos \cup {NULO}
  BY GetOsadaFileTipo
<1>4. Tail(l.subpaths) \in Rutas /\ (Len(l.subpaths) # 1 => Tail(l.subpaths) # <<>>)
  BY <1>2, PartesDeRuta
<1>5. EnEtapa(msj[h].accion, l.sigue) /\ l.sigue # "buscar" /\ l.sigue \in Etapas
  <2>1. EnEtapa(msj[h].accion, l.sigue)
    BY <1>1 DEF Hilo, Lugar
  <2> QED
    BY <2>1, EnEtapaEs
<1>6. CASE s = NULO \/ Len(l.subpaths) = 1
  <2>1. /\ k \in Local /\ k.info # RAIZ /\ k.file = l.file /\ k.origen = l.origen
        /\ k.destino = l.destino /\ k.bloques = l.bloques
    BY <1>1, <1>3, RutaVacia, Numeros DEF Local, Etapas
  <2>2. Pasar(h, l.sigue, k)
    BY <1>6 DEF Buscar
  <2> HIDE DEF k, s
  <2>3. Hilo(l.sigue, k, msj[h])
    BY <1>1, <1>5, <2>1 DEF Hilo, Lugar
  <2> HIDE DEF l
  <2> QED
    BY <1>1, <1>5, <2>2, <2>3, PasarVale
<1>7. CASE ~(s = NULO \/ Len(l.subpaths) = 1)
  <2>1. /\ n \in Local /\ n.info = l.info /\ n.file = l.file /\ n.origen = l.origen
        /\ n.destino = l.destino /\ n.bloques = l.bloques /\ n.sigue = l.sigue
        /\ n.subpaths = Tail(l.subpaths)
    BY <1>1, <1>3, <1>4, <1>7 DEF Local
  <2>2. Pasar(h, "buscar", n)
    BY <1>7 DEF Buscar
  <2> HIDE DEF n, s
  <2>3. Hilo("buscar", n, msj[h])
    BY <1>1, <1>4, <1>7, <2>1 DEF Hilo, Lugar
  <2>4. "buscar" \in Etapas
    BY DEF Etapas
  <2> HIDE DEF l
  <2> QED
    BY <1>1, <2>2, <2>3, <2>4, PasarVale
<1> QED
  BY <1>6, <1>7
-----------------------------------------------------------------------------
\* A lookup from a step of another: GetInfoFile with the local variables l.
LEMMA GetInfoFileVale ==
    ASSUME TipoHilos, NEW h \in Hilos, NEW l \in Local, NEW path \in Rutas, NEW p,
           GetInfoFile(h, path, p, l),
           EnEtapa(msj[h].accion, p),
           path = <<>> => p \in {"asignar", "renPadre"},
           p \in ConArchivo => l.file \in Archivos,
           p \in Buscables,
           msj[h].accion = "RENAME" =>
               /\ p # "renOrigen" => l.origen \in Archivos
               /\ p \notin {"renOrigen", "renPadre"} => l.destino \in Archivos \cup {RAIZ}
    PROVE  TipoHilos'
<1> DEFINE n == [l EXCEPT !.info = NULO]
<1>1. /\ n \in Local /\ n.file = l.file /\ n.origen = l.origen /\ n.destino = l.destino
      /\ n.info = NULO
  BY DEF Local
<1>2. p \in Etapas /\ p # "buscar"
  BY EnEtapaEs
<1>3. Pedible(msj[h])
  BY EnPaso
<1> HIDE DEF n
<1>4. Lugar(p, n) = p
  BY <1>2 DEF Lugar
<1>5. Hilo(p, n, msj[h])
  BY <1>1, <1>2, <1>3, <1>4, Numeros DEF Hilo, Buscables
<1>6. Hilo(Salto(path, p), ConRuta(l, path, p), msj[h])
  BY <1>2, <1>5, BuscaVale DEF n
<1>7. Salto(path, p) \in Etapas
  BY <1>2 DEF Salto, Etapas
<1> QED
  BY <1>6, <1>7, PasarVale DEF GetInfoFile
-----------------------------------------------------------------------------
\* A step that leaves the disk and the locks alone only has to mind the threads.
LEMMA Quieto == Tipos /\ TipoHilos' /\ UNCHANGED <<disco, cerrojos>> => Tipos'
  BY DiscoIgual, CerrojosIgual DEF Tipos

LEMMA CaerTipos == Tipos /\ Caer => Tipos'
<1> SUFFICES ASSUME Tipos, Caer PROVE Tipos'
  OBVIOUS
<1>1. UNCHANGED <<disco, cerrojos>> /\ UNCHANGED <<pc, loc, msj, respuesta>>
  BY DEF Caer
<1>2. TipoHilos'
  BY <1>1 DEF Tipos, TipoHilos
<1> QED
  BY <1>1, <1>2, Quieto

\* The steps of a thread between recv and the first operation.
LEMMA UsarExistenteTipos ==
    ASSUME Tipos, NEW h \in Hilos, UsarExistente(h)
    PROVE  Tipos'
<1>1. pc[h] = "existe" /\ msj[h].accion \in {"READ", "WRITE"} /\ TipoHilos
  BY DEF UsarExistente, En, Tipos
<1>2. msj[h].path \in Rutas /\ msj[h].path # <<>>
  BY <1>1, EnPaso
<1>3. CASE IsExist(h, "REGULAR")
  <2> DEFINE p == IF msj[h].accion = "READ" THEN "leer" ELSE "escribir"
  <2>1. GetInfoFile(h, msj[h].path, p, SinLocales)
    BY <1>3 DEF UsarExistente
  <2>2. EnEtapa(msj[h].accion, p) /\ p \notin ConArchivo /\ p \in Buscables
        /\ msj[h].accion # "RENAME"
    BY <1>1 DEF EnEtapa, ConArchivo, Buscables
  <2> HIDE DEF p
  <2> QED
    BY <1>1, <1>2, <2>1, <2>2, SinLocalesTipo, GetInfoFileVale, Quieto DEF UsarExistente
<1>4. CASE ~IsExist(h, "REGULAR")
  <2>1. Responder(h, IF msj[h].accion = "READ" THEN "ERROR" ELSE "ENOENT")
    BY <1>4 DEF UsarExistente
  <2>2. (IF msj[h].accion = "READ" THEN "ERROR" ELSE "ENOENT") \in Respuestas
    BY DEF Respuestas
  <2> QED
    BY <1>1, <2>1, <2>2, ResponderVale, Quieto DEF UsarExistente
<1> QED
  BY <1>3, <1>4

LEMMA CrearInexistenteTipos ==
    ASSUME Tipos, NEW h \in Hilos, CrearInexistente(h)
    PROVE  Tipos'
<1>1. pc[h] = "existe" /\ msj[h].accion = "MKDIR" /\ TipoHilos
  BY DEF CrearInexistente, En, Tipos
<1>2. PathPadre(msj[h].path) \in Rutas
  BY <1>1, EnPaso, PartesDeRuta
<1>3. CASE ~IsExist(h, "DIRECTORY")
  <2>1. GetInfoFile(h, PathPadre(msj[h].path), "asignar", SinLocales)
    BY <1>3 DEF CrearInexistente
  <2>2. EnEtapa(msj[h].accion, "asignar") /\ "asignar" \notin ConArchivo
        /\ "asignar" \in Buscables /\ "asignar" \in {"asignar", "renPadre"}
        /\ msj[h].accion # "RENAME"
    BY <1>1 DEF EnEtapa, ConArchivo, Buscables
  <2> QED
    BY <1>1, <1>2, <2>1, <2>2, SinLocalesTipo, GetInfoFileVale, Quieto DEF CrearInexistente
<1>4. CASE IsExist(h, "DIRECTORY")
  BY <1>1, <1>4, ResponderVale, Quieto DEF CrearInexistente, Respuestas
<1> QED
  BY <1>3, <1>4

LEMMA ConsultarTipos ==
    ASSUME Tipos, NEW h \in Hilos, Consultar(h) \/ Readdir(h) \/ NoAsignar(h)
    PROVE  Tipos'
<1>1. TipoHilos
  BY DEF Tipos
<1>2. PICK r \in Respuestas : Responder(h, r)
  <2>1. CASE Consultar(h)
    BY <2>1 DEF Consultar, Respuestas
  <2>2. CASE Readdir(h)
    BY <2>2 DEF Readdir, Respuestas
  <2>3. CASE NoAsignar(h)
    BY <2>3 DEF NoAsignar, Respuestas
  <2> QED
    BY <2>1, <2>2, <2>3
<1>3. UNCHANGED <<disco, cerrojos>>
  BY DEF Consultar, Readdir, NoAsignar
<1> QED
  BY <1>1, <1>2, <1>3, ResponderVale, Quieto

LEMMA AsignarTipos ==
    ASSUME Tipos, NEW h \in Hilos, AsignarEnTablaDeArchivos(h)
    PROVE  Tipos'
<1> DEFINE s == Min(Borrados)
           f == Nuevo(TipoNuevo(msj[h].accion), msj[h].path, loc[h].info)
<1>1. /\ pc[h] = "asignar" /\ TipoHilos /\ Borrados # {} /\ loc[h].info # NULO
      /\ tablaArchivos' = [tablaArchivos EXCEPT ![s] = f]
      /\ Responder(h, "OK") /\ UNCHANGED <<bitmap, tablaAsignacion, cerrojos>>
  BY DEF AsignarEnTablaDeArchivos, En, Tipos
<1>2. msj[h].accion # "NULL" /\ msj[h].path \in Rutas /\ loc[h] \in Local
  <2>1. Hilo("asignar", loc[h], msj[h])
    BY <1>1, EnPaso
  <2> QED
    BY <1>1, <2>1, EnPaso DEF Hilo, EnEtapa, Lugar
<1>3. f \in Archivo
  <2>1. NombreFile(msj[h].path) \in Nombres
    BY <1>1, <1>2, EnPaso, PartesDeRuta
  <2>2. TipoNuevo(msj[h].accion) \in {"DELETED", "REGULAR", "DIRECTORY"}
    BY DEF TipoNuevo
  <2>3. loc[h].info \in Archivos \cup {RAIZ}
    BY <1>1, <1>2 DEF Local
  <2> QED
    BY <2>1, <2>2, <2>3, Numeros DEF Nuevo, Archivo
<1>4. TipoDisco'
  <2> HIDE DEF f
  <2> QED
    BY <1>1, <1>3 DEF Tipos, TipoDisco
<1> QED
  BY <1>1, <1>4, ResponderVale, CerrojosIgual DEF Tipos, Respuestas
-----------------------------------------------------------------------------
\* readFile and writeFile.
LEMMA ConFile ==
    ASSUME NEW l \in Local, NEW s \in Archivos
    PROVE  /\ [l EXCEPT !.info = NULO, !.file = s] \in Local
           /\ [l EXCEPT !.info = NULO, !.file = s].info = NULO
           /\ [l EXCEPT !.info = NULO, !.file = s].file = s
           /\ [l EXCEPT !.info = NULO, !.file = s].origen = l.origen
           /\ [l EXCEPT !.info = NULO, !.file = s].destino = l.destino
  BY DEF Local

LEMMA LecturaTipos ==
    ASSUME Tipos, NEW h \in Hilos, LeerArchivo(h)
    PROVE  Tipos'
<1>1. TipoHilos /\ TipoCerrojos /\ TipoDisco
  BY DEF Tipos
<1>2. CASE LeerNada(h)
  BY <1>2, CaerTipos DEF LeerNada
<1>3. CASE LockearLectura(h)
  <2>1. PICK s \in Archivos : /\ lectores' = [lectores EXCEPT ![s] = @ \cup {h}]
                              /\ Pasar(h, "leyendo", [loc[h] EXCEPT !.info = NULO, !.file = s])
    BY <1>3 DEF LockearLectura
  <2>2. pc[h] = "leer" /\ UNCHANGED <<disco, escritor>>
    BY <1>3 DEF LockearLectura, En
  <2>3. TipoCerrojos'
    BY <1>1, <2>1, <2>2 DEF TipoCerrojos
  <2> DEFINE k == [loc[h] EXCEPT !.info = NULO, !.file = s]
  <2>4. Hilo("leer", loc[h], msj[h]) /\ loc[h] \in Local
    BY <1>1, <2>2, EnPaso
  <2>5. k \in Local /\ k.info = NULO /\ k.file = s
    BY <2>4, ConFile
  <2> HIDE DEF k
  <2>6. Hilo("leyendo", k, msj[h])
    BY <2>4, <2>5, Numeros DEF Hilo, EnEtapa, Lugar
  <2>7. TipoHilos'
    <3>1. "leyendo" \in Etapas
      BY DEF Etapas
    <3> QED
      BY <1>1, <2>1, <2>6, <3>1, PasarVale DEF k
  <2> QED
    BY <1>1, <2>2, <2>3, <2>7, DiscoIgual DEF Tipos
<1>4. CASE Leer(h)
  <2>1. TipoHilos'
    BY <1>1, <1>4, ResponderVale DEF Leer, Respuestas
  <2>2. TipoCerrojos'
    BY <1>1, <1>4 DEF Leer, TipoCerrojos
  <2> QED
    BY <1>1, <1>4, <2>1, <2>2, DiscoIgual DEF Tipos, Leer
<1> QED
  BY <1>2, <1>3, <1>4 DEF LeerArchivo
-----------------------------------------------------------------------------
\* The steps of a write.
LEMMA ReservarTipo ==
    ASSUME TipoDisco, NEW pos \in Posiciones, Reservar(pos)
    PROVE  bitmap' \subseteq Bloques
  BY DEF Reservar, TipoDisco, Posiciones

LEMMA EnlazarTipo ==
    ASSUME TipoDisco, NEW p \in Posiciones, NEW q \in Posiciones, Enlazar(p, q)
    PROVE  tablaAsignacion' \in [Posiciones -> Posiciones]
  BY DEF Enlazar, TipoDisco

LEMMA ArchivoTipo ==
    ASSUME TipoDisco, NEW s \in Archivos, NEW n \in Nat, NEW p \in Posiciones
    PROVE  /\ [tablaArchivos EXCEPT ![s].first_block = p] \in [Archivos -> Archivo]
           /\ [tablaArchivos EXCEPT ![s].file_size = n] \in [Archivos -> Archivo]
           /\ [tablaArchivos EXCEPT ![s].state = "DELETED"] \in [Archivos -> Archivo]
  BY DEF TipoDisco, Archivo

LEMMA SoltarTipo ==
    ASSUME TipoCerrojos, NEW h \in Hilos, Soltar(h), UNCHANGED lectores
    PROVE  TipoCerrojos'
  BY DEF TipoCerrojos, Soltar

\* A step of a write, with its file.
DeEscritura == {"primero", "ubicar", "reservar", "enlazar", "cerrar", "copiar", "bloque",
                "tamanio"}

LEMMA EnEscritura ==
    ASSUME TipoHilos, NEW h \in Hilos, pc[h] \in DeEscritura
    PROVE  /\ msj[h].accion = "WRITE" /\ loc[h] \in Local /\ loc[h].file \in Archivos
           /\ loc[h].posBlockPadre \in Posiciones /\ loc[h].faltan \in Nat
           /\ loc[h].info # RAIZ
           /\ msj[h].size \in Nat /\ msj[h].off \in Nat
<1>1. Hilo(pc[h], loc[h], msj[h]) /\ msj[h].size \in Nat /\ msj[h].off \in Nat
  BY EnPaso
<1>2. pc[h] \notin {"buscar", "asignar", "renPadre"} /\ Lugar(pc[h], loc[h]) = pc[h]
  BY DEF DeEscritura, Lugar
<1>3. msj[h].accion = "WRITE" /\ loc[h] \in Local /\ loc[h].file \in Archivos
  BY <1>1, <1>2 DEF Hilo, EnEtapa, DeEscritura, ConArchivo
<1> QED
  BY <1>1, <1>2, <1>3 DEF Hilo, Local

\* From a step of a write to another.
LEMMA SigueEscritura ==
    ASSUME TipoHilos, NEW h \in Hilos, pc[h] \in DeEscritura \cup {"escribir"},
           NEW p \in DeEscritura, NEW l \in Local, Pasar(h, p, l),
           l.info # RAIZ, l.file \in Archivos
    PROVE  TipoHilos'
<1>1. msj[h].accion = "WRITE" /\ Pedible(msj[h])
  <2>1. Hilo(pc[h], loc[h], msj[h]) /\ Pedible(msj[h])
    BY EnPaso
  <2> QED
    BY <2>1 DEF Hilo, EnEtapa, DeEscritura, Lugar
<1>2. /\ p \in Etapas /\ Lugar(p, l) = p /\ EnEtapa("WRITE", p)
      /\ p \notin {"tLee", "tEscribe", "buscar"}
  BY DEF DeEscritura, Etapas, EnEtapa, Lugar
<1>3. Hilo(p, l, msj[h])
  BY <1>1, <1>2 DEF Hilo
<1> QED
  BY <1>2, <1>3, PasarVale

LEMMA EscribirTipos ==
    ASSUME Tipos, NEW h \in Hilos, EscribirNada(h) \/ Escribir(h)
    PROVE  Tipos'
<1>1. TipoHilos
  BY DEF Tipos
<1>2. CASE EscribirNada(h)
  BY <1>2, CaerTipos DEF EscribirNada
<1>3. CASE Escribir(h)
  <2>1. PICK s \in Archivos :
            Pasar(h, IF tablaArchivos[s].first_block = FIN THEN "primero" ELSE "ubicar",
                 [loc[h] EXCEPT !.info = NULO, !.file = s])
    BY <1>3 DEF Escribir
  <2> DEFINE p == IF tablaArchivos[s].first_block = FIN THEN "primero" ELSE "ubicar"
             k == [loc[h] EXCEPT !.info = NULO, !.file = s]
  <2>2. pc[h] = "escribir" /\ UNCHANGED <<disco, cerrojos>>
    BY <1>3 DEF Escribir, En
  <2>3. k \in Local /\ k.info # RAIZ /\ k.file \in Archivos
    <3>1. loc[h] \in Local
      BY <1>1, EnPaso
    <3> QED
      BY <3>1, ConFile, Numeros
  <2>4. p \in DeEscritura /\ Pasar(h, p, k)
    BY <2>1 DEF DeEscritura
  <2> HIDE DEF p, k
  <2> QED
    BY <1>1, <2>2, <2>3, <2>4, SigueEscritura, Quieto
<1> QED
  BY <1>2, <1>3

LEMMA PrimeroTipos ==
    ASSUME Tipos, NEW h \in Hilos, ReservarPrimero(h)
    PROVE  Tipos'
<1>1. TipoHilos /\ TipoDisco /\ pc[h] = "primero" /\ UNCHANGED cerrojos
  BY DEF Tipos, ReservarPrimero, En
<1>2. msj[h].accion = "WRITE" /\ loc[h] \in Local /\ loc[h].file \in Archivos /\ loc[h].info # RAIZ
  BY <1>1, EnEscritura DEF DeEscritura
<1>3. /\ Reservar(PosLibre)
      /\ tablaArchivos' = [tablaArchivos EXCEPT ![loc[h].file].first_block = PosLibre]
      /\ \/ Responder(h, "ENOSPC") /\ UNCHANGED tablaAsignacion
         \/ Enlazar(PosLibre, FIN) /\ Ir(h, "ubicar")
  BY DEF ReservarPrimero
<1>4. bitmap' \subseteq Bloques /\ tablaArchivos' \in [Archivos -> Archivo]
  BY <1>1, <1>2, <1>3, PosLibreTipo, ReservarTipo, ArchivoTipo
<1>5. tablaAsignacion' \in [Posiciones -> Posiciones]
  BY <1>1, <1>3, PosLibreTipo, EnlazarTipo, Numeros DEF TipoDisco
<1>6. TipoHilos'
  <2>1. CASE Responder(h, "ENOSPC")
    BY <1>1, <2>1, ResponderVale DEF Respuestas
  <2>2. CASE Ir(h, "ubicar")
    BY <1>1, <1>2, <2>2, SigueEscritura DEF Ir, DeEscritura
  <2> QED
    BY <1>3, <2>1, <2>2
<1> QED
  BY <1>1, <1>4, <1>5, <1>6, CerrojosIgual DEF Tipos, TipoDisco

LEMMA ConPadre ==
    ASSUME NEW l \in Local, NEW pos \in Posiciones
    PROVE  /\ [l EXCEPT !.posBlockPadre = pos] \in Local
           /\ [l EXCEPT !.posBlockPadre = pos].info = l.info
           /\ [l EXCEPT !.posBlockPadre = pos].file = l.file
           /\ [l EXCEPT !.posBlockPadre = pos].posBlockPadre = pos
           /\ [l EXCEPT !.posBlockPadre = pos].bloques = l.bloques
           /\ [l EXCEPT !.posBlockPadre = pos].faltan = l.faltan
           /\ [l EXCEPT !.posBlockPadre = pos].sigue = l.sigue
  BY DEF Local

LEMMA UbicarTipos ==
    ASSUME Tipos, NEW h \in Hilos, Ubicar(h)
    PROVE  Tipos'
<1> DEFINE pos == GetPosBlock(loc[h].file, msj[h].off \div TamBloque)
           p == IF pos = FIN THEN "reservar" ELSE "cerrar"
           k == [loc[h] EXCEPT !.posBlockPadre = pos]
<1>1. TipoHilos /\ TipoDisco /\ pc[h] = "ubicar" /\ UNCHANGED <<disco, cerrojos>>
  BY DEF Tipos, Ubicar, En
<1>2. /\ msj[h].accion = "WRITE" /\ loc[h] \in Local /\ loc[h].file \in Archivos
      /\ loc[h].info # RAIZ /\ msj[h].off \in Nat
  BY <1>1, EnEscritura DEF DeEscritura
<1>3. pos \in Posiciones
  <2>1. msj[h].off \div TamBloque \in Nat
    BY <1>2, Numeros
  <2> QED
    BY <1>1, <1>2, <2>1, GetPosBlockTipo
<1>4. Pasar(h, p, k) /\ p \in DeEscritura
  BY DEF Ubicar, DeEscritura
<1> HIDE DEF pos
<1>5. k \in Local /\ k.info # RAIZ /\ k.file \in Archivos
  BY <1>2, <1>3, ConPadre
<1> HIDE DEF k, p
<1> QED
  BY <1>1, <1>4, <1>5, SigueEscritura, Quieto DEF DeEscritura

LEMMA SiguienteTipos ==
    ASSUME Tipos, NEW h \in Hilos, ReservarSiguiente(h)
    PROVE  Tipos'
<1> DEFINE k == [loc[h] EXCEPT !.posBlockPadre = PosLibre]
<1>1. /\ TipoHilos /\ TipoDisco /\ pc[h] = "reservar" /\ Reservar(PosLibre)
      /\ UNCHANGED <<tablaAsignacion, tablaArchivos, cerrojos>>
      /\ Pasar(h, "enlazar", k)
  BY DEF Tipos, ReservarSiguiente, En
<1>2. loc[h] \in Local /\ loc[h].file \in Archivos /\ loc[h].info # RAIZ
  BY <1>1, EnEscritura DEF DeEscritura
<1>3. k \in Local /\ k.info # RAIZ /\ k.file \in Archivos
  BY <1>2, ConPadre, PosLibreTipo
<1>4. TipoDisco'
  BY <1>1, PosLibreTipo, ReservarTipo DEF TipoDisco
<1> HIDE DEF k
<1>5. TipoHilos'
  BY <1>1, <1>3, SigueEscritura DEF DeEscritura
<1> QED
  BY <1>1, <1>4, <1>5, CerrojosIgual DEF Tipos

LEMMA UltimoTipos ==
    ASSUME Tipos, NEW h \in Hilos, EnlazarUltimo(h)
    PROVE  Tipos'
<1> DEFINE primero == tablaArchivos[loc[h].file].first_block
           pos == loc[h].posBlockPadre
<1>1. /\ TipoHilos /\ TipoDisco /\ pc[h] = "enlazar" /\ Ir(h, "cerrar")
      /\ UNCHANGED <<bitmap, tablaArchivos, cerrojos>>
  BY DEF Tipos, EnlazarUltimo, En
<1>2. PICK ultimo \in UltPosBlock(primero) :
          tablaAsignacion' = [tablaAsignacion EXCEPT ![ultimo] = pos, ![pos] = FIN]
  BY DEF EnlazarUltimo
<1>3. loc[h] \in Local /\ loc[h].file \in Archivos /\ loc[h].info # RAIZ /\ pos \in Posiciones
  BY <1>1, EnEscritura DEF DeEscritura
<1>4. primero \in Posiciones
  BY <1>1, <1>3 DEF TipoDisco, Archivo
<1>5. ultimo \in Posiciones
  BY <1>1, <1>2, <1>4, UltPosBlockTipo
<1> HIDE DEF pos, primero
<1>6. tablaAsignacion' \in [Posiciones -> Posiciones]
  BY <1>1, <1>2, <1>3, <1>5, Numeros DEF TipoDisco
<1>7. TipoHilos'
  BY <1>1, <1>3, SigueEscritura DEF Ir, DeEscritura
<1> QED
  BY <1>1, <1>6, <1>7, CerrojosIgual DEF Tipos, TipoDisco

LEMMA LockearEscrituraTipos ==
    ASSUME Tipos, NEW h \in Hilos, LockearEscritura(h)
    PROVE  Tipos'
<1>1. /\ TipoHilos /\ TipoCerrojos /\ pc[h] = "cerrar" /\ Ir(h, "copiar")
      /\ escritor' = [escritor EXCEPT ![loc[h].file] = h] /\ UNCHANGED <<disco, lectores>>
  BY DEF Tipos, LockearEscritura, En
<1>2. loc[h] \in Local /\ loc[h].file \in Archivos /\ loc[h].info # RAIZ
  BY <1>1, EnEscritura DEF DeEscritura
<1>3. TipoCerrojos'
  BY <1>1, <1>2 DEF TipoCerrojos
<1>4. TipoHilos'
  BY <1>1, <1>2, SigueEscritura DEF Ir, DeEscritura
<1> QED
  BY <1>1, <1>3, <1>4, DiscoIgual DEF Tipos

LEMMA CopiarTipos ==
    ASSUME Tipos, NEW h \in Hilos, CopiarPrimero(h)
    PROVE  Tipos'
<1> DEFINE n == BloquesQueFaltan(msj[h])
           k == [loc[h] EXCEPT !.faltan = n]
<1>1. TipoHilos /\ TipoCerrojos /\ pc[h] = "copiar" /\ UNCHANGED <<disco, lectores>>
  BY DEF Tipos, CopiarPrimero, En
<1>2. /\ loc[h] \in Local /\ loc[h].file \in Archivos /\ loc[h].info # RAIZ
      /\ msj[h].size \in Nat /\ msj[h].off \in Nat
  BY <1>1, EnEscritura DEF DeEscritura
<1>3. n \in Nat
  BY <1>2, BloquesQueFaltanTipo
<1>4. \/ Ir(h, "tamanio") /\ UNCHANGED escritor
      \/ Pasar(h, "bloque", k) /\ UNCHANGED escritor
      \/ Soltar(h) /\ Responder(h, "ENOSPC")
  BY DEF CopiarPrimero
<1> HIDE DEF n
<1>5. k \in Local /\ k.info # RAIZ /\ k.file \in Archivos
  BY <1>2, <1>3 DEF Local
<1> HIDE DEF k
<1>6. TipoCerrojos'
  BY <1>1, <1>4, SoltarTipo DEF TipoCerrojos
<1>7. TipoHilos'
  <2>1. CASE Ir(h, "tamanio")
    BY <1>1, <1>2, <2>1, SigueEscritura DEF Ir, DeEscritura
  <2>2. CASE Pasar(h, "bloque", k)
    BY <1>1, <1>5, <2>2, SigueEscritura DEF DeEscritura
  <2>3. CASE Responder(h, "ENOSPC")
    BY <1>1, <2>3, ResponderVale DEF Respuestas
  <2> QED
    BY <1>4, <2>1, <2>2, <2>3
<1> QED
  BY <1>1, <1>6, <1>7, DiscoIgual DEF Tipos

LEMMA TamanioTipos ==
    ASSUME Tipos, NEW h \in Hilos, GuardarTamanio(h)
    PROVE  Tipos'
<1> DEFINE n == msj[h].size + msj[h].off
<1>1. /\ TipoHilos /\ TipoDisco /\ TipoCerrojos /\ pc[h] = "tamanio"
      /\ tablaArchivos' = [tablaArchivos EXCEPT ![loc[h].file].file_size = n]
      /\ Soltar(h) /\ Responder(h, "OK") /\ UNCHANGED <<bitmap, tablaAsignacion, lectores>>
  BY DEF Tipos, GuardarTamanio, En
<1>2. loc[h].file \in Archivos /\ n \in Nat
  BY <1>1, EnEscritura DEF DeEscritura
<1> HIDE DEF n
<1>3. tablaArchivos' \in [Archivos -> Archivo]
  BY <1>1, <1>2, ArchivoTipo, Numeros
<1> QED
  BY <1>1, <1>3, SoltarTipo, ResponderVale DEF Tipos, TipoDisco, Respuestas

LEMMA CerrarCadenaTipos ==
    ASSUME Tipos, NEW h \in Hilos, CerrarCadena(h)
    PROVE  Tipos'
<1>1. /\ TipoHilos /\ TipoDisco /\ pc[h] = "bloque" /\ Ir(h, "tamanio")
      /\ Enlazar(loc[h].posBlockPadre, FIN) /\ UNCHANGED <<bitmap, tablaArchivos, cerrojos>>
  BY DEF Tipos, CerrarCadena, En
<1>2. /\ loc[h] \in Local /\ loc[h].file \in Archivos /\ loc[h].info # RAIZ
      /\ loc[h].posBlockPadre \in Posiciones
  BY <1>1, EnEscritura DEF DeEscritura
<1>3. tablaAsignacion' \in [Posiciones -> Posiciones]
  BY <1>1, <1>2, EnlazarTipo, Numeros
<1>4. TipoHilos'
  BY <1>1, <1>2, SigueEscritura DEF Ir, DeEscritura
<1> QED
  BY <1>1, <1>3, <1>4, CerrojosIgual DEF Tipos, TipoDisco
-----------------------------------------------------------------------------
\* A step of a truncate, with its file.
DeTruncado == {"tPrimero", "tBloque", "tLee", "tEscribe", "tFin"}

LEMMA EnTruncado ==
    ASSUME TipoHilos, NEW h \in Hilos, pc[h] \in DeTruncado \cup {"truncar"}
    PROVE  /\ msj[h].accion = "TRUNCATE" /\ loc[h] \in Local
           /\ loc[h].posBlockPadre \in Posiciones /\ loc[h].faltan \in Nat
           /\ loc[h].bloques \in Seq(Posiciones) /\ loc[h].leido \subseteq Bloques
           /\ loc[h].info # RAIZ /\ msj[h].size \in Nat
           /\ pc[h] \in DeTruncado => loc[h].file \in Archivos
           /\ pc[h] \in {"tLee", "tEscribe"} => loc[h].bloques # <<>>
<1>1. Hilo(pc[h], loc[h], msj[h]) /\ msj[h].size \in Nat
  BY EnPaso
<1>2. pc[h] \notin {"buscar", "asignar", "renPadre"} /\ Lugar(pc[h], loc[h]) = pc[h]
  BY DEF DeTruncado, Lugar
<1>3. msj[h].accion = "TRUNCATE" /\ loc[h] \in Local
  BY <1>1, <1>2 DEF Hilo, EnEtapa, DeTruncado
<1>4. pc[h] \in DeTruncado => loc[h].file \in Archivos
  BY <1>1, <1>2 DEF Hilo, DeTruncado, ConArchivo
<1>5. /\ loc[h].posBlockPadre \in Posiciones /\ loc[h].faltan \in Nat
      /\ loc[h].bloques \in Seq(Posiciones) /\ loc[h].leido \subseteq Bloques
  BY <1>3 DEF Local
<1>6. pc[h] \in {"tLee", "tEscribe"} => loc[h].bloques # <<>>
  BY <1>1, <1>2 DEF Hilo
<1>7. loc[h].info # RAIZ
  BY <1>1, <1>2 DEF Hilo
<1> QED
  BY <1>1, <1>3, <1>4, <1>5, <1>6, <1>7

\* From a step of a truncate to another.
LEMMA SigueTruncado ==
    ASSUME TipoHilos, NEW h \in Hilos, pc[h] \in DeTruncado \cup {"truncar"},
           NEW p \in DeTruncado, NEW l \in Local, Pasar(h, p, l),
           l.info # RAIZ, l.file \in Archivos,
           p \in {"tLee", "tEscribe"} => l.bloques # <<>>
    PROVE  TipoHilos'
<1>1. msj[h].accion = "TRUNCATE" /\ Pedible(msj[h])
  BY EnTruncado, EnPaso
<1>2. p \in Etapas /\ Lugar(p, l) = p /\ EnEtapa("TRUNCATE", p) /\ p # "buscar"
  BY DEF DeTruncado, Etapas, EnEtapa, Lugar
<1>3. Hilo(p, l, msj[h])
  BY <1>1, <1>2 DEF Hilo
<1> QED
  BY <1>2, <1>3, PasarVale

LEMMA SumarTipos ==
    ASSUME Tipos, NEW h \in Hilos, SumarBloque(h)
    PROVE  Tipos'
<1> DEFINE pos == PosLibre
           l == [loc[h] EXCEPT !.faltan = @ - 1]
           k == [l EXCEPT !.posBlockPadre = pos]
<1>1. PICK p \in {"bloque", "tBloque"} :
          /\ pc[h] = p /\ loc[h].faltan > 0
          /\ \/ /\ pos # FIN /\ Reservar(pos) /\ Enlazar(l.posBlockPadre, pos)
                /\ Pasar(h, p, k)
             \/ /\ pos = FIN
                /\ Pasar(h, p, l)
                /\ UNCHANGED <<bitmap, tablaAsignacion>>
  BY DEF SumarBloque, En
<1>2. UNCHANGED <<tablaArchivos, cerrojos>> /\ TipoHilos /\ TipoDisco
  BY DEF SumarBloque, Tipos
<1>3. /\ loc[h] \in Local /\ loc[h].file \in Archivos /\ loc[h].info # RAIZ
      /\ loc[h].posBlockPadre \in Posiciones /\ loc[h].faltan \in Nat
  BY <1>1, <1>2, EnEscritura, EnTruncado DEF DeEscritura, DeTruncado
<1>4. loc[h].faltan - 1 \in Nat
  BY <1>1, <1>3
<1>5. /\ l \in Local /\ l.info # RAIZ /\ l.file \in Archivos
      /\ l.posBlockPadre = loc[h].posBlockPadre
  BY <1>3, <1>4 DEF Local
<1> HIDE DEF l
<1>6. pos \in Posiciones
  BY PosLibreTipo
<1> HIDE DEF pos
<1>7. k \in Local /\ k.info # RAIZ /\ k.file \in Archivos
  BY <1>5, <1>6, ConPadre
<1> HIDE DEF k
<1>8. TipoDisco'
  <2>1. bitmap' \subseteq Bloques
    BY <1>1, <1>2, <1>6, ReservarTipo DEF TipoDisco
  <2>2. tablaAsignacion' \in [Posiciones -> Posiciones]
    BY <1>1, <1>2, <1>3, <1>5, <1>6, EnlazarTipo DEF TipoDisco
  <2> QED
    BY <1>2, <2>1, <2>2 DEF TipoDisco
<1>9. TipoHilos'
  <2>1. CASE p = "bloque"
    BY <1>1, <1>2, <1>5, <1>7, <2>1, SigueEscritura DEF DeEscritura
  <2>2. CASE p = "tBloque"
    BY <1>1, <1>2, <1>5, <1>7, <2>2, SigueTruncado DEF DeTruncado
  <2> QED
    BY <2>1, <2>2
<1> QED
  BY <1>2, <1>8, <1>9, CerrojosIgual DEF Tipos

LEMMA EscrituraTipos ==
    ASSUME Tipos, NEW h \in Hilos, EscribirArchivo(h)
    PROVE  Tipos'
  BY EscribirTipos, PrimeroTipos, UbicarTipos, SiguienteTipos, UltimoTipos,
     LockearEscrituraTipos, CopiarTipos, SumarTipos, CerrarCadenaTipos, TamanioTipos
     DEF EscribirArchivo
-----------------------------------------------------------------------------
\* A step of a delete, or of the delete of a rename.
DeBorrado == {"borrar", "liberar", "marcar", "borrarDir", "listar"}

LEMMA EnBorrado ==
    ASSUME TipoHilos, NEW h \in Hilos, pc[h] \in DeBorrado
    PROVE  /\ msj[h].accion \in {"RM", "RMDIR", "RENAME"} /\ loc[h] \in Local
           /\ loc[h].info # RAIZ
           /\ pc[h] \in {"liberar", "listar", "marcar"} => loc[h].file \in Archivos
           /\ msj[h].accion = "RENAME" => /\ loc[h].origen \in Archivos
                                          /\ loc[h].destino \in Archivos \cup {RAIZ}
           /\ RutaBorrada(h) \in Rutas /\ RutaBorrada(h) # <<>>
<1>1. Hilo(pc[h], loc[h], msj[h])
  BY EnPaso
<1>2. Lugar(pc[h], loc[h]) = pc[h] /\ pc[h] \notin {"buscar", "asignar", "renPadre", "renOrigen"}
  BY DEF DeBorrado, Lugar
<1>3. msj[h].accion \in {"RM", "RMDIR", "RENAME"} /\ loc[h] \in Local
  BY <1>1, <1>2 DEF Hilo, EnEtapa, DeBorrado
<1>4. pc[h] \in {"liberar", "listar", "marcar"} => loc[h].file \in Archivos
  BY <1>1, <1>2 DEF Hilo, ConArchivo
<1>5. msj[h].accion = "RENAME" => /\ loc[h].origen \in Archivos
                                  /\ loc[h].destino \in Archivos \cup {RAIZ}
  BY <1>1, <1>2 DEF Hilo
<1>6. RutaBorrada(h) \in Rutas /\ RutaBorrada(h) # <<>>
  BY <1>3, EnPaso DEF RutaBorrada
<1>7. loc[h].info # RAIZ
  BY <1>1, <1>2 DEF Hilo
<1> QED
  BY <1>3, <1>4, <1>5, <1>6, <1>7

LEMMA VolverVale ==
    ASSUME TipoHilos, NEW h \in Hilos, pc[h] \in DeBorrado, NEW r \in Respuestas, Volver(h, r)
    PROVE  TipoHilos'
<1>1. CASE msj[h].accion = "RENAME"
  <2>1. Ir(h, "renombrar") /\ EnEtapa(msj[h].accion, "renombrar")
    BY <1>1 DEF Volver, EnEtapa
  <2>2. pc[h] \notin {"buscar", "asignar", "renPadre", "renOrigen"}
    BY DEF DeBorrado
  <2> QED
    BY <2>1, <2>2, IrVale DEF ConArchivo
<1>2. CASE msj[h].accion # "RENAME"
  BY <1>2, ResponderVale DEF Volver
<1> QED
  BY <1>1, <1>2

\* The steps of a delete.
LEMMA BorradoTipos ==
    ASSUME Tipos, NEW h \in Hilos, BorrarArchivo(h)
    PROVE  Tipos'
<1>0. TipoHilos /\ TipoDisco /\ TipoCerrojos
  BY DEF Tipos
<1>1. CASE NoBorrar(h)
  <2>1. pc[h] \in DeBorrado /\ Volver(h, "ENOENT") /\ UNCHANGED <<disco, cerrojos>>
    BY <1>1 DEF NoBorrar, En, DeBorrado
  <2> QED
    BY <1>0, <2>1, VolverVale, Quieto DEF Respuestas
<1>2. CASE Borrar(h)
  <2>1. pc[h] = "borrar" /\ UNCHANGED <<disco, cerrojos>>
    BY <1>2 DEF Borrar, En
  <2>2. PICK s \in Archivos :
            Pasar(h, "liberar",
                  [loc[h] EXCEPT !.info = NULO, !.file = s,
                       !.bloques = GetPosBlocks(tablaArchivos[s].first_block, 0,
                                                Techo(tablaArchivos[s].file_size))])
    BY <1>2 DEF Borrar
  <2> DEFINE q == GetPosBlocks(tablaArchivos[s].first_block, 0, Techo(tablaArchivos[s].file_size))
             k == [loc[h] EXCEPT !.info = NULO, !.file = s, !.bloques = q]
  <2>3. q \in Seq(Posiciones)
    <3>1. tablaArchivos[s].first_block \in Posiciones /\ tablaArchivos[s].file_size \in Nat
      BY <1>0 DEF TipoDisco, Archivo
    <3>2. Techo(tablaArchivos[s].file_size) \in Nat /\ 0 \in Nat
      BY <3>1, TechoTipo
    <3> QED
      BY <1>0, <3>1, <3>2, GetPosBlocksTipo
  <2>4. /\ msj[h].accion \in {"RM", "RMDIR", "RENAME"} /\ loc[h] \in Local
        /\ msj[h].accion = "RENAME" => /\ loc[h].origen \in Archivos
                                       /\ loc[h].destino \in Archivos \cup {RAIZ}
    BY <1>0, <2>1, EnBorrado DEF DeBorrado
  <2>5. Pedible(msj[h]) /\ msj[h].accion # "RMDIR"
    <3>1. Hilo("borrar", loc[h], msj[h])
      BY <1>0, <2>1, EnPaso
    <3> QED
      BY <3>1 DEF Hilo, EnEtapa, Lugar
  <2> HIDE DEF q
  <2>6. /\ k \in Local /\ k.info = NULO /\ k.file = s /\ k.origen = loc[h].origen
        /\ k.destino = loc[h].destino
    BY <2>3, <2>4 DEF Local
  <2>7. Pasar(h, "liberar", k)
    BY <2>2 DEF q
  <2> HIDE DEF k
  <2>8. Hilo("liberar", k, msj[h])
    <3>1. EnEtapa(msj[h].accion, "liberar") /\ Lugar("liberar", k) = "liberar"
      BY <2>4, <2>5 DEF EnEtapa, Lugar
    <3> QED
      BY <2>4, <2>5, <2>6, <3>1, Numeros DEF Hilo
  <2>9. "liberar" \in Etapas
    BY DEF Etapas
  <2> QED
    BY <1>0, <2>1, <2>7, <2>8, <2>9, PasarVale, Quieto
<1>3. CASE LiberarBloques(h)
  <2> DEFINE k == [loc[h] EXCEPT !.bloques = <<>>]
  <2>1. /\ pc[h] = "liberar" /\ Pasar(h, "marcar", k)
        /\ bitmap' = bitmap \ ToSet(loc[h].bloques)
        /\ UNCHANGED <<tablaAsignacion, tablaArchivos, cerrojos>>
    BY <1>3 DEF LiberarBloques, En
  <2>2. TipoDisco'
    BY <1>0, <2>1 DEF TipoDisco
  <2>3. Hilo("liberar", loc[h], msj[h]) /\ loc[h] \in Local
    BY <1>0, <2>1, EnPaso
  <2>4. /\ k \in Local /\ k.info = loc[h].info /\ k.file = loc[h].file
        /\ k.origen = loc[h].origen /\ k.destino = loc[h].destino
    BY <2>3, EmptySeq DEF Local
  <2> HIDE DEF k
  <2>5. Hilo("marcar", k, msj[h]) /\ "marcar" \in Etapas
    BY <2>3, <2>4 DEF Hilo, EnEtapa, Lugar, ConArchivo, Etapas
  <2> QED
    BY <1>0, <2>1, <2>2, <2>5, PasarVale, CerrojosIgual DEF Tipos
<1>4. CASE BorrarDirectorio(h)
  <2>1. pc[h] = "borrarDir" /\ UNCHANGED <<disco, cerrojos>>
    BY <1>4 DEF BorrarDirectorio, En
  <2>2. PICK s \in Archivos :
            GetInfoFile(h, RutaBorrada(h), "listar", [loc[h] EXCEPT !.file = s])
    BY <1>4 DEF BorrarDirectorio
  <2> DEFINE k == [loc[h] EXCEPT !.file = s]
  <2>3. /\ msj[h].accion \in {"RM", "RMDIR", "RENAME"} /\ loc[h] \in Local
        /\ msj[h].accion = "RENAME" => /\ loc[h].origen \in Archivos
                                       /\ loc[h].destino \in Archivos \cup {RAIZ}
        /\ RutaBorrada(h) \in Rutas /\ RutaBorrada(h) # <<>>
    BY <1>0, <2>1, EnBorrado DEF DeBorrado
  <2>4. /\ k \in Local /\ k.file = s /\ k.origen = loc[h].origen
        /\ k.destino = loc[h].destino
    BY <2>3 DEF Local
  <2>5. EnEtapa(msj[h].accion, "listar")
    <3>1. Hilo("borrarDir", loc[h], msj[h])
      BY <1>0, <2>1, EnPaso
    <3> QED
      BY <3>1 DEF Hilo, EnEtapa, Lugar
  <2>6. GetInfoFile(h, RutaBorrada(h), "listar", k)
    BY <2>2
  <2> HIDE DEF k
  <2>7. TipoHilos'
    <3>1. "listar" \in Buscables
      BY DEF Buscables
    <3> QED
      BY <1>0, <2>3, <2>4, <2>5, <2>6, <3>1, GetInfoFileVale
  <2> QED
    BY <1>0, <2>1, <2>7, Quieto
<1>5. CASE Listar(h)
  <2>1. pc[h] = "listar" /\ UNCHANGED <<disco, cerrojos>>
    BY <1>5 DEF Listar, En
  <2>2. CASE Ir(h, "marcar")
    <3>1. EnEtapa(msj[h].accion, "marcar")
      <4>1. Hilo("listar", loc[h], msj[h])
        BY <1>0, <2>1, EnPaso
      <4> QED
        BY <4>1 DEF Hilo, EnEtapa, Lugar
    <3>2. loc[h].file \in Archivos
      BY <1>0, <2>1, EnBorrado DEF DeBorrado
    <3> QED
      BY <1>0, <2>1, <2>2, <3>1, <3>2, IrVale, Quieto
  <2>3. CASE Volver(h, "EPERM")
    BY <1>0, <2>1, <2>3, VolverVale, Quieto DEF DeBorrado, Respuestas
  <2> QED
    BY <1>5, <2>2, <2>3 DEF Listar
<1>6. CASE ListarNada(h)
  BY <1>6, CaerTipos DEF ListarNada
<1>7. CASE Marcar(h)
  <2>1. /\ pc[h] = "marcar" /\ Volver(h, "OK")
        /\ tablaArchivos' = [tablaArchivos EXCEPT ![loc[h].file].state = "DELETED"]
        /\ UNCHANGED <<bitmap, tablaAsignacion, cerrojos>>
    BY <1>7 DEF Marcar, En
  <2>2. loc[h].file \in Archivos
    BY <1>0, <2>1, EnBorrado DEF DeBorrado
  <2>3. TipoDisco'
    BY <1>0, <2>1, <2>2, ArchivoTipo, Numeros DEF TipoDisco
  <2> QED
    BY <1>0, <2>1, <2>3, VolverVale, CerrojosIgual DEF Tipos, DeBorrado, Respuestas
<1> QED
  BY <1>1, <1>2, <1>3, <1>4, <1>5, <1>6, <1>7 DEF BorrarArchivo
-----------------------------------------------------------------------------
\* The steps of a rename.
LEMMA RenombradoTipos ==
    ASSUME Tipos, NEW h \in Hilos, RenombrarArchivo(h)
    PROVE  Tipos'
<1>0. TipoHilos /\ TipoDisco /\ TipoCerrojos
  BY DEF Tipos
<1>1. CASE RenombrarNada(h)
  BY <1>0, <1>1, ResponderVale, Quieto DEF RenombrarNada, Respuestas
<1>2. CASE RenombrarOrigen(h)
  <2> DEFINE k == [loc[h] EXCEPT !.origen = loc[h].info]
             path == PathPadre(msj[h].nuevoNombre)
  <2>1. /\ pc[h] = "renOrigen" /\ loc[h].info # NULO /\ UNCHANGED <<disco, cerrojos>>
        /\ GetInfoFile(h, path, "renPadre", k)
    BY <1>2 DEF RenombrarOrigen, En
  <2>2. msj[h].accion = "RENAME" /\ loc[h] \in Local /\ loc[h].info \in Archivos
        /\ path \in Rutas
    <3>1. Hilo("renOrigen", loc[h], msj[h])
      BY <1>0, <2>1, EnPaso
    <3>2. msj[h].accion = "RENAME" /\ loc[h] \in Local /\ loc[h].info # RAIZ
      BY <3>1 DEF Hilo, EnEtapa, Lugar
    <3>3. path \in Rutas
      BY <1>0, <2>1, <3>2, EnPaso, PartesDeRuta
    <3> QED
      BY <2>1, <3>2, <3>3 DEF Local
  <2> HIDE DEF path
  <2>3. k \in Local /\ k.origen \in Archivos
    BY <2>2 DEF Local
  <2>4. EnEtapa(msj[h].accion, "renPadre") /\ "renPadre" \notin ConArchivo
        /\ "renPadre" \in Buscables
    BY <2>2 DEF EnEtapa, ConArchivo, Buscables
  <2> HIDE DEF k
  <2> QED
    BY <1>0, <2>1, <2>2, <2>3, <2>4, GetInfoFileVale, Quieto
<1>3. CASE RenombrarPadre(h)
  <2> DEFINE k == [loc[h] EXCEPT !.destino = loc[h].info]
             path == msj[h].nuevoNombre
  <2>1. /\ pc[h] = "renPadre" /\ loc[h].info # NULO /\ UNCHANGED <<disco, cerrojos>>
        /\ GetInfoFile(h, path, "renDestino", k)
    BY <1>3 DEF RenombrarPadre, En
  <2>2. /\ msj[h].accion = "RENAME" /\ loc[h] \in Local /\ loc[h].info \in Archivos \cup {RAIZ}
        /\ loc[h].origen \in Archivos /\ path \in Rutas /\ path # <<>>
    <3>1. Hilo("renPadre", loc[h], msj[h])
      BY <1>0, <2>1, EnPaso
    <3>2. msj[h].accion = "RENAME" /\ loc[h] \in Local /\ loc[h].origen \in Archivos
      BY <3>1 DEF Hilo, EnEtapa, Lugar
    <3>3. path \in Rutas /\ path # <<>>
      BY <1>0, <2>1, <3>2, EnPaso
    <3> QED
      BY <2>1, <3>2, <3>3 DEF Local
  <2> HIDE DEF path
  <2>3. k \in Local /\ k.origen \in Archivos /\ k.destino \in Archivos \cup {RAIZ}
    BY <2>2 DEF Local
  <2>4. EnEtapa(msj[h].accion, "renDestino") /\ "renDestino" \notin ConArchivo
        /\ "renDestino" \in Buscables
    BY <2>2 DEF EnEtapa, ConArchivo, Buscables
  <2> HIDE DEF k
  <2> QED
    BY <1>0, <2>1, <2>2, <2>3, <2>4, GetInfoFileVale, Quieto
<1>4. CASE ReemplazarDestino(h)
  <2>1. pc[h] = "renDestino" /\ UNCHANGED <<disco, cerrojos>>
    BY <1>4 DEF ReemplazarDestino, En
  <2>2. /\ msj[h].accion = "RENAME" /\ loc[h] \in Local /\ loc[h].origen \in Archivos
        /\ loc[h].destino \in Archivos \cup {RAIZ}
        /\ msj[h].nuevoNombre \in Rutas /\ msj[h].nuevoNombre # <<>>
    <3>1. Hilo("renDestino", loc[h], msj[h])
      BY <1>0, <2>1, EnPaso
    <3>2. /\ msj[h].accion = "RENAME" /\ loc[h] \in Local /\ loc[h].origen \in Archivos
          /\ loc[h].destino \in Archivos \cup {RAIZ}
      BY <3>1 DEF Hilo, EnEtapa, Lugar
    <3> QED
      BY <1>0, <2>1, <3>2, EnPaso
  <2>3. CASE loc[h].info = NULO /\ Ir(h, "renombrar")
    <3>1. EnEtapa(msj[h].accion, "renombrar") /\ "renombrar" \notin ConArchivo
      BY <2>2 DEF EnEtapa, ConArchivo
    <3> QED
      BY <1>0, <2>1, <2>3, <3>1, IrVale, Quieto
  <2>4. ASSUME NEW s \in {loc[h].info} \cap Archivos,
               GetInfoFile(h, msj[h].nuevoNombre,
                           IF tablaArchivos[s].state = "DIRECTORY" THEN "borrarDir"
                                                                   ELSE "borrar", loc[h])
        PROVE  Tipos'
    <3> DEFINE p == IF tablaArchivos[s].state = "DIRECTORY" THEN "borrarDir" ELSE "borrar"
    <3>1. EnEtapa(msj[h].accion, p) /\ p \notin ConArchivo /\ p \in Buscables
      BY <2>2 DEF EnEtapa, ConArchivo, Buscables
    <3>2. GetInfoFile(h, msj[h].nuevoNombre, p, loc[h])
      BY <2>4
    <3> HIDE DEF p
    <3> QED
      BY <1>0, <2>1, <2>2, <3>1, <3>2, GetInfoFileVale, Quieto
  <2> QED
    BY <1>4, <2>3, <2>4 DEF ReemplazarDestino
<1>5. CASE Renombrar(h)
  <2> DEFINE nombre == NombreFile(msj[h].nuevoNombre)
             o == loc[h].origen
             t == [tablaArchivos EXCEPT ![o].fname = nombre,
                                        ![o].parent_directory = loc[h].destino]
  <2>1. /\ pc[h] = "renombrar" /\ Responder(h, "OK") /\ tablaArchivos' = t
        /\ UNCHANGED <<bitmap, tablaAsignacion, cerrojos>>
    BY <1>5 DEF Renombrar, En
  <2>2. Hilo("renombrar", loc[h], msj[h])
    BY <1>0, <2>1, EnPaso
  <2>3. /\ msj[h].accion = "RENAME" /\ o \in Archivos
        /\ loc[h].destino \in Archivos \cup {RAIZ}
    BY <2>2 DEF Hilo, EnEtapa, Lugar
  <2>4. nombre \in Nombres
    BY <1>0, <2>1, <2>3, EnPaso, PartesDeRuta
  <2> HIDE DEF nombre, o
  <2>5. t \in [Archivos -> Archivo]
    BY <1>0, <2>3, <2>4 DEF TipoDisco, Archivo
  <2> HIDE DEF t
  <2> QED
    BY <1>0, <2>1, <2>5, ResponderVale, CerrojosIgual DEF Tipos, TipoDisco, Respuestas
<1> QED
  BY <1>1, <1>2, <1>3, <1>4, <1>5 DEF RenombrarArchivo
-----------------------------------------------------------------------------
\* The steps of a truncate.
LEMMA TruncadoTipos ==
    ASSUME Tipos, NEW h \in Hilos, TruncarArchivo(h)
    PROVE  Tipos'
<1>0. TipoHilos /\ TipoDisco /\ TipoCerrojos
  BY DEF Tipos
<1>1. CASE TruncarNada(h)
  BY <1>0, <1>1, ResponderVale, Quieto DEF TruncarNada, Respuestas
<1>2. CASE TruncarVacio(h)
  <2> DEFINE n == Techo(msj[h].size)
  <2>1. pc[h] = "truncar" /\ UNCHANGED <<disco, cerrojos>>
    BY <1>2 DEF TruncarVacio, En
  <2>2. PICK s \in Archivos :
            \/ Pasar(h, "tPrimero", [loc[h] EXCEPT !.info = NULO, !.file = s, !.faltan = n])
            \/ Responder(h, "EFBIG")
    BY <1>2 DEF TruncarVacio
  <2> DEFINE k == [loc[h] EXCEPT !.info = NULO, !.file = s, !.faltan = n]
  <2>3. n \in Nat /\ loc[h] \in Local
    BY <1>0, <2>1, EnTruncado, TechoTipo
  <2> HIDE DEF n
  <2>4. k \in Local /\ k.info # RAIZ /\ k.file \in Archivos
    BY <2>3, Numeros DEF Local
  <2>5. Pasar(h, "tPrimero", k) \/ Responder(h, "EFBIG")
    BY <2>2
  <2> HIDE DEF k
  <2>6. TipoHilos'
    BY <1>0, <2>1, <2>4, <2>5, SigueTruncado, ResponderVale DEF DeTruncado, Respuestas
  <2> QED
    BY <1>0, <2>1, <2>6, Quieto
<1>3. CASE ReservarTruncado(h)
  <2> DEFINE k == [loc[h] EXCEPT !.posBlockPadre = PosLibre]
  <2>1. /\ pc[h] = "tPrimero" /\ Reservar(PosLibre) /\ Enlazar(PosLibre, FIN)
        /\ tablaArchivos' = [tablaArchivos EXCEPT ![loc[h].file].first_block = PosLibre]
        /\ Pasar(h, "tBloque", k) /\ UNCHANGED cerrojos
    BY <1>3 DEF ReservarTruncado, En
  <2>2. loc[h] \in Local /\ loc[h].file \in Archivos /\ loc[h].info # RAIZ
    BY <1>0, <2>1, EnTruncado DEF DeTruncado
  <2>3. k \in Local /\ k.info # RAIZ /\ k.file \in Archivos
    BY <2>2, ConPadre, PosLibreTipo
  <2>4. TipoDisco'
    BY <1>0, <2>1, <2>2, PosLibreTipo, ReservarTipo, EnlazarTipo, ArchivoTipo, Numeros
       DEF TipoDisco
  <2> HIDE DEF k
  <2>5. TipoHilos'
    BY <1>0, <2>1, <2>3, SigueTruncado DEF DeTruncado
  <2> QED
    BY <1>0, <2>1, <2>4, <2>5, CerrojosIgual DEF Tipos
<1>4. CASE TruncarCreciendo(h)
  <2>1. pc[h] = "truncar" /\ UNCHANGED <<disco, cerrojos>>
    BY <1>4 DEF TruncarCreciendo, En
  <2>2. PICK s \in Archivos :
            LET primero == tablaArchivos[s].first_block
                n == msj[h].size - CountBlocks(primero)
            IN  /\ n > 0
                /\ \/ \E ultimo \in UltPosBlock(primero) :
                          Pasar(h, "tBloque", [loc[h] EXCEPT !.info = NULO, !.file = s,
                                                   !.posBlockPadre = ultimo, !.faltan = n])
                   \/ Responder(h, "EFBIG")
    BY <1>4 DEF TruncarCreciendo
  <2> DEFINE primero == tablaArchivos[s].first_block
             cuantos == CountBlocks(primero)
             n == msj[h].size - cuantos
             K(u) == [loc[h] EXCEPT !.info = NULO, !.file = s, !.posBlockPadre = u,
                                    !.faltan = n]
  <2>3. n > 0
    BY <2>2
  <2>4. \/ \E u \in UltPosBlock(primero) : Pasar(h, "tBloque", K(u))
        \/ Responder(h, "EFBIG")
    BY <2>2
  <2>5. loc[h] \in Local /\ msj[h].size \in Nat /\ primero \in Posiciones
    BY <1>0, <2>1, EnTruncado DEF TipoDisco, Archivo
  <2> HIDE DEF primero
  <2>6. cuantos \in Int
    BY <1>0, <2>5, CountBlocksTipo, Numeros
  <2> HIDE DEF cuantos
  <2>7. n \in Nat
    BY <2>3, <2>5, <2>6
  <2> HIDE DEF n
  <2>8. ASSUME NEW u \in UltPosBlock(primero), Pasar(h, "tBloque", K(u))
        PROVE  TipoHilos'
    <3>1. u \in Posiciones
      BY <1>0, <2>5, UltPosBlockTipo
    <3>2. K(u) \in Local /\ K(u).info # RAIZ /\ K(u).file \in Archivos
      BY <2>5, <2>7, <3>1, Numeros DEF Local
    <3> HIDE DEF K
    <3> QED
      BY <1>0, <2>1, <2>8, <3>2, SigueTruncado DEF DeTruncado
  <2>9. ASSUME Responder(h, "EFBIG") PROVE TipoHilos'
    BY <1>0, <2>9, ResponderVale DEF Respuestas
  <2> HIDE DEF K
  <2>10. TipoHilos'
    BY <2>4, <2>8, <2>9
  <2> QED
    BY <1>0, <2>1, <2>10, Quieto
<1>5. CASE TruncarAchicando(h)
  <2>1. pc[h] = "truncar" /\ UNCHANGED <<bitmap, tablaAsignacion, cerrojos>>
    BY <1>5 DEF TruncarAchicando, En
  <2>2. PICK s \in Archivos :
            LET primero == tablaArchivos[s].first_block
                size == msj[h].size
                sobrantes == CountBlocks(primero) - size
                desde == GetPosBlock(s, size)
            IN  /\ sobrantes >= 0
                /\ tablaArchivos' =
                       IF desde = primero THEN [tablaArchivos EXCEPT ![s].first_block = FIN]
                                          ELSE tablaArchivos
                /\ Pasar(h, IF size < sobrantes THEN "tLee" ELSE "tFin",
                         [loc[h] EXCEPT !.info = NULO, !.file = s,
                              !.bloques = GetPosBlocks(desde, size, sobrantes)])
    BY <1>5 DEF TruncarAchicando
  <2> DEFINE primero == tablaArchivos[s].first_block
             size == msj[h].size
             sobrantes == CountBlocks(primero) - size
             desde == GetPosBlock(s, size)
             q == GetPosBlocks(desde, size, sobrantes)
             p == IF size < sobrantes THEN "tLee" ELSE "tFin"
             k == [loc[h] EXCEPT !.info = NULO, !.file = s, !.bloques = q]
  <2>3. loc[h] \in Local /\ size \in Nat /\ primero \in Posiciones
    BY <1>0, <2>1, EnTruncado DEF TipoDisco, Archivo
  <2>4. sobrantes \in Nat
    <3>1. CountBlocks(primero) \in Int
      BY <1>0, <2>3, CountBlocksTipo, Numeros
    <3> QED
      BY <2>2, <2>3, <3>1
  <2>5. desde \in Posiciones
    BY <1>0, <2>3, GetPosBlockTipo
  <2>6. Pasar(h, p, k)
    BY <2>2
  <2>7. TipoDisco'
    BY <1>0, <2>1, <2>2, ArchivoTipo, Numeros DEF TipoDisco
  <2> HIDE DEF size, sobrantes, desde, primero
  <2>8. q \in Seq(Posiciones) /\ (size < sobrantes => q # <<>>)
    BY <1>0, <2>3, <2>4, <2>5, GetPosBlocksTipo
  <2>9. p \in DeTruncado /\ (p \in {"tLee", "tEscribe"} => q # <<>>)
    BY <2>8 DEF DeTruncado
  <2> HIDE DEF q, p
  <2>10. k \in Local /\ k.info # RAIZ /\ k.file \in Archivos /\ k.bloques = q
    BY <2>3, <2>8, Numeros DEF Local
  <2> HIDE DEF k
  <2>11. TipoHilos'
    BY <1>0, <2>1, <2>6, <2>9, <2>10, SigueTruncado
  <2> QED
    BY <1>0, <2>1, <2>7, <2>11, CerrojosIgual DEF Tipos
<1>6. CASE TruncarLee(h)
  <2> DEFINE k == [loc[h] EXCEPT !.leido = bitmap]
  <2>1. pc[h] = "tLee" /\ Pasar(h, "tEscribe", k) /\ UNCHANGED <<disco, cerrojos>>
    BY <1>6 DEF TruncarLee, En
  <2>2. /\ loc[h] \in Local /\ loc[h].file \in Archivos /\ loc[h].info # RAIZ
        /\ loc[h].bloques # <<>>
    BY <1>0, <2>1, EnTruncado DEF DeTruncado
  <2>3. bitmap \in SUBSET Bloques
    BY <1>0 DEF TipoDisco
  <2>4. k \in Local /\ k.info # RAIZ /\ k.file \in Archivos /\ k.bloques # <<>>
    BY <2>2, <2>3 DEF Local
  <2> HIDE DEF k
  <2>5. TipoHilos'
    BY <1>0, <2>1, <2>4, SigueTruncado DEF DeTruncado
  <2> QED
    BY <1>0, <2>1, <2>5, Quieto
<1>7. CASE TruncarEscribe(h)
  <2> DEFINE q == loc[h].bloques
             k == [loc[h] EXCEPT !.bloques = Tail(q), !.leido = {}]
             p == IF Tail(q) = <<>> THEN "tFin" ELSE "tLee"
  <2>1. /\ pc[h] = "tEscribe" /\ Pasar(h, p, k) /\ UNCHANGED <<tablaArchivos, cerrojos>>
        /\ bitmap' = loc[h].leido \ {Head(q)} /\ Enlazar(Head(q), FIN)
    BY <1>7 DEF TruncarEscribe, En
  <2>2. /\ loc[h] \in Local /\ loc[h].file \in Archivos /\ loc[h].info # RAIZ
        /\ q # <<>> /\ q \in Seq(Posiciones) /\ loc[h].leido \subseteq Bloques
    BY <1>0, <2>1, EnTruncado DEF DeTruncado
  <2> HIDE DEF q
  <2>3. Head(q) \in Posiciones /\ Tail(q) \in Seq(Posiciones)
    BY <2>2, HeadTailProperties, EmptySeq
  <2>4. TipoDisco'
    BY <1>0, <2>1, <2>2, <2>3, EnlazarTipo, Numeros DEF TipoDisco
  <2>5. /\ k \in Local /\ k.info # RAIZ /\ k.file \in Archivos /\ k.bloques = Tail(q)
        /\ p \in DeTruncado /\ (p \in {"tLee", "tEscribe"} => Tail(q) # <<>>)
    BY <2>2, <2>3 DEF Local, DeTruncado
  <2> HIDE DEF k, p
  <2>6. TipoHilos'
    BY <1>0, <2>1, <2>5, SigueTruncado DEF DeTruncado
  <2> QED
    BY <1>0, <2>1, <2>4, <2>6, CerrojosIgual DEF Tipos
<1>8. CASE TruncarTamanio(h)
  <2>1. /\ pc[h] \in {"tFin", "tBloque"} /\ Responder(h, "0")
        /\ tablaArchivos' = [tablaArchivos EXCEPT ![loc[h].file].file_size = msj[h].size]
        /\ UNCHANGED <<bitmap, tablaAsignacion, cerrojos>>
    BY <1>8 DEF TruncarTamanio, En
  <2>2. loc[h].file \in Archivos /\ msj[h].size \in Nat
    BY <1>0, <2>1, EnTruncado DEF DeTruncado
  <2>3. TipoDisco'
    BY <1>0, <2>1, <2>2, ArchivoTipo, Numeros DEF TipoDisco
  <2> QED
    BY <1>0, <2>1, <2>3, ResponderVale, CerrojosIgual DEF Tipos, Respuestas
<1>9. CASE IndiceInvalido(h)
  BY <1>9, CaerTipos DEF IndiceInvalido
<1> QED
  BY <1>1, <1>2, <1>3, <1>4, <1>5, <1>6, <1>7, <1>8, <1>9 DEF TruncarArchivo
-----------------------------------------------------------------------------
\* Every step of every operation keeps the types.
LEMMA AtenderTipos ==
    ASSUME Tipos, NEW h \in Hilos, Atender(h)
    PROVE  Tipos'
<1>1. CASE Buscar(h)
  <2>1. UNCHANGED <<disco, cerrojos>>
    BY <1>1 DEF Buscar
  <2> QED
    BY <1>1, <2>1, BuscarVale, Quieto
<1>2. CASE ReaddirNada(h) \/ UsarRegistroLiberado(h)
  BY <1>2, CaerTipos DEF ReaddirNada, UsarRegistroLiberado
<1>3. CASE Crear(h)
  BY <1>3, AsignarTipos, ConsultarTipos DEF Crear
<1> QED
  BY <1>1, <1>2, <1>3, UsarExistenteTipos, CrearInexistenteTipos, ConsultarTipos,
     LecturaTipos, EscrituraTipos, BorradoTipos, RenombradoTipos, TruncadoTipos DEF Atender

\* What a client sends is something that may be asked.
LEMMA PedidosValen ==
    ASSUME NEW e \in Escenarios, NEW h \in Hilos, NEW m \in Pedidos(e, h)
    PROVE  m \in Mensaje /\ Pedible(m)
  BY ServidorAssumption DEF Pedible

LEMMA RecibirTipos ==
    ASSUME Tipos, NEW h \in Hilos, NEW m \in Mensaje, Pedible(m), Recibir(h, m)
    PROVE  Tipos'
<1>0. TipoHilos /\ TipoDisco /\ TipoCerrojos /\ UNCHANGED <<disco, cerrojos>>
  BY DEF Tipos, Recibir
<1>1. CASE Responder(h, "EPERM")
  BY <1>0, <1>1, ResponderVale, Quieto DEF Respuestas
<1>2. CASE m.accion # "RENAME" \/ m.path # m.nuevoNombre
  <2> DEFINE r == RutaBuscada(m)
             p == Entrada(m.accion)
             q == Salto(r, p)
             k == ConRuta(SinLocales, r, p)
  <2>1. CASE ~Responder(h, "EPERM")
    <3>1. /\ pc' = [pc EXCEPT ![h] = q] /\ loc' = [loc EXCEPT ![h] = k]
          /\ msj' = [msj EXCEPT ![h] = m] /\ respuesta' = respuesta
      BY <1>2, <2>1 DEF Recibir, Poner
    <3>2. m.accion \in Acciones /\ m.path \in Rutas /\ m.path # <<>>
      BY DEF Mensaje
    <3>3. EnEtapa(m.accion, p) /\ p \in Buscables
          /\ (m.accion = "RENAME" => p = "renOrigen") /\ (m.accion = "CREATE" => p = "asignar")
      BY <3>2 DEF Acciones, Entrada, EnEtapa, Buscables
    <3>31. p \notin ConArchivo /\ p \notin {"tLee", "tEscribe"}
      BY <3>2 DEF Acciones, Entrada, ConArchivo
    <3>4. p \in Etapas /\ p # "buscar"
      BY <3>3, EnEtapaEs
    <3>5. r \in Rutas /\ (r = <<>> => p \in {"asignar", "renPadre"})
      BY <3>2, <3>3, PartesDeRuta DEF RutaBuscada
    <3> HIDE DEF r, p
    <3>6. SinLocales \in Local
      BY SinLocalesTipo
    <3> DEFINE n == [SinLocales EXCEPT !.info = NULO]
    <3>7. n \in Local /\ n.info = NULO
      BY <3>6 DEF Local
    <3> HIDE DEF n
    <3>8. Lugar(p, n) = p
      BY <3>4 DEF Lugar
    <3>9. Hilo(p, n, m)
      BY <3>3, <3>31, <3>4, <3>7, <3>8, Numeros DEF Hilo
    <3>10. Hilo(q, k, m)
      BY <3>3, <3>4, <3>5, <3>6, <3>9, BuscaVale DEF n
    <3>11. q \in Etapas /\ k \in Local
      <4>1. q \in Etapas
        BY <3>4 DEF Salto, Etapas
      <4> HIDE DEF q, k
      <4> QED
        BY <3>10, <4>1 DEF Hilo
    <3> HIDE DEF q, k
    <3>12. /\ pc' \in [Hilos -> Etapas] /\ loc' \in [Hilos -> Local]
           /\ \A g \in Hilos : pc'[g] = (IF g = h THEN q ELSE pc[g])
                               /\ loc'[g] = (IF g = h THEN k ELSE loc[g])
      BY <1>0, <3>1, <3>11 DEF TipoHilos
    <3>13. /\ msj' \in [Hilos -> Mensaje \cup {SinMensaje}]
           /\ \A g \in Hilos : msj'[g] = (IF g = h THEN m ELSE msj[g])
      BY <1>0, <3>1 DEF TipoHilos
    <3>14. respuesta' \in [Hilos -> Respuestas]
      BY <1>0, <3>1 DEF TipoHilos
    <3>15. ASSUME NEW g \in Hilos PROVE Hilo(pc'[g], loc'[g], msj'[g])
      <4>1. CASE g = h
        BY <3>10, <3>12, <3>13, <4>1
      <4>2. CASE g # h
        BY <1>0, <3>12, <3>13, <4>2 DEF TipoHilos
      <4> QED
        BY <4>1, <4>2
    <3>16. TipoHilos'
      BY <3>12, <3>13, <3>14, <3>15 DEF TipoHilos
    <3> QED
      BY <1>0, <3>16, Quieto
  <2> QED
    BY <1>1, <2>1
<1> QED
  BY <1>1, <1>2 DEF Recibir

LEMMA AceptarTipos ==
    ASSUME Tipos, NEW h \in Hilos, Aceptar(h) \/ Desconectar(h)
    PROVE  Tipos'
<1>0. TipoHilos
  BY DEF Tipos
<1>1. ASSUME NEW p \in {"recibir", "fin"}, Ir(h, p), pc[h] \in {"fuera", "recibir"},
             UNCHANGED <<disco, cerrojos>>
      PROVE  Tipos'
  <2>1. Hilo(pc[h], loc[h], msj[h])
    BY <1>0, EnPaso
  <2>2. msj[h].accion = "NULL" /\ p \notin ConArchivo
    BY <1>1, <2>1 DEF Hilo, EnEtapa, Lugar, ConArchivo
  <2>3. EnEtapa(msj[h].accion, p)
    BY <2>2 DEF EnEtapa
  <2> QED
    BY <1>0, <1>1, <2>2, <2>3, IrVale, Quieto
<1>2. CASE Caer
  BY <1>2, CaerTipos
<1> QED
  BY <1>1, <1>2 DEF Aceptar, Desconectar, En
-----------------------------------------------------------------------------
\* The types of the process: whether it lives and whether its log is still open.
TipoProceso == escenario \in Escenarios /\ vivo \in BOOLEAN /\ registro \in BOOLEAN

\* The types of the clients: what each called, what is in its socket, what it got.
TipoClientes ==
    /\ cliente \in [Hilos -> {"vivo", "muerto", "cortado"}]
    /\ llamada \in [Hilos -> Mensaje \cup {SinMensaje}]
    /\ pedido \in [Hilos -> Mensaje \cup {SinMensaje}]
    /\ toco \in [Hilos -> BOOLEAN]
    /\ \A h \in Hilos : Pedible(pedido[h])

\* The invariant of the types.
Tipado == Tipos /\ TipoProceso /\ TipoClientes

LEMMA ProcesoIgual ==
    TipoProceso /\ (\/ UNCHANGED <<proceso, registro>>
                    \/ Caer /\ UNCHANGED registro) => TipoProceso'
  BY DEF TipoProceso, proceso, Caer

LEMMA AtenderProceso ==
    ASSUME NEW h \in Hilos, Atender(h)
    PROVE  UNCHANGED proceso \/ Caer
  BY DEF Atender, Buscar, UsarExistente, CrearInexistente, Consultar, Readdir, ReaddirNada,
         UsarRegistroLiberado, Crear, AsignarEnTablaDeArchivos, NoAsignar, LeerArchivo, LeerNada,
         LockearLectura, Leer, EscribirArchivo, EscribirNada, Escribir, ReservarPrimero, Ubicar,
         ReservarSiguiente, EnlazarUltimo, LockearEscritura, CopiarPrimero, SumarBloque,
         CerrarCadena, GuardarTamanio, BorrarArchivo, NoBorrar, Borrar, LiberarBloques,
         BorrarDirectorio, Listar, ListarNada, Marcar, RenombrarArchivo, RenombrarNada,
         RenombrarOrigen, RenombrarPadre, ReemplazarDestino, Renombrar, TruncarArchivo,
         TruncarNada, TruncarVacio, ReservarTruncado, TruncarCreciendo, TruncarAchicando,
         TruncarLee, TruncarEscribe, TruncarTamanio, IndiceInvalido
-----------------------------------------------------------------------------
\* The actions of the clients leave the server as it was but for its answers.
LEMMA InitTipado == Init => Tipado
<1> SUFFICES ASSUME Init PROVE Tipado
  OBVIOUS
<1> USE DEF Init, InitServidor
<1>1. TipoDisco
  <2>1. Vacio \in Archivo
    BY Numeros DEF Vacio, Archivo
  <2>2. tablaAsignacion \in [Posiciones -> Posiciones]
    BY OsadaAssumption, Numeros
  <2> HIDE DEF Init
  <2> QED
    BY <2>1, <2>2 DEF TipoDisco, Init
<1>2. TipoCerrojos
  BY DEF TipoCerrojos
<1>3. TipoHilos
  <2>1. SinLocales \in Local /\ Hilo("fuera", SinLocales, SinMensaje)
    BY SinLocalesTipo, HiloLibre
  <2>2. "fuera" \in Etapas /\ "NULL" \in Respuestas
    BY DEF Etapas, Respuestas
  <2> QED
    BY <2>1, <2>2 DEF TipoHilos
<1>4. TipoProceso
  BY DEF TipoProceso
<1>5. TipoClientes
  <2>1. Pedible(SinMensaje)
    BY DEF Pedible, SinMensaje
  <2> QED
    BY <2>1 DEF TipoClientes
<1> QED
  BY <1>1, <1>2, <1>3, <1>4, <1>5 DEF Tipado, Tipos

LEMMA IgualTipos == Tipos /\ UNCHANGED vars => Tipos'
<1> SUFFICES ASSUME Tipos, UNCHANGED vars PROVE Tipos'
  OBVIOUS
<1>1. UNCHANGED <<disco, cerrojos>> /\ UNCHANGED <<pc, loc, msj, respuesta>>
  BY DEF vars
<1>2. TipoHilos'
  BY <1>1 DEF Tipos, TipoHilos
<1> QED
  BY <1>1, <1>2, Quieto

\* Every step keeps the types of the server, the process and the clients.
LEMMA PasoTipado == Tipado /\ [Next]_todo => Tipado'
<1> SUFFICES ASSUME Tipado, [Next]_todo PROVE Tipado'
  OBVIOUS
<1>0. Tipos /\ TipoProceso /\ TipoClientes /\ Pedible(SinMensaje)
  BY DEF Tipado, Pedible, SinMensaje
<1>1. ASSUME NEW h \in Hilos, Llamar(h) PROVE Tipado'
  <2>1. PICK m \in Pedidos(escenario, h) : /\ llamada' = [llamada EXCEPT ![h] = m]
                                           /\ pedido' = [pedido EXCEPT ![h] = m]
    BY <1>1 DEF Llamar
  <2>2. m \in Mensaje /\ Pedible(m)
    BY <1>0, PedidosValen DEF TipoProceso
  <2>3. toco' = [toco EXCEPT ![h] = FALSE] /\ UNCHANGED <<vars, registro, cliente>>
    BY <1>1 DEF Llamar
  <2>4. TipoClientes'
    BY <1>0, <2>1, <2>2, <2>3 DEF TipoClientes
  <2>5. TipoProceso'
    BY <1>0, <2>3 DEF TipoProceso, vars, proceso
  <2> QED
    BY <1>0, <2>3, <2>4, <2>5, IgualTipos DEF Tipado
<1>2. ASSUME NEW h \in Hilos, Retornar(h) PROVE Tipado'
  <2>1. /\ llamada' = [llamada EXCEPT ![h] = SinMensaje]
        /\ respuesta' = [respuesta EXCEPT ![h] = "NULL"]
        /\ toco' = [toco EXCEPT ![h] = FALSE]
        /\ UNCHANGED <<disco, cerrojos, pc, loc, msj, proceso, registro, cliente, pedido>>
    BY <1>2 DEF Retornar
  <2>2. TipoClientes'
    BY <1>0, <2>1 DEF TipoClientes
  <2>3. TipoHilos'
    BY <1>0, <2>1 DEF Tipos, TipoHilos, Respuestas
  <2>4. TipoProceso'
    BY <1>0, <2>1 DEF TipoProceso, proceso
  <2> QED
    BY <1>0, <2>1, <2>2, <2>3, <2>4, Quieto DEF Tipado
<1>3. ASSUME NEW h \in Hilos, RetornarSinServidor(h) \/ Morir(h) PROVE Tipado'
  <2>1. /\ llamada' = [llamada EXCEPT ![h] = SinMensaje]
        /\ UNCHANGED <<vars, registro, pedido, toco>>
    BY <1>3 DEF RetornarSinServidor, Morir
  <2>2. cliente' \in [Hilos -> {"vivo", "muerto", "cortado"}]
    <3>1. UNCHANGED cliente \/ \E c \in {"muerto", "cortado"} : cliente' = [cliente EXCEPT ![h] = c]
      BY <1>3 DEF RetornarSinServidor, Morir
    <3> QED
      BY <1>0, <3>1 DEF TipoClientes
  <2>3. TipoClientes'
    BY <1>0, <2>1, <2>2 DEF TipoClientes
  <2>4. TipoProceso'
    BY <1>0, <2>1 DEF TipoProceso, vars, proceso
  <2> QED
    BY <1>0, <2>1, <2>3, <2>4, IgualTipos DEF Tipado
<1>4. ASSUME NEW h \in Hilos, Aceptar(h) /\ UNCHANGED clientes PROVE Tipado'
  <2>1. TipoProceso' /\ TipoClientes'
    BY <1>0, <1>4 DEF Aceptar, TipoProceso, TipoClientes, clientes, proceso
  <2> QED
    BY <1>0, <1>4, <2>1, AceptarTipos DEF Tipado
<1>5. ASSUME NEW h \in Hilos, RecibirPedido(h) PROVE Tipado'
  <2>1. /\ Recibir(h, pedido[h]) /\ pedido' = [pedido EXCEPT ![h] = SinMensaje]
        /\ pedido[h] # SinMensaje /\ UNCHANGED <<cliente, llamada, toco>>
    BY <1>5 DEF RecibirPedido
  <2>2. pedido[h] \in Mensaje /\ Pedible(pedido[h])
    BY <1>0, <2>1 DEF TipoClientes
  <2>3. Tipos'
    BY <1>0, <2>1, <2>2, RecibirTipos
  <2>4. TipoClientes'
    BY <1>0, <2>1 DEF TipoClientes
  <2>5. TipoProceso'
    BY <1>0, <2>1 DEF Recibir, TipoProceso, proceso
  <2> QED
    BY <2>3, <2>4, <2>5 DEF Tipado
<1>6. ASSUME NEW h \in Hilos, RecibirNulo(h) PROVE Tipado'
  <2>1. Desconectar(h) /\ UNCHANGED clientes
    BY <1>6 DEF RecibirNulo
  <2>2. TipoClientes'
    BY <1>0, <2>1 DEF TipoClientes, clientes
  <2>3. TipoProceso'
    BY <1>0, <2>1 DEF Desconectar, TipoProceso, proceso, Caer
  <2> QED
    BY <1>0, <2>1, <2>2, <2>3, AceptarTipos DEF Tipado
<1>7. ASSUME NEW h \in Hilos, AtenderPedido(h) PROVE Tipado'
  <2>1. /\ Atender(h) /\ UNCHANGED <<registro, cliente, llamada, pedido>>
        /\ toco' = [toco EXCEPT ![h] = @ \/ Visible' # Visible]
    BY <1>7 DEF AtenderPedido
  <2>2. toco' \in [Hilos -> BOOLEAN]
    <3> DEFINE b == Visible' # Visible
    <3>1. b \in BOOLEAN /\ toco' = [toco EXCEPT ![h] = @ \/ b]
      BY <2>1
    <3> HIDE DEF b
    <3> QED
      BY <1>0, <3>1 DEF TipoClientes
  <2>3. TipoClientes'
    BY <1>0, <2>1, <2>2 DEF TipoClientes
  <2>4. TipoProceso'
    BY <1>0, <2>1, AtenderProceso, ProcesoIgual
  <2> QED
    BY <1>0, <2>1, <2>3, <2>4, AtenderTipos DEF Tipado
<1>8. CASE UNCHANGED todo
  <2>1. UNCHANGED <<vars, registro, cliente, llamada, pedido, toco>>
    BY <1>8 DEF todo, clientes
  <2>2. TipoClientes' /\ TipoProceso'
    BY <1>0, <2>1 DEF TipoClientes, TipoProceso, vars, proceso
  <2> QED
    BY <1>0, <2>1, <2>2, IgualTipos DEF Tipado
<1> QED
  BY <1>1, <1>2, <1>3, <1>4, <1>5, <1>6, <1>7, <1>8 DEF Next

LEMMA TipadoTypeOK == Tipado => TypeOK
  BY DEF Tipado, Tipos, TipoDisco, TipoCerrojos, TipoHilos, TipoProceso, TypeOK

\* The strengthening of TypeOK: whenever a thread of the server is about to use a file, a path
\* or the blocks it clears, it has them, and it attends a request that leads to that step.
THEOREM SpecTipado == Spec => []Tipado
<1>1. Init => Tipado
  BY InitTipado
<1>2. Tipado /\ [Next]_todo => Tipado'
  BY PasoTipado
<1> QED
  BY <1>1, <1>2, PTL DEF Spec

\* Tables, locks, requests, answers and the local variables of every thread of the server keep
\* their types, for any clients, paths, disks and requests, and whatever clients are killed.
THEOREM SpecTypeOK == Spec => []TypeOK
<1>1. Tipado => TypeOK
  BY TipadoTypeOK
<1> QED
  BY <1>1, SpecTipado, PTL
-----------------------------------------------------------------------------
(***************************************************************************)
(* The locks of the files.                                                 *)
(***************************************************************************)
Copian == {"copiar", "bloque", "tamanio", "leyendo"}

\* A step that neither takes nor releases a lock, of a thread that holds none.
Lejos(h) ==
    /\ pc[h] \notin Copian
    /\ UNCHANGED cerrojos
    /\ \E p \in Etapas \ Copian, l \in Local : Poner(h, p, l)

LEMMA LejosCerrojos ==
    ASSUME Tipado, Cerrojos, NEW h \in Hilos, Lejos(h)
    PROVE  Cerrojos'
<1>1. PICK p \in Etapas \ Copian, l \in Local : Poner(h, p, l)
  BY DEF Lejos
<1>2. pc \in [Hilos -> Etapas] /\ loc \in [Hilos -> Local]
  BY DEF Tipado, Tipos, TipoHilos
<1>3. \A g \in Hilos : g # h => pc'[g] = pc[g] /\ loc'[g] = loc[g]
  BY <1>1, <1>2 DEF Poner
<1>4. pc'[h] \notin Copian /\ pc[h] \notin Copian
  BY <1>1, <1>2 DEF Poner, Lejos
<1>5. \A g \in Hilos, s \in Archivos : /\ EstaEscribiendo(g, s)' <=> EstaEscribiendo(g, s)
                                       /\ EstaLeyendo(g, s)' <=> EstaLeyendo(g, s)
  BY <1>3, <1>4 DEF EstaEscribiendo, EstaLeyendo, Copian
<1>6. escritor' = escritor /\ lectores' = lectores
  BY DEF Lejos, cerrojos
<1> QED
  BY <1>5, <1>6 DEF Cerrojos

LEMMA PonerLejos ==
    ASSUME Tipado', NEW h \in Hilos, UNCHANGED cerrojos, pc[h] \notin Copian,
           NEW p \in Etapas \ Copian, NEW l, Poner(h, p, l), Tipado
    PROVE  Lejos(h)
<1>1. loc' \in [Hilos -> Local] /\ loc \in [Hilos -> Local]
  BY DEF Tipado, Tipos, TipoHilos
<1>2. loc'[h] = l
  BY <1>1 DEF Poner
<1>3. l \in Local
  BY <1>1, <1>2
<1> QED
  BY <1>3 DEF Lejos

LEMMA ResponderLejos ==
    ASSUME Tipado, NEW h \in Hilos, NEW r, Responder(h, r), UNCHANGED cerrojos, pc[h] \notin Copian
    PROVE  Lejos(h)
<1>1. Poner(h, "recibir", SinLocales) /\ "recibir" \in Etapas \ Copian
  BY DEF Responder, Etapas, Copian
<1> QED
  BY <1>1, SinLocalesTipo DEF Lejos

LEMMA BuscaLejos ==
    ASSUME Tipado, Tipado', NEW h \in Hilos, NEW path, NEW p \in Buscables, NEW l,
           GetInfoFile(h, path, p, l), UNCHANGED cerrojos, pc[h] \notin Copian
    PROVE  Lejos(h)
<1>1. Poner(h, Salto(path, p), ConRuta(l, path, p))
  BY DEF GetInfoFile, Pasar
<1>2. Salto(path, p) \in Etapas \ Copian
  BY DEF Salto, Etapas, Buscables, Copian
<1> QED
  BY <1>1, <1>2, PonerLejos

LEMMA VolverLejos ==
    ASSUME Tipado, Tipado', NEW h \in Hilos, NEW r, Volver(h, r), UNCHANGED cerrojos,
           pc[h] \notin Copian
    PROVE  Lejos(h)
<1>1. CASE Responder(h, r)
  BY <1>1, ResponderLejos
<1>2. CASE Ir(h, "renombrar")
  BY <1>2, PonerLejos DEF Ir, Pasar, Etapas, Copian
<1> QED
  BY <1>1, <1>2 DEF Volver

\* What takes or releases a lock, or works under one.
ConCerrojo(h) ==
    \/ LockearLectura(h) \/ Leer(h) \/ LockearEscritura(h) \/ CopiarPrimero(h)
    \/ (SumarBloque(h) /\ pc[h] = "bloque") \/ CerrarCadena(h) \/ GuardarTamanio(h)

\* Every step of every operation is far from the locks, but for those that take or release one.
LEMMA AtenderLejos ==
    ASSUME Tipado, Tipado', NEW h \in Hilos, Atender(h), ~ConCerrojo(h)
    PROVE  Lejos(h) \/ Caer
<1> USE DEF En
<1>1. CASE Buscar(h)
  <2>1. loc[h].sigue \in Buscables /\ pc[h] = "buscar" /\ UNCHANGED cerrojos
    <3>1. pc[h] = "buscar" /\ UNCHANGED cerrojos
      BY <1>1 DEF Buscar
    <3>2. Hilo("buscar", loc[h], msj[h])
      BY <3>1, EnPaso DEF Tipado, Tipos
    <3> QED
      BY <3>1, <3>2 DEF Hilo
  <2>2. \E p \in {loc[h].sigue, "buscar"} : \E l : Poner(h, p, l)
    BY <1>1 DEF Buscar, Pasar
  <2>3. {loc[h].sigue, "buscar"} \subseteq Etapas \ Copian
    BY <2>1 DEF Buscables, Etapas, Copian
  <2> QED
    BY <2>1, <2>2, <2>3, PonerLejos DEF Copian
<1>2. CASE UsarExistente(h)
  <2>1. pc[h] \notin Copian /\ UNCHANGED cerrojos /\ {"leer", "escribir"} \subseteq Buscables
    BY <1>2 DEF UsarExistente, Copian, Buscables
  <2>2. (\E p \in {"leer", "escribir"} : GetInfoFile(h, msj[h].path, p, SinLocales))
        \/ \E r : Responder(h, r)
    BY <1>2 DEF UsarExistente
  <2> QED
    BY <2>1, <2>2, BuscaLejos, ResponderLejos
<1>3. CASE CrearInexistente(h)
  <2>1. pc[h] \notin Copian /\ UNCHANGED cerrojos /\ "asignar" \in Buscables
    BY <1>3 DEF CrearInexistente, Copian, Buscables
  <2>2. GetInfoFile(h, PathPadre(msj[h].path), "asignar", SinLocales) \/ \E r : Responder(h, r)
    BY <1>3 DEF CrearInexistente
  <2> QED
    BY <2>1, <2>2, BuscaLejos, ResponderLejos
<1>4. CASE Consultar(h) \/ Readdir(h) \/ Crear(h)
  <2>1. pc[h] \notin Copian /\ UNCHANGED cerrojos /\ \E r : Responder(h, r)
    BY <1>4 DEF Consultar, Readdir, Crear, AsignarEnTablaDeArchivos, NoAsignar, Copian
  <2> QED
    BY <2>1, ResponderLejos
<1>5. CASE ReaddirNada(h) \/ UsarRegistroLiberado(h) \/ LeerArchivo(h)
  BY <1>5 DEF ReaddirNada, UsarRegistroLiberado, LeerArchivo, LeerNada, ConCerrojo
<1>6. CASE EscribirArchivo(h)
  <2>1. CASE EscribirNada(h)
    BY <2>1 DEF EscribirNada
  <2>2. CASE Escribir(h) \/ Ubicar(h) \/ ReservarSiguiente(h) \/ EnlazarUltimo(h)
    <3>1. pc[h] \notin Copian /\ UNCHANGED cerrojos
      BY <2>2 DEF Escribir, Ubicar, ReservarSiguiente, EnlazarUltimo, Copian
    <3>2. \E p \in {"primero", "ubicar", "reservar", "cerrar", "enlazar"} : \E l : Poner(h, p, l)
      BY <2>2 DEF Escribir, Ubicar, ReservarSiguiente, EnlazarUltimo, Ir, Pasar
    <3>3. {"primero", "ubicar", "reservar", "cerrar", "enlazar"} \subseteq Etapas \ Copian
      BY DEF Etapas, Copian
    <3> QED
      BY <3>1, <3>2, <3>3, PonerLejos
  <2>3. CASE ReservarPrimero(h)
    <3>1. pc[h] \notin Copian /\ UNCHANGED cerrojos /\ "ubicar" \in Etapas \ Copian
      BY <2>3 DEF ReservarPrimero, Copian, Etapas
    <3>2. (\E l : Poner(h, "ubicar", l)) \/ \E r : Responder(h, r)
      BY <2>3 DEF ReservarPrimero, Ir, Pasar
    <3> QED
      BY <3>1, <3>2, PonerLejos, ResponderLejos
  <2>4. CASE SumarBloque(h)
    <3>1. pc[h] = "tBloque" /\ UNCHANGED cerrojos /\ "tBloque" \in Etapas \ Copian
      BY <2>4 DEF SumarBloque, ConCerrojo, Copian, Etapas
    <3>2. \E l : Poner(h, "tBloque", l)
      BY <2>4, <3>1 DEF SumarBloque, Pasar
    <3> QED
      BY <3>1, <3>2, PonerLejos
  <2> QED
    BY <1>6, <2>1, <2>2, <2>3, <2>4 DEF EscribirArchivo, ConCerrojo
<1>7. CASE BorrarArchivo(h)
  <2>1. CASE NoBorrar(h) \/ Marcar(h)
    <3>1. pc[h] \notin Copian /\ UNCHANGED cerrojos /\ \E r : Volver(h, r)
      BY <2>1 DEF NoBorrar, Marcar, Copian
    <3> QED
      BY <3>1, VolverLejos
  <2>2. CASE Borrar(h) \/ LiberarBloques(h)
    <3>1. pc[h] \notin Copian /\ UNCHANGED cerrojos /\ {"liberar", "marcar"} \subseteq Etapas \ Copian
      BY <2>2 DEF Borrar, LiberarBloques, Copian, Etapas
    <3>2. \E p \in {"liberar", "marcar"} : \E l : Poner(h, p, l)
      BY <2>2 DEF Borrar, LiberarBloques, Pasar
    <3> QED
      BY <3>1, <3>2, PonerLejos
  <2>3. CASE BorrarDirectorio(h)
    <3>1. pc[h] \notin Copian /\ UNCHANGED cerrojos /\ "listar" \in Buscables
      BY <2>3 DEF BorrarDirectorio, Copian, Buscables
    <3>2. \E l : GetInfoFile(h, RutaBorrada(h), "listar", l)
      BY <2>3 DEF BorrarDirectorio
    <3> QED
      BY <3>1, <3>2, BuscaLejos
  <2>4. CASE Listar(h)
    <3>1. pc[h] \notin Copian /\ UNCHANGED cerrojos /\ "marcar" \in Etapas \ Copian
      BY <2>4 DEF Listar, Copian, Etapas
    <3>2. (\E l : Poner(h, "marcar", l)) \/ \E r : Volver(h, r)
      BY <2>4 DEF Listar, Ir, Pasar
    <3> QED
      BY <3>1, <3>2, PonerLejos, VolverLejos
  <2>5. CASE ListarNada(h)
    BY <2>5 DEF ListarNada
  <2> QED
    BY <1>7, <2>1, <2>2, <2>3, <2>4, <2>5 DEF BorrarArchivo
<1>8. CASE RenombrarArchivo(h)
  <2>1. pc[h] \notin Copian /\ UNCHANGED cerrojos
    BY <1>8 DEF RenombrarArchivo, RenombrarNada, RenombrarOrigen, RenombrarPadre,
                ReemplazarDestino, Renombrar, Copian
  <2>2. \/ \E r : Responder(h, r)
        \/ \E l : Poner(h, "renombrar", l)
        \/ \E p \in {"renPadre", "renDestino", "borrarDir", "borrar"} : \E path, l :
               GetInfoFile(h, path, p, l)
    BY <1>8 DEF RenombrarArchivo, RenombrarNada, RenombrarOrigen, RenombrarPadre,
                ReemplazarDestino, Renombrar, Ir, Pasar
  <2>3. /\ {"renPadre", "renDestino", "borrarDir", "borrar"} \subseteq Buscables
        /\ "renombrar" \in Etapas \ Copian
    BY DEF Buscables, Etapas, Copian
  <2> QED
    BY <2>1, <2>2, <2>3, PonerLejos, ResponderLejos, BuscaLejos
<1>9. CASE TruncarArchivo(h)
  <2>1. CASE IndiceInvalido(h)
    BY <2>1 DEF IndiceInvalido
  <2>2. CASE ~IndiceInvalido(h)
    <3>1. pc[h] \notin Copian /\ UNCHANGED cerrojos
      BY <1>9, <2>2 DEF TruncarArchivo, TruncarNada, TruncarVacio, ReservarTruncado,
         TruncarCreciendo, TruncarAchicando, TruncarLee, TruncarEscribe, TruncarTamanio, Copian
    <3>2. (\E r : Responder(h, r))
          \/ \E p \in {"tPrimero", "tBloque", "tLee", "tEscribe", "tFin"} : \E l : Poner(h, p, l)
      BY <1>9, <2>2 DEF TruncarArchivo, TruncarNada, TruncarVacio, ReservarTruncado,
         TruncarCreciendo, TruncarAchicando, TruncarLee, TruncarEscribe, TruncarTamanio, Pasar
    <3>3. {"tPrimero", "tBloque", "tLee", "tEscribe", "tFin"} \subseteq Etapas \ Copian
      BY DEF Etapas, Copian
    <3> QED
      BY <3>1, <3>2, <3>3, PonerLejos, ResponderLejos
  <2> QED
    BY <2>1, <2>2
<1> QED
  BY <1>1, <1>2, <1>3, <1>4, <1>5, <1>6, <1>7, <1>8, <1>9 DEF Atender
-----------------------------------------------------------------------------
\* What a step of a thread leaves of the others.
LEMMA PonerEs ==
    ASSUME Tipado, NEW h \in Hilos, NEW p, NEW l, Poner(h, p, l)
    PROVE  /\ pc'[h] = p /\ loc'[h] = l
           /\ \A g \in Hilos : g # h => pc'[g] = pc[g] /\ loc'[g] = loc[g]
  BY DEF Tipado, Tipos, TipoHilos, Poner

\* The thread keeps the lock to write that it holds.
LEMMA SigueEscribiendo ==
    ASSUME Tipado, Cerrojos, NEW h \in Hilos, pc[h] \in {"copiar", "bloque", "tamanio"},
           NEW p \in {"copiar", "bloque", "tamanio"}, NEW l, l.file = loc[h].file,
           Poner(h, p, l), UNCHANGED <<escritor, lectores>>
    PROVE  Cerrojos'
<1>1. \A g \in Hilos, s \in Archivos : /\ EstaEscribiendo(g, s)' <=> EstaEscribiendo(g, s)
                                       /\ EstaLeyendo(g, s)' <=> EstaLeyendo(g, s)
  BY PonerEs DEF EstaEscribiendo, EstaLeyendo
<1> QED
  BY <1>1 DEF Cerrojos

\* It releases it.
LEMMA SueltaEscribiendo ==
    ASSUME Tipado, Cerrojos, NEW h \in Hilos, pc[h] \in {"copiar", "bloque", "tamanio"},
           NEW r, Responder(h, r), Soltar(h), UNCHANGED lectores
    PROVE  Cerrojos'
<1> DEFINE f == loc[h].file
<1>1. Poner(h, "recibir", SinLocales) /\ escritor' = [escritor EXCEPT ![f] = Nadie]
  BY DEF Responder, Soltar
<1>2. f \in Archivos /\ Nadie \notin Hilos
  BY EnEscritura, OsadaAssumption DEF Tipado, Tipos, DeEscritura
<1>3. escritor \in [Archivos -> Hilos \cup {Nadie}]
  BY DEF Tipado, Tipos, TipoCerrojos
<1>4. ASSUME NEW s \in Archivos
      PROVE  /\ \A g \in Hilos : /\ escritor'[s] = g <=> EstaEscribiendo(g, s)'
                                 /\ g \in lectores'[s] <=> EstaLeyendo(g, s)'
             /\ escritor'[s] # Nadie => lectores'[s] = {}
  <2>1. \A g \in Hilos : g # h => /\ EstaEscribiendo(g, s)' <=> EstaEscribiendo(g, s)
                                  /\ EstaLeyendo(g, s)' <=> EstaLeyendo(g, s)
    BY <1>1, PonerEs DEF EstaEscribiendo, EstaLeyendo
  <2>2. /\ ~EstaEscribiendo(h, s)' /\ ~EstaLeyendo(h, s)' /\ ~EstaLeyendo(h, s)
        /\ EstaEscribiendo(h, s) <=> s = f
    BY <1>1, PonerEs DEF EstaEscribiendo, EstaLeyendo
  <2>3. escritor'[s] = IF s = f THEN Nadie ELSE escritor[s]
    BY <1>1, <1>2, <1>3
  <2> QED
    BY <1>2, <2>1, <2>2, <2>3 DEF Cerrojos
<1> QED
  BY <1>4 DEF Cerrojos

\* The steps that take, keep or release one.
LEMMA ConCerrojoVale ==
    ASSUME Tipado, Cerrojos, NEW h \in Hilos, ConCerrojo(h)
    PROVE  Cerrojos'
<1>0. /\ escritor \in [Archivos -> Hilos \cup {Nadie}] /\ Nadie \notin Hilos
      /\ lectores \in [Archivos -> SUBSET Hilos] /\ TipoHilos
  BY OsadaAssumption DEF Tipado, Tipos, TipoCerrojos
<1>1. CASE LockearLectura(h)
  <2>1. PICK f \in Archivos :
            /\ escritor[f] = Nadie /\ lectores' = [lectores EXCEPT ![f] = @ \cup {h}]
            /\ Pasar(h, "leyendo", [loc[h] EXCEPT !.info = NULO, !.file = f])
    BY <1>1 DEF LockearLectura
  <2> DEFINE l == [loc[h] EXCEPT !.info = NULO, !.file = f]
  <2>2. l.file = f /\ pc[h] = "leer" /\ escritor' = escritor /\ Poner(h, "leyendo", l)
    <3>1. pc[h] = "leer" /\ escritor' = escritor
      BY <1>1 DEF LockearLectura, En
    <3>2. loc[h] \in Local
      BY <1>0, EnPaso
    <3>3. l.file = f
      BY <3>2, ConFile
    <3> QED
      BY <2>1, <3>1, <3>3 DEF Pasar
  <2> HIDE DEF l
  <2>3. ASSUME NEW s \in Archivos
        PROVE  /\ \A g \in Hilos : /\ escritor'[s] = g <=> EstaEscribiendo(g, s)'
                                   /\ g \in lectores'[s] <=> EstaLeyendo(g, s)'
               /\ escritor'[s] # Nadie => lectores'[s] = {}
    <3>1. \A g \in Hilos : g # h => /\ EstaEscribiendo(g, s)' <=> EstaEscribiendo(g, s)
                                    /\ EstaLeyendo(g, s)' <=> EstaLeyendo(g, s)
      BY <2>2, PonerEs DEF EstaEscribiendo, EstaLeyendo
    <3>2. /\ ~EstaEscribiendo(h, s)' /\ ~EstaEscribiendo(h, s) /\ ~EstaLeyendo(h, s)
          /\ EstaLeyendo(h, s)' <=> s = f
      BY <2>2, PonerEs DEF EstaEscribiendo, EstaLeyendo
    <3>3. lectores'[s] = IF s = f THEN lectores[s] \cup {h} ELSE lectores[s]
      BY <1>0, <2>1
    <3> QED
      BY <1>0, <2>1, <2>2, <3>1, <3>2, <3>3 DEF Cerrojos
  <2> QED
    BY <2>3 DEF Cerrojos
<1>2. CASE Leer(h)
  <2> DEFINE f == loc[h].file
  <2>1. /\ pc[h] = "leyendo" /\ escritor' = escritor /\ Poner(h, "recibir", SinLocales)
        /\ lectores' = [lectores EXCEPT ![f] = @ \ {h}]
    BY <1>2 DEF Leer, En, Responder
  <2>2. ASSUME NEW s \in Archivos
        PROVE  /\ \A g \in Hilos : /\ escritor'[s] = g <=> EstaEscribiendo(g, s)'
                                   /\ g \in lectores'[s] <=> EstaLeyendo(g, s)'
               /\ escritor'[s] # Nadie => lectores'[s] = {}
    <3>1. \A g \in Hilos : g # h => /\ EstaEscribiendo(g, s)' <=> EstaEscribiendo(g, s)
                                    /\ EstaLeyendo(g, s)' <=> EstaLeyendo(g, s)
      BY <2>1, PonerEs DEF EstaEscribiendo, EstaLeyendo
    <3>2. /\ ~EstaEscribiendo(h, s)' /\ ~EstaEscribiendo(h, s) /\ ~EstaLeyendo(h, s)'
          /\ EstaLeyendo(h, s) <=> s = f
      BY <2>1, PonerEs DEF EstaEscribiendo, EstaLeyendo
    <3>3. lectores'[s] = IF s = f THEN lectores[s] \ {h} ELSE lectores[s]
      BY <1>0, <2>1
    <3> QED
      BY <2>1, <3>1, <3>2, <3>3 DEF Cerrojos
  <2> QED
    BY <2>2 DEF Cerrojos
<1>3. CASE LockearEscritura(h)
  <2> DEFINE f == loc[h].file
  <2>1. /\ pc[h] = "cerrar" /\ lectores' = lectores /\ Poner(h, "copiar", loc[h])
        /\ escritor[f] = Nadie /\ lectores[f] = {} /\ escritor' = [escritor EXCEPT ![f] = h]
    BY <1>3 DEF LockearEscritura, En, Ir, Pasar
  <2>2. ASSUME NEW s \in Archivos
        PROVE  /\ \A g \in Hilos : /\ escritor'[s] = g <=> EstaEscribiendo(g, s)'
                                   /\ g \in lectores'[s] <=> EstaLeyendo(g, s)'
               /\ escritor'[s] # Nadie => lectores'[s] = {}
    <3>1. \A g \in Hilos : g # h => /\ EstaEscribiendo(g, s)' <=> EstaEscribiendo(g, s)
                                    /\ EstaLeyendo(g, s)' <=> EstaLeyendo(g, s)
      BY <2>1, PonerEs DEF EstaEscribiendo, EstaLeyendo
    <3>2. /\ ~EstaEscribiendo(h, s) /\ ~EstaLeyendo(h, s)' /\ ~EstaLeyendo(h, s)
          /\ EstaEscribiendo(h, s)' <=> s = f
      BY <2>1, PonerEs DEF EstaEscribiendo, EstaLeyendo
    <3>3. escritor'[s] = IF s = f THEN h ELSE escritor[s]
      BY <1>0, <2>1
    <3> QED
      BY <1>0, <2>1, <3>1, <3>2, <3>3 DEF Cerrojos
  <2> QED
    BY <2>2 DEF Cerrojos
<1>4. CASE CopiarPrimero(h)
  <2> DEFINE n == BloquesQueFaltan(msj[h])
             l == [loc[h] EXCEPT !.faltan = n]
  <2>1. pc[h] = "copiar" /\ UNCHANGED lectores
    BY <1>4 DEF CopiarPrimero, En
  <2>2. l.file = loc[h].file
    <3>1. loc[h] \in Local
      BY <1>0, EnPaso
    <3> QED
      BY <3>1 DEF Local
  <2>3. \/ Poner(h, "tamanio", loc[h]) /\ UNCHANGED escritor
        \/ Poner(h, "bloque", l) /\ UNCHANGED escritor
        \/ Soltar(h) /\ Responder(h, "ENOSPC")
    BY <1>4 DEF CopiarPrimero, Ir, Pasar
  <2> HIDE DEF l
  <2> QED
    BY <2>1, <2>2, <2>3, SigueEscribiendo, SueltaEscribiendo
<1>5. CASE SumarBloque(h) /\ pc[h] = "bloque"
  <2> DEFINE l == [loc[h] EXCEPT !.faltan = @ - 1]
             k == [l EXCEPT !.posBlockPadre = PosLibre]
  <2>1. loc[h] \in Local
    BY <1>0, EnPaso
  <2>2. l.file = loc[h].file /\ k.file = loc[h].file
    BY <2>1 DEF Local
  <2>3. (Poner(h, "bloque", k) \/ Poner(h, "bloque", l)) /\ UNCHANGED <<escritor, lectores>>
    BY <1>5 DEF SumarBloque, En, Pasar, cerrojos
  <2> HIDE DEF l, k
  <2> QED
    BY <1>5, <2>2, <2>3, SigueEscribiendo
<1>6. CASE CerrarCadena(h)
  BY <1>6, SigueEscribiendo DEF CerrarCadena, En, Ir, Pasar, cerrojos
<1>7. CASE GuardarTamanio(h)
  BY <1>7, SueltaEscribiendo DEF GuardarTamanio, En
<1> QED
  BY <1>1, <1>2, <1>3, <1>4, <1>5, <1>6, <1>7 DEF ConCerrojo

LEMMA CerrojosQuietos == Cerrojos /\ UNCHANGED <<cerrojos, pc, loc>> => Cerrojos'
  BY DEF Cerrojos, cerrojos, EstaEscribiendo, EstaLeyendo

\* Nobody holds a lock at first.
LEMMA InitCerrojos == Init => Cerrojos
<1> SUFFICES ASSUME Init PROVE Cerrojos
  OBVIOUS
<1>1. /\ escritor = [s \in Archivos |-> Nadie] /\ lectores = [s \in Archivos |-> {}]
      /\ pc = [h \in Hilos |-> "fuera"]
  BY DEF Init, InitServidor
<1> QED
  BY <1>1, OsadaAssumption DEF Cerrojos, EstaEscribiendo, EstaLeyendo

\* Every step keeps the locks with those that copy.
LEMMA PasoCerrojos == Tipado /\ Tipado' /\ Cerrojos /\ [Next]_todo => Cerrojos'
<1> SUFFICES ASSUME Tipado, Tipado', Cerrojos, [Next]_todo PROVE Cerrojos'
  OBVIOUS
<1>1. ASSUME NEW h \in Hilos, Llamar(h) \/ Retornar(h) \/ RetornarSinServidor(h) \/ Morir(h)
      PROVE  Cerrojos'
  BY <1>1, CerrojosQuietos DEF Llamar, Retornar, RetornarSinServidor, Morir, vars
<1>2. ASSUME NEW h \in Hilos, Aceptar(h) \/ Desconectar(h) PROVE Cerrojos'
  <2>1. CASE Caer
    BY <2>1, CerrojosQuietos DEF Caer
  <2>2. CASE ~Caer
    <3>1. /\ pc[h] \notin Copian /\ UNCHANGED cerrojos
          /\ \E p \in {"recibir", "fin"} : Poner(h, p, loc[h])
      BY <1>2, <2>2 DEF Aceptar, Desconectar, En, Copian, Ir, Pasar
    <3>2. {"recibir", "fin"} \subseteq Etapas \ Copian
      BY DEF Etapas, Copian
    <3> QED
      BY <3>1, <3>2, PonerLejos, LejosCerrojos
  <2> QED
    BY <2>1, <2>2
<1>3. ASSUME NEW h \in Hilos, RecibirPedido(h) PROVE Cerrojos'
  <2> DEFINE m == pedido[h]
             p == Entrada(m.accion)
  <2>1. pc[h] \notin Copian /\ UNCHANGED cerrojos /\ m \in Mensaje
    BY <1>3 DEF RecibirPedido, Recibir, En, Copian, Tipado, TipoClientes
  <2>2. \/ \E r : Responder(h, r)
        \/ Poner(h, Salto(RutaBuscada(m), p), ConRuta(SinLocales, RutaBuscada(m), p))
    BY <1>3 DEF RecibirPedido, Recibir
  <2>3. Salto(RutaBuscada(m), p) \in Etapas \ Copian
    BY <2>1 DEF Salto, Entrada, Mensaje, Acciones, Etapas, Copian
  <2> QED
    BY <2>1, <2>2, <2>3, PonerLejos, ResponderLejos, LejosCerrojos
<1>4. ASSUME NEW h \in Hilos, Atender(h) PROVE Cerrojos'
  <2>1. CASE ConCerrojo(h)
    BY <2>1, ConCerrojoVale
  <2>2. CASE ~ConCerrojo(h)
    BY <1>4, <2>2, AtenderLejos, LejosCerrojos, CerrojosQuietos DEF Caer
  <2> QED
    BY <2>1, <2>2
<1>5. CASE UNCHANGED todo
  BY <1>5, CerrojosQuietos DEF todo, vars
<1> QED
  BY <1>1, <1>2, <1>3, <1>4, <1>5 DEF Next, RecibirNulo, AtenderPedido

\* The lock that writeFile and readFile take around the copy of the data of a file (338-393,
\* 273-302) is held by those that copy and by nobody else, whatever truncate, rename and
\* delete do meanwhile to the file, and on every way out, also that of a full disk.
THEOREM SpecCerrojos == Spec => []Cerrojos
<1>1. Init => Cerrojos
  BY InitCerrojos
<1>2. Tipado /\ Tipado' /\ Cerrojos /\ [Next]_todo => Cerrojos'
  BY PasoCerrojos
<1> QED
  BY <1>1, <1>2, SpecTipado, PTL DEF Spec
-----------------------------------------------------------------------------
(***************************************************************************)
(* What a call gets.                                                       *)
(***************************************************************************)
LEMMA SinPrimero ==
    ASSUME NEW r \in Archivo, NEW p
    PROVE  /\ [[r EXCEPT !.first_block = p] EXCEPT !.first_block = FIN]
                  = [r EXCEPT !.first_block = FIN]
           /\ [r EXCEPT !.first_block = FIN].state = r.state
  BY DEF Archivo

\* The first block of a file is not seen.
LEMMA VisibleIgual ==
    ASSUME TipoDisco,
           \/ UNCHANGED tablaArchivos
           \/ \E s \in Archivos, p \in Posiciones :
                  tablaArchivos' = [tablaArchivos EXCEPT ![s].first_block = p]
    PROVE  Visible' = Visible
<1>1. CASE UNCHANGED tablaArchivos
  BY <1>1 DEF Visible
<1>2. ASSUME NEW f \in Archivos, NEW p \in Posiciones,
             tablaArchivos' = [tablaArchivos EXCEPT ![f].first_block = p]
      PROVE  Visible' = Visible
  <2>1. ASSUME NEW s \in Archivos
        PROVE  /\ tablaArchivos'[s].state = tablaArchivos[s].state
               /\ [tablaArchivos'[s] EXCEPT !.first_block = FIN]
                      = [tablaArchivos[s] EXCEPT !.first_block = FIN]
    <3>1. CASE s = f
      <4>1. tablaArchivos'[s] = [tablaArchivos[s] EXCEPT !.first_block = p]
        BY <1>2, <3>1 DEF TipoDisco
      <4>2. tablaArchivos[s] \in Archivo
        BY DEF TipoDisco
      <4>3. tablaArchivos'[s].state = tablaArchivos[s].state
        BY <4>1, <4>2 DEF Archivo
      <4> QED
        BY <4>1, <4>2, <4>3, SinPrimero
    <3>2. CASE s # f
      BY <1>2, <3>2 DEF TipoDisco
    <3> QED
      BY <3>1, <3>2
  <2> QED
    BY <2>1 DEF Visible
<1> QED
  BY <1>1, <1>2

\* A step that shows nothing and answers nothing; or that begins the end of a rename.
Calla(h) ==
    \E p, l : /\ Pasar(h, p, l) /\ pc[h] # "renombrar"
              /\ Visible' = Visible \/ p = "renombrar"

\* An answer with nothing done, which no CREATE takes for done.
Niega(h) ==
    \E r \in Respuestas : /\ Responder(h, r) /\ r # "NULL" /\ pc[h] # "renombrar"
                          /\ Visible' = Visible
                          /\ msj[h].accion = "CREATE" => Retorno(msj[h], r) # "0"

\* An answer that says that it was done, and for a CREATE it was.
Cumple(h) ==
    \E r \in {"OK", "0"} : /\ Responder(h, r) /\ Retorno(msj[h], r) = "0"
                           /\ msj[h].accion = "CREATE" => Visible' # Visible

LEMMA AccionDe ==
    ASSUME Tipado, NEW h \in Hilos, pc[h] # "buscar"
    PROVE  EnEtapa(msj[h].accion, pc[h])
<1>1. Hilo(pc[h], loc[h], msj[h])
  BY EnPaso DEF Tipado, Tipos
<1> QED
  BY <1>1 DEF Hilo, Lugar

LEMMA AsignarCumple ==
    ASSUME Tipado, NEW h \in Hilos, AsignarEnTablaDeArchivos(h)
    PROVE  Cumple(h)
<1> DEFINE s == Min(Borrados)
           f == Nuevo(TipoNuevo(msj[h].accion), msj[h].path, loc[h].info)
<1>1. /\ pc[h] = "asignar" /\ Borrados # {} /\ Responder(h, "OK")
      /\ tablaArchivos' = [tablaArchivos EXCEPT ![s] = f]
  BY DEF AsignarEnTablaDeArchivos, En
<1>2. msj[h].accion \in {"MKDIR", "CREATE"}
  BY <1>1, AccionDe DEF EnEtapa
<1>3. Retorno(msj[h], "OK") = "0"
  BY <1>2 DEF Retorno
<1>4. s \in Archivos /\ tablaArchivos[s].state = "DELETED"
  BY <1>1, MinBorrados
<1>5. f.state \in {"REGULAR", "DIRECTORY"} /\ DOMAIN f = DOMAIN Vacio
  BY DEF Nuevo, TipoNuevo, Vacio
<1>6. tablaArchivos'[s] = f /\ tablaArchivos \in [Archivos -> Archivo]
      /\ tablaArchivos' \in [Archivos -> Archivo]
  BY <1>1, <1>4, AsignarTipos DEF Tipado, Tipos, TipoDisco
<1> HIDE DEF f, s
<1>7. Visible'[s].state = f.state /\ Visible[s].state = "DELETED"
  <2>1. tablaArchivos'[s] \in Archivo
    BY <1>4, <1>6
  <2>2. Visible'[s] = [tablaArchivos'[s] EXCEPT !.first_block = FIN]
    BY <1>4, <1>5, <1>6 DEF Visible
  <2>3. Visible[s] = Vacio
    BY <1>4 DEF Visible
  <2> QED
    <3>1. Visible[s].state = "DELETED"
      <4>1. Vacio.state = "DELETED"
        BY DEF Vacio
      <4> QED
        BY <2>3, <4>1
    <3>2. tablaArchivos'[s].state = f.state
      BY <1>6
    <3>3. Visible'[s].state = tablaArchivos'[s].state
      <4>1. PICK r \in Archivo : r = tablaArchivos'[s]
        BY <2>1
      <4>2. Visible'[s] = [r EXCEPT !.first_block = FIN]
        BY <2>2, <4>1
      <4>3. [r EXCEPT !.first_block = FIN].state = r.state
        BY SinPrimero
      <4> QED
        BY <4>1, <4>2, <4>3
    <3> QED
      BY <3>1, <3>2, <3>3
<1>8. Visible' # Visible
  BY <1>5, <1>7
<1> QED
  BY <1>1, <1>3, <1>8 DEF Cumple

\* What each step of an operation shows and answers.
LEMMA AtenderToca ==
    ASSUME Tipado, NEW h \in Hilos, Atender(h)
    PROVE  Caer \/ Calla(h) \/ Niega(h) \/ Cumple(h)
<1> USE DEF En
<1>0. TipoDisco /\ TipoHilos
  BY DEF Tipado, Tipos
<1>1. CASE Buscar(h)
  <2>1. pc[h] = "buscar" /\ UNCHANGED tablaArchivos /\ \E p, l : Pasar(h, p, l)
    BY <1>1 DEF Buscar, disco
  <2> QED
    BY <1>0, <2>1, VisibleIgual DEF Calla
<1>2. CASE UsarExistente(h)
  <2>1. /\ pc[h] = "existe" /\ UNCHANGED tablaArchivos /\ msj[h].accion \in {"READ", "WRITE"}
        /\ \/ \E p, l : Pasar(h, p, l)
           \/ \E r \in {"ERROR", "ENOENT"} : Responder(h, r)
    BY <1>2 DEF UsarExistente, disco, GetInfoFile
  <2> QED
    BY <1>0, <2>1, VisibleIgual DEF Calla, Niega, Respuestas
<1>3. CASE CrearInexistente(h)
  <2>1. /\ pc[h] = "existe" /\ UNCHANGED tablaArchivos /\ msj[h].accion = "MKDIR"
        /\ \/ \E p, l : Pasar(h, p, l)
           \/ Responder(h, "ENOENT")
    BY <1>3 DEF CrearInexistente, disco, GetInfoFile
  <2> QED
    BY <1>0, <2>1, VisibleIgual DEF Calla, Niega, Respuestas
<1>4. CASE Consultar(h) \/ Readdir(h)
  <2>1. /\ pc[h] \in {"consultar", "readdir"} /\ UNCHANGED tablaArchivos
        /\ \E r \in {"OK", "ERROR", "ENOENT", "VACIA"} : Responder(h, r)
    BY <1>4 DEF Consultar, Readdir, disco
  <2>2. msj[h].accion # "CREATE"
    BY <2>1, AccionDe DEF EnEtapa
  <2> QED
    BY <1>0, <2>1, <2>2, VisibleIgual DEF Niega, Respuestas
<1>5. CASE ReaddirNada(h) \/ UsarRegistroLiberado(h)
  BY <1>5 DEF ReaddirNada, UsarRegistroLiberado
<1>6. CASE Crear(h)
  <2>1. CASE NoAsignar(h)
    <3>1. /\ pc[h] = "asignar" /\ UNCHANGED tablaArchivos
          /\ \E r \in {"ENOENT", "EDQUOT"} : Responder(h, r)
      BY <2>1 DEF NoAsignar, disco
    <3>2. \A r \in {"ENOENT", "EDQUOT"} :
              msj[h].accion = "CREATE" => Retorno(msj[h], r) # "0"
      BY DEF Retorno
    <3> QED
      BY <1>0, <3>1, <3>2, VisibleIgual DEF Niega, Respuestas
  <2> QED
    BY <1>6, <2>1, AsignarCumple DEF Crear
<1>7. CASE LeerArchivo(h)
  <2>1. CASE LeerNada(h)
    BY <2>1 DEF LeerNada
  <2>2. CASE LockearLectura(h)
    <3>1. pc[h] = "leer" /\ UNCHANGED tablaArchivos /\ \E p, l : Pasar(h, p, l)
      BY <2>2 DEF LockearLectura, disco
    <3> QED
      BY <1>0, <3>1, VisibleIgual DEF Calla
  <2>3. CASE Leer(h)
    <3>1. pc[h] = "leyendo" /\ UNCHANGED tablaArchivos /\ Responder(h, "OK")
      BY <2>3 DEF Leer, disco
    <3>2. msj[h].accion # "CREATE"
      BY <3>1, AccionDe DEF EnEtapa
    <3> QED
      BY <1>0, <3>1, <3>2, VisibleIgual DEF Niega, Respuestas
  <2> QED
    BY <1>7, <2>1, <2>2, <2>3 DEF LeerArchivo
<1>8. CASE EscribirArchivo(h)
  <2>1. CASE EscribirNada(h)
    BY <2>1 DEF EscribirNada
  <2>2. CASE Escribir(h) \/ Ubicar(h) \/ ReservarSiguiente(h) \/ EnlazarUltimo(h)
             \/ LockearEscritura(h) \/ SumarBloque(h) \/ CerrarCadena(h)
    <3>1. pc[h] # "renombrar" /\ UNCHANGED tablaArchivos /\ \E p, l : Pasar(h, p, l)
      BY <2>2 DEF Escribir, Ubicar, ReservarSiguiente, EnlazarUltimo, LockearEscritura,
                  SumarBloque, CerrarCadena, disco, Ir
    <3> QED
      BY <1>0, <3>1, VisibleIgual DEF Calla
  <2>3. CASE ReservarPrimero(h)
    <3>1. /\ pc[h] = "primero"
          /\ tablaArchivos' = [tablaArchivos EXCEPT ![loc[h].file].first_block = PosLibre]
          /\ (\E p, l : Pasar(h, p, l)) \/ Responder(h, "ENOSPC")
      BY <2>3 DEF ReservarPrimero, Ir
    <3>2. loc[h].file \in Archivos /\ msj[h].accion = "WRITE"
      BY <1>0, <3>1, EnEscritura DEF DeEscritura
    <3>3. Visible' = Visible
      BY <1>0, <3>1, <3>2, PosLibreTipo, VisibleIgual
    <3> QED
      BY <3>1, <3>2, <3>3 DEF Calla, Niega, Respuestas
  <2>4. CASE CopiarPrimero(h)
    <3>1. /\ pc[h] = "copiar" /\ UNCHANGED tablaArchivos
          /\ (\E p, l : Pasar(h, p, l)) \/ Responder(h, "ENOSPC")
      BY <2>4 DEF CopiarPrimero, disco, Ir
    <3>2. msj[h].accion = "WRITE"
      BY <1>0, <3>1, EnEscritura DEF DeEscritura
    <3> QED
      BY <1>0, <3>1, <3>2, VisibleIgual DEF Calla, Niega, Respuestas
  <2>5. CASE GuardarTamanio(h)
    <3>1. pc[h] = "tamanio" /\ Responder(h, "OK")
      BY <2>5 DEF GuardarTamanio
    <3>2. msj[h].accion = "WRITE"
      BY <1>0, <3>1, EnEscritura DEF DeEscritura
    <3>3. Retorno(msj[h], "OK") = "0"
      BY <3>2 DEF Retorno
    <3> QED
      BY <3>1, <3>2, <3>3 DEF Cumple
  <2> QED
    BY <1>8, <2>1, <2>2, <2>3, <2>4, <2>5 DEF EscribirArchivo
<1>9. CASE BorrarArchivo(h)
  <2>1. CASE NoBorrar(h) \/ Listar(h)
    <3>1. /\ pc[h] \in {"borrar", "borrarDir", "listar"} /\ UNCHANGED tablaArchivos
          /\ \/ \E p, l : Pasar(h, p, l)
             \/ \E r \in {"ENOENT", "EPERM"} : Responder(h, r)
      BY <2>1 DEF NoBorrar, Listar, disco, Volver, Ir
    <3>2. msj[h].accion # "CREATE"
      BY <3>1, AccionDe DEF EnEtapa
    <3> QED
      BY <1>0, <3>1, <3>2, VisibleIgual DEF Calla, Niega, Respuestas
  <2>2. CASE Borrar(h) \/ LiberarBloques(h) \/ BorrarDirectorio(h)
    <3>1. pc[h] # "renombrar" /\ UNCHANGED tablaArchivos /\ \E p, l : Pasar(h, p, l)
      BY <2>2 DEF Borrar, LiberarBloques, BorrarDirectorio, disco, GetInfoFile
    <3> QED
      BY <1>0, <3>1, VisibleIgual DEF Calla
  <2>3. CASE ListarNada(h)
    BY <2>3 DEF ListarNada
  <2>4. CASE Marcar(h)
    <3>1. pc[h] = "marcar" /\ Volver(h, "OK")
      BY <2>4 DEF Marcar
    <3>2. msj[h].accion \in {"RM", "RMDIR", "RENAME"}
      BY <3>1, AccionDe DEF EnEtapa
    <3>3. CASE msj[h].accion = "RENAME"
      BY <3>1, <3>3 DEF Volver, Ir, Calla
    <3>4. CASE msj[h].accion # "RENAME"
      <4>1. Responder(h, "OK") /\ Retorno(msj[h], "OK") = "0"
        BY <3>1, <3>2, <3>4 DEF Volver, Retorno
      <4> QED
        BY <3>2, <4>1 DEF Cumple
    <3> QED
      BY <3>3, <3>4
  <2> QED
    BY <1>9, <2>1, <2>2, <2>3, <2>4 DEF BorrarArchivo
<1>10. CASE RenombrarArchivo(h)
  <2>1. CASE RenombrarNada(h)
    <3>1. pc[h] \in {"renOrigen", "renPadre"} /\ UNCHANGED tablaArchivos /\ Responder(h, "ENOENT")
      BY <2>1 DEF RenombrarNada, disco
    <3>2. msj[h].accion # "CREATE"
      BY <3>1, AccionDe DEF EnEtapa
    <3> QED
      BY <1>0, <3>1, <3>2, VisibleIgual DEF Niega, Respuestas
  <2>2. CASE RenombrarOrigen(h) \/ RenombrarPadre(h) \/ ReemplazarDestino(h)
    <3>1. pc[h] # "renombrar" /\ UNCHANGED tablaArchivos /\ \E p, l : Pasar(h, p, l)
      BY <2>2 DEF RenombrarOrigen, RenombrarPadre, ReemplazarDestino, disco, GetInfoFile, Ir
    <3> QED
      BY <1>0, <3>1, VisibleIgual DEF Calla
  <2>3. CASE Renombrar(h)
    <3>1. pc[h] = "renombrar" /\ Responder(h, "OK")
      BY <2>3 DEF Renombrar
    <3>2. msj[h].accion = "RENAME"
      BY <3>1, AccionDe DEF EnEtapa
    <3>3. Retorno(msj[h], "OK") = "0"
      BY <3>2 DEF Retorno
    <3> QED
      BY <3>1, <3>2, <3>3 DEF Cumple
  <2> QED
    BY <1>10, <2>1, <2>2, <2>3 DEF RenombrarArchivo
<1>11. CASE TruncarArchivo(h)
  <2>1. CASE IndiceInvalido(h)
    BY <2>1 DEF IndiceInvalido
  <2>2. CASE TruncarNada(h) \/ TruncarVacio(h) \/ TruncarCreciendo(h)
             \/ TruncarLee(h) \/ TruncarEscribe(h)
    <3>1. /\ pc[h] \in {"truncar", "tLee", "tEscribe"} /\ UNCHANGED tablaArchivos
          /\ \/ \E p, l : Pasar(h, p, l)
             \/ \E r \in {"ENOENT", "EFBIG"} : Responder(h, r)
      BY <2>2 DEF TruncarNada, TruncarVacio, TruncarCreciendo, TruncarLee, TruncarEscribe, disco
    <3>2. msj[h].accion # "CREATE"
      BY <3>1, AccionDe DEF EnEtapa
    <3> QED
      BY <1>0, <3>1, <3>2, VisibleIgual DEF Calla, Niega, Respuestas
  <2>3. CASE ReservarTruncado(h)
    <3>1. /\ pc[h] = "tPrimero" /\ \E p, l : Pasar(h, p, l)
          /\ tablaArchivos' = [tablaArchivos EXCEPT ![loc[h].file].first_block = PosLibre]
      BY <2>3 DEF ReservarTruncado
    <3>2. loc[h].file \in Archivos
      BY <1>0, <3>1, EnTruncado DEF DeTruncado
    <3>3. Visible' = Visible
      BY <1>0, <3>1, <3>2, PosLibreTipo, VisibleIgual
    <3> QED
      BY <3>1, <3>3 DEF Calla
  <2>4. CASE TruncarAchicando(h)
    <3>1. /\ pc[h] = "truncar" /\ \E p, l : Pasar(h, p, l)
          /\ \/ UNCHANGED tablaArchivos
             \/ \E s \in Archivos : tablaArchivos' = [tablaArchivos EXCEPT ![s].first_block = FIN]
      BY <2>4 DEF TruncarAchicando
    <3>2. Visible' = Visible
      BY <1>0, <3>1, Numeros, VisibleIgual
    <3> QED
      BY <3>1, <3>2 DEF Calla
  <2>5. CASE TruncarTamanio(h)
    <3>1. pc[h] \in {"tFin", "tBloque"} /\ Responder(h, "0")
      BY <2>5 DEF TruncarTamanio
    <3>2. msj[h].accion = "TRUNCATE"
      BY <3>1, AccionDe DEF EnEtapa
    <3>3. Retorno(msj[h], "0") = "0"
      BY <3>2 DEF Retorno
    <3> QED
      BY <3>1, <3>2, <3>3 DEF Cumple
  <2> QED
    BY <1>11, <2>1, <2>2, <2>3, <2>4, <2>5 DEF TruncarArchivo
<1> QED
  BY <1>0, <1>1, <1>2, <1>3, <1>4, <1>5, <1>6, <1>7, <1>8, <1>9, <1>10, <1>11 DEF Atender
-----------------------------------------------------------------------------
\* The three states of a call: its request is in the socket, a thread attends it, or
\* its answer is there.  Only the last step of a rename has shown something before.
Pendiente(h) ==
    /\ pedido[h] = llamada[h] /\ msj[h] = SinMensaje /\ respuesta[h] = "NULL" /\ ~toco[h]

\* A thread attends it.
Atendida(h) ==
    /\ pedido[h] = SinMensaje /\ msj[h] = llamada[h] /\ respuesta[h] = "NULL"
    /\ toco[h] => pc[h] = "renombrar"

\* Its answer is there: it did nothing if it says an error, and a CREATE that says none did it.
Respondida(h) ==
    /\ pedido[h] = SinMensaje /\ msj[h] = SinMensaje /\ respuesta[h] # "NULL"
    /\ Retorno(llamada[h], respuesta[h]) # "0" => ~toco[h]
    /\ Retorno(llamada[h], respuesta[h]) = "0" /\ llamada[h].accion = "CREATE" => toco[h]

\* What is known of the call of h, and of a client that is not in one.
Llamada(h) ==
    /\ cliente[h] # "vivo" => ~EnLlamada(h)
    /\ vivo /\ cliente[h] = "vivo" /\ ~EnLlamada(h) =>
          pedido[h] = SinMensaje /\ msj[h] = SinMensaje /\ respuesta[h] = "NULL"
    /\ EnLlamada(h) => Pendiente(h) \/ Atendida(h) \/ Respondida(h)

\* The invariant of the calls.
CadaLlamada == \A h \in Hilos : Llamada(h)

LEMMA OtraLlamada ==
    ASSUME NEW g \in Hilos, Llamada(g), vivo' => vivo,
           pc'[g] = pc[g], msj'[g] = msj[g], respuesta'[g] = respuesta[g],
           cliente'[g] = cliente[g], llamada'[g] = llamada[g], pedido'[g] = pedido[g],
           toco'[g] = toco[g]
    PROVE  Llamada(g)'
  BY DEF Llamada, EnLlamada, Pendiente, Atendida, Respondida

\* Who attends a request, and who does not.
LEMMA ConMensaje ==
    ASSUME Tipado, NEW h \in Hilos, pc[h] \notin {"fuera", "recibir", "fin"}
    PROVE  msj[h] # SinMensaje
<1>1. Hilo(pc[h], loc[h], msj[h])
  BY EnPaso DEF Tipado, Tipos
<1>2. msj[h].accion # "NULL"
  BY <1>1 DEF Hilo, Lugar, EnEtapa, Buscables
<1> QED
  BY <1>2 DEF SinMensaje

LEMMA AtenderOcupado ==
    ASSUME NEW h \in Hilos, Atender(h)
    PROVE  pc[h] \notin {"fuera", "recibir", "fin"} /\ vivo
  BY DEF Atender, Buscar, UsarExistente, CrearInexistente, Consultar, Readdir, ReaddirNada,
         UsarRegistroLiberado, Crear, AsignarEnTablaDeArchivos, NoAsignar, LeerArchivo, LeerNada,
         LockearLectura, Leer, EscribirArchivo, EscribirNada, Escribir, ReservarPrimero, Ubicar,
         ReservarSiguiente, EnlazarUltimo, LockearEscritura, CopiarPrimero, SumarBloque,
         CerrarCadena, GuardarTamanio, BorrarArchivo, NoBorrar, Borrar, LiberarBloques,
         BorrarDirectorio, Listar, ListarNada, Marcar, RenombrarArchivo, RenombrarNada,
         RenombrarOrigen, RenombrarPadre, ReemplazarDestino, Renombrar, TruncarArchivo,
         TruncarNada, TruncarVacio, ReservarTruncado, TruncarCreciendo, TruncarAchicando,
         TruncarLee, TruncarEscribe, TruncarTamanio, IndiceInvalido, En

LEMMA AtenderLlamada ==
    ASSUME Tipado, Tipado', CadaLlamada, NEW h \in Hilos, AtenderPedido(h)
    PROVE  CadaLlamada'
<1>1. /\ Atender(h) /\ toco' = [toco EXCEPT ![h] = @ \/ Visible' # Visible]
      /\ UNCHANGED <<registro, cliente, llamada, pedido>>
  BY DEF AtenderPedido
<1>2. vivo /\ msj[h] # SinMensaje /\ Llamada(h)
  BY <1>1, AtenderOcupado, ConMensaje DEF CadaLlamada
<1>3. /\ pc \in [Hilos -> Etapas] /\ msj \in [Hilos -> Mensaje \cup {SinMensaje}]
      /\ respuesta \in [Hilos -> Respuestas]
  BY DEF Tipado, Tipos, TipoHilos
<1>4. /\ toco'[h] = (toco[h] \/ Visible' # Visible)
      /\ \A g \in Hilos : g # h => toco'[g] = toco[g]
  BY <1>1 DEF Tipado, TipoClientes
<1>5. CASE Caer
  <2>1. ~vivo' /\ UNCHANGED <<pc, msj, respuesta, tablaArchivos>>
    BY <1>5 DEF Caer, disco
  <2>2. Visible' = Visible
    BY <2>1 DEF Visible
  <2>3. toco'[h] = toco[h]
    <3>1. toco[h] \in BOOLEAN
      BY DEF Tipado, TipoClientes
    <3> QED
      BY <1>4, <2>2, <3>1
  <2> QED
    BY <1>1, <1>4, <2>1, <2>3, OtraLlamada DEF CadaLlamada
<1>6. CASE Calla(h) \/ Niega(h) \/ Cumple(h)
  <2>1. \A g \in Hilos : g # h => /\ pc'[g] = pc[g] /\ msj'[g] = msj[g]
                                  /\ respuesta'[g] = respuesta[g]
    BY <1>3, <1>6 DEF Calla, Niega, Cumple, Pasar, Responder, Poner
  <2>2. \A g \in Hilos : g # h => Llamada(g)'
    BY <1>1, <1>2, <1>4, <2>1, OtraLlamada DEF CadaLlamada
  <2>3. EnLlamada(h)' <=> EnLlamada(h)
    BY <1>1 DEF EnLlamada
  <2>4. CASE cliente[h] # "vivo"
    BY <1>1, <1>2, <2>2, <2>3, <2>4 DEF CadaLlamada, Llamada
  <2>5. CASE cliente[h] = "vivo"
    <3>1. EnLlamada(h) /\ Atendida(h)
      BY <1>2, <2>5 DEF Llamada, Pendiente, Respondida
    <3>2. CASE Calla(h)
      <4>1. PICK p, l : /\ Pasar(h, p, l) /\ pc[h] # "renombrar"
                        /\ Visible' = Visible \/ p = "renombrar"
        BY <3>2 DEF Calla
      <4>2. pc'[h] = p /\ msj'[h] = msj[h] /\ respuesta'[h] = respuesta[h]
        BY <1>3, <4>1 DEF Pasar, Poner
      <4>3. toco'[h] => pc'[h] = "renombrar"
        BY <1>4, <3>1, <4>1, <4>2 DEF Atendida
      <4>4. Atendida(h)'
        BY <1>1, <3>1, <4>2, <4>3 DEF Atendida
      <4> QED
        BY <1>1, <2>2, <2>3, <2>5, <3>1, <4>4 DEF CadaLlamada, Llamada
    <3>3. ASSUME NEW r \in Respuestas, Responder(h, r), r # "NULL",
                 Retorno(llamada[h], r) # "0" => ~toco'[h],
                 Retorno(llamada[h], r) = "0" /\ llamada[h].accion = "CREATE" => toco'[h]
          PROVE  CadaLlamada'
      <4>1. msj'[h] = SinMensaje /\ respuesta'[h] = r
        BY <1>3, <3>3 DEF Responder
      <4>2. Respondida(h)'
        BY <1>1, <3>1, <3>3, <4>1 DEF Respondida, Atendida
      <4> QED
        BY <1>1, <2>2, <2>3, <2>5, <3>1, <4>2 DEF CadaLlamada, Llamada
    <3>4. CASE Niega(h)
      <4>1. PICK r \in Respuestas :
                /\ Responder(h, r) /\ r # "NULL" /\ pc[h] # "renombrar" /\ Visible' = Visible
                /\ msj[h].accion = "CREATE" => Retorno(msj[h], r) # "0"
        BY <3>4 DEF Niega
      <4>2. msj[h] = llamada[h] /\ ~toco[h]
        BY <3>1, <4>1 DEF Atendida
      <4>3. ~toco'[h]
        BY <1>4, <4>1, <4>2
      <4> QED
        BY <3>3, <4>1, <4>2, <4>3
    <3>5. CASE Cumple(h)
      <4>1. PICK r \in {"OK", "0"} :
                /\ Responder(h, r) /\ Retorno(msj[h], r) = "0"
                /\ msj[h].accion = "CREATE" => Visible' # Visible
        BY <3>5 DEF Cumple
      <4>2. msj[h] = llamada[h] /\ r \in Respuestas /\ r # "NULL"
        BY <3>1 DEF Atendida, Respuestas
      <4>3. llamada[h].accion = "CREATE" => toco'[h]
        BY <1>4, <4>1, <4>2
      <4> QED
        BY <3>3, <4>1, <4>2, <4>3
    <3> QED
      BY <1>6, <3>2, <3>4, <3>5
  <2> QED
    BY <2>4, <2>5
<1> QED
  BY <1>1, <1>5, <1>6, AtenderToca

\* Every step keeps what is known of the calls.
LEMMA PasoLlamada == Tipado /\ Tipado' /\ CadaLlamada /\ [Next]_todo => CadaLlamada'
<1> SUFFICES ASSUME Tipado, Tipado', CadaLlamada, [Next]_todo PROVE CadaLlamada'
  OBVIOUS
<1>0. /\ pc \in [Hilos -> Etapas] /\ msj \in [Hilos -> Mensaje \cup {SinMensaje}]
      /\ respuesta \in [Hilos -> Respuestas]
      /\ cliente \in [Hilos -> {"vivo", "muerto", "cortado"}]
      /\ llamada \in [Hilos -> Mensaje \cup {SinMensaje}]
      /\ pedido \in [Hilos -> Mensaje \cup {SinMensaje}] /\ toco \in [Hilos -> BOOLEAN]
  BY DEF Tipado, Tipos, TipoHilos, TipoClientes
<1>1. ASSUME NEW h \in Hilos, Llamar(h) PROVE CadaLlamada'
  <2>1. PICK m : llamada' = [llamada EXCEPT ![h] = m] /\ pedido' = [pedido EXCEPT ![h] = m]
    BY <1>1 DEF Llamar
  <2>2. /\ vivo /\ cliente[h] = "vivo" /\ ~EnLlamada(h) /\ toco' = [toco EXCEPT ![h] = FALSE]
        /\ UNCHANGED <<pc, msj, respuesta, vivo, cliente>>
    BY <1>1 DEF Llamar, vars, proceso
  <2>3. Pendiente(h)'
    BY <1>0, <2>1, <2>2 DEF Pendiente, CadaLlamada, Llamada
  <2>4. Llamada(h)'
    BY <2>2, <2>3, <1>0, <2>1 DEF Llamada, EnLlamada, CadaLlamada
  <2>5. \A g \in Hilos : g # h => Llamada(g)'
    BY <1>0, <2>1, <2>2, OtraLlamada DEF CadaLlamada
  <2> QED
    BY <2>4, <2>5 DEF CadaLlamada
<1>2. ASSUME NEW h \in Hilos, Retornar(h) PROVE CadaLlamada'
  <2>1. /\ cliente[h] = "vivo" /\ respuesta[h] # "NULL"
        /\ llamada' = [llamada EXCEPT ![h] = SinMensaje]
        /\ respuesta' = [respuesta EXCEPT ![h] = "NULL"]
        /\ toco' = [toco EXCEPT ![h] = FALSE]
        /\ UNCHANGED <<pc, msj, vivo, cliente, pedido>>
    BY <1>2 DEF Retornar, proceso
  <2>2. vivo => msj[h] = SinMensaje /\ pedido[h] = SinMensaje
    BY <2>1 DEF CadaLlamada, Llamada, Pendiente, Atendida, Respondida
  <2>3. Llamada(h)'
    BY <1>0, <2>1, <2>2 DEF Llamada, EnLlamada
  <2>4. \A g \in Hilos : g # h => Llamada(g)'
    BY <1>0, <2>1, OtraLlamada DEF CadaLlamada
  <2> QED
    BY <2>3, <2>4 DEF CadaLlamada
<1>3. ASSUME NEW h \in Hilos, RetornarSinServidor(h) \/ Morir(h) PROVE CadaLlamada'
  <2>1. /\ llamada' = [llamada EXCEPT ![h] = SinMensaje]
        /\ UNCHANGED <<pc, msj, respuesta, vivo, pedido, toco>>
        /\ ~vivo \/ cliente'[h] # "vivo"
        /\ \A g \in Hilos : g # h => cliente'[g] = cliente[g]
    BY <1>0, <1>3 DEF RetornarSinServidor, Morir, vars, proceso
  <2>2. Llamada(h)'
    BY <1>0, <2>1 DEF Llamada, EnLlamada
  <2>3. \A g \in Hilos : g # h => Llamada(g)'
    BY <1>0, <2>1, OtraLlamada DEF CadaLlamada
  <2> QED
    BY <2>2, <2>3 DEF CadaLlamada
<1>4. ASSUME NEW h \in Hilos, Aceptar(h) \/ Desconectar(h), UNCHANGED clientes PROVE CadaLlamada'
  <2>1. /\ UNCHANGED <<msj, respuesta, cliente, llamada, pedido, toco>>
        /\ vivo' => vivo
        /\ \A g \in Hilos : g # h => pc'[g] = pc[g]
    BY <1>0, <1>4 DEF Aceptar, Desconectar, Caer, Ir, Pasar, Poner, clientes, proceso
  <2>2. Llamada(h)'
    <3>1. pc[h] # "renombrar"
      BY <1>4 DEF Aceptar, Desconectar, En
    <3> QED
      BY <2>1, <3>1 DEF CadaLlamada, Llamada, EnLlamada, Pendiente, Atendida, Respondida
  <2>3. \A g \in Hilos : g # h => Llamada(g)'
    BY <2>1, OtraLlamada DEF CadaLlamada
  <2> QED
    BY <2>2, <2>3 DEF CadaLlamada
<1>5. ASSUME NEW h \in Hilos, RecibirPedido(h) PROVE CadaLlamada'
  <2> DEFINE m == pedido[h]
  <2>1. /\ m # SinMensaje /\ pedido' = [pedido EXCEPT ![h] = SinMensaje]
        /\ UNCHANGED <<cliente, llamada, toco, vivo>> /\ pc[h] = "recibir"
        /\ \A g \in Hilos : g # h => /\ pc'[g] = pc[g] /\ msj'[g] = msj[g]
                                     /\ respuesta'[g] = respuesta[g]
        /\ \/ msj'[h] = SinMensaje /\ respuesta'[h] = "EPERM" /\ m.accion = "RENAME"
           \/ msj'[h] = m /\ respuesta'[h] = respuesta[h]
    BY <1>0, <1>5 DEF RecibirPedido, Recibir, Responder, Poner, En, proceso
  <2>2. \A g \in Hilos : g # h => Llamada(g)'
    BY <1>0, <2>1, OtraLlamada DEF CadaLlamada
  <2>3. Llamada(h) /\ pedido'[h] = SinMensaje
    BY <1>0, <2>1 DEF CadaLlamada
  <2>4. EnLlamada(h)' <=> EnLlamada(h)
    BY <2>1 DEF EnLlamada
  <2>5. EnLlamada(h) => Pendiente(h)
    BY <2>1, <2>3 DEF Llamada, Atendida, Respondida
  <2>6. EnLlamada(h) => Atendida(h)' \/ Respondida(h)'
    <3>1. CASE msj'[h] = SinMensaje /\ respuesta'[h] = "EPERM" /\ m.accion = "RENAME"
      BY <2>1, <2>3, <2>5, <3>1 DEF Respondida, Pendiente
    <3>2. CASE msj'[h] = m /\ respuesta'[h] = respuesta[h]
      BY <2>1, <2>3, <2>5, <3>2 DEF Atendida, Pendiente
    <3> QED
      BY <2>1, <3>1, <3>2
  <2>7. CASE EnLlamada(h)
    BY <2>1, <2>2, <2>3, <2>4, <2>6, <2>7 DEF CadaLlamada, Llamada
  <2>8. CASE ~EnLlamada(h)
    <3>1. vivo /\ cliente[h] # "vivo"
      BY <1>5, <2>1, <2>3, <2>8 DEF Llamada, RecibirPedido, Recibir, En
    <3> QED
      BY <2>1, <2>2, <2>4, <2>8, <3>1 DEF CadaLlamada, Llamada
  <2> QED
    BY <2>7, <2>8
<1>6. ASSUME NEW h \in Hilos, AtenderPedido(h) PROVE CadaLlamada'
  BY <1>6, AtenderLlamada
<1>7. CASE UNCHANGED todo
  BY <1>7, OtraLlamada DEF todo, vars, clientes, proceso, CadaLlamada
<1> QED
  BY <1>1, <1>2, <1>3, <1>4, <1>5, <1>6, <1>7 DEF Next, RecibirNulo

LEMMA InitLlamada == Init => CadaLlamada
  BY DEF Init, InitServidor, CadaLlamada, Llamada, EnLlamada

\* What the invariant of the calls is for.
LEMMA LlamadaVeraz == Tipado /\ CadaLlamada => RetornoVeraz
<1> SUFFICES ASSUME Tipado, CadaLlamada, NEW h \in Hilos, Contestada(h)
             PROVE  /\ ~Lograda(h) => ~toco[h]
                    /\ Lograda(h) /\ llamada[h].accion = "CREATE" => toco[h]
  BY DEF RetornoVeraz, Lograda
<1>1. Respondida(h)
  BY DEF Contestada, CadaLlamada, Llamada, Pendiente, Atendida
<1> QED
  BY <1>1 DEF Respondida, Lograda, Contestada

\* Each call of a client is in one place: in the socket, with its thread, or answered; and until
\* it is answered it has shown nothing, but for a rename that is about to change the name.
THEOREM SpecCadaLlamada == Spec => []CadaLlamada
<1>1. Init => CadaLlamada
  BY InitLlamada
<1>2. Tipado /\ Tipado' /\ CadaLlamada /\ [Next]_todo => CadaLlamada'
  BY PasoLlamada
<1> QED
  BY <1>1, <1>2, SpecTipado, PTL DEF Spec

\* A callback that tells the kernel that it failed changed no name, place or size, and a create
\* that tells it that it did not fail did it: whatever the other clients do between the steps
\* of the server, and for every error that the server and the client put together.
THEOREM SpecRetornoVeraz == Spec => []RetornoVeraz
<1>1. Tipado /\ CadaLlamada => RetornoVeraz
  BY LlamadaVeraz
<1> QED
  BY <1>1, SpecTipado, SpecCadaLlamada, PTL
-----------------------------------------------------------------------------
(***************************************************************************)
(* Chains.                                                                 *)
(***************************************************************************)
\* f follows k links of t, that fines ends.
Anda(f, t, fines, k) == \A i \in 1 .. k : f[i] = Paso(t, fines, f[i - 1])

\* And u, that otros ends, has the same links there.
DaLoMismo(f, t, fines, u, otros, k) ==
    \A i \in 0 .. k - 1 : Paso(t, fines, f[i]) = Paso(u, otros, f[i])

LEMMA SendasIguales ==
    ASSUME NEW k \in Nat, NEW f, NEW g, NEW t, NEW u, NEW F, NEW G, f[0] = g[0],
           Anda(f, t, F, k), Anda(g, u, G, k), DaLoMismo(f, t, F, u, G, k)
    PROVE  \A i \in 0 .. k : f[i] = g[i]
<1> DEFINE x == [i \in 0 .. k |-> IF f[i] = g[i] THEN 0 ELSE 1]
<1>1. x[0] \in {0}
  OBVIOUS
<1>2. ASSUME NEW i \in 1 .. k, x[i - 1] \in {0} PROVE x[i] \in {0}
  <2>1. i \in 0 .. k /\ i - 1 \in 0 .. k /\ i - 1 \in 0 .. k - 1
    OBVIOUS
  <2>2. f[i - 1] = g[i - 1]
    BY <1>2, <2>1
  <2> HIDE DEF x
  <2>3. f[i] = Paso(t, F, f[i - 1]) /\ g[i] = Paso(u, G, g[i - 1])
    BY DEF Anda
  <2>4. Paso(t, F, f[i - 1]) = Paso(u, G, f[i - 1])
    BY <2>1 DEF DaLoMismo
  <2>5. f[i] = g[i]
    BY <2>2, <2>3, <2>4
  <2> QED
    BY <2>1, <2>5 DEF x
<1> HIDE DEF x
<1>3. \A i \in 0 .. k : x[i] \in {0}
  BY <1>1, <1>2, Cerrado
<1> QED
  BY <1>3 DEF x

LEMMA CadenaFin ==
    ASSUME TipoDisco, NEW p \in Posiciones, NEW k \in 0 .. NBloques, Cadena(p)[k] = FIN
    PROVE  \A j \in k .. NBloques : Cadena(p)[j] = FIN
<1> DEFINE f == Cadena(p)
           n == NBloques - k
           g == [i \in 0 .. n |-> f[k + i]]
<1>1. \A i \in 1 .. NBloques : f[i] = Paso(tablaAsignacion, {FIN}, f[i - 1])
  BY CadenaEs DEF EsSenda
<1> HIDE DEF f
<1>2. /\ n \in Nat /\ 0 \in 0 .. n /\ k + 0 = k
      /\ \A i \in 1 .. n : /\ k + i \in 1 .. NBloques /\ i - 1 \in 0 .. n /\ i \in 0 .. n
                           /\ (k + i) - 1 = k + (i - 1)
      /\ \A j \in k .. NBloques : j - k \in 0 .. n /\ k + (j - k) = j
  <2>1. \A m \in Nat : \A q \in 0 .. m :
           /\ m - q \in Nat /\ 0 \in 0 .. m - q /\ q + 0 = q
           /\ \A i \in 1 .. m - q : /\ q + i \in 1 .. m /\ i - 1 \in 0 .. m - q
                                    /\ i \in 0 .. m - q /\ (q + i) - 1 = q + (i - 1)
           /\ \A j \in q .. m : j - q \in 0 .. m - q /\ q + (j - q) = j
    OBVIOUS
  <2> QED
    BY <2>1, Numeros
<1> HIDE DEF n
<1>3. g[0] \in {FIN}
  BY <1>2 DEF f
<1>4. ASSUME NEW i \in 1 .. n, g[i - 1] \in {FIN} PROVE g[i] \in {FIN}
  <2>1. f[k + i] = Paso(tablaAsignacion, {FIN}, f[(k + i) - 1])
    <3>1. k + i \in 1 .. NBloques
      BY <1>2
    <3> QED
      BY <1>1, <3>1, Zenon
  <2>2. g[i] = f[k + i] /\ g[i - 1] = f[(k + i) - 1]
    BY <1>2
  <2> HIDE DEF g
  <2>3. f[(k + i) - 1] = FIN
    BY <1>4, <2>2
  <2> QED
    BY <2>1, <2>2, <2>3 DEF Paso
<1> HIDE DEF g
<1>5. \A i \in 0 .. n : g[i] \in {FIN}
  BY <1>2, <1>3, <1>4, Cerrado
<1>6. \A j \in k .. NBloques : g[j - k] = f[j]
  BY <1>2 DEF g
<1> QED
  BY <1>2, <1>5, <1>6 DEF f

\* The blocks of a chain are the first positions of the way; an end follows the last one.
LEMMA CuentaBloques ==
    ASSUME TipoDisco, NEW p \in Posiciones
    PROVE  LET c == CountBlocks(p)
           IN  /\ c \in 0 .. NBloques + 1 /\ (p # FIN => c > 0)
               /\ \A i \in 0 .. c - 1 : i \in 0 .. NBloques /\ Cadena(p)[i] # FIN
               /\ Termina(p) => c \in 0 .. NBloques /\ Cadena(p)[c] = FIN
<1> DEFINE f == Cadena(p)
           c == CountBlocks(p)
           J == {i \in 0 .. NBloques : f[i] # FIN}
<1>1. c \in 0 .. NBloques + 1 /\ c = Cardinality(J) /\ NBloques \in Nat
  BY CountBlocksTipo, Numeros DEF CountBlocks
<1>2. IsFiniteSet(J)
  <2>1. 0 \in Int /\ NBloques \in Int
    BY <1>1
  <2>2. IsFiniteSet(0 .. NBloques)
    BY <2>1, FS_Interval
  <2>3. J \in SUBSET (0 .. NBloques)
    OBVIOUS
  <2> QED
    BY <2>2, <2>3, FS_Subset
<1>3. f[0] = p
  BY CadenaEs DEF EsSenda
<1>4. \A k \in 0 .. NBloques : f[k] = FIN => \A j \in k .. NBloques : f[j] = FIN
  BY CadenaFin
<1> HIDE DEF f, c
<1>5. \A k \in Nat : IsFiniteSet(0 .. k - 1) /\ Cardinality(0 .. k - 1) = k
  <2>1. ASSUME NEW k \in Nat PROVE IsFiniteSet(0 .. k - 1) /\ Cardinality(0 .. k - 1) = k
    <3>1. 0 \in Int /\ k - 1 \in Int
      OBVIOUS
    <3>2. IsFiniteSet(0 .. k - 1) /\ Cardinality(0 .. k - 1) = IF 0 > k - 1 THEN 0 ELSE (k - 1) - 0 + 1
      BY <3>1, FS_Interval
    <3>3. (IF 0 > k - 1 THEN 0 ELSE (k - 1) - 0 + 1) = k
      OBVIOUS
    <3> QED
      BY <3>2, <3>3
  <2> QED
    BY <2>1
<1>6. ASSUME NEW i \in 0 .. c - 1 PROVE i \in 0 .. NBloques /\ f[i] # FIN
  <2>1. i \in 0 .. NBloques /\ i \in Nat /\ ~(c <= i)
    <3>1. \A m \in Nat : \A q \in 0 .. m + 1 : \A j \in 0 .. q - 1 : j \in 0 .. m /\ j \in Nat /\ ~(q <= j)
      OBVIOUS
    <3> QED
      BY <1>1, <3>1
  <2>2. ASSUME f[i] = FIN PROVE FALSE
    <3>1. \A j \in 0 .. NBloques : ~(j \in i .. NBloques) => j \in 0 .. i - 1
      BY <2>1
    <3>2. J \subseteq 0 .. i - 1
      BY <1>4, <2>1, <2>2, <3>1
    <3>3. Cardinality(J) <= i
      BY <1>5, <2>1, <3>2, FS_Subset
    <3> HIDE DEF J
    <3> QED
      BY <1>1, <2>1, <3>3
  <2> QED
    BY <2>1, <2>2
<1>7. ASSUME p # FIN PROVE c > 0
  <2>1. 0 \in J
    BY <1>1, <1>3, <1>7
  <2> HIDE DEF J
  <2>2. Cardinality(J) # 0
    BY <1>2, <2>1, FS_EmptySet
  <2> QED
    BY <1>1, <2>2
<1>8. ASSUME f[NBloques] = FIN PROVE c \in 0 .. NBloques /\ f[c] = FIN
  <2>1. c \in 0 .. NBloques
    <3>1. NBloques \notin 0 .. c - 1
      BY <1>6, <1>8
    <3>2. \A m \in Nat : \A q \in 0 .. m + 1 : m \notin 0 .. q - 1 => q \in 0 .. m
      OBVIOUS
    <3> QED
      BY <1>1, <3>1, <3>2
  <2>2. ASSUME f[c] # FIN PROVE FALSE
    <3>1. \A j \in 0 .. (c + 1) - 1 : j = c \/ j \in 0 .. c - 1
      BY <2>1
    <3>2. 0 .. (c + 1) - 1 \subseteq J
      BY <1>6, <2>1, <2>2, <3>1
    <3> HIDE DEF J
    <3>3. c + 1 \in Nat /\ c \in Nat
      BY <2>1
    <3>4. Cardinality(0 .. (c + 1) - 1) <= Cardinality(J)
      BY <1>2, <3>2, FS_Subset
    <3>5. Cardinality(0 .. (c + 1) - 1) = c + 1
      BY <1>5, <3>3
    <3> QED
      BY <1>1, <3>3, <3>4, <3>5
  <2> QED
    BY <2>1, <2>2
<1> QED
  BY <1>1, <1>6, <1>7, <1>8 DEF f, c, Termina

\* No block is twice in a chain that ends.
LEMMA CadenaInyectiva ==
    ASSUME TipoDisco, NEW p \in Posiciones, Termina(p),
           NEW i \in 0 .. CountBlocks(p) - 1, NEW j \in 0 .. CountBlocks(p) - 1, i < j
    PROVE  Cadena(p)[i] # Cadena(p)[j]
<1> DEFINE f == Cadena(p)
           c == CountBlocks(p)
<1>1. /\ c \in 0 .. NBloques /\ f[c] = FIN
      /\ \A k \in 0 .. c - 1 : f[k] # FIN
  BY CuentaBloques
<1>2. \A k \in 1 .. NBloques : f[k] = Paso(tablaAsignacion, {FIN}, f[k - 1])
  BY CadenaEs DEF EsSenda
<1>3. i \in 0 .. c - 1 /\ j \in 0 .. c - 1 /\ NBloques \in Nat
  BY Numeros
<1> HIDE DEF f, c
<1> SUFFICES ASSUME f[i] = f[j] PROVE FALSE
  BY DEF f
<1> DEFINE n == c - j
           a == [k \in 0 .. n |-> f[i + k]]
           b == [k \in 0 .. n |-> f[j + k]]
<1>4. /\ n \in Nat /\ 0 \in 0 .. n /\ n \in 0 .. n /\ i + 0 = i /\ j + 0 = j /\ j + n = c
      /\ i + n \in 0 .. c - 1
      /\ \A k \in 1 .. n : /\ i + k \in 1 .. NBloques /\ j + k \in 1 .. NBloques
                           /\ k - 1 \in 0 .. n /\ k \in 0 .. n
                           /\ (i + k) - 1 = i + (k - 1) /\ (j + k) - 1 = j + (k - 1)
  <2>1. \A m \in Nat : \A q \in 0 .. m : \A x, y \in 0 .. q - 1 : x < y =>
           /\ q - y \in Nat /\ 0 \in 0 .. q - y /\ q - y \in 0 .. q - y /\ x + 0 = x /\ y + 0 = y
           /\ y + (q - y) = q /\ x + (q - y) \in 0 .. q - 1
           /\ \A k \in 1 .. q - y : /\ x + k \in 1 .. m /\ y + k \in 1 .. m
                                    /\ k - 1 \in 0 .. q - y /\ k \in 0 .. q - y
                                    /\ (x + k) - 1 = x + (k - 1) /\ (y + k) - 1 = y + (k - 1)
    OBVIOUS
  <2> QED
    BY <1>1, <1>3, <2>1
<1> HIDE DEF n
<1>5. ASSUME NEW k \in 1 .. n
      PROVE  /\ a[k] = Paso(tablaAsignacion, {FIN}, a[k - 1])
             /\ b[k] = Paso(tablaAsignacion, {FIN}, b[k - 1])
  <2>1. /\ f[i + k] = Paso(tablaAsignacion, {FIN}, f[(i + k) - 1])
        /\ f[j + k] = Paso(tablaAsignacion, {FIN}, f[(j + k) - 1])
    <3>1. i + k \in 1 .. NBloques /\ j + k \in 1 .. NBloques
      BY <1>4
    <3> QED
      BY <1>2, <3>1, Zenon
  <2>2. /\ a[k] = f[i + k] /\ a[k - 1] = f[(i + k) - 1]
        /\ b[k] = f[j + k] /\ b[k - 1] = f[(j + k) - 1]
    BY <1>4
  <2> QED
    BY <2>1, <2>2, Zenon
<1>6. a[0] = b[0] /\ a[n] = f[i + n] /\ b[n] = f[c]
  BY <1>4
<1> HIDE DEF a, b
<1>7. \A k \in 0 .. n : a[k] = b[k]
  <2>1. Anda(a, tablaAsignacion, {FIN}, n) /\ Anda(b, tablaAsignacion, {FIN}, n)
    BY <1>5 DEF Anda
  <2>2. DaLoMismo(a, tablaAsignacion, {FIN}, tablaAsignacion, {FIN}, n) /\ n \in Nat
    BY <1>4 DEF DaLoMismo
  <2> QED
    BY <1>6, <2>1, <2>2, SendasIguales
<1> QED
  BY <1>1, <1>4, <1>6, <1>7

\* The first links of a chain are followed in the same way whatever ends it, until its end.
LEMMA RecorrerCadena ==
    ASSUME TipoDisco, NEW p \in Posiciones, NEW k \in 0 .. NBloques,
           \A i \in 0 .. k - 1 : Cadena(p)[i] # FIN
    PROVE  Recorrer(p, k) = Cadena(p)[k]
<1> DEFINE f == Cadena(p)
           g == Camino(p, k, {})
<1>1. k \in Nat
  OBVIOUS
<1>2. /\ f[0] = p /\ g[0] = p
      /\ \A i \in 1 .. NBloques : f[i] = Paso(tablaAsignacion, {FIN}, f[i - 1])
      /\ \A i \in 1 .. k : g[i] = Paso(tablaAsignacion, {}, g[i - 1])
  <2>1. EsSenda(f, tablaAsignacion, p, NBloques, {FIN})
    BY CadenaEs
  <2>2. EsSenda(g, tablaAsignacion, p, k, {})
    BY <1>1, CaminoEs
  <2> HIDE DEF f, g
  <2> QED
    BY <2>1, <2>2 DEF EsSenda
<1> HIDE DEF f, g
<1>3. \A i \in 1 .. k : i \in 1 .. NBloques
  BY Numeros
<1>4. \A i \in 0 .. k - 1 : f[i] # FIN
  BY DEF f
<1>5. DaLoMismo(f, tablaAsignacion, {FIN}, tablaAsignacion, {}, k)
  BY <1>4 DEF Paso, DaLoMismo
<1>6. \A i \in 0 .. k : f[i] = g[i]
  <2>1. Anda(f, tablaAsignacion, {FIN}, k) /\ Anda(g, tablaAsignacion, {}, k) /\ f[0] = g[0]
    BY <1>2, <1>3 DEF Anda
  <2> QED
    BY <1>1, <1>5, <2>1, SendasIguales
<1> QED
  BY <1>1, <1>6 DEF f, g, Recorrer

\* Fewer links are the beginning of the same way.
LEMMA CaminoPrefijo ==
    ASSUME TipoDisco, NEW p \in Posiciones, NEW n \in Nat, NEW m \in 0 .. n, NEW fines
    PROVE  \A i \in 0 .. m : Camino(p, m, fines)[i] = Camino(p, n, fines)[i]
<1> DEFINE f == Camino(p, m, fines)
           g == Camino(p, n, fines)
<1>1. m \in Nat /\ \A i \in 1 .. m : i \in 1 .. n
  OBVIOUS
<1>2. /\ f[0] = p /\ g[0] = p
      /\ \A i \in 1 .. m : f[i] = Paso(tablaAsignacion, fines, f[i - 1])
      /\ \A i \in 1 .. n : g[i] = Paso(tablaAsignacion, fines, g[i - 1])
  BY <1>1, CaminoEs DEF EsSenda
<1> HIDE DEF f, g
<1>3. \A i \in 0 .. m : f[i] = g[i]
  <2>1. /\ Anda(f, tablaAsignacion, fines, m) /\ Anda(g, tablaAsignacion, fines, m)
        /\ f[0] = g[0] /\ DaLoMismo(f, tablaAsignacion, fines, tablaAsignacion, fines, m)
    BY <1>1, <1>2 DEF Anda, DaLoMismo
  <2> QED
    BY <1>1, <2>1, SendasIguales
<1> QED
  BY <1>3 DEF f, g
-----------------------------------------------------------------------------
(***************************************************************************)
(* The owners of the blocks, until a thread slips.                         *)
(***************************************************************************)
LEMMA RepartoEs == Reparto <=> \E d : Reparte(d)
  BY DEF Reparto, Reparte, ReparteDisco

\* The same of the next state.
LEMMA RepartoPrima == Reparto' <=> \E d : Reparte(d)'
  BY DEF Reparto, Reparte, ReparteDisco

\* The steps at which a thread extends a chain.
Extienden == {"bloque", "tBloque"}

\* The last blocks of the chains that are being extended.
LEMMA PuntaEs ==
    \A s, b : b \in Punta(s) <=> \E g \in Hilos : /\ pc[g] \in Extienden /\ loc[g].file = s
                                                  /\ loc[g].posBlockPadre = b
  BY DEF Punta, Agrega, Extienden

\* The next n links from p do not go past an end, or nothing is read there.
NoSeSale(p, n, fines) ==
    \/ FIN \in fines \/ tablaAsignacion[FIN] = FIN
    \/ \A i \in 0 .. n - 1 : Camino(p, n, fines)[i] # FIN

\* The way from a block of a file stays in the file.
LEMMA CaminoSuyo ==
    ASSUME TipoDisco, NEW d, Reparte(d), NEW s \in Archivos, NEW p \in Suyos(d, s) \cup {FIN},
           NEW n \in Nat, NEW fines, Punta(s) \subseteq fines, NoSeSale(p, n, fines)
    PROVE  \A i \in 0 .. n : Camino(p, n, fines)[i] \in Suyos(d, s) \cup {FIN}
<1> DEFINE f == Camino(p, n, fines)
           S == Suyos(d, s) \cup {FIN}
<1>1. p \in Posiciones
  BY Numeros DEF Suyos, Posiciones
<1>2. EsSenda(f, tablaAsignacion, p, n, fines)
  BY <1>1, CaminoEs
<1>3. ASSUME NEW q \in Suyos(d, s) PROVE Paso(tablaAsignacion, fines, q) \in S
  <2>1. CASE q \in fines
    BY <2>1 DEF Paso
  <2>2. CASE q \notin fines
    <3>1. q \in Bloques /\ d[q] = s /\ q \notin Punta(s)
      BY <2>2 DEF Suyos
    <3> QED
      BY <2>2, <3>1 DEF Paso, Reparte, ReparteDisco
  <2> QED
    BY <2>1, <2>2
<1>4. ASSUME NEW i \in 1 .. n, f[i - 1] = FIN PROVE Paso(tablaAsignacion, fines, FIN) \in S
  <2>1. i - 1 \in 0 .. n - 1
    OBVIOUS
  <2>2. FIN \in fines \/ tablaAsignacion[FIN] = FIN
    BY <1>4, <2>1 DEF NoSeSale
  <2> QED
    BY <2>2 DEF Paso
<1> HIDE DEF f
<1>5. f[0] \in S /\ \A i \in 1 .. n : f[i] = Paso(tablaAsignacion, fines, f[i - 1])
  BY <1>2 DEF EsSenda
<1>6. ASSUME NEW i \in 1 .. n, f[i - 1] \in S PROVE f[i] \in S
  BY <1>3, <1>4, <1>5, <1>6
<1> HIDE DEF S
<1>7. \A i \in 0 .. n : f[i] \in S
  BY <1>5, <1>6, Cerrado
<1> QED
  BY <1>7 DEF f, S

\* The chain of a file that nobody extends.
LEMMA CadenaSuya ==
    ASSUME TipoDisco, NEW d, Reparte(d), NEW s \in Archivos, Punta(s) = {},
           NEW p \in Suyos(d, s) \cup {FIN}
    PROVE  \A i \in 0 .. NBloques : Cadena(p)[i] \in Suyos(d, s) \cup {FIN}
<1>1. NBloques \in Nat /\ Punta(s) \subseteq {FIN} /\ NoSeSale(p, NBloques, {FIN})
  BY Numeros DEF NoSeSale
<1> QED
  BY <1>1, CaminoSuyo DEF Cadena

\* The chain of a file that lives is of blocks of its own.
LEMMA BloquesSuyos ==
    ASSUME TipoDisco, NEW d, Reparte(d), NEW s \in Archivos, Vive(s)
    PROVE  BloquesDe(s) \subseteq Suyos(d, s)
<1> DEFINE p == Bloque0(s)
           fines == Punta(s) \cup {FIN}
<1>1. p \in Suyos(d, s) \cup {FIN}
  BY DEF Reparte, ReparteDisco
<1>2. \A i \in 0 .. NBloques : Camino(p, NBloques, fines)[i] \in Suyos(d, s) \cup {FIN}
  <2>1. NBloques \in Nat /\ Punta(s) \subseteq fines /\ NoSeSale(p, NBloques, fines)
    BY Numeros DEF NoSeSale
  <2> HIDE DEF p, fines
  <2> QED
    BY <1>1, <2>1, CaminoSuyo
<1>3. DOMAIN Camino(p, NBloques, fines) = 0 .. NBloques
  <2>1. p \in Posiciones
    BY <1>1, Numeros DEF Suyos, Posiciones
  <2> QED
    BY <2>1, CaminoEs, Numeros DEF EsSenda
<1> QED
  BY <1>2, <1>3 DEF BloquesDe, CadenaDe, Range

\* A file that is in use and not about to be marked lives.
LEMMA VivosViven == \A s \in Vivos : s \in Archivos /\ Vive(s)
<1> SUFFICES ASSUME NEW s \in Vivos PROVE s \in Archivos /\ Vive(s)
  OBVIOUS
<1>1. \A h \in Hilos : pc[h] = "marcar" /\ loc[h].file = s => EnArchivo(h, s)
  BY DEF EnArchivo, DeArchivo
<1> QED
  BY <1>1 DEF Vivos, Vive

\* Owners that are one for each block are why files do not share blocks and use taken ones.
LEMMA RepartoVale ==
    Tipado /\ Reparto => /\ \A s, t \in Vivos : s # t => BloquesDe(s) \cap BloquesDe(t) = {}
                         /\ \A s \in Vivos : BloquesDe(s) \subseteq bitmap
<1> SUFFICES ASSUME Tipado, NEW d, Reparte(d)
             PROVE  /\ \A s, t \in Vivos : s # t => BloquesDe(s) \cap BloquesDe(t) = {}
                    /\ \A s \in Vivos : BloquesDe(s) \subseteq bitmap
  BY DEF Reparto
<1>1. TipoDisco
  BY DEF Tipado, Tipos
<1>2. \A s \in Vivos : BloquesDe(s) \subseteq Suyos(d, s)
  BY <1>1, BloquesSuyos, VivosViven
<1>3. \A s \in Archivos : Suyos(d, s) \subseteq bitmap
  BY Numeros DEF Reparte, ReparteDisco, Suyos, LIBRE
<1> QED
  BY <1>2, <1>3, VivosViven DEF Suyos
-----------------------------------------------------------------------------
\* The last block that getUltPosBlock finds in a chain of more than one is in it.
LEMMA UltimoSuyo ==
    ASSUME TipoDisco, NEW d, Reparte(d), NEW s \in Archivos, Vive(s), Punta(s) = {},
           NEW u \in UltPosBlock(Bloque0(s)), CountBlocks(Bloque0(s)) > 1
    PROVE  u \in Suyos(d, s)
<1>1. PICK p \in Posiciones : p = Bloque0(s) /\ p \in Suyos(d, s) \cup {FIN}
  BY Numeros DEF Reparte, ReparteDisco, Suyos, Posiciones
<1>2. \A i \in 0 .. NBloques : Cadena(p)[i] \in Suyos(d, s) \cup {FIN}
  BY <1>1, CadenaSuya
<1>3. PICK c : c = CountBlocks(p)
  OBVIOUS
<1>4. /\ c \in 0 .. NBloques + 1
      /\ \A i \in 0 .. c - 1 : i \in 0 .. NBloques /\ Cadena(p)[i] # FIN
  <2>1. /\ CountBlocks(p) \in 0 .. NBloques + 1
        /\ \A i \in 0 .. CountBlocks(p) - 1 : i \in 0 .. NBloques /\ Cadena(p)[i] # FIN
    BY <1>1, CuentaBloques
  <2> QED
    BY <1>3, <2>1
<1>5. u = Cadena(p)[c - 1] /\ c > 1
  BY <1>1, <1>3 DEF UltPosBlock
<1>6. c - 1 \in 0 .. c - 1
  <2>1. c \in 0 .. NBloques + 1 /\ c > 1
    BY <1>4, <1>5
  <2>2. \A m \in Nat : \A k \in 0 .. m + 1 : k > 1 => k - 1 \in 0 .. k - 1
    OBVIOUS
  <2> QED
    BY ONLY <2>1, <2>2, Numeros
<1> QED
  BY <1>2, <1>4, <1>5, <1>6
-----------------------------------------------------------------------------
(***************************************************************************)
(* What a step needs to keep the blocks shared out.                        *)
(***************************************************************************)
LEMMA TresDuenios == LIBRE \notin Archivos /\ APARTADO \notin Archivos /\ LIBRE # APARTADO
  BY Numeros DEF LIBRE, APARTADO

\* The same of the next state.
LEMMA PuntaPrima ==
    \A s, b : b \in Punta(s)' <=> \E g \in Hilos : /\ pc'[g] \in Extienden /\ loc'[g].file = s
                                                   /\ loc'[g].posBlockPadre = b
  BY DEF Punta, Agrega, Extienden

\* Nobody but h works on file f.
Solo(h, f) == \A g \in Hilos : g # h => ~EnArchivo(g, f)

\* A thread that works on a file does it alone, and the file is alive.
LEMMA SoloTrabaja ==
    ASSUME Tipado, Separados, NEW h \in Hilos, pc[h] \in DeArchivo
    PROVE  /\ loc[h].file \in Archivos /\ Solo(h, loc[h].file)
           /\ pc[h] # "marcar" => Vive(loc[h].file)
<1>1. loc[h].file \in Archivos
  <2>1. Hilo(pc[h], loc[h], msj[h])
    BY EnPaso DEF Tipado, Tipos
  <2>2. Lugar(pc[h], loc[h]) = pc[h] /\ pc[h] \in ConArchivo
    BY DEF DeArchivo, ConArchivo, Lugar
  <2> QED
    BY <2>1, <2>2 DEF Hilo
<1>2. EnArchivo(h, loc[h].file)
  BY DEF EnArchivo
<1>3. Solo(h, loc[h].file)
  BY <1>1, <1>2 DEF Separados, Solo
<1>4. ASSUME pc[h] # "marcar" PROVE Vive(loc[h].file)
  <2>1. tablaArchivos[loc[h].file].state # "DELETED"
    BY <1>1, <1>2 DEF Separados
  <2>2. \A g \in Hilos : pc[g] = "marcar" /\ loc[g].file = loc[h].file => EnArchivo(g, loc[h].file)
    BY DEF EnArchivo, DeArchivo
  <2> QED
    BY <1>3, <1>4, <2>1, <2>2 DEF Vive, Solo
<1> QED
  BY <1>1, <1>3, <1>4

LEMMA SoloPunta ==
    ASSUME NEW h \in Hilos, NEW f, Solo(h, f), NEW b \in Punta(f)
    PROVE  pc[h] \in Extienden /\ loc[h].file = f /\ loc[h].posBlockPadre = b
<1>1. PICK g \in Hilos : pc[g] \in Extienden /\ loc[g].file = f /\ loc[g].posBlockPadre = b
  BY PuntaEs
<1>2. EnArchivo(g, f)
  BY <1>1 DEF EnArchivo, DeArchivo, Extienden
<1> QED
  BY <1>1, <1>2 DEF Solo

\* A thread comes to work on file f without changing the disk: it was alive, and nobody
\* worked on it.
LEMMA Entra ==
    ASSUME Tipado, Separados', NEW h \in Hilos, NEW p \in DeArchivo \ {"marcar"}, NEW l,
           NEW f \in Archivos, l.file = f, Poner(h, p, l), pc[h] \notin DeArchivo,
           \A s \in Archivos : tablaArchivos'[s].state = tablaArchivos[s].state
    PROVE  Vive(f) /\ Punta(f) = {} /\ \A g \in Hilos : ~EnArchivo(g, f)
<1>1. /\ pc'[h] = p /\ loc'[h] = l
      /\ \A g \in Hilos : g # h => pc'[g] = pc[g] /\ loc'[g] = loc[g]
  BY PonerEs
<1>2. EnArchivo(h, f)'
  BY <1>1 DEF EnArchivo
<1>3. tablaArchivos[f].state # "DELETED"
  BY <1>2 DEF Separados
<1>4. ASSUME NEW g \in Hilos PROVE ~EnArchivo(g, f)
  <2>1. CASE g = h
    BY <2>1 DEF EnArchivo
  <2>2. CASE g # h
    <3>1. ~EnArchivo(g, f)'
      BY <1>2, <2>2 DEF Separados
    <3> QED
      BY <1>1, <2>2, <3>1 DEF EnArchivo
  <2> QED
    BY <2>1, <2>2
<1>5. Punta(f) = {}
  BY <1>4, PuntaEs DEF EnArchivo, DeArchivo, Extienden
<1>6. Vive(f)
  BY <1>3, <1>4 DEF Vive, EnArchivo, DeArchivo
<1> QED
  BY <1>4, <1>5, <1>6

\* The steps at which HiloReparte says something.
Delicados == {"enlazar", "cerrar", "copiar", "bloque", "tBloque", "liberar", "tLee", "tEscribe"}

\* What h changes of the owners is its own.
Ajeno(h, d, e) ==
    \A b \in Bloques : \/ e[b] = d[b] \/ d[b] = LIBRE
                       \/ d[b] \in Archivos /\ Solo(h, d[b])
                       \/ b \in Apartados(pc[h], loc[h])

\* And what it has set apart after the step it had before, or nobody had.
Nuevos(h, d, p, l) ==
    \A b \in Apartados(p, l) : d[b] # APARTADO \/ b \in Apartados(pc[h], loc[h])

LEMMA ApartadosSuyos ==
    ASSUME NEW d, Reparte(d), NEW g \in Hilos, NEW b \in Apartados(pc[g], loc[g])
    PROVE  b \in Bloques /\ d[b] = APARTADO
  BY DEF Reparte, ReparteHilos, HiloReparte, Suyos

\* What the threads have in their variables is the same after a step that gives them no block.
LEMMA PasaHilos ==
    ASSUME Tipado, NEW d, Reparte(d), NEW h \in Hilos, NEW p, NEW l, Poner(h, p, l),
           NEW e, Ajeno(h, d, e), HiloReparte(e, p, l), Nuevos(h, d, p, l)
    PROVE  ReparteHilos(e)'
<1>1. /\ pc'[h] = p /\ loc'[h] = l
      /\ \A g \in Hilos : g # h => pc'[g] = pc[g] /\ loc'[g] = loc[g]
  BY PonerEs
<1>2. ReparteHilos(d)
  BY DEF Reparte
<1>3. ASSUME NEW g \in Hilos PROVE HiloReparte(e, pc'[g], loc'[g])
  <2>1. CASE g = h
    BY <1>1, <2>1
  <2>2. CASE g # h
    <3>1. pc'[g] = pc[g] /\ loc'[g] = loc[g] /\ HiloReparte(d, pc[g], loc[g])
      BY <1>1, <1>2, <2>2 DEF ReparteHilos
    <3>2. ASSUME NEW b \in Apartados(pc[g], loc[g])
          PROVE  b \in Suyos(e, APARTADO)
      <4>1. b \in Bloques /\ d[b] = APARTADO
        BY <3>2, ApartadosSuyos
      <4>2. b \notin Apartados(pc[h], loc[h])
        BY <1>2, <2>2, <3>2 DEF ReparteHilos
      <4> QED
        BY <4>1, <4>2, TresDuenios DEF Ajeno, Suyos
    <3>3. ASSUME NEW b \in Suyos(d, loc[g].file), pc[g] \in Delicados, loc[g].file \in Archivos,
                 pc[g] \in DeArchivo
          PROVE  b \in Suyos(e, loc[g].file)
      <4>0. b \in Bloques /\ d[b] = loc[g].file
        BY DEF Suyos
      <4>1. EnArchivo(g, d[b])
        BY <3>3, <4>0 DEF EnArchivo
      <4>2. ~Solo(h, d[b])
        BY <2>2, <4>1 DEF Solo
      <4>3. b \notin Apartados(pc[h], loc[h])
        BY <3>3, <4>0, ApartadosSuyos, TresDuenios
      <4> QED
        BY <3>3, <4>0, <4>2, <4>3, TresDuenios DEF Ajeno, Suyos
    <3>4. pc[g] \in Delicados => loc[g].file \in Archivos /\ pc[g] \in DeArchivo
      <4>1. Hilo(pc[g], loc[g], msj[g])
        BY EnPaso DEF Tipado, Tipos
      <4>2. pc[g] \in Delicados => Lugar(pc[g], loc[g]) = pc[g] /\ pc[g] \in ConArchivo
        BY DEF Delicados, ConArchivo, Lugar
      <4> QED
        BY <4>1, <4>2 DEF Hilo, Delicados, DeArchivo
    <3>5. pc[g] \in {"cerrar", "copiar", "bloque", "tBloque", "liberar"} => pc[g] \in Delicados
      BY DEF Delicados
    <3> QED
      BY <3>1, <3>2, <3>3, <3>4, <3>5 DEF HiloReparte
  <2> QED
    BY <2>1, <2>2
<1>4. ASSUME NEW g \in Hilos, NEW k \in Hilos, g # k
      PROVE  Apartados(pc'[g], loc'[g]) \cap Apartados(pc'[k], loc'[k]) = {}
  <2>1. CASE g # h /\ k # h
    BY <1>1, <1>2, <1>4, <2>1 DEF ReparteHilos
  <2>2. ASSUME NEW j \in Hilos, j # h, NEW b \in Apartados(pc[j], loc[j]), b \in Apartados(p, l)
        PROVE  FALSE
    <3>1. d[b] = APARTADO
      BY <2>2, ApartadosSuyos
    <3>2. b \in Apartados(pc[h], loc[h])
      BY <2>2, <3>1 DEF Nuevos
    <3> QED
      BY <1>2, <2>2, <3>2 DEF ReparteHilos
  <2> QED
    BY <1>1, <1>4, <2>1, <2>2
<1> QED
  BY <1>3, <1>4 DEF ReparteHilos
-----------------------------------------------------------------------------
\* The step leaves the state and the first block of the files.
MismosArchivos ==
    \A s \in Archivos : /\ tablaArchivos'[s].state = tablaArchivos[s].state
                        /\ tablaArchivos'[s].first_block = tablaArchivos[s].first_block

\* The step of a thread that is nobody's business: it neither extends a chain nor marks a
\* file.
Quietos == Extienden \cup {"marcar"}

\* A step that reserves, links and releases nothing.
LEMMA SigueReparto ==
    ASSUME Tipado, NEW d, Reparte(d), NEW h \in Hilos, NEW p, NEW l, Poner(h, p, l),
           UNCHANGED <<bitmap, tablaAsignacion>>, MismosArchivos,
           pc[h] \notin Quietos, p # "marcar", HiloReparte(d, p, l), Nuevos(h, d, p, l)
    PROVE  Reparte(d)'
<1>1. /\ pc'[h] = p /\ loc'[h] = l
      /\ \A g \in Hilos : g # h => pc'[g] = pc[g] /\ loc'[g] = loc[g]
  BY PonerEs
<1>2. ReparteHilos(d)'
  BY PasaHilos DEF Ajeno
<1>3. \A s \in Archivos : Vive(s)' <=> Vive(s)
  BY <1>1 DEF Vive, MismosArchivos, Quietos
<1>4. \A s \in Archivos : \A b : b \in Punta(s) => b \in Punta(s)'
  BY <1>1, PuntaEs, PuntaPrima DEF Quietos
<1>5. ReparteDisco(d)'
  <2>1. ReparteDisco(d)
    BY DEF Reparte
  <2> QED
    BY <1>3, <1>4, <2>1 DEF ReparteDisco, Suyos, MismosArchivos, Bloque0
<1> QED
  BY <1>2, <1>5 DEF Reparte

\* Nor does one that changes neither the disk nor the threads.
LEMMA IgualReparto ==
    ASSUME NEW d, Reparte(d), UNCHANGED <<disco, pc, loc>>
    PROVE  Reparte(d)'
<1>1. UNCHANGED <<bitmap, tablaAsignacion, tablaArchivos, pc, loc>>
  BY DEF disco
<1>2. \A s : Punta(s)' = Punta(s)
  BY <1>1 DEF Punta, Agrega
<1>3. \A s : (Vive(s)' <=> Vive(s)) /\ Bloque0(s)' = Bloque0(s)
  BY <1>1 DEF Vive, Bloque0
<1> QED
  BY <1>1, <1>2, <1>3 DEF Reparte, ReparteDisco, ReparteHilos
-----------------------------------------------------------------------------
\* A step of a thread that neither comes to a delicate place nor leaves one it must mind.
Suave(h) ==
    /\ pc[h] \notin Quietos
    /\ UNCHANGED <<bitmap, tablaAsignacion>> /\ MismosArchivos
    /\ \E p \in Etapas \ (Delicados \cup {"marcar"}) : \E l : Poner(h, p, l)

\* Such steps leave the owners as they were.
LEMMA SuaveReparto ==
    ASSUME Tipado, NEW d, Reparte(d), NEW h \in Hilos, Suave(h)
    PROVE  Reparte(d)'
<1>1. PICK p \in Etapas \ (Delicados \cup {"marcar"}) : \E l : Poner(h, p, l)
  BY DEF Suave
<1>2. PICK l : Poner(h, p, l)
  BY <1>1
<1>3. Apartados(p, l) = {}
  BY <1>1 DEF Apartados, Delicados
<1>4. HiloReparte(d, p, l) /\ Nuevos(h, d, p, l)
  BY <1>1, <1>3 DEF HiloReparte, Nuevos, Delicados
<1> QED
  BY <1>1, <1>2, <1>4, SigueReparto DEF Suave

LEMMA MismoDisco == UNCHANGED disco => UNCHANGED <<bitmap, tablaAsignacion>> /\ MismosArchivos
  BY DEF disco, MismosArchivos

LEMMA ResponderSuave ==
    ASSUME NEW h \in Hilos, NEW r, Responder(h, r), UNCHANGED <<bitmap, tablaAsignacion>>,
           MismosArchivos, pc[h] \notin Quietos
    PROVE  Suave(h)
<1>1. Poner(h, "recibir", SinLocales) /\ "recibir" \in Etapas \ (Delicados \cup {"marcar"})
  BY DEF Responder, Etapas, Delicados
<1> QED
  BY <1>1 DEF Suave

LEMMA BuscaSuave ==
    ASSUME NEW h \in Hilos, NEW path, NEW p \in Buscables, NEW l, GetInfoFile(h, path, p, l),
           UNCHANGED disco, pc[h] \notin Quietos
    PROVE  Suave(h)
<1>1. Poner(h, Salto(path, p), ConRuta(l, path, p))
  BY DEF GetInfoFile, Pasar
<1>2. Salto(path, p) \in Etapas \ (Delicados \cup {"marcar"})
  BY DEF Salto, Etapas, Buscables, Delicados
<1> QED
  BY <1>1, <1>2, MismoDisco DEF Suave

LEMMA VolverSuave ==
    ASSUME NEW h \in Hilos, NEW r, Volver(h, r), UNCHANGED disco, pc[h] \notin Quietos
    PROVE  Suave(h)
<1>1. CASE Responder(h, r)
  BY <1>1, ResponderSuave, MismoDisco
<1>2. CASE Ir(h, "renombrar")
  <2>1. Poner(h, "renombrar", loc[h]) /\ "renombrar" \in Etapas \ (Delicados \cup {"marcar"})
    BY <1>2 DEF Ir, Pasar, Etapas, Delicados
  <2> QED
    BY <2>1, MismoDisco DEF Suave
<1> QED
  BY <1>1, <1>2 DEF Volver

\* The steps that reserve, link or release blocks, or come to do it.
Especial(h) ==
    \/ AsignarEnTablaDeArchivos(h) \/ ReservarPrimero(h) \/ Ubicar(h) \/ ReservarSiguiente(h)
    \/ EnlazarUltimo(h) \/ LockearEscritura(h) \/ CopiarPrimero(h) \/ SumarBloque(h)
    \/ CerrarCadena(h) \/ Borrar(h) \/ LiberarBloques(h) \/ Marcar(h)
    \/ ReservarTruncado(h) \/ TruncarCreciendo(h) \/ TruncarAchicando(h) \/ TruncarLee(h)
    \/ TruncarEscribe(h)
    \/ TruncarTamanio(h) /\ pc[h] = "tBloque"
    \/ En(h, "listar") /\ Ir(h, "marcar") /\ UNCHANGED disco

LEMMA AtenderSuave ==
    ASSUME Tipado, NEW h \in Hilos, Atender(h), ~Especial(h)
    PROVE  Suave(h) \/ Caer
<1> USE DEF En, Quietos, Extienden
<1>0. tablaArchivos \in [Archivos -> Archivo]
  BY DEF Tipado, Tipos, TipoDisco
<1>1. CASE Buscar(h)
  <2>1. loc[h].sigue \in Buscables /\ pc[h] = "buscar" /\ UNCHANGED disco
    <3>1. pc[h] = "buscar" /\ UNCHANGED disco
      BY <1>1 DEF Buscar
    <3>2. Hilo("buscar", loc[h], msj[h])
      BY <3>1, EnPaso DEF Tipado, Tipos
    <3> QED
      BY <3>1, <3>2 DEF Hilo
  <2>2. \E p \in {loc[h].sigue, "buscar"} : \E l : Poner(h, p, l)
    BY <1>1 DEF Buscar, Pasar
  <2>3. {loc[h].sigue, "buscar"} \subseteq Etapas \ (Delicados \cup {"marcar"})
    BY <2>1 DEF Buscables, Etapas, Delicados
  <2> QED
    BY <2>1, <2>2, <2>3, MismoDisco DEF Suave
<1>2. CASE UsarExistente(h)
  <2>1. pc[h] = "existe" /\ UNCHANGED disco /\ {"leer", "escribir"} \subseteq Buscables
    BY <1>2 DEF UsarExistente, Buscables
  <2>2. (\E p \in {"leer", "escribir"} : GetInfoFile(h, msj[h].path, p, SinLocales))
        \/ \E r : Responder(h, r)
    BY <1>2 DEF UsarExistente
  <2> QED
    BY <2>1, <2>2, BuscaSuave, ResponderSuave, MismoDisco
<1>3. CASE CrearInexistente(h)
  <2>1. pc[h] = "existe" /\ UNCHANGED disco /\ "asignar" \in Buscables
    BY <1>3 DEF CrearInexistente, Buscables
  <2>2. GetInfoFile(h, PathPadre(msj[h].path), "asignar", SinLocales) \/ \E r : Responder(h, r)
    BY <1>3 DEF CrearInexistente
  <2> QED
    BY <2>1, <2>2, BuscaSuave, ResponderSuave, MismoDisco
<1>4. CASE Consultar(h) \/ Readdir(h) \/ NoAsignar(h) \/ Leer(h)
  <2>1. /\ pc[h] \notin Quietos /\ UNCHANGED disco /\ \E r : Responder(h, r)
    BY <1>4 DEF Consultar, Readdir, NoAsignar, Leer
  <2> QED
    BY <2>1, ResponderSuave, MismoDisco
<1>5. CASE LockearLectura(h) \/ Escribir(h)
  <2>1. pc[h] \notin Quietos /\ UNCHANGED disco
    BY <1>5 DEF LockearLectura, Escribir
  <2>2. \E p \in {"leyendo", "primero", "ubicar"} : \E l : Poner(h, p, l)
    BY <1>5 DEF LockearLectura, Escribir, Pasar
  <2>3. {"leyendo", "primero", "ubicar"} \subseteq Etapas \ (Delicados \cup {"marcar"})
    BY DEF Etapas, Delicados
  <2> QED
    BY <2>1, <2>2, <2>3, MismoDisco DEF Suave
<1>6. CASE GuardarTamanio(h)
  <2>1. pc[h] = "tamanio" /\ UNCHANGED <<bitmap, tablaAsignacion>> /\ Responder(h, "OK")
    BY <1>6 DEF GuardarTamanio
  <2>2. MismosArchivos
    <3>1. tablaArchivos' = [tablaArchivos EXCEPT
                               ![loc[h].file].file_size = msj[h].size + msj[h].off]
      BY <1>6 DEF GuardarTamanio
    <3> QED
      BY <1>0, <3>1 DEF MismosArchivos, Archivo
  <2> QED
    BY <2>1, <2>2, ResponderSuave
<1>7. CASE Renombrar(h)
  <2>1. pc[h] = "renombrar" /\ UNCHANGED <<bitmap, tablaAsignacion>> /\ Responder(h, "OK")
    BY <1>7 DEF Renombrar
  <2>2. MismosArchivos
    <3>1. tablaArchivos' = [tablaArchivos EXCEPT
              ![loc[h].origen].fname = NombreFile(msj[h].nuevoNombre),
              ![loc[h].origen].parent_directory = loc[h].destino]
      BY <1>7 DEF Renombrar
    <3> QED
      BY <1>0, <3>1 DEF MismosArchivos, Archivo
  <2> QED
    BY <2>1, <2>2, ResponderSuave
<1>8. CASE NoBorrar(h)
  <2>1. pc[h] \notin Quietos /\ UNCHANGED disco /\ Volver(h, "ENOENT")
    BY <1>8 DEF NoBorrar
  <2> QED
    BY <2>1, VolverSuave
<1>9. CASE Listar(h)
  <2>1. pc[h] = "listar" /\ UNCHANGED disco /\ Volver(h, "EPERM")
    BY <1>9 DEF Listar, Especial
  <2> QED
    BY <2>1, VolverSuave
<1>10. CASE BorrarDirectorio(h)
  <2>1. pc[h] \notin Quietos /\ UNCHANGED disco /\ "listar" \in Buscables
    BY <1>10 DEF BorrarDirectorio, Buscables
  <2>2. \E l : GetInfoFile(h, RutaBorrada(h), "listar", l)
    BY <1>10 DEF BorrarDirectorio
  <2> QED
    BY <2>1, <2>2, BuscaSuave
<1>11. CASE RenombrarNada(h) \/ RenombrarOrigen(h) \/ RenombrarPadre(h) \/ ReemplazarDestino(h)
  <2>1. pc[h] \notin Quietos /\ UNCHANGED disco
    BY <1>11 DEF RenombrarNada, RenombrarOrigen, RenombrarPadre, ReemplazarDestino
  <2>2. \/ \E r : Responder(h, r)
        \/ \E l : Poner(h, "renombrar", l)
        \/ \E p \in {"renPadre", "renDestino", "borrarDir", "borrar"} : \E path, l :
               GetInfoFile(h, path, p, l)
    BY <1>11 DEF RenombrarNada, RenombrarOrigen, RenombrarPadre, ReemplazarDestino, Ir, Pasar
  <2>3. /\ {"renPadre", "renDestino", "borrarDir", "borrar"} \subseteq Buscables
        /\ "renombrar" \in Etapas \ (Delicados \cup {"marcar"})
    BY DEF Buscables, Etapas, Delicados
  <2>4. CASE \E l : Poner(h, "renombrar", l)
    BY <2>1, <2>3, <2>4, MismoDisco DEF Suave
  <2> QED
    BY <2>1, <2>2, <2>3, <2>4, BuscaSuave, ResponderSuave, MismoDisco
<1>12. CASE TruncarNada(h)
  BY <1>12, ResponderSuave, MismoDisco DEF TruncarNada
<1>13. CASE TruncarVacio(h)
  <2>1. pc[h] = "truncar" /\ UNCHANGED disco
    BY <1>13 DEF TruncarVacio
  <2>2. (\E r : Responder(h, r)) \/ \E l : Poner(h, "tPrimero", l)
    BY <1>13 DEF TruncarVacio, Pasar
  <2>3. "tPrimero" \in Etapas \ (Delicados \cup {"marcar"})
    BY DEF Etapas, Delicados
  <2> QED
    BY <2>1, <2>2, <2>3, ResponderSuave, MismoDisco DEF Suave
<1>14. CASE TruncarTamanio(h)
  <2>1. pc[h] = "tFin" /\ UNCHANGED <<bitmap, tablaAsignacion>> /\ Responder(h, "0")
    BY <1>14 DEF TruncarTamanio, Especial
  <2>2. MismosArchivos
    <3>1. tablaArchivos' = [tablaArchivos EXCEPT ![loc[h].file].file_size = msj[h].size]
      BY <1>14 DEF TruncarTamanio
    <3> QED
      BY <1>0, <3>1 DEF MismosArchivos, Archivo
  <2> QED
    BY <2>1, <2>2, ResponderSuave
<1>15. CASE ReaddirNada(h) \/ UsarRegistroLiberado(h) \/ LeerNada(h) \/ EscribirNada(h)
            \/ ListarNada(h) \/ IndiceInvalido(h)
  BY <1>15 DEF ReaddirNada, UsarRegistroLiberado, LeerNada, EscribirNada, ListarNada,
     IndiceInvalido
<1> QED
  BY <1>1, <1>2, <1>3, <1>4, <1>5, <1>6, <1>7, <1>8, <1>9, <1>10, <1>11, <1>12, <1>13, <1>14, <1>15
  DEF Atender, Crear, LeerArchivo, EscribirArchivo, BorrarArchivo, RenombrarArchivo,
      TruncarArchivo, Especial
-----------------------------------------------------------------------------
(***************************************************************************)
(* The steps that reserve and link blocks.                                 *)
(***************************************************************************)
\* The same files are alive, and those that were being extended still are.
LEMMA MismosVivos ==
    ASSUME Tipado, NEW h \in Hilos, NEW p, NEW l, Poner(h, p, l),
           pc[h] \notin Quietos, p # "marcar",
           \A s \in Archivos : tablaArchivos'[s].state = tablaArchivos[s].state
    PROVE  /\ \A s \in Archivos : Vive(s)' <=> Vive(s)
           /\ \A s \in Archivos : \A b : b \in Punta(s) => b \in Punta(s)'
<1>1. /\ pc'[h] = p /\ loc'[h] = l
      /\ \A g \in Hilos : g # h => pc'[g] = pc[g] /\ loc'[g] = loc[g]
  BY PonerEs
<1>2. \A s \in Archivos : Vive(s)' <=> Vive(s)
  BY <1>1 DEF Vive, Quietos
<1>3. \A s \in Archivos : \A b : b \in Punta(s) => b \in Punta(s)'
  BY <1>1, PuntaEs, PuntaPrima DEF Quietos
<1> QED
  BY <1>2, <1>3

\* Block pos is given to x.
Dado(d, e, pos, x) ==
    /\ e \in Duenios
    /\ e[pos] = x /\ \A b \in Bloques : b # pos => e[b] = d[b]
    /\ \A s \in Archivos : Suyos(d, s) \subseteq Suyos(e, s)
    /\ x \in Archivos => pos \in Suyos(e, x)
    /\ \A h \in Hilos : Ajeno(h, d, e)

\* A free position is nobody's, and may be given to a file or set apart for one.
LEMMA Dar ==
    ASSUME Tipado, NEW d, Reparte(d), NEW pos \in Bloques \ bitmap,
           NEW x \in Archivos \cup {APARTADO}
    PROVE  d[pos] = LIBRE /\ \E e : Dado(d, e, pos, x)
<1>1. ReparteDisco(d)
  BY DEF Reparte
<1>2. d[pos] = LIBRE /\ d \in Duenios
  BY <1>1 DEF ReparteDisco
<1> DEFINE e == [d EXCEPT ![pos] = x]
<1>3. /\ e \in Duenios
      /\ e[pos] = x /\ \A b \in Bloques : b # pos => e[b] = d[b]
  BY <1>2 DEF Duenios
<1> HIDE DEF e
<1>4. Dado(d, e, pos, x)
  BY <1>2, <1>3, TresDuenios DEF Dado, Suyos, Ajeno
<1> QED
  BY <1>2, <1>4

\* A thread in one of these steps sets nothing apart.
LEMMA NadaAparte ==
    ASSUME NEW p, p \notin {"enlazar", "tLee", "tEscribe"}
    PROVE  \A h, d, l : Apartados(p, l) = {} /\ Nuevos(h, d, p, l)
  BY DEF Apartados, Nuevos

\* A thread at no such step has nothing to mind.
LEMMA NadaDelicado ==
    ASSUME NEW p, p \notin Delicados
    PROVE  \A h, d, l : HiloReparte(d, p, l) /\ Nuevos(h, d, p, l)
<1>1. p \notin {"enlazar", "tLee", "tEscribe"}
  BY DEF Delicados
<1> QED
  BY <1>1, NadaAparte DEF HiloReparte, Delicados

\* A block for the first one of a new chain.
LEMMA AsignarReparto ==
    ASSUME Tipado, NEW d, Reparte(d), NEW h \in Hilos, AsignarEnTablaDeArchivos(h)
    PROVE  Reparte(d)'
<1>0. PICK f \in Archivos : f = Min(Borrados) /\ tablaArchivos[f].state = "DELETED"
  BY MinBorrados DEF AsignarEnTablaDeArchivos
<1> DEFINE r == Nuevo(TipoNuevo(msj[h].accion), msj[h].path, loc[h].info)
<1>1. /\ pc[h] = "asignar" /\ f \in Archivos /\ tablaArchivos[f].state = "DELETED"
      /\ Poner(h, "recibir", SinLocales) /\ UNCHANGED <<bitmap, tablaAsignacion>>
      /\ tablaArchivos' = [tablaArchivos EXCEPT ![f] = r]
  BY <1>0 DEF AsignarEnTablaDeArchivos, En, Responder
<1>2. ReparteHilos(d)'
  <2>1. HiloReparte(d, "recibir", SinLocales) /\ Nuevos(h, d, "recibir", SinLocales)
    BY NadaDelicado DEF Delicados
  <2> QED
    BY <1>1, <2>1, PasaHilos DEF Ajeno
<1>3. /\ \A s \in Archivos : s # f => tablaArchivos'[s] = tablaArchivos[s]
      /\ tablaArchivos'[f].first_block = FIN
  <2>1. tablaArchivos \in [Archivos -> Archivo]
    BY DEF Tipado, Tipos, TipoDisco
  <2>2. r.first_block = FIN
    BY DEF Nuevo
  <2> HIDE DEF r
  <2> QED
    BY <1>1, <2>1, <2>2
<1> HIDE DEF r
<1>4. /\ pc'[h] = "recibir" /\ loc'[h] = SinLocales
      /\ \A g \in Hilos : g # h => pc'[g] = pc[g] /\ loc'[g] = loc[g]
  BY <1>1, PonerEs
<1>5. \A s \in Archivos : s # f => (Vive(s)' <=> Vive(s))
  BY <1>1, <1>3, <1>4 DEF Vive
<1>6. \A s \in Archivos : \A b : b \in Punta(s)' <=> b \in Punta(s)
  BY <1>1, <1>4, PuntaEs, PuntaPrima DEF Extienden
<1>7. ReparteDisco(d)
  BY DEF Reparte
<1>8. \A b \in Bloques : d[b] # f
  BY <1>1, <1>7 DEF ReparteDisco, Vive
<1>9. ReparteDisco(d)'
  BY <1>1, <1>3, <1>5, <1>6, <1>7, <1>8 DEF ReparteDisco, Suyos, Bloque0
<1> QED
  BY <1>2, <1>9 DEF Reparte

\* Block pos is given to a file that has none.
LEMMA DarPrimero ==
    ASSUME Tipado, NEW d, Reparte(d), NEW h \in Hilos, NEW f \in Archivos, Vive(f),
           NEW pos \in Bloques \ bitmap, NEW p \in {"ubicar", "tBloque"}, NEW l, l.file = f,
           p = "tBloque" => l.posBlockPadre = pos, Poner(h, p, l), pc[h] \notin Quietos,
           bitmap' = bitmap \cup {pos},
           tablaArchivos' = [tablaArchivos EXCEPT ![f].first_block = pos],
           tablaAsignacion' = [tablaAsignacion EXCEPT ![pos] = FIN]
    PROVE  Reparto'
<1>1. ReparteDisco(d) /\ pos \in Posiciones
  BY Numeros DEF Reparte
<1>2. \A s \in Archivos : /\ tablaArchivos'[s].state = tablaArchivos[s].state
                          /\ tablaArchivos'[s].first_block =
                                IF s = f THEN pos ELSE tablaArchivos[s].first_block
  <2>1. tablaArchivos \in [Archivos -> Archivo]
    BY DEF Tipado, Tipos, TipoDisco
  <2> QED
    BY <2>1 DEF Archivo
<1>3. PICK e : Dado(d, e, pos, f)
  BY Dar
<1>4. ReparteHilos(e)'
  <2>1. Nuevos(h, d, p, l)
    BY NadaAparte
  <2>2. HiloReparte(e, p, l)
    <3>1. Apartados(p, l) = {} /\ p \notin {"cerrar", "copiar", "bloque", "liberar"}
      BY NadaAparte
    <3> QED
      BY <1>3, <3>1 DEF HiloReparte, Dado
  <2> QED
    BY <1>3, <2>1, <2>2, PasaHilos DEF Dado
<1>5. /\ \A s \in Archivos : Vive(s)' <=> Vive(s)
      /\ \A s \in Archivos : \A b : b \in Punta(s) => b \in Punta(s)'
  BY <1>2, MismosVivos
<1>6. /\ tablaAsignacion'[pos] = FIN
      /\ \A b \in Bloques : b # pos => tablaAsignacion'[b] = tablaAsignacion[b]
  <2>1. tablaAsignacion \in [Posiciones -> Posiciones]
    BY DEF Tipado, Tipos, TipoDisco
  <2> QED
    BY <1>1, <2>1, Numeros
<1>7. ReparteDisco(e)'
  <2>1. \A b \in Bloques : e[b] # LIBRE => b \in bitmap'
    BY <1>1, <1>3 DEF Dado, ReparteDisco
  <2>2. \A b \in Bloques : e[b] \in Archivos => Vive(e[b])'
    BY <1>1, <1>3, <1>5 DEF Dado, ReparteDisco
  <2>3. \A s \in Archivos : Vive(s)' => tablaArchivos'[s].first_block \in Suyos(e, s) \cup {FIN}
    BY <1>1, <1>2, <1>3, <1>5 DEF Dado, ReparteDisco, Bloque0
  <2>4. ASSUME NEW b \in Bloques, e[b] \in Archivos, b \notin Punta(e[b])'
        PROVE  tablaAsignacion'[b] \in Suyos(e, e[b]) \cup {FIN}
    BY <1>1, <1>3, <1>5, <1>6, <2>4 DEF Dado, ReparteDisco
  <2> QED
    BY <1>3, <2>1, <2>2, <2>3, <2>4 DEF Dado, ReparteDisco, Suyos, Bloque0
<1> QED
  BY <1>4, <1>7, RepartoPrima DEF Reparte

\* The first block of a file that had none.
LEMMA PrimeroReparto ==
    ASSUME Tipado, Separados, NEW d, Reparte(d), NEW h \in Hilos, ReservarPrimero(h)
    PROVE  Reparto'
<1>0. pc[h] = "primero"
  BY DEF ReservarPrimero, En
<1>1. PICK f \in Archivos : f = loc[h].file /\ Vive(f)
  BY <1>0, SoloTrabaja DEF DeArchivo
<1>2. PICK pos \in Posiciones : pos = PosLibre
  BY PosLibreTipo
<1>3. /\ bitmap' = bitmap \cup ({pos} \ {FIN})
      /\ tablaArchivos' = [tablaArchivos EXCEPT ![f].first_block = pos]
  BY <1>1, <1>2 DEF ReservarPrimero, Reservar
<1>4. CASE pos = FIN
  <2>1. Poner(h, "recibir", SinLocales) /\ tablaAsignacion' = tablaAsignacion /\ bitmap' = bitmap
    BY <1>2, <1>3, <1>4 DEF ReservarPrimero, Responder
  <2>2. tablaArchivos \in [Archivos -> Archivo]
    BY DEF Tipado, Tipos, TipoDisco
  <2>3. \A s \in Archivos : /\ tablaArchivos'[s].state = tablaArchivos[s].state
                            /\ tablaArchivos'[s].first_block \in {FIN, tablaArchivos[s].first_block}
    BY <1>3, <1>4, <2>2 DEF Archivo
  <2>4. ReparteHilos(d)'
    <3>1. HiloReparte(d, "recibir", SinLocales) /\ Nuevos(h, d, "recibir", SinLocales)
      BY NadaDelicado DEF Delicados
    <3> QED
      BY <2>1, <3>1, PasaHilos DEF Ajeno
  <2>5. /\ \A s \in Archivos : Vive(s)' <=> Vive(s)
        /\ \A s \in Archivos : \A b : b \in Punta(s) => b \in Punta(s)'
    <3>1. pc[h] \notin Quietos
      BY <1>0 DEF Quietos, Extienden
    <3> QED
      BY <2>1, <2>3, <3>1, MismosVivos
  <2>6. ReparteDisco(d)
    BY DEF Reparte
  <2>7. ReparteDisco(d)'
    BY <2>1, <2>3, <2>5, <2>6 DEF ReparteDisco, Suyos, Bloque0
  <2> QED
    BY <2>4, <2>7, RepartoPrima DEF Reparte
<1>5. CASE pos # FIN
  <2>1. /\ Poner(h, "ubicar", loc[h])
        /\ tablaAsignacion' = [tablaAsignacion EXCEPT ![pos] = FIN]
    BY <1>1, <1>2, <1>5 DEF ReservarPrimero, Ir, Pasar, Enlazar
  <2>2. pos \in Bloques \ bitmap /\ bitmap' = bitmap \cup {pos}
    BY <1>2, <1>3, <1>5, PosLibreTipo
  <2>3. pc[h] \notin Quietos /\ "ubicar" \in {"ubicar", "tBloque"}
        /\ ("ubicar" = "tBloque" => loc[h].posBlockPadre = pos)
    BY <1>0 DEF Quietos, Extienden
  <2> QED
    BY <1>1, <1>3, <2>1, <2>2, <2>3, DarPrimero
<1> QED
  BY <1>4, <1>5

\* ReservarTruncado takes the first block of a file of none.
LEMMA TruncadoReparto ==
    ASSUME Tipado, Separados, NEW d, Reparte(d), NEW h \in Hilos, ~Tropieza(h),
           ReservarTruncado(h)
    PROVE  Reparto'
<1>0. pc[h] = "tPrimero"
  BY DEF ReservarTruncado, En
<1>1. PICK f \in Archivos : f = loc[h].file /\ Vive(f)
  BY <1>0, SoloTrabaja DEF DeArchivo
<1>2. PICK pos \in Bloques \ bitmap : pos = PosLibre
  BY <1>0, PosLibreTipo DEF Tropieza
<1>3. /\ bitmap' = bitmap \cup {pos}
      /\ tablaArchivos' = [tablaArchivos EXCEPT ![f].first_block = pos]
      /\ tablaAsignacion' = [tablaAsignacion EXCEPT ![pos] = FIN]
  BY <1>1, <1>2, Numeros DEF ReservarTruncado, Reservar, Enlazar
<1>4. PICK l : l = [loc[h] EXCEPT !.posBlockPadre = pos] /\ Poner(h, "tBloque", l)
  BY <1>2 DEF ReservarTruncado, Pasar
<1>5. l.file = f /\ l.posBlockPadre = pos
  <2>1. loc[h] \in Local
    BY EnPaso DEF Tipado, Tipos
  <2> QED
    BY <1>1, <1>4, <2>1 DEF Local
<1>6. pc[h] \notin Quietos /\ "tBloque" \in {"ubicar", "tBloque"}
  BY <1>0 DEF Quietos, Extienden
<1> QED
  BY <1>1, <1>3, <1>4, <1>5, <1>6, DarPrimero
-----------------------------------------------------------------------------
\* The steps of a write that give no block.
LEMMA UbicarReparto ==
    ASSUME Tipado, Separados, NEW d, Reparte(d), NEW h \in Hilos, ~Tropieza(h), Ubicar(h)
    PROVE  Reparte(d)'
<1>1. pc[h] = "ubicar" /\ UNCHANGED disco
  BY DEF Ubicar, En
<1>2. PICK f \in Archivos : f = loc[h].file /\ Vive(f) /\ Solo(h, f)
  BY <1>1, SoloTrabaja DEF DeArchivo
<1>3. PICK pos \in Posiciones : pos = GetPosBlock(f, msj[h].off \div TamBloque)
  <2>1. msj[h].off \div TamBloque \in Nat
    <3>1. msj[h].off \in Nat
      BY EnPaso DEF Tipado, Tipos
    <3> QED
      BY <3>1, Numeros
  <2> QED
    BY <2>1, GetPosBlockTipo DEF Tipado, Tipos
<1>4. PICK l : /\ l = [loc[h] EXCEPT !.posBlockPadre = pos]
               /\ Poner(h, IF pos = FIN THEN "reservar" ELSE "cerrar", l)
  BY <1>2, <1>3 DEF Ubicar, Pasar
<1>5. l.file = f /\ l.posBlockPadre = pos
  <2>1. loc[h] \in Local
    BY EnPaso DEF Tipado, Tipos
  <2> QED
    BY <1>2, <1>4, <2>1 DEF Local
<1>6. pos \in Suyos(d, f) \cup {FIN}
  <2> DEFINE p == tablaArchivos[f].first_block
             n == msj[h].off \div TamBloque
  <2>1. n \in Nat
    <3>1. msj[h].off \in Nat
      BY EnPaso DEF Tipado, Tipos
    <3> QED
      BY <3>1, Numeros
  <2>2. p \in Suyos(d, f) \cup {FIN}
    BY <1>2 DEF Reparte, ReparteDisco, Bloque0
  <2>3. Punta(f) \subseteq {}
    BY <1>1, <1>2, SoloPunta DEF Extienden
  <2>6. NoSeSale(p, n, {})
    BY <1>1, <1>2 DEF Tropieza, SeSale, NoSeSale, Bloque0
  <2> HIDE DEF n, p
  <2>4. \A i \in 0 .. n : Camino(p, n, {})[i] \in Suyos(d, f) \cup {FIN}
    BY <2>1, <2>2, <2>3, <2>6, CaminoSuyo DEF Tipado, Tipos
  <2>5. n \in 0 .. n
    BY <2>1
  <2> QED
    BY <1>3, <2>4, <2>5 DEF GetPosBlock, Recorrer, n, p
<1>7. PICK q \in {"reservar", "cerrar"} : q = IF pos = FIN THEN "reservar" ELSE "cerrar"
  OBVIOUS
<1>8. HiloReparte(d, q, l) /\ Nuevos(h, d, q, l)
  <2>1. Apartados(q, l) = {} /\ Nuevos(h, d, q, l)
    BY NadaAparte
  <2> QED
    BY <1>5, <1>6, <1>7, <2>1 DEF HiloReparte
<1>9. pc[h] \notin Quietos /\ q # "marcar"
  BY <1>1 DEF Quietos, Extienden
<1> QED
  BY <1>1, <1>4, <1>7, <1>8, <1>9, MismoDisco, SigueReparto

\* The block that writeFile reserves before it knows where to link it.
LEMMA SiguienteReparto ==
    ASSUME Tipado, NEW d, Reparte(d), NEW h \in Hilos, ~Tropieza(h), ReservarSiguiente(h)
    PROVE  Reparto'
<1>1. pc[h] = "reservar" /\ UNCHANGED <<tablaAsignacion, tablaArchivos>>
  BY DEF ReservarSiguiente, En
<1>2. PICK pos \in Bloques \ bitmap : pos = PosLibre
  BY <1>1, PosLibreTipo DEF Tropieza
<1>3. bitmap' = bitmap \cup {pos}
  BY <1>2, Numeros DEF ReservarSiguiente, Reservar
<1>4. PICK l : l = [loc[h] EXCEPT !.posBlockPadre = pos] /\ Poner(h, "enlazar", l)
  BY <1>2 DEF ReservarSiguiente, Pasar
<1>5. l.posBlockPadre = pos
  <2>1. loc[h] \in Local
    BY EnPaso DEF Tipado, Tipos
  <2> QED
    BY <1>4, <2>1 DEF Local
<1>6. d[pos] = LIBRE
  BY <1>2, Dar
<1>7. PICK e : Dado(d, e, pos, APARTADO)
  BY <1>2, Dar
<1>8. ReparteHilos(e)'
  <2>0. Apartados("enlazar", l) = {pos}
    BY <1>5 DEF Apartados
  <2>1. HiloReparte(e, "enlazar", l)
    BY <1>7, <2>0 DEF HiloReparte, Dado, Suyos
  <2>2. Ajeno(h, d, e)
    BY <1>7 DEF Dado
  <2>3. Nuevos(h, d, "enlazar", l)
    BY <1>6, <2>0, TresDuenios DEF Nuevos
  <2> QED
    BY <1>4, <2>1, <2>2, <2>3, PasaHilos
<1>9. /\ \A s \in Archivos : Vive(s)' <=> Vive(s)
      /\ \A s \in Archivos : \A b : b \in Punta(s) => b \in Punta(s)'
  <2>1. pc[h] \notin Quietos
    BY <1>1 DEF Quietos, Extienden
  <2> QED
    BY <1>1, <1>4, <2>1, MismosVivos
<1>10. ReparteDisco(d)
  BY DEF Reparte
<1>11. \A b \in Bloques : e[b] \in Archivos => b # pos /\ e[b] = d[b]
  BY <1>7, TresDuenios DEF Dado
<1>12. ReparteDisco(e)'
  <2>1. \A b \in Bloques : e[b] # LIBRE => b \in bitmap'
    BY <1>3, <1>7, <1>10 DEF Dado, ReparteDisco
  <2>2. \A b \in Bloques : e[b] \in Archivos => Vive(e[b])'
    BY <1>9, <1>10, <1>11 DEF ReparteDisco
  <2>3. \A s \in Archivos : Vive(s)' => tablaArchivos'[s].first_block \in Suyos(e, s) \cup {FIN}
    BY <1>1, <1>7, <1>9, <1>10 DEF Dado, ReparteDisco, Bloque0
  <2>4. ASSUME NEW b \in Bloques, e[b] \in Archivos, b \notin Punta(e[b])'
        PROVE  tablaAsignacion'[b] \in Suyos(e, e[b]) \cup {FIN}
    BY <1>1, <1>7, <1>9, <1>10, <1>11, <2>4 DEF Dado, ReparteDisco
  <2>5. e \in Duenios
    BY <1>7 DEF Dado
  <2> QED
    BY <2>1, <2>2, <2>3, <2>4, <2>5 DEF ReparteDisco, Suyos, Bloque0
<1> QED
  BY <1>8, <1>12, RepartoPrima DEF Reparte

\* The block set apart becomes of the file that is linked to it.
LEMMA EnlazarReparto ==
    ASSUME Tipado, Separados, NEW d, Reparte(d), NEW h \in Hilos, ~Tropieza(h), EnlazarUltimo(h)
    PROVE  Reparto'
<1>1. /\ pc[h] = "enlazar" /\ Poner(h, "cerrar", loc[h])
      /\ UNCHANGED <<bitmap, tablaArchivos>>
  BY DEF EnlazarUltimo, En, Ir, Pasar
<1>2. PICK f \in Archivos : f = loc[h].file /\ Vive(f) /\ Solo(h, f)
  BY <1>1, SoloTrabaja DEF DeArchivo
<1>3. ReparteDisco(d) /\ ReparteHilos(d)
  BY DEF Reparte
<1>4. PICK pos \in Bloques : /\ pos = loc[h].posBlockPadre /\ d[pos] = APARTADO
                             /\ pos \in Apartados(pc[h], loc[h])
  <2>1. loc[h].posBlockPadre \in Apartados(pc[h], loc[h])
    BY <1>1 DEF Apartados
  <2> QED
    BY <2>1, ApartadosSuyos
<1>5. PICK u \in UltPosBlock(tablaArchivos[f].first_block) :
         tablaAsignacion' = [tablaAsignacion EXCEPT ![u] = pos, ![pos] = FIN]
  BY <1>2, <1>4 DEF EnlazarUltimo
<1>6. u \in Suyos(d, f)
  <2>1. Punta(f) = {}
    BY <1>1, <1>2, SoloPunta DEF Extienden
  <2>2. CountBlocks(Bloque0(f)) > 1
    <3>1. CountBlocks(Bloque0(f)) \in 0 .. NBloques + 1
      BY <1>2, <1>3, CountBlocksTipo DEF Tipado, Tipos, TipoDisco, Archivo, Bloque0
    <3>2. ~(CountBlocks(Bloque0(f)) <= 1)
      BY <1>1, <1>2 DEF Tropieza
    <3> QED
      BY <3>1, <3>2
  <2>3. u \in UltPosBlock(Bloque0(f))
    BY DEF Bloque0
  <2> QED
    BY <1>2, <2>1, <2>2, <2>3, UltimoSuyo DEF Tipado, Tipos
<1>7. u \in Bloques /\ d[u] = f /\ u # pos
  BY <1>4, <1>6, TresDuenios DEF Suyos
<1>8. /\ tablaAsignacion'[u] = pos /\ tablaAsignacion'[pos] = FIN
      /\ \A b \in Bloques : b # u /\ b # pos => tablaAsignacion'[b] = tablaAsignacion[b]
  <2>1. tablaAsignacion \in [Posiciones -> Posiciones]
    BY DEF Tipado, Tipos, TipoDisco
  <2> QED
    BY <1>5, <1>7, <2>1, Numeros
<1>9. PICK e : e = [d EXCEPT ![pos] = f]
  OBVIOUS
<1>10. /\ e \in Duenios
       /\ e[pos] = f /\ \A b \in Bloques : b # pos => e[b] = d[b]
  BY <1>3, <1>9 DEF ReparteDisco, Duenios
<1>11. (\A s \in Archivos : Suyos(d, s) \subseteq Suyos(e, s)) /\ pos \in Suyos(e, f)
  BY <1>4, <1>10, TresDuenios DEF Suyos
<1>12. ReparteHilos(e)'
  <2>1. HiloReparte(e, "cerrar", loc[h]) /\ Nuevos(h, d, "cerrar", loc[h])
    <3>1. Apartados("cerrar", loc[h]) = {} /\ Nuevos(h, d, "cerrar", loc[h])
      BY NadaAparte
    <3> QED
      BY <1>2, <1>4, <1>11, <3>1 DEF HiloReparte
  <2>2. Ajeno(h, d, e)
    BY <1>4, <1>10 DEF Ajeno
  <2> QED
    BY <1>1, <2>1, <2>2, PasaHilos
<1>13. /\ \A s \in Archivos : Vive(s)' <=> Vive(s)
       /\ \A s \in Archivos : \A b : b \in Punta(s) => b \in Punta(s)'
  <2>1. pc[h] \notin Quietos
    BY <1>1 DEF Quietos, Extienden
  <2> QED
    BY <1>1, <2>1, MismosVivos
<1>14. ReparteDisco(e)'
  <2>1. \A b \in Bloques : e[b] # LIBRE => b \in bitmap'
    BY <1>1, <1>3, <1>4, <1>10, TresDuenios DEF ReparteDisco
  <2>2. \A b \in Bloques : e[b] \in Archivos => Vive(e[b])'
    BY <1>2, <1>3, <1>10, <1>13 DEF ReparteDisco
  <2>3. \A s \in Archivos : Vive(s)' => tablaArchivos'[s].first_block \in Suyos(e, s) \cup {FIN}
    BY <1>1, <1>3, <1>11, <1>13 DEF ReparteDisco, Bloque0
  <2>4. ASSUME NEW b \in Bloques, e[b] \in Archivos, b \notin Punta(e[b])'
        PROVE  tablaAsignacion'[b] \in Suyos(e, e[b]) \cup {FIN}
    <3>1. CASE b = pos
      BY <1>8, <3>1
    <3>2. CASE b = u
      BY <1>7, <1>8, <1>10, <1>11, <3>2
    <3>3. CASE b # pos /\ b # u
      BY <1>3, <1>8, <1>10, <1>11, <1>13, <2>4, <3>3 DEF ReparteDisco
    <3> QED
      BY <3>1, <3>2, <3>3
  <2> QED
    BY <1>10, <2>1, <2>2, <2>3, <2>4 DEF ReparteDisco, Suyos, Bloque0
<1> QED
  BY <1>12, <1>14, RepartoPrima DEF Reparte

\* The copy of the data touches no block.
LEMMA CopiarReparto ==
    ASSUME Tipado, NEW d, Reparte(d), NEW h \in Hilos, LockearEscritura(h) \/ CopiarPrimero(h)
    PROVE  Reparte(d)'
<1>1. pc[h] \in {"cerrar", "copiar"} /\ UNCHANGED <<bitmap, tablaAsignacion>> /\ MismosArchivos
  BY MismoDisco DEF LockearEscritura, CopiarPrimero, En
<1>0. pc[h] \notin Quietos
  BY <1>1 DEF Quietos, Extienden
<1>2. HiloReparte(d, pc[h], loc[h])
  BY DEF Reparte, ReparteHilos
<1>3. \/ Poner(h, "copiar", loc[h]) \/ Poner(h, "tamanio", loc[h])
      \/ Poner(h, "recibir", SinLocales)
      \/ \E n : Poner(h, "bloque", [loc[h] EXCEPT !.faltan = n])
  BY DEF LockearEscritura, CopiarPrimero, Ir, Pasar, Responder
<1>4. CASE Poner(h, "copiar", loc[h]) \/ Poner(h, "tamanio", loc[h])
  <2>1. PICK p \in {"copiar", "tamanio"} : Poner(h, p, loc[h])
    BY <1>4
  <2>2. Apartados(p, loc[h]) = {} /\ Nuevos(h, d, p, loc[h])
    BY NadaAparte
  <2>3. HiloReparte(d, p, loc[h])
    BY <1>1, <1>2, <2>2 DEF HiloReparte
  <2> QED
    BY <1>0, <1>1, <2>1, <2>2, <2>3, SigueReparto
<1>5. CASE Poner(h, "recibir", SinLocales)
  <2>1. HiloReparte(d, "recibir", SinLocales) /\ Nuevos(h, d, "recibir", SinLocales)
    BY NadaDelicado DEF Delicados
  <2> QED
    BY <1>0, <1>1, <1>5, <2>1, SigueReparto
<1>6. CASE \E n : Poner(h, "bloque", [loc[h] EXCEPT !.faltan = n])
  <2>1. PICK n : Poner(h, "bloque", [loc[h] EXCEPT !.faltan = n])
    BY <1>6
  <2>2. PICK l : l = [loc[h] EXCEPT !.faltan = n] /\ Poner(h, "bloque", l)
    BY <2>1
  <2>3. l.file = loc[h].file /\ l.posBlockPadre = loc[h].posBlockPadre
    <3>1. loc[h] \in Local
      BY EnPaso DEF Tipado, Tipos
    <3> QED
      BY <2>2, <3>1 DEF Local
  <2>4. HiloReparte(d, "bloque", l) /\ Nuevos(h, d, "bloque", l)
    <3>1. Apartados("bloque", l) = {} /\ Nuevos(h, d, "bloque", l)
      BY NadaAparte
    <3> QED
      BY <1>1, <1>2, <2>3, <3>1 DEF HiloReparte
  <2> QED
    BY <1>0, <1>1, <2>2, <2>4, SigueReparto
<1> QED
  BY <1>3, <1>4, <1>5, <1>6
-----------------------------------------------------------------------------
\* What is known of the file that h extends.
LEMMA EnBloque ==
    ASSUME Tipado, Separados, NEW d, Reparte(d), NEW h \in Hilos, pc[h] \in Extienden
    PROVE  \E f \in Archivos, u \in Bloques :
              /\ f = loc[h].file /\ u = loc[h].posBlockPadre /\ d[u] = f
              /\ Vive(f) /\ Solo(h, f) /\ Punta(f) = {u}
<1>1. PICK f \in Archivos : f = loc[h].file /\ Vive(f) /\ Solo(h, f)
  BY SoloTrabaja DEF DeArchivo, Extienden
<1>2. HiloReparte(d, pc[h], loc[h])
  BY DEF Reparte, ReparteHilos
<1>3. PICK u \in Bloques : u = loc[h].posBlockPadre /\ d[u] = f
  BY <1>1, <1>2 DEF HiloReparte, Suyos, Extienden
<1>4. Punta(f) = {u}
  BY <1>1, <1>3, SoloPunta, PuntaEs
<1> QED
  BY <1>1, <1>3, <1>4

\* A block that writeFile adds goes from free to the file in one step.
LEMMA SumarReparto ==
    ASSUME Tipado, Separados, NEW d, Reparte(d), NEW h \in Hilos, SumarBloque(h)
    PROVE  Reparto'
<1>1. pc[h] \in Extienden /\ UNCHANGED tablaArchivos
  BY DEF SumarBloque, En, Extienden
<1>2. PICK f \in Archivos, u \in Bloques :
         /\ f = loc[h].file /\ u = loc[h].posBlockPadre /\ d[u] = f
         /\ Vive(f) /\ Solo(h, f) /\ Punta(f) = {u}
  BY <1>1, EnBloque
<1>3. ReparteDisco(d)
  BY DEF Reparte
<1>4. PICK pos \in Posiciones : pos = PosLibre
  BY PosLibreTipo
<1>5. PICK k : k = [loc[h] EXCEPT !.faltan = @ - 1]
  OBVIOUS
<1>6. k.file = f /\ k.posBlockPadre = u
      /\ [k EXCEPT !.posBlockPadre = pos].file = f
      /\ [k EXCEPT !.posBlockPadre = pos].posBlockPadre = pos
  <2>1. loc[h] \in Local
    BY EnPaso DEF Tipado, Tipos
  <2> QED
    BY <1>2, <1>5, <2>1 DEF Local
<1>7. \/ /\ pos # FIN /\ Reservar(pos) /\ Enlazar(u, pos)
         /\ Poner(h, pc[h], [k EXCEPT !.posBlockPadre = pos])
      \/ pos = FIN /\ Poner(h, pc[h], k) /\ UNCHANGED <<bitmap, tablaAsignacion>>
  BY <1>1, <1>2, <1>4, <1>5, <1>6 DEF SumarBloque, En, Pasar
<1>8. PICK l : Poner(h, pc[h], l) /\ l.file = f /\ l.posBlockPadre = IF pos = FIN THEN u ELSE pos
  BY <1>6, <1>7
<1>9. /\ pc'[h] = pc[h] /\ loc'[h] = l
      /\ \A g \in Hilos : g # h => pc'[g] = pc[g] /\ loc'[g] = loc[g]
  BY <1>8, PonerEs
<1>10. \A s \in Archivos : Vive(s)' <=> Vive(s)
  BY <1>1, <1>9 DEF Vive, Extienden
<1>11. \A s \in Archivos : s # f => \A b : b \in Punta(s)' <=> b \in Punta(s)
  BY <1>2, <1>8, <1>9, PuntaEs, PuntaPrima
<1>12. \A b : b = l.posBlockPadre => b \in Punta(f)'
  BY <1>1, <1>8, <1>9, PuntaPrima
<1>15. Apartados(pc[h], l) = {} /\ Nuevos(h, d, pc[h], l)
  BY <1>1, NadaAparte DEF Extienden
<1>13. CASE pos = FIN
  <2>1. UNCHANGED <<bitmap, tablaAsignacion>> /\ l.posBlockPadre = u
    BY <1>7, <1>8, <1>13
  <2>2. ReparteHilos(d)'
    <3>1. HiloReparte(d, pc[h], l)
      BY <1>1, <1>2, <1>8, <1>15, <2>1 DEF HiloReparte, Suyos, Extienden
    <3> QED
      BY <1>8, <1>15, <3>1, PasaHilos DEF Ajeno
  <2>3. \A s \in Archivos : \A b : b \in Punta(s) => b \in Punta(s)'
    BY <1>2, <1>11, <1>12, <2>1
  <2>4. ReparteDisco(d)'
    BY <1>1, <1>3, <1>10, <2>1, <2>3 DEF ReparteDisco, Suyos, Bloque0
  <2> QED
    BY <2>2, <2>4, RepartoPrima DEF Reparte
<1>14. CASE pos # FIN
  <2>1. pos \in Bloques \ bitmap /\ l.posBlockPadre = pos
    BY <1>4, <1>8, <1>14, PosLibreTipo
  <2>2. bitmap' = bitmap \cup {pos} /\ tablaAsignacion' = [tablaAsignacion EXCEPT ![u] = pos]
    BY <1>7, <1>14 DEF Reservar, Enlazar
  <2>3. PICK e : Dado(d, e, pos, f)
    BY <2>1, Dar
  <2>4. d[pos] = LIBRE /\ u # pos
    BY <1>2, <2>1, Dar, TresDuenios
  <2>5. ReparteHilos(e)'
    <3>1. HiloReparte(e, pc[h], l)
      BY <1>1, <1>8, <1>15, <2>1, <2>3 DEF HiloReparte, Dado, Extienden
    <3> QED
      BY <1>8, <1>15, <2>3, <3>1, PasaHilos DEF Dado
  <2>6. tablaAsignacion'[u] = pos
        /\ \A b \in Bloques : b # u => tablaAsignacion'[b] = tablaAsignacion[b]
    <3>1. tablaAsignacion \in [Posiciones -> Posiciones]
      BY DEF Tipado, Tipos, TipoDisco
    <3> QED
      BY <1>2, <2>2, <3>1, Numeros
  <2>7. ReparteDisco(e)'
    <3>1. \A b \in Bloques : e[b] # LIBRE => b \in bitmap'
      BY <1>3, <2>2, <2>3 DEF Dado, ReparteDisco
    <3>2. \A b \in Bloques : e[b] \in Archivos => Vive(e[b])'
      BY <1>2, <1>3, <1>10, <2>3 DEF Dado, ReparteDisco
    <3>3. \A s \in Archivos : Vive(s)' => tablaArchivos'[s].first_block \in Suyos(e, s) \cup {FIN}
      BY <1>1, <1>3, <1>10, <2>3 DEF Dado, ReparteDisco, Bloque0
    <3>4. ASSUME NEW b \in Bloques, e[b] \in Archivos, b \notin Punta(e[b])'
          PROVE  tablaAsignacion'[b] \in Suyos(e, e[b]) \cup {FIN}
      <4>1. b # pos
        BY <1>12, <2>1, <2>3, <3>4 DEF Dado
      <4>2. CASE b = u
        BY <1>2, <2>3, <2>4, <2>6, <4>2 DEF Dado
      <4>3. CASE b # u
        <5>1. e[b] = d[b] /\ b \notin Punta(d[b])
          BY <1>2, <1>11, <2>3, <3>4, <4>1, <4>3 DEF Dado
        <5>2. tablaAsignacion[b] \in Suyos(d, d[b]) \cup {FIN}
          BY <1>3, <3>4, <5>1 DEF ReparteDisco
        <5> QED
          BY <2>3, <2>6, <3>4, <4>3, <5>1, <5>2 DEF Dado
      <4> QED
        BY <4>2, <4>3
    <3>5. e \in Duenios
      BY <2>3 DEF Dado
    <3> QED
      BY <3>1, <3>2, <3>3, <3>4, <3>5 DEF ReparteDisco, Suyos, Bloque0
  <2> QED
    BY <2>5, <2>7, RepartoPrima DEF Reparte
<1> QED
  BY <1>13, <1>14

\* The thread ends its chain.
LEMMA TerminarReparto ==
    ASSUME Tipado, Separados, NEW d, Reparte(d), NEW h \in Hilos, pc[h] \in Extienden,
           NEW p \in {"tamanio", "recibir"}, NEW l, Poner(h, p, l), UNCHANGED bitmap,
           MismosArchivos, tablaAsignacion'[loc[h].posBlockPadre] = FIN,
           \A b \in Bloques : b # loc[h].posBlockPadre => tablaAsignacion'[b] = tablaAsignacion[b]
    PROVE  Reparte(d)'
<1>2. PICK f \in Archivos, u \in Bloques :
         /\ f = loc[h].file /\ u = loc[h].posBlockPadre /\ d[u] = f
         /\ Vive(f) /\ Solo(h, f) /\ Punta(f) = {u}
  BY EnBloque
<1>3. ReparteDisco(d)
  BY DEF Reparte
<1>5. /\ pc'[h] = p /\ loc'[h] = l
      /\ \A g \in Hilos : g # h => pc'[g] = pc[g] /\ loc'[g] = loc[g]
  BY PonerEs
<1>6. \A s \in Archivos : Vive(s)' <=> Vive(s)
  BY <1>5 DEF Vive, MismosArchivos, Extienden
<1>7. \A s \in Archivos : s # f => \A b : b \in Punta(s) => b \in Punta(s)'
  BY <1>2, <1>5, PuntaEs, PuntaPrima
<1>9. ReparteHilos(d)'
  <2>1. HiloReparte(d, p, l) /\ Nuevos(h, d, p, l)
    BY NadaDelicado DEF Delicados
  <2> QED
    BY <2>1, PasaHilos DEF Ajeno
<1>10. ReparteDisco(d)'
  <2>1. ASSUME NEW b \in Bloques, d[b] \in Archivos, b \notin Punta(d[b])'
        PROVE  tablaAsignacion'[b] \in Suyos(d, d[b]) \cup {FIN}
    <3>1. CASE b = u
      BY <1>2, <3>1
    <3>2. CASE b # u
      <4>1. b \notin Punta(d[b])
        BY <1>2, <1>7, <2>1, <3>2
      <4> QED
        BY <1>2, <1>3, <2>1, <3>2, <4>1 DEF ReparteDisco
    <3> QED
      BY <3>1, <3>2
  <2> QED
    BY <1>3, <1>6, <2>1 DEF ReparteDisco, Suyos, Bloque0, MismosArchivos
<1> QED
  BY <1>9, <1>10 DEF Reparte

\* CerrarCadena ends the chain after the last block, which is of the file.
LEMMA CerrarReparto ==
    ASSUME Tipado, Separados, NEW d, Reparte(d), NEW h \in Hilos, CerrarCadena(h)
    PROVE  Reparte(d)'
<1>1. /\ pc[h] \in Extienden /\ UNCHANGED bitmap /\ MismosArchivos
      /\ Poner(h, "tamanio", loc[h])
  BY DEF CerrarCadena, En, Ir, Pasar, Extienden, MismosArchivos
<1>2. PICK u \in Bloques : u = loc[h].posBlockPadre
  BY <1>1, EnBloque
<1>3. /\ tablaAsignacion'[u] = FIN
      /\ \A b \in Bloques : b # u => tablaAsignacion'[b] = tablaAsignacion[b]
  <2>1. tablaAsignacion \in [Posiciones -> Posiciones]
    BY DEF Tipado, Tipos, TipoDisco
  <2> QED
    BY <1>2, <2>1, Numeros DEF CerrarCadena, Enlazar
<1> QED
  BY <1>1, <1>2, <1>3, TerminarReparto

\* Nor does the size of the file.
LEMMA TamanioReparto ==
    ASSUME Tipado, Separados, NEW d, Reparte(d), NEW h \in Hilos, ~Tropieza(h),
           TruncarTamanio(h), pc[h] = "tBloque"
    PROVE  Reparte(d)'
<1>1. /\ pc[h] \in Extienden /\ UNCHANGED <<bitmap, tablaAsignacion>>
      /\ Poner(h, "recibir", SinLocales)
  BY DEF TruncarTamanio, Responder, Extienden
<1>2. MismosArchivos
  <2>1. tablaArchivos \in [Archivos -> Archivo]
    BY DEF Tipado, Tipos, TipoDisco
  <2>2. tablaArchivos' = [tablaArchivos EXCEPT ![loc[h].file].file_size = msj[h].size]
    BY DEF TruncarTamanio
  <2> QED
    BY <2>1, <2>2 DEF MismosArchivos, Archivo
<1>3. tablaAsignacion[loc[h].posBlockPadre] = FIN
  <2>1. loc[h].faltan = 0
    BY DEF TruncarTamanio, En
  <2> QED
    BY <2>1 DEF Tropieza
<1> QED
  BY <1>1, <1>2, <1>3, TerminarReparto
-----------------------------------------------------------------------------
(***************************************************************************)
(* The steps of a delete.                                                  *)
(***************************************************************************)
LEMMA BorrarReparto ==
    ASSUME Tipado, Separados', NEW d, Reparte(d), NEW h \in Hilos, ~Tropieza(h), Borrar(h)
    PROVE  Reparte(d)'
<1>1. pc[h] = "borrar" /\ UNCHANGED <<bitmap, tablaAsignacion, tablaArchivos>>
  BY DEF Borrar, En, disco
<1>2. PICK s \in {loc[h].info} \cap Archivos :
         Pasar(h, "liberar",
               [loc[h] EXCEPT !.info = NULO, !.file = s,
                    !.bloques = GetPosBlocks(tablaArchivos[s].first_block, 0,
                                             Techo(tablaArchivos[s].file_size))])
  BY DEF Borrar
<1>3. PICK c \in Nat : c = Techo(tablaArchivos[s].file_size)
  <2>1. tablaArchivos[s].file_size \in Nat
    BY DEF Tipado, Tipos, TipoDisco, Archivo
  <2> QED
    BY <2>1, TechoTipo
<1>4. PICK q : q = GetPosBlocks(tablaArchivos[s].first_block, 0, c)
  OBVIOUS
<1>5. PICK l : Poner(h, "liberar", l) /\ l.file = s /\ l.bloques = q
  <2>1. loc[h] \in Local
    BY EnPaso DEF Tipado, Tipos
  <2>2. PICK l : l = [loc[h] EXCEPT !.info = NULO, !.file = s, !.bloques = q]
    OBVIOUS
  <2>3. l.file = s /\ l.bloques = q
    BY <2>1, <2>2 DEF Local
  <2> QED
    BY <1>2, <1>3, <1>4, <2>2, <2>3 DEF Pasar
<1>6. pc[h] \notin DeArchivo /\ "liberar" \in DeArchivo \ {"marcar"} /\ s \in Archivos
  BY <1>1 DEF DeArchivo
<1>7. Vive(s) /\ Punta(s) = {}
  BY <1>1, <1>5, <1>6, Entra
<1>8. \A b \in ToSet(q) : b \in Suyos(d, s) \cup {FIN}
  <2>1. PICK p \in Posiciones : p = Bloque0(s) /\ p \in Suyos(d, s) \cup {FIN}
    BY <1>7, Numeros DEF Reparte, ReparteDisco, Suyos, Posiciones
  <2>2. DOMAIN q = 1 .. c - 0 /\ \A i \in 1 .. c - 0 : q[i] = Recorrer(p, 0 + i - 1)
    BY <1>4, <2>1 DEF GetPosBlocks, Bloque0
  <2>3. ASSUME NEW i \in 1 .. c - 0 PROVE q[i] \in Suyos(d, s) \cup {FIN}
    <3>1. PICK k \in Nat : k = 0 + i - 1
      OBVIOUS
    <3>2. PICK n \in Nat : n = c - 1
      OBVIOUS
    <3>3. k \in 0 .. n /\ k \in 0 .. k
      BY <3>1, <3>2
    <3>4. NoSeSale(p, n, {})
      BY <1>1, <1>3, <2>1, <3>2 DEF Tropieza, SeSale, NoSeSale
    <3>5. \A j \in 0 .. n : Camino(p, n, {})[j] \in Suyos(d, s) \cup {FIN}
      <4>1. Punta(s) \subseteq {}
        BY <1>7
      <4> QED
        BY <1>6, <2>1, <3>4, <4>1, CaminoSuyo DEF Tipado, Tipos
    <3>6. Recorrer(p, k) = Camino(p, n, {})[k]
      BY <3>3, CaminoPrefijo DEF Recorrer, Tipado, Tipos
    <3> QED
      BY <2>2, <3>1, <3>3, <3>5, <3>6
  <2>4. \A i \in DOMAIN q : q[i] \in Suyos(d, s) \cup {FIN}
    BY <2>2, <2>3
  <2> QED
    BY <2>4 DEF ToSet
<1>9. HiloReparte(d, "liberar", l) /\ Nuevos(h, d, "liberar", l)
  <2>1. Apartados("liberar", l) = {} /\ Nuevos(h, d, "liberar", l)
    BY NadaAparte
  <2> QED
    BY <1>5, <1>8, <2>1 DEF HiloReparte
<1>10. pc[h] \notin Quietos /\ "liberar" # "marcar" /\ MismosArchivos
  BY <1>1 DEF Quietos, Extienden, MismosArchivos
<1> QED
  BY <1>1, <1>5, <1>9, <1>10, SigueReparto

\* A file is given up, with all its blocks.
LEMMA SoltarReparto ==
    ASSUME Tipado, NEW d, Reparte(d), NEW h \in Hilos, NEW f \in Archivos, Solo(h, f),
           NEW l, l.file = f, Poner(h, "marcar", l), UNCHANGED <<tablaAsignacion, tablaArchivos>>,
           pc[h] \notin Quietos,
           \A b \in bitmap : b \notin Suyos(d, f) => b \in bitmap'
    PROVE  Reparto'
<1>1. ReparteDisco(d)
  BY DEF Reparte
<1>2. /\ pc'[h] = "marcar" /\ loc'[h] = l
      /\ \A g \in Hilos : g # h => pc'[g] = pc[g] /\ loc'[g] = loc[g]
  BY PonerEs
<1>3. PICK e : e = [b \in Bloques |-> IF d[b] = f THEN LIBRE ELSE d[b]]
  OBVIOUS
<1>4. e \in Duenios
      /\ \A b \in Bloques : e[b] = IF d[b] = f THEN LIBRE ELSE d[b]
  BY <1>1, <1>3 DEF ReparteDisco, Duenios
<1>5. \A s \in Archivos : s # f => Suyos(e, s) = Suyos(d, s)
  BY <1>4, TresDuenios DEF Suyos
<1>6. ReparteHilos(e)'
  <2>1. HiloReparte(e, "marcar", l) /\ Nuevos(h, d, "marcar", l)
    BY NadaDelicado DEF Delicados
  <2>2. Ajeno(h, d, e)
    BY <1>4 DEF Ajeno
  <2> QED
    BY <2>1, <2>2, PasaHilos
<1>7. ~Vive(f)'
  BY <1>2 DEF Vive
<1>8. \A s \in Archivos : s # f => (Vive(s)' <=> Vive(s))
  BY <1>2 DEF Vive, Quietos
<1>9. \A s \in Archivos : \A b : b \in Punta(s) => b \in Punta(s)'
  BY <1>2, PuntaEs, PuntaPrima DEF Quietos
<1>10. \A b \in Bloques : e[b] \in Archivos => e[b] # f /\ e[b] = d[b]
  BY <1>4, TresDuenios
<1>11. ReparteDisco(e)'
  <2>1. \A b \in Bloques : e[b] # LIBRE => b \in bitmap'
    BY <1>1, <1>4 DEF ReparteDisco, Suyos
  <2>2. \A b \in Bloques : e[b] \in Archivos => Vive(e[b])'
    BY <1>1, <1>8, <1>10 DEF ReparteDisco
  <2>3. \A s \in Archivos : Vive(s)' => tablaArchivos'[s].first_block \in Suyos(e, s) \cup {FIN}
    BY <1>1, <1>5, <1>7, <1>8 DEF ReparteDisco, Bloque0
  <2>4. ASSUME NEW b \in Bloques, e[b] \in Archivos, b \notin Punta(e[b])'
        PROVE  tablaAsignacion'[b] \in Suyos(e, e[b]) \cup {FIN}
    BY <1>1, <1>5, <1>9, <1>10, <2>4 DEF ReparteDisco
  <2> QED
    BY <1>4, <2>1, <2>2, <2>3, <2>4 DEF ReparteDisco, Suyos, Bloque0
<1> QED
  BY <1>6, <1>11, RepartoPrima DEF Reparte

\* liberarBloques clears the bits of the chain that the delete walked to, and from then on
\* the file is of nobody.
LEMMA LiberarReparto ==
    ASSUME Tipado, Separados, NEW d, Reparte(d), NEW h \in Hilos, LiberarBloques(h)
    PROVE  Reparto'
<1>1. /\ pc[h] = "liberar" /\ bitmap' = bitmap \ ToSet(loc[h].bloques)
      /\ UNCHANGED <<tablaAsignacion, tablaArchivos>>
  BY DEF LiberarBloques, En
<1>2. PICK f \in Archivos : f = loc[h].file /\ Solo(h, f)
  BY <1>1, SoloTrabaja DEF DeArchivo
<1>3. PICK l : l = [loc[h] EXCEPT !.bloques = <<>>] /\ Poner(h, "marcar", l)
  BY DEF LiberarBloques, Pasar
<1>4. l.file = f
  <2>1. loc[h] \in Local
    BY EnPaso DEF Tipado, Tipos
  <2> QED
    BY <1>2, <1>3, <2>1 DEF Local
<1>5. \A b \in ToSet(loc[h].bloques) : b \in Suyos(d, f) \cup {FIN}
  BY <1>1, <1>2 DEF Reparte, ReparteHilos, HiloReparte
<1>6. \A b \in bitmap : b \notin Suyos(d, f) => b \in bitmap'
  <2>1. FIN \notin bitmap
    BY Numeros DEF Tipado, Tipos, TipoDisco
  <2> QED
    BY <1>1, <1>5, <2>1
<1>7. pc[h] \notin Quietos
  BY <1>1 DEF Quietos, Extienden
<1> QED
  BY <1>1, <1>2, <1>3, <1>4, <1>6, <1>7, SoltarReparto

\* deleteFile lists the blocks of the chain, which are of the file.
LEMMA ListarReparto ==
    ASSUME Tipado, Separados', NEW d, Reparte(d), NEW h \in Hilos,
           En(h, "listar"), Ir(h, "marcar"), UNCHANGED disco
    PROVE  Reparto'
<1>1. /\ pc[h] = "listar" /\ Poner(h, "marcar", loc[h])
      /\ UNCHANGED <<bitmap, tablaAsignacion, tablaArchivos>>
  BY DEF En, Ir, Pasar, disco
<1>2. PICK f \in Archivos : f = loc[h].file
  <2>1. Hilo(pc[h], loc[h], msj[h])
    BY EnPaso DEF Tipado, Tipos
  <2>2. Lugar(pc[h], loc[h]) = pc[h] /\ pc[h] \in ConArchivo
    BY <1>1 DEF ConArchivo, Lugar
  <2> QED
    BY <2>1, <2>2 DEF Hilo
<1>3. /\ pc'[h] = "marcar" /\ loc'[h] = loc[h]
      /\ \A g \in Hilos : g # h => pc'[g] = pc[g] /\ loc'[g] = loc[g]
  BY <1>1, PonerEs
<1>4. Solo(h, f)
  BY <1>2, <1>3 DEF Separados, Solo, EnArchivo, DeArchivo
<1>5. pc[h] \notin Quietos
  BY <1>1 DEF Quietos, Extienden
<1> QED
  BY <1>1, <1>2, <1>4, <1>5, SoltarReparto

\* The mark of DELETED, of a file whose blocks are released.
LEMMA MarcarReparto ==
    ASSUME Tipado, Separados, NEW d, Reparte(d), NEW h \in Hilos, Marcar(h)
    PROVE  Reparte(d)'
<1>1. pc[h] = "marcar" /\ UNCHANGED <<bitmap, tablaAsignacion>> /\ Volver(h, "OK")
  BY DEF Marcar, En
<1>2. PICK f \in Archivos : f = loc[h].file
  BY <1>1, SoloTrabaja DEF DeArchivo
<1>3. PICK p \in {"recibir", "renombrar"} : \E l : Poner(h, p, l)
  BY <1>1 DEF Volver, Responder, Ir, Pasar
<1>4. PICK l : Poner(h, p, l)
  BY <1>3
<1>5. /\ pc'[h] = p /\ loc'[h] = l
      /\ \A g \in Hilos : g # h => pc'[g] = pc[g] /\ loc'[g] = loc[g]
  BY <1>4, PonerEs
<1>6. \A s \in Archivos :
         /\ tablaArchivos'[s].first_block = tablaArchivos[s].first_block
         /\ tablaArchivos'[s].state = IF s = f THEN "DELETED" ELSE tablaArchivos[s].state
  <2>1. tablaArchivos' = [tablaArchivos EXCEPT ![f].state = "DELETED"]
    BY <1>2 DEF Marcar
  <2>2. tablaArchivos \in [Archivos -> Archivo]
    BY DEF Tipado, Tipos, TipoDisco
  <2> QED
    BY <2>1, <2>2 DEF Archivo
<1>7. ~Vive(f) /\ ~Vive(f)'
  BY <1>1, <1>2, <1>6 DEF Vive
<1>8. \A s \in Archivos : Vive(s)' <=> Vive(s)
  <2>1. \A s \in Archivos : s # f => (Vive(s)' <=> Vive(s))
    BY <1>1, <1>2, <1>3, <1>5, <1>6 DEF Vive
  <2> QED
    BY <1>7, <2>1
<1>9. \A s \in Archivos : \A b : b \in Punta(s) => b \in Punta(s)'
  BY <1>1, <1>5, PuntaEs, PuntaPrima DEF Extienden
<1>10. ReparteHilos(d)'
  <2>1. HiloReparte(d, p, l) /\ Nuevos(h, d, p, l)
    BY NadaDelicado DEF Delicados
  <2>2. Ajeno(h, d, d)
    BY DEF Ajeno
  <2> QED
    BY <1>4, <2>1, <2>2, PasaHilos
<1>11. ReparteDisco(d)'
  <2>1. ReparteDisco(d)
    BY DEF Reparte
  <2> QED
    BY <1>1, <1>6, <1>8, <1>9, <2>1 DEF ReparteDisco, Suyos, Bloque0
<1> QED
  BY <1>10, <1>11 DEF Reparte
-----------------------------------------------------------------------------
(***************************************************************************)
(* The steps of a truncate.                                                *)
(***************************************************************************)
LEMMA CrecerReparto ==
    ASSUME Tipado, Separados', NEW d, Reparte(d), NEW h \in Hilos, ~Tropieza(h),
           TruncarCreciendo(h)
    PROVE  Reparte(d)'
<1>1. pc[h] = "truncar" /\ UNCHANGED <<bitmap, tablaAsignacion, tablaArchivos>>
  BY DEF TruncarCreciendo, En, disco
<1>2. PICK s \in {loc[h].info} \cap Archivos :
         LET n == msj[h].size - CountBlocks(Bloque0(s))
         IN  /\ Bloque0(s) # FIN /\ n > 0
             /\ \/ /\ HayDisponibles(n)
                   /\ \E u \in UltPosBlock(Bloque0(s)) :
                         Pasar(h, "tBloque", [loc[h] EXCEPT !.info = NULO, !.file = s,
                                                  !.posBlockPadre = u, !.faltan = n])
                \/ Responder(h, "EFBIG")
  BY DEF TruncarCreciendo, Bloque0
<1>3. pc[h] \notin Quietos /\ pc[h] \notin DeArchivo /\ MismosArchivos
  BY <1>1 DEF Quietos, Extienden, MismosArchivos, DeArchivo
<1>4. CASE Responder(h, "EFBIG")
  <2>1. Poner(h, "recibir", SinLocales) /\ "recibir" # "marcar"
    BY <1>4 DEF Responder
  <2>2. HiloReparte(d, "recibir", SinLocales) /\ Nuevos(h, d, "recibir", SinLocales)
    BY NadaDelicado DEF Delicados
  <2> QED
    BY <1>1, <1>3, <2>1, <2>2, SigueReparto
<1>5. ASSUME NEW n, n = msj[h].size - CountBlocks(Bloque0(s)), n > 0, HayDisponibles(n),
             NEW u \in UltPosBlock(Bloque0(s)),
             Pasar(h, "tBloque", [loc[h] EXCEPT !.info = NULO, !.file = s,
                                      !.posBlockPadre = u, !.faltan = n])
      PROVE  Reparte(d)'
  <2>1. PICK l : Poner(h, "tBloque", l) /\ l.file = s /\ l.posBlockPadre = u
    <3>1. loc[h] \in Local
      BY EnPaso DEF Tipado, Tipos
    <3>2. PICK l : l = [loc[h] EXCEPT !.info = NULO, !.file = s, !.posBlockPadre = u, !.faltan = n]
      OBVIOUS
    <3>3. l.file = s /\ l.posBlockPadre = u
      BY <3>1, <3>2 DEF Local
    <3> QED
      BY <1>5, <3>2, <3>3 DEF Pasar
  <2>2. Vive(s) /\ Punta(s) = {}
    <3>1. "tBloque" \in DeArchivo \ {"marcar"}
      BY DEF DeArchivo
    <3> QED
      BY <1>1, <1>3, <2>1, <3>1, Entra
  <2>3. CountBlocks(Bloque0(s)) > 1
    <3>1. PICK c : c = CountBlocks(Bloque0(s))
      OBVIOUS
    <3>2. Bloque0(s) \in Posiciones
      BY DEF Tipado, Tipos, TipoDisco, Archivo, Bloque0
    <3>3. c \in 0 .. NBloques + 1 /\ c > 0
      <4>1. /\ CountBlocks(Bloque0(s)) \in 0 .. NBloques + 1
            /\ Bloque0(s) # FIN => CountBlocks(Bloque0(s)) > 0
        BY <3>2, CuentaBloques DEF Tipado, Tipos
      <4> QED
        BY <1>2, <3>1, <4>1
    <3>4. msj[h].size \in Nat
      BY EnPaso DEF Tipado, Tipos
    <3>5. c # 1
      <4>1. ASSUME c = 1 PROVE FALSE
        <5>1. n = msj[h].size - 1 /\ msj[h].size > 1
          BY <1>5, <3>1, <3>4, <4>1
        <5>2. HayDisponibles(msj[h].size - 1)
          BY <1>5, <5>1
        <5> QED
          BY <1>1, <3>1, <4>1, <5>1, <5>2 DEF Tropieza
      <4> QED
        BY <4>1
    <3> QED
      BY <3>1, <3>3, <3>5
  <2>4. u \in Suyos(d, s)
    BY <2>2, <2>3, UltimoSuyo DEF Tipado, Tipos
  <2>5. HiloReparte(d, "tBloque", l) /\ Nuevos(h, d, "tBloque", l) /\ "tBloque" # "marcar"
    <3>1. Apartados("tBloque", l) = {} /\ Nuevos(h, d, "tBloque", l)
      BY NadaAparte
    <3> QED
      BY <2>1, <2>4, <3>1 DEF HiloReparte
  <2> QED
    BY <1>1, <1>3, <2>1, <2>5, SigueReparto
<1> QED
  BY <1>2, <1>4, <1>5

\* The blocks of a chain that ends, as getPosBlocks leaves them: of the file, and once.
LEMMA CadenaEntera ==
    ASSUME TipoDisco, NEW d, Reparte(d), NEW s \in Archivos, Vive(s), Punta(s) = {},
           Termina(Bloque0(s)),
           NEW q, q = GetPosBlocks(Bloque0(s), 0, CountBlocks(Bloque0(s)))
    PROVE  ToSet(q) \subseteq Suyos(d, s) /\ IsInjective(q)
<1>1. PICK p \in Posiciones : p = Bloque0(s) /\ p \in Suyos(d, s) \cup {FIN}
  BY Numeros DEF Reparte, ReparteDisco, Suyos, Posiciones
<1>2. PICK c : c = CountBlocks(p)
  OBVIOUS
<1>3. /\ c \in 0 .. NBloques
      /\ \A i \in 0 .. c - 1 : i \in 0 .. NBloques /\ Cadena(p)[i] # FIN
  <2>1. /\ CountBlocks(p) \in 0 .. NBloques
        /\ \A i \in 0 .. CountBlocks(p) - 1 : i \in 0 .. NBloques /\ Cadena(p)[i] # FIN
    BY <1>1, CuentaBloques
  <2> QED
    BY <1>2, <2>1
<1>4. \A i \in 0 .. NBloques : Cadena(p)[i] \in Suyos(d, s) \cup {FIN}
  BY <1>1, CadenaSuya
<1>5. DOMAIN q = 1 .. c - 0 /\ \A i \in 1 .. c - 0 : q[i] = Recorrer(p, 0 + i - 1)
  BY <1>1, <1>2 DEF GetPosBlocks
<1>6. ASSUME NEW i \in DOMAIN q
      PROVE  /\ i \in Nat /\ i - 1 \in 0 .. c - 1
             /\ q[i] = Cadena(p)[i - 1] /\ q[i] \in Suyos(d, s)
  <2>1. i \in Nat /\ i - 1 \in 0 .. c - 1 /\ 0 + i - 1 = i - 1
    BY <1>3, <1>5
  <2>2. PICK k : k = i - 1
    OBVIOUS
  <2>3. k \in 0 .. c - 1
    BY <2>1, <2>2
  <2>4. \A j \in 0 .. k - 1 : j \in 0 .. c - 1
    BY <1>3, <2>3
  <2>5. k \in 0 .. NBloques /\ \A j \in 0 .. k - 1 : Cadena(p)[j] # FIN
    BY <1>3, <2>3, <2>4
  <2>6. Recorrer(p, k) = Cadena(p)[k]
    BY <2>5, RecorrerCadena
  <2>7. Cadena(p)[k] # FIN /\ Cadena(p)[k] \in Suyos(d, s) \cup {FIN}
    BY <1>3, <1>4, <2>3, <2>5
  <2> QED
    BY <1>5, <2>1, <2>2, <2>6, <2>7
<1>7. ASSUME NEW i \in DOMAIN q, NEW j \in DOMAIN q, q[i] = q[j] PROVE i = j
  <2>1. i \in Nat /\ j \in Nat /\ i - 1 \in 0 .. c - 1 /\ j - 1 \in 0 .. c - 1
        /\ q[i] = Cadena(p)[i - 1] /\ q[j] = Cadena(p)[j - 1]
    BY <1>6
  <2>2. PICK k : k = i - 1
    OBVIOUS
  <2>3. PICK m : m = j - 1
    OBVIOUS
  <2>4. k \in 0 .. c - 1 /\ m \in 0 .. c - 1 /\ Cadena(p)[k] = Cadena(p)[m]
    BY <1>7, <2>1, <2>2, <2>3
  <2>5. ~(k < m) /\ ~(m < k)
    BY <1>1, <1>2, <2>4, CadenaInyectiva
  <2>6. k = m
    BY <1>3, <2>4, <2>5
  <2> QED
    BY <2>1, <2>2, <2>3, <2>6
<1>8. IsInjective(q)
  BY <1>7 DEF IsInjective
<1> QED
  BY <1>6, <1>8 DEF ToSet

\* A truncate to less sets apart the blocks after the last one it keeps.
LEMMA AchicarReparto ==
    ASSUME Tipado, Separados', NEW d, Reparte(d), NEW h \in Hilos, ~Tropieza(h),
           TruncarAchicando(h)
    PROVE  Reparto'
<1>1. pc[h] = "truncar" /\ UNCHANGED <<bitmap, tablaAsignacion>>
  BY DEF TruncarAchicando, En
<1>2. PICK s \in {loc[h].info} \cap Archivos :
         LET size == msj[h].size
             c == CountBlocks(Bloque0(s))
             desde == GetPosBlock(s, size)
         IN  /\ Bloque0(s) # FIN /\ Termina(Bloque0(s))
             /\ tablaArchivos' = IF desde = Bloque0(s)
                                   THEN [tablaArchivos EXCEPT ![s].first_block = FIN]
                                   ELSE tablaArchivos
             /\ Pasar(h, IF size < c - size THEN "tLee" ELSE "tFin",
                      [loc[h] EXCEPT !.info = NULO, !.file = s,
                           !.bloques = GetPosBlocks(desde, size, c - size)])
  BY DEF TruncarAchicando, Bloque0
<1>3. PICK size \in Nat : size = msj[h].size
  BY EnPaso DEF Tipado, Tipos
<1>4. PICK c : c = CountBlocks(Bloque0(s))
  OBVIOUS
<1>5. PICK q : q = GetPosBlocks(GetPosBlock(s, size), size, c - size)
  OBVIOUS
<1>6. PICK p \in {"tLee", "tFin"} : p = IF size < c - size THEN "tLee" ELSE "tFin"
  OBVIOUS
<1>7. PICK l : Poner(h, p, l) /\ l.file = s /\ l.bloques = q
  <2>1. loc[h] \in Local
    BY EnPaso DEF Tipado, Tipos
  <2>2. PICK l : l = [loc[h] EXCEPT !.info = NULO, !.file = s, !.bloques = q]
    OBVIOUS
  <2>3. l.file = s /\ l.bloques = q
    BY <2>1, <2>2 DEF Local
  <2> QED
    BY <1>2, <1>3, <1>4, <1>5, <1>6, <2>2, <2>3 DEF Pasar
<1>8. \A t \in Archivos :
         /\ tablaArchivos'[t].state = tablaArchivos[t].state
         /\ tablaArchivos'[t].first_block \in {FIN, tablaArchivos[t].first_block}
         /\ t # s => tablaArchivos'[t].first_block = tablaArchivos[t].first_block
  <2>1. tablaArchivos \in [Archivos -> Archivo]
    BY DEF Tipado, Tipos, TipoDisco
  <2>2. tablaArchivos' = tablaArchivos
        \/ tablaArchivos' = [tablaArchivos EXCEPT ![s].first_block = FIN]
    BY <1>2
  <2>3. CASE tablaArchivos' = tablaArchivos
    BY <2>3
  <2>4. CASE tablaArchivos' = [tablaArchivos EXCEPT ![s].first_block = FIN]
    BY <2>1, <2>4 DEF Archivo
  <2> QED
    BY <2>2, <2>3, <2>4
<1>9. pc[h] \notin Quietos /\ pc[h] \notin DeArchivo /\ p \in DeArchivo \ {"marcar"}
  BY <1>1 DEF Quietos, Extienden, DeArchivo
<1>10. Vive(s) /\ Punta(s) = {} /\ Solo(h, s)
  <2>1. Vive(s) /\ Punta(s) = {} /\ \A g \in Hilos : ~EnArchivo(g, s)
    BY <1>7, <1>8, <1>9, Entra
  <2> QED
    BY <2>1 DEF Solo
<1>11. /\ \A t \in Archivos : Vive(t)' <=> Vive(t)
       /\ \A t \in Archivos : \A b : b \in Punta(t) => b \in Punta(t)'
  BY <1>7, <1>8, <1>9, MismosVivos
<1>12. ReparteDisco(d)
  BY DEF Reparte
<1>13. CASE size > 0
  <2>1. ~(size < c - size)
    BY <1>1, <1>3, <1>4, <1>13 DEF Tropieza
  <2>2. p = "tFin"
    BY <1>6, <2>1
  <2>3. ReparteHilos(d)'
    <3>1. HiloReparte(d, p, l) /\ Nuevos(h, d, p, l)
      BY <2>2, NadaDelicado DEF Delicados
    <3> QED
      BY <1>7, <3>1, PasaHilos DEF Ajeno
  <2>4. ReparteDisco(d)'
    BY <1>1, <1>8, <1>11, <1>12 DEF ReparteDisco, Suyos, Bloque0
  <2> QED
    BY <2>3, <2>4, RepartoPrima DEF Reparte
<1>14. CASE size = 0
  <2>0. Bloque0(s) \in Posiciones
    BY DEF Tipado, Tipos, TipoDisco, Archivo, Bloque0
  <2>1. GetPosBlock(s, size) = Bloque0(s)
    <3>1. EsSenda(Camino(Bloque0(s), 0, {}), tablaAsignacion, Bloque0(s), 0, {})
      BY <2>0, CaminoEs DEF Tipado, Tipos
    <3>2. Camino(Bloque0(s), 0, {})[0] = Bloque0(s)
      BY <3>1 DEF EsSenda
    <3> QED
      BY <1>2, <1>14, <3>2 DEF GetPosBlock, Recorrer, Bloque0
  <2>2. c \in 0 .. NBloques + 1 /\ c > 0
    <3>1. /\ CountBlocks(Bloque0(s)) \in 0 .. NBloques + 1
          /\ Bloque0(s) # FIN => CountBlocks(Bloque0(s)) > 0
      BY <2>0, CuentaBloques DEF Tipado, Tipos
    <3> QED
      BY <1>2, <1>4, <3>1
  <2>3. c - size = c /\ p = "tLee"
    BY <1>6, <1>14, <2>2
  <2>4. ToSet(q) \subseteq Suyos(d, s) /\ IsInjective(q)
    <3>1. q = GetPosBlocks(Bloque0(s), 0, CountBlocks(Bloque0(s)))
      BY <1>4, <1>5, <1>14, <2>1, <2>3
    <3> QED
      BY <1>2, <1>10, <3>1, CadenaEntera DEF Tipado, Tipos
  <2>5. tablaArchivos'[s].first_block = FIN
    <3>1. tablaArchivos' = [tablaArchivos EXCEPT ![s].first_block = FIN]
      BY <1>2, <1>3, <2>1
    <3>2. tablaArchivos \in [Archivos -> Archivo]
      BY DEF Tipado, Tipos, TipoDisco
    <3> QED
      BY <3>1, <3>2 DEF Archivo
  <2>6. PICK e : e = [b \in Bloques |-> IF d[b] # s THEN d[b]
                                        ELSE IF b \in ToSet(q) THEN APARTADO ELSE LIBRE]
    OBVIOUS
  <2>7. /\ e \in Duenios
        /\ \A b \in Bloques : e[b] = IF d[b] # s THEN d[b]
                                     ELSE IF b \in ToSet(q) THEN APARTADO ELSE LIBRE
    BY <1>12, <2>6 DEF ReparteDisco, Duenios
  <2>8. \A t \in Archivos : t # s => Suyos(e, t) = Suyos(d, t)
    BY <2>7, TresDuenios DEF Suyos
  <2>9. \A b \in Bloques : e[b] \in Archivos => e[b] # s /\ e[b] = d[b]
    BY <2>7, TresDuenios
  <2>10. ReparteHilos(e)'
    <3>1. Apartados(p, l) = ToSet(q)
      BY <1>7, <2>3 DEF Apartados
    <3>2. Apartados(p, l) \subseteq Suyos(e, APARTADO)
      BY <2>4, <2>7, <3>1 DEF Suyos
    <3>3. HiloReparte(e, p, l)
      BY <1>7, <2>3, <2>4, <3>2 DEF HiloReparte
    <3>4. Nuevos(h, d, p, l)
      BY <2>4, <3>1, TresDuenios DEF Nuevos, Suyos
    <3>5. Ajeno(h, d, e)
      BY <1>10, <2>7 DEF Ajeno
    <3> QED
      BY <1>7, <3>3, <3>4, <3>5, PasaHilos
  <2>11. ReparteDisco(e)'
    <3>1. \A b \in Bloques : e[b] # LIBRE => b \in bitmap'
      <4>1. s # LIBRE
        BY TresDuenios
      <4> QED
        BY <1>1, <1>12, <2>7, <4>1 DEF ReparteDisco
    <3>2. \A b \in Bloques : e[b] \in Archivos => Vive(e[b])'
      BY <1>11, <1>12, <2>9 DEF ReparteDisco
    <3>3. \A t \in Archivos : Vive(t)' => tablaArchivos'[t].first_block \in Suyos(e, t) \cup {FIN}
      BY <1>8, <1>11, <1>12, <2>5, <2>8 DEF ReparteDisco, Bloque0
    <3>4. ASSUME NEW b \in Bloques, e[b] \in Archivos, b \notin Punta(e[b])'
          PROVE  tablaAsignacion'[b] \in Suyos(e, e[b]) \cup {FIN}
      BY <1>1, <1>11, <1>12, <2>8, <2>9, <3>4 DEF ReparteDisco
    <3> QED
      BY <2>7, <3>1, <3>2, <3>3, <3>4 DEF ReparteDisco, Suyos, Bloque0
  <2> QED
    BY <2>10, <2>11, RepartoPrima DEF Reparte
<1> QED
  BY <1>13, <1>14

\* It reads the byte of the bitmap of one of them,
LEMMA LeeReparto ==
    ASSUME Tipado, NEW d, Reparte(d), NEW h \in Hilos, TruncarLee(h)
    PROVE  Reparte(d)'
<1>1. pc[h] = "tLee" /\ UNCHANGED <<bitmap, tablaAsignacion>> /\ MismosArchivos
  BY DEF TruncarLee, En, disco, MismosArchivos
<1>2. PICK l : Poner(h, "tEscribe", l) /\ l.bloques = loc[h].bloques
  <2>1. loc[h] \in Local
    BY EnPaso DEF Tipado, Tipos
  <2>2. PICK l : l = [loc[h] EXCEPT !.leido = bitmap]
    OBVIOUS
  <2>3. l.bloques = loc[h].bloques
    BY <2>1, <2>2 DEF Local
  <2> QED
    BY <2>2, <2>3 DEF TruncarLee, Pasar
<1>3. Apartados("tEscribe", l) = Apartados(pc[h], loc[h])
  BY <1>1, <1>2 DEF Apartados
<1>4. HiloReparte(d, pc[h], loc[h])
  BY DEF Reparte, ReparteHilos
<1>5. HiloReparte(d, "tEscribe", l) /\ Nuevos(h, d, "tEscribe", l)
  BY <1>1, <1>2, <1>3, <1>4 DEF HiloReparte, Nuevos
<1>6. pc[h] \notin Quietos /\ "tEscribe" # "marcar"
  BY <1>1 DEF Quietos, Extienden
<1> QED
  BY <1>1, <1>2, <1>5, <1>6, SigueReparto

\* The rest of the blocks is again without repetitions.
LEMMA ColaInyectiva ==
    ASSUME NEW S, NEW q \in Seq(S), q # <<>>, IsInjective(q)
    PROVE  /\ Head(q) \in ToSet(q) /\ IsInjective(Tail(q))
           /\ ToSet(Tail(q)) \subseteq ToSet(q) \ {Head(q)}
<1>1. /\ Head(q) = q[1] /\ 1 \in DOMAIN q
      /\ \A i \in DOMAIN Tail(q) : /\ i \in Nat /\ i + 1 \in DOMAIN q /\ i + 1 # 1
                                   /\ Tail(q)[i] = q[i + 1]
  OBVIOUS
<1>2. \A i, j \in DOMAIN q : q[i] = q[j] => i = j
  BY DEF IsInjective
<1>3. IsInjective(Tail(q))
  <2>1. \A i, j \in DOMAIN Tail(q) : Tail(q)[i] = Tail(q)[j] => i + 1 = j + 1
    BY <1>1, <1>2
  <2>2. \A i, j \in Nat : i + 1 = j + 1 => i = j
    OBVIOUS
  <2>3. \A i, j \in DOMAIN Tail(q) : Tail(q)[i] = Tail(q)[j] => i = j
    BY <1>1, <2>1, <2>2
  <2> QED
    BY <2>3 DEF IsInjective
<1> QED
  BY <1>1, <1>2, <1>3 DEF ToSet

\* and writes it with the bit cleared: the block is of nobody.
LEMMA EscribeReparto ==
    ASSUME Tipado, NEW d, Reparte(d), NEW h \in Hilos, ~Tropieza(h), TruncarEscribe(h)
    PROVE  Reparto'
<1>1. pc[h] = "tEscribe" /\ UNCHANGED tablaArchivos
  BY DEF TruncarEscribe, En
<1>2. PICK q \in Seq(Posiciones) : q = loc[h].bloques /\ q # <<>>
  <2>1. Hilo(pc[h], loc[h], msj[h]) /\ loc[h] \in Local
    BY EnPaso DEF Tipado, Tipos
  <2>2. loc[h].bloques # <<>>
    BY <1>1, <2>1 DEF Hilo, Lugar
  <2> QED
    BY <2>1, <2>2 DEF Local
<1>3. IsInjective(q) /\ Apartados(pc[h], loc[h]) = ToSet(q)
  BY <1>1, <1>2 DEF Reparte, ReparteHilos, HiloReparte, Apartados
<1>4. PICK pos : pos = Head(q)
  OBVIOUS
<1>5. PICK r : r = Tail(q)
  OBVIOUS
<1>6. pos \in ToSet(q) /\ IsInjective(r) /\ ToSet(r) \subseteq ToSet(q) \ {pos}
  BY <1>2, <1>3, <1>4, <1>5, ColaInyectiva
<1>7. pos \in Bloques /\ d[pos] = APARTADO
  BY <1>3, <1>6, ApartadosSuyos
<1>8. PICK p \in {"tFin", "tLee"} : p = IF r = <<>> THEN "tFin" ELSE "tLee"
  OBVIOUS
<1>9. PICK l : Poner(h, p, l) /\ l.bloques = r
  <2>1. loc[h] \in Local
    BY EnPaso DEF Tipado, Tipos
  <2>2. PICK l : l = [loc[h] EXCEPT !.bloques = r, !.leido = {}]
    OBVIOUS
  <2>3. l.bloques = r
    BY <2>1, <2>2 DEF Local
  <2> QED
    BY <1>2, <1>5, <1>8, <2>2, <2>3 DEF TruncarEscribe, Pasar
<1>10. bitmap' = bitmap \ {pos}
  BY <1>1, <1>2, <1>4 DEF TruncarEscribe, Tropieza
<1>11. /\ tablaAsignacion'[pos] = FIN
       /\ \A b \in Bloques : b # pos => tablaAsignacion'[b] = tablaAsignacion[b]
  <2>1. tablaAsignacion \in [Posiciones -> Posiciones]
    BY DEF Tipado, Tipos, TipoDisco
  <2>2. tablaAsignacion' = [tablaAsignacion EXCEPT ![pos] = FIN]
    BY <1>2, <1>4 DEF TruncarEscribe, Enlazar
  <2> QED
    BY <1>7, <2>1, <2>2, Numeros
<1>12. ReparteDisco(d)
  BY DEF Reparte
<1>13. PICK e : e = [d EXCEPT ![pos] = LIBRE]
  OBVIOUS
<1>14. /\ e \in Duenios
       /\ e[pos] = LIBRE /\ \A b \in Bloques : b # pos => e[b] = d[b]
  BY <1>7, <1>12, <1>13 DEF ReparteDisco, Duenios
<1>15. \A s \in Archivos : Suyos(e, s) = Suyos(d, s)
  BY <1>7, <1>14, TresDuenios DEF Suyos
<1>16. \A b \in Bloques : e[b] \in Archivos => b # pos /\ e[b] = d[b]
  BY <1>14, TresDuenios
<1>17. ReparteHilos(e)'
  <2>1. Apartados(p, l) \subseteq ToSet(r)
    BY <1>9 DEF Apartados
  <2>2. Apartados(p, l) \subseteq Suyos(e, APARTADO)
    <3>1. ASSUME NEW b \in ToSet(r) PROVE b \in Suyos(e, APARTADO)
      <4>1. b \in Bloques /\ d[b] = APARTADO
        BY <1>3, <1>6, ApartadosSuyos
      <4> QED
        BY <1>6, <1>14, <4>1 DEF Suyos
    <3> QED
      BY <2>1, <3>1
  <2>3. HiloReparte(e, p, l)
    BY <1>6, <1>9, <2>2 DEF HiloReparte
  <2>4. Nuevos(h, d, p, l)
    BY <1>3, <1>6, <2>1 DEF Nuevos
  <2>5. Ajeno(h, d, e)
    BY <1>3, <1>6, <1>14 DEF Ajeno
  <2> QED
    BY <1>9, <2>3, <2>4, <2>5, PasaHilos
<1>18. /\ \A s \in Archivos : Vive(s)' <=> Vive(s)
       /\ \A s \in Archivos : \A b : b \in Punta(s) => b \in Punta(s)'
  <2>1. pc[h] \notin Quietos /\ p # "marcar"
    BY <1>1 DEF Quietos, Extienden
  <2> QED
    BY <1>1, <1>9, <2>1, MismosVivos
<1>19. ReparteDisco(e)'
  <2>1. \A b \in Bloques : e[b] # LIBRE => b \in bitmap'
    BY <1>10, <1>12, <1>14 DEF ReparteDisco
  <2>2. \A b \in Bloques : e[b] \in Archivos => Vive(e[b])'
    BY <1>12, <1>16, <1>18 DEF ReparteDisco
  <2>3. \A s \in Archivos : Vive(s)' => tablaArchivos'[s].first_block \in Suyos(e, s) \cup {FIN}
    BY <1>1, <1>12, <1>15, <1>18 DEF ReparteDisco, Bloque0
  <2>4. ASSUME NEW b \in Bloques, e[b] \in Archivos, b \notin Punta(e[b])'
        PROVE  tablaAsignacion'[b] \in Suyos(e, e[b]) \cup {FIN}
    BY <1>11, <1>12, <1>15, <1>16, <1>18, <2>4 DEF ReparteDisco
  <2> QED
    BY <1>14, <2>1, <2>2, <2>3, <2>4 DEF ReparteDisco, Suyos, Bloque0
<1> QED
  BY <1>17, <1>19, RepartoPrima DEF Reparte
-----------------------------------------------------------------------------
(***************************************************************************)
(* The blocks are shared out until a thread slips.                         *)
(***************************************************************************)
LEMMA InitReparto == Init => Separados /\ Reparto
<1> SUFFICES ASSUME Init PROVE Separados /\ Reparto
  OBVIOUS
<1>1. PICK d : d = [b \in Bloques |-> LIBRE]
  OBVIOUS
<1>2. d \in Duenios /\ \A b \in Bloques : d[b] = LIBRE
  BY <1>1 DEF Duenios
<1>3. \A s \in Archivos : ~Vive(s)
  BY DEF Init, InitServidor, Vacio, Vive
<1>4. \A h \in Hilos : pc[h] = "fuera"
  BY DEF Init, InitServidor
<1>5. ReparteDisco(d)
  BY <1>2, <1>3, TresDuenios DEF ReparteDisco
<1>6. ReparteHilos(d)
  <2>1. \A h \in Hilos : \A l : Apartados(pc[h], l) = {} /\ HiloReparte(d, pc[h], l)
    BY <1>4, NadaAparte, NadaDelicado DEF Delicados
  <2> QED
    BY <2>1 DEF ReparteHilos
<1>7. Separados
  BY <1>4 DEF Separados, EnArchivo, DeArchivo
<1> QED
  BY <1>5, <1>6, <1>7, RepartoEs DEF Reparte

\* The thread leaves its place in the steps that may slip.
LEMMA Cambia ==
    ASSUME Tipado, NEW h \in Hilos,
           \/ Ubicar(h) \/ ReservarSiguiente(h) \/ EnlazarUltimo(h) \/ Borrar(h)
           \/ ReservarTruncado(h) \/ TruncarCreciendo(h) \/ TruncarAchicando(h)
           \/ TruncarEscribe(h) \/ TruncarTamanio(h)
    PROVE  pc'[h] # pc[h]
<1>1. ASSUME NEW p, NEW l, Poner(h, p, l), p # pc[h] PROVE pc'[h] # pc[h]
  BY <1>1, PonerEs
<1>2. CASE Ubicar(h)
  BY <1>1, <1>2 DEF Ubicar, En, Pasar
<1>3. CASE ReservarSiguiente(h) \/ EnlazarUltimo(h) \/ Borrar(h) \/ ReservarTruncado(h)
  BY <1>1, <1>3 DEF ReservarSiguiente, EnlazarUltimo, Borrar, ReservarTruncado, En, Ir, Pasar
<1>4. CASE TruncarCreciendo(h)
  BY <1>1, <1>4 DEF TruncarCreciendo, En, Pasar, Responder
<1>5. CASE TruncarAchicando(h)
  BY <1>1, <1>5 DEF TruncarAchicando, En, Pasar
<1>6. CASE TruncarEscribe(h)
  BY <1>1, <1>6 DEF TruncarEscribe, En, Pasar
<1>7. CASE TruncarTamanio(h)
  BY <1>1, <1>7 DEF TruncarTamanio, En, Responder
<1> QED
  BY <1>2, <1>3, <1>4, <1>5, <1>6, <1>7

\* Every one of the steps that touch blocks keeps the owners, the old ones or new ones.
LEMMA EspecialReparto ==
    ASSUME Tipado, Separados, ~Resbala, NEW d, Reparte(d), NEW h \in Hilos, Especial(h)
    PROVE  Reparto'
<1>0. Separados' /\ (pc'[h] # pc[h] => ~Tropieza(h))
  BY DEF Resbala
<1>1. CASE AsignarEnTablaDeArchivos(h)
  BY <1>1, AsignarReparto, RepartoPrima
<1>2. CASE ReservarPrimero(h) \/ SumarBloque(h)
  BY <1>2, PrimeroReparto, SumarReparto
<1>3. CASE ReservarSiguiente(h) \/ EnlazarUltimo(h) \/ ReservarTruncado(h)
  <2>1. ~Tropieza(h)
    BY <1>0, <1>3, Cambia
  <2> QED
    BY <1>3, <2>1, SiguienteReparto, EnlazarReparto, TruncadoReparto
<1>4. CASE LockearEscritura(h) \/ CopiarPrimero(h) \/ CerrarCadena(h) \/ TruncarLee(h)
  BY <1>4, CopiarReparto, CerrarReparto, LeeReparto, RepartoPrima
<1>5. CASE Ubicar(h) \/ Borrar(h)
  <2>1. ~Tropieza(h)
    BY <1>0, <1>5, Cambia
  <2> QED
    BY <1>0, <1>5, <2>1, UbicarReparto, BorrarReparto, RepartoPrima
<1>6. CASE TruncarTamanio(h) /\ pc[h] = "tBloque"
  <2>1. ~Tropieza(h)
    BY <1>0, <1>6, Cambia
  <2> QED
    BY <1>6, <2>1, TamanioReparto, RepartoPrima
<1>7. CASE TruncarCreciendo(h) \/ TruncarAchicando(h) \/ TruncarEscribe(h)
  <2>1. ~Tropieza(h)
    BY <1>0, <1>7, Cambia
  <2> QED
    BY <1>0, <1>7, <2>1, CrecerReparto, AchicarReparto, EscribeReparto, RepartoPrima
<1>8. CASE LiberarBloques(h) \/ Marcar(h)
  BY <1>8, LiberarReparto, MarcarReparto, RepartoPrima
<1>9. CASE En(h, "listar") /\ Ir(h, "marcar") /\ UNCHANGED disco
  BY <1>0, <1>9, ListarReparto
<1> QED
  BY <1>1, <1>2, <1>3, <1>4, <1>5, <1>6, <1>7, <1>8, <1>9 DEF Especial

\* Accepting and receiving leave the disk alone, and the threads without a file.
Afuera(h) == /\ pc[h] \notin Quietos /\ UNCHANGED disco
             /\ \E p \in Etapas \ DeArchivo : \E l : Poner(h, p, l)

LEMMA AfueraSuave == ASSUME NEW h \in Hilos, Afuera(h) PROVE Suave(h)
<1>1. Etapas \ DeArchivo \subseteq Etapas \ (Delicados \cup {"marcar"})
  BY DEF DeArchivo, Delicados
<1>2. UNCHANGED <<bitmap, tablaAsignacion>> /\ MismosArchivos
  BY MismoDisco DEF Afuera
<1> QED
  BY <1>1, <1>2 DEF Afuera, Suave

\* Steps of the clients and of the thread that accepts.
LEMMA Fuera ==
    ASSUME Tipado, NEW h \in Hilos, Aceptar(h) \/ RecibirPedido(h) \/ RecibirNulo(h)
    PROVE  Afuera(h) \/ Caer
<1>1. CASE Aceptar(h)
  <2>1. pc[h] = "fuera" /\ UNCHANGED disco /\ Poner(h, "recibir", loc[h])
    BY <1>1 DEF Aceptar, En, Ir, Pasar
  <2>2. "fuera" \notin Quietos /\ "recibir" \in Etapas \ DeArchivo
    BY DEF Quietos, Extienden, Etapas, DeArchivo
  <2> QED
    BY <2>1, <2>2 DEF Afuera
<1>2. CASE RecibirNulo(h)
  <2>1. pc[h] = "recibir" /\ (Caer \/ (UNCHANGED disco /\ Poner(h, "fin", loc[h])))
    BY <1>2 DEF RecibirNulo, Desconectar, En, Ir, Pasar
  <2>2. "recibir" \notin Quietos /\ "fin" \in Etapas \ DeArchivo
    BY DEF Quietos, Extienden, Etapas, DeArchivo
  <2> QED
    BY <2>1, <2>2 DEF Afuera
<1>3. CASE RecibirPedido(h)
  <2>1. Recibir(h, pedido[h]) /\ pedido[h] \in Mensaje
    BY <1>3 DEF RecibirPedido, Tipado, TipoClientes
  <2>2. pc[h] \notin Quietos /\ UNCHANGED disco
    BY <2>1 DEF Recibir, En, Quietos, Extienden
  <2> DEFINE m == pedido[h]
             p == Entrada(m.accion)
  <2>3. p \in Buscables
    <3>1. m.accion \in Acciones
      BY <2>1 DEF Mensaje
    <3> QED
      BY <3>1 DEF Acciones, Entrada, Buscables
  <2>4. Responder(h, "EPERM") \/ \E l : Poner(h, Salto(RutaBuscada(m), p), l)
    BY <2>1 DEF Recibir
  <2>5. Salto(RutaBuscada(m), p) \in Etapas \ DeArchivo
    BY <2>3 DEF Salto, Etapas, Buscables, DeArchivo
  <2> HIDE DEF m, p
  <2>6. CASE Responder(h, "EPERM")
    BY <2>2, <2>6 DEF Afuera, Responder, Etapas, DeArchivo
  <2>7. CASE \E l : Poner(h, Salto(RutaBuscada(m), p), l)
    BY <2>2, <2>5, <2>7 DEF Afuera
  <2> QED
    BY <2>4, <2>6, <2>7
<1> QED
  BY <1>1, <1>2, <1>3

\* The death of the server.
LEMMA CaerReparto == ASSUME NEW d, Reparte(d), Caer PROVE Reparte(d)'
<1>1. UNCHANGED <<disco, pc, loc>>
  BY DEF Caer
<1> QED
  BY <1>1, IgualReparto

\* A step in which no request is attended.
LEMMA FueraReparto ==
    ASSUME Tipado, [Next]_todo, \A h \in Hilos : ~AtenderPedido(h)
    PROVE  /\ Reparto => Reparto'
           /\ Separados => Separados'
           /\ tropezo' = tropezo
<1>1. ASSUME UNCHANGED <<disco, pc, loc>>
      PROVE  (Reparto => Reparto') /\ (Separados => Separados')
  <2>1. Reparto => Reparto'
    BY <1>1, IgualReparto, RepartoPrima DEF Reparto
  <2>2. Separados => Separados'
    BY <1>1 DEF Separados, EnArchivo, disco
  <2> QED
    BY <2>1, <2>2
<1>2. ASSUME NEW h \in Hilos, Afuera(h) PROVE (Reparto => Reparto') /\ (Separados => Separados')
  <2>1. Reparto => Reparto'
    BY <1>2, AfueraSuave, SuaveReparto, RepartoPrima DEF Reparto
  <2>2. PICK p \in Etapas \ DeArchivo : \E l : Poner(h, p, l)
    BY <1>2 DEF Afuera
  <2>3. PICK l : Poner(h, p, l)
    BY <2>2
  <2>4. /\ pc'[h] = p
        /\ \A g \in Hilos : g # h => pc'[g] = pc[g] /\ loc'[g] = loc[g]
    BY <2>3, PonerEs
  <2>5. \A g \in Hilos, s \in Archivos : EnArchivo(g, s)' => EnArchivo(g, s)
    BY <2>4 DEF EnArchivo
  <2>6. tablaArchivos' = tablaArchivos
    BY <1>2 DEF Afuera, disco
  <2>7. Separados => Separados'
    BY <2>5, <2>6 DEF Separados
  <2> QED
    BY <2>1, <2>7
<1>3. UNCHANGED todo => UNCHANGED <<disco, pc, loc>> /\ tropezo' = tropezo
  BY DEF todo, vars, clientes
<1>4. ASSUME NEW h \in Hilos, Llamar(h) \/ Retornar(h) \/ RetornarSinServidor(h) \/ Morir(h)
      PROVE  UNCHANGED <<disco, pc, loc>> /\ tropezo' = tropezo
  BY <1>4 DEF Llamar, Retornar, RetornarSinServidor, Morir, vars
<1>5. ASSUME NEW h \in Hilos,
             (Aceptar(h) /\ UNCHANGED clientes) \/ RecibirPedido(h) \/ RecibirNulo(h)
      PROVE  (Afuera(h) \/ UNCHANGED <<disco, pc, loc>>) /\ tropezo' = tropezo
  <2>1. Afuera(h) \/ Caer
    BY <1>5, Fuera
  <2>2. tropezo' = tropezo
    BY <1>5 DEF RecibirPedido, RecibirNulo, clientes
  <2> QED
    BY <2>1, <2>2 DEF Caer
<1> QED
  BY <1>1, <1>2, <1>3, <1>4, <1>5 DEF Next

\* Every step that is no slip keeps the blocks shared out.
LEMMA PasoReparto ==
    ASSUME Tipado, Separados, ~Resbala, Reparto, [Next]_todo
    PROVE  Reparto'
<1>1. PICK d : Reparte(d)
  BY DEF Reparto
<1>2. ASSUME NEW h \in Hilos, AtenderPedido(h)
      PROVE  Reparto'
  <2>1. Atender(h)
    BY <1>2 DEF AtenderPedido
  <2>2. CASE Especial(h)
    BY <1>1, <2>2, EspecialReparto
  <2>3. CASE ~Especial(h)
    BY <1>1, <2>1, <2>3, AtenderSuave, SuaveReparto, CaerReparto, RepartoPrima
  <2> QED
    BY <2>2, <2>3
<1> QED
  BY <1>2, FueraReparto

\* The blocks of the disk begin shared out among the files, and a step in which no thread slips
\* keeps them so: no order of the steps of writeFile, truncateFile, deleteFile and renameFile
\* gives a block to two files, links a file to a block of another or releases a block that
\* another has.
THEOREM SpecRepartoConCuidado == Spec => RepartoConCuidado
<1>1. Tipado /\ [Next]_todo => [~Resbala /\ Separados /\ Reparto => Reparto']_<<disco, pc, loc>>
  BY PasoReparto
<1> QED
  BY <1>1, InitReparto, SpecTipado, PTL DEF Spec, RepartoConCuidado

\* The inductive invariant: no thread has slipped, and then all is in order.
Ordenado == ~tropezo => Separados /\ Reparto

\* Every step keeps it, and one after which nobody has slipped began in order.
LEMMA PasoOrdenado ==
    ASSUME Tipado, Ordenado, [Next]_todo
    PROVE  Ordenado' /\ (~tropezo' => ~tropezo /\ Separados /\ Reparto)
<1> SUFFICES ASSUME ~tropezo' PROVE ~tropezo /\ Separados /\ Reparto /\ Separados' /\ Reparto'
  BY DEF Ordenado
<1>1. ASSUME NEW h \in Hilos, AtenderPedido(h) PROVE ~tropezo /\ ~Resbala
  BY <1>1, Zenon DEF AtenderPedido
<1>2. CASE \E h \in Hilos : AtenderPedido(h)
  <2>1. ~tropezo /\ ~Resbala
    BY <1>1, <1>2
  <2>2. Separados /\ Reparto /\ Separados'
    BY <2>1 DEF Ordenado, Resbala
  <2> QED
    BY <2>1, <2>2, PasoReparto
<1>3. CASE \A h \in Hilos : ~AtenderPedido(h)
  BY <1>3, FueraReparto DEF Ordenado
<1> QED
  BY <1>2, <1>3

\* It holds in every state of every history: until the first slip.
LEMMA SpecOrdenado == Spec => []Ordenado
<1>1. Init => Ordenado
  BY InitReparto DEF Ordenado
<1>2. Tipado /\ Ordenado /\ [Next]_todo => Ordenado'
  BY PasoOrdenado
<1> QED
  BY <1>1, <1>2, SpecTipado, PTL DEF Spec

\* Until a thread slips no block is in the chains of two files, although writeFile reserves a
\* block (326) before it finds where to link it (328) and deletes and truncates release chains
\* (399, 583-596) in between: for any clients, files, requests, disk and memory before it.
THEOREM SpecSinCompartir == Spec => []SinCompartir
<1>1. Tipado /\ Ordenado => SinCompartir
  BY RepartoVale DEF Ordenado, SinCompartir
<1> QED
  BY <1>1, SpecTipado, SpecOrdenado, PTL

\* Until a thread slips every block of the chain of a file is marked in the bitmap, so that
\* getPosLibreBitmap (704) gives it to nobody: neither a delete nor a truncate, that clear the
\* bits one by one, clears one of another file or one that stays in its chain.
THEOREM SpecCadenaOcupada == Spec => []CadenaOcupada
<1>1. Tipado /\ Ordenado => CadenaOcupada
  BY RepartoVale DEF Ordenado, CadenaOcupada
<1> QED
  BY <1>1, SpecTipado, SpecOrdenado, PTL
-----------------------------------------------------------------------------
(***************************************************************************)
(* A file that no thread works on keeps its chain.                         *)
(***************************************************************************)
\* Its first block and the links of its blocks stay.
Intacto(d, s) ==
    /\ tablaArchivos'[s].first_block = tablaArchivos[s].first_block
    /\ \A b \in Suyos(d, s) : tablaAsignacion'[b] = tablaAsignacion[b]

\* A step that changes no link and no first block.
LEMMA MismoIntacto ==
    ASSUME NEW d, NEW s \in Archivos, MismosArchivos, UNCHANGED tablaAsignacion
    PROVE  Intacto(d, s)
  BY DEF MismosArchivos, Intacto

\* The links of the blocks of others may change.
LEMMA AjenoIntacto ==
    ASSUME Tipado, NEW d, Reparte(d), NEW s \in Archivos, NEW t, NEW q,
           t \in Posiciones => t \notin Suyos(d, s),
           tablaAsignacion' = [tablaAsignacion EXCEPT ![t] = q]
    PROVE  \A b \in Suyos(d, s) : tablaAsignacion'[b] = tablaAsignacion[b]
<1>1. tablaAsignacion \in [Posiciones -> Posiciones]
  BY DEF Tipado, Tipos, TipoDisco
<1>2. Suyos(d, s) \subseteq Posiciones
  BY Numeros DEF Suyos
<1> QED
  BY <1>1, <1>2

\* Each of the steps that touch blocks leaves alone the files of the others.
LEMMA EspecialIntacto ==
    ASSUME Tipado, Separados, ~Resbala, NEW d, Reparte(d), NEW s \in Archivos, Vive(s),
           \A g \in Hilos : ~EnArchivo(g, s) /\ ~EnArchivo(g, s)', NEW h \in Hilos, Especial(h)
    PROVE  Intacto(d, s)
<1>0. tablaArchivos \in [Archivos -> Archivo]
  BY DEF Tipado, Tipos, TipoDisco
<1>1. pc[h] \in DeArchivo => /\ loc[h].file \in Archivos /\ loc[h].file # s
                             /\ Solo(h, loc[h].file)
  BY SoloTrabaja DEF EnArchivo
<1>2. ReparteDisco(d) /\ ReparteHilos(d) /\ FIN \notin Bloques
  BY Numeros DEF Reparte
<1>3. pc'[h] # pc[h] => ~Tropieza(h)
  BY DEF Resbala
<1>4. CASE AsignarEnTablaDeArchivos(h)
  <2>1. PICK f \in Archivos : f = Min(Borrados) /\ tablaArchivos[f].state = "DELETED"
    BY <1>4, MinBorrados DEF AsignarEnTablaDeArchivos
  <2>2. f # s /\ UNCHANGED tablaAsignacion
    BY <1>4, <2>1 DEF AsignarEnTablaDeArchivos, Vive
  <2>3. PICK r : tablaArchivos' = [tablaArchivos EXCEPT ![f] = r]
    BY <1>4, <2>1 DEF AsignarEnTablaDeArchivos
  <2> QED
    BY <1>0, <2>2, <2>3 DEF Intacto
<1>5. CASE ReservarPrimero(h) \/ ReservarTruncado(h)
  <2>1. PICK f \in Archivos : f = loc[h].file /\ f # s
    BY <1>1, <1>5 DEF ReservarPrimero, ReservarTruncado, En, DeArchivo
  <2>2. PICK pos \in Posiciones : pos = PosLibre
    BY PosLibreTipo
  <2>3. /\ tablaArchivos' = [tablaArchivos EXCEPT ![f].first_block = pos]
        /\ \/ UNCHANGED tablaAsignacion
           \/ tablaAsignacion' = [tablaAsignacion EXCEPT ![pos] = FIN]
    BY <1>5, <2>1, <2>2 DEF ReservarPrimero, ReservarTruncado, Enlazar
  <2>4. tablaArchivos'[s].first_block = tablaArchivos[s].first_block
    BY <1>0, <2>1, <2>3
  <2>5. pos \notin Suyos(d, s)
    BY <1>2, <2>2, PosLibreTipo, TresDuenios DEF ReparteDisco, Suyos
  <2>6. \A b \in Suyos(d, s) : tablaAsignacion'[b] = tablaAsignacion[b]
    BY <2>3, <2>5, AjenoIntacto
  <2> QED
    BY <2>4, <2>6 DEF Intacto
<1>6. CASE EnlazarUltimo(h)
  <2>1. pc[h] = "enlazar" /\ UNCHANGED tablaArchivos /\ ~Tropieza(h)
    BY <1>3, <1>6, Cambia DEF EnlazarUltimo, En
  <2>2. PICK f \in Archivos : f = loc[h].file /\ f # s /\ Vive(f) /\ Solo(h, f)
    BY <1>1, <2>1, SoloTrabaja DEF DeArchivo
  <2>3. PICK pos \in Bloques : pos = loc[h].posBlockPadre /\ d[pos] = APARTADO
    <3>1. loc[h].posBlockPadre \in Apartados(pc[h], loc[h])
      BY <2>1 DEF Apartados
    <3> QED
      BY <3>1, ApartadosSuyos
  <2>4. PICK u \in UltPosBlock(Bloque0(f)) :
           tablaAsignacion' = [tablaAsignacion EXCEPT ![u] = pos, ![pos] = FIN]
    BY <1>6, <2>2, <2>3 DEF EnlazarUltimo, Bloque0
  <2>5. u \in Suyos(d, f)
    <3>1. Punta(f) = {}
      BY <2>1, <2>2, SoloPunta DEF Extienden
    <3>2. CountBlocks(Bloque0(f)) > 1
      <4>1. CountBlocks(Bloque0(f)) \in 0 .. NBloques + 1
        BY <2>2, CountBlocksTipo DEF Tipado, Tipos, TipoDisco, Archivo, Bloque0
      <4>2. ~(CountBlocks(Bloque0(f)) <= 1)
        BY <2>1, <2>2 DEF Tropieza
      <4> QED
        BY <4>1, <4>2
    <3> QED
      BY <2>2, <3>1, <3>2, UltimoSuyo DEF Tipado, Tipos
  <2>6. u \notin Suyos(d, s) /\ pos \notin Suyos(d, s)
    BY <2>2, <2>3, <2>5, TresDuenios DEF Suyos
  <2>7. \A b \in Suyos(d, s) : tablaAsignacion'[b] = tablaAsignacion[b]
    <3>1. tablaAsignacion \in [Posiciones -> Posiciones] /\ Suyos(d, s) \subseteq Posiciones
      BY Numeros DEF Tipado, Tipos, TipoDisco, Suyos
    <3> QED
      BY <2>4, <2>6, <3>1
  <2> QED
    BY <2>1, <2>7 DEF Intacto
<1>7. CASE SumarBloque(h) \/ CerrarCadena(h)
  <2>1. pc[h] \in Extienden /\ UNCHANGED tablaArchivos
    BY <1>7 DEF SumarBloque, CerrarCadena, En, Extienden
  <2>2. PICK f \in Archivos, u \in Bloques :
           /\ f = loc[h].file /\ u = loc[h].posBlockPadre /\ d[u] = f
           /\ Vive(f) /\ Solo(h, f) /\ Punta(f) = {u}
    BY <2>1, EnBloque
  <2>3. u \notin Suyos(d, s)
    BY <1>1, <2>1, <2>2 DEF Suyos, DeArchivo, Extienden
  <2>4. \/ UNCHANGED tablaAsignacion
        \/ \E q : tablaAsignacion' = [tablaAsignacion EXCEPT ![u] = q]
    <3>1. CASE SumarBloque(h)
      <4>1. PICK l : l = [loc[h] EXCEPT !.faltan = @ - 1]
        OBVIOUS
      <4>2. l.posBlockPadre = u
        <5>1. loc[h] \in Local
          BY EnPaso DEF Tipado, Tipos
        <5> QED
          BY <2>2, <4>1, <5>1 DEF Local
      <4>3. UNCHANGED tablaAsignacion \/ Enlazar(l.posBlockPadre, PosLibre)
        BY <3>1, <4>1 DEF SumarBloque
      <4> QED
        BY <4>2, <4>3 DEF Enlazar
    <3>2. CASE CerrarCadena(h)
      BY <2>2, <3>2 DEF CerrarCadena, Enlazar
    <3> QED
      BY <1>7, <3>1, <3>2
  <2>5. \A b \in Suyos(d, s) : tablaAsignacion'[b] = tablaAsignacion[b]
    BY <2>3, <2>4, AjenoIntacto
  <2> QED
    BY <2>1, <2>5 DEF Intacto
<1>8. CASE Marcar(h) \/ TruncarTamanio(h)
  <2>1. UNCHANGED tablaAsignacion
        /\ \/ tablaArchivos' = [tablaArchivos EXCEPT ![loc[h].file].state = "DELETED"]
           \/ tablaArchivos' = [tablaArchivos EXCEPT ![loc[h].file].file_size = msj[h].size]
    BY <1>8 DEF Marcar, TruncarTamanio
  <2>2. tablaArchivos'[s].first_block = tablaArchivos[s].first_block
    <3>1. CASE tablaArchivos' = [tablaArchivos EXCEPT ![loc[h].file].state = "DELETED"]
      BY <1>0, <3>1 DEF Archivo
    <3>2. CASE tablaArchivos' = [tablaArchivos EXCEPT ![loc[h].file].file_size = msj[h].size]
      BY <1>0, <3>2 DEF Archivo
    <3> QED
      BY <2>1, <3>1, <3>2
  <2> QED
    BY <2>1, <2>2 DEF Intacto
<1>9. CASE \/ Ubicar(h) \/ LockearEscritura(h) \/ CopiarPrimero(h) \/ Borrar(h)
           \/ TruncarCreciendo(h) \/ TruncarLee(h)
           \/ En(h, "listar") /\ Ir(h, "marcar") /\ UNCHANGED disco
  <2>1. UNCHANGED disco
    BY <1>9 DEF Ubicar, LockearEscritura, CopiarPrimero, Borrar, TruncarCreciendo, TruncarLee
  <2> QED
    BY <2>1, MismoDisco, MismoIntacto
<1>10. CASE ReservarSiguiente(h) \/ LiberarBloques(h)
  BY <1>10 DEF ReservarSiguiente, LiberarBloques, Intacto
<1>11. CASE TruncarEscribe(h)
  <2>1. pc[h] = "tEscribe" /\ UNCHANGED tablaArchivos
    BY <1>11 DEF TruncarEscribe, En
  <2>2. PICK q \in Seq(Posiciones) : q = loc[h].bloques /\ q # <<>>
    <3>1. Hilo(pc[h], loc[h], msj[h]) /\ loc[h] \in Local
      BY EnPaso DEF Tipado, Tipos
    <3>2. loc[h].bloques # <<>>
      BY <2>1, <3>1 DEF Hilo, Lugar
    <3> QED
      BY <3>1, <3>2 DEF Local
  <2>3. Head(q) \in Apartados(pc[h], loc[h])
    <3>1. Head(q) = q[1] /\ 1 \in DOMAIN q
      BY <2>2
    <3>2. Head(q) \in ToSet(q)
      BY <3>1 DEF ToSet
    <3> QED
      BY <2>1, <2>2, <3>2 DEF Apartados
  <2>4. Head(q) \notin Suyos(d, s)
    BY <2>3, ApartadosSuyos, TresDuenios DEF Suyos
  <2>5. tablaAsignacion' = [tablaAsignacion EXCEPT ![Head(q)] = FIN]
    BY <1>11, <2>2 DEF TruncarEscribe, Enlazar
  <2>6. \A b \in Suyos(d, s) : tablaAsignacion'[b] = tablaAsignacion[b]
    BY <2>4, <2>5, AjenoIntacto
  <2> QED
    BY <2>1, <2>6 DEF Intacto
<1>12. CASE TruncarAchicando(h)
  <2>1. PICK f \in {loc[h].info} \cap Archivos :
           /\ tablaArchivos' = tablaArchivos
              \/ tablaArchivos' = [tablaArchivos EXCEPT ![f].first_block = FIN]
           /\ \E p \in {"tLee", "tFin"} : \E q :
                 Pasar(h, p, [loc[h] EXCEPT !.info = NULO, !.file = f, !.bloques = q])
    BY <1>12 DEF TruncarAchicando
  <2>2. f # s
    <3>0. PICK p \in {"tLee", "tFin"} : \E q :
             Pasar(h, p, [loc[h] EXCEPT !.info = NULO, !.file = f, !.bloques = q])
      BY <2>1
    <3>1. PICK q : Pasar(h, p, [loc[h] EXCEPT !.info = NULO, !.file = f, !.bloques = q])
      BY <3>0
    <3>2. PICK l : l = [loc[h] EXCEPT !.info = NULO, !.file = f, !.bloques = q]
      OBVIOUS
    <3>3. l.file = f
      <4>1. loc[h] \in Local
        BY EnPaso DEF Tipado, Tipos
      <4> QED
        BY <3>2, <4>1 DEF Local
    <3>4. pc'[h] = p /\ loc'[h] = l
      BY <3>1, <3>2, PonerEs DEF Pasar
    <3>5. EnArchivo(h, f)'
      BY <3>3, <3>4 DEF EnArchivo, DeArchivo
    <3> QED
      BY <3>5
  <2>3. tablaArchivos'[s].first_block = tablaArchivos[s].first_block
    <3>1. CASE tablaArchivos' = tablaArchivos
      BY <3>1
    <3>2. CASE tablaArchivos' = [tablaArchivos EXCEPT ![f].first_block = FIN]
      BY <1>0, <2>2, <3>2
    <3> QED
      BY <2>1, <3>1, <3>2
  <2> QED
    BY <1>12, <2>3 DEF TruncarAchicando, Intacto
<1> QED
  BY <1>4, <1>5, <1>6, <1>7, <1>8, <1>9, <1>10, <1>11, <1>12 DEF Especial

\* No step of the others touches it.
LEMMA PasoIntacto ==
    ASSUME Tipado, Separados, ~Resbala, NEW d, Reparte(d), NEW s \in Archivos, Vive(s),
           \A g \in Hilos : ~EnArchivo(g, s) /\ ~EnArchivo(g, s)',
           NEW h \in Hilos, AtenderPedido(h)
    PROVE  Intacto(d, s)
<1>1. CASE Suave(h)
  BY <1>1, MismoIntacto DEF Suave
<1>2. CASE Caer
  BY <1>2, MismoDisco, MismoIntacto DEF Caer
<1>3. Atender(h)
  BY DEF AtenderPedido
<1> QED
  BY <1>1, <1>2, <1>3, AtenderSuave, EspecialIntacto

\* Nor does a step in which no request is attended.
LEMMA FueraIntacto ==
    ASSUME Tipado, [Next]_todo, \A h \in Hilos : ~AtenderPedido(h), NEW d, NEW s \in Archivos
    PROVE  Intacto(d, s)
<1>1. CASE UNCHANGED disco
  BY <1>1, MismoDisco, MismoIntacto
<1>2. ASSUME NEW h \in Hilos, Llamar(h) \/ Retornar(h) \/ RetornarSinServidor(h) \/ Morir(h)
      PROVE  UNCHANGED disco
  BY <1>2 DEF Llamar, Retornar, RetornarSinServidor, Morir, vars
<1>3. ASSUME NEW h \in Hilos, Aceptar(h) \/ RecibirPedido(h) \/ RecibirNulo(h)
      PROVE  UNCHANGED disco
  BY <1>3, Fuera DEF Afuera, Caer
<1>4. UNCHANGED todo => UNCHANGED disco
  BY DEF todo, vars
<1> QED
  BY <1>1, <1>2, <1>3, <1>4 DEF Next

\* The chain of such a file is the same function of the position.
LEMMA CadenaIntacta ==
    ASSUME Tipado, Tipado', NEW d, Reparte(d), NEW s \in Archivos, Vive(s), Intacto(d, s),
           Punta(s) = {}, Punta(s)' = {}
    PROVE  CadenaDe(s)' = CadenaDe(s)
<1>1. PICK p \in Posiciones : p = Bloque0(s) /\ p \in Suyos(d, s) \cup {FIN}
  BY Numeros DEF Reparte, ReparteDisco, Suyos, Posiciones
<1>2. PICK f : f = CadenaDe(s)
  OBVIOUS
<1>3. PICK g : g = CadenaDe(s)'
  OBVIOUS
<1>4. NBloques \in Nat
  BY Numeros
<1>0. p = Bloque0(s)'
  BY <1>1 DEF Bloque0, Intacto
<1>5. EsSenda(f, tablaAsignacion, p, NBloques, {FIN}) /\ f = Cadena(p)
  <2>1. f = Cadena(p)
    BY <1>1, <1>2 DEF CadenaDe, Cadena
  <2> QED
    BY <2>1, CadenaEs DEF Tipado, Tipos
<1>6. EsSenda(g, tablaAsignacion', p, NBloques, {FIN})
  <2>1. tablaAsignacion' \in [Posiciones -> Posiciones]
    BY DEF Tipado, Tipos, TipoDisco
  <2>2. g = Senda(tablaAsignacion', p, NBloques, {FIN})
    BY <1>0, <1>3 DEF CadenaDe, Camino, Senda
  <2> QED
    BY <1>4, <2>1, <2>2, SendaEs
<1>7. \A i \in 0 .. NBloques : f[i] \in Suyos(d, s) \cup {FIN}
  BY <1>1, <1>5, CadenaSuya DEF Tipado, Tipos
<1> DEFINE x == [i \in 0 .. NBloques |-> IF f[i] = g[i] THEN 0 ELSE 1]
<1>8. x[0] \in {0}
  <2>1. 0 \in 0 .. NBloques /\ f[0] = g[0]
    BY <1>4, <1>5, <1>6 DEF EsSenda
  <2> QED
    BY <2>1
<1>9. ASSUME NEW i \in 1 .. NBloques, x[i - 1] \in {0} PROVE x[i] \in {0}
  <2>1. i \in 0 .. NBloques /\ i - 1 \in 0 .. NBloques
    BY <1>4
  <2>2. f[i - 1] = g[i - 1] /\ f[i - 1] \in Suyos(d, s) \cup {FIN}
    BY <1>7, <1>9, <2>1
  <2>3. f[i] = Paso(tablaAsignacion, {FIN}, f[i - 1]) /\ g[i] = Paso(tablaAsignacion', {FIN}, g[i - 1])
    BY <1>5, <1>6 DEF EsSenda
  <2>4. f[i] = g[i]
    BY <2>2, <2>3 DEF Paso, Intacto
  <2> QED
    BY <2>1, <2>4
<1> HIDE DEF x
<1>10. \A i \in 0 .. NBloques : x[i] \in {0}
  BY <1>4, <1>8, <1>9, Cerrado
<1>11. \A i \in 0 .. NBloques : f[i] = g[i]
  BY <1>10 DEF x
<1>12. f = g
  <2>1. f \in [0 .. NBloques -> Posiciones] /\ g \in [0 .. NBloques -> Posiciones]
    BY <1>5, <1>6 DEF EsSenda
  <2>2. f = [i \in 0 .. NBloques |-> f[i]] /\ g = [i \in 0 .. NBloques |-> g[i]]
    BY <2>1
  <2>3. [i \in 0 .. NBloques |-> f[i]] = [i \in 0 .. NBloques |-> g[i]]
    BY <1>11
  <2> QED
    BY <2>2, <2>3, Zenon
<1> QED
  BY <1>2, <1>3, <1>12

\* AislaArchivos, of one step.
Aislados ==
    \A s \in Vivos : \/ \E h \in Hilos : EnArchivo(h, s) \/ EnArchivo(h, s)'
                     \/ CadenaDe(s)' = CadenaDe(s)

\* Then its chain is the same after the step.
LEMMA PasoAislados ==
    ASSUME Tipado, Tipado', Ordenado, [Next]_todo, ~tropezo'
    PROVE  Aislados
<1> SUFFICES ASSUME NEW s \in Vivos,
                    \A g \in Hilos : ~EnArchivo(g, s) /\ ~EnArchivo(g, s)'
             PROVE  CadenaDe(s)' = CadenaDe(s)
  BY DEF Aislados
<1>1. PICK d : Reparte(d)
  BY PasoOrdenado DEF Reparto
<1>2. s \in Archivos /\ Vive(s) /\ Separados
  BY PasoOrdenado, VivosViven
<1>3. Punta(s) = {}
  BY PuntaEs DEF EnArchivo, DeArchivo, Extienden
<1>4. Punta(s)' = {}
  BY PuntaPrima DEF EnArchivo, DeArchivo, Extienden
<1>5. Intacto(d, s)
  <2>1. CASE \A h \in Hilos : ~AtenderPedido(h)
    BY <1>2, <2>1, FueraIntacto
  <2>2. ASSUME NEW h \in Hilos, AtenderPedido(h) PROVE Intacto(d, s)
    <3>1. ~Resbala
      BY <2>2, Zenon DEF AtenderPedido
    <3> QED
      BY <1>1, <1>2, <2>2, <3>1, PasoIntacto
  <2> QED
    BY <2>1, <2>2
<1> QED
  BY <1>1, <1>2, <1>3, <1>4, <1>5, CadenaIntacta

\* Until a thread slips a step of a thread that works on one file leaves alone the chain of every
\* other: its first block and each of its links in the allocation table (376-387, 545, 566).
THEOREM SpecAislaArchivos == Spec => AislaArchivos
<1>1. Tipado /\ Tipado' /\ Ordenado /\ [Next]_todo => [~tropezo' => Aislados]_<<vars, tropezo>>
  BY PasoAislados
<1>2. Spec => [][~tropezo' => Aislados]_<<vars, tropezo>>
  BY <1>1, SpecTipado, SpecOrdenado, PTL DEF Spec
<1> QED
  BY <1>2 DEF AislaArchivos, Aislados
=============================================================================
