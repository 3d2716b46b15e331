---------------------------- MODULE Tipos_proofs ----------------------------
(***************************************************************************)
(* Every variable of a map has a value of its type, for any trainers,      *)
(* lives, pokenests, pokemons, goals and quantum.                          *)
(*                                                                         *)
(* TypeOK is not inductive: an action that takes the head of a queue, or   *)
(* follows a pointer, needs it to be there.  Punteros says that it is: a   *)
(* thread that is about to use something got it on its way there, and no   *)
(* other thread takes it away.                                             *)
(***************************************************************************)
EXTENDS Mapa, FiniteSetTheorems, SequenceTheorems, TLAPS
-----------------------------------------------------------------------------
(***************************************************************************)
(* What the operations on queues of module Colas return: queues of the     *)
(* same elements.                                                          *)
(***************************************************************************)
\* The elements at some indices, in order, are a sequence of elements.
LEMMA EnOrdenTipo ==
    ASSUME NEW S, NEW cola \in Seq(S), NEW I \in SUBSET (1 .. Len(cola)),
           NEW q \in EnOrden(cola, I)
    PROVE  q \in Seq(S)
<1>1. Cardinality(I) \in Nat
  <2>1. IsFiniteSet(1 .. Len(cola))
    BY FS_Interval
  <2>2. IsFiniteSet(I)
    BY <2>1, FS_Subset
  <2> QED
    BY <2>2, FS_CardinalityType
<1>2. PICK g \in [1 .. Cardinality(I) -> I] :
         q = [k \in 1 .. Cardinality(I) |-> cola[g[k]]]
  BY DEF EnOrden
<1>3. \A k \in 1 .. Cardinality(I) : cola[g[k]] \in S
  BY <1>2, ElementOfSeq
<1>4. q \in [1 .. Cardinality(I) -> S]
  BY <1>2, <1>3
<1> QED
  BY <1>1, <1>4, SeqDef

LEMMA QuitarTipo ==
    ASSUME NEW S, NEW lista \in Seq(S), NEW i \in 1 .. Len(lista)
    PROVE  Quitar(lista, i) \in Seq(S)
<1>1. SubSeq(lista, 1, i - 1) \in Seq(S) /\ SubSeq(lista, i + 1, Len(lista)) \in Seq(S)
  BY ElementOfSeq, SubSeqProperties
<1> QED
  BY <1>1, ConcatProperties DEF Quitar

LEMMA RotarTipo ==
    ASSUME NEW S, NEW cola \in Seq(S), NEW n \in Nat
    PROVE  Rotar(cola, n) \in Seq(S)
<1> DEFINE k == IF cola = <<>> THEN 0 ELSE n % Len(cola)
<1>1. k \in 0 .. Len(cola)
  BY EmptySeq
<1>2. \A m, l \in Int : 1 <= m /\ l <= Len(cola) => SubSeq(cola, m, l) \in Seq(S)
  BY ElementOfSeq, SubSeqProperties
<1>3. SubSeq(cola, k + 1, Len(cola)) \in Seq(S) /\ SubSeq(cola, 1, k) \in Seq(S)
  BY <1>1, <1>2
<1> QED
  BY <1>3, ConcatProperties DEF Rotar

\* popEntrenador never puts in the queue anything that was not there, whatever the
\* size it had counted.
LEMMA PopEntrenadorTipo ==
    ASSUME NEW S, NEW cola \in Seq(S), NEW tam \in Nat, NEW s,
           NEW q \in PopEntrenador(cola, tam, s)
    PROVE  q \in Seq(S)
<1> DEFINE visitados == IF tam < Len(cola) THEN tam ELSE Len(cola)
           quedan == {i \in 1 .. visitados : Simbolo(cola[i]) # s}
<1>1. visitados \in 0 .. Len(cola) /\ tam - visitados \in Nat
  OBVIOUS
<1>2. PICK r \in EnOrden(cola, quedan) :
         q = SubSeq(cola, visitados + 1, Len(cola)) \o Rotar(r, tam - visitados)
  BY DEF PopEntrenador
<1>3. quedan \in SUBSET (1 .. Len(cola))
  BY <1>1
<1>4. r \in Seq(S)
  BY <1>2, <1>3, EnOrdenTipo
<1>5. SubSeq(cola, visitados + 1, Len(cola)) \in Seq(S)
  BY <1>1, ElementOfSeq, SubSeqProperties
<1> QED
  BY <1>1, <1>2, <1>4, <1>5, RotarTipo, ConcatProperties

COROLLARY SinEntrenadorTipo ==
    ASSUME NEW S, NEW cola \in Seq(S), NEW s, NEW q \in SinEntrenador(cola, s)
    PROVE  q \in Seq(S)
<1>1. Len(cola) \in Nat
  BY LenProperties
<1> QED
  BY <1>1, PopEntrenadorTipo DEF SinEntrenador
-----------------------------------------------------------------------------
(***************************************************************************)
(* Who is in a queue, and that nobody is in it twice.                      *)
(***************************************************************************)
SinRepetidos(cola) == \A i, j \in 1 .. Len(cola) : cola[i] = cola[j] => i = j

LEMMA ColaVacia == SinRepetidos(<<>>) /\ \A c : ~EnCola(<<>>, c)
  BY DEF SinRepetidos, EnCola

\* queue_push
LEMMA ColaAppend ==
    ASSUME NEW S, NEW cola \in Seq(S), NEW e \in S
    PROVE  /\ \A c : EnCola(Append(cola, e), c) <=> EnCola(cola, c) \/ c = e
           /\ SinRepetidos(cola) /\ ~EnCola(cola, e) => SinRepetidos(Append(cola, e))
  BY AppendProperties, LenProperties DEF EnCola, SinRepetidos

\* queue_pop
LEMMA ColaTail ==
    ASSUME NEW S, NEW cola \in Seq(S), cola # <<>>
    PROVE  /\ Head(cola) \in S /\ Tail(cola) \in Seq(S)
           /\ \A c : EnCola(cola, c) <=> EnCola(Tail(cola), c) \/ c = Head(cola)
           /\ SinRepetidos(cola) => SinRepetidos(Tail(cola)) /\ ~EnCola(Tail(cola), Head(cola))
<1>1. /\ Head(cola) \in S /\ Tail(cola) \in Seq(S) /\ Head(cola) = cola[1]
      /\ Len(cola) \in Nat \ {0} /\ Len(Tail(cola)) = Len(cola) - 1
      /\ \A i \in 1 .. Len(Tail(cola)) : Tail(cola)[i] = cola[i + 1]
  BY HeadTailProperties, EmptySeq
<1>2. \A c : EnCola(Tail(cola), c) => EnCola(cola, c)
  BY <1>1 DEF EnCola
<1>3. \A c : EnCola(cola, c) => EnCola(Tail(cola), c) \/ c = Head(cola)
  <2> SUFFICES ASSUME NEW c, NEW i \in 1 .. Len(cola), cola[i] = c, i # 1
               PROVE  EnCola(Tail(cola), c)
    BY <1>1 DEF EnCola
  <2>1. i - 1 \in 1 .. Len(Tail(cola)) /\ (i - 1) + 1 = i
    BY <1>1
  <2> QED
    BY <1>1, <2>1 DEF EnCola
<1>4. EnCola(cola, Head(cola))
  BY <1>1 DEF EnCola
<1>5. SinRepetidos(cola) => SinRepetidos(Tail(cola)) /\ ~EnCola(Tail(cola), Head(cola))
  <2> SUFFICES ASSUME SinRepetidos(cola)
               PROVE  SinRepetidos(Tail(cola)) /\ ~EnCola(Tail(cola), Head(cola))
    OBVIOUS
  <2>1. \A i \in 1 .. Len(Tail(cola)) : i + 1 \in 1 .. Len(cola) /\ i + 1 # 1
    BY <1>1
  <2>2. 1 \in 1 .. Len(cola)
    BY <1>1
  <2>3. ~EnCola(Tail(cola), Head(cola))
    BY <1>1, <2>1, <2>2 DEF EnCola, SinRepetidos
  <2>4. ASSUME NEW i \in 1 .. Len(Tail(cola)), NEW j \in 1 .. Len(Tail(cola)),
               Tail(cola)[i] = Tail(cola)[j]
        PROVE  i = j
    BY <1>1, <2>1, <2>4 DEF SinRepetidos
  <2> QED
    BY <2>3, <2>4 DEF SinRepetidos
<1> QED
  BY <1>1, <1>2, <1>3, <1>4, <1>5

\* q is made of elements of cola at the places I, each used once at most.
Toma(q, cola, I) ==
    \E f \in [1 .. Len(q) -> I] :
       /\ \A i, j \in 1 .. Len(q) : f[i] = f[j] => i = j
       /\ \A i \in 1 .. Len(q) : q[i] = cola[f[i]]

LEMMA TomaVale ==
    ASSUME NEW cola, NEW q, NEW I \in SUBSET (1 .. Len(cola)), Toma(q, cola, I)
    PROVE  /\ \A c : EnCola(q, c) => \E i \in I : cola[i] = c
           /\ SinRepetidos(cola) => SinRepetidos(q)
<1>1. PICK f \in [1 .. Len(q) -> I] :
        /\ \A i, j \in 1 .. Len(q) : f[i] = f[j] => i = j
        /\ \A i \in 1 .. Len(q) : q[i] = cola[f[i]]
  BY DEF Toma
<1>2. \A c : EnCola(q, c) => \E i \in I : cola[i] = c
  BY <1>1 DEF EnCola
<1>3. ASSUME SinRepetidos(cola), NEW i \in 1 .. Len(q), NEW j \in 1 .. Len(q), q[i] = q[j]
      PROVE  i = j
  <2>1. f[i] \in 1 .. Len(cola) /\ f[j] \in 1 .. Len(cola) /\ cola[f[i]] = cola[f[j]]
    BY <1>1, <1>3
  <2>2. f[i] = f[j]
    BY <1>3, <2>1 DEF SinRepetidos
  <2> QED
    BY <1>1, <2>2
<1> QED
  BY <1>2, <1>3 DEF SinRepetidos

LEMMA TomaDeToma ==
    ASSUME NEW cola, NEW r, NEW q, NEW I, Toma(r, cola, I), Toma(q, r, 1 .. Len(r))
    PROVE  Toma(q, cola, I)
<1>1. PICK f \in [1 .. Len(r) -> I] :
        /\ \A i, j \in 1 .. Len(r) : f[i] = f[j] => i = j
        /\ \A i \in 1 .. Len(r) : r[i] = cola[f[i]]
  BY DEF Toma
<1>2. PICK g \in [1 .. Len(q) -> 1 .. Len(r)] :
        /\ \A i, j \in 1 .. Len(q) : g[i] = g[j] => i = j
        /\ \A i \in 1 .. Len(q) : q[i] = r[g[i]]
  BY DEF Toma
<1> DEFINE h == [i \in 1 .. Len(q) |-> f[g[i]]]
<1>3. /\ h \in [1 .. Len(q) -> I]
      /\ \A i, j \in 1 .. Len(q) : h[i] = h[j] => i = j
      /\ \A i \in 1 .. Len(q) : q[i] = cola[h[i]]
  BY <1>1, <1>2
<1> QED
  BY <1>3 DEF Toma

LEMMA TomaSubSeq ==
    ASSUME NEW S, NEW cola \in Seq(S), NEW m \in Nat \ {0}, NEW n \in 0 .. Len(cola)
    PROVE  SubSeq(cola, m, n) \in Seq(S) /\ Toma(SubSeq(cola, m, n), cola, m .. n)
<1> DEFINE q == SubSeq(cola, m, n)
<1>1. Len(cola) \in Nat /\ \A i \in m .. n : cola[i] \in S
  BY LenProperties, ElementOfSeq
<1>2. /\ q \in Seq(S)
      /\ Len(q) = IF m <= n THEN n - m + 1 ELSE 0
      /\ \A i \in 1 .. n - m + 1 : q[i] = cola[m + i - 1]
  BY <1>1, SubSeqProperties
<1> DEFINE f == [i \in 1 .. Len(q) |-> m + i - 1]
<1> HIDE DEF q
<1>3. /\ f \in [1 .. Len(q) -> m .. n]
      /\ \A i, j \in 1 .. Len(q) : f[i] = f[j] => i = j
      /\ \A i \in 1 .. Len(q) : q[i] = cola[f[i]]
  BY <1>1, <1>2
<1>4. Toma(q, cola, m .. n)
  BY <1>3 DEF Toma
<1> QED
  BY <1>2, <1>4 DEF q

LEMMA TomaConcat ==
    ASSUME NEW S, NEW cola \in Seq(S), NEW a \in Seq(S), NEW b \in Seq(S), NEW I, NEW J,
           Toma(a, cola, I), Toma(b, cola, J), I \cap J = {}
    PROVE  Toma(a \o b, cola, I \cup J)
<1> DEFINE q == a \o b
<1>1. PICK f \in [1 .. Len(a) -> I] :
        /\ \A i, j \in 1 .. Len(a) : f[i] = f[j] => i = j
        /\ \A i \in 1 .. Len(a) : a[i] = cola[f[i]]
  BY DEF Toma
<1>2. PICK g \in [1 .. Len(b) -> J] :
        /\ \A i, j \in 1 .. Len(b) : g[i] = g[j] => i = j
        /\ \A i \in 1 .. Len(b) : b[i] = cola[g[i]]
  BY DEF Toma
<1>3. /\ Len(a) \in Nat /\ Len(b) \in Nat /\ Len(q) = Len(a) + Len(b)
      /\ \A i \in 1 .. Len(q) : q[i] = IF i <= Len(a) THEN a[i] ELSE b[i - Len(a)]
  BY ConcatProperties, LenProperties
<1> DEFINE h == [i \in 1 .. Len(q) |-> IF i <= Len(a) THEN f[i] ELSE g[i - Len(a)]]
<1> HIDE DEF q
<1>4. ASSUME NEW i \in 1 .. Len(q)
      PROVE  \/ /\ i \in 1 .. Len(a) /\ h[i] = f[i] /\ h[i] \in I
                /\ q[i] = cola[f[i]]
             \/ /\ ~(i \in 1 .. Len(a)) /\ i - Len(a) \in 1 .. Len(b)
                /\ h[i] = g[i - Len(a)] /\ h[i] \in J
                /\ q[i] = cola[g[i - Len(a)]]
  <2>1. CASE i <= Len(a)
    <3>1. i \in 1 .. Len(a)
      BY <1>3, <2>1
    <3> QED
      BY <1>1, <1>3, <2>1, <3>1
  <2>2. CASE ~(i <= Len(a))
    <3>1. i - Len(a) \in 1 .. Len(b) /\ ~(i \in 1 .. Len(a))
      BY <1>3, <2>2
    <3>2. q[i] = b[i - Len(a)] /\ h[i] = g[i - Len(a)]
      BY <1>3, <2>2
    <3> QED
      BY <1>2, <3>1, <3>2
  <2> QED
    BY <2>1, <2>2
<1> HIDE DEF h
<1>5. h \in [1 .. Len(q) -> I \cup J]
  BY <1>4 DEF h
<1>6. ASSUME NEW i \in 1 .. Len(q), NEW j \in 1 .. Len(q), h[i] = h[j]
      PROVE  i = j
  <2>1. CASE i \in 1 .. Len(a) /\ j \in 1 .. Len(a)
    BY <1>1, <1>3, <1>4, <1>6, <2>1
  <2>2. CASE ~(i \in 1 .. Len(a)) /\ ~(j \in 1 .. Len(a))
    <3>1. /\ i - Len(a) \in 1 .. Len(b) /\ j - Len(a) \in 1 .. Len(b)
          /\ h[i] = g[i - Len(a)] /\ h[j] = g[j - Len(a)]
      BY <1>4, <2>2
    <3>2. i - Len(a) = j - Len(a)
      BY <1>2, <1>6, <3>1
    <3> QED
      BY <1>3, <3>2
  <2> QED
    BY <1>3, <1>4, <1>6, <2>1, <2>2
<1>7. ASSUME NEW i \in 1 .. Len(q)
      PROVE  q[i] = cola[h[i]]
  BY <1>4
<1>8. Toma(q, cola, I \cup J)
  BY <1>5, <1>6, <1>7 DEF Toma
<1> QED
  BY <1>8 DEF q

LEMMA TomaEnOrden ==
    ASSUME NEW S, NEW cola \in Seq(S), NEW I \in SUBSET (1 .. Len(cola)), NEW q \in EnOrden(cola, I)
    PROVE  Toma(q, cola, I)
<1>1. Cardinality(I) \in Nat
  <2>1. IsFiniteSet(1 .. Len(cola))
    BY FS_Interval, LenProperties
  <2> QED
    BY <2>1, FS_Subset, FS_CardinalityType
<1>2. PICK g \in [1 .. Cardinality(I) -> I] :
        /\ \A j, k \in 1 .. Cardinality(I) : j < k => g[j] < g[k]
        /\ q = [k \in 1 .. Cardinality(I) |-> cola[g[k]]]
  BY DEF EnOrden
<1>3. q \in Seq(S) /\ Len(q) = Cardinality(I)
  BY <1>1, <1>2, EnOrdenTipo, LenProperties
<1>4. ASSUME NEW i \in 1 .. Len(q), NEW j \in 1 .. Len(q), g[i] = g[j]
      PROVE  i = j
  <2>1. i \in 1 .. Cardinality(I) /\ j \in 1 .. Cardinality(I)
    BY <1>3
  <2>2. i \in Int /\ j \in Int
    OBVIOUS
  <2>3. g[i] \in I
    BY <2>1
  <2>4. g[i] \in Int
    <3>1. g[i] \in 1 .. Len(cola) /\ Len(cola) \in Nat
      BY <2>3, LenProperties
    <3> QED
      BY <3>1
  <2>5. ~(i < j) /\ ~(j < i)
    BY <1>2, <1>4, <2>1, <2>4
  <2> QED
    BY <2>2, <2>5
<1> QED
  BY <1>2, <1>3, <1>4 DEF Toma

LEMMA TomaRotar ==
    ASSUME NEW S, NEW cola \in Seq(S), NEW n \in Nat
    PROVE  Toma(Rotar(cola, n), cola, 1 .. Len(cola))
<1> DEFINE k == IF cola = <<>> THEN 0 ELSE n % Len(cola)
<1>1. k \in 0 .. Len(cola) /\ Len(cola) \in Nat
  BY EmptySeq
<1> HIDE DEF k
<1>2. /\ SubSeq(cola, k + 1, Len(cola)) \in Seq(S) /\ SubSeq(cola, 1, k) \in Seq(S)
      /\ Toma(SubSeq(cola, k + 1, Len(cola)), cola, k + 1 .. Len(cola))
      /\ Toma(SubSeq(cola, 1, k), cola, 1 .. k)
  BY <1>1, TomaSubSeq
<1>3. (k + 1 .. Len(cola)) \cap (1 .. k) = {} /\ (k + 1 .. Len(cola)) \cup (1 .. k) = 1 .. Len(cola)
  BY <1>1
<1>4. Toma(SubSeq(cola, k + 1, Len(cola)) \o SubSeq(cola, 1, k), cola,
           (k + 1 .. Len(cola)) \cup (1 .. k))
  BY <1>2, <1>3, TomaConcat
<1> QED
  BY <1>3, <1>4 DEF Rotar, k

\* list_remove
LEMMA ColaQuitar ==
    ASSUME NEW S, NEW lista \in Seq(S), NEW i \in 1 .. Len(lista), SinRepetidos(lista)
    PROVE  /\ SinRepetidos(Quitar(lista, i))
           /\ \A c : EnCola(Quitar(lista, i), c) => EnCola(lista, c) /\ c # lista[i]
<1> DEFINE I == (1 .. i - 1) \cup (i + 1 .. Len(lista))
<1>1. Len(lista) \in Nat /\ i - 1 \in 0 .. Len(lista) /\ i + 1 \in Nat \ {0}
  BY LenProperties
<1>2. Toma(Quitar(lista, i), lista, I)
  <2>1. /\ SubSeq(lista, 1, i - 1) \in Seq(S) /\ SubSeq(lista, i + 1, Len(lista)) \in Seq(S)
        /\ Toma(SubSeq(lista, 1, i - 1), lista, 1 .. i - 1)
        /\ Toma(SubSeq(lista, i + 1, Len(lista)), lista, i + 1 .. Len(lista))
    BY <1>1, TomaSubSeq
  <2>2. (1 .. i - 1) \cap (i + 1 .. Len(lista)) = {}
    BY <1>1
  <2> QED
    BY <2>1, <2>2, TomaConcat DEF Quitar
<1>3. I \in SUBSET (1 .. Len(lista)) /\ i \notin I
  BY <1>1
<1> HIDE DEF I
<1>4. /\ SinRepetidos(Quitar(lista, i))
      /\ \A c : EnCola(Quitar(lista, i), c) => \E j \in I : lista[j] = c
  BY <1>2, <1>3, TomaVale
<1> QED
  BY <1>3, <1>4 DEF EnCola, SinRepetidos

\* popEntrenador keeps whoever it does not take out once at most; and takes out
\* those of its symbol when they are among the elements it counted.
LEMMA ColaPop ==
    ASSUME NEW S, NEW cola \in Seq(S), NEW tam \in Nat, NEW s,
           NEW q \in PopEntrenador(cola, tam, s)
    PROVE  /\ \A c : EnCola(q, c) => EnCola(cola, c)
           /\ SinRepetidos(cola) => SinRepetidos(q)
           /\ \A c : (/\ Simbolo(c) = s /\ tam <= Len(cola)
                     /\ \A i \in tam + 1 .. Len(cola) : cola[i] # c)
                       => ~EnCola(q, c)
<1> DEFINE n == Len(cola)
           v == IF tam < n THEN tam ELSE n
           quedan == {i \in 1 .. v : Simbolo(cola[i]) # s}
           I == (v + 1 .. n) \cup quedan
<1>1. n \in Nat /\ v \in 0 .. n /\ tam - v \in Nat /\ (tam <= n => v = tam)
  BY LenProperties
<1>2. PICK r \in EnOrden(cola, quedan) : q = SubSeq(cola, v + 1, n) \o Rotar(r, tam - v)
  BY DEF PopEntrenador
<1>3. quedan \in SUBSET (1 .. n) /\ (v + 1 .. n) \cap quedan = {} /\ I \in SUBSET (1 .. n)
  BY <1>1
<1>4. \A i \in I : i \in v + 1 .. n \/ Simbolo(cola[i]) # s
  OBVIOUS
<1> HIDE DEF v, quedan
<1>5. r \in Seq(S) /\ Toma(r, cola, quedan)
  BY <1>2, <1>3, EnOrdenTipo, TomaEnOrden
<1>6. Rotar(r, tam - v) \in Seq(S) /\ Toma(Rotar(r, tam - v), cola, quedan)
  BY <1>1, <1>5, RotarTipo, TomaRotar, TomaDeToma
<1>7. SubSeq(cola, v + 1, n) \in Seq(S) /\ Toma(SubSeq(cola, v + 1, n), cola, v + 1 .. n)
  BY <1>1, TomaSubSeq
<1>8. Toma(q, cola, I)
  BY <1>2, <1>3, <1>6, <1>7, TomaConcat
<1> HIDE DEF I
<1>9. /\ \A c : EnCola(q, c) => \E i \in I : cola[i] = c
      /\ SinRepetidos(cola) => SinRepetidos(q)
  BY <1>3, <1>8, TomaVale
<1>10. \A c : EnCola(q, c) => EnCola(cola, c)
  BY <1>3, <1>9 DEF EnCola
<1>11. ASSUME NEW c, Simbolo(c) = s, tam <= Len(cola),
              \A i \in tam + 1 .. Len(cola) : cola[i] # c
       PROVE  ~EnCola(q, c)
  BY <1>1, <1>4, <1>9, <1>11
<1> QED
  BY <1>9, <1>10, <1>11

\* And it keeps all the others, when it counted the queue as it is.
LEMMA ColaSinEntrenador ==
    ASSUME NEW S, NEW cola \in Seq(S), NEW s, NEW q \in SinEntrenador(cola, s)
    PROVE  \A c : EnCola(cola, c) /\ Simbolo(c) # s => EnCola(q, c)
<1> DEFINE n == Len(cola)
           quedan == {i \in 1 .. n : Simbolo(cola[i]) # s}
<1>1. n \in Nat
  BY LenProperties
<1>2. PICK r \in EnOrden(cola, quedan) : q = SubSeq(cola, n + 1, n) \o Rotar(r, n - n)
  BY <1>1 DEF SinEntrenador, PopEntrenador
<1> HIDE DEF quedan
<1>3. quedan \in SUBSET (1 .. n)
  BY DEF quedan
<1>4. r \in Seq(S) /\ Toma(r, cola, quedan)
  BY <1>3, EnOrdenTipo, TomaEnOrden
<1>5. q = r
  <2>1. Rotar(r, 0) = SubSeq(r, 1, Len(r)) \o SubSeq(r, 1, 0)
    <3>1. r # <<>> => Len(r) \in Nat \ {0}
      BY <1>4, EmptySeq
    <3>2. r # <<>> => 0 % Len(r) = 0
      BY <3>1
    <3>3. (IF r = <<>> THEN 0 ELSE 0 % Len(r)) = 0
      BY <3>2
    <3> QED
      BY <3>3 DEF Rotar
  <2>2. /\ Len(r) \in Nat
        /\ SubSeq(r, 1, Len(r)) \in Seq(S) /\ Len(SubSeq(r, 1, Len(r))) = Len(r)
        /\ \A i \in 1 .. Len(r) : SubSeq(r, 1, Len(r))[i] = r[i]
        /\ SubSeq(r, 1, 0) \in Seq(S) /\ Len(SubSeq(r, 1, 0)) = 0
    BY <1>4, LenProperties, ElementOfSeq, SubSeqProperties
  <2>3. SubSeq(r, 1, Len(r)) = r /\ SubSeq(r, 1, 0) = <<>>
    BY <1>4, <2>2, SeqEqual, EmptySeq
  <2>4. SubSeq(cola, n + 1, n) = <<>>
    BY <1>1, ElementOfSeq, SubSeqProperties, EmptySeq
  <2> QED
    BY <1>1, <1>2, <1>4, <2>1, <2>3, <2>4, ConcatEmptySeq
<1>6. PICK f \in [1 .. Len(q) -> quedan] :
        /\ \A i, j \in 1 .. Len(q) : f[i] = f[j] => i = j
        /\ \A i \in 1 .. Len(q) : q[i] = cola[f[i]]
  BY <1>4, <1>5 DEF Toma
<1>7. Len(q) = Cardinality(quedan) /\ IsFiniteSet(quedan) /\ Len(q) \in Nat
  <2>1. IsFiniteSet(quedan)
    <3>1. IsFiniteSet(1 .. n)
      BY <1>1, FS_Interval
    <3> QED
      BY <1>3, <3>1, FS_Subset
  <2>2. Cardinality(quedan) \in Nat
    BY <2>1, FS_CardinalityType
  <2>3. DOMAIN q = 1 .. Cardinality(quedan) /\ q \in Seq(S)
    BY <1>2, <1>4, <1>5 DEF EnOrden
  <2> QED
    BY <2>1, <2>2, <2>3, LenProperties
<1>8. f \in Surjection(1 .. Len(q), quedan)
  <2>1. f \in Injection(1 .. Len(q), quedan)
    BY <1>6 DEF Injection, IsInjective
  <2>2. Cardinality(1 .. Len(q)) = Cardinality(quedan)
    BY <1>7, FS_Interval
  <2> QED
    BY <1>7, <2>1, <2>2, FS_Injection
<1>9. ASSUME NEW c, EnCola(cola, c), Simbolo(c) # s
      PROVE  EnCola(q, c)
  <2>1. PICK i \in 1 .. n : cola[i] = c
    BY <1>9 DEF EnCola
  <2>2. i \in quedan
    BY <1>9, <2>1 DEF quedan
  <2>3. PICK k \in 1 .. Len(q) : f[k] = i
    BY <1>8, <2>2 DEF Surjection
  <2> QED
    BY <1>6, <2>1, <2>3 DEF EnCola
<1> QED
  BY <1>9
-----------------------------------------------------------------------------
(***************************************************************************)
(* What the threads are about to use.                                      *)
(***************************************************************************)
PunteroPlanificador ==
    /\ pcP = "otorga" => colaReady # <<>>
    /\ pcP = "recibe" => entP \in Conexiones

PunteroBlock == pcB \in {"pokemon", "recibe"} => entB \in Conexiones

PunteroDeadlock ==
    /\ pcD \in {"desafia", "elige", "sacaCaido"} => pelea # <<>>
    /\ pcD = "mata" => entD \in Conexiones
    /\ pcD \in {"saca", "espera", "rebloquea"} => peleadores # <<>>

PunteroPrincipal ==
    /\ pcM = "acepta" => pendientes # <<>>
    /\ pcM \in {"saca", "avisaBlock"} => entM \in Conexiones /\ iM \in 1 .. Len(clientes)

\* A trainer that has not greeted the map has a first goal to ask for.
PunteroEntrenador ==
    \A c \in Conexiones : pcE[c] \in {"fuera", "conectado"} => objetivos[c] # <<>>

Punteros ==
    /\ PunteroPlanificador /\ PunteroBlock /\ PunteroDeadlock
    /\ PunteroPrincipal /\ PunteroEntrenador

Tipos == TypeOK /\ Punteros
-----------------------------------------------------------------------------
(***************************************************************************)
(* What each helper does to the types.                                     *)
(***************************************************************************)
LEMMA SimboloTipo == \A c \in Conexiones : Simbolo(c) \in Entrenadores
  BY DEF Conexiones, Simbolo

LEMMA ConTipo ==
    /\ \A m \in MsjGuardado, a \in Acciones : Con(m, a) \in MsjGuardado
    /\ \A m \in Mensaje, a \in Acciones : Con(m, a) \in Mensaje
    /\ \A m \in Mensaje : Con(m, "LIBERADO") \in MsjGuardado
    /\ Mensaje \subseteq MsjGuardado
  BY DEF Con, MsjGuardado, Mensaje, Acciones

LEMMA AccionTipo ==
    ASSUME TipoInfo, NEW c \in Conexiones, NEW a \in Acciones \cup {"NULL"}
    PROVE  [msj EXCEPT ![c].accion = a] \in [Conexiones -> MsjGuardado]
<1>1. [msj[c] EXCEPT !.accion = a] \in MsjGuardado
  BY DEF TipoInfo, MsjGuardado, Acciones
<1> QED
  BY <1>1 DEF TipoInfo

LEMMA PedidoTipo ==
    \A a \in Acciones, n \in Pokenests : Pedido(a, n) \in Mensaje
  BY DEF Pedido, Mensaje, Acciones, Sentidos

LEMMA TramaTipo == \A n \in Pokenests : TramaPokemon(n) \in Mensaje
  BY DEF TramaPokemon, Mensaje, Sentidos

LEMMA ProximoTipo ==
    ASSUME TipoRed, NEW c \in Conexiones, NEW m \in Proximo(c)
    PROVE  m \in Mensaje /\ m \in MsjGuardado /\ aMapa[c] # <<>>
<1>1. aMapa[c] \in Seq(Mensaje) /\ aMapa[c] # <<>> /\ m = Head(aMapa[c])
  BY DEF TipoRed, Proximo, HayMensaje
<1> QED
  BY <1>1, HeadTailProperties, ConTipo

LEMMA TomarTipo ==
    ASSUME TipoRed, NEW c \in Conexiones, aMapa[c] # <<>>, Tomar(c)
    PROVE  aMapa' \in [Conexiones -> Seq(Mensaje)]
<1>1. Tail(aMapa[c]) \in Seq(Mensaje)
  BY HeadTailProperties DEF TipoRed
<1> QED
  BY <1>1 DEF TipoRed, Tomar

LEMMA EnviarTipo ==
    ASSUME TipoRed, NEW c \in Conexiones, NEW tramas \in Seq(MsjGuardado), Enviar(c, tramas)
    PROVE  aEntrenador' \in [Conexiones -> Seq(MsjGuardado)]
<1>1. aEntrenador[c] \o tramas \in Seq(MsjGuardado)
  BY ConcatProperties DEF TipoRed
<1> QED
  BY <1>1 DEF TipoRed, Enviar

LEMMA EnviarUnoTipo ==
    ASSUME TipoRed, NEW c \in Conexiones, NEW m \in MsjGuardado, Enviar(c, <<m>>)
    PROVE  aEntrenador' \in [Conexiones -> Seq(MsjGuardado)]
<1>1. <<m>> \in Seq(MsjGuardado)
  OBVIOUS
<1> QED
  BY <1>1, EnviarTipo

LEMMA ResponderTipo ==
    ASSUME TipoRed, NEW c \in Conexiones, NEW m \in Mensaje, Responder(c, m)
    PROVE  aMapa' \in [Conexiones -> Seq(Mensaje)]
<1>1. Append(aMapa[c], m) \in Seq(Mensaje)
  BY DEF TipoRed
<1> QED
  BY <1>1 DEF TipoRed, Responder

LEMMA LeerTipo ==
    ASSUME TipoRed, NEW c \in Conexiones, aEntrenador[c] # <<>>, Leer(c)
    PROVE  aEntrenador' \in [Conexiones -> Seq(MsjGuardado)]
<1>1. Tail(aEntrenador[c]) \in Seq(MsjGuardado)
  BY HeadTailProperties DEF TipoRed
<1> QED
  BY <1>1 DEF TipoRed, Leer

LEMMA LeidoTipo ==
    ASSUME TipoRed, NEW c \in Conexiones, aEntrenador[c] # <<>>
    PROVE  Head(aEntrenador[c]) \in MsjGuardado
  BY HeadTailProperties DEF TipoRed

LEMMA DosTramasTipo ==
    ASSUME NEW S, NEW tramas \in Seq(S), Len(tramas) > 1
    PROVE  tramas # <<>> /\ Tail(Tail(tramas)) \in Seq(S)
<1>1. \A s \in Seq(S) : Len(s) > 0 => s # <<>>
  OBVIOUS
<1>2. Tail(tramas) \in Seq(S) /\ Len(Tail(tramas)) > 0
  BY <1>1, HeadTailProperties
<1>3. Tail(tramas) # <<>>
  BY <1>1, <1>2, Zenon
<1> QED
  BY <1>1, <1>2, <1>3, HeadTailProperties

LEMMA GuardarNullTipo ==
    ASSUME TipoInfo, NEW c \in Conexiones, GuardarNull(c)
    PROVE  msj' \in [Conexiones -> MsjGuardado]
  BY AccionTipo DEF GuardarNull

LEMMA EntregarTipo ==
    ASSUME TipoRecursos, TipoRed, TipoProceso, NEW c \in Conexiones,
           NEW m \in MsjGuardado, Entregar(c, m)
    PROVE  /\ TipoRecursos'
           /\ aEntrenador' \in [Conexiones -> Seq(MsjGuardado)]
           /\ fallo' \in {"no", "nulo", "liberada", "trama", "sigpipe"}
<1>1. m.pokemon \in Pokenests
  BY DEF MsjGuardado
<1>2. fallo' \in {"no", "nulo", "liberada", "trama", "sigpipe"}
  BY DEF Entregar, UsarMsj, TipoProceso
<1>3. CASE c \in destruidos
  BY <1>2, <1>3 DEF Entregar, TipoRecursos, TipoRed
<1>4. CASE c \notin destruidos
  <2>1. PICK p \in libres[m.pokemon] :
          /\ libres' = [libres EXCEPT ![m.pokemon] = @ \ {p}]
          /\ atrapados' = [atrapados EXCEPT ![c][m.pokemon] = @ \cup {p}]
    BY <1>4 DEF Entregar
  <2>2. p \in Pokemons
    BY <1>1 DEF TipoRecursos
  <2>3. libres' \in [Pokenests -> SUBSET Pokemons]
    BY <2>1 DEF TipoRecursos
  <2>4. [atrapados[c] EXCEPT ![m.pokemon] = @ \cup {p}] \in [Pokenests -> SUBSET Pokemons]
    BY <2>2 DEF TipoRecursos
  <2>5. atrapados' \in [Conexiones -> [Pokenests -> SUBSET Pokemons]]
    BY <2>1, <2>4 DEF TipoRecursos
  <2>6. cantidad' \in [Pokenests -> Nat]
    BY <1>1, <1>4 DEF Entregar, HayPokemon, TipoRecursos
  <2>7. <<m, TramaPokemon(m.pokemon)>> \in Seq(MsjGuardado)
    BY <1>1, TramaTipo, ConTipo
  <2>8. aEntrenador' \in [Conexiones -> Seq(MsjGuardado)]
    BY <1>4, <2>7, EnviarTipo DEF Entregar
  <2>9. destruidos' = destruidos
    BY DEF Entregar
  <2> QED
    BY <1>2, <2>3, <2>5, <2>6, <2>8, <2>9 DEF TipoRecursos
<1> QED
  BY <1>3, <1>4

LEMMA LiberarTipo ==
    ASSUME TipoRecursos, NEW c \in Conexiones, LiberarRecursos(c)
    PROVE  TipoRecursos'
<1>1. \A n \in Pokenests : Cardinality(atrapados[c][n]) \in Nat
  BY ConstantesAssumption, FS_Subset, FS_CardinalityType DEF TipoRecursos
<1> QED
  BY <1>1 DEF LiberarRecursos, TipoRecursos

LEMMA SacarTipo ==
    ASSUME TipoColas, TipoDeadlock, TipoProceso, NEW c, SacarDeBlock(c)
    PROVE  /\ colaBlock' \in Seq(Conexiones) /\ tamD' \in Nat
           /\ fallo' \in {"no", "nulo", "liberada", "trama", "sigpipe"}
<1>1. colaBlock' \in Seq(Conexiones)
  BY PopEntrenadorTipo DEF SacarDeBlock, TipoColas, TipoDeadlock
<1>2. tamD' \in Nat /\ fallo' \in {"no", "nulo", "liberada", "trama", "sigpipe"}
  BY DEF SacarDeBlock, UsarMsj, TipoProceso
<1> QED
  BY <1>1, <1>2

\* The members of a queue are finite, and an order of some of them is a queue.
LEMMA OrdenesTipo ==
    ASSUME NEW cola \in Seq(Conexiones), NEW S \in SUBSET Miembros(cola),
           NEW o \in Ordenes(S)
    PROVE  o \in Seq(Conexiones) /\ (S # {} => o # <<>>)
<1>1. cola \in Surjection(1 .. Len(cola), Miembros(cola))
  <2>1. cola \in [1 .. Len(cola) -> Miembros(cola)]
    BY LenProperties DEF Miembros
  <2> QED
    BY <2>1 DEF Surjection, Miembros
<1>2. IsFiniteSet(1 .. Len(cola))
  BY FS_Interval
<1>3. IsFiniteSet(S)
  BY <1>1, <1>2, FS_Surjection, FS_Subset
<1>4. Cardinality(S) \in Nat
  BY <1>3, FS_CardinalityType
<1>5. S \subseteq Conexiones
  BY ElementOfSeq DEF Miembros
<1>6. o \in [1 .. Cardinality(S) -> Conexiones] /\ \A c \in S : \E i \in DOMAIN o : o[i] = c
  BY <1>5 DEF Ordenes
<1>7. o \in Seq(Conexiones)
  BY <1>4, <1>6, SeqDef
<1>8. S # {} => DOMAIN o # {}
  BY <1>6
<1> QED
  BY <1>7, <1>8

LEMMA CaminoTipo ==
    \A desde, hasta \in Posicion : CalcularColaMovimientos(desde, hasta) \in Seq(Sentidos)
<1> TAKE desde, hasta \in Posicion
<1> DEFINE dx == hasta[1] - desde[1]
           dy == hasta[2] - desde[2]
<1>1. Abs(dx) + Abs(dy) \in Nat
  BY DEF Posicion, Abs
<1>2. CalcularColaMovimientos(desde, hasta) \in [1 .. (Abs(dx) + Abs(dy)) -> Sentidos]
  BY DEF CalcularColaMovimientos, Sentidos
<1> QED
  BY <1>1, <1>2, SeqDef

LEMMA MoverTipo ==
    \A pos \in Posicion, sentido \in Sentidos : Mover(pos, sentido) \in Posicion
  BY DEF Mover, Posicion, Sentidos
-----------------------------------------------------------------------------
(***************************************************************************)
(* What no step touches keeps its type...                                  *)
(***************************************************************************)
LEMMA SinCambio ==
    /\ TipoRecursos /\ UNCHANGED recursos => TipoRecursos'
    /\ TipoColas /\ UNCHANGED colas => TipoColas'
    /\ TipoInfo /\ UNCHANGED <<info, gui>> => TipoInfo'
    /\ TipoRed /\ UNCHANGED red => TipoRed'
    /\ TipoProcesos /\ UNCHANGED procesos => TipoProcesos'
    /\ TipoProceso /\ UNCHANGED <<config, duenio, fallo>> => TipoProceso'
    /\ TipoPlanificador /\ UNCHANGED planificador => TipoPlanificador'
    /\ TipoBlock /\ UNCHANGED block => TipoBlock'
    /\ TipoDeadlock /\ UNCHANGED deadlock => TipoDeadlock'
    /\ TipoPrincipal /\ UNCHANGED principal => TipoPrincipal'
    /\ PunteroPlanificador /\ UNCHANGED <<planificador, colaReady>> => PunteroPlanificador'
    /\ PunteroPlanificador /\ UNCHANGED <<planificador, colas>> => PunteroPlanificador'
    /\ PunteroBlock /\ UNCHANGED block => PunteroBlock'
    /\ PunteroDeadlock /\ UNCHANGED deadlock => PunteroDeadlock'
    /\ PunteroPrincipal /\ UNCHANGED <<principal, pendientes>> => PunteroPrincipal'
    /\ PunteroPrincipal /\ UNCHANGED <<principal, red>> => PunteroPrincipal'
    /\ PunteroEntrenador /\ UNCHANGED procesos => PunteroEntrenador'
<1> USE DEF recursos, colas, info, red, procesos, config, planificador, block,
            deadlock, principal
<1>1. TipoRecursos /\ UNCHANGED recursos => TipoRecursos'
  BY DEF TipoRecursos
<1>2. TipoColas /\ UNCHANGED colas => TipoColas'
  BY DEF TipoColas
<1>3. TipoInfo /\ UNCHANGED <<info, gui>> => TipoInfo'
  BY DEF TipoInfo
<1>4. TipoRed /\ UNCHANGED red => TipoRed'
  BY DEF TipoRed
<1>5. TipoProcesos /\ UNCHANGED procesos => TipoProcesos'
  BY DEF TipoProcesos
<1>6. TipoProceso /\ UNCHANGED <<config, duenio, fallo>> => TipoProceso'
  BY DEF TipoProceso
<1>7. TipoPlanificador /\ UNCHANGED planificador => TipoPlanificador'
  BY DEF TipoPlanificador
<1>8. TipoBlock /\ UNCHANGED block => TipoBlock'
  BY DEF TipoBlock
<1>9. TipoDeadlock /\ UNCHANGED deadlock => TipoDeadlock'
  BY DEF TipoDeadlock
<1>10. TipoPrincipal /\ UNCHANGED principal => TipoPrincipal'
  BY DEF TipoPrincipal
<1>11. PunteroPlanificador /\ UNCHANGED <<planificador, colaReady>> => PunteroPlanificador'
  BY DEF PunteroPlanificador
<1>12. PunteroBlock /\ UNCHANGED block => PunteroBlock'
  BY DEF PunteroBlock
<1>13. PunteroDeadlock /\ UNCHANGED deadlock => PunteroDeadlock'
  BY DEF PunteroDeadlock
<1>14. PunteroPrincipal /\ UNCHANGED <<principal, pendientes>> => PunteroPrincipal'
  BY DEF PunteroPrincipal
<1>15. PunteroEntrenador /\ UNCHANGED procesos => PunteroEntrenador'
  BY DEF PunteroEntrenador
<1>16. (UNCHANGED colas => UNCHANGED colaReady) /\ (UNCHANGED red => UNCHANGED pendientes)
  OBVIOUS
<1> QED
  BY <1>1, <1>2, <1>3, <1>4, <1>5, <1>6, <1>7, <1>8, <1>9, <1>10, <1>11, <1>12,
     <1>13, <1>14, <1>15, <1>16

(***************************************************************************)
(* ...and what each step does touch, thread by thread.                     *)
(***************************************************************************)
LEMMA PlanificarTipos == Tipos /\ Planificar => Tipos'
<1> SUFFICES ASSUME Tipos, Planificar PROVE Tipos'
  OBVIOUS
<1> USE DEF Tipos, TypeOK, Punteros
<1>1. CASE P_Chequea
  <2>1. TipoPlanificador'
    BY <1>1 DEF P_Chequea, TipoPlanificador, EnP, TipoProceso
  <2>2. PunteroPlanificador'
    BY <1>1 DEF P_Chequea, PunteroPlanificador, EnP, colas
  <2>3. UNCHANGED <<recursos, colas, info, gui, red, procesos, config, duenio, fallo,
                  block, deadlock, principal>>
    BY <1>1 DEF P_Chequea
  <2> QED
    BY <2>1, <2>2, <2>3, SinCambio
<1>2. CASE P_Duerme
  <2>1. TipoPlanificador'
    BY <1>2 DEF P_Duerme, TipoPlanificador
  <2>2. PunteroPlanificador'
    BY <1>2 DEF P_Duerme, PunteroPlanificador, EnP, colas
  <2>3. UNCHANGED <<recursos, colas, info, gui, red, procesos, config, duenio, fallo,
                  block, deadlock, principal>>
    BY <1>2 DEF P_Duerme
  <2> QED
    BY <2>1, <2>2, <2>3, SinCambio
<1>3. CASE P_Otorga
  <2>1. /\ Head(colaReady) \in Conexiones /\ Tail(colaReady) \in Seq(Conexiones)
    BY <1>3, HeadTailProperties DEF P_Otorga, EnP, PunteroPlanificador, TipoColas
  <2>2. /\ aEntrenador' \in [Conexiones -> Seq(MsjGuardado)]
    BY <1>3, <2>1, EnviarUnoTipo DEF P_Otorga, TipoInfo
  <2>3. /\ msj' \in [Conexiones -> MsjGuardado]
    BY <1>3, <2>1, AccionTipo DEF P_Otorga, TipoInfo, Acciones
  <2>4. TipoColas'
    BY <1>3, <2>1 DEF P_Otorga, TipoColas
  <2>5. TipoInfo'
    BY <1>3, <2>1, <2>3 DEF P_Otorga, TipoInfo
  <2>6. TipoRed'
    BY <1>3, <2>2 DEF P_Otorga, TipoRed
  <2>7. TipoPlanificador'
    BY <1>3, <2>1 DEF P_Otorga, TipoPlanificador
  <2>8. PunteroPlanificador'
    BY <1>3, <2>1 DEF P_Otorga, PunteroPlanificador, EnP
  <2>9. UNCHANGED <<recursos, procesos, config, duenio, fallo, block, deadlock,
                  principal, pendientes>>
    BY <1>3 DEF P_Otorga
  <2> QED
    BY <2>4, <2>5, <2>6, <2>7, <2>8, <2>9, SinCambio
<1>4. CASE P_Atiende
  <2>1. /\ msj' \in [Conexiones -> MsjGuardado]
        /\ aEntrenador' \in [Conexiones -> Seq(MsjGuardado)]
        /\ colaReady' \in Seq(Conexiones)
    <3>1. CASE UNCHANGED <<msj, aEntrenador, colaReady>>
      BY <3>1 DEF TipoInfo, TipoRed, TipoColas
    <3>2. ASSUME NEW i \in Primero(PidenUbicacion), NEW q \in SinEntrenador(colaReady, Simbolo(colaReady[i])),
                 Enviar(colaReady[i], <<msj[colaReady[i]]>>),
                 msj' = [msj EXCEPT ![colaReady[i]].accion = "UBICACION_POKENEST_OTORGADA"],
                 colaReady' = Append(q, colaReady[i])
          PROVE  /\ msj' \in [Conexiones -> MsjGuardado]
                 /\ aEntrenador' \in [Conexiones -> Seq(MsjGuardado)]
                 /\ colaReady' \in Seq(Conexiones)
      <4>1. colaReady[i] \in Conexiones
        BY ElementOfSeq DEF Primero, PidenUbicacion, TipoColas
      <4>2. q \in Seq(Conexiones)
        BY SinEntrenadorTipo DEF TipoColas
      <4>3. msj' \in [Conexiones -> MsjGuardado]
        BY <3>2, <4>1, AccionTipo DEF Acciones
      <4>4. aEntrenador' \in [Conexiones -> Seq(MsjGuardado)]
        BY <3>2, <4>1, EnviarUnoTipo DEF TipoInfo
      <4> QED
        BY <3>2, <4>1, <4>2, <4>3, <4>4
    <3> QED
      BY <1>4, <3>1, <3>2 DEF P_Atiende
  <2>2. TipoColas'
    BY <1>4, <2>1 DEF P_Atiende, TipoColas
  <2>3. TipoInfo'
    BY <1>4, <2>1 DEF P_Atiende, TipoInfo
  <2>4. TipoRed'
    BY <1>4, <2>1 DEF P_Atiende, TipoRed
  <2>5. TipoPlanificador'
    BY <1>4 DEF P_Atiende, TipoPlanificador
  <2>6. PunteroPlanificador'
    BY <1>4 DEF P_Atiende, PunteroPlanificador, EnP
  <2>7. UNCHANGED <<recursos, procesos, config, duenio, fallo, block, deadlock,
                  principal, pendientes>>
    BY <1>4 DEF P_Atiende
  <2> QED
    BY <2>2, <2>3, <2>4, <2>5, <2>6, <2>7, SinCambio
<1>5. CASE P_Cercano
  <2>1. /\ colaReady' \in Seq(Conexiones)
        /\ entP' \in Conexiones \cup {Nadie}
        /\ pcP' = "recibe" => entP' \in Conexiones
        /\ pcP' \in {"cercano", "recibe"}
    <3>1. CASE UNCHANGED <<colaReady, entP, pcP>>
      BY <1>5, <3>1 DEF P_Cercano, EnP, TipoColas, TipoPlanificador
    <3>2. ASSUME NEW i \in Primero(MasCercanos),
                 colaReady' \in SinEntrenador(colaReady, Simbolo(colaReady[i])),
                 entP' = colaReady[i], pcP' = "recibe"
          PROVE  colaReady' \in Seq(Conexiones) /\ entP' \in Conexiones
      <4>1. colaReady[i] \in Conexiones
        BY ElementOfSeq DEF Primero, MasCercanos, Candidatos, TipoColas
      <4> QED
        BY <3>2, <4>1, SinEntrenadorTipo DEF TipoColas
    <3> QED
      BY <1>5, <3>1, <3>2 DEF P_Cercano
  <2>2. TipoColas'
    BY <1>5, <2>1 DEF P_Cercano, TipoColas
  <2>3. TipoProceso'
    BY <1>5 DEF P_Cercano, TipoProceso, config
  <2>4. TipoPlanificador'
    BY <1>5, <2>1 DEF P_Cercano, TipoPlanificador
  <2>5. PunteroPlanificador'
    BY <1>5, <2>1 DEF P_Cercano, PunteroPlanificador, EnP
  <2>6. UNCHANGED <<recursos, info, gui, red, procesos, block, deadlock, principal>>
    BY <1>5 DEF P_Cercano
  <2> QED
    BY <2>2, <2>3, <2>4, <2>5, <2>6, SinCambio
<1>6. CASE P_RecibeMoverse
  <2>1. entP \in Conexiones
    BY <1>6 DEF P_RecibeMoverse, EnP, PunteroPlanificador
  <2>2. PICK m \in Proximo(entP) :
          /\ Tomar(entP)
          /\ gui' = IF m.accion = "MOVERSE" /\ gui[Simbolo(entP)] # <<>>
                      THEN [gui EXCEPT ![Simbolo(entP)][1] = Mover(@, m.movimiento)]
                      ELSE gui
          /\ quantum' = IF algoritmo = "SRDF" THEN quantum
                          ELSE [quantum EXCEPT ![entP] = @ + 1]
          /\ \/ /\ Enviar(entP, <<m>>)
                /\ msj' = [msj EXCEPT ![entP] = Con(m, "LIBERADO")]
             \/ /\ msj' = [msj EXCEPT ![entP] = m]
                /\ UNCHANGED aEntrenador
    BY <1>6 DEF P_RecibeMoverse
  <2>3. m \in Mensaje /\ m \in MsjGuardado /\ aMapa[entP] # <<>>
    BY <2>1, ProximoTipo
  <2>4. aMapa' \in [Conexiones -> Seq(Mensaje)]
    BY <2>1, <2>2, <2>3, TomarTipo
  <2>5. aEntrenador' \in [Conexiones -> Seq(MsjGuardado)]
    BY <2>1, <2>2, <2>3, EnviarUnoTipo DEF TipoRed
  <2>6. msj' \in [Conexiones -> MsjGuardado]
    BY <2>1, <2>2, <2>3, ConTipo DEF TipoInfo
  <2>7. gui' \in [Entrenadores -> Seq(Posicion)]
    <3>1. CASE m.accion = "MOVERSE" /\ gui[Simbolo(entP)] # <<>>
      <4>1. gui[Simbolo(entP)] \in Seq(Posicion) /\ 1 \in 1 .. Len(gui[Simbolo(entP)])
        BY <2>1, <3>1, SimboloTipo, EmptySeq DEF TipoInfo
      <4>2. Mover(gui[Simbolo(entP)][1], m.movimiento) \in Posicion
        BY <2>3, <4>1, ElementOfSeq, MoverTipo DEF Mensaje
      <4>3. [gui[Simbolo(entP)] EXCEPT ![1] = Mover(@, m.movimiento)] \in Seq(Posicion)
        BY <4>1, <4>2, ExceptSeq
      <4> QED
        BY <2>2, <3>1, <4>3 DEF TipoInfo
    <3>2. CASE ~(m.accion = "MOVERSE" /\ gui[Simbolo(entP)] # <<>>)
      BY <2>2, <3>2 DEF TipoInfo
    <3> QED
      BY <3>1, <3>2
  <2>8. quantum' \in [Conexiones -> Nat]
    BY <2>1, <2>2 DEF TipoInfo
  <2>9. TipoColas'
    BY <1>6, <2>1 DEF P_RecibeMoverse, TipoColas
  <2>10. TipoInfo'
    BY <1>6, <2>6, <2>7, <2>8 DEF P_RecibeMoverse, TipoInfo
  <2>11. TipoRed'
    BY <1>6, <2>4, <2>5 DEF P_RecibeMoverse, TipoRed
  <2>12. TipoProceso'
    BY <1>6 DEF P_RecibeMoverse, TipoProceso, config
  <2>13. TipoPlanificador'
    BY <1>6, <2>1 DEF P_RecibeMoverse, TipoPlanificador
  <2>14. PunteroPlanificador'
    BY <1>6, <2>1 DEF P_RecibeMoverse, PunteroPlanificador, EnP
  <2>15. UNCHANGED <<recursos, procesos, block, deadlock, principal, pendientes>>
    BY <1>6 DEF P_RecibeMoverse
  <2> QED
    BY <2>9, <2>10, <2>11, <2>12, <2>13, <2>14, <2>15, SinCambio
<1>7. CASE P_RecibeCapturar
  <2>1. entP \in Conexiones
    BY <1>7 DEF P_RecibeCapturar, EnP, PunteroPlanificador
  <2>2. aMapa' \in [Conexiones -> Seq(Mensaje)] /\ msj' \in [Conexiones -> MsjGuardado]
    BY <1>7, <2>1, ProximoTipo, TomarTipo DEF P_RecibeCapturar, TipoInfo
  <2>3. TipoColas'
    BY <1>7, <2>1 DEF P_RecibeCapturar, TipoColas
  <2>4. TipoInfo'
    BY <1>7, <2>1, <2>2 DEF P_RecibeCapturar, TipoInfo
  <2>5. TipoRed'
    BY <1>7, <2>1, <2>2 DEF P_RecibeCapturar, TipoRed
  <2>6. TipoPlanificador'
    BY <1>7 DEF P_RecibeCapturar, TipoPlanificador
  <2>7. PunteroPlanificador'
    BY <1>7 DEF P_RecibeCapturar, PunteroPlanificador, EnP
  <2>8. UNCHANGED <<recursos, procesos, config, duenio, fallo, block, deadlock,
                  principal, pendientes>>
    BY <1>7 DEF P_RecibeCapturar
  <2> QED
    BY <2>3, <2>4, <2>5, <2>6, <2>7, <2>8, SinCambio
<1>8. CASE P_AvisaVacio
  <2>1. TipoPlanificador'
    BY <1>8 DEF P_AvisaVacio, TipoPlanificador
  <2>2. PunteroPlanificador'
    BY <1>8 DEF P_AvisaVacio, PunteroPlanificador, EnP, colas
  <2>3. UNCHANGED <<recursos, colas, info, gui, red, procesos, config, duenio, fallo,
                  block, deadlock, principal>>
    BY <1>8 DEF P_AvisaVacio
  <2> QED
    BY <2>1, <2>2, <2>3, SinCambio
<1>9. CASE P_SenalVacio
  <2>1. TipoPlanificador'
    BY <1>9 DEF P_SenalVacio, TipoPlanificador
  <2>2. TipoBlock'
    BY <1>9 DEF P_SenalVacio, TipoBlock, SenalBlockEmpty
  <2>3. PunteroPlanificador'
    BY <1>9 DEF P_SenalVacio, PunteroPlanificador, EnP, colas
  <2>4. PunteroBlock'
    BY <1>9 DEF P_SenalVacio, PunteroBlock, EnP, SenalBlockEmpty
  <2>5. UNCHANGED <<recursos, colas, info, gui, red, procesos, config, duenio, fallo,
                  deadlock, principal>>
    BY <1>9 DEF P_SenalVacio
  <2> QED
    BY <2>1, <2>2, <2>3, <2>4, <2>5, SinCambio
<1>10. CASE P_SenalBlock
  <2>1. TipoPlanificador'
    BY <1>10 DEF P_SenalBlock, TipoPlanificador
  <2>2. TipoBlock'
    BY <1>10 DEF P_SenalBlock, TipoBlock, SenalBlock
  <2>3. PunteroPlanificador'
    BY <1>10 DEF P_SenalBlock, PunteroPlanificador, EnP, colas
  <2>4. PunteroBlock'
    BY <1>10 DEF P_SenalBlock, PunteroBlock, EnP, SenalBlock
  <2>5. UNCHANGED <<recursos, colas, info, gui, red, procesos, config, duenio, fallo,
                  deadlock, principal>>
    BY <1>10 DEF P_SenalBlock
  <2> QED
    BY <2>1, <2>2, <2>3, <2>4, <2>5, SinCambio
<1>11. CASE P_RecibeFin
  <2>1. entP \in Conexiones
    BY <1>11 DEF P_RecibeFin, EnP, PunteroPlanificador
  <2>2. aMapa' \in [Conexiones -> Seq(Mensaje)] /\ msj' \in [Conexiones -> MsjGuardado]
    <3>1. CASE GuardarNull(entP) /\ UNCHANGED aMapa
      BY <2>1, <3>1, GuardarNullTipo DEF TipoRed
    <3>2. ASSUME NEW m \in Proximo(entP), Tomar(entP), msj' = [msj EXCEPT ![entP] = m]
          PROVE  aMapa' \in [Conexiones -> Seq(Mensaje)] /\ msj' \in [Conexiones -> MsjGuardado]
      BY <2>1, <3>2, ProximoTipo, TomarTipo DEF TipoInfo
    <3> QED
      BY <1>11, <3>1, <3>2 DEF P_RecibeFin
  <2>3. TipoInfo'
    BY <1>11, <2>2 DEF P_RecibeFin, TipoInfo
  <2>4. TipoRed'
    BY <1>11, <2>2 DEF P_RecibeFin, TipoRed
  <2>5. TipoPlanificador'
    BY <1>11 DEF P_RecibeFin, TipoPlanificador
  <2>6. PunteroPlanificador'
    BY <1>11 DEF P_RecibeFin, PunteroPlanificador, EnP, colas
  <2>7. UNCHANGED <<recursos, colas, procesos, config, duenio, fallo, block, deadlock,
                  principal, pendientes>>
    BY <1>11 DEF P_RecibeFin
  <2> QED
    BY <2>3, <2>4, <2>5, <2>6, <2>7, SinCambio
<1> QED
  BY <1>1, <1>2, <1>3, <1>4, <1>5, <1>6, <1>7, <1>8, <1>9, <1>10, <1>11 DEF Planificar

LEMMA BloquearTipos == Tipos /\ Bloquear => Tipos'
<1> SUFFICES ASSUME Tipos, Bloquear PROVE Tipos'
  OBVIOUS
<1> USE DEF Tipos, TypeOK, Punteros
<1>1. CASE B_Chequea
  <2>1. TipoBlock'
    BY <1>1 DEF B_Chequea, TipoBlock
  <2>2. PunteroBlock'
    BY <1>1 DEF B_Chequea, PunteroBlock, EnB
  <2>3. UNCHANGED <<recursos, colas, info, gui, red, procesos, config, duenio, fallo,
                  planificador, deadlock, principal>>
    BY <1>1 DEF B_Chequea
  <2> QED
    BY <2>1, <2>2, <2>3, SinCambio
<1>2. CASE B_DuermeVacio
  <2>1. TipoBlock'
    BY <1>2 DEF B_DuermeVacio, TipoBlock
  <2>2. PunteroBlock'
    BY <1>2 DEF B_DuermeVacio, PunteroBlock, EnB
  <2>3. UNCHANGED <<recursos, colas, info, gui, red, procesos, config, duenio, fallo,
                  planificador, deadlock, principal>>
    BY <1>2 DEF B_DuermeVacio
  <2> QED
    BY <2>1, <2>2, <2>3, SinCambio
<1>3. CASE B_Lock
  <2>1. /\ colaBlock' \in Seq(Conexiones)
        /\ entB' \in Conexiones \cup {Nadie}
        /\ pcB' \in {"lock", "pokemon"}
        /\ pcB' = "pokemon" => entB' \in Conexiones
    BY <1>3, HeadTailProperties DEF B_Lock, EnB, TipoColas, TipoBlock
  <2>2. TipoColas'
    BY <1>3, <2>1 DEF B_Lock, TipoColas
  <2>3. TipoProceso'
    BY <1>3 DEF B_Lock, TipoProceso, config
  <2>4. TipoBlock'
    BY <1>3, <2>1 DEF B_Lock, TipoBlock
  <2>5. PunteroBlock'
    BY <1>3, <2>1 DEF B_Lock, PunteroBlock, EnB
  <2>6. UNCHANGED <<recursos, info, gui, red, procesos, planificador, deadlock,
                  principal, colaReady>>
    BY <1>3 DEF B_Lock
  <2> QED
    BY <2>2, <2>3, <2>4, <2>5, <2>6, SinCambio
<1>4. CASE B_Entrega
  <2>1. entB \in Conexiones /\ msj[entB] \in MsjGuardado
    BY <1>4 DEF B_Entrega, EnB, PunteroBlock, TipoInfo
  <2>2. /\ TipoRecursos'
        /\ aEntrenador' \in [Conexiones -> Seq(MsjGuardado)]
        /\ fallo' \in {"no", "nulo", "liberada", "trama", "sigpipe"}
    BY <1>4, <2>1, EntregarTipo DEF B_Entrega
  <2>3. TipoRed'
    BY <1>4, <2>2 DEF B_Entrega, TipoRed
  <2>4. TipoProceso'
    BY <1>4, <2>2 DEF B_Entrega, TipoProceso, config
  <2>5. TipoBlock'
    BY <1>4 DEF B_Entrega, TipoBlock
  <2>6. PunteroBlock'
    BY <1>4, <2>1 DEF B_Entrega, PunteroBlock, EnB
  <2>7. UNCHANGED <<colas, info, gui, procesos, planificador, deadlock, principal,
                  pendientes>>
    BY <1>4 DEF B_Entrega
  <2> QED
    BY <2>2, <2>3, <2>4, <2>5, <2>6, <2>7, SinCambio
<1>5. CASE B_Rebloquea
  <2>1. entB \in Conexiones
    BY <1>5 DEF B_Rebloquea, EnB, PunteroBlock
  <2>2. TipoColas'
    BY <1>5, <2>1 DEF B_Rebloquea, TipoColas
  <2>3. TipoInfo'
    BY <1>5, <2>1 DEF B_Rebloquea, TipoInfo
  <2>4. TipoBlock'
    BY <1>5 DEF B_Rebloquea, TipoBlock
  <2>5. PunteroBlock'
    BY <1>5 DEF B_Rebloquea, PunteroBlock, EnB
  <2>6. UNCHANGED <<recursos, red, procesos, config, duenio, fallo, planificador,
                  deadlock, principal, colaReady>>
    BY <1>5 DEF B_Rebloquea
  <2> QED
    BY <2>2, <2>3, <2>4, <2>5, <2>6, SinCambio
<1>6. CASE B_Pregunta
  <2>1. TipoProceso'
    BY <1>6 DEF B_Pregunta, TipoProceso, config
  <2>2. TipoBlock'
    BY <1>6 DEF B_Pregunta, TipoBlock
  <2>3. PunteroBlock'
    BY <1>6 DEF B_Pregunta, PunteroBlock, EnB
  <2>4. UNCHANGED <<recursos, colas, info, gui, red, procesos, planificador, deadlock,
                  principal>>
    BY <1>6 DEF B_Pregunta
  <2> QED
    BY <2>1, <2>2, <2>3, <2>4, SinCambio
<1>7. CASE B_DuermeBlock
  <2>1. TipoBlock'
    BY <1>7 DEF B_DuermeBlock, TipoBlock
  <2>2. PunteroBlock'
    BY <1>7 DEF B_DuermeBlock, PunteroBlock, EnB
  <2>3. UNCHANGED <<recursos, colas, info, gui, red, procesos, config, duenio, fallo,
                  planificador, deadlock, principal>>
    BY <1>7 DEF B_DuermeBlock
  <2> QED
    BY <2>1, <2>2, <2>3, SinCambio
<1>8. CASE B_Despierta
  <2>1. TipoProceso'
    BY <1>8 DEF B_Despierta, TipoProceso, config
  <2>2. TipoBlock'
    BY <1>8 DEF B_Despierta, TipoBlock
  <2>3. PunteroBlock'
    BY <1>8 DEF B_Despierta, PunteroBlock, EnB
  <2>4. UNCHANGED <<recursos, colas, info, gui, red, procesos, planificador, deadlock,
                  principal>>
    BY <1>8 DEF B_Despierta
  <2> QED
    BY <2>1, <2>2, <2>3, <2>4, SinCambio
<1>9. CASE B_Recibe
  <2>1. entB \in Conexiones
    BY <1>9 DEF B_Recibe, EnB, PunteroBlock
  <2>2. aMapa' \in [Conexiones -> Seq(Mensaje)] /\ msj' \in [Conexiones -> MsjGuardado]
    BY <1>9, <2>1, ProximoTipo, TomarTipo DEF B_Recibe, TipoInfo
  <2>3. TipoColas'
    BY <1>9, <2>1 DEF B_Recibe, TipoColas
  <2>4. TipoInfo'
    BY <1>9, <2>1, <2>2 DEF B_Recibe, TipoInfo
  <2>5. TipoRed'
    BY <1>9, <2>1, <2>2 DEF B_Recibe, TipoRed
  <2>6. TipoProceso'
    BY <1>9 DEF B_Recibe, TipoProceso, config
  <2>7. TipoBlock'
    BY <1>9 DEF B_Recibe, TipoBlock
  <2>8. PunteroPlanificador'
    BY <1>9, <2>1 DEF B_Recibe, PunteroPlanificador, EnB, TipoColas, planificador
  <2>9. PunteroBlock'
    BY <1>9 DEF B_Recibe, PunteroBlock, EnB
  <2>10. UNCHANGED <<recursos, procesos, planificador, deadlock, principal, pendientes>>
    BY <1>9 DEF B_Recibe
  <2> QED
    BY <2>3, <2>4, <2>5, <2>6, <2>7, <2>8, <2>9, <2>10, SinCambio
<1>10. CASE B_RecibeFin
  <2>1. entB \in Conexiones
    BY <1>10 DEF B_RecibeFin, EnB, PunteroBlock
  <2>2. aMapa' \in [Conexiones -> Seq(Mensaje)] /\ msj' \in [Conexiones -> MsjGuardado]
    <3>1. CASE GuardarNull(entB) /\ UNCHANGED aMapa
      BY <2>1, <3>1, GuardarNullTipo DEF TipoRed
    <3>2. ASSUME NEW m \in Proximo(entB), Tomar(entB),
                 msj' = [msj EXCEPT ![entB] = Con(m, "LIBERADO")]
          PROVE  aMapa' \in [Conexiones -> Seq(Mensaje)] /\ msj' \in [Conexiones -> MsjGuardado]
      BY <2>1, <3>2, ProximoTipo, TomarTipo, ConTipo DEF TipoInfo
    <3> QED
      BY <1>10, <3>1, <3>2 DEF B_RecibeFin
  <2>3. TipoInfo'
    BY <1>10, <2>2 DEF B_RecibeFin, TipoInfo
  <2>4. TipoRed'
    BY <1>10, <2>2 DEF B_RecibeFin, TipoRed
  <2>5. TipoProceso'
    BY <1>10 DEF B_RecibeFin, TipoProceso, config
  <2>6. TipoBlock'
    BY <1>10 DEF B_RecibeFin, TipoBlock
  <2>7. PunteroBlock'
    BY <1>10 DEF B_RecibeFin, PunteroBlock, EnB
  <2>8. UNCHANGED <<recursos, colas, procesos, planificador, deadlock, principal,
                  pendientes>>
    BY <1>10 DEF B_RecibeFin
  <2> QED
    BY <2>3, <2>4, <2>5, <2>6, <2>7, <2>8, SinCambio
<1>11. CASE B_AvisaReady
  <2>1. TipoBlock'
    BY <1>11 DEF B_AvisaReady, TipoBlock
  <2>2. PunteroBlock'
    BY <1>11 DEF B_AvisaReady, PunteroBlock, EnB
  <2>3. UNCHANGED <<recursos, colas, info, gui, red, procesos, config, duenio, fallo,
                  planificador, deadlock, principal>>
    BY <1>11 DEF B_AvisaReady
  <2> QED
    BY <2>1, <2>2, <2>3, SinCambio
<1>12. CASE B_SenalReady
  <2>1. TipoPlanificador'
    BY <1>12 DEF B_SenalReady, TipoPlanificador, SenalPlanificador
  <2>2. TipoBlock'
    BY <1>12 DEF B_SenalReady, TipoBlock
  <2>3. PunteroPlanificador'
    BY <1>12 DEF B_SenalReady, PunteroPlanificador, EnB, SenalPlanificador, colas
  <2>4. PunteroBlock'
    BY <1>12 DEF B_SenalReady, PunteroBlock, EnB
  <2>5. UNCHANGED <<recursos, colas, info, gui, red, procesos, config, duenio, fallo,
                  deadlock, principal>>
    BY <1>12 DEF B_SenalReady
  <2> QED
    BY <2>1, <2>2, <2>3, <2>4, <2>5, SinCambio
<1> QED
  BY <1>1, <1>2, <1>3, <1>4, <1>5, <1>6, <1>7, <1>8, <1>9, <1>10, <1>11, <1>12 DEF Bloquear

LEMMA InterbloqueoTipos == Tipos /\ Interbloqueo => Tipos'
<1> SUFFICES ASSUME Tipos, Interbloqueo PROVE Tipos'
  OBVIOUS
<1> USE DEF Tipos, TypeOK, Punteros
<1>1. CASE D_Chequea
  <2>1. TipoDeadlock'
    BY <1>1 DEF D_Chequea, TipoDeadlock
  <2>2. PunteroDeadlock'
    BY <1>1 DEF D_Chequea, PunteroDeadlock, EnD
  <2>3. UNCHANGED <<recursos, colas, info, gui, red, procesos, config, duenio, fallo,
                  planificador, block, principal>>
    BY <1>1 DEF D_Chequea
  <2> QED
    BY <2>1, <2>2, <2>3, SinCambio
<1>2. CASE D_Lock
  <2>1. TipoProceso'
    BY <1>2 DEF D_Lock, TipoProceso, config
  <2>2. TipoDeadlock'
    BY <1>2 DEF D_Lock, TipoDeadlock, TipoColas
  <2>3. PunteroDeadlock'
    BY <1>2 DEF D_Lock, PunteroDeadlock, EnD
  <2>4. UNCHANGED <<recursos, colas, info, gui, red, procesos, planificador, block,
                  principal>>
    BY <1>2 DEF D_Lock
  <2> QED
    BY <2>1, <2>2, <2>3, <2>4, SinCambio
<1>3. CASE D_Calcula
  <2>1. /\ pelea' \in Seq(Conexiones)
        /\ pcD' \in {"suelta", "desafia"}
        /\ pcD' = "desafia" => pelea' # <<>>
    <3>1. PICK orden \in Ordenes(Miembros(bloqueados)) :
            LET enDeadlock == GetDeadlock(CalcularMatriz(TablasDeDeadlock, orden),
                                          Miembros(bloqueados))
            IN  /\ pelea' \in Ordenes(enDeadlock)
                /\ pcD' = IF enDeadlock = {} THEN "suelta" ELSE "desafia"
      BY <1>3 DEF D_Calcula
    <3> DEFINE enDeadlock == GetDeadlock(CalcularMatriz(TablasDeDeadlock, orden),
                                         Miembros(bloqueados))
    <3>2. enDeadlock \in SUBSET Miembros(bloqueados)
      BY DEF GetDeadlock
    <3>3. pelea' \in Ordenes(enDeadlock) /\ pcD' = IF enDeadlock = {} THEN "suelta" ELSE "desafia"
      BY <3>1
    <3> HIDE DEF enDeadlock
    <3> QED
      BY <3>2, <3>3, OrdenesTipo DEF TipoDeadlock
  <2>2. TipoProceso'
    BY <1>3 DEF D_Calcula, TipoProceso, config
  <2>3. TipoDeadlock'
    BY <1>3, <2>1 DEF D_Calcula, TipoDeadlock
  <2>4. PunteroDeadlock'
    BY <1>3, <2>1 DEF D_Calcula, PunteroDeadlock, EnD
  <2>5. UNCHANGED <<recursos, colas, info, gui, red, procesos, planificador, block,
                  principal>>
    BY <1>3 DEF D_Calcula
  <2> QED
    BY <2>2, <2>3, <2>4, <2>5, SinCambio
<1>4. CASE D_Desafia
  <2>1. pelea # <<>> /\ Head(pelea) \in Conexiones
    BY <1>4, HeadTailProperties DEF D_Desafia, EnD, PunteroDeadlock, TipoDeadlock
  <2>2. msj' \in [Conexiones -> MsjGuardado]
    BY <1>4, <2>1, AccionTipo DEF D_Desafia, Acciones
  <2>3. aEntrenador' \in [Conexiones -> Seq(MsjGuardado)]
    <3>1. Con(msj[Head(pelea)], "BATALLA_POKEMON") \in MsjGuardado
      BY <2>1, ConTipo DEF TipoInfo, Acciones
    <3> QED
      BY <1>4, <2>1, <3>1, EnviarUnoTipo DEF D_Desafia
  <2>4. TipoInfo'
    BY <1>4, <2>2 DEF D_Desafia, TipoInfo
  <2>5. TipoRed'
    BY <1>4, <2>3 DEF D_Desafia, TipoRed
  <2>6. TipoProceso'
    BY <1>4 DEF D_Desafia, TipoProceso, UsarMsj, config
  <2>7. TipoDeadlock'
    BY <1>4 DEF D_Desafia, TipoDeadlock
  <2>8. PunteroDeadlock'
    BY <1>4, <2>1 DEF D_Desafia, PunteroDeadlock, EnD
  <2>9. UNCHANGED <<recursos, colas, procesos, planificador, block, principal,
                  pendientes>>
    BY <1>4 DEF D_Desafia
  <2> QED
    BY <2>4, <2>5, <2>6, <2>7, <2>8, <2>9, SinCambio
<1>5. CASE D_Elige
  <2>1. pelea # <<>> /\ Head(pelea) \in Conexiones /\ Tail(pelea) \in Seq(Conexiones)
    BY <1>5, HeadTailProperties DEF D_Elige, EnD, PunteroDeadlock, TipoDeadlock
  <2>2. aMapa' \in [Conexiones -> Seq(Mensaje)]
    BY <1>5, <2>1, ProximoTipo, TomarTipo DEF D_Elige
  <2>3. TipoRed'
    BY <1>5, <2>2 DEF D_Elige, TipoRed
  <2>4. TipoProceso'
    BY <1>5 DEF D_Elige, TipoProceso, config
  <2>5. TipoDeadlock'
    BY <1>5, <2>1 DEF D_Elige, TipoDeadlock, Siguiente
  <2>6. PunteroDeadlock'
    BY <1>5, <2>1 DEF D_Elige, PunteroDeadlock, EnD, Siguiente
  <2>7. UNCHANGED <<recursos, colas, info, gui, procesos, planificador, block,
                  principal, pendientes>>
    BY <1>5 DEF D_Elige
  <2> QED
    BY <2>3, <2>4, <2>5, <2>6, <2>7, SinCambio
<1>6. CASE D_EligeNull
  <2>1. TipoDeadlock'
    BY <1>6 DEF D_EligeNull, TipoDeadlock, TipoColas
  <2>2. PunteroDeadlock'
    BY <1>6 DEF D_EligeNull, PunteroDeadlock, EnD
  <2>3. UNCHANGED <<recursos, colas, info, gui, red, procesos, config, duenio, fallo,
                  planificador, block, principal>>
    BY <1>6 DEF D_EligeNull
  <2> QED
    BY <2>1, <2>2, <2>3, SinCambio
<1>7. CASE D_SacaCaido
  <2>1. Head(pelea) \in Conexiones /\ Tail(pelea) \in Seq(Conexiones)
    BY <1>7, HeadTailProperties DEF D_SacaCaido, EnD, PunteroDeadlock, TipoDeadlock
  <2>2. /\ colaBlock' \in Seq(Conexiones) /\ tamD' \in Nat
          /\ fallo' \in {"no", "nulo", "liberada", "trama", "sigpipe"}
    BY <1>7, SacarTipo DEF D_SacaCaido
  <2>3. TipoColas'
    BY <1>7, <2>2 DEF D_SacaCaido, TipoColas
  <2>4. TipoProceso'
    BY <1>7, <2>2 DEF D_SacaCaido, TipoProceso, config
  <2>5. TipoDeadlock'
    BY <1>7, <2>1, <2>2 DEF D_SacaCaido, TipoDeadlock, Siguiente
  <2>6. PunteroPlanificador'
    BY <1>7 DEF D_SacaCaido, PunteroPlanificador, EnD, planificador
  <2>7. PunteroDeadlock'
    BY <1>7, <2>1 DEF D_SacaCaido, PunteroDeadlock, EnD, Siguiente
  <2>8. UNCHANGED <<recursos, info, gui, red, procesos, planificador, block, principal>>
    BY <1>7 DEF D_SacaCaido
  <2> QED
    BY <2>3, <2>4, <2>5, <2>6, <2>7, <2>8, SinCambio
<1>8. CASE D_Libera
  <2>1. /\ TipoRecursos'
        /\ entD' \in Conexiones
        /\ peleadores' \in Seq(Conexiones)
    BY <1>8, ElementOfSeq, QuitarTipo, LiberarTipo DEF D_Libera, TipoDeadlock
  <2>2. TipoDeadlock'
    BY <1>8, <2>1 DEF D_Libera, TipoDeadlock, TipoColas
  <2>3. PunteroDeadlock'
    BY <1>8, <2>1 DEF D_Libera, PunteroDeadlock, EnD
  <2>4. UNCHANGED <<colas, info, gui, red, procesos, config, duenio, fallo,
                  planificador, block, principal>>
    BY <1>8 DEF D_Libera
  <2> QED
    BY <2>1, <2>2, <2>3, <2>4, SinCambio
<1>9. CASE D_Mata
  <2>1. entD \in Conexiones
    BY <1>9 DEF D_Mata, EnD, PunteroDeadlock
  <2>2. /\ colaBlock' \in Seq(Conexiones) /\ tamD' \in Nat
        /\ fallo' \in {"no", "nulo", "liberada", "trama", "sigpipe"}
    BY <1>9, SacarTipo DEF D_Mata
  <2>3. msj' \in [Conexiones -> MsjGuardado]
    BY <1>9, <2>1, AccionTipo DEF D_Mata, Acciones
  <2>4. aEntrenador' \in [Conexiones -> Seq(MsjGuardado)]
    <3>1. Con(msj[entD], "MUERTE_ENTRENADOR") \in MsjGuardado
      BY <2>1, ConTipo DEF TipoInfo, Acciones
    <3> QED
      BY <1>9, <2>1, <3>1, EnviarUnoTipo DEF D_Mata
  <2>5. TipoColas'
    BY <1>9, <2>2 DEF D_Mata, TipoColas
  <2>6. TipoInfo'
    BY <1>9, <2>3 DEF D_Mata, TipoInfo
  <2>7. TipoRed'
    BY <1>9, <2>4 DEF D_Mata, TipoRed
  <2>8. TipoProceso'
    BY <1>9, <2>2 DEF D_Mata, TipoProceso, config
  <2>9. TipoDeadlock'
    BY <1>9, <2>2 DEF D_Mata, TipoDeadlock
  <2>10. PunteroPlanificador'
    BY <1>9 DEF D_Mata, PunteroPlanificador, EnD, planificador
  <2>11. PunteroDeadlock'
    BY <1>9 DEF D_Mata, PunteroDeadlock, EnD
  <2>12. UNCHANGED <<recursos, procesos, planificador, block, principal, pendientes>>
    BY <1>9 DEF D_Mata
  <2> QED
    BY <2>5, <2>6, <2>7, <2>8, <2>9, <2>10, <2>11, <2>12, SinCambio
<1>10. CASE D_Entrega
  <2>1. Head(peleadores) \in Conexiones
    BY <1>10, HeadTailProperties DEF D_Entrega, TipoDeadlock
  <2>2. /\ Con(msj[Head(peleadores)], "CAPTURAR_POKEMON") \in MsjGuardado
        /\ msj' \in [Conexiones -> MsjGuardado]
    BY <1>10, <2>1, ConTipo DEF D_Entrega, TipoInfo, Acciones
  <2>3. /\ TipoRecursos'
        /\ aEntrenador' \in [Conexiones -> Seq(MsjGuardado)]
        /\ fallo' \in {"no", "nulo", "liberada", "trama", "sigpipe"}
    BY <1>10, <2>1, <2>2, EntregarTipo DEF D_Entrega
  <2>4. TipoInfo'
    BY <1>10, <2>2 DEF D_Entrega, TipoInfo
  <2>5. TipoRed'
    BY <1>10, <2>3 DEF D_Entrega, TipoRed
  <2>6. TipoProceso'
    BY <1>10, <2>3 DEF D_Entrega, TipoProceso, config
  <2>7. TipoDeadlock'
    BY <1>10 DEF D_Entrega, TipoDeadlock, TipoColas
  <2>8. PunteroDeadlock'
    BY <1>10 DEF D_Entrega, PunteroDeadlock, EnD
  <2>9. UNCHANGED <<colas, procesos, planificador, block, principal, pendientes>>
    BY <1>10 DEF D_Entrega
  <2> QED
    BY <2>3, <2>4, <2>5, <2>6, <2>7, <2>8, <2>9, SinCambio
<1>11. CASE D_Saca
  <2>1. /\ colaBlock' \in Seq(Conexiones) /\ tamD' \in Nat
          /\ fallo' \in {"no", "nulo", "liberada", "trama", "sigpipe"}
    BY <1>11, SacarTipo DEF D_Saca
  <2>2. TipoColas'
    BY <1>11, <2>1 DEF D_Saca, TipoColas
  <2>3. TipoProceso'
    BY <1>11, <2>1 DEF D_Saca, TipoProceso, config
  <2>4. TipoDeadlock'
    BY <1>11, <2>1 DEF D_Saca, TipoDeadlock
  <2>5. PunteroPlanificador'
    BY <1>11 DEF D_Saca, PunteroPlanificador, EnD, planificador
  <2>6. PunteroDeadlock'
    BY <1>11 DEF D_Saca, PunteroDeadlock, EnD
  <2>7. UNCHANGED <<recursos, info, gui, red, procesos, planificador, block, principal>>
    BY <1>11 DEF D_Saca
  <2> QED
    BY <2>2, <2>3, <2>4, <2>5, <2>6, <2>7, SinCambio
<1>12. CASE D_Espera
  <2>1. Head(peleadores) \in Conexiones /\ Tail(peleadores) \in Seq(Conexiones)
    BY <1>12, HeadTailProperties DEF D_Espera, EnD, PunteroDeadlock, TipoDeadlock
  <2>2. aMapa' \in [Conexiones -> Seq(Mensaje)] /\ msj' \in [Conexiones -> MsjGuardado]
    BY <1>12, <2>1, ProximoTipo, TomarTipo DEF D_Espera, TipoInfo
  <2>3. PICK m \in Proximo(Head(peleadores)) :
          IF m.accion = "OBJETIVO_CUMPLIDO"
            THEN pcD' = "entrega" /\ UNCHANGED colaReady
            ELSE pcD' = "avisaReady" /\ colaReady' = Append(colaReady, Head(peleadores))
    BY <1>12 DEF D_Espera
  <2>4. colaReady' \in Seq(Conexiones)
    <3>1. CASE UNCHANGED colaReady
      BY <3>1 DEF TipoColas
    <3>2. CASE colaReady' = Append(colaReady, Head(peleadores))
      BY <2>1, <3>2 DEF TipoColas
    <3> QED
      BY <2>3, <3>1, <3>2
  <2>5. UNCHANGED colaBlock
    BY <1>12 DEF D_Espera
  <2>6. TipoColas'
    BY <1>12, <2>4, <2>5 DEF D_Espera, TipoColas
  <2>7. TipoInfo'
    BY <1>12, <2>2 DEF D_Espera, TipoInfo
  <2>8. TipoRed'
    BY <1>12, <2>2 DEF D_Espera, TipoRed
  <2>9. TipoProceso'
    BY <1>12 DEF D_Espera, TipoProceso, config
  <2>10. TipoDeadlock'
    BY <1>12, <2>1 DEF D_Espera, TipoDeadlock
  <2>11. PunteroPlanificador'
    BY <1>12, <2>1 DEF D_Espera, PunteroPlanificador, EnD, TipoColas, planificador
  <2>12. PunteroDeadlock'
    BY <1>12 DEF D_Espera, PunteroDeadlock, EnD
  <2>13. UNCHANGED <<recursos, procesos, planificador, block, principal, pendientes>>
    BY <1>12 DEF D_Espera
  <2> QED
    BY <2>6, <2>7, <2>8, <2>9, <2>10, <2>11, <2>12, <2>13, SinCambio
<1>13. CASE D_EsperaNull
  <2>1. TipoProceso'
    BY <1>13 DEF D_EsperaNull, TipoProceso, config
  <2>2. UNCHANGED <<recursos, colas, info, gui, red, procesos, planificador, block,
                  deadlock, principal>>
    BY <1>13 DEF D_EsperaNull
  <2> QED
    BY <2>1, <2>2, SinCambio
<1>14. CASE D_AvisaReady
  <2>1. TipoDeadlock'
    BY <1>14 DEF D_AvisaReady, TipoDeadlock
  <2>2. PunteroDeadlock'
    BY <1>14 DEF D_AvisaReady, PunteroDeadlock, EnD
  <2>3. UNCHANGED <<recursos, colas, info, gui, red, procesos, config, duenio, fallo,
                  planificador, block, principal>>
    BY <1>14 DEF D_AvisaReady
  <2> QED
    BY <2>1, <2>2, <2>3, SinCambio
<1>15. CASE D_SenalReady
  <2>1. TipoPlanificador'
    BY <1>15 DEF D_SenalReady, TipoPlanificador, SenalPlanificador
  <2>2. TipoDeadlock'
    BY <1>15 DEF D_SenalReady, TipoDeadlock
  <2>3. PunteroPlanificador'
    BY <1>15 DEF D_SenalReady, PunteroPlanificador, EnD, SenalPlanificador, colas
  <2>4. PunteroDeadlock'
    BY <1>15 DEF D_SenalReady, PunteroDeadlock, EnD
  <2>5. UNCHANGED <<recursos, colas, info, gui, red, procesos, config, duenio, fallo,
                  block, principal>>
    BY <1>15 DEF D_SenalReady
  <2> QED
    BY <2>1, <2>2, <2>3, <2>4, <2>5, SinCambio
<1>16. CASE D_EntregaNull
  <2>1. TipoDeadlock'
    BY <1>16 DEF D_EntregaNull, TipoDeadlock, TipoColas
  <2>2. PunteroDeadlock'
    BY <1>16 DEF D_EntregaNull, PunteroDeadlock, EnD
  <2>3. UNCHANGED <<recursos, colas, info, gui, red, procesos, config, duenio, fallo,
                  planificador, block, principal>>
    BY <1>16 DEF D_EntregaNull
  <2> QED
    BY <2>1, <2>2, <2>3, SinCambio
<1>17. CASE D_Rebloquea
  <2>1. Head(peleadores) \in Conexiones /\ Tail(peleadores) \in Seq(Conexiones)
    BY <1>17, HeadTailProperties DEF D_Rebloquea, EnD, PunteroDeadlock, TipoDeadlock
  <2>2. colaBlock' \in Seq(Conexiones)
    BY <1>17, <2>1, PopEntrenadorTipo DEF D_Rebloquea, TipoColas, TipoDeadlock
  <2>3. TipoColas'
    BY <1>17, <2>2 DEF D_Rebloquea, TipoColas
  <2>4. TipoInfo'
    BY <1>17, <2>1 DEF D_Rebloquea, TipoInfo
  <2>5. TipoProceso'
    BY <1>17 DEF D_Rebloquea, TipoProceso, UsarMsj, config
  <2>6. TipoDeadlock'
    BY <1>17, <2>1 DEF D_Rebloquea, TipoDeadlock
  <2>7. PunteroPlanificador'
    BY <1>17 DEF D_Rebloquea, PunteroPlanificador, EnD, planificador
  <2>8. PunteroDeadlock'
    BY <1>17 DEF D_Rebloquea, PunteroDeadlock, EnD
  <2>9. UNCHANGED <<recursos, red, procesos, planificador, block, principal>>
    BY <1>17 DEF D_Rebloquea
  <2> QED
    BY <2>3, <2>4, <2>5, <2>6, <2>7, <2>8, <2>9, SinCambio
<1>18. CASE D_AvisaVacio
  <2>1. TipoDeadlock'
    BY <1>18 DEF D_AvisaVacio, TipoDeadlock
  <2>2. PunteroDeadlock'
    BY <1>18 DEF D_AvisaVacio, PunteroDeadlock, EnD
  <2>3. UNCHANGED <<recursos, colas, info, gui, red, procesos, config, duenio, fallo,
                  planificador, block, principal>>
    BY <1>18 DEF D_AvisaVacio
  <2> QED
    BY <2>1, <2>2, <2>3, SinCambio
<1>19. CASE D_SenalVacio
  <2>1. TipoBlock'
    BY <1>19 DEF D_SenalVacio, TipoBlock, SenalBlockEmpty
  <2>2. TipoDeadlock'
    BY <1>19 DEF D_SenalVacio, TipoDeadlock
  <2>3. PunteroBlock'
    BY <1>19 DEF D_SenalVacio, PunteroBlock, EnD, SenalBlockEmpty
  <2>4. PunteroDeadlock'
    BY <1>19 DEF D_SenalVacio, PunteroDeadlock, EnD
  <2>5. UNCHANGED <<recursos, colas, info, gui, red, procesos, config, duenio, fallo,
                  planificador, principal>>
    BY <1>19 DEF D_SenalVacio
  <2> QED
    BY <2>1, <2>2, <2>3, <2>4, <2>5, SinCambio
<1>20. CASE D_Suelta
  <2>1. TipoProceso'
    BY <1>20 DEF D_Suelta, TipoProceso, config
  <2>2. TipoDeadlock'
    BY <1>20 DEF D_Suelta, TipoDeadlock
  <2>3. PunteroDeadlock'
    BY <1>20 DEF D_Suelta, PunteroDeadlock, EnD
  <2>4. UNCHANGED <<recursos, colas, info, gui, red, procesos, planificador, block,
                  principal>>
    BY <1>20 DEF D_Suelta
  <2> QED
    BY <2>1, <2>2, <2>3, <2>4, SinCambio
<1>21. CASE D_Despierta
  <2>1. TipoBlock'
    BY <1>21 DEF D_Despierta, TipoBlock, SenalBlock
  <2>2. TipoDeadlock'
    BY <1>21 DEF D_Despierta, TipoDeadlock
  <2>3. PunteroBlock'
    BY <1>21 DEF D_Despierta, PunteroBlock, EnD, SenalBlock
  <2>4. PunteroDeadlock'
    BY <1>21 DEF D_Despierta, PunteroDeadlock, EnD
  <2>5. UNCHANGED <<recursos, colas, info, gui, red, procesos, config, duenio, fallo,
                  planificador, principal>>
    BY <1>21 DEF D_Despierta
  <2> QED
    BY <2>1, <2>2, <2>3, <2>4, <2>5, SinCambio
<1> QED
  BY <1>1, <1>2, <1>3, <1>4, <1>5, <1>6, <1>7, <1>8, <1>9, <1>10, <1>11, <1>12, <1>13, <1>14, <1>15, <1>16, <1>17, <1>18, <1>19, <1>20, <1>21 DEF Interbloqueo

LEMMA AtenderTipos == Tipos /\ Atender => Tipos'
<1> SUFFICES ASSUME Tipos, Atender PROVE Tipos'
  OBVIOUS
<1> USE DEF Tipos, TypeOK, Punteros
<1>1. CASE M_Select
  <2>1. TipoPrincipal'
    BY <1>1 DEF M_Select, TipoPrincipal, Legibles
  <2>2. PunteroPrincipal'
    BY <1>1 DEF M_Select, PunteroPrincipal, EnM, red
  <2>3. UNCHANGED <<recursos, colas, info, gui, red, procesos, config, duenio, fallo,
                  planificador, block, deadlock>>
    BY <1>1 DEF M_Select
  <2> QED
    BY <2>1, <2>2, <2>3, SinCambio
<1>2. CASE M_Acepta
  <2>1. /\ pendientes # <<>> /\ Head(pendientes) \in Conexiones
        /\ Tail(pendientes) \in Seq(Conexiones)
    BY <1>2, HeadTailProperties DEF M_Acepta, EnM, PunteroPrincipal, TipoRed
  <2>2. aMapa' \in [Conexiones -> Seq(Mensaje)] /\ msj' \in [Conexiones -> MsjGuardado]
    BY <1>2, <2>1, ProximoTipo, TomarTipo DEF M_Acepta, TipoInfo
  <2>3. gui' \in [Entrenadores -> Seq(Posicion)]
    BY <1>2, <2>1, SimboloTipo DEF M_Acepta, TipoInfo, Origen, Posicion
  <2>4. colaReady' = Append(colaReady, Head(pendientes))
    BY <1>2, <2>1 DEF M_Acepta
  <2>5. colaReady' # <<>> /\ UNCHANGED planificador
    BY <1>2, <2>1, <2>4 DEF M_Acepta, TipoColas
  <2>6. TipoColas'
    BY <1>2, <2>1 DEF M_Acepta, TipoColas
  <2>7. TipoInfo'
    BY <1>2, <2>2, <2>3 DEF M_Acepta, TipoInfo
  <2>8. TipoRed'
    BY <1>2, <2>1, <2>2 DEF M_Acepta, TipoRed
  <2>9. TipoPrincipal'
    BY <1>2, <2>1 DEF M_Acepta, TipoPrincipal
  <2>10. PunteroPlanificador'
    BY <1>2, <2>5 DEF M_Acepta, PunteroPlanificador, EnM, planificador
  <2>11. PunteroPrincipal'
    BY <1>2 DEF M_Acepta, PunteroPrincipal, EnM
  <2>12. UNCHANGED <<recursos, procesos, config, duenio, fallo, planificador, block,
                  deadlock>>
    BY <1>2 DEF M_Acepta
  <2> QED
    BY <2>6, <2>7, <2>8, <2>9, <2>10, <2>11, <2>12, SinCambio
<1>3. CASE M_AceptaNull
  <2>1. TipoProceso'
    BY <1>3 DEF M_AceptaNull, TipoProceso, config
  <2>2. UNCHANGED <<recursos, colas, info, gui, red, procesos, planificador, block,
                  deadlock, principal>>
    BY <1>3 DEF M_AceptaNull
  <2> QED
    BY <2>1, <2>2, SinCambio
<1>4. CASE M_AvisaReady
  <2>1. TipoPrincipal'
    BY <1>4 DEF M_AvisaReady, TipoPrincipal
  <2>2. PunteroPrincipal'
    BY <1>4 DEF M_AvisaReady, PunteroPrincipal, EnM, red
  <2>3. UNCHANGED <<recursos, colas, info, gui, red, procesos, config, duenio, fallo,
                  planificador, block, deadlock>>
    BY <1>4 DEF M_AvisaReady
  <2> QED
    BY <2>1, <2>2, <2>3, SinCambio
<1>5. CASE M_SenalReady
  <2>1. TipoPlanificador'
    BY <1>5 DEF M_SenalReady, TipoPlanificador, SenalPlanificador
  <2>2. TipoPrincipal'
    BY <1>5 DEF M_SenalReady, TipoPrincipal
  <2>3. PunteroPlanificador'
    BY <1>5 DEF M_SenalReady, PunteroPlanificador, EnM, SenalPlanificador, colas
  <2>4. PunteroPrincipal'
    BY <1>5 DEF M_SenalReady, PunteroPrincipal, EnM, red
  <2>5. UNCHANGED <<recursos, colas, info, gui, red, procesos, config, duenio, fallo,
                  block, deadlock>>
    BY <1>5 DEF M_SenalReady
  <2> QED
    BY <2>1, <2>2, <2>3, <2>4, <2>5, SinCambio
<1>6. CASE M_Revisa
  <2>1. TipoPrincipal'
    BY <1>6 DEF M_Revisa, TipoPrincipal
  <2>2. PunteroPrincipal'
    BY <1>6 DEF M_Revisa, PunteroPrincipal, EnM, red
  <2>3. UNCHANGED <<recursos, colas, info, gui, red, procesos, config, duenio, fallo,
                  planificador, block, deadlock>>
    BY <1>6 DEF M_Revisa
  <2> QED
    BY <2>1, <2>2, <2>3, SinCambio
<1>7. CASE M_Borra
  <2>1. clientes[iM] \in Conexiones /\ iM \in 1 .. Len(clientes)
    BY <1>7, ElementOfSeq, LenProperties DEF M_Borra, TipoPrincipal
  <2>2. gui' \in [Entrenadores -> Seq(Posicion)]
    BY <1>7, <2>1, SimboloTipo, HeadTailProperties DEF M_Borra, TipoInfo
  <2>3. TipoInfo'
    BY <1>7, <2>2 DEF M_Borra, TipoInfo, info
  <2>4. TipoPrincipal'
    BY <1>7, <2>1 DEF M_Borra, TipoPrincipal, TipoColas
  <2>5. PunteroPrincipal'
    BY <1>7, <2>1 DEF M_Borra, PunteroPrincipal, EnM, red
  <2>6. UNCHANGED <<recursos, colas, red, procesos, config, duenio, fallo,
                  planificador, block, deadlock>>
    BY <1>7 DEF M_Borra
  <2> QED
    BY <2>3, <2>4, <2>5, <2>6, SinCambio
<1>8. CASE M_Saca
  <2>1. colaBlock' \in Seq(Conexiones)
    BY <1>8, PopEntrenadorTipo DEF M_Saca, TipoColas, TipoPrincipal
  <2>2. TipoColas'
    BY <1>8, <2>1 DEF M_Saca, TipoColas
  <2>3. TipoProceso'
    BY <1>8 DEF M_Saca, TipoProceso, config
  <2>4. TipoPrincipal'
    BY <1>8 DEF M_Saca, TipoPrincipal
  <2>5. PunteroPlanificador'
    BY <1>8 DEF M_Saca, PunteroPlanificador, EnM, planificador
  <2>6. PunteroPrincipal'
    BY <1>8 DEF M_Saca, PunteroPrincipal, EnM, red
  <2>7. UNCHANGED <<recursos, info, gui, red, procesos, planificador, block, deadlock>>
    BY <1>8 DEF M_Saca
  <2> QED
    BY <2>2, <2>3, <2>4, <2>5, <2>6, <2>7, SinCambio
<1>9. CASE M_AvisaBlock
  <2>1. Quitar(clientes, iM) \in Seq(Conexiones)
    BY <1>9, QuitarTipo DEF M_AvisaBlock, EnM, PunteroPrincipal, TipoPrincipal
  <2>2. TipoBlock'
    BY <1>9 DEF M_AvisaBlock, TipoBlock, SenalBlock
  <2>3. TipoPrincipal'
    BY <1>9, <2>1 DEF M_AvisaBlock, TipoPrincipal
  <2>4. PunteroBlock'
    BY <1>9 DEF M_AvisaBlock, PunteroBlock, EnM, SenalBlock
  <2>5. PunteroPrincipal'
    BY <1>9 DEF M_AvisaBlock, PunteroPrincipal, EnM, red
  <2>6. UNCHANGED <<recursos, colas, info, gui, red, procesos, config, duenio, fallo,
                  planificador, deadlock>>
    BY <1>9 DEF M_AvisaBlock
  <2> QED
    BY <2>2, <2>3, <2>4, <2>5, <2>6, SinCambio
<1>10. CASE M_Termina
  <2>1. TipoPrincipal'
    BY <1>10 DEF M_Termina, TipoPrincipal
  <2>2. PunteroPrincipal'
    BY <1>10 DEF M_Termina, PunteroPrincipal, EnM, red
  <2>3. UNCHANGED <<recursos, colas, info, gui, red, procesos, config, duenio, fallo,
                  planificador, block, deadlock>>
    BY <1>10 DEF M_Termina
  <2> QED
    BY <2>1, <2>2, <2>3, SinCambio
<1> QED
  BY <1>1, <1>2, <1>3, <1>4, <1>5, <1>6, <1>7, <1>8, <1>9, <1>10 DEF Atender

LEMMA RecargarTipos == Tipos /\ Recargar => Tipos'
<1> SUFFICES ASSUME Tipos, Recargar PROVE Tipos'
  OBVIOUS
<1> USE DEF Tipos, TypeOK, Punteros
<1>1. TipoProceso'
  BY DEF Recargar, TipoProceso
<1>2. UNCHANGED <<recursos, colas, info, gui, red, procesos, planificador, block,
                  deadlock, principal>>
  BY DEF Recargar
<1> QED
  BY <1>1, <1>2, SinCambio

LEMMA EntrenadorTipos ==
    \A c \in Conexiones : Tipos /\ (E_Conecta(c) \/ Avanza(c) \/ E_Cae(c)) => Tipos'
<1> SUFFICES ASSUME NEW c \in Conexiones, Tipos, E_Conecta(c) \/ Avanza(c) \/ E_Cae(c)
             PROVE  Tipos'
  OBVIOUS
<1> USE DEF Tipos, TypeOK, Punteros
\* What no trainer touches, and pendientes, which only grows.
<1>1. UNCHANGED <<recursos, colas, info, gui, config, duenio, fallo, planificador,
                  block, deadlock, principal>>
  BY DEF Avanza, E_Conecta, E_Saluda, E_Camina, E_Captura, E_Pelea, E_Muere, E_Otro, E_Cae
<1>2. pendientes' \in Seq(Conexiones) /\ (pendientes # <<>> => pendientes' # <<>>)
  <2>1. pendientes' = pendientes \/ pendientes' = Append(pendientes, c)
    BY DEF Avanza, E_Conecta, E_Saluda, E_Camina, E_Captura, E_Pelea, E_Muere, E_Otro,
       E_Cae
  <2>2. Append(pendientes, c) \in Seq(Conexiones) /\ Append(pendientes, c) # <<>>
    <3>1. pendientes \in Seq(Conexiones)
      BY DEF TipoRed
    <3> QED
      BY <3>1, AppendProperties
  <2> QED
    BY <2>1, <2>2 DEF TipoRed
<1>3. PunteroPrincipal'
  BY <1>1, <1>2 DEF PunteroPrincipal, principal
<1> SUFFICES /\ aMapa' \in [Conexiones -> Seq(Mensaje)]
             /\ aEntrenador' \in [Conexiones -> Seq(MsjGuardado)]
             /\ TipoProcesos' /\ PunteroEntrenador'
  BY <1>1, <1>2, <1>3, SinCambio DEF TipoRed
<1>4. CASE E_Conecta(c)
  BY <1>4 DEF E_Conecta, EnE, TipoRed, TipoProcesos, PunteroEntrenador
<1>5. CASE E_Saluda(c)
  <2>1. /\ objetivos[c] # <<>> /\ Head(objetivos[c]) \in Pokenests
        /\ Tail(objetivos[c]) \in Seq(Pokenests)
    BY <1>5, HeadTailProperties DEF E_Saluda, EnE, TipoProcesos, PunteroEntrenador
  <2>2. Append(aMapa[c], Pedido("UBICACION_POKENEST", Head(objetivos[c]))) \in Seq(Mensaje)
    BY <2>1, PedidoTipo DEF TipoRed, Acciones
  <2> QED
    BY <1>5, <2>1, <2>2 DEF E_Saluda, TipoRed, TipoProcesos, PunteroEntrenador
<1>6. CASE E_Camina(c)
  <2> DEFINE m == Head(aEntrenador[c])
             destino == Ubicacion[m.pokemon]
             camino == IF m.accion = "UBICACION_POKENEST"
                         THEN CalcularColaMovimientos(posE[c], destino)
                         ELSE movimientos[c]
  <2>1. m \in Mensaje
    BY <1>6, LeidoTipo DEF E_Camina, Mensaje, MsjGuardado, Acciones
  <2>2. destino \in Posicion /\ posE[c] \in Posicion
    BY <2>1, ConstantesAssumption DEF Mensaje, TipoProcesos
  <2>3. camino \in Seq(Sentidos)
    BY <2>2, CaminoTipo DEF TipoProcesos
  <2> HIDE DEF camino
  <2>4. camino # <<>> => Head(camino) \in Sentidos /\ Tail(camino) \in Seq(Sentidos)
    BY <2>3, HeadTailProperties
  <2>5. \/ /\ Responder(c, Con(m, "CAPTURAR_POKEMON"))
           /\ UNCHANGED posE \/ posE' = [posE EXCEPT ![c] = destino]
           /\ movimientos' = [movimientos EXCEPT ![c] = <<>>]
        \/ /\ camino # <<>>
           /\ Responder(c, [m EXCEPT !.accion = "MOVERSE", !.movimiento = Head(camino)])
           /\ movimientos' = [movimientos EXCEPT ![c] = Tail(camino)]
           /\ UNCHANGED posE
    BY <1>6 DEF E_Camina, camino
  <2>6. aMapa' \in [Conexiones -> Seq(Mensaje)]
    <3>1. Con(m, "CAPTURAR_POKEMON") \in Mensaje
      BY <2>1, ConTipo DEF Acciones
    <3>2. camino # <<>> =>
            [m EXCEPT !.accion = "MOVERSE", !.movimiento = Head(camino)] \in Mensaje
      BY <2>1, <2>4 DEF Mensaje, Acciones
    <3> QED
      BY <2>5, <3>1, <3>2, ResponderTipo
  <2>7. movimientos' \in [Conexiones -> Seq(Sentidos)] /\ posE' \in [Conexiones -> Posicion]
    <3>1. <<>> \in Seq(Sentidos)
      OBVIOUS
    <3>2. CASE movimientos' = [movimientos EXCEPT ![c] = <<>>]
      BY <2>2, <2>5, <3>1, <3>2 DEF TipoProcesos
    <3>3. CASE /\ camino # <<>> /\ UNCHANGED posE
               /\ movimientos' = [movimientos EXCEPT ![c] = Tail(camino)]
      BY <2>4, <3>3 DEF TipoProcesos
    <3> QED
      BY <2>5, <3>2, <3>3
  <2>8. aEntrenador' \in [Conexiones -> Seq(MsjGuardado)]
    BY <1>6, LeerTipo DEF E_Camina
  <2> QED
    BY <1>6, <2>6, <2>7, <2>8 DEF E_Camina, TipoProcesos, PunteroEntrenador
<1>7. CASE E_Captura(c)
  <2> DEFINE m == Head(aEntrenador[c])
             e == Simbolo(c)
  <2>1. e \in Entrenadores
    BY SimboloTipo
  <2>2. aEntrenador[c] \in Seq(MsjGuardado) /\ Len(aEntrenador[c]) > 1
    BY <1>7 DEF E_Captura, TipoRed
  <2>3. /\ aEntrenador[c] # <<>> /\ m.accion = "CAPTURAR_POKEMON"
        /\ Tail(Tail(aEntrenador[c])) \in Seq(MsjGuardado)
    <3>1. m.accion = "CAPTURAR_POKEMON"
      BY <1>7 DEF E_Captura
    <3> QED
      BY <2>2, <3>1, DosTramasTipo
  <2>4. m \in Mensaje
    BY <2>3, LeidoTipo DEF Mensaje, MsjGuardado, Acciones
  <2>5. CASE objetivos[c] = <<>>
    <3>1. /\ Responder(c, Con(m, "OBJETIVO_CUMPLIDO"))
          /\ pcE' = [pcE EXCEPT ![c] = "cumplido"]
          /\ mochila' = [mochila EXCEPT ![e] = 0]
          /\ aEntrenador' = [aEntrenador EXCEPT ![c] = <<>>]
          /\ UNCHANGED <<objetivos, movimientos, posE>>
      BY <1>7, <2>5 DEF E_Captura
    <3>2. aMapa' \in [Conexiones -> Seq(Mensaje)]
      BY <2>4, <3>1, ConTipo, ResponderTipo DEF Acciones
    <3>3. aEntrenador' \in [Conexiones -> Seq(MsjGuardado)]
      BY <3>1 DEF TipoRed
    <3> QED
      BY <2>1, <3>1, <3>2, <3>3 DEF TipoProcesos, PunteroEntrenador
  <2>6. CASE objetivos[c] # <<>>
    <3>1. Head(objetivos[c]) \in Pokenests /\ Tail(objetivos[c]) \in Seq(Pokenests)
      BY <2>6, HeadTailProperties DEF TipoProcesos
    <3>2. /\ Responder(c, Pedido("UBICACION_POKENEST", Head(objetivos[c])))
          /\ objetivos' = [objetivos EXCEPT ![c] = Tail(@)]
          /\ mochila' = [mochila EXCEPT ![e] = @ + 1]
          /\ aEntrenador' = [aEntrenador EXCEPT ![c] = Tail(Tail(@))]
          /\ UNCHANGED <<pcE, movimientos, posE>> /\ pcE[c] = "mensaje"
      BY <1>7, <2>6 DEF E_Captura, EnE
    <3>3. aMapa' \in [Conexiones -> Seq(Mensaje)]
      BY <3>1, <3>2, PedidoTipo, ResponderTipo DEF Acciones
    <3>4. aEntrenador' \in [Conexiones -> Seq(MsjGuardado)]
      BY <2>3, <3>2 DEF TipoRed
    <3>5. /\ objetivos' \in [Conexiones -> Seq(Pokenests)]
          /\ mochila' \in [Entrenadores -> Nat]
      BY <2>1, <3>1, <3>2 DEF TipoProcesos
    <3> QED
      BY <3>2, <3>3, <3>4, <3>5 DEF TipoProcesos, PunteroEntrenador
  <2> QED
    BY <2>5, <2>6
<1>8. CASE E_Pelea(c)
  <2>1. Head(aEntrenador[c]) \in MsjGuardado
    BY <1>8, LeidoTipo DEF E_Pelea
  <2>2. aMapa' \in [Conexiones -> Seq(Mensaje)]
    BY <1>8, <2>1, TramaTipo, ResponderTipo DEF E_Pelea, TipoRed, MsjGuardado
  <2>3. aEntrenador' \in [Conexiones -> Seq(MsjGuardado)]
    <3>1. <<>> \in Seq(MsjGuardado)
      OBVIOUS
    <3>2. Leer(c) \/ aEntrenador' = [aEntrenador EXCEPT ![c] = <<>>]
      BY <1>8 DEF E_Pelea
    <3>3. aEntrenador[c] # <<>>
      BY <1>8 DEF E_Pelea
    <3> QED
      BY <3>1, <3>2, <3>3, LeerTipo DEF TipoRed
  <2> QED
    BY <1>8, <2>2, <2>3 DEF E_Pelea, TipoProcesos, PunteroEntrenador
<1>9. CASE E_Muere(c)
  BY <1>9 DEF E_Muere, TipoRed, TipoProcesos, PunteroEntrenador
<1>10. CASE E_Otro(c)
  <2>1. Head(aEntrenador[c]) \in Mensaje
    BY <1>10, LeidoTipo DEF E_Otro, Mensaje, MsjGuardado, Acciones
  <2>2. aMapa' \in [Conexiones -> Seq(Mensaje)]
    BY <1>10, <2>1, ResponderTipo DEF E_Otro, TipoRed
  <2>3. aEntrenador' \in [Conexiones -> Seq(MsjGuardado)]
    <3>1. <<>> \in Seq(MsjGuardado)
      OBVIOUS
    <3>2. Leer(c) \/ aEntrenador' = [aEntrenador EXCEPT ![c] = <<>>]
      BY <1>10 DEF E_Otro
    <3>3. aEntrenador[c] # <<>>
      BY <1>10 DEF E_Otro
    <3> QED
      BY <3>1, <3>2, <3>3, LeerTipo DEF TipoRed
  <2> QED
    BY <1>10, <2>2, <2>3 DEF E_Otro, TipoProcesos, PunteroEntrenador
<1>11. CASE E_Cae(c)
  BY <1>11 DEF E_Cae, TipoRed, TipoProcesos, PunteroEntrenador
<1> QED
  BY <1>4, <1>5, <1>6, <1>7, <1>8, <1>9, <1>10, <1>11 DEF Avanza
-----------------------------------------------------------------------------
LEMMA InitTipos == Init => Tipos
<1> SUFFICES ASSUME Init PROVE Tipos
  OBVIOUS
<1>1. /\ \A n \in Pokenests : DelNido(n) \subseteq Pokemons
      /\ \A n \in Pokenests : Cardinality(DelNido(n)) \in Nat
  BY FS_Subset, FS_CardinalityType, ConstantesAssumption DEF DelNido
<1>2. \A c \in Conexiones : /\ Objetivos[Simbolo(c)] \in Seq(Pokenests)
                            /\ Objetivos[Simbolo(c)] # <<>>
                            /\ Head(Objetivos[Simbolo(c)]) \in Pokenests
  BY SimboloTipo, ConstantesAssumption, HeadTailProperties
<1>3. TipoRecursos
  BY <1>1 DEF Init, TipoRecursos
<1>4. TipoColas /\ TipoRed /\ TipoProceso /\ TipoPlanificador /\ TipoBlock
  BY ConstantesAssumption DEF Init, TipoColas, TipoRed, TipoProceso, TipoPlanificador,
     TipoBlock
<1>5. TipoDeadlock /\ TipoPrincipal
  <2>1. caido \in BOOLEAN
    BY Zenon DEF Init
  <2>2. <<>> \in Seq(Conexiones)
    OBVIOUS
  <2> QED
    BY <2>1, <2>2 DEF Init, TipoDeadlock, TipoPrincipal
<1>6. TipoInfo
  <2>1. \A c \in Conexiones :
          Con(Pedido("UBICACION_POKENEST", Head(Objetivos[Simbolo(c)])), "NULL")
            \in MsjGuardado
    BY <1>2, PedidoTipo DEF Con, Mensaje, MsjGuardado, Acciones
  <2> QED
    BY <2>1 DEF Init, TipoInfo
<1>7. TipoProcesos
  BY <1>2 DEF Init, TipoProcesos, Origen, Posicion
<1>8. Punteros
  BY <1>2 DEF Init, Punteros, PunteroPlanificador, PunteroBlock, PunteroDeadlock,
     PunteroPrincipal, PunteroEntrenador
<1> QED
  BY <1>3, <1>4, <1>5, <1>6, <1>7, <1>8 DEF Tipos, TypeOK

LEMMA NextTipos == Tipos /\ [Next]_vars => Tipos'
<1>1. Tipos /\ UNCHANGED vars => Tipos'
  BY SinCambio DEF vars, Tipos, TypeOK, Punteros, colas, red
<1> QED
  BY <1>1, PlanificarTipos, BloquearTipos, InterbloqueoTipos, AtenderTipos,
     RecargarTipos, EntrenadorTipos DEF Next

(***************************************************************************)
(* The four threads of the map and the trainers keep every variable within *)
(* its type, and never take the head of an empty queue or follow NULL but  *)
(* where the code does not look first (those steps end in fallo).          *)
(***************************************************************************)
THEOREM Spec_Tipos == Spec => []Tipos
<1> QED
  BY InitTipos, NextTipos, PTL DEF Spec

(***************************************************************************)
(* In particular the type invariant the runs check, for every instance.    *)
(***************************************************************************)
THEOREM Spec_TypeOK == Spec => []TypeOK
<1>1. Tipos => TypeOK
  BY DEF Tipos
<1> QED
  BY <1>1, Spec_Tipos, PTL
=============================================================================
