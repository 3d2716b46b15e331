------------------------------- MODULE Colas -------------------------------
(***************************************************************************)
(* The queues of trainers (mapa/src/queue_utils.c).  A queue is a sequence *)
(* with its head first: queue_push is Append, queue_pop takes the Head.    *)
(* Its elements are connections <<trainer, life>>; the symbol a connection *)
(* shows is its trainer's, the same in every life.                         *)
(***************************************************************************)
EXTENDS Integers, Sequences, FiniteSets

Simbolo(c) == c[1]

EnCola(cola, c) == \E i \in 1 .. Len(cola) : cola[i] = c

\* The subsequence of cola at the indices I, as a singleton: I has exactly one
\* increasing enumeration.
EnOrden(cola, I) ==
    {[k \in 1 .. Cardinality(I) |-> cola[g[k]]] :
        g \in {f \in [1 .. Cardinality(I) -> I] :
                  \A j, k \in 1 .. Cardinality(I) : j < k => f[j] < f[k]}}

Rotar(cola, n) ==
    LET k == IF cola = <<>> THEN 0 ELSE n % Len(cola)
    IN  SubSeq(cola, k + 1, Len(cola)) \o SubSeq(cola, 1, k)

\* list_remove
Quitar(lista, i) == SubSeq(lista, 1, i - 1) \o SubSeq(lista, i + 1, Len(lista))

\* popEntrenador: tam elements, counted BEFORE the mutex was taken, are popped
\* one by one and pushed back unless their symbol is s.  What was pushed in
\* between is not visited and ends up in front; if the queue shrank, the turns
\* in excess go round what is left.  The result is the only member of the set.
PopEntrenador(cola, tam, s) ==
    LET visitados == IF tam < Len(cola) THEN tam ELSE Len(cola)
        quedan == {i \in 1 .. visitados : Simbolo(cola[i]) # s}
    IN  {SubSeq(cola, visitados + 1, Len(cola)) \o Rotar(q, tam - visitados) :
            q \in EnOrden(cola, quedan)}

\* One turn too many finds the queue empty: queue_pop has no head to unlink.
PopDeMas(cola, tam, s) ==
    tam > Len(cola) /\ \A i \in 1 .. Len(cola) : Simbolo(cola[i]) = s

\* The size popEntrenador finds when nothing happens before its mutex.
SinEntrenador(cola, s) == PopEntrenador(cola, Len(cola), s)
=============================================================================
