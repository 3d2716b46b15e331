------------------------------- MODULE Tramas -------------------------------
(***************************************************************************)
(* The framing of the messages over one TCP connection, from one end to    *)
(* the other (Sockets/socketes.c): an int with the size and then the body. *)
(* TCP delivers the bytes in order and in pieces of any length: recv()     *)
(* returns some of the bytes asked for, or 0 at the end.                   *)
(*                                                                         *)
(* flujo    the frames with bytes still unread: how many (resta), and how  *)
(*          many at its end will never come (perdidos)                     *)
(* abierta  the sender's end is open                                       *)
(* lee      the reader: inside recibirSize ("size"), inside recibirBuffer  *)
(*          with falta bytes to go ("buffer") or with a message ("lista"); *)
(*          Basura is what comes of a size that is not one                 *)
(***************************************************************************)
EXTENDS Naturals, Sequences

CONSTANTS
    Mensajes,
    Cuerpo,         \* the bytes of each message, in TLC's small unit
    TamInt,         \* sizeof(int), in the same unit
    CabeceraEntera, \* the bytes of a size travel together
    Nulo, Ninguno, Basura

ASSUME CuerpoAssumption == Cuerpo \in [Mensajes -> Nat \ {0}]
ASSUME TamIntAssumption == TamInt \in Nat \ {0}
ASSUME CabeceraAssumption == CabeceraEntera \in BOOLEAN
ASSUME NuloAssumption ==
    {Nulo, Ninguno, Basura} \cap Mensajes = {} /\ Nulo # Ninguno /\ Basura # Ninguno

VARIABLES flujo, abierta, lee

conexion == <<flujo, abierta, lee>>

Lee(fase, trama, falta) == [fase |-> fase, trama |-> trama, falta |-> falta]

PorLeer == Lee("size", Ninguno, 0)

InitTramas == flujo = <<>> /\ abierta = FALSE /\ lee = PorLeer

\* A new connection.
socketConectado == flujo' = <<>> /\ abierta' = TRUE /\ lee' = PorLeer

\* One send() with the size and the body.
enviarBuffer(m) ==
    /\ abierta
    /\ flujo' = Append(flujo, [trama |-> m, resta |-> TamInt + Cuerpo[m], perdidos |-> 0])
    /\ UNCHANGED <<abierta, lee>>

\* The k bytes that come of a frame when the connection is lost.
Cortada(x, k) == [trama |-> x.trama, resta |-> k, perdidos |-> x.resta - k]

\* The sender closes, dies or loses the connection: the bytes from one on are never
\* read, the n frames before are whole.
Cortar ==
    /\ abierta
    /\ abierta' = FALSE
    /\ \E n \in 0 .. Len(flujo) :
          \/ flujo' = SubSeq(flujo, 1, n)
          \/ /\ n < Len(flujo)
             /\ \E k \in 1 .. flujo[n + 1].resta - 1 :
                   /\ CabeceraEntera /\ flujo[n + 1].resta > Cuerpo[flujo[n + 1].trama]
                        => k >= TamInt
                   /\ flujo' = Append(SubSeq(flujo, 1, n), Cortada(flujo[n + 1], k))
    /\ UNCHANGED lee

\* recv() of up to n bytes gives k of the first frame.
Recibe(n, k) ==
    /\ flujo # <<>>
    /\ k \in 1 .. n /\ k <= Head(flujo).resta
    /\ flujo' = IF k = Head(flujo).resta
                  THEN Tail(flujo)
                  ELSE [flujo EXCEPT ![1].resta = @ - k]

EnInicio ==
    Head(flujo).resta + Head(flujo).perdidos = TamInt + Cuerpo[Head(flujo).trama]

\* One recv() for the size: what it returns is taken for the whole int, and nothing
\* at the end is a size of 0, which gives the caller a NULL.
recibirSize ==
    /\ lee.fase = "size"
    /\ \/ /\ flujo = <<>> /\ ~abierta
          /\ lee' = Lee("lista", Nulo, 0)
          /\ UNCHANGED flujo
       \/ \E k \in 1 .. TamInt :
            /\ Recibe(TamInt, k)
            /\ CabeceraEntera => k = TamInt
            /\ lee' = IF k = TamInt /\ EnInicio
                        THEN Lee("buffer", Head(flujo).trama, Cuerpo[Head(flujo).trama])
                        ELSE Lee("lista", Basura, 0)
    /\ UNCHANGED abierta

\* Mutation: one recv() and no loop.
recibirBufferSinBucle ==
    /\ lee.fase = "buffer"
    /\ \E k \in 1 .. lee.falta :
          /\ Recibe(lee.falta, k)
          /\ lee' = Lee("lista", lee.trama, 0)
    /\ UNCHANGED abierta

\* recv() again until the body is there.  At the end recv() gives 0 for ever and the
\* loop has no exit: there is no step.
recibirBuffer ==
    /\ lee.fase = "buffer"
    /\ \E k \in 1 .. lee.falta :
          /\ Recibe(lee.falta, k)
          /\ lee' = IF k = lee.falta
                      THEN Lee("lista", lee.trama, 0)
                      ELSE [lee EXCEPT !.falta = @ - k]
    /\ UNCHANGED abierta

\* The caller gets the message and will ask for the next one.
Toma(m) ==
    /\ lee.fase = "lista" /\ lee.trama = m
    /\ lee' = PorLeer
    /\ UNCHANGED <<flujo, abierta>>

\* The loop of recibirBuffer with no exit: the rest of the message will not come.
Girando == lee.fase = "buffer" /\ flujo = <<>> /\ ~abierta

NextTramas ==
    \/ socketConectado \/ Cortar \/ recibirSize \/ recibirBuffer
    \/ \E m \in Mensajes : enviarBuffer(m)
    \/ \E m \in Mensajes \cup {Nulo} : Toma(m)

SpecTramas == InitTramas /\ [][NextTramas]_conexion
-----------------------------------------------------------------------------
\* The messages whose last byte is still to be read.
Enteras ==
    IF flujo # <<>> /\ flujo[Len(flujo)].perdidos > 0 THEN Len(flujo) - 1 ELSE Len(flujo)

Abstracto == INSTANCE Canal WITH
    canal <- [i \in 1 .. Enteras |-> flujo[i].trama],
    viva <- abierta,
    entregado <- IF lee.fase = "lista" THEN lee.trama ELSE Ninguno

\* While the size of a message arrives whole, the framing gives the messages as
\* they were sent, whatever the pieces recv() returns (recibirSize and the loop of
\* recibirBuffer): none is split, joined, repeated or delivered after a NULL.
CumpleCanal == Abstracto!Spec
=============================================================================
